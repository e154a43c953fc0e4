---------------------------- MODULE MappingProofs ----------------------------
(***************************************************************************)
(* What happens to a map, for any number of runs, destinations, sessions   *)
(* and clicks.                                                             *)
(*                                                                         *)
(* Retention: a published map keeps the raw data it refers to, the map is  *)
(* never lost without a user's word, a run that reports SAVED is right,    *)
(* and no destination is replaced.                                         *)
(*                                                                         *)
(* The interactive window: one session runs at a time, no map is dropped,  *)
(* what is shown is consistent, and no outdated click is carried out.      *)
(*                                                                         *)
(* The two models share no state: the save process of the second one ends  *)
(* with one of the results the first one proves true.                      *)
(***************************************************************************)
EXTENDS MapRetention, InteractiveWindow, FiniteSetTheorems, TLAPS

USE RunsAssumption

-----------------------------------------------------------------------------
(* Map retention: the inductive invariant.                                 *)

Intents == {"none", "PREPARED", "COMMITTED", "ABORTED"}
Contents == Runs \cup {"free", "other"}

\* The shape of the variables the argument is about.
Typed ==
    /\ profile \in Profiles
    /\ pc \in [Runs -> Labels] /\ target \in [Runs -> Dests]
    /\ raw \subseteq Pieces /\ declined \in BOOLEAN
    /\ copy \in [Runs -> {"none", "partial", "copied", "synced"}]
    /\ refs \in [Runs -> SUBSET Pieces]
    /\ dest \in [Dests -> Runs \cup {"free", "other"}]
    /\ destSafe \in [Dests -> Runs \cup {"free", "other"}]
    /\ intent \in [Runs -> Intents] /\ intentSafe \in [Runs -> Intents]

\* The run that holds the lock is the one inside of stopped_session().
Exclusive == \A r \in Runs : pc[r] \in Locked <=> lock = r

\* What is safe at a destination is also what programs see.
SafeIsSeen == \A d \in Dests : destSafe[d] \in {"free", dest[d]}

\* Only an experiment's map refers to raw data.
Referring == \A r \in Runs : refs[r] = {} \/ profile = "experiment"

\* Where a run can be once its map is at the destination.
Behind == {"publish"} \cup Cleaning \cup Recording \cup Ended

\* A map at a destination is the chosen one's, whole, announced, and complete
\* with what it refers to.
Announced(r) == intent[r] \in {"PREPARED", "COMMITTED"}
                /\ intentSafe[r] \in {"PREPARED", "COMMITTED"}
Kept(r, d) == /\ pc[r] \in Behind /\ target[r] = d /\ copy[r] = "synced"
              /\ Announced(r) /\ refs[r] \subseteq raw
Owned == \A d \in Dests, r \in Runs : dest[d] = r => Kept(r, d)

\* What a run relies on at a position.
At(r, label) ==
    /\ label \in {"syncing", "prepare", "prepare_sync", "rename"} => refs[r] \subseteq raw
    /\ label \in {"prepare", "prepare_sync", "rename"} => copy[r] = "synced"
    /\ label \in {"prepare_sync", "rename"} => intent[r] = "PREPARED"
    /\ label = "rename" => intentSafe[r] = "PREPARED"
    /\ label = "publish" => dest[target[r]] = r
    /\ label \in Cleaning \cup Recording \cup {"SAVED"} => destSafe[target[r]] = r
    /\ label \in Cleaning => profile = "map_only"
    /\ label = "discard" => declined /\ \A d \in Dests : dest[d] \notin Runs
Positions == \A r \in Runs : At(r, pc[r])

RInv == /\ Typed /\ Exclusive /\ SafeIsSeen /\ Referring /\ Owned /\ Positions
        /\ MapIsSomewhere

-----------------------------------------------------------------------------
(* Steps.                                                                  *)

\* The variables the invariant reads, besides pc and lock.
Data == <<profile, target, raw, declined, copy, refs, dest, destSafe, intent, intentSafe>>

\* A run's positions never lead back from a published map.
LEMMA LabelsDiffer ==
    /\ \A l \in Locked : l \in Labels
    /\ \A l \in Ended : l \in Labels /\ l \notin Locked /\ l \in Behind
    /\ \A l \in Locked : l \notin Ended
    /\ "free" \notin Runs /\ "other" \notin Runs
  BY DEF Locked, Ended, Labels, Behind, Staging, Cleaning, Recording, Aborting, Discarding

\* One run moves to a position whose facts hold and nothing else changes, except
\* that the lock follows it.
LEMMA Moves ==
    ASSUME RInv, NEW r \in Runs, NEW label \in Labels,
           pc' = [pc EXCEPT ![r] = label], UNCHANGED Data,
           At(r, label), pc[r] \in Behind => label \in Behind,
           \/ pc[r] \in Locked /\ label \in Locked /\ lock' = lock
           \/ pc[r] \notin Locked /\ label \notin Locked /\ lock' = lock
           \/ pc[r] \notin Locked /\ label \in Locked /\ lock = "free" /\ lock' = r
           \/ pc[r] \in Locked /\ label \notin Locked /\ lock' = "free"
    PROVE  RInv'
  <1> USE LabelsDiffer DEF RInv
  <1>1. pc' \in [Runs -> Labels] /\ pc'[r] = label /\ \A q \in Runs \ {r} : pc'[q] = pc[q]
    BY DEF Typed
  <1>2. Typed'
    BY <1>1 DEF Typed, Data
  <1>3. Exclusive'
    BY <1>1 DEF Exclusive
  <1>4. SafeIsSeen' /\ Referring' /\ MapIsSomewhere'
    BY DEF SafeIsSeen, Referring, MapIsSomewhere, Whole, Data
  <1>5. Owned'
    BY <1>1 DEF Owned, Kept, Announced, Data
  <1>6. Positions'
    <2> SUFFICES ASSUME NEW q \in Runs PROVE At(q, pc[q])'
      BY DEF Positions
    <2>1. At(q, pc'[q])
      BY <1>1 DEF Positions
    <2> QED
      BY <2>1 DEF At, Data
  <1> QED
    BY <1>2, <1>3, <1>4, <1>5, <1>6

\* Where an exception leads from each part of save_session().
LEMMA AfterFailures ==
    ASSUME NEW label
    PROVE  /\ label \in Staging => AfterFailure(label) = {"abort"}
           /\ label \in Cleaning => AfterFailure(label) = {"record", "FAILED"}
           /\ label \in Recording => AfterFailure(label) = {"SAVED", "FAILED"}
           /\ label \notin Staging \cup Cleaning \cup Recording => AfterFailure(label) = {"FAILED"}
  <1>1. /\ label \in Staging => label \notin Cleaning \cup Recording
        /\ label \in Cleaning => label \notin Staging \cup Recording
        /\ label \in Recording => label \notin Staging \cup Cleaning
    BY DEF Staging, Cleaning, Recording
  <1> QED
    BY <1>1 DEF AfterFailure

\* The steps that only move a run, or change the export or retention.json.
LEMMA MovingSteps ==
    ASSUME RInv, NEW r \in Runs,
           \/ SessionHandle(r) \/ ChooseSave(r) \/ ChooseOther(r) \/ LockBusy(r)
           \/ LockToSave(r) \/ ExportReused(r) \/ ExportBegins(r) \/ ExportEnds(r)
           \/ RenameRefused(r) \/ Removed(r) \/ Cleaned(r) \/ CleanedSynced(r)
           \/ Discarded(r) \/ DiscardedSynced(r) \/ Record(r) \/ Recorded(r)
           \/ Fails(r) \/ AbortUnprepared(r) \/ Killed(r)
    PROVE  RInv'
  <1>0. At(r, pc[r]) /\ pc[r] \in Labels /\ (pc[r] \in Locked <=> lock = r)
    BY DEF RInv, Positions, Typed, Exclusive
  <1>1. CASE SessionHandle(r) \/ ChooseSave(r) \/ ChooseOther(r) \/ LockBusy(r)
    <2> DEFINE label == pc'[r]
    <2>1. /\ pc' = [pc EXCEPT ![r] = label] /\ label \in {"ask", "save", "decline", "FAILED", "SAVE_PENDING"}
          /\ pc[r] \in {"new", "ask", "save", "decline"} /\ UNCHANGED <<Data, lock>>
      BY <1>1 DEF SessionHandle, ChooseSave, ChooseOther, LockBusy, Goto, Data, disk, RInv, Typed
    <2>2. At(r, label) /\ label \in Labels /\ pc[r] \notin Locked /\ label \notin Locked
          /\ pc[r] \notin Behind
      BY <2>1 DEF At, Locked, Ended, Behind, Labels, Staging, Cleaning, Recording, Aborting,
         Discarding
    <2> HIDE DEF label
    <2> QED
      BY <2>1, <2>2, Moves
  <1>2. CASE LockToSave(r)
    <2>1. pc' = [pc EXCEPT ![r] = "export"] /\ pc[r] = "save" /\ UNCHANGED Data
          /\ lock = "free" /\ lock' = r
      BY <1>2 DEF LockToSave, Goto, Data, disk
    <2>2. At(r, "export") /\ "export" \in Labels /\ pc[r] \notin Locked /\ "export" \in Locked
          /\ pc[r] \notin Behind
      BY <2>1 DEF At, Locked, Ended, Behind, Labels, Staging, Cleaning, Recording, Aborting,
         Discarding
    <2> QED
      BY <2>1, <2>2, Moves
  <1>3. CASE ExportReused(r) \/ ExportBegins(r) \/ ExportEnds(r) \/ RenameRefused(r) \/ AbortUnprepared(r)
    <2> DEFINE label == pc'[r]
    <2>1. /\ pc' = [pc EXCEPT ![r] = label] /\ label \in {"stage", "exporting", "abort", "abort_remove"}
          /\ pc[r] \in {"export", "exporting", "rename", "abort"} /\ UNCHANGED <<Data, lock>>
      BY <1>3 DEF ExportReused, ExportBegins, ExportEnds, RenameRefused, AbortUnprepared, Goto,
         Data,
                  disk, RInv, Typed
    <2>2. At(r, label) /\ label \in Labels /\ pc[r] \in Locked /\ label \in Locked
          /\ pc[r] \notin Behind
      BY <2>1 DEF At, Locked, Ended, Behind, Labels, Staging, Cleaning, Recording, Aborting,
         Discarding
    <2> HIDE DEF label
    <2> QED
      BY <2>1, <2>2, Moves
  <1>4. CASE Removed(r) \/ Cleaned(r) \/ CleanedSynced(r) \/ Record(r) \/ Recorded(r)
    <2> DEFINE label == pc'[r]
    <2>1. /\ pc' = [pc EXCEPT ![r] = label]
          /\ \/ pc[r] \in {"cleanup", "cleaned", "cleaned_sync", "record", "record_sync"}
                /\ label \in {"cleaned", "cleaned_sync", "record", "record_sync", "commit"}
                /\ (label \in {"cleaned", "cleaned_sync"} => pc[r] \in {"cleanup", "cleaned"})
             \/ pc[r] = "discard" /\ label = "discarded"
          /\ UNCHANGED <<Data, lock>>
      BY <1>4 DEF Removed, Cleaned, CleanedSynced, Record, Recorded, PutRetention, SyncRetention,
                  Goto, Data, RInv, Typed
    <2>2. At(r, label) /\ label \in Labels /\ pc[r] \in Locked /\ label \in Locked
          /\ (pc[r] \in Behind => label \in Behind)
      BY <1>0, <2>1 DEF At, Locked, Ended, Behind, Labels, Staging, Cleaning, Recording, Aborting,
         Discarding
    <2> HIDE DEF label
    <2> QED
      BY <2>1, <2>2, Moves
  <1>5. CASE Discarded(r)
    <2>1. pc' = [pc EXCEPT ![r] = "discarded_sync"] /\ pc[r] = "discarded" /\ UNCHANGED <<Data, lock>>
      BY <1>5 DEF Discarded, PutRetention, Goto, Data
    <2>2. At(r, "discarded_sync") /\ "discarded_sync" \in Labels /\ pc[r] \in Locked
          /\ "discarded_sync" \in Locked /\ pc[r] \notin Behind
      BY <2>1 DEF At, Locked, Ended, Behind, Labels, Staging, Cleaning, Recording, Aborting,
         Discarding
    <2> QED
      BY <2>1, <2>2, Moves
  <1>6. CASE DiscardedSynced(r)
    <2>1. pc' = [pc EXCEPT ![r] = "DISCARDED"] /\ pc[r] = "discarded_sync" /\ UNCHANGED Data
          /\ lock' = IF lock = r THEN "free" ELSE lock
      BY <1>6 DEF DiscardedSynced, SyncRetention, End, Goto, Data
    <2>2. At(r, "DISCARDED") /\ "DISCARDED" \in Labels /\ pc[r] \in Locked
          /\ "DISCARDED" \notin Locked /\ pc[r] \notin Behind
      BY <2>1 DEF At, Locked, Ended, Behind, Labels, Staging, Cleaning, Recording, Aborting,
         Discarding
    <2> QED
      BY <1>0, <2>1, <2>2, Moves
  <1>7. CASE Killed(r)
    <2>1. pc' = [pc EXCEPT ![r] = "dead"] /\ UNCHANGED Data
          /\ lock' = IF lock = r THEN "free" ELSE lock
      BY <1>7 DEF Killed, End, Goto, Data, disk
    <2>2. At(r, "dead") /\ "dead" \in Labels /\ "dead" \notin Locked /\ "dead" \in Behind
      BY DEF At, Locked, Ended, Behind, Labels, Staging, Cleaning, Recording, Aborting, Discarding
    <2> QED
      BY <1>0, <2>1, <2>2, Moves
  <1>8. CASE Fails(r)
    <2>1. PICK label \in AfterFailure(pc[r]) :
             /\ pc' = [pc EXCEPT ![r] = label]
             /\ lock' = IF label \in Ended /\ lock = r THEN "free" ELSE lock
      BY <1>8 DEF Fails, End, Goto
    <2>2. pc[r] \in Locked /\ UNCHANGED Data
      BY <1>8 DEF Fails, Data, disk
    <2>3. \/ label = "FAILED"
          \/ label = "abort" /\ pc[r] \in Staging
          \/ label = "record" /\ pc[r] \in Cleaning
          \/ label = "SAVED" /\ pc[r] \in Recording
      <3>1. /\ pc[r] \in Staging => label \in {"abort"}
            /\ pc[r] \in Cleaning => label \in {"record", "FAILED"}
            /\ pc[r] \in Recording => label \in {"SAVED", "FAILED"}
            /\ pc[r] \notin Staging \cup Cleaning \cup Recording => label \in {"FAILED"}
        BY <2>1, AfterFailures, Zenon
      <3> QED
        BY <3>1
    <2>4. /\ label \in Labels /\ At(r, label) /\ (pc[r] \in Behind => label \in Behind)
          /\ \/ label \in Ended /\ label \notin Locked
             \/ label \notin Ended /\ label \in Locked
      BY <1>0, <2>3 DEF At, Locked, Ended, Behind, Labels, Staging, Cleaning, Recording, Aborting,
         Discarding
    <2> QED
      BY <1>0, <2>1, <2>2, <2>4, Moves
  <1> QED
    BY <1>1, <1>2, <1>3, <1>4, <1>5, <1>6, <1>7, <1>8

\* While one run is under the lock, no other one is.
LEMMA Alone ==
    ASSUME RInv, NEW r \in Runs, pc[r] \in Locked, NEW q \in Runs, q # r
    PROVE  pc[q] \notin Locked
  BY DEF RInv, Exclusive

\* One run under the lock moves and changes its own stage, references or intent.
LEMMA OwnSteps ==
    ASSUME RInv, NEW r \in Runs, NEW label \in Labels,
           pc[r] \in Locked, pc' = [pc EXCEPT ![r] = label],
           \/ label \in Locked /\ lock' = lock
           \/ label \notin Locked /\ lock' = "free",
           UNCHANGED <<profile, target, raw, declined, dest, destSafe>>,
           copy' \in [Runs -> {"none", "partial", "copied", "synced"}],
           refs' \in [Runs -> SUBSET Pieces], intent' \in [Runs -> Intents],
           intentSafe' \in [Runs -> Intents],
           \A q \in Runs \ {r} : /\ copy'[q] = copy[q] /\ refs'[q] = refs[q]
                                 /\ intent'[q] = intent[q] /\ intentSafe'[q] = intentSafe[q],
           refs'[r] = {} \/ profile = "experiment",
           \A d \in Dests : dest[d] = r => Kept(r, d)',
           At(r, label)'
    PROVE  RInv'
  <1> USE LabelsDiffer DEF RInv
  <1>1. pc' \in [Runs -> Labels] /\ pc'[r] = label /\ \A q \in Runs \ {r} : pc'[q] = pc[q]
    BY DEF Typed
  <1>2. Typed'
    BY <1>1 DEF Typed
  <1>3. Exclusive'
    BY <1>1 DEF Exclusive
  <1>4. SafeIsSeen' /\ Referring'
    BY DEF SafeIsSeen, Referring
  <1>5. Owned'
    <2> SUFFICES ASSUME NEW d \in Dests, NEW q \in Runs, dest[d] = q PROVE Kept(q, d)'
      BY DEF Owned
    <2>1. CASE q = r
      BY <2>1
    <2>2. CASE q # r
      BY <1>1, <2>2 DEF Owned, Kept, Announced
    <2> QED
      BY <2>1, <2>2
  <1>6. Positions'
    <2> SUFFICES ASSUME NEW q \in Runs PROVE At(q, pc[q])'
      BY DEF Positions
    <2>1. CASE q = r
      BY <1>1, <2>1
    <2>2. CASE q # r
      <3>1. pc'[q] = pc[q] /\ pc[q] \in Labels /\ pc[q] \notin Locked
        BY <1>1, <2>2, Alone DEF Typed
      <3>2. At(q, pc[q])
        BY DEF Positions
      <3> QED
        BY <3>1, <3>2 DEF At, Locked, Ended, Behind, Labels, Staging, Cleaning, Recording, Aborting,
           Discarding
    <2> QED
      BY <2>1, <2>2
  <1>7. MapIsSomewhere'
    <2>1. ASSUME NEW d \in Dests, Whole(d) PROVE Whole(d)'
      <3>1. destSafe[d] \in Runs /\ dest[d] = destSafe[d]
        BY <2>1 DEF Whole, SafeIsSeen
      <3>2. Kept(destSafe[d], d)'
        BY <1>5, <3>1 DEF Owned
      <3> QED
        BY <3>1, <3>2 DEF Whole, Kept
    <2> QED
      BY <2>1 DEF MapIsSomewhere
  <1> QED
    BY <1>2, <1>3, <1>4, <1>5, <1>6, <1>7

\* A run that has not published yet owns nothing at any destination.
LEMMA Unpublished ==
    ASSUME RInv, NEW r \in Runs, pc[r] \notin Behind
    PROVE  \A d \in Dests : dest[d] # r
  BY DEF RInv, Owned, Kept

\* The steps of the run under the lock that change its stage or its intent.
LEMMA StageSteps ==
    ASSUME RInv, NEW r \in Runs,
           \/ StageMade(r) \/ Copied(r) \/ StageSynced(r) \/ Prepare(r) \/ Prepared(r)
           \/ Abort(r) \/ Aborted(r) \/ StageRemoved(r)
    PROVE  RInv'
  <1>0. At(r, pc[r]) /\ raw \subseteq Pieces /\ (pc[r] \in Locked <=> lock = r)
    BY DEF RInv, Positions, Typed, Exclusive
  <1>1. CASE StageMade(r)
    <2>1. pc[r] = "stage" /\ pc[r] \in Locked /\ pc[r] \notin Behind /\ "copying" \in Locked
          /\ "copying" \in Labels
      BY <1>1 DEF StageMade, Locked, Ended, Behind, Labels, Staging, Cleaning, Recording, Aborting,
         Discarding
    <2>2. At(r, "copying")'
      BY DEF At, Locked, Ended, Behind, Labels, Staging, Cleaning, Recording, Aborting, Discarding
    <2> QED
      BY <1>1, <2>1, <2>2, Unpublished, OwnSteps DEF StageMade, Goto, RInv, Typed, Referring
  <1>2. CASE Copied(r)
    <2>1. pc[r] = "copying" /\ pc[r] \in Locked /\ pc[r] \notin Behind /\ "syncing" \in Locked
          /\ "syncing" \in Labels
      BY <1>2 DEF Copied, Locked, Ended, Behind, Labels, Staging, Cleaning, Recording, Aborting,
         Discarding
    <2>2. refs' \in [Runs -> SUBSET Pieces] /\ refs'[r] \subseteq raw
          /\ (refs'[r] = {} \/ profile = "experiment")
      BY <1>0, <1>2 DEF Copied, RInv, Typed
    <2>3. At(r, "syncing")'
      BY <1>2, <2>2 DEF At, Copied, Locked, Ended, Behind, Labels, Staging, Cleaning, Recording,
         Aborting, Discarding
    <2> QED
      BY <1>2, <2>1, <2>2, <2>3, Unpublished, OwnSteps DEF Copied, Goto, RInv, Typed
  <1>3. CASE StageSynced(r)
    <2>1. pc[r] = "syncing" /\ pc[r] \in Locked /\ pc[r] \notin Behind /\ "prepare" \in Locked
          /\ "prepare" \in Labels
      BY <1>3 DEF StageSynced, Locked, Ended, Behind, Labels, Staging, Cleaning, Recording,
         Aborting, Discarding
    <2>2. copy' \in [Runs -> {"none", "partial", "copied", "synced"}] /\ copy'[r] = "synced"
      BY <1>3 DEF StageSynced, RInv, Typed
    <2>3. At(r, "prepare")'
      BY <1>0, <1>3, <2>1, <2>2 DEF At, StageSynced, Locked, Ended, Behind, Labels, Staging,
         Cleaning, Recording, Aborting, Discarding
    <2> QED
      BY <1>3, <2>1, <2>2, <2>3, Unpublished, OwnSteps DEF StageSynced, Goto, RInv, Typed, Referring
  <1>4. CASE Prepare(r)
    <2>1. pc[r] = "prepare" /\ pc[r] \in Locked /\ pc[r] \notin Behind /\ "prepare_sync" \in Locked
          /\ "prepare_sync" \in Labels
      BY <1>4 DEF Prepare, Locked, Ended, Behind, Labels, Staging, Cleaning, Recording, Aborting,
         Discarding
    <2>2. intent' \in [Runs -> Intents] /\ intent'[r] = "PREPARED"
      BY <1>4 DEF Prepare, PutIntent, Intents, RInv, Typed
    <2>3. At(r, "prepare_sync")'
      BY <1>0, <1>4, <2>1, <2>2 DEF At, Prepare, PutIntent, Locked, Ended, Behind, Labels, Staging,
         Cleaning, Recording, Aborting, Discarding
    <2> QED
      BY <1>4, <2>1, <2>2, <2>3, Unpublished, OwnSteps
      DEF Prepare, PutIntent, Goto, RInv, Typed, Referring
  <1>5. CASE Prepared(r)
    <2>1. pc[r] = "prepare_sync" /\ pc[r] \in Locked /\ pc[r] \notin Behind /\ "rename" \in Locked
          /\ "rename" \in Labels
      BY <1>5 DEF Prepared, Locked, Ended, Behind, Labels, Staging, Cleaning, Recording, Aborting,
         Discarding
    <2>2. intentSafe' \in [Runs -> Intents] /\ intentSafe'[r] = intent[r]
      BY <1>5 DEF Prepared, SyncIntent, RInv, Typed
    <2>3. At(r, "rename")'
      BY <1>0, <1>5, <2>1, <2>2 DEF At, Prepared, SyncIntent, Locked, Ended, Behind, Labels,
         Staging, Cleaning, Recording, Aborting, Discarding
    <2> QED
      BY <1>5, <2>1, <2>2, <2>3, Unpublished, OwnSteps
      DEF Prepared, SyncIntent, Goto, RInv, Typed, Referring
  <1>6. CASE Abort(r)
    <2>1. pc[r] = "abort" /\ pc[r] \in Locked /\ pc[r] \notin Behind /\ "abort_sync" \in Locked
          /\ "abort_sync" \in Labels
      BY <1>6 DEF Abort, Locked, Ended, Behind, Labels, Staging, Cleaning, Recording, Aborting,
         Discarding
    <2>2. At(r, "abort_sync")'
      BY DEF At, Locked, Ended, Behind, Labels, Staging, Cleaning, Recording, Aborting, Discarding
    <2>3. intent' \in [Runs -> Intents]
      BY <1>6 DEF Abort, PutIntent, Intents, RInv, Typed
    <2> QED
      BY <1>6, <2>1, <2>2, <2>3, Unpublished, OwnSteps
      DEF Abort, PutIntent, Goto, RInv, Typed, Referring
  <1>7. CASE Aborted(r)
    <2>1. pc[r] = "abort_sync" /\ pc[r] \in Locked /\ pc[r] \notin Behind /\ "abort_remove" \in Locked
          /\ "abort_remove" \in Labels
      BY <1>7 DEF Aborted, Locked, Ended, Behind, Labels, Staging, Cleaning, Recording, Aborting,
         Discarding
    <2>2. At(r, "abort_remove")'
      BY DEF At, Locked, Ended, Behind, Labels, Staging, Cleaning, Recording, Aborting, Discarding
    <2>3. intentSafe' \in [Runs -> Intents]
      BY <1>7 DEF Aborted, SyncIntent, RInv, Typed
    <2> QED
      BY <1>7, <2>1, <2>2, <2>3, Unpublished, OwnSteps
      DEF Aborted, SyncIntent, Goto, RInv, Typed, Referring
  <1>8. CASE StageRemoved(r)
    <2>1. pc[r] = "abort_remove" /\ pc[r] \in Locked /\ pc[r] \notin Behind /\ "FAILED" \notin Locked
          /\ "FAILED" \in Labels /\ lock' = "free"
      BY <1>0, <1>8 DEF StageRemoved, End, Locked, Ended, Behind, Labels, Staging, Cleaning,
         Recording, Aborting, Discarding
    <2>2. At(r, "FAILED")'
      BY DEF At, Locked, Ended, Behind, Labels, Staging, Cleaning, Recording, Aborting, Discarding
    <2> QED
      BY <1>8, <2>1, <2>2, Unpublished, OwnSteps
      DEF StageRemoved, End, Goto, RInv, Typed, Referring
  <1> QED
    BY <1>1, <1>2, <1>3, <1>4, <1>5, <1>6, <1>7, <1>8

\* The intent of a published map becomes COMMITTED.
LEMMA CommitSteps ==
    ASSUME RInv, NEW r \in Runs, Commit(r) \/ Committed(r)
    PROVE  RInv'
  <1>0. At(r, pc[r]) /\ pc[r] \in {"commit", "commit_sync"} /\ pc[r] \in Locked /\ lock = r
    BY DEF RInv, Positions, Exclusive, Commit, Committed, Locked, Ended, Behind, Labels, Staging,
       Cleaning, Recording, Aborting, Discarding
  <1>1. PICK label \in {"commit_sync", "SAVED"} :
           /\ pc' = [pc EXCEPT ![r] = label]
           /\ \/ label = "commit_sync" /\ lock' = lock
              \/ label = "SAVED" /\ lock' = "free"
    BY <1>0 DEF Commit, Committed, PutIntent, End, Goto
  <1>2. /\ intent' \in [Runs -> Intents] /\ intentSafe' \in [Runs -> Intents]
        /\ UNCHANGED <<profile, target, raw, declined, copy, refs, dest, destSafe>>
        /\ \A q \in Runs \ {r} : intent'[q] = intent[q] /\ intentSafe'[q] = intentSafe[q]
        /\ Announced(r) => Announced(r)'
    BY <1>0 DEF Commit, Committed, PutIntent, Intents, Announced, RInv, Typed
  <1>3. At(r, label)'
    BY <1>0, <1>1, <1>2 DEF At, Locked, Ended, Behind, Labels, Staging, Cleaning, Recording,
       Aborting, Discarding
  <1>4. /\ label \in Labels /\ label \in Behind /\ pc'[r] = label
        /\ \/ label \in Locked /\ lock' = lock
           \/ label \notin Locked /\ lock' = "free"
    BY <1>1 DEF RInv, Typed, Locked, Ended, Behind, Labels, Staging, Cleaning, Recording, Aborting,
       Discarding
  <1>5. \A d \in Dests : dest[d] = r => Kept(r, d)'
    BY <1>2, <1>4 DEF RInv, Owned, Kept
  <1>6. /\ copy' \in [Runs -> {"none", "partial", "copied", "synced"}]
        /\ refs' \in [Runs -> SUBSET Pieces] /\ (refs'[r] = {} \/ profile = "experiment")
        /\ \A q \in Runs \ {r} : copy'[q] = copy[q] /\ refs'[q] = refs[q]
    BY <1>2 DEF RInv, Typed, Referring
  <1> QED
    BY <1>0, <1>1, <1>2, <1>3, <1>4, <1>5, <1>6, OwnSteps

\* Other runs are outside of the lock, where only a saved map is promised.
LEMMA OthersStay ==
    ASSUME RInv, NEW r \in Runs, pc[r] \in Locked, UNCHANGED target,
           \A q \in Runs \ {r} : pc'[q] = pc[q],
           \A d \in Dests, q \in Runs \ {r} : destSafe[d] = q => destSafe'[d] = q
    PROVE  \A q \in Runs \ {r} : At(q, pc[q])'
  <1> SUFFICES ASSUME NEW q \in Runs \ {r} PROVE At(q, pc[q])'
    OBVIOUS
  <1>1. pc'[q] = pc[q] /\ pc[q] \in Labels /\ pc[q] \notin Locked /\ target[q] \in Dests
    BY Alone DEF RInv, Typed
  <1>2. At(q, pc[q])
    BY DEF RInv, Positions
  <1> QED
    BY <1>1, <1>2 DEF At, Locked, Ended, Behind, Labels, Staging, Cleaning, Recording, Aborting,
       Discarding

\* discard_session() begins: nothing at a destination is one of the runs' maps, since
\* each of those has an intent.
LEMMA DeclineStep ==
    ASSUME RInv, NEW r \in Runs, Decline(r)
    PROVE  RInv'
  <1> USE LabelsDiffer
  <1>0. pc[r] = "decline" /\ lock = "free" /\ pc[r] \notin Locked /\ pc[r] \notin Behind
    BY DEF Decline, Locked, Ended, Behind, Labels, Staging, Cleaning, Recording, Aborting,
       Discarding
  <1>1. CASE ~NotReferenced
    <2>1. pc' = [pc EXCEPT ![r] = "FAILED"] /\ UNCHANGED <<Data, lock>>
      BY <1>1 DEF Decline, Goto, Data, disk
    <2>2. At(r, "FAILED") /\ "FAILED" \in Labels /\ "FAILED" \notin Locked
      BY DEF At, Locked, Ended, Behind, Labels, Staging, Cleaning, Recording, Aborting, Discarding
    <2> QED
      BY <1>0, <2>1, <2>2, Moves
  <1>2. CASE NotReferenced
    <2>1. /\ pc' = [pc EXCEPT ![r] = "discard"] /\ lock' = r /\ declined' = TRUE
          /\ UNCHANGED <<profile, target, raw, copy, refs, dest, destSafe, intent, intentSafe>>
      BY <1>2 DEF Decline, Goto, disk
    <2>2. "discard" \in Labels /\ "discard" \in Locked
      BY DEF Locked, Ended, Behind, Labels, Staging, Cleaning, Recording, Aborting, Discarding
    <2>3. pc' \in [Runs -> Labels] /\ pc'[r] = "discard" /\ \A q \in Runs \ {r} : pc'[q] = pc[q]
      BY <2>1, <2>2 DEF RInv, Typed
    <2>4. \A d \in Dests : dest[d] \notin Runs
      BY <1>2 DEF NotReferenced, RInv, Owned, Kept, Announced
    <2>5. declined' \in BOOLEAN
      BY <2>1, Zenon
    <2>6. Typed'
      BY <2>1, <2>3, <2>5 DEF RInv, Typed
    <2>7. Exclusive'
      BY <1>0, <2>1, <2>2, <2>3 DEF RInv, Exclusive
    <2>8. SafeIsSeen' /\ Referring' /\ Owned' /\ MapIsSomewhere'
      BY <2>1, <2>4 DEF RInv, SafeIsSeen, Referring, Owned, MapIsSomewhere
    <2>9. Positions'
      <3> SUFFICES ASSUME NEW q \in Runs PROVE At(q, pc[q])'
        BY DEF Positions
      <3>1. CASE q = r
        BY <2>1, <2>3, <2>4, <3>1 DEF At, Locked, Ended, Behind, Labels, Staging, Cleaning,
           Recording, Aborting, Discarding
      <3>2. CASE q # r
        BY <2>1, <2>3, <3>2 DEF RInv, Positions, At
      <3> QED
        BY <3>1, <3>2
    <2> QED
      BY <2>6, <2>7, <2>8, <2>9 DEF RInv
  <1> QED
    BY <1>1, <1>2

\* The rename makes the prepared map visible.
LEMMA RenameStep ==
    ASSUME RInv, NEW r \in Runs, Rename(r)
    PROVE  RInv'
  <1> USE LabelsDiffer
  <1>0. /\ pc[r] = "rename" /\ pc[r] \in Locked /\ "publish" \in Locked /\ "publish" \in Labels
        /\ "publish" \in Behind /\ dest[target[r]] = "free" /\ target[r] \in Dests /\ At(r, "rename")
    BY DEF Rename, RInv, Typed, Positions, Locked, Ended, Behind, Labels, Staging, Cleaning,
       Recording, Aborting, Discarding
  <1>1. /\ pc' = [pc EXCEPT ![r] = "publish"] /\ dest' = [dest EXCEPT ![target[r]] = r]
        /\ UNCHANGED <<profile, target, lock, raw, declined, copy, refs, destSafe, intent, intentSafe>>
    BY DEF Rename, Goto
  <1>2. pc' \in [Runs -> Labels] /\ pc'[r] = "publish" /\ \A q \in Runs \ {r} : pc'[q] = pc[q]
    BY <1>0, <1>1 DEF RInv, Typed
  <1>3. /\ dest' \in [Dests -> Runs \cup {"free", "other"}] /\ dest'[target[r]] = r
        /\ \A d \in Dests \ {target[r]} : dest'[d] = dest[d]
    BY <1>0, <1>1 DEF RInv, Typed
  <1>4. Typed'
    BY <1>1, <1>2, <1>3 DEF RInv, Typed
  <1>5. Exclusive' /\ Referring' /\ MapIsSomewhere'
    BY <1>0, <1>1, <1>2 DEF RInv, Exclusive, Referring, MapIsSomewhere, Whole
  <1>6. SafeIsSeen'
    BY <1>0, <1>1, <1>3 DEF RInv, SafeIsSeen
  <1>7. Owned'
    <2> SUFFICES ASSUME NEW d \in Dests, NEW q \in Runs, dest'[d] = q PROVE Kept(q, d)'
      BY DEF Owned
    <2>1. CASE d = target[r]
      BY <1>0, <1>1, <1>2, <1>3, <2>1 DEF Kept, Announced, At
    <2>2. CASE d # target[r]
      <3>1. Kept(q, d)
        BY <1>3, <2>2 DEF RInv, Owned
      <3> QED
        BY <1>0, <1>1, <1>2, <3>1 DEF Kept, Announced
    <2> QED
      BY <2>1, <2>2
  <1>8. Positions'
    <2>1. At(r, pc[r])'
      BY <1>1, <1>2, <1>3 DEF At, Locked, Ended, Behind, Labels, Staging, Cleaning, Recording,
         Aborting, Discarding
    <2>2. \A q \in Runs \ {r} : At(q, pc[q])'
      BY <1>0, <1>1, <1>2, OthersStay
    <2> QED
      BY <2>1, <2>2 DEF Positions
  <1> QED
    BY <1>4, <1>5, <1>6, <1>7, <1>8 DEF RInv

\* The destination's directory is synchronized.
LEMMA PublishedStep ==
    ASSUME RInv, NEW r \in Runs, Published(r)
    PROVE  RInv'
  <1> USE LabelsDiffer
  <1>0. /\ pc[r] = "publish" /\ pc[r] \in Locked /\ target[r] \in Dests /\ dest[target[r]] = r
    BY DEF Published, RInv, Typed, Positions, At, Locked, Ended, Behind, Labels, Staging, Cleaning,
       Recording, Aborting, Discarding
  <1>1. PICK label \in {"cleanup", "record"} :
           /\ pc' = [pc EXCEPT ![r] = label] /\ (label = "cleanup" => profile = "map_only")
    BY DEF Published, Goto
  <1>2. /\ destSafe' = [destSafe EXCEPT ![target[r]] = r]
        /\ UNCHANGED <<profile, target, lock, raw, declined, copy, refs, dest, intent, intentSafe>>
    BY <1>0 DEF Published
  <1>3. label \in Labels /\ label \in Locked /\ label \in Behind
    BY DEF Locked, Ended, Behind, Labels, Staging, Cleaning, Recording, Aborting, Discarding
  <1>4. pc' \in [Runs -> Labels] /\ pc'[r] = label /\ \A q \in Runs \ {r} : pc'[q] = pc[q]
    BY <1>1, <1>3 DEF RInv, Typed
  <1>5. /\ destSafe' \in [Dests -> Runs \cup {"free", "other"}] /\ destSafe'[target[r]] = r
        /\ \A d \in Dests \ {target[r]} : destSafe'[d] = destSafe[d]
    BY <1>0, <1>2 DEF RInv, Typed
  <1>6. Typed'
    BY <1>2, <1>4, <1>5 DEF RInv, Typed
  <1>7. Exclusive' /\ Referring'
    BY <1>0, <1>2, <1>3, <1>4 DEF RInv, Exclusive, Referring
  <1>8. SafeIsSeen'
    BY <1>0, <1>2, <1>5 DEF RInv, SafeIsSeen
  <1>9. Owned'
    BY <1>2, <1>3, <1>4 DEF RInv, Owned, Kept, Announced
  <1>10. Positions'
    <2>1. At(r, pc[r])'
      BY <1>1, <1>2, <1>4, <1>5 DEF At, Locked, Ended, Behind, Labels, Staging, Cleaning, Recording,
         Aborting, Discarding
    <2>2. \A d \in Dests, q \in Runs \ {r} : destSafe[d] = q => destSafe'[d] = q
      BY <1>0, <1>5 DEF RInv, SafeIsSeen
    <2>3. \A q \in Runs \ {r} : At(q, pc[q])'
      BY <1>0, <1>2, <1>4, <2>2, OthersStay
    <2> QED
      BY <2>1, <2>3 DEF Positions
  <1>11. MapIsSomewhere'
    <2>1. Kept(r, target[r])
      BY <1>0 DEF RInv, Owned
    <2> QED
      BY <1>0, <1>2, <1>5, <2>1 DEF MapIsSomewhere, Whole, Kept
  <1> QED
    BY <1>6, <1>7, <1>8, <1>9, <1>10, <1>11 DEF RInv

\* A piece of raw data is removed: behind the synchronized map of a map_only session,
\* or by a user's word.
LEMMA RemovePieceStep ==
    ASSUME RInv, NEW r \in Runs, RemovePiece(r)
    PROVE  RInv'
  <1> USE LabelsDiffer
  <1>0. /\ pc[r] \in {"cleanup", "discard"} /\ pc[r] \in Locked /\ At(r, pc[r]) /\ target[r] \in Dests
    BY DEF RemovePiece, RInv, Typed, Positions, Locked, Ended, Behind, Labels, Staging, Cleaning,
       Recording, Aborting, Discarding
  <1>1. /\ raw' \subseteq raw
        /\ UNCHANGED <<profile, pc, target, lock, declined, copy, refs, dest, destSafe, intent, intentSafe>>
    BY DEF RemovePiece, disk
  <1>2. \A q \in Runs, d \in Dests : dest[d] = q => refs[q] = {}
    <2>1. CASE pc[r] = "cleanup"
      BY <1>0, <2>1 DEF At, Cleaning, RInv, Referring
    <2>2. CASE pc[r] = "discard"
      BY <1>0, <2>2 DEF At
    <2> QED
      BY <1>0, <2>1, <2>2
  <1>3. Typed' /\ Exclusive' /\ SafeIsSeen' /\ Referring'
    BY <1>1 DEF RInv, Typed, Exclusive, SafeIsSeen, Referring
  <1>4. Owned'
    BY <1>1, <1>2 DEF RInv, Owned, Kept, Announced
  <1>5. Positions'
    <2>1. At(r, pc[r])'
      BY <1>0, <1>1 DEF At, Locked, Ended, Behind, Labels, Staging, Cleaning, Recording, Aborting,
         Discarding
    <2>2. \A q \in Runs \ {r} : At(q, pc[q])'
      BY <1>0, <1>1, OthersStay
    <2> QED
      BY <2>1, <2>2 DEF Positions
  <1>6. MapIsSomewhere'
    <2>1. CASE pc[r] = "cleanup"
      <3>1. destSafe[target[r]] = r
        BY <1>0, <2>1 DEF At, Cleaning
      <3>2. Kept(r, target[r])
        BY <1>0, <3>1 DEF RInv, SafeIsSeen, Owned
      <3> QED
        BY <1>0, <1>1, <3>1, <3>2 DEF MapIsSomewhere, Whole, Kept
    <2>2. CASE pc[r] = "discard"
      BY <1>0, <1>1, <2>2 DEF At, MapIsSomewhere
    <2> QED
      BY <1>0, <2>1, <2>2
  <1> QED
    BY <1>3, <1>4, <1>5, <1>6 DEF RInv

\* What a power failure leaves of a function is one of the two values everywhere.
LEMMA EitherLeaves ==
    ASSUME NEW D, NEW S, NEW now \in [D -> S], NEW safe \in [D -> S], NEW left \in Either(now, safe)
    PROVE  left \in [D -> S] /\ \A x \in D : left[x] \in {now[x], safe[x]}
  <1>1. DOMAIN now = D /\ DOMAIN left = D /\ left = [x \in D |-> left[x]]
        /\ \A x \in D : left[x] \in {now[x], safe[x]}
    BY DEF Either
  <1> QED
    BY <1>1

\* What is at a destination after a power failure was there or was safe.
LEMMA DestLeft ==
    ASSUME RInv, PowerFailure
    PROVE  /\ dest' \in [Dests -> Contents] /\ destSafe' = dest'
           /\ \A d \in Dests : dest'[d] \in {dest[d], destSafe[d]}
  <1>1. /\ dest \in [Dests -> Contents] /\ destSafe \in [Dests -> Contents]
        /\ dest' \in Either(dest, destSafe) /\ destSafe' = dest'
    BY DEF PowerFailure, RInv, Typed, Contents
  <1> QED
    BY ONLY <1>1, EitherLeaves

\* The power fails.
LEMMA PowerFailureStep ==
    ASSUME RInv, PowerFailure
    PROVE  RInv'
  <1> USE LabelsDiffer
  <1>1. /\ dest' \in [Dests -> Runs \cup {"free", "other"}] /\ destSafe' = dest'
        /\ \A d \in Dests : dest'[d] \in {dest[d], destSafe[d]}
    BY DestLeft DEF Contents
  <1>2. /\ intent' \in [Runs -> Intents] /\ intentSafe' = intent'
        /\ \A r \in Runs : intent'[r] \in {intent[r], intentSafe[r]}
    <2>1. /\ intent \in [Runs -> Intents] /\ intentSafe \in [Runs -> Intents]
          /\ intent' \in Either(intent, intentSafe) /\ intentSafe' = intent'
      BY DEF PowerFailure, RInv, Typed
    <2> QED
      BY ONLY <2>1, EitherLeaves
  <1>3. /\ lock' = "free" /\ UNCHANGED <<profile, target, raw, declined, copy, refs>>
        /\ pc' = [r \in Runs |-> IF pc[r] \in Ended \cup {"new"} THEN pc[r] ELSE "dead"]
    BY DEF PowerFailure
  <1>4. /\ pc' \in [Runs -> Labels]
        /\ \A r \in Runs : /\ pc'[r] \in Ended \cup {"new"}
                           /\ pc'[r] = pc[r] \/ pc'[r] = "dead"
    <2>1. "dead" \in Labels /\ "dead" \in Ended
      BY DEF Labels, Ended
    <2> QED
      BY <1>3, <2>1 DEF RInv, Typed
  <1>5. Typed'
    BY <1>1, <1>2, <1>3, <1>4 DEF RInv, Typed
  <1>6. Exclusive'
    <2>1. \A l \in Ended \cup {"new"} : l \notin Locked
      BY DEF Locked, Ended, Behind, Labels, Staging, Cleaning, Recording, Aborting, Discarding
    <2> QED
      BY <1>3, <1>4, <2>1 DEF Exclusive
  <1>7. SafeIsSeen' /\ Referring'
    BY <1>1, <1>3 DEF RInv, SafeIsSeen, Referring
  <1>8. Owned'
    <2> SUFFICES ASSUME NEW d \in Dests, NEW q \in Runs, dest'[d] = q PROVE Kept(q, d)'
      BY DEF Owned
    <2>1. Kept(q, d)
      BY <1>1 DEF RInv, SafeIsSeen, Owned
    <2>2. pc'[q] \in Behind
      BY <1>4, <2>1 DEF Kept
    <2> QED
      BY <1>2, <1>3, <2>1, <2>2 DEF Kept, Announced
  <1>9. \A d \in Dests : destSafe[d] \in Runs => destSafe'[d] = destSafe[d]
    BY <1>1 DEF RInv, SafeIsSeen
  <1>10. Positions'
    <2> SUFFICES ASSUME NEW q \in Runs PROVE At(q, pc[q])'
      BY DEF Positions
    <2>1. At(q, pc[q]) /\ target[q] \in Dests /\ pc'[q] \in Ended \cup {"new"}
          /\ (pc'[q] = pc[q] \/ pc'[q] = "dead")
      BY <1>4 DEF RInv, Positions, Typed
    <2>2. pc'[q] = "SAVED" => destSafe'[target[q]] = q
      BY <1>9, <2>1 DEF At
    <2> QED
      BY <1>3, <2>1, <2>2 DEF At, Locked, Ended, Behind, Labels, Staging, Cleaning, Recording,
         Aborting, Discarding
  <1>11. MapIsSomewhere'
    BY <1>3, <1>9 DEF RInv, MapIsSomewhere, Whole
  <1> QED
    BY <1>5, <1>6, <1>7, <1>8, <1>10, <1>11 DEF RInv

\* Somebody else takes a destination that was free.
LEMMA ForeignStep ==
    ASSUME RInv, NEW d \in Dests, Foreign(d)
    PROVE  RInv'
  <1> USE LabelsDiffer
  <1>1. /\ dest[d] = "free" /\ destSafe[d] = "free"
        /\ dest' \in [Dests -> Runs \cup {"free", "other"}] /\ dest'[d] = "other"
        /\ destSafe' \in [Dests -> Runs \cup {"free", "other"}] /\ destSafe'[d] = "other"
        /\ \A e \in Dests \ {d} : dest'[e] = dest[e] /\ destSafe'[e] = destSafe[e]
    BY DEF Foreign, RInv, Typed, SafeIsSeen
  <1>2. UNCHANGED <<profile, pc, target, lock, raw, declined, copy, refs, intent, intentSafe>>
    BY DEF Foreign
  <1>3. \A e \in Dests, q \in Runs : /\ dest'[e] = q <=> dest[e] = q
                                     /\ destSafe'[e] = q <=> destSafe[e] = q
    BY <1>1
  <1>4. Typed' /\ Exclusive' /\ Referring'
    BY <1>1, <1>2 DEF RInv, Typed, Exclusive, Referring
  <1>5. SafeIsSeen'
    BY <1>1 DEF RInv, SafeIsSeen
  <1>6. Owned'
    BY <1>2, <1>3 DEF RInv, Owned, Kept, Announced
  <1>7. Positions'
    <2> SUFFICES ASSUME NEW q \in Runs PROVE At(q, pc[q])'
      BY DEF Positions
    <2>1. At(q, pc[q]) /\ target[q] \in Dests
      BY DEF RInv, Positions, Typed
    <2>2. (\A e \in Dests : dest[e] \notin Runs) => (\A e \in Dests : dest'[e] \notin Runs)
      BY <1>1
    <2> QED
      BY <1>2, <1>3, <2>1, <2>2 DEF At
  <1>8. MapIsSomewhere'
    BY <1>1, <1>2 DEF RInv, MapIsSomewhere, Whole
  <1> QED
    BY <1>4, <1>5, <1>6, <1>7, <1>8 DEF RInv

-----------------------------------------------------------------------------
(* The theorems.                                                           *)

\* The invariant holds at the start, when nothing is saved yet.
LEMMA Starts == Init => RInv
  <1> SUFFICES ASSUME Init PROVE RInv
    OBVIOUS
  <1> USE LabelsDiffer DEF Init
  <1>0. "new" \in Labels /\ "new" \notin Locked /\ declined \in BOOLEAN
    BY Zenon DEF Locked, Ended, Behind, Labels, Staging, Cleaning, Recording, Aborting, Discarding
  <1>1. Typed
    BY <1>0 DEF Typed, Intents
  <1>2. Exclusive /\ SafeIsSeen /\ Referring
    BY <1>0 DEF Exclusive, SafeIsSeen, Referring
  <1>3. Owned /\ MapIsSomewhere
    BY DEF Owned, MapIsSomewhere, Pieces
  <1>4. Positions
    BY DEF Positions, At, Locked, Ended, Behind, Labels, Staging, Cleaning, Recording, Aborting,
       Discarding
  <1> QED
    BY <1>1, <1>2, <1>3, <1>4 DEF RInv

\* Every step keeps the invariant.
LEMMA Keeps == RInv /\ [Next]_vars => RInv'
  <1> SUFFICES ASSUME RInv, [Next]_vars PROVE RInv'
    OBVIOUS
  <1>1. CASE UNCHANGED vars
    BY <1>1 DEF vars, disk, RInv, Typed, Exclusive, SafeIsSeen, Referring, Owned, Kept, Announced,
                Positions, At, MapIsSomewhere, Whole
  <1>2. ASSUME NEW r \in Runs, Step(r) PROVE RInv'
    BY <1>2, MovingSteps, StageSteps, CommitSteps, DeclineStep, RenameStep, PublishedStep,
       RemovePieceStep DEF Step
  <1> QED
    BY <1>1, <1>2, PowerFailureStep, ForeignStep DEF Next

\* The invariant implies the three properties of a state.
LEMMA Implies == RInv => ReferencedRawSurvives /\ MapIsSomewhere /\ SavedIsThere
  <1> SUFFICES ASSUME RInv PROVE ReferencedRawSurvives /\ SavedIsThere
    BY DEF RInv
  <1>1. ReferencedRawSurvives
    BY DEF RInv, Owned, Kept, ReferencedRawSurvives
  <1>2. SavedIsThere
    BY DEF RInv, Positions, At, SavedIsThere
  <1> QED
    BY <1>1, <1>2

\* The raw data a published map refers to survives every run's decision and crash
\* (discard_session and _discard_data of mapping_save.py).
THEOREM ReferencedRawAlwaysSurvives == Spec => []ReferencedRawSurvives
  BY Starts, Keeps, Implies, PTL DEF Spec

\* The map is in the session or durably at a destination unless a user declined it,
\* wherever save_session() is cut short.
THEOREM MapIsAlwaysSomewhere == Spec => []MapIsSomewhere
  BY Starts, Keeps, Implies, PTL DEF Spec

\* A run that returns SAVED has left its map where the user wanted it.
THEOREM SavedIsAlwaysThere == Spec => []SavedIsThere
  BY Starts, Keeps, Implies, PTL DEF Spec

\* _rename_no_replace() and the checks around it never replace a destination.
THEOREM NothingIsReplaced == Spec => NeverReplaced
  <1>1. RInv /\ [Next]_vars =>
           [\A d \in Dests : dest[d] # "free" => dest'[d] \in {dest[d], destSafe[d]}]_vars
    <2> SUFFICES ASSUME RInv, Next, NEW d \in Dests, dest[d] # "free"
                 PROVE  dest'[d] \in {dest[d], destSafe[d]}
      BY DEF vars, disk
    <2>1. CASE PowerFailure
      BY <2>1, DestLeft
    <2>2. ASSUME NEW e \in Dests, Foreign(e) PROVE dest'[d] = dest[d]
      BY <2>2 DEF Foreign, RInv, Typed
    <2>3. ASSUME NEW r \in Runs, Step(r) PROVE dest'[d] = dest[d]
      BY <2>3 DEF Step, SessionHandle, ChooseSave, ChooseOther, LockBusy, Decline, LockToSave,
                  ExportReused, ExportBegins, ExportEnds, StageMade, Copied, StageSynced, Prepare,
                  Prepared, Rename, RenameRefused, Published, RemovePiece, Removed, Cleaned,
                  CleanedSynced, Discarded, DiscardedSynced, Record, Recorded, Commit, Committed,
                  Fails, Abort, AbortUnprepared, Aborted, StageRemoved, Killed, PutIntent, SyncIntent,
                  PutRetention, SyncRetention, disk, RInv, Typed
    <2> QED
      BY <2>1, <2>2, <2>3 DEF Next
  <1> QED
    BY <1>1, Starts, Keeps, PTL DEF Spec, NeverReplaced

-----------------------------------------------------------------------------
(* The window: the inductive invariant.                                    *)

USE WindowAssumption

\* The session numbers in use, and none.
Numbers == Sessions \cup {None}
Places == {"stop", "gui", "receive", "command", "complete", "save", "tail", "failed", "drain",
           "drain_save", "done", "raised"}
Tasks == [at : {"none", "preflight", "starting", "stopping", "done"},
          op : {"none"} \cup StartOps \cup StopOps, id : Numbers,
          after : {"none", "map", "preview", "close"},
          result : {"none", "failed", "cancelled", "started", "normal"}]
Verdicts == {"none", "SAVED", "DISCARDED", "SAVE_PENDING", "FAILED"}
Fates == {"none", "kept", "saved", "declined", "discarded"}
Commands == [nonce : Nat, generation : Nat, active : Numbers, token : Nat, sequence : Nat,
             action : {"none", "start", "stop"}]

\* The fields of a status and the types of those that are compared.
IsDocument(d) ==
    /\ DOMAIN d = {"generation", "view", "state", "can_start", "can_stop", "active", "token",
                    "last_sequence", "ack"}
    /\ d.generation \in Nat /\ d.view \in Nat /\ d.token \in Nat /\ d.last_sequence \in Nat
    /\ d.ack \in Nat /\ d.active \in Numbers

\* So for the coordinator's fields, the save process and the window's Panel.
IsFields(r) ==
    /\ DOMAIN r = {"active", "pending_map", "closing", "cancel_start", "attempts", "unconfirmed",
                    "failed_operation", "retried", "errors", "action", "draining",
                    "raised", "sequence", "maps"}
    /\ r.active \in Numbers /\ r.pending_map \in Numbers /\ r.sequence \in Nat
    /\ r.maps \in SUBSET Sessions
IsSaver(s) ==
    /\ DOMAIN s = {"id", "at", "cancelled", "result", "agrees"}
    /\ s.id \in Numbers /\ s.at \in {"none", "running", "exited"} /\ s.result \in Verdicts
IsPanel(p) ==
    /\ DOMAIN p = {"first", "clicks", "polled", "seen", "pending", "draft", "sequence", "failed"}
    /\ p.first \in Nat /\ p.clicks \in Nat /\ p.pending \in Nat /\ p.sequence \in Nat
    /\ IsDocument(p.seen) /\ p.draft \in Commands

\* The types of the variables.
WindowTypes ==
    /\ where \in Places /\ IsFields(c) /\ task \in Tasks /\ IsSaver(saver)
    /\ running \in SUBSET Sessions /\ data \in [Sessions -> Fates] /\ results \in [Sessions -> Verdicts]
    /\ IsDocument(status) /\ IsDocument(doc) /\ command \in Commands /\ IsPanel(panel)

\* The loop runs its body: nothing has failed, nobody closes.
Calm == ~c.closing /\ where # "failed"

\* Where the drain and the end are reached.
Phases ==
    /\ c.draining => c.closing /\ where \in {"failed", "drain", "drain_save", "done", "raised"}
    /\ where \in {"drain", "drain_save", "done", "raised"} => c.draining
    /\ where \in {"drain_save", "done", "raised"} => task.at = "none" /\ c.active = None
    /\ where \in {"done", "raised"} => saver.id = None
    /\ where = "failed" /\ (c.draining \/ c.failed_operation # "none") => task.at = "none"
    /\ c.failed_operation # "none" => where = "failed" \/ c.draining
    /\ where = "command" => ~c.closing

\* The one operation under way is about a new session or about the active one.
TaskFits ==
    /\ task.at = "none" => task = NoTask
    /\ task.at \in {"preflight", "starting"} => task.op \in StartOps /\ task.result = "none"
    /\ task.at = "stopping" => task.op \in StopOps /\ task.result = "none"
    /\ task.at = "done" => \/ task.op \in StartOps /\ task.result \in {"failed", "cancelled", "started"}
                           \/ task.op \in StopOps /\ task.result \in {"failed", "normal"}
    /\ task.op \in StartOps => /\ task.after = "none" /\ c.active = None /\ task.id = c.sequence
                               /\ task.op = "start_map" <=> task.id \in c.maps
    /\ task.op \in StopOps => /\ task.after # "none" /\ task.id = c.active /\ c.active # None
                              /\ task.op = "stop_map" <=> c.active \in c.maps
    /\ task.after = "map" => task.op = "stop_preview"
    /\ task.after = "close" => c.closing

\* Only the session that is started, owned or stopped may run.
Devices ==
    /\ \E s \in Numbers : running \subseteq {s}
    /\ task.at = "preflight" => running = {}
    /\ task.op \in StartOps => running \subseteq {task.id}
    /\ task.op \in StartOps /\ task.result \in {"failed", "cancelled"} => running = {}
    /\ task.op \in StopOps => running \subseteq {task.id}
    /\ task.result = "normal" => running = {}
    /\ task.at = "none" /\ (c.active # None \/ ~c.closing) => running \subseteq {c.active}

\* A map is owned, or on its way.
MapBusy == c.active \in c.maps \/ task.op \in {"start_map", "stop_map"} \/ task.after = "map"

\* One map at a time is owned, waits for its save, or is being saved.
OneMap ==
    /\ c.pending_map # None \/ saver.id # None => ~MapBusy
    /\ c.pending_map = None \/ saver.id = None
    /\ c.pending_map \in c.maps \cup {None} /\ saver.id \in c.maps \cup {None}
    /\ saver.id # None <=> saver.at # "none"

\* What is published fits what the coordinator does.
Shows ==
    Calm =>
      /\ status.can_start => /\ task.at = "none" /\ c.active # None /\ c.active \notin c.maps
                             /\ c.pending_map = None /\ saver.id = None
      /\ status.can_stop => status.state \in {"STARTING", "MAPPING"}
      /\ status.state = "MAPPING" => task.at = "none" /\ c.active \in c.maps
      /\ status.state = "STARTING" => task.op = "start_map" \/ task.after = "map"
      /\ saver.id # None => /\ task.at = "none" /\ c.active # None
                            /\ status.state = "SAVING" /\ ~status.can_start /\ ~status.can_stop
      /\ where = "command" => \/ c.action = "start" /\ status.can_start
                              \/ c.action = "stop" /\ status.can_stop
      /\ status.state \in {"PREVIEW", "SAVING", "MAPPING"} => status.active # None

\* A start that was cancelled is not shown.
CancelHeld ==
    cancelled => /\ status.state # "MAPPING"
                 /\ c.cancel_start \/ (task.op # "start_map" /\ task.after # "map")

\* next may follow seen in status.json.
Follows(seen, next) ==
    /\ seen.generation <= next.generation /\ seen.view <= next.view /\ seen.token <= next.token
    /\ seen.last_sequence <= next.last_sequence
    /\ seen.generation = next.generation =>
          seen.active = next.active /\ seen.view = next.view /\ seen.state = next.state
    /\ seen.view = next.view => seen.active = next.active

\* The window sees what the coordinator is in, or was.
Seen ==
    /\ Calm => doc = status
    /\ ~c.closing /\ doc.state \in {"PREVIEW", "SAVING", "MAPPING"} => doc.active # None
    /\ ~c.closing /\ panel.polled => Follows(panel.seen, doc)
    /\ panel.failed => c.closing

\* A command that can no longer be accepted.
Dead(k) == k.nonce = status.ack \/ k.generation < status.generation \/ k.token < status.token

\* A command refers to the status the window saw, as long as the window waits for it.
Refers(k) ==
    /\ k.nonce = panel.pending /\ panel.polled
    /\ k.generation = panel.seen.generation /\ k.token = panel.seen.token

\* A command to start that may still be accepted.
Starting(k) == k.action = "start" /\ k.generation = status.generation

\* The clicks: at most one waits, the others are dead, and a start has room.
Clicked ==
    ~c.closing =>
      /\ command.nonce <= panel.clicks /\ panel.first <= panel.clicks
      /\ command.generation <= doc.generation
      /\ panel.draft # NoCommand => /\ Refers(panel.draft) /\ panel.draft.nonce = panel.clicks
                                    /\ command.nonce < panel.draft.nonce
                                    /\ panel.draft.generation <= doc.generation
      /\ panel.draft = NoCommand /\ panel.pending # 0 => Refers(command)
      /\ Calm /\ command.nonce > panel.first /\ command.nonce # panel.pending => Dead(command)
      /\ Calm /\ (Starting(command) \/ Starting(panel.draft)) => c.sequence + 2 <= MaxSessions

\* Every session has a number, and one is left for every session that may have to be started.
Numbered ==
    /\ 1 <= c.sequence /\ c.sequence <= MaxSessions
    /\ c.active <= c.sequence /\ \A s \in c.maps : s <= c.sequence
Room ==
    Calm =>
      /\ c.active \in c.maps \/ task.op = "start_map" \/ task.after = "preview" =>
            c.sequence + 1 <= MaxSessions
      /\ task.after = "map" \/ (where = "command" /\ c.action = "start") =>
            c.sequence + 2 <= MaxSessions
      /\ task.op = "start_preview" /\ task.result = "cancelled" => stop

\* Where the data of a map that nobody decided about is.
MapsTraced ==
    /\ \A s \in Sessions : s > c.sequence => data[s] = "none"
    /\ task.op \in StartOps /\ task.result # "started" => data[task.id] = "none"
    /\ \A s \in c.maps : data[s] # "discarded"
    /\ \A s \in c.maps : data[s] = "kept" =>
          \/ s \in {c.active, c.pending_map, saver.id} \/ (task.op = "start_map" /\ task.id = s)
          \/ results[s] \in {"SAVE_PENDING", "FAILED"}
    /\ saver.at = "exited" /\ data[saver.id] = "kept" =>
          saver.result \in {"none", "SAVE_PENDING", "FAILED"}

WindowInv ==
    /\ WindowTypes /\ Phases /\ TaskFits /\ Devices /\ OneMap /\ Shows /\ CancelHeld
    /\ Seen /\ Clicked /\ Numbered /\ Room /\ MapsTraced

\* The loop comes to a part of its body from the body.
LEMMA ReachesBody ==
    ASSUME NEW part, Reaches(part)
    PROVE  where \in {"stop", "gui", "receive", "complete", "save", "tail"}
    BY DEF Reaches, Parts

\* new is published after old by a transition: one generation later, nothing
\* acknowledged.
Advances(old, new) ==
    /\ IsDocument(new) /\ Follows(old, new) /\ new.generation = old.generation + 1
    /\ new.token = old.token /\ new.ack = old.ack

\* What state() makes of a status: publish(transition=True, ...).
LEMMA StateAdvances ==
    ASSUME NEW st, IsDocument(st), NEW name, NEW may_start, NEW may_stop
    PROVE  /\ Advances(st, State(st, name, may_start, may_stop))
           /\ State(st, name, may_start, may_stop).active = st.active
    <1> DEFINE new == State(st, name, may_start, may_stop)
    <1>1. new = [st EXCEPT !.generation = st.generation + 1, !.state = name,
                           !.can_start = may_start, !.can_stop = may_stop]
      BY DEF State
    <1>2. /\ DOMAIN new = DOMAIN st /\ new.generation = st.generation + 1 /\ new.active = st.active
          /\ new.view = st.view /\ new.token = st.token /\ new.ack = st.ack
          /\ new.last_sequence = st.last_sequence
      BY <1>1 DEF IsDocument
    <1> HIDE DEF new
    <1>3. Advances(st, new)
      BY <1>2 DEF Advances, IsDocument, Follows
    <1>4. QED BY <1>2, <1>3 DEF new

\* What bind() makes of a status.
LEMMA BindDoes ==
    ASSUME NEW st, IsDocument(st), NEW id \in Numbers
    PROVE  LET new == Bind(st, id) IN
           /\ IsDocument(new) /\ new.view = st.view + 1 /\ new.active = id /\ new.state = st.state
           /\ new.generation = st.generation /\ new.token = st.token /\ new.ack = st.ack
           /\ new.last_sequence = st.last_sequence
    <1> DEFINE new == Bind(st, id)
    <1>1. new = [st EXCEPT !.view = st.view + 1, !.active = id]
      BY DEF Bind
    <1>2. /\ DOMAIN new = DOMAIN st /\ new.view = st.view + 1 /\ new.active = id
          /\ new.state = st.state /\ new.generation = st.generation /\ new.token = st.token
          /\ new.ack = st.ack /\ new.last_sequence = st.last_sequence
      BY <1>1 DEF IsDocument
    <1> HIDE DEF new
    <1>3. IsDocument(new)
      BY <1>2 DEF IsDocument
    <1>4. QED BY <1>2, <1>3 DEF new

\* A transition with a bind() before it.
LEMMA BoundAdvances ==
    ASSUME NEW st, IsDocument(st), NEW id \in Numbers, NEW name, NEW may_start, NEW may_stop
    PROVE  /\ Advances(st, State(Bind(st, id), name, may_start, may_stop))
           /\ State(Bind(st, id), name, may_start, may_stop).active = id
    <1> DEFINE mid == Bind(st, id)
               new == State(mid, name, may_start, may_stop)
    <1>1. /\ IsDocument(mid) /\ mid.view = st.view + 1 /\ mid.active = id
          /\ mid.generation = st.generation /\ mid.token = st.token /\ mid.ack = st.ack
          /\ mid.last_sequence = st.last_sequence
      BY BindDoes
    <1> HIDE DEF mid
    <1>2. Advances(mid, new) /\ new.active = mid.active
      BY <1>1, StateAdvances
    <1> HIDE DEF new
    <1>3. Advances(st, new) /\ new.active = id
      BY <1>1, <1>2 DEF Advances, IsDocument, Follows
    <1>4. QED BY <1>3 DEF new, mid

\* publish() of a status: what it leaves.
LEMMA PublishDoes ==
    ASSUME WindowTypes, NEW st, IsDocument(st), NEW ok \in BOOLEAN, Publish(st, ok)
    PROVE  /\ status' = st /\ IsDocument(status') /\ IsDocument(doc')
           /\ ok => doc' = status'
           /\ ~ok => doc' = doc
    BY DEF Publish, WindowTypes

\* The fields that a window which starts over has.
LEMMA NewPanelIs ==
    ASSUME NEW first \in Nat
    PROVE  /\ IsPanel(NewPanel(first)) /\ NoCommand \in Commands
           /\ NewPanel(first).first = first /\ NewPanel(first).clicks = first
           /\ NewPanel(first).draft = NoCommand /\ NewPanel(first).pending = 0
           /\ NewPanel(first).polled = FALSE /\ NewPanel(first).failed = FALSE
    BY DEF NewPanel, IsPanel, NoCommand, Commands, Opening, IsDocument, Numbers

\* request_close(): whatever it is called with, the window is closing after it,
\* and the save is the one before.
LEMMA RequestCloseDoes ==
    ASSUME WindowTypes, NEW r, IsFields(r), NEW st, IsDocument(st), NEW ok \in BOOLEAN,
           RequestClose(r, st, ok)
    PROVE  /\ IsFields(c') /\ c'.closing = TRUE
           /\ c'.active = r.active /\ c'.pending_map = r.pending_map /\ c'.maps = r.maps
           /\ c'.sequence = r.sequence /\ c'.cancel_start = r.cancel_start
           /\ c'.draining = r.draining /\ c'.failed_operation = r.failed_operation
           /\ IsSaver(saver') /\ saver'.id = saver.id /\ saver'.at = saver.at
           /\ saver'.result = saver.result
           /\ IsDocument(status') /\ IsDocument(doc') /\ status'.state \in {st.state, "CLOSING"}
           /\ command' \in Commands /\ IsPanel(panel')
    <1>1. c' = [r EXCEPT !.closing = TRUE]
      BY DEF RequestClose
    <1>2. /\ IsFields(c') /\ c'.closing = TRUE
          /\ c'.active = r.active /\ c'.pending_map = r.pending_map /\ c'.maps = r.maps
          /\ c'.sequence = r.sequence /\ c'.cancel_start = r.cancel_start
          /\ c'.draining = r.draining /\ c'.failed_operation = r.failed_operation
      BY <1>1 DEF IsFields
    <1>3. /\ IsSaver(saver') /\ saver'.id = saver.id /\ saver'.at = saver.at
          /\ saver'.result = saver.result
      BY DEF RequestClose, Cancel, WindowTypes, IsSaver
    <1>4. IsDocument(status') /\ IsDocument(doc') /\ status'.state \in {st.state, "CLOSING"}
      <2>1. CASE r.closing
        BY <2>1 DEF RequestClose, WindowTypes
      <2>2. CASE ~r.closing
        <3> DEFINE new == State(st, "CLOSING", FALSE, FALSE)
        <3>1. Publish(new, ok)
          BY <2>2 DEF RequestClose
        <3>2. Advances(st, new)
          BY StateAdvances
        <3>3. new.state = "CLOSING"
          BY DEF State, IsDocument
        <3> HIDE DEF new
        <3>4. QED BY <3>1, <3>2, <3>3, PublishDoes DEF Advances
      <2>3. QED BY <2>1, <2>2
    <1>5. command' \in Commands /\ IsPanel(panel')
      <2>1. CASE r.closing
        BY <2>1 DEF RequestClose, Window, WindowTypes
      <2>2. CASE ~r.closing
        BY <2>2, NewPanelIs DEF RequestClose
      <2>3. QED BY <2>1, <2>2
    <1>6. QED BY <1>2, <1>3, <1>4, <1>5

\* The future when nothing is under way.
LEMMA NoTaskTyped == NoTask \in Tasks
    BY DEF NoTask, Tasks, Numbers

\* request_close() out of the loop: a signal, the end of the window, or a save
\* result nobody can trust.
LEMMA CloserDoes ==
    ASSUME WindowInv, StopRequested \/ GuiEnds \/ SaveMistrusted
    PROVE  /\ where \in {"stop", "gui", "receive", "complete", "save", "tail"} /\ ~c.closing
           /\ IsFields(c') /\ c'.closing = TRUE
           /\ c'.active = c.active /\ c'.pending_map = c.pending_map /\ c'.maps = c.maps
           /\ c'.sequence = c.sequence /\ c'.cancel_start = c.cancel_start
           /\ c'.draining = c.draining /\ c'.failed_operation = c.failed_operation
           /\ IsSaver(saver') /\ saver'.id = saver.id /\ saver'.at = saver.at
           /\ saver'.result = saver.result
           /\ IsDocument(status') /\ IsDocument(doc') /\ status'.state \in {status.state, "CLOSING"}
           /\ command' \in Commands /\ IsPanel(panel')
           /\ where' \in {"gui", "receive", "save", "failed"}
           /\ UNCHANGED <<task, running, data, results, cancelled>>
    <1> DEFINE Spared(r) == /\ IsFields(r) /\ r.active = c.active /\ r.pending_map = c.pending_map
                          /\ r.maps = c.maps /\ r.sequence = c.sequence
                          /\ r.cancel_start = c.cancel_start /\ r.draining = c.draining
                          /\ r.failed_operation = c.failed_operation
    <1>1. /\ UNCHANGED <<task, running, data, results, cancelled>>
          /\ where' \in {"gui", "receive", "save", "failed"}
      BY DEF StopRequested, GuiEnds, SaveMistrusted, Others, Continue
    <1>0. ~c.closing /\ where \in {"stop", "gui", "receive", "complete", "save", "tail"}
      <2>1. ~c.closing
        BY DEF StopRequested, GuiEnds, SaveMistrusted, Busy, GuiExited
      <2>2. QED BY <2>1, ReachesBody DEF StopRequested, GuiEnds, SaveMistrusted, Polls, WindowInv,
         Phases
    <1>2. \E r : \E ok \in BOOLEAN : Spared(r) /\ RequestClose(r, status, ok)
      <2>1. CASE StopRequested
        <3>1. PICK ok \in BOOLEAN : RequestClose(c, status, ok)
          BY <2>1 DEF StopRequested
        <3>2. Spared(c)
          BY DEF WindowInv, WindowTypes
        <3>3. QED BY <3>1, <3>2
      <2>2. CASE GuiEnds
        <3> DEFINE r == [c EXCEPT !.errors = IF gui = "crashed" THEN TRUE ELSE @]
        <3>1. PICK ok \in BOOLEAN : RequestClose(r, status, ok)
          BY <2>2 DEF GuiEnds
        <3>2. Spared(r)
          BY DEF WindowInv, WindowTypes, IsFields
        <3> HIDE DEF r
        <3>3. QED BY <3>1, <3>2
      <2>3. CASE SaveMistrusted
        <3> DEFINE r == [c EXCEPT !.errors = TRUE]
        <3>1. PICK ok \in BOOLEAN : RequestClose(r, status, ok)
          BY <2>3 DEF SaveMistrusted
        <3>2. Spared(r)
          BY DEF WindowInv, WindowTypes, IsFields
        <3> HIDE DEF r
        <3>3. QED BY <3>1, <3>2
      <2>4. QED BY <2>1, <2>2, <2>3
    <1>3. PICK r : Spared(r) /\ \E ok \in BOOLEAN : RequestClose(r, status, ok)
      BY <1>2
    <1>4. PICK ok \in BOOLEAN : RequestClose(r, status, ok)
      BY <1>3
    <1>5. WindowTypes /\ IsDocument(status) /\ IsFields(r)
      BY <1>3 DEF WindowInv, WindowTypes
    <1> HIDE DEF Spared
    <1>6. /\ IsFields(c') /\ c'.closing = TRUE
          /\ c'.active = r.active /\ c'.pending_map = r.pending_map /\ c'.maps = r.maps
          /\ c'.sequence = r.sequence /\ c'.cancel_start = r.cancel_start
          /\ c'.draining = r.draining /\ c'.failed_operation = r.failed_operation
          /\ IsSaver(saver') /\ saver'.id = saver.id /\ saver'.at = saver.at
          /\ saver'.result = saver.result
          /\ IsDocument(status') /\ IsDocument(doc') /\ status'.state \in {status.state, "CLOSING"}
          /\ command' \in Commands /\ IsPanel(panel')
      BY <1>4, <1>5, RequestCloseDoes
    <1>7. QED BY <1>0, <1>1, <1>3, <1>6 DEF Spared

\* operation_failed(): the window closes; after the second failed stop of a
\* session its number is given up, and a map among them left for the report.
LEMMA FailureDoes ==
    ASSUME WindowInv, OperationFailed
    PROVE  /\ where = "failed"
           /\ IsFields(c') /\ c'.closing = TRUE /\ c'.maps = c.maps /\ c'.sequence = c.sequence
           /\ c'.cancel_start = c.cancel_start
           /\ \/ c'.active = c.active /\ c'.pending_map = c.pending_map
              \/ /\ c.failed_operation # "none" /\ c.active # None /\ c'.active = None
                 /\ c'.pending_map = IF c.active \in c.maps THEN c.active ELSE c.pending_map
           /\ \/ where' = "drain" /\ c'.draining = TRUE
              \/ where' = "stop" /\ c'.draining = c.draining /\ ~c.draining
           /\ c'.failed_operation = "none" \/ c'.draining
           /\ IsSaver(saver') /\ saver'.id = saver.id /\ saver'.at = saver.at
           /\ saver'.result = saver.result
           /\ IsDocument(status') /\ IsDocument(doc') /\ status'.state \in {status.state, "CLOSING"}
           /\ command' \in Commands /\ IsPanel(panel')
           /\ UNCHANGED <<task, running, data, results, cancelled>>
    <1> DEFINE r == [c EXCEPT !.errors = TRUE]
               exhausted == r.failed_operation \in StopOps /\ r.active # None /\ r.attempts >= 2
               abandoned == [r EXCEPT !.unconfirmed = @ \cup {r.active},
                                      !.pending_map = IF r.active \in r.maps THEN r.active ELSE @,
                                      !.active = None]
               ended == [IF exhausted THEN abandoned ELSE r
                         EXCEPT !.failed_operation = "none", !.action = "none"]
               cut == [r EXCEPT !.draining = TRUE, !.raised = TRUE, !.action = "none"]
               st == IF exhausted THEN Bind(status, None) ELSE status
    <1>1. where = "failed" /\ UNCHANGED <<task, running, data, results, cancelled>>
      BY DEF OperationFailed, Others
    <1>2. \/ RequestClose(ended, st, TRUE) /\ where' = IF c.draining THEN "drain" ELSE "stop"
          \/ RequestClose(cut, status, FALSE) /\ where' = "drain"
      BY DEF OperationFailed
    <1>3. /\ IsFields(r) /\ r.maps = c.maps /\ r.sequence = c.sequence
          /\ r.cancel_start = c.cancel_start /\ r.active = c.active /\ r.pending_map = c.pending_map
          /\ r.draining = c.draining /\ r.failed_operation = c.failed_operation
      BY DEF WindowInv, WindowTypes, IsFields
    <1>4. /\ IsFields(cut) /\ cut.maps = c.maps /\ cut.sequence = c.sequence
          /\ cut.cancel_start = c.cancel_start /\ cut.active = c.active
          /\ cut.pending_map = c.pending_map /\ cut.draining = TRUE
      BY <1>3 DEF IsFields
    <1>5. /\ IsFields(ended) /\ ended.maps = c.maps /\ ended.sequence = c.sequence
          /\ ended.cancel_start = c.cancel_start /\ ended.failed_operation = "none"
          /\ ended.draining = c.draining
          /\ \/ ended.active = c.active /\ ended.pending_map = c.pending_map
             \/ /\ c.failed_operation # "none" /\ c.active # None /\ ended.active = None
                /\ ended.pending_map = IF c.active \in c.maps THEN c.active ELSE c.pending_map
      <2>1. CASE exhausted
        BY <1>3, <2>1 DEF IsFields, Numbers, StopOps
      <2>2. CASE ~exhausted
        BY <1>3, <2>2 DEF IsFields
      <2>3. QED BY <2>1, <2>2
    <1>6. IsDocument(st) /\ st.state = status.state
      BY BindDoes DEF WindowInv, WindowTypes, Numbers
    <1> HIDE DEF ended, cut, st
    <1>7. CASE RequestClose(ended, st, TRUE) /\ where' = IF c.draining THEN "drain" ELSE "stop"
      <2>1. TRUE \in BOOLEAN OBVIOUS
      <2>2. QED BY <1>1, <1>5, <1>6, <1>7, <2>1, RequestCloseDoes DEF WindowInv
    <1>8. CASE RequestClose(cut, status, FALSE) /\ where' = "drain"
      <2>1. FALSE \in BOOLEAN OBVIOUS
      <2>2. QED BY <1>1, <1>4, <1>8, <2>1, RequestCloseDoes DEF WindowInv, WindowTypes
    <1>9. QED BY <1>2, <1>7, <1>8

\* A start that was cancelled before it began: the window closes, or the preview
\* comes back with the next number.
LEMMA StartCancelledDoes ==
    ASSUME WindowInv, StartCancelled
    PROVE  /\ task.at = "done" /\ task.op \in StartOps /\ task.result = "cancelled"
           /\ where \in {"stop", "gui", "receive", "complete", "save", "tail", "drain"}
           /\ IsFields(c') /\ c'.active = c.active /\ c'.pending_map = c.pending_map
           /\ c'.maps = c.maps /\ c'.draining = c.draining
           /\ c'.failed_operation = c.failed_operation
           /\ IsSaver(saver') /\ saver'.id = saver.id /\ saver'.at = saver.at
           /\ saver'.result = saver.result
           /\ IsDocument(status') /\ IsDocument(doc') /\ command' \in Commands /\ IsPanel(panel')
           /\ status'.state \in {status.state, "CLOSING", "STOPPING"}
           /\ UNCHANGED <<running, data, results, cancelled>>
           /\ where' \in {"failed", IF c.draining THEN "drain" ELSE "save"}
           /\ \/ /\ c'.closing = TRUE /\ task' = NoTask /\ c'.sequence = c.sequence
                 /\ c'.cancel_start = c.cancel_start
              \/ /\ ~c.closing /\ ~stop /\ c'.closing = c.closing /\ task.op = "start_map"
                 /\ c'.sequence = c.sequence + 1 /\ c'.sequence \in Sessions
                 /\ c'.cancel_start = FALSE
                 /\ task' = [at |-> "preflight", op |-> "start_preview", id |-> c.sequence + 1,
                             after |-> "none", result |-> "none"]
                 /\ UNCHANGED <<saver, command, gui, panel, stop>>
                 /\ Advances(status, status') /\ status'.state = "STOPPING"
                 /\ ~status'.can_start /\ ~status'.can_stop
                 /\ \/ where' = "save" /\ doc' = status'
                    \/ where' = "failed" /\ doc' = doc
    <1>1. /\ task.at = "done" /\ task.op \in StartOps /\ task.result = "cancelled"
          /\ where \in {"stop", "gui", "receive", "complete", "save", "tail", "drain"}
          /\ UNCHANGED <<running, data, results, cancelled>>
      BY ReachesBody DEF StartCancelled, Completes, Others
    <1>2. PICK ok \in BOOLEAN :
            /\ Continue(ok, After)
            /\ IF c.closing \/ stop
               THEN RequestClose(c, status, ok) /\ task' = NoTask
               ELSE /\ c' = BeginStart([c EXCEPT !.cancel_start = FALSE], FALSE)
                    /\ task' = StartTask(c, FALSE)
                    /\ Publish(State(status, "STOPPING", FALSE, FALSE), ok)
                    /\ UNCHANGED <<saver, Window>>
      BY DEF StartCancelled
    <1>3. where' \in {"failed", IF c.draining THEN "drain" ELSE "save"}
      BY <1>2 DEF Continue, After
    <1>4. CASE c.closing \/ stop
      <2>1. RequestClose(c, status, ok) /\ task' = NoTask
        BY <1>2, <1>4
      <2>2. /\ IsFields(c') /\ c'.closing = TRUE
            /\ c'.active = c.active /\ c'.pending_map = c.pending_map /\ c'.maps = c.maps
            /\ c'.sequence = c.sequence /\ c'.cancel_start = c.cancel_start
            /\ c'.draining = c.draining /\ c'.failed_operation = c.failed_operation
            /\ IsSaver(saver') /\ saver'.id = saver.id /\ saver'.at = saver.at
            /\ saver'.result = saver.result
            /\ IsDocument(status') /\ IsDocument(doc') /\ status'.state \in {status.state, "CLOSING"}
            /\ command' \in Commands /\ IsPanel(panel')
        BY <2>1, RequestCloseDoes DEF WindowInv, WindowTypes
      <2>3. QED BY <1>1, <1>3, <2>1, <2>2
    <1>5. CASE ~(c.closing \/ stop)
      <2>1. /\ c' = BeginStart([c EXCEPT !.cancel_start = FALSE], FALSE)
            /\ Publish(State(status, "STOPPING", FALSE, FALSE), ok)
            /\ UNCHANGED <<saver, Window>>
        BY <1>2, <1>5
      <2>2. /\ IsFields(c') /\ c'.active = c.active /\ c'.pending_map = c.pending_map
            /\ c'.maps = c.maps /\ c'.draining = c.draining
            /\ c'.failed_operation = c.failed_operation
            /\ c'.closing = c.closing /\ c'.sequence = c.sequence + 1 /\ c'.cancel_start = FALSE
        BY <2>1 DEF BeginStart, IsFields, WindowInv, WindowTypes
      <2>3. task' = [at |-> "preflight", op |-> "start_preview", id |-> c.sequence + 1,
                     after |-> "none", result |-> "none"]
        BY <1>2, <1>5 DEF StartTask
      <2>4. task.op = "start_map" /\ c.sequence + 1 \in Sessions
        BY <1>1, <1>5 DEF StartOps, WindowInv, WindowTypes, IsFields, Room, Calm, Sessions
      <2>5. Advances(status, State(status, "STOPPING", FALSE, FALSE))
        BY StateAdvances DEF WindowInv, WindowTypes
      <2>6. /\ status' = State(status, "STOPPING", FALSE, FALSE)
            /\ IsDocument(status') /\ IsDocument(doc') /\ (ok => doc' = status') /\ (~ok => doc' = doc)
        BY <2>1, <2>5, PublishDoes DEF Advances, WindowInv
      <2>7. status'.state = "STOPPING" /\ ~status'.can_start /\ ~status'.can_stop
        BY <2>6 DEF State
      <2>8. \/ where' = "save" /\ doc' = status'
            \/ where' = "failed" /\ doc' = doc
        BY <1>2, <1>5, <2>6 DEF Continue, After, WindowInv, Phases
      <2>9. QED BY <1>1, <1>3, <1>5, <2>1, <2>2, <2>3, <2>4, <2>5, <2>6, <2>7, <2>8 DEF Window,
         WindowInv, WindowTypes
    <1>6. QED BY <1>4, <1>5

\* A stop that closed normally: the session is released, and unless the window
\* closes the next one is requested with the next number.
LEMMA StopCompletesDoes ==
    ASSUME WindowInv, StopCompletes
    PROVE  /\ task.at = "done" /\ task.op \in StopOps /\ task.result = "normal"
           /\ where \in {"stop", "gui", "receive", "complete", "save", "tail", "drain"}
           /\ IsFields(c') /\ c'.active = None /\ c'.closing = c.closing
           /\ c'.pending_map = IF task.op = "stop_map" THEN c.active ELSE c.pending_map
           /\ c'.draining = c.draining /\ c'.failed_operation = c.failed_operation
           /\ data' = IF task.op = "stop_preview" THEN [data EXCEPT ![c.active] = "discarded"] ELSE data
           /\ UNCHANGED <<saver, command, gui, panel, stop, running, results, cancelled>>
           /\ Advances(status, status') /\ IsDocument(doc')
           /\ where' \in {"failed", IF c.draining THEN "drain" ELSE "save"}
           /\ where' # "failed" => doc' = status'
           /\ where' = "failed" => doc' = doc
           /\ \/ /\ c.closing /\ task' = NoTask /\ c'.maps = c.maps /\ c'.sequence = c.sequence
                 /\ c'.cancel_start = c.cancel_start /\ status'.state = status.state
              \/ /\ ~c.closing /\ c'.sequence = c.sequence + 1 /\ c'.sequence \in Sessions
                 /\ \/ /\ task.after = "map" /\ ~c.cancel_start /\ c'.cancel_start = c.cancel_start
                       /\ c.sequence + 2 <= MaxSessions
                       /\ c'.maps = c.maps \cup {c.sequence + 1}
                       /\ task' = [at |-> "preflight", op |-> "start_map", id |-> c.sequence + 1,
                                   after |-> "none", result |-> "none"]
                       /\ status'.state = "STARTING" /\ ~status'.can_start
                    \/ /\ ~(task.after = "map" /\ ~c.cancel_start) /\ c'.cancel_start = FALSE
                       /\ c'.maps = c.maps
                       /\ task' = [at |-> "preflight", op |-> "start_preview", id |-> c.sequence + 1,
                                   after |-> "none", result |-> "none"]
                       /\ status'.state = "STOPPING" /\ ~status'.can_start /\ ~status'.can_stop
    <1> DEFINE mapping == task.after = "map" /\ ~c.cancel_start
               r == IF mapping THEN Released ELSE [Released EXCEPT !.cancel_start = FALSE]
               st == Bind(status, None)
    <1>1. /\ task.at = "done" /\ task.op \in StopOps /\ task.result = "normal"
          /\ where \in {"stop", "gui", "receive", "complete", "save", "tail", "drain"}
          /\ data' = IF task.op = "stop_preview" THEN [data EXCEPT ![c.active] = "discarded"] ELSE data
          /\ UNCHANGED <<saver, command, gui, panel, stop, running, results, cancelled>>
      BY ReachesBody DEF StopCompletes, Stopped, Completes, Window
    <1>2. PICK ok \in BOOLEAN :
           /\ Continue(ok, After)
           /\ IF c.closing
              THEN /\ Publish([st EXCEPT !.generation = @ + 1], ok)
                   /\ c' = Released /\ task' = NoTask
              ELSE /\ Publish(IF mapping THEN State(st, "STARTING", FALSE, TRUE)
                                         ELSE State(st, "STOPPING", FALSE, FALSE), ok)
                   /\ c' = BeginStart(r, mapping) /\ task' = StartTask(c, mapping)
      BY DEF StopCompletes
    <1>3. /\ where' \in {"failed", IF c.draining THEN "drain" ELSE "save"}
          /\ where' = "failed" <=> ~ok
      BY <1>2 DEF Continue, After
    <1>4. /\ IsFields(Released) /\ Released.active = None /\ Released.closing = c.closing
          /\ Released.pending_map = IF task.op = "stop_map" THEN c.active ELSE c.pending_map
          /\ Released.draining = c.draining /\ Released.failed_operation = c.failed_operation
          /\ Released.maps = c.maps /\ Released.sequence = c.sequence
          /\ Released.cancel_start = c.cancel_start
      BY DEF Released, WindowInv, WindowTypes, IsFields, Numbers
    <1>5. /\ IsDocument(st) /\ st.view = status.view + 1 /\ st.active = None /\ st.state = status.state
          /\ st.generation = status.generation /\ st.token = status.token /\ st.ack = status.ack
          /\ st.last_sequence = status.last_sequence
      BY BindDoes DEF WindowInv, WindowTypes, Numbers
    <1>6. CASE c.closing
      <2> DEFINE new == [st EXCEPT !.generation = @ + 1]
      <2>1. Advances(status, new) /\ new.state = status.state
        <3> HIDE DEF st
        <3>1. /\ DOMAIN new = DOMAIN st /\ new.generation = status.generation + 1
              /\ new.active = None /\ new.view = status.view + 1 /\ new.token = status.token
              /\ new.ack = status.ack /\ new.last_sequence = status.last_sequence
              /\ new.state = status.state
          BY <1>5 DEF IsDocument
        <3> HIDE DEF new
        <3>2. QED BY <1>5, <3>1 DEF Advances, Follows, IsDocument, WindowInv, WindowTypes
      <2>2. Publish(new, ok) /\ c' = Released /\ task' = NoTask
        BY <1>2, <1>6
      <2> HIDE DEF new
      <2>3. status' = new /\ IsDocument(doc') /\ (ok => doc' = status') /\ (~ok => doc' = doc)
        BY <2>1, <2>2, PublishDoes DEF Advances, WindowInv
      <2>4. QED BY <1>1, <1>3, <1>4, <1>6, <2>1, <2>2, <2>3
    <1>7. CASE ~c.closing
      <2>1. /\ c.sequence \in Nat /\ c.sequence + 1 \in Sessions
            /\ mapping => c.sequence + 2 <= MaxSessions
        BY <1>1, <1>7 DEF WindowInv, WindowTypes, IsFields, Room, Calm, Sessions, TaskFits, Tasks
      <2>2. CASE mapping
        <3> DEFINE new == State(st, "STARTING", FALSE, TRUE)
        <3>1. Advances(status, new)
          BY BoundAdvances DEF WindowInv, WindowTypes, Numbers
        <3>2. new.state = "STARTING" /\ ~new.can_start
          BY <1>5 DEF State, IsDocument
        <3>3. Publish(new, ok) /\ c' = BeginStart(Released, TRUE) /\ task' = StartTask(c, TRUE)
          BY <1>2, <1>7, <2>2
        <3> HIDE DEF new, st
        <3>4. status' = new /\ IsDocument(doc') /\ (ok => doc' = status') /\ (~ok => doc' = doc)
          BY <3>1, <3>3, PublishDoes DEF Advances, WindowInv
        <3>5. /\ c'.sequence = c.sequence + 1 /\ c'.maps = c.maps \cup {c.sequence + 1}
              /\ IsFields(c') /\ c'.active = None /\ c'.closing = c.closing
              /\ c'.pending_map = Released.pending_map /\ c'.draining = c.draining
              /\ c'.failed_operation = c.failed_operation /\ c'.cancel_start = c.cancel_start
          BY <1>4, <2>1, <3>3 DEF BeginStart, IsFields
        <3>6. task' = [at |-> "preflight", op |-> "start_map", id |-> c.sequence + 1,
                       after |-> "none", result |-> "none"]
          BY <3>3 DEF StartTask
        <3>7. QED BY <1>1, <1>3, <1>4, <1>7, <2>1, <2>2, <3>1, <3>2, <3>4, <3>5, <3>6
      <2>3. CASE ~mapping
        <3> DEFINE new == State(st, "STOPPING", FALSE, FALSE)
                   kept == [Released EXCEPT !.cancel_start = FALSE]
        <3>1. Advances(status, new)
          BY BoundAdvances DEF WindowInv, WindowTypes, Numbers
        <3>2. new.state = "STOPPING" /\ ~new.can_start /\ ~new.can_stop
          BY <1>5 DEF State, IsDocument
        <3>3. Publish(new, ok) /\ c' = BeginStart(kept, FALSE) /\ task' = StartTask(c, FALSE)
          BY <1>2, <1>7, <2>3
        <3> HIDE DEF new, st
        <3>4. status' = new /\ IsDocument(doc') /\ (ok => doc' = status') /\ (~ok => doc' = doc)
          BY <3>1, <3>3, PublishDoes DEF Advances, WindowInv
        <3>5. /\ c'.sequence = c.sequence + 1 /\ c'.maps = c.maps
              /\ IsFields(c') /\ c'.active = None /\ c'.closing = c.closing
              /\ c'.pending_map = Released.pending_map /\ c'.draining = c.draining
              /\ c'.failed_operation = c.failed_operation /\ c'.cancel_start = FALSE
          BY <1>4, <2>1, <3>3 DEF BeginStart, IsFields
        <3>6. task' = [at |-> "preflight", op |-> "start_preview", id |-> c.sequence + 1,
                       after |-> "none", result |-> "none"]
          BY <3>3 DEF StartTask
        <3>7. QED BY <1>1, <1>3, <1>4, <1>7, <2>1, <2>3, <3>1, <3>2, <3>4, <3>5, <3>6
      <2>4. QED BY <2>2, <2>3
    <1>8. QED BY <1>6, <1>7

\* poll() of a status that does not contradict the one before.
LEMMA PollDoes ==
    ASSUME WindowInv, Poll, ~Contradicts(doc)
    PROVE  /\ DOMAIN panel' = DOMAIN panel /\ panel'.seen = doc /\ panel'.polled = TRUE
           /\ panel'.pending = IF Answered THEN 0 ELSE panel.pending
           /\ panel'.first = panel.first /\ panel'.clicks = panel.clicks
           /\ panel'.sequence = panel.sequence /\ panel'.draft = panel.draft
           /\ panel'.failed = panel.failed
    <1>1. panel' = [panel EXCEPT !.polled = TRUE, !.seen = doc,
                                 !.pending = IF Answered THEN 0 ELSE panel.pending]
      BY DEF Poll
    <1>2. QED BY <1>1 DEF WindowInv, WindowTypes, IsPanel
\* Every step leaves the coordinator's fields well formed.
LEMMA FieldsTyped ==
    ASSUME WindowInv, WindowNext
    PROVE  IsFields(c')
    <1> USE DEF WindowInv, WindowTypes, Numbers, None
    <1>1. CASE Rejected \/ InspectFails \/ Drained \/ Raises \/ Executor \/ SaveExits \/ Poll \/ Click \/
      Submit \/ WindowEnds \/ Signal \/ Terminated
      BY <1>1 DEF CancelledBeforeStart, Click, Drained, Raises, Executor, InspectFails, Loop, Main,
         Poll,
         PreflightFails, Rejected, SaveExits, Signal, StartBegins, StartEnds, StopEnds, Submit,
         Terminated, WindowEnds, windowVars
    <1>2. CASE StopRequested \/ GuiEnds \/ SaveMistrusted
      BY <1>2, CloserDoes
    <1>3. CASE OperationFailed
      BY <1>3, FailureDoes
    <1>4. CASE GuiRetry
      BY <1>4, ReachesBody DEF GuiRetry, IsFields
    <1>5. CASE Accepted
      BY <1>5, ReachesBody DEF Accepted, IsFields
    <1>6. CASE CommandStart
      BY <1>6 DEF BeginStop, CommandStart, IsFields
    <1>7. CASE CommandCancel
      BY <1>7 DEF CommandCancel, IsFields
    <1>8. CASE CommandStop
      BY <1>8 DEF BeginStop, CommandStop, IsFields
    <1>9. CASE OperationRaises
      BY <1>9, ReachesBody DEF IsFields, OperationRaises
    <1>10. CASE StartedToClose
      BY <1>10, ReachesBody DEF BeginStop, IsFields, Owning, StartedToClose, Tasks
    <1>11. CASE StartedToCancel
      BY <1>11, ReachesBody DEF BeginStop, IsFields, Owning, StartedToCancel, Tasks
    <1>12. CASE ShowFails
      BY <1>12, ReachesBody DEF IsFields, Owning, ShowFails, Tasks
    <1>13. CASE ShowMapping
      BY <1>13, ReachesBody DEF IsFields, Owning, ShowMapping, Tasks
    <1>14. CASE ShowPreview
      BY <1>14, ReachesBody DEF IsFields, Owning, ShowPreview, Tasks
    <1>15. CASE StartSave
      BY <1>15, ReachesBody DEF IsFields, Owning, StartSave, Tasks
    <1>16. CASE DiscardFails
      BY <1>16, ReachesBody DEF DiscardFails, IsFields, Released
    <1>17. CASE StartCancelled
      BY <1>17, StartCancelledDoes
    <1>18. CASE StopCompletes
      BY <1>18, StopCompletesDoes
    <1>19. CASE PrepareFails
      BY <1>19, ReachesBody DEF IsFields, PrepareFails, Released
    <1>20. CASE SaveEnds
      BY <1>20, ReachesBody DEF IsFields, Mistrusted, SaveEnds
    <1>21. CASE TailStops
      BY <1>21, ReachesBody DEF BeginStop, IsFields, TailStops
    <1>22. CASE Leave
      BY <1>22, ReachesBody DEF IsFields, Leave
    <1>23. CASE DrainStops
      BY <1>23 DEF BeginStop, DrainStops, IsFields
    <1>24. CASE Finish
      BY <1>24 DEF Finish, IsFields
    <1>25. QED BY <1>1, <1>2, <1>3, <1>4, <1>5, <1>6, <1>7, <1>8, <1>9, <1>10, <1>11, <1>12,
       <1>13, <1>14, <1>15, <1>16, <1>17, <1>18, <1>19, <1>20, <1>21, <1>22, <1>23, <1>24 DEF
       WindowNext, Coordinator, Executor

\* Every step leaves the loop at one of its places.
LEMMA PlacesTyped ==
    ASSUME WindowInv, WindowNext
    PROVE  where' \in Places
    <1> USE DEF WindowInv, WindowTypes, Numbers, None, Places
    <1>1. CASE Executor \/ SaveExits \/ DrainStops \/ Poll \/ Click \/ Submit \/ WindowEnds \/
      Signal \/ Terminated
      BY <1>1 DEF CancelledBeforeStart, Click, DrainStops, Executor, Loop, Main, Poll,
         PreflightFails, SaveExits, Signal, StartBegins, StartEnds, StopEnds, Submit, Terminated,
         WindowEnds, windowVars
    <1>2. CASE StopRequested \/ GuiEnds \/ SaveMistrusted
      BY <1>2, CloserDoes
    <1>3. CASE OperationFailed
      BY <1>3, FailureDoes
    <1>4. CASE GuiRetry \/ Rejected \/ Accepted \/ CommandStart \/ CommandCancel \/ CommandStop
      BY <1>4 DEF Accepted, CommandCancel, CommandStart, CommandStop, Continue, GuiRetry, Rejected
    <1>5. CASE OperationRaises \/ StartCancelled \/ StartedToClose \/ StartedToCancel \/ ShowFails
      \/ ShowMapping \/ ShowPreview \/ StartSave \/ DiscardFails \/ StopCompletes \/ PrepareFails
      BY <1>5 DEF After, Continue, DiscardFails, OperationRaises, PrepareFails, ShowFails,
         ShowMapping, ShowPreview, StartCancelled, StartSave, StartedToCancel, StartedToClose,
         StopCompletes
    <1>6. CASE SaveEnds \/ TailStops \/ Leave \/ InspectFails \/ Drained \/ Raises \/ Finish
      BY <1>6 DEF AfterSave, Drained, Finish, Raises, InspectFails, Leave, SaveEnds, TailStops
    <1>7. QED BY <1>1, <1>2, <1>3, <1>4, <1>5, <1>6 DEF WindowNext, Coordinator, Executor

\* Every step leaves the executor's future well formed.
LEMMA TaskTyped ==
    ASSUME WindowInv, WindowNext
    PROVE  task' \in Tasks
    <1> USE DEF WindowInv, WindowTypes, Numbers, None
    <1>1. CASE StopRequested \/ GuiEnds \/ SaveMistrusted
      BY <1>1, CloserDoes
    <1>2. CASE OperationFailed
      BY <1>2, FailureDoes
    <1>3. CASE GuiRetry \/ Rejected \/ Accepted \/ CommandCancel \/ SaveEnds \/ Leave \/
      InspectFails \/ Drained \/ Raises \/ Finish \/ SaveExits \/ Poll \/ Click \/ Submit \/ WindowEnds \/
      Signal \/ Terminated
      BY <1>3 DEF Accepted, Click, CommandCancel, Drained, Finish, Raises, GuiRetry, InspectFails,
         Leave,
         Main, Poll, Rejected, SaveEnds, SaveExits, Signal, Submit, Terminated, WindowEnds,
         windowVars
    <1>4. CASE CommandStart
      BY <1>4 DEF CommandStart, IsFields, StopOps, StopTask, Tasks
    <1>5. CASE CommandStop
      BY <1>5 DEF CommandStop, IsFields, StopOps, StopTask, Tasks
    <1>6. CASE TailStops
      BY <1>6, ReachesBody DEF IsFields, StopOps, StopTask, TailStops, Tasks
    <1>7. CASE DrainStops
      BY <1>7 DEF DrainStops, IsFields, StopOps, StopTask, Tasks
    <1>8. CASE StartedToClose
      BY <1>8, ReachesBody DEF Owning, StartedToClose, StopOps, StopTask, Tasks
    <1>9. CASE StartedToCancel
      BY <1>9, ReachesBody DEF NoTask, Owning, StartedToCancel, StopOps, StopTask, Tasks
    <1>10. CASE OperationRaises \/ ShowFails \/ ShowMapping \/ ShowPreview \/ StartSave \/
      DiscardFails \/ PrepareFails
      BY <1>10, NoTaskTyped DEF OperationRaises, ShowFails, ShowMapping, ShowPreview, StartSave,
         DiscardFails, PrepareFails
    <1>11. CASE StartCancelled \/ StopCompletes
      <2>1. CASE task' = NoTask
        BY <2>1, NoTaskTyped
      <2>2. CASE task' # NoTask
        <3>1. c.sequence + 1 \in Numbers
          BY <1>11, <2>2, StartCancelledDoes, StopCompletesDoes
        <3>2. PICK op \in StartOps :
                task' = [at |-> "preflight", op |-> op, id |-> c.sequence + 1, after |-> "none",
                         result |-> "none"]
          BY <1>11, <2>2, StartCancelledDoes, StopCompletesDoes DEF StartOps
        <3>3. QED BY <3>1, <3>2 DEF Tasks
      <2>3. QED BY <2>1, <2>2
    <1>12. CASE PreflightFails
      BY <1>12 DEF PreflightFails, Settle, Tasks
    <1>13. CASE CancelledBeforeStart
      BY <1>13 DEF CancelledBeforeStart, Settle, Tasks
    <1>14. CASE StartBegins
      BY <1>14 DEF StartBegins, Tasks
    <1>15. CASE StartEnds
      BY <1>15 DEF Settle, StartEnds, Tasks
    <1>16. CASE StopEnds
      BY <1>16 DEF Settle, StopEnds, Tasks
    <1>17. QED BY <1>1, <1>2, <1>3, <1>4, <1>5, <1>6, <1>7, <1>8, <1>9, <1>10, <1>11, <1>12,
       <1>13, <1>14, <1>15, <1>16 DEF WindowNext, Coordinator, Executor

\* Every step leaves the save well formed.
LEMMA SaverTyped ==
    ASSUME WindowInv, WindowNext
    PROVE  IsSaver(saver')
    <1> USE DEF WindowInv, WindowTypes, Numbers, None
    <1>1. CASE StopRequested \/ GuiEnds \/ SaveMistrusted
      BY <1>1, CloserDoes
    <1>2. CASE OperationFailed
      BY <1>2, FailureDoes
    <1>3. CASE GuiRetry \/ Rejected \/ Accepted \/ CommandStart \/ CommandCancel \/ CommandStop \/
      OperationRaises \/ StartedToClose \/ StartedToCancel \/ ShowFails \/ ShowMapping \/
      ShowPreview \/ DiscardFails \/ StopCompletes \/ PrepareFails \/ TailStops \/ Leave \/
      DrainStops \/ Raises \/ Finish \/ InspectFails \/ PreflightFails \/ CancelledBeforeStart \/ StartBegins
      \/ StartEnds \/ StopEnds \/ Poll \/ Click \/ Submit \/ WindowEnds \/ Signal \/ Terminated
      BY <1>3 DEF Accepted, CancelledBeforeStart, Click, CommandCancel, CommandStart, CommandStop,
         DiscardFails, DrainStops, Finish, Raises, GuiRetry, InspectFails, Leave, Loop, Main,
         OperationRaises, Poll, PreflightFails, PrepareFails, Rejected, ShowFails, ShowMapping,
         ShowPreview, Signal, StartBegins, StartEnds, StartedToCancel, StartedToClose,
         StopCompletes, StopEnds, Submit, TailStops, Terminated, WindowEnds, windowVars
    <1>4. CASE StartCancelled
      BY <1>4, StartCancelledDoes
    <1>5. CASE StartSave
      BY <1>5, ReachesBody DEF IsFields, IsSaver, NoSaver, StartSave, Verdicts
    <1>6. CASE SaveEnds
      BY <1>6, ReachesBody DEF IsSaver, NoSaver, SaveEnds, Verdicts
    <1>7. CASE Drained
      BY <1>7 DEF Cancel, Drained, IsSaver
    <1>8. CASE SaveExits
      BY <1>8 DEF IsSaver, SaveExits, SaveOutcomes, Verdicts
    <1>9. QED BY <1>1, <1>2, <1>3, <1>4, <1>5, <1>6, <1>7, <1>8 DEF WindowNext, Coordinator,
       Executor

\* Every step leaves the status well formed, in memory and in its file.
LEMMA StatusTyped ==
    ASSUME WindowInv, WindowNext
    PROVE  IsDocument(status') /\ IsDocument(doc')
    <1> USE DEF WindowInv, WindowTypes, Numbers, None
    <1>1. CASE GuiRetry \/ OperationRaises \/ TailStops \/ Leave \/ DrainStops \/ Drained \/ Raises \/
      InspectFails \/ PreflightFails \/ CancelledBeforeStart \/ StartBegins \/ StartEnds \/ StopEnds
      \/ SaveExits \/ Poll \/ Click \/ Submit \/ WindowEnds \/ Signal \/ Terminated
      BY <1>1 DEF CancelledBeforeStart, Click, DrainStops, Drained, Raises, GuiRetry, InspectFails,
         Leave,
         Loop, Main, OperationRaises, Poll, PreflightFails, SaveExits, Signal, StartBegins,
         StartEnds, StopEnds, Submit, TailStops, Terminated, WindowEnds, windowVars
    <1>2. CASE StopRequested \/ GuiEnds \/ SaveMistrusted
      BY <1>2, CloserDoes
    <1>3. CASE OperationFailed
      BY <1>3, FailureDoes
    <1>4. CASE StartCancelled
      BY <1>4, StartCancelledDoes
    <1>5. CASE StopCompletes
      BY <1>5, StopCompletesDoes DEF Advances
    <1>6. CASE Rejected
      <2> DEFINE new == [status EXCEPT !.ack = command.nonce]
      <2>1. PICK ok \in BOOLEAN : Publish(new, ok)
        BY <1>6 DEF Rejected
      <2>2. IsDocument(new)
        BY DEF IsDocument, Commands
      <2> HIDE DEF new
      <2>3. QED BY <2>1, <2>2, PublishDoes
    <1>7. CASE Accepted
      <2> DEFINE new == [status EXCEPT !.ack = command.nonce, !.last_sequence = command.sequence,
                                       !.token = status.token + 1]
      <2>1. PICK ok \in BOOLEAN : Publish(new, ok)
        BY <1>7 DEF Accepted
      <2>2. IsDocument(new)
        BY DEF IsDocument, Commands
      <2> HIDE DEF new
      <2>3. QED BY <2>1, <2>2, PublishDoes
    <1>8. CASE CommandStart
      <2>1. PICK ok \in BOOLEAN : Publish(State(status, "STARTING", FALSE, TRUE), ok)
        BY <1>8 DEF CommandStart
      <2>2. Advances(status, State(status, "STARTING", FALSE, TRUE))
        BY <1>8, StateAdvances DEF CommandStart, Started, Completes
      <2>3. QED BY <2>1, <2>2, PublishDoes DEF Advances
    <1>9. CASE CommandCancel
      <2>1. PICK ok \in BOOLEAN : Publish(State(status, "STARTING", FALSE, FALSE), ok)
        BY <1>9 DEF CommandCancel
      <2>2. Advances(status, State(status, "STARTING", FALSE, FALSE))
        BY <1>9, StateAdvances DEF CommandCancel, Started, Completes
      <2>3. QED BY <2>1, <2>2, PublishDoes DEF Advances
    <1>10. CASE CommandStop
      <2>1. PICK ok \in BOOLEAN : Publish(State(status, "STOPPING", FALSE, FALSE), ok)
        BY <1>10 DEF CommandStop
      <2>2. Advances(status, State(status, "STOPPING", FALSE, FALSE))
        BY <1>10, StateAdvances DEF CommandStop, Started, Completes
      <2>3. QED BY <2>1, <2>2, PublishDoes DEF Advances
    <1>11. CASE StartedToCancel
      <2>1. PICK ok \in BOOLEAN : Publish(State(Bind(status, task.id), "STOPPING", FALSE, FALSE), ok)
        BY <1>11 DEF StartedToCancel
      <2>2. Advances(status, State(Bind(status, task.id), "STOPPING", FALSE, FALSE))
        BY <1>11, BoundAdvances DEF Tasks
      <2>3. QED BY <2>1, <2>2, PublishDoes DEF Advances
    <1>12. CASE ShowMapping
      <2>1. PICK ok \in BOOLEAN : Publish(State(Bind(status, task.id), "MAPPING", FALSE, TRUE), ok)
        BY <1>12 DEF ShowMapping
      <2>2. Advances(status, State(Bind(status, task.id), "MAPPING", FALSE, TRUE))
        BY <1>12, BoundAdvances DEF Tasks
      <2>3. QED BY <2>1, <2>2, PublishDoes DEF Advances
    <1>13. CASE ShowPreview
      <2>1. PICK ok \in BOOLEAN : Publish(State(Bind(status, task.id), "PREVIEW", TRUE, FALSE), ok)
        BY <1>13 DEF ShowPreview
      <2>2. Advances(status, State(Bind(status, task.id), "PREVIEW", TRUE, FALSE))
        BY <1>13, BoundAdvances DEF Tasks
      <2>3. QED BY <2>1, <2>2, PublishDoes DEF Advances
    <1>14. CASE StartSave
      <2>1. PICK ok \in BOOLEAN : Publish(State(Bind(status, task.id), "SAVING", FALSE, FALSE), ok)
        BY <1>14 DEF StartSave
      <2>2. Advances(status, State(Bind(status, task.id), "SAVING", FALSE, FALSE))
        BY <1>14, BoundAdvances DEF Tasks
      <2>3. QED BY <2>1, <2>2, PublishDoes DEF Advances
    <1>15. CASE SaveEnds
      <2> DEFINE new == IF c.closing THEN status ELSE State(status, "PREVIEW", TRUE, FALSE)
      <2>1. PICK ok \in BOOLEAN : Publish(new, ok)
        BY <1>15 DEF SaveEnds
      <2>2. IsDocument(new)
        BY StateAdvances DEF Advances
      <2> HIDE DEF new
      <2>3. QED BY <2>1, <2>2, PublishDoes
    <1>16. CASE Finish
      <2>1. PICK ok \in BOOLEAN :
              Publish(State(Bind(status, None), IF c'.errors THEN "FAILED" ELSE "CLOSED", FALSE, FALSE), ok)
        BY <1>16 DEF Finish
      <2>2. Advances(status, State(Bind(status, None), IF c'.errors THEN "FAILED" ELSE "CLOSED", FALSE, FALSE))
        BY BoundAdvances
      <2>3. QED BY <2>1, <2>2, PublishDoes DEF Advances
    <1>17. CASE StartedToClose \/ ShowFails \/ DiscardFails \/ PrepareFails
      BY <1>17, BindDoes DEF DiscardFails, PrepareFails, ShowFails, StartedToClose, Tasks
    <1>18. QED BY <1>1, <1>2, <1>3, <1>4, <1>5, <1>6, <1>7, <1>8, <1>9, <1>10, <1>11, <1>12,
       <1>13, <1>14, <1>15, <1>16, <1>17 DEF WindowNext, Coordinator, Executor

\* Every step leaves the command file and the window well formed.
LEMMA PanelTyped ==
    ASSUME WindowInv, WindowNext
    PROVE  command' \in Commands /\ IsPanel(panel')
    <1> USE DEF WindowInv, WindowTypes, Numbers, None
    <1>1. CASE Rejected \/ Accepted \/ CommandStart \/ CommandCancel \/ CommandStop \/
      OperationRaises \/ StartedToClose \/ StartedToCancel \/ ShowFails \/ ShowMapping \/ StartSave
      \/ DiscardFails \/ PrepareFails \/ SaveEnds \/ TailStops \/ Leave \/ DrainStops \/ Drained \/
      Raises \/ Finish \/ InspectFails \/ PreflightFails \/ CancelledBeforeStart \/ StartBegins \/ StartEnds
      \/ StopEnds \/ SaveExits \/ WindowEnds \/ Signal \/ Terminated
      BY <1>1 DEF Accepted, CancelledBeforeStart, CommandCancel, CommandStart, CommandStop,
         DiscardFails, DrainStops, Drained, Finish, Raises, InspectFails, Leave, Loop, OperationRaises,
         PreflightFails, PrepareFails, Rejected, SaveEnds, SaveExits, ShowFails, ShowMapping,
         Signal, StartBegins, StartEnds, StartSave, StartedToCancel, StartedToClose, StopEnds,
         TailStops, Terminated, Window, WindowEnds, windowVars
    <1>2. CASE StopRequested \/ GuiEnds \/ SaveMistrusted
      BY <1>2, CloserDoes
    <1>3. CASE OperationFailed
      BY <1>3, FailureDoes
    <1>4. CASE StartCancelled
      BY <1>4, StartCancelledDoes
    <1>5. CASE StopCompletes
      BY <1>5, StopCompletesDoes DEF Advances
    <1>6. CASE GuiRetry \/ ShowPreview
      <2>1. panel.clicks \in Nat
        BY DEF IsPanel
      <2>2. panel' \in {panel, NewPanel(panel.clicks)} /\ command' = command
        BY <1>6 DEF GuiRetry, ShowPreview, OpenGui
      <2>3. QED BY <2>1, <2>2, NewPanelIs
    <1>7. CASE Poll
      <2>1. CASE Contradicts(doc)
        BY <1>7, <2>1 DEF Poll, IsPanel
      <2>2. CASE ~Contradicts(doc)
        <3>1. command' = command
          BY <1>7 DEF Poll
        <3>2. /\ DOMAIN panel' = DOMAIN panel /\ panel'.seen = doc /\ panel'.draft = panel.draft
              /\ panel'.pending \in {0, panel.pending} /\ panel'.first = panel.first
              /\ panel'.clicks = panel.clicks /\ panel'.sequence = panel.sequence
          BY <1>7, <2>2, PollDoes
        <3>3. QED BY <3>1, <3>2 DEF IsPanel
      <2>3. QED BY <2>1, <2>2
    <1>8. CASE Click
      BY <1>8 DEF Click, Commands, IsDocument, IsPanel, Offered
    <1>9. CASE Submit
      BY <1>9 DEF Commands, IsPanel, NoCommand, Submit
    <1>10. QED BY <1>1, <1>2, <1>3, <1>4, <1>5, <1>6, <1>7, <1>8, <1>9 DEF WindowNext,
       Coordinator, Executor

\* Every step leaves sessions, data and results well formed.
LEMMA OutcomesTyped ==
    ASSUME WindowInv, WindowNext
    PROVE  running' \in SUBSET Sessions /\ data' \in [Sessions -> Fates] /\ results' \in [Sessions -> Verdicts]
    <1> USE DEF WindowInv, WindowTypes, Numbers, None
    <1>1. CASE GuiRetry \/ Rejected \/ Accepted \/ CommandStart \/ CommandCancel \/ CommandStop \/
      OperationRaises \/ StartedToClose \/ StartedToCancel \/ ShowFails \/ ShowMapping \/
      ShowPreview \/ StartSave \/ DiscardFails \/ TailStops \/ Leave \/ DrainStops \/ Drained \/
      Raises \/ Finish \/ InspectFails \/ PreflightFails \/ CancelledBeforeStart \/ Poll \/ Click \/ Submit \/
      WindowEnds \/ Signal \/ Terminated
      BY <1>1 DEF Accepted, CancelledBeforeStart, Click, CommandCancel, CommandStart, CommandStop,
         DiscardFails, DrainStops, Drained, Finish, Raises, GuiRetry, InspectFails, Leave, Loop, Main,
         OperationRaises, Others, Poll, PreflightFails, Rejected, ShowFails, ShowMapping,
         ShowPreview, Signal, StartSave, StartedToCancel, StartedToClose, Submit, TailStops,
         Terminated, WindowEnds, windowVars
    <1>2. CASE StopRequested \/ GuiEnds \/ SaveMistrusted
      BY <1>2, CloserDoes
    <1>3. CASE OperationFailed
      BY <1>3, FailureDoes
    <1>4. CASE StartCancelled
      BY <1>4, StartCancelledDoes
    <1>5. CASE StopCompletes
      BY <1>5, StopCompletesDoes DEF Fates
    <1>6. CASE StartBegins
      <2>1. task.id \in Sessions
        BY <1>6 DEF StartBegins, TaskFits, IsFields, Numbered, Sessions
      <2>2. QED BY <1>6, <2>1 DEF StartBegins, Loop
    <1>7. CASE StartEnds \/ StopEnds
      BY <1>7 DEF Fates, Loop, StartEnds, StopEnds
    <1>8. CASE SaveExits
      <2>1. PICK o \in SaveOutcomes : data' = [data EXCEPT ![saver.id] = o[1]]
        BY <1>8 DEF SaveExits
      <2>2. o[1] \in Fates
        BY DEF SaveOutcomes, Fates
      <2>3. QED BY <1>8, <2>1, <2>2 DEF SaveExits
    <1>9. CASE SaveEnds
      BY <1>9, ReachesBody DEF IsSaver, SaveEnds, SaveStatus, Verdicts
    <1>10. CASE PrepareFails
      BY <1>10, ReachesBody DEF Fates, PrepareFails, Window
    <1>11. QED BY <1>1, <1>2, <1>3, <1>4, <1>5, <1>6, <1>7, <1>8, <1>9, <1>10 DEF WindowNext,
       Coordinator, Executor

\* What operation_failed() does to sessions and maps.
LEMMA FailureMoves ==
    ASSUME WindowInv, OperationFailed
    PROVE  /\ UNCHANGED <<task, running, data, results>>
           /\ c'.maps = c.maps /\ c'.sequence = c.sequence /\ c'.closing
           /\ saver'.id = saver.id /\ saver'.at = saver.at /\ saver'.result = saver.result
           /\ \/ c'.active = c.active /\ c'.pending_map = c.pending_map
              \/ /\ task = NoTask /\ c.active # None /\ c'.active = None
                 /\ c'.pending_map = IF c.active \in c.maps THEN c.active ELSE c.pending_map
    <1>1. TaskFits /\ Phases
      BY DEF WindowInv
    <1>2. QED BY <1>1, FailureDoes DEF TaskFits, Phases

\* What a cancelled start does to sessions and maps.
LEMMA StartCancelledMoves ==
    ASSUME WindowInv, StartCancelled
    PROVE  /\ task.op \in StartOps /\ running = {} /\ c.active = None /\ data[c.sequence] = "none"
           /\ UNCHANGED <<running, data, results>>
           /\ c'.maps = c.maps /\ c'.active = None /\ c'.pending_map = c.pending_map
           /\ c.closing => c'.closing
           /\ saver'.id = saver.id /\ saver'.at = saver.at /\ saver'.result = saver.result
           /\ \/ task' = NoTask /\ c'.sequence = c.sequence
              \/ /\ c'.sequence = c.sequence + 1 /\ c.sequence + 1 \in Sessions
                 /\ task' = [at |-> "preflight", op |-> "start_preview", id |-> c.sequence + 1,
                             after |-> "none", result |-> "none"]
    <1>1. TaskFits /\ Devices /\ MapsTraced
      BY DEF WindowInv
    <1>2. QED BY <1>1, StartCancelledDoes DEF TaskFits, Devices, MapsTraced

\* What a completed stop does to sessions and maps.
LEMMA StopCompletesMoves ==
    ASSUME WindowInv, StopCompletes
    PROVE  /\ task.op \in StopOps /\ running = {} /\ c.active # None
           /\ task.op = "stop_map" <=> c.active \in c.maps
           /\ UNCHANGED <<running, results, saver>>
           /\ data' = IF c.active \in c.maps THEN data ELSE [data EXCEPT ![c.active] = "discarded"]
           /\ c'.active = None /\ (c.closing => c'.closing)
           /\ c'.pending_map = IF c.active \in c.maps THEN c.active ELSE c.pending_map
           /\ \/ task' = NoTask /\ c'.maps = c.maps /\ c'.sequence = c.sequence
              \/ /\ c'.sequence = c.sequence + 1 /\ c.sequence + 1 \in Sessions
                 /\ \/ /\ task.after = "map" /\ ~c.cancel_start /\ c'.maps = c.maps \cup {c.sequence + 1}
                       /\ task' = [at |-> "preflight", op |-> "start_map", id |-> c.sequence + 1,
                                   after |-> "none", result |-> "none"]
                    \/ /\ c'.maps = c.maps
                       /\ task' = [at |-> "preflight", op |-> "start_preview", id |-> c.sequence + 1,
                                   after |-> "none", result |-> "none"]
    <1>1. TaskFits /\ Devices
      BY DEF WindowInv
    <1>2. /\ task.op \in StopOps /\ running = {} /\ c.active # None
          /\ task.op = "stop_map" <=> c.active \in c.maps
      BY <1>1, StopCompletesDoes DEF TaskFits, Devices
    <1>3. QED BY <1>2, StopCompletesDoes DEF StopOps

\* What a discard that fails, or a request that is refused, does to sessions and maps.
LEMMA RefusedMoves ==
    ASSUME WindowInv, DiscardFails \/ PrepareFails
    PROVE  /\ task' = NoTask /\ running = {} /\ UNCHANGED <<running, results, saver>>
           /\ c'.maps = c.maps /\ c'.active = None /\ c'.closing = c.closing
           /\ c'.sequence \in Nat /\ c.sequence <= c'.sequence /\ c'.sequence <= MaxSessions
           /\ \/ /\ c.active # None
                 /\ c'.pending_map = IF c.active \in c.maps THEN c.active ELSE c.pending_map
                 /\ \/ data' = data
                    \/ c.active \notin c.maps /\ data' = [data EXCEPT ![c.active] = "discarded"]
              \/ /\ task.op \in StartOps /\ c.active = None /\ c'.pending_map = c.pending_map
                 /\ data[c.sequence] = "none" /\ data' = data
    <1>1. /\ TaskFits /\ Devices /\ MapsTraced /\ Room /\ Numbered /\ Phases
          /\ IsFields(c) /\ task \in Tasks
      BY DEF WindowInv, WindowTypes
    <1>2. CASE DiscardFails
      BY <1>1, <1>2, ReachesBody DEF DiscardFails, Stopped, Released, Others, TaskFits, Devices,
         IsFields, StopOps, Numbered
    <1>3. CASE PrepareFails /\ Stopped
      BY <1>1, <1>3, ReachesBody DEF PrepareFails, Stopped, Completes, Released, TaskFits,
         Devices, IsFields, Room, Calm, Tasks
    <1>4. CASE PrepareFails /\ ~Stopped
      BY <1>1, <1>4, ReachesBody DEF PrepareFails, Completes, TaskFits, Devices, IsFields,
         StartOps, MapsTraced, Room, Calm
    <1>5. QED BY <1>2, <1>3, <1>4

\* What the end of a start or of a stop leaves in the future.
LEMMA SettledMoves ==
    ASSUME WindowInv, StartEnds \/ StopEnds
    PROVE  /\ task.at \in {"starting", "stopping"} /\ task'.at = "done"
           /\ task'.op = task.op /\ task'.id = task.id /\ task'.after = task.after
           /\ c' = c /\ saver' = saver /\ results' = results
           /\ \/ /\ StartEnds /\ task.op \in StartOps /\ task'.result = "started" /\ running' = running
                 /\ data' = [data EXCEPT ![task.id] = "kept"]
              \/ /\ StartEnds /\ task.op \in StartOps /\ task'.result = "failed"
                 /\ running' = running \ {task.id} /\ data' = data
              \/ /\ StopEnds /\ task.op \in StopOps /\ task'.result = "normal"
                 /\ running' = running \ {task.id} /\ data' = data
              \/ /\ StopEnds /\ task.op \in StopOps /\ task'.result = "failed"
                 /\ running' \in {running, running \ {task.id}} /\ data' = data
    <1>1. TaskFits /\ task \in Tasks
      BY DEF WindowInv, WindowTypes
    <1>2. CASE StartEnds
      BY <1>1, <1>2 DEF StartEnds, Settle, Loop, TaskFits, Tasks
    <1>3. CASE StopEnds
      BY <1>1, <1>3 DEF StopEnds, Settle, Loop, TaskFits, Tasks
    <1>4. QED BY <1>2, <1>3

\* A refused step leaves the data of every map accounted for: what was active waits.
LEMMA RefusedTraced ==
    ASSUME WindowInv, DiscardFails \/ PrepareFails
    PROVE  MapsTraced'
    <1>1. /\ MapsTraced /\ Numbered /\ OneMap /\ TaskFits /\ IsFields(c)
          /\ data \in [Sessions -> Fates] /\ task \in Tasks
      BY DEF WindowInv, WindowTypes
    <1>2. /\ c.active # None => c.active \in Sessions /\ c.active <= c.sequence
          /\ c.maps \subseteq Sessions /\ c.sequence \in Nat /\ \A s \in Sessions : s # None
      BY <1>1 DEF IsFields, Numbers, Sessions, None, Numbered
    <1>3. /\ \A s \in Sessions : s > c'.sequence => s > c.sequence
      BY <1>2, RefusedMoves DEF Sessions
    <1>4. \A s \in Sessions : s > c'.sequence => data'[s] = "none"
      <2> SUFFICES ASSUME NEW s \in Sessions, s > c'.sequence PROVE data'[s] = "none"
        OBVIOUS
      <2>1. data[s] = "none" /\ s > c.sequence
        BY <1>1, <1>3 DEF MapsTraced
      <2>2. s # c.active
        BY <1>2, <2>1, RefusedMoves DEF Sessions, None
      <2>3. QED BY <1>1, <2>1, <2>2, RefusedMoves
    <1>5. \A s \in c.maps : data'[s] = data[s]
      BY <1>1, <1>2, RefusedMoves
    <1>6. \A s \in c'.maps : data'[s] = "kept" =>
            \/ s \in {c'.active, c'.pending_map, saver'.id} \/ (task'.op = "start_map" /\ task'.id = s)
            \/ results'[s] \in {"SAVE_PENDING", "FAILED"}
      <2> SUFFICES ASSUME NEW s \in c.maps, data[s] = "kept" 
           PROVE s \in {c'.pending_map, saver'.id} \/ results'[s] \in {"SAVE_PENDING", "FAILED"}
        BY <1>5, RefusedMoves
      <2>1. s # None
        BY <1>2
      <2>2. c.active \in c.maps => c.pending_map = None
        BY <1>1 DEF OneMap, MapBusy
      <2>3. CASE task.op = "start_map" /\ task.id = s
        BY <1>1, <2>1, <2>3, RefusedMoves DEF TaskFits, StartOps
      <2>4. CASE ~(task.op = "start_map" /\ task.id = s)
        BY <1>1, <2>1, <2>2, <2>4, RefusedMoves DEF MapsTraced
      <2>5. QED BY <2>3, <2>4
    <1>7. saver.at = "exited" /\ data'[saver.id] = "kept" => saver.result \in {"none", "SAVE_PENDING", "FAILED"}
      <2>1. saver.at = "exited" => saver.id \in c.maps
        BY <1>1 DEF OneMap
      <2>2. QED BY <1>1, <1>5, <2>1 DEF MapsTraced
    <1>8. QED BY <1>1, <1>4, <1>5, <1>6, <1>7, RefusedMoves DEF MapsTraced, NoTask, StartOps

\* The end of a save: a map it left is in the results.
LEMMA SaveEndsTraced ==
    ASSUME WindowInv, SaveEnds
    PROVE  MapsTraced'
    <1>1. /\ MapsTraced /\ OneMap /\ IsFields(c) /\ IsSaver(saver)
          /\ results \in [Sessions -> Verdicts] /\ data \in [Sessions -> Fates]
      BY DEF WindowInv, WindowTypes
    <1>2. /\ saver.at = "exited" /\ saver.id # None /\ saver' = NoSaver /\ UNCHANGED <<task, data>>
          /\ results' = [results EXCEPT ![saver.id] = SaveStatus]
          /\ c'.active = c.active /\ c'.pending_map = c.pending_map /\ c'.maps = c.maps /\ c'.sequence = c.sequence
      BY <1>1 DEF SaveEnds, IsFields, Polls
    <1>3. saver.id \in Sessions /\ c.maps \subseteq Sessions
      BY <1>1, <1>2 DEF IsSaver, Numbers, IsFields
    <1>4. data[saver.id] = "kept" => results'[saver.id] \in {"SAVE_PENDING", "FAILED"}
      BY <1>1, <1>2, <1>3 DEF MapsTraced, SaveStatus
    <1>5. \A s \in c'.maps : data'[s] = "kept" =>
            \/ s \in {c'.active, c'.pending_map, saver'.id} \/ (task'.op = "start_map" /\ task'.id = s)
            \/ results'[s] \in {"SAVE_PENDING", "FAILED"}
      <2> SUFFICES ASSUME NEW s \in c.maps, data[s] = "kept"
           PROVE  \/ s \in {c.active, c.pending_map} \/ (task.op = "start_map" /\ task.id = s)
                  \/ results'[s] \in {"SAVE_PENDING", "FAILED"}
        BY <1>2
      <2>1. CASE s = saver.id
        BY <1>4, <2>1
      <2>2. CASE s # saver.id
        BY <1>1, <1>2, <1>3, <2>2 DEF MapsTraced
      <2>3. QED BY <2>1, <2>2
    <1>6. QED BY <1>1, <1>2, <1>5 DEF MapsTraced, NoSaver

\* The save process exits: what it left undecided is in its result.
LEMMA SaveExitsTraced ==
    ASSUME WindowInv, SaveExits
    PROVE  MapsTraced'
    <1>1. /\ MapsTraced /\ OneMap /\ Numbered /\ TaskFits /\ IsFields(c) /\ IsSaver(saver)
          /\ data \in [Sessions -> Fates]
      BY DEF WindowInv, WindowTypes
    <1>2. PICK o \in SaveOutcomes : /\ data' = [data EXCEPT ![saver.id] = o[1]]
             /\ saver'.at = "exited" /\ saver'.result = o[2] /\ saver'.id = saver.id
      BY <1>1 DEF SaveExits, IsSaver
    <1>3. saver.at = "running" /\ UNCHANGED <<c, task, results>>
      BY DEF SaveExits
    <1>4. o[1] # "discarded" /\ (o[1] = "kept" => o[2] \in {"none", "SAVE_PENDING", "FAILED"})
      BY DEF SaveOutcomes
    <1>5. saver.id \in c.maps /\ saver.id \in Sessions /\ saver.id <= c.sequence /\ saver.id # None
      BY <1>1, <1>3 DEF OneMap, IsFields, Numbered
    <1>6. data'[saver.id] = o[1] /\ \A s \in Sessions : s # saver.id => data'[s] = data[s]
      BY <1>1, <1>2, <1>5
    <1>7. task.op \in StartOps => task.id # saver.id
      BY <1>1, <1>5 DEF OneMap, MapBusy, TaskFits
    <1>8. \A s \in Sessions : s > c.sequence => data'[s] = "none"
      BY <1>1, <1>5, <1>6 DEF MapsTraced, Sessions, IsFields
    <1>9. task.op \in StartOps /\ task.result # "started" => data'[task.id] = "none"
      BY <1>1, <1>6, <1>7, <1>2 DEF MapsTraced
    <1>10. c.maps \subseteq Sessions
      BY <1>1 DEF IsFields
    <1>11. \A s \in c.maps : data'[s] # "discarded"
      BY <1>1, <1>4, <1>6, <1>10 DEF MapsTraced
    <1>12. \A s \in c.maps : data'[s] = "kept" =>
            \/ s \in {c.active, c.pending_map, saver.id} \/ (task.op = "start_map" /\ task.id = s)
            \/ results[s] \in {"SAVE_PENDING", "FAILED"}
      BY <1>1, <1>6, <1>10 DEF MapsTraced
    <1>13. QED BY <1>2, <1>3, <1>4, <1>6, <1>8, <1>9, <1>11, <1>12 DEF MapsTraced

\* A step that only talks: sessions, maps and the operation under way stay as they are.
Talks ==
    /\ UNCHANGED <<task, running, data, results>>
    /\ c'.active = c.active /\ c'.pending_map = c.pending_map /\ c'.maps = c.maps
    /\ c'.sequence = c.sequence /\ (c.closing => c'.closing)
    /\ saver'.id = saver.id /\ saver'.at = saver.at /\ saver'.result = saver.result

\* The steps that only talk.
LEMMA TalkingSteps ==
    ASSUME WindowInv,
           \/ StopRequested \/ GuiEnds \/ SaveMistrusted \/ GuiRetry \/ Rejected \/ Accepted
           \/ CommandCancel \/ Leave \/ InspectFails \/ Drained \/ Raises \/ Finish \/ Poll
           \/ Click \/ Submit \/ WindowEnds \/ Signal \/ Terminated
    PROVE  Talks
    <1> USE DEF WindowInv, WindowTypes, Numbers, None, Talks
    <1>1. CASE StopRequested \/ GuiEnds \/ SaveMistrusted
      BY <1>1, CloserDoes
    <1>2. CASE GuiRetry \/ Accepted \/ CommandCancel \/ Leave \/ Raises \/ Finish
      BY <1>2 DEF Accepted, CommandCancel, Finish, Raises, GuiRetry, IsFields, Leave, Others
    <1>3. CASE Rejected \/ InspectFails \/ Poll \/ Click \/ Submit \/ WindowEnds \/ Signal \/
      Terminated
      BY <1>3 DEF Click, InspectFails, Main, Others, Poll, Rejected, Signal, Submit, Terminated,
         WindowEnds, windowVars
    <1>4. CASE Drained
      BY <1>4 DEF Cancel, Drained, Others
    <1>5. QED BY <1>1, <1>2, <1>3, <1>4


\* A step that only talks leaves what it talks about in order.
LEMMA TalksKeep ==
    ASSUME WindowInv, Talks
    PROVE  TaskFits' /\ Devices' /\ OneMap' /\ Numbered' /\ MapsTraced'
    <1> USE DEF WindowInv, Talks
    <1>1. TaskFits'
      BY DEF TaskFits
    <1>2. Devices'
      BY DEF Devices
    <1>3. OneMap'
      BY DEF OneMap, MapBusy
    <1>4. Numbered'
      BY DEF Numbered
    <1>5. MapsTraced'
      BY DEF MapsTraced
    <1>6. QED BY <1>1, <1>2, <1>3, <1>4, <1>5

\* Every step leaves the operation under way about its session.
LEMMA TaskFitsKept ==
    ASSUME WindowInv, WindowNext
    PROVE  TaskFits'
    <1> USE DEF Numbers, None
    <1>1. TaskFits /\ task \in Tasks /\ IsFields(c) /\ Phases /\ Shows /\ OneMap /\ Numbered
      BY DEF WindowInv, WindowTypes
    <1>2. CASE StopRequested \/ GuiEnds \/ SaveMistrusted \/ GuiRetry \/ Rejected \/ Accepted \/
      CommandCancel \/ Leave \/ InspectFails \/ Drained \/ Raises \/ Finish \/ Poll \/ Click \/ Submit \/
      WindowEnds \/ Signal \/ Terminated
      BY <1>2, TalkingSteps, TalksKeep
    <1>3. CASE OperationFailed
      BY <1>3, <1>1, FailureMoves DEF TaskFits, NoTask
    <1>4. CASE StartCancelled
      BY <1>4, <1>1, StartCancelledMoves DEF TaskFits, IsFields, NoTask, StartOps, StopOps,
         Numbered
    <1>5. CASE StopCompletes
      BY <1>5, <1>1, StopCompletesMoves DEF TaskFits, IsFields, NoTask, StartOps, StopOps,
         Numbered
    <1>6. CASE StartEnds \/ StopEnds
      BY <1>6, <1>1, SettledMoves DEF TaskFits
    <1>7. CASE DiscardFails \/ PrepareFails
      BY <1>7, <1>1, RefusedMoves DEF TaskFits, NoTask, StartOps, StopOps
    <1>8. CASE CommandStart
      BY <1>8, <1>1 DEF BeginStop, Calm, CommandStart, Phases, Shows, StartOps, StopOps, StopTask,
         TaskFits
    <1>9. CASE CommandStop
      BY <1>9, <1>1 DEF BeginStop, CommandStop, MayStop, StartOps, StopOps, StopTask, TaskFits
    <1>10. CASE OperationRaises
      BY <1>10, <1>1, ReachesBody DEF NoTask, OperationRaises, StartOps, StopOps, TaskFits
    <1>11. CASE StartedToClose
      BY <1>11, <1>1, ReachesBody DEF BeginStop, NoTask, Numbered, Owning, StartOps, Started,
         StartedToClose, StopOps, StopTask, TaskFits, Tasks
    <1>12. CASE StartedToCancel
      BY <1>12, <1>1, ReachesBody DEF BeginStop, NoTask, Numbered, Owning, StartOps,
         StartedToCancel, StopOps, StopTask, TaskFits
    <1>13. CASE ShowFails
      BY <1>13, <1>1, ReachesBody DEF NoTask, ShowFails, StartOps, StopOps, TaskFits
    <1>14. CASE ShowMapping
      BY <1>14, <1>1, ReachesBody DEF NoTask, ShowMapping, StartOps, StopOps, TaskFits
    <1>15. CASE ShowPreview
      BY <1>15, <1>1, ReachesBody DEF NoTask, ShowPreview, StartOps, StopOps, TaskFits
    <1>16. CASE StartSave
      BY <1>16, <1>1, ReachesBody DEF NoTask, StartOps, StartSave, StopOps, TaskFits
    <1>17. CASE SaveEnds
      BY <1>17, <1>1, ReachesBody DEF SaveEnds, TaskFits
    <1>18. CASE TailStops
      BY <1>18, <1>1, ReachesBody DEF BeginStop, MayStop, StartOps, StopOps, StopTask, TailStops,
         TaskFits
    <1>19. CASE DrainStops
      BY <1>19, <1>1 DEF BeginStop, DrainStops, MayStop, Phases, StartOps, StopOps, StopTask,
         TaskFits
    <1>20. CASE PreflightFails
      BY <1>20, <1>1 DEF Loop, PreflightFails, Settle, TaskFits
    <1>21. CASE CancelledBeforeStart
      BY <1>21, <1>1 DEF CancelledBeforeStart, Loop, Settle, TaskFits
    <1>22. CASE StartBegins
      BY <1>22, <1>1 DEF Loop, StartBegins, TaskFits
    <1>23. CASE SaveExits
      BY <1>23, <1>1 DEF SaveExits, TaskFits
    <1>24. QED BY <1>2, <1>3, <1>4, <1>5, <1>6, <1>7, <1>8, <1>9, <1>10, <1>11, <1>12, <1>13,
       <1>14, <1>15, <1>16, <1>17, <1>18, <1>19, <1>20, <1>21, <1>22, <1>23 DEF WindowNext,
       Coordinator, Executor

\* No step lets a second session run.
LEMMA DevicesKept ==
    ASSUME WindowInv, WindowNext
    PROVE  Devices'
    <1> USE DEF Numbers, None
    <1>1. Devices /\ TaskFits /\ task \in Tasks /\ IsFields(c) /\ Phases /\ Shows
      BY DEF WindowInv, WindowTypes
    <1>2. CASE StopRequested \/ GuiEnds \/ SaveMistrusted \/ GuiRetry \/ Rejected \/ Accepted \/
      CommandCancel \/ Leave \/ InspectFails \/ Drained \/ Raises \/ Finish \/ Poll \/ Click \/ Submit \/
      WindowEnds \/ Signal \/ Terminated
      BY <1>2, TalkingSteps, TalksKeep
    <1>3. CASE OperationFailed
      BY <1>3, <1>1, FailureMoves DEF Devices
    <1>4. CASE StartCancelled
      BY <1>4, <1>1, StartCancelledMoves DEF Devices
    <1>5. CASE StopCompletes
      BY <1>5, <1>1, StopCompletesMoves DEF Devices
    <1>6. CASE StartEnds \/ StopEnds
      BY <1>6, <1>1, SettledMoves DEF Devices, StartOps, StopOps
    <1>7. CASE DiscardFails \/ PrepareFails
      BY <1>7, <1>1, RefusedMoves DEF Devices
    <1>8. CASE CommandStart
      BY <1>8, <1>1 DEF CommandStart, Devices, MayStop, StopTask, TaskFits, Tasks
    <1>9. CASE CommandStop
      BY <1>9, <1>1 DEF CommandStop, Devices, MayStop, Others, StopTask, TaskFits, Tasks
    <1>10. CASE OperationRaises
      BY <1>10, <1>1, ReachesBody DEF Devices, NoTask, OperationRaises, Others, StartOps, StopOps,
         TaskFits, Tasks
    <1>11. CASE StartedToClose
      BY <1>11, <1>1, ReachesBody DEF Devices, NoTask, Others, Owning, Started, StartedToClose,
         StopTask, TaskFits, Tasks
    <1>12. CASE StartedToCancel
      BY <1>12, <1>1, ReachesBody DEF Devices, NoTask, Others, Owning, StartOps, StartedToCancel,
         StopOps, StopTask
    <1>13. CASE ShowFails
      BY <1>13, <1>1, ReachesBody DEF Devices, NoTask, Others, Owning, ShowFails, ShowSession,
         StartOps, Started, StopOps, TaskFits, Tasks
    <1>14. CASE ShowMapping
      BY <1>14, <1>1, ReachesBody DEF Devices, NoTask, Others, Owning, ShowMapping, StartOps,
         StopOps
    <1>15. CASE ShowPreview
      BY <1>15, <1>1, ReachesBody DEF Devices, NoTask, Owning, ShowPreview, StartOps, StopOps
    <1>16. CASE StartSave
      BY <1>16, <1>1, ReachesBody DEF Devices, NoTask, Others, Owning, StartOps, StartSave,
         StopOps
    <1>17. CASE SaveEnds
      BY <1>17, <1>1, ReachesBody DEF Devices, SaveEnds
    <1>18. CASE TailStops
      BY <1>18, <1>1, ReachesBody DEF Devices, MayStop, Others, StopTask, TailStops
    <1>19. CASE DrainStops
      BY <1>19, <1>1 DEF Devices, DrainStops, MayStop, Others, StopTask
    <1>20. CASE PreflightFails
      BY <1>20, <1>1 DEF Devices, PreflightFails
    <1>21. CASE CancelledBeforeStart
      BY <1>21, <1>1 DEF CancelledBeforeStart, Devices
    <1>22. CASE StartBegins
      BY <1>22, <1>1 DEF Devices, StartBegins, TaskFits, Tasks
    <1>23. CASE SaveExits
      BY <1>23, <1>1 DEF Devices, SaveExits
    <1>24. QED BY <1>2, <1>3, <1>4, <1>5, <1>6, <1>7, <1>8, <1>9, <1>10, <1>11, <1>12, <1>13,
       <1>14, <1>15, <1>16, <1>17, <1>18, <1>19, <1>20, <1>21, <1>22, <1>23 DEF WindowNext,
       Coordinator, Executor

\* Every step leaves one map at most owned, waiting or being saved.
LEMMA OneMapKept ==
    ASSUME WindowInv, WindowNext
    PROVE  OneMap'
    <1> USE DEF Numbers, None
    <1>1. OneMap /\ TaskFits /\ task \in Tasks /\ IsFields(c) /\ IsSaver(saver) /\ Phases /\ Shows
          /\ Numbered
      BY DEF WindowInv, WindowTypes
    <1>2. CASE StopRequested \/ GuiEnds \/ SaveMistrusted \/ GuiRetry \/ Rejected \/ Accepted \/
      CommandCancel \/ Leave \/ InspectFails \/ Drained \/ Raises \/ Finish \/ Poll \/ Click \/ Submit \/
      WindowEnds \/ Signal \/ Terminated
      BY <1>2, TalkingSteps, TalksKeep
    <1>3. CASE OperationFailed
      BY <1>3, <1>1, FailureMoves DEF OneMap, MapBusy, IsFields, NoTask, Sessions
    <1>4. CASE StartCancelled
      BY <1>4, <1>1, StartCancelledMoves DEF OneMap, MapBusy, NoTask
    <1>5. CASE StopCompletes
      BY <1>5, <1>1, StopCompletesMoves DEF OneMap, MapBusy, TaskFits, IsFields, NoTask, Sessions
    <1>6. CASE StartEnds \/ StopEnds
      BY <1>6, <1>1, SettledMoves DEF OneMap, MapBusy
    <1>7. CASE DiscardFails \/ PrepareFails
      BY <1>7, <1>1, RefusedMoves DEF OneMap, MapBusy, IsFields, NoTask, Sessions
    <1>8. CASE CommandStart
      BY <1>8, <1>1 DEF BeginStop, Calm, CommandStart, OneMap, Phases, Shows
    <1>9. CASE CommandStop
      BY <1>9, <1>1 DEF BeginStop, CommandStop, MapBusy, OneMap, StopTask
    <1>10. CASE OperationRaises
      BY <1>10, <1>1, ReachesBody DEF MapBusy, NoTask, OneMap, OperationRaises
    <1>11. CASE StartedToClose
      BY <1>11, <1>1, ReachesBody DEF BeginStop, MapBusy, NoTask, OneMap, Owning, Started,
         StartedToClose, StopTask, TaskFits, Tasks
    <1>12. CASE StartedToCancel
      BY <1>12, <1>1, ReachesBody DEF BeginStop, MapBusy, OneMap, Owning, StartedToCancel
    <1>13. CASE ShowFails
      BY <1>13, <1>1, ReachesBody DEF MapBusy, NoTask, OneMap, Owning, ShowFails, ShowSession,
         Started, TaskFits, Tasks
    <1>14. CASE ShowMapping
      BY <1>14, <1>1, ReachesBody DEF MapBusy, OneMap, Owning, ShowMapping
    <1>15. CASE ShowPreview
      BY <1>15, <1>1, ReachesBody DEF MapBusy, NoTask, OneMap, Owning, ShowPreview, TaskFits,
         Tasks
    <1>16. CASE StartSave
      BY <1>16, <1>1, ReachesBody DEF MapBusy, NoTask, OneMap, Owning, StartSave, TaskFits, Tasks
    <1>17. CASE SaveEnds
      BY <1>17, <1>1, ReachesBody DEF NoSaver, OneMap, SaveEnds
    <1>18. CASE TailStops
      BY <1>18, <1>1, ReachesBody DEF BeginStop, MapBusy, OneMap, StopTask, TailStops
    <1>19. CASE DrainStops
      BY <1>19, <1>1 DEF BeginStop, DrainStops, MapBusy, OneMap, StopTask
    <1>20. CASE PreflightFails
      BY <1>20, <1>1 DEF Loop, MapBusy, OneMap, PreflightFails, Settle
    <1>21. CASE CancelledBeforeStart
      BY <1>21, <1>1 DEF CancelledBeforeStart, Loop, MapBusy, OneMap, Settle
    <1>22. CASE StartBegins
      BY <1>22, <1>1 DEF Loop, MapBusy, OneMap, StartBegins
    <1>23. CASE SaveExits
      BY <1>23, <1>1 DEF MapBusy, OneMap, SaveExits
    <1>24. QED BY <1>2, <1>3, <1>4, <1>5, <1>6, <1>7, <1>8, <1>9, <1>10, <1>11, <1>12, <1>13,
       <1>14, <1>15, <1>16, <1>17, <1>18, <1>19, <1>20, <1>21, <1>22, <1>23 DEF WindowNext,
       Coordinator, Executor

\* Every step leaves the sessions numbered.
LEMMA NumberedKept ==
    ASSUME WindowInv, WindowNext
    PROVE  Numbered'
    <1> USE DEF Numbers, None
    <1>1. Numbered /\ TaskFits /\ task \in Tasks /\ IsFields(c)
      BY DEF WindowInv, WindowTypes
    <1>2. CASE StopRequested \/ GuiEnds \/ SaveMistrusted \/ GuiRetry \/ Rejected \/ Accepted \/
      CommandCancel \/ Leave \/ InspectFails \/ Drained \/ Raises \/ Finish \/ Poll \/ Click \/ Submit \/
      WindowEnds \/ Signal \/ Terminated
      BY <1>2, TalkingSteps, TalksKeep
    <1>3. CASE OperationFailed
      BY <1>3, <1>1, FailureMoves DEF Numbered, IsFields
    <1>4. CASE StartCancelled
      BY <1>4, <1>1, StartCancelledMoves DEF Numbered, IsFields, Sessions
    <1>5. CASE StopCompletes
      BY <1>5, <1>1, StopCompletesMoves DEF Numbered, IsFields, Sessions
    <1>6. CASE StartEnds \/ StopEnds
      BY <1>6, <1>1, SettledMoves DEF Numbered
    <1>7. CASE DiscardFails \/ PrepareFails
      BY <1>7, <1>1, RefusedMoves DEF Numbered, IsFields, Sessions
    <1>8. CASE CommandStart
      BY <1>8, <1>1 DEF BeginStop, CommandStart, Numbered
    <1>9. CASE CommandStop
      BY <1>9, <1>1 DEF BeginStop, CommandStop, Numbered
    <1>10. CASE OperationRaises
      BY <1>10, <1>1, ReachesBody DEF Numbered, OperationRaises
    <1>11. CASE StartedToClose
      BY <1>11, <1>1, ReachesBody DEF BeginStop, NoTask, Numbered, Owning, Sessions, Started,
         StartedToClose, TaskFits, Tasks
    <1>12. CASE StartedToCancel
      BY <1>12, <1>1, ReachesBody DEF BeginStop, Numbered, Owning, StartedToCancel, TaskFits,
         Tasks
    <1>13. CASE ShowFails
      BY <1>13, <1>1, ReachesBody DEF NoTask, Numbered, Owning, Sessions, ShowFails, ShowSession,
         Started, TaskFits, Tasks
    <1>14. CASE ShowMapping
      BY <1>14, <1>1, ReachesBody DEF Numbered, Owning, ShowMapping, TaskFits, Tasks
    <1>15. CASE ShowPreview
      BY <1>15, <1>1, ReachesBody DEF Numbered, Owning, Sessions, ShowPreview, TaskFits, Tasks
    <1>16. CASE StartSave
      BY <1>16, <1>1, ReachesBody DEF Numbered, Owning, Sessions, StartSave, TaskFits, Tasks
    <1>17. CASE SaveEnds
      BY <1>17, <1>1, ReachesBody DEF Numbered, SaveEnds
    <1>18. CASE TailStops
      BY <1>18, <1>1, ReachesBody DEF BeginStop, Numbered, TailStops
    <1>19. CASE DrainStops
      BY <1>19, <1>1 DEF BeginStop, DrainStops, Numbered
    <1>20. CASE PreflightFails
      BY <1>20, <1>1 DEF Loop, Numbered, PreflightFails
    <1>21. CASE CancelledBeforeStart
      BY <1>21, <1>1 DEF CancelledBeforeStart, Loop, Numbered
    <1>22. CASE StartBegins
      BY <1>22, <1>1 DEF Loop, Numbered, StartBegins
    <1>23. CASE SaveExits
      BY <1>23, <1>1 DEF Numbered, SaveExits
    <1>24. QED BY <1>2, <1>3, <1>4, <1>5, <1>6, <1>7, <1>8, <1>9, <1>10, <1>11, <1>12, <1>13,
       <1>14, <1>15, <1>16, <1>17, <1>18, <1>19, <1>20, <1>21, <1>22, <1>23 DEF WindowNext,
       Coordinator, Executor

\* Every step leaves the data of every map accounted for.
LEMMA MapsTracedKept ==
    ASSUME WindowInv, WindowNext
    PROVE  MapsTraced'
    <1> USE DEF Numbers, None
    <1>1. MapsTraced /\ TaskFits /\ task \in Tasks /\ IsFields(c) /\ IsSaver(saver) /\ Numbered /\
          OneMap /\ results \in [Sessions -> Verdicts] /\ data \in [Sessions -> Fates] /\ Phases
          /\ running \in SUBSET Sessions
      BY DEF WindowInv, WindowTypes
    <1>2. CASE StopRequested \/ GuiEnds \/ SaveMistrusted \/ GuiRetry \/ Rejected \/ Accepted \/
      CommandCancel \/ Leave \/ InspectFails \/ Drained \/ Raises \/ Finish \/ Poll \/ Click \/ Submit \/
      WindowEnds \/ Signal \/ Terminated
      BY <1>2, TalkingSteps, TalksKeep
    <1>3. CASE OperationFailed
      BY <1>3, <1>1, FailureMoves DEF MapsTraced, OneMap, MapBusy
    <1>4. CASE StartCancelled
      BY <1>4, <1>1, StartCancelledMoves DEF MapsTraced, TaskFits, IsFields, NoTask, StartOps,
         Sessions
    <1>5. CASE StopCompletes
      <2>1. /\ task.op \in StopOps /\ c.active # None /\ c'.active = None /\ UNCHANGED <<results, saver>>
            /\ data' = IF c.active \in c.maps THEN data ELSE [data EXCEPT ![c.active] = "discarded"]
            /\ c'.pending_map = IF c.active \in c.maps THEN c.active ELSE c.pending_map
        BY <1>5, StopCompletesMoves
      <2>2. c'.sequence \in Nat /\ c.sequence <= c'.sequence /\ c.active \in Sessions /\ c.sequence \in Nat
        BY <1>1, <1>5, <2>1, StopCompletesMoves DEF IsFields, Sessions
      <2>3. \/ task' = NoTask /\ c'.maps = c.maps
            \/ /\ task'.op \in StartOps /\ task'.id = c.sequence + 1 /\ c.sequence + 1 \in Sessions
               /\ c'.maps \subseteq c.maps \cup {c.sequence + 1}
        BY <1>5, StopCompletesMoves DEF StartOps
      <2>4. \A s \in Sessions : s > c.sequence => data[s] = "none" /\ data'[s] = "none"
        BY <1>1, <2>1, <2>2 DEF MapsTraced, Numbered, Sessions
      <2>5. \A s \in Sessions : s > c'.sequence => data'[s] = "none"
        BY <2>2, <2>4 DEF Sessions
      <2>6. task'.op \in StartOps /\ task'.result # "started" => data'[task'.id] = "none"
        BY <2>2, <2>3, <2>4 DEF NoTask, StartOps, Sessions
      <2>7. ASSUME NEW s \in c'.maps
            PROVE  /\ data'[s] # "discarded"
                   /\ data'[s] = "kept" => \/ s \in {c'.active, c'.pending_map, saver'.id}
                                           \/ results'[s] \in {"SAVE_PENDING", "FAILED"}
        <3>1. CASE s = c.sequence + 1 /\ s \in Sessions
          BY <2>2, <2>4, <3>1
        <3>2. CASE s \in c.maps
          <4>1. s \in Sessions /\ data[s] # "discarded"
            BY <1>1, <3>2 DEF MapsTraced, IsFields
          <4>2. data'[s] = data[s]
            BY <1>1, <2>1, <3>2, <4>1
          <4>3. data[s] = "kept" => s \in {c.active, c.pending_map, saver.id}
                                    \/ results[s] \in {"SAVE_PENDING", "FAILED"}
            BY <1>1, <2>1, <3>2 DEF MapsTraced, StopOps
          <4>4. c.active \in c.maps => c.pending_map = None
            BY <1>1 DEF OneMap, MapBusy
          <4>5. QED BY <2>1, <3>2, <4>1, <4>2, <4>3, <4>4 DEF Sessions
        <3>3. QED BY <2>3, <2>7, <3>1, <3>2
      <2>8. saver'.at = "exited" /\ data'[saver'.id] = "kept" =>
               saver'.result \in {"none", "SAVE_PENDING", "FAILED"}
        BY <1>1, <2>1 DEF MapsTraced, OneMap, IsFields
      <2>9. QED BY <2>5, <2>6, <2>7, <2>8 DEF MapsTraced
    <1>6. CASE StartEnds \/ StopEnds
      BY <1>6, <1>1, SettledMoves DEF MapsTraced, TaskFits, IsFields, Numbered, OneMap, MapBusy,
         Verdicts, Fates
    <1>7. CASE DiscardFails \/ PrepareFails
      BY <1>7, RefusedTraced
    <1>8. CASE CommandStart
      BY <1>8, <1>1 DEF BeginStop, CommandStart, MapsTraced, MayStop, StartOps, StopTask, TaskFits
    <1>9. CASE CommandStop
      BY <1>9, <1>1 DEF BeginStop, CommandStop, MapsTraced, MayStop, Others, StartOps, StopTask,
         TaskFits
    <1>10. CASE OperationRaises
      BY <1>10, <1>1, ReachesBody DEF MapsTraced, NoTask, OperationRaises, Others, StartOps
    <1>11. CASE StartedToClose
      BY <1>11, <1>1, ReachesBody DEF BeginStop, MapsTraced, NoTask, OneMap, Others, Owning,
         StartOps, Started, StartedToClose, StopTask, TaskFits, Tasks
    <1>12. CASE StartedToCancel
      BY <1>12, <1>1, ReachesBody DEF BeginStop, MapsTraced, NoTask, OneMap, Others, Owning,
         StartOps, StartedToCancel, StopTask, TaskFits
    <1>13. CASE ShowFails
      BY <1>13, <1>1, ReachesBody DEF MapsTraced, NoTask, OneMap, Others, Owning, ShowFails,
         ShowSession, StartOps, Started, TaskFits, Tasks
    <1>14. CASE ShowMapping
      BY <1>14, <1>1, ReachesBody DEF MapsTraced, NoTask, OneMap, Others, Owning, ShowMapping,
         StartOps, TaskFits
    <1>15. CASE ShowPreview
      BY <1>15, <1>1, ReachesBody DEF MapsTraced, NoTask, Owning, ShowPreview, StartOps, TaskFits
    <1>16. CASE StartSave
      BY <1>16, <1>1, ReachesBody DEF MapsTraced, NoTask, OneMap, Others, Owning, StartOps,
         StartSave, TaskFits
    <1>17. CASE SaveEnds
      BY <1>17, SaveEndsTraced
    <1>18. CASE TailStops
      BY <1>18, <1>1, ReachesBody DEF BeginStop, MapsTraced, NoTask, Others, StartOps, StopTask,
         TailStops, TaskFits
    <1>19. CASE DrainStops
      BY <1>19, <1>1 DEF BeginStop, DrainStops, MapsTraced, NoTask, Others, StartOps, StopTask,
         TaskFits
    <1>20. CASE PreflightFails
      BY <1>20, <1>1 DEF Loop, MapsTraced, PreflightFails, Settle, TaskFits
    <1>21. CASE CancelledBeforeStart
      BY <1>21, <1>1 DEF CancelledBeforeStart, Loop, MapsTraced, Settle, TaskFits
    <1>22. CASE StartBegins
      BY <1>22, <1>1 DEF Loop, MapsTraced, StartBegins
    <1>23. CASE SaveExits
      BY <1>23, SaveExitsTraced
    <1>24. QED BY <1>2, <1>3, <1>4, <1>5, <1>6, <1>7, <1>8, <1>9, <1>10, <1>11, <1>12, <1>13,
       <1>14, <1>15, <1>16, <1>17, <1>18, <1>19, <1>20, <1>21, <1>22, <1>23 DEF WindowNext,
       Coordinator, Executor
\* Every step leaves the loop in a place that fits.
LEMMA PhasesKept ==
    ASSUME WindowInv, WindowNext
    PROVE  Phases'
    <1> USE DEF Numbers, None
    <1>1. Phases /\ IsFields(c) /\ task \in Tasks /\ IsSaver(saver) /\ TaskFits /\ OneMap
      BY DEF WindowInv, WindowTypes
    <1>2. CASE StopRequested \/ GuiEnds \/ SaveMistrusted
      BY <1>2, <1>1, CloserDoes DEF Phases
    <1>3. CASE OperationFailed
      BY <1>3, <1>1, FailureDoes DEF Phases
    <1>4. CASE StartCancelled
      <2>1. c.draining => where = "drain"
        BY <1>4, <1>1, StartCancelledDoes DEF Phases
      <2>2. CASE task' = NoTask
        BY <1>4, <1>1, <2>1, <2>2, StartCancelledDoes DEF Phases, NoTask
      <2>3. CASE task' # NoTask
        BY <1>4, <1>1, <2>3, StartCancelledDoes DEF Phases
      <2>4. QED BY <2>2, <2>3
    <1>5. CASE StopCompletes
      <2>1. c.draining => where = "drain"
        BY <1>5, <1>1, StopCompletesDoes DEF Phases
      <2>2. CASE task' = NoTask
        BY <1>5, <1>1, <2>1, <2>2, StopCompletesDoes DEF Phases, NoTask
      <2>3. CASE task' # NoTask
        BY <1>5, <1>1, <2>3, StopCompletesDoes DEF Phases
      <2>4. QED BY <2>2, <2>3
    <1>6. CASE Poll \/ Click \/ Submit \/ WindowEnds \/ Signal \/ Terminated \/ SaveExits
      BY <1>6, <1>1 DEF Click, Main, OneMap, Phases, Poll, SaveExits, Signal, Submit, Terminated,
         WindowEnds, windowVars
    <1>7. CASE GuiRetry
      BY <1>7, <1>1, ReachesBody DEF GuiRetry, Phases
    <1>8. CASE Rejected
      BY <1>8, <1>1, ReachesBody DEF Continue, Phases, Rejected
    <1>9. CASE Accepted
      BY <1>9, <1>1, ReachesBody DEF Accepted, NewCommand, Continue, Phases
    <1>10. CASE CommandStart
      BY <1>10, <1>1 DEF BeginStop, CommandStart, Continue, Phases
    <1>11. CASE CommandCancel
      BY <1>11, <1>1 DEF CommandCancel, Continue, Phases
    <1>12. CASE CommandStop
      BY <1>12, <1>1 DEF BeginStop, CommandStop, Continue, Phases
    <1>13. CASE OperationRaises
      BY <1>13, <1>1, ReachesBody DEF NoTask, OperationRaises, Phases
    <1>14. CASE StartedToClose
      BY <1>14, <1>1, ReachesBody DEF After, BeginStop, NoTask, Owning, Phases, Started,
         StartedToClose, TaskFits
    <1>15. CASE StartedToCancel
      BY <1>15, <1>1, ReachesBody DEF After, BeginStop, Continue, NoTask, Owning, Phases,
         StartedToCancel, TaskFits
    <1>16. CASE ShowFails
      BY <1>16, <1>1, ReachesBody DEF Owning, Phases, ShowFails, ShowSession, TaskFits
    <1>17. CASE ShowMapping
      BY <1>17, <1>1, ReachesBody DEF After, Continue, NoTask, Owning, Phases, ShowMapping,
         TaskFits
    <1>18. CASE ShowPreview
      BY <1>18, <1>1, ReachesBody DEF After, Continue, NoTask, Owning, Phases, ShowPreview,
         TaskFits
    <1>19. CASE StartSave
      BY <1>19, <1>1, ReachesBody DEF After, Continue, NoTask, Owning, Phases, StartSave, TaskFits
    <1>20. CASE DiscardFails
      BY <1>20, <1>1, ReachesBody DEF DiscardFails, NoTask, Phases, Released
    <1>21. CASE PrepareFails
      BY <1>21, <1>1, ReachesBody DEF Phases, PrepareFails, Released, TaskFits
    <1>22. CASE SaveEnds
      <2>1. /\ c'.draining = c.draining /\ c'.closing = c.closing /\ c'.active = c.active
            /\ c'.failed_operation = c.failed_operation /\ task' = task
        BY <1>22, <1>1 DEF SaveEnds, IsFields
      <2>2. saver'.id = None
        BY <1>22, <1>1 DEF SaveEnds, NoSaver
      <2>3. \/ where' \in {"tail", "failed"} /\ ~c.draining
            \/ where' = "drain_save" /\ c.draining
        BY <1>22, <1>1 DEF SaveEnds, AfterSave
      <2>4. where \in {"stop", "gui", "receive", "complete", "save", "tail", "drain_save"}
        BY <1>22, <1>1, ReachesBody DEF SaveEnds, Polls
      <2>5. QED BY <1>22, <1>1, <2>1, <2>2, <2>3, <2>4 DEF Phases
    <1>23. CASE TailStops
      BY <1>23, <1>1, ReachesBody DEF BeginStop, Phases, TailStops
    <1>24. CASE Leave
      BY <1>24, <1>1, ReachesBody DEF Leave, Phases
    <1>25. CASE DrainStops
      BY <1>25, <1>1 DEF BeginStop, DrainStops, Phases
    <1>26. CASE Drained
      BY <1>26, <1>1 DEF Drained, Phases
    <1>27. CASE Finish
      BY <1>27, <1>1 DEF Finish, Phases
    <1>28. CASE InspectFails
      BY <1>28, <1>1, ReachesBody DEF InspectFails, Phases
    <1>29. CASE PreflightFails
      BY <1>29, <1>1 DEF Loop, Phases, PreflightFails
    <1>30. CASE CancelledBeforeStart
      BY <1>30, <1>1 DEF CancelledBeforeStart, Loop, Phases
    <1>31. CASE StartBegins
      BY <1>31, <1>1 DEF Loop, Phases, StartBegins
    <1>32. CASE StartEnds
      BY <1>32, <1>1 DEF Loop, Phases, StartEnds
    <1>33. CASE StopEnds
      BY <1>33, <1>1 DEF Loop, Phases, StopEnds
    <1>34. CASE Raises
      BY <1>34, <1>1 DEF Raises, Phases
    <1>35. QED BY <1>2, <1>3, <1>4, <1>5, <1>6, <1>7, <1>8, <1>9, <1>10, <1>11, <1>12, <1>13,
       <1>14, <1>15, <1>16, <1>17, <1>18, <1>19, <1>20, <1>21, <1>22, <1>23, <1>24, <1>25, <1>26,
       <1>27, <1>28, <1>29, <1>30, <1>31, <1>32, <1>33, <1>34 DEF WindowNext, Coordinator, Executor

\* No step shows a start that was cancelled.
LEMMA CancelHeldKept ==
    ASSUME WindowInv, WindowNext
    PROVE  CancelHeld'
    <1> USE DEF Numbers, None
    <1>1. CancelHeld /\ IsFields(c) /\ task \in Tasks /\ IsDocument(status) /\ TaskFits /\ Phases
          /\ Shows
      BY DEF WindowInv, WindowTypes
    <1>2. CASE StopRequested \/ GuiEnds \/ SaveMistrusted
      BY <1>2, <1>1, CloserDoes DEF CancelHeld
    <1>3. CASE OperationFailed
      BY <1>3, <1>1, FailureDoes DEF CancelHeld
    <1>4. CASE StartCancelled
      <2>1. cancelled' = cancelled /\ status'.state \in {status.state, "CLOSING", "STOPPING"}
        BY <1>4, StartCancelledDoes
      <2>2. task'.op # "start_map" /\ task'.after # "map"
        BY <1>4, StartCancelledMoves DEF NoTask
      <2>3. QED BY <1>1, <2>1, <2>2 DEF CancelHeld
    <1>5. CASE StopCompletes
      <2>1. cancelled' = cancelled /\ status'.state \in {status.state, "STARTING", "STOPPING"}
        BY <1>5, StopCompletesDoes
      <2>2. \/ task.after = "map" /\ ~c.cancel_start
            \/ task'.op # "start_map" /\ task'.after # "map"
        BY <1>5, StopCompletesMoves DEF NoTask
      <2>3. QED BY <1>5, <1>1, <2>1, <2>2, StopCompletesDoes DEF CancelHeld, StopOps
    <1>6. CASE Poll \/ Click \/ Submit \/ WindowEnds \/ Signal \/ Terminated \/ SaveExits
      BY <1>6, <1>1 DEF CancelHeld, Click, Main, Poll, SaveExits, Signal, Submit, Terminated,
         WindowEnds, windowVars
    <1>7. CASE GuiRetry
      BY <1>7, <1>1, ReachesBody DEF CancelHeld, GuiRetry, Others
    <1>8. CASE Rejected
      BY <1>8, <1>1, ReachesBody DEF CancelHeld, Others, Publish, Rejected
    <1>9. CASE Accepted
      BY <1>9, <1>1, ReachesBody DEF Accepted, CancelHeld, Others, Publish
    <1>10. CASE CommandStart
      BY <1>10, <1>1 DEF CancelHeld, CommandStart
    <1>11. CASE CommandCancel
      BY <1>11, <1>1 DEF CancelHeld, CommandCancel, Publish, State
    <1>12. CASE CommandStop
      BY <1>12, <1>1 DEF CancelHeld, CommandStop, Others, Publish, State, StopTask
    <1>13. CASE OperationRaises
      BY <1>13, <1>1, ReachesBody DEF CancelHeld, NoTask, OperationRaises, Others
    <1>14. CASE StartedToClose
      BY <1>14, <1>1, ReachesBody DEF Bind, CancelHeld, Others, StartedToClose, StopTask
    <1>15. CASE StartedToCancel
      BY <1>15, <1>1, ReachesBody DEF CancelHeld, Owning, Publish, StartedToCancel, State,
         StopTask
    <1>16. CASE ShowFails
      BY <1>16, <1>1, ReachesBody DEF Bind, CancelHeld, NoTask, Others, ShowFails
    <1>17. CASE ShowMapping
      BY <1>17, <1>1, ReachesBody DEF CancelHeld, Others, ShowMapping, ShowSession
    <1>18. CASE ShowPreview
      BY <1>18, <1>1, ReachesBody DEF CancelHeld, NoTask, Publish, ShowPreview, State
    <1>19. CASE StartSave
      BY <1>19, <1>1, ReachesBody DEF CancelHeld, NoTask, Publish, StartSave, State
    <1>20. CASE DiscardFails
      BY <1>20, <1>1, ReachesBody DEF Bind, CancelHeld, DiscardFails, NoTask, Others
    <1>21. CASE PrepareFails
      BY <1>21, <1>1, ReachesBody DEF Bind, CancelHeld, NoTask, PrepareFails
    <1>22. CASE SaveEnds
      BY <1>22, <1>1, ReachesBody DEF CancelHeld, Publish, SaveEnds, State
    <1>23. CASE TailStops
      BY <1>23, <1>1, ReachesBody DEF CancelHeld, Others, StopTask, TailStops
    <1>24. CASE Leave
      BY <1>24, <1>1, ReachesBody DEF CancelHeld, Leave, Others
    <1>25. CASE DrainStops
      BY <1>25, <1>1 DEF CancelHeld, DrainStops, Others, StopTask
    <1>26. CASE Drained
      BY <1>26, <1>1 DEF CancelHeld, Drained, Others
    <1>27. CASE Finish
      BY <1>27, <1>1 DEF CancelHeld, Finish, Others, Publish, State
    <1>28. CASE InspectFails
      BY <1>28, <1>1, ReachesBody DEF CancelHeld, InspectFails, Others
    <1>29. CASE PreflightFails
      BY <1>29, <1>1 DEF CancelHeld, Loop, PreflightFails, Settle
    <1>30. CASE CancelledBeforeStart
      BY <1>30, <1>1 DEF CancelHeld, CancelledBeforeStart, Loop, Settle
    <1>31. CASE StartBegins
      BY <1>31, <1>1 DEF CancelHeld, Loop, StartBegins
    <1>32. CASE StartEnds
      BY <1>32, <1>1 DEF CancelHeld, Loop, Settle, StartEnds, Tasks
    <1>33. CASE StopEnds
      BY <1>33, <1>1 DEF CancelHeld, Loop, Settle, StopEnds, Tasks
    <1>34. CASE Raises
      BY <1>34, <1>1 DEF CancelHeld, Raises, Others
    <1>35. QED BY <1>2, <1>3, <1>4, <1>5, <1>6, <1>7, <1>8, <1>9, <1>10, <1>11, <1>12, <1>13,
       <1>14, <1>15, <1>16, <1>17, <1>18, <1>19, <1>20, <1>21, <1>22, <1>23, <1>24, <1>25, <1>26,
       <1>27, <1>28, <1>29, <1>30, <1>31, <1>32, <1>33, <1>34 DEF WindowNext, Coordinator, Executor

\* A step after which nobody reads a command: the window closes, or the body failed.
Quiet ==
    \/ c'.closing
    \/ /\ where' = "failed" /\ c'.closing = c.closing /\ UNCHANGED <<doc, command>>
       /\ panel' \in {panel, NewPanel(panel.clicks)}

\* A step that publishes a transition.
Publishes ==
    /\ Calm /\ ~c'.closing /\ doc' = status' /\ Advances(status, status')
    /\ command' = command /\ panel' \in {panel, NewPanel(panel.clicks)}

\* A quiet step leaves what is shown in order.
LEMMA QuietKeeps ==
    ASSUME WindowInv, Quiet
    PROVE  Shows' /\ Seen' /\ Clicked' /\ Room'
    <1>1. Seen /\ Clicked /\ panel.clicks \in Nat
      BY DEF WindowInv, WindowTypes, IsPanel
    <1>2. Shows' /\ Room'
      BY DEF Quiet, Shows, Room, Calm
    <1>3. Seen'
      BY <1>1, NewPanelIs DEF Quiet, Seen, Calm
    <1>4. Clicked'
      <2>1. CASE c'.closing \/ panel' = panel
        BY <1>1, <2>1 DEF Quiet, Clicked, Refers, Calm
      <2>2. CASE ~c'.closing /\ panel' = NewPanel(panel.clicks)
        <3>1. /\ panel'.first = panel.clicks /\ panel'.clicks = panel.clicks
              /\ panel'.draft = NoCommand /\ panel'.pending = 0
          BY <1>1, <2>2, NewPanelIs
        <3>2. QED BY <1>1, <2>2, <3>1 DEF Quiet, Clicked, Calm
      <2>3. QED BY <2>1, <2>2 DEF Quiet
    <1>5. QED BY <1>2, <1>3, <1>4

\* After a transition every command in the window's hands is dead.
LEMMA PublishingKeeps ==
    ASSUME WindowInv, Publishes, where' # "failed", Shows'
    PROVE  Seen' /\ Clicked'
    <1>1. /\ Seen /\ Clicked /\ IsDocument(status) /\ IsDocument(status') /\ command \in Commands
          /\ IsPanel(panel) /\ doc = status /\ ~c.closing /\ ~c'.closing
      BY DEF WindowInv, WindowTypes, Publishes, Advances, Seen, Calm
    <1>2. /\ IsDocument(panel.seen) /\ panel.draft \in Commands /\ panel.clicks \in Nat
          /\ panel.first \in Nat
      BY <1>1 DEF IsPanel
    <1>3. /\ status'.generation = status.generation + 1 /\ status'.token = status.token
          /\ status'.ack = status.ack /\ Follows(status, status') /\ doc' = status' /\ command' = command
      BY DEF Publishes, Advances
    <1>4. CASE panel' = panel
      <2>1. panel.polled => Follows(panel.seen, status')
        BY <1>1, <1>2, <1>3 DEF Seen, Follows, IsDocument
      <2>2. Seen'
        BY <1>1, <1>3, <1>4, <2>1 DEF Seen, Shows, Calm
      <2>3. /\ command.generation < status'.generation
            /\ panel.draft # NoCommand => panel.draft.generation < status'.generation
        BY <1>1, <1>2, <1>3 DEF Clicked, Commands, IsDocument
      <2>4. ~Starting(command)' /\ (panel.draft # NoCommand => ~Starting(panel.draft)')
        BY <1>1, <1>2, <1>3, <1>4, <2>3 DEF Starting, Commands, IsDocument
      <2>5. ~Starting(NoCommand)'
        BY DEF Starting, NoCommand
      <2>6. QED BY <1>1, <1>2, <1>3, <1>4, <2>2, <2>3, <2>4, <2>5 DEF Clicked, Refers, Dead,
         Commands, IsDocument
    <1>5. CASE panel' = NewPanel(panel.clicks)
      <2>1. /\ panel'.first = panel.clicks /\ panel'.clicks = panel.clicks
            /\ panel'.draft = NoCommand /\ panel'.pending = 0 /\ ~panel'.polled /\ ~panel'.failed
        BY <1>2, <1>5, NewPanelIs
      <2>2. Seen'
        BY <1>1, <1>3, <2>1 DEF Seen, Shows, Calm
      <2>3. command.generation < status'.generation
        BY <1>1, <1>2, <1>3 DEF Clicked, Commands, IsDocument
      <2>4. ~Starting(command)'
        BY <1>1, <1>3, <2>3 DEF Starting, Commands, IsDocument
      <2>5. ~Starting(panel.draft)'
        BY <2>1 DEF Starting, NoCommand
      <2>6. QED BY <1>1, <1>2, <1>3, <2>1, <2>2, <2>3, <2>4, <2>5 DEF Clicked, Commands,
         IsDocument
    <1>6. QED BY <1>4, <1>5 DEF Publishes

\* A completed stop that is published: the next session is announced.
LEMMA StopCompletesShows ==
    ASSUME WindowInv, StopCompletes, ~Quiet
    PROVE  /\ Calm /\ where' = "save" /\ c'.active = None /\ c'.sequence = c.sequence + 1
           /\ ~status'.can_start
           /\ \/ /\ c.sequence + 2 <= MaxSessions /\ status'.state = "STARTING"
                 /\ c'.maps = c.maps \cup {c.sequence + 1}
                 /\ task' = [at |-> "preflight", op |-> "start_map", id |-> c.sequence + 1,
                             after |-> "none", result |-> "none"]
              \/ /\ c'.maps = c.maps /\ status'.state = "STOPPING" /\ ~status'.can_stop
                 /\ task' = [at |-> "preflight", op |-> "start_preview", id |-> c.sequence + 1,
                             after |-> "none", result |-> "none"]
    <1>1. ~c.closing
      BY StopCompletesDoes DEF Quiet
    <1>2. where # "failed" /\ where' # "failed"
      BY StopCompletesDoes DEF Quiet
    <1>3. ~c.draining
      BY <1>1 DEF WindowInv, Phases
    <1>4. Calm /\ where' = "save" /\ c'.active = None
      BY <1>1, <1>2, <1>3, StopCompletesDoes DEF Calm
    <1>5. QED BY <1>1, <1>4, StopCompletesDoes
\* The steps after which nobody reads a command.
LEMMA QuietSteps ==
    ASSUME WindowInv,
           \/ StopRequested \/ GuiEnds \/ SaveMistrusted \/ OperationFailed \/ OperationRaises
           \/ StartedToClose \/ ShowFails \/ DiscardFails \/ PrepareFails \/ TailStops \/ Leave
           \/ InspectFails \/ DrainStops \/ Drained \/ Raises \/ Finish
    PROVE  Quiet
    <1>1. IsFields(c) /\ Phases
      BY DEF WindowInv, WindowTypes
    <1>2. CASE StopRequested \/ GuiEnds \/ SaveMistrusted
      BY <1>2, CloserDoes DEF Quiet
    <1>3. CASE OperationFailed
      BY <1>3, FailureDoes DEF Quiet
    <1>4. CASE OperationRaises
      BY <1>4, <1>1 DEF OperationRaises, Quiet, Window
    <1>5. CASE StartedToClose
      BY <1>5, <1>1 DEF BeginStop, IsFields, Owning, Quiet, StartedToClose
    <1>6. CASE ShowFails
      BY <1>6, <1>1 DEF Owning, Quiet, ShowFails, Window
    <1>7. CASE DiscardFails
      BY <1>7, <1>1 DEF DiscardFails, Quiet, Released, Window
    <1>8. CASE PrepareFails
      BY <1>8, <1>1 DEF PrepareFails, Quiet, Released, Window
    <1>9. CASE TailStops
      BY <1>9, <1>1 DEF BeginStop, Quiet, TailStops
    <1>10. CASE Leave
      BY <1>10, <1>1 DEF Leave, Quiet
    <1>11. CASE InspectFails
      BY <1>11, <1>1 DEF InspectFails, Quiet, Window
    <1>12. CASE DrainStops
      BY <1>12, <1>1 DEF BeginStop, DrainStops, Phases, Quiet
    <1>13. CASE Drained
      BY <1>13, <1>1 DEF Drained, Phases, Quiet
    <1>14. CASE Finish
      BY <1>14, <1>1 DEF Finish, Phases, Quiet
    <1>15. CASE Raises
      BY <1>15, <1>1 DEF Raises, Phases, Quiet
    <1>16. QED BY <1>2, <1>3, <1>4, <1>5, <1>6, <1>7, <1>8, <1>9, <1>10, <1>11, <1>12, <1>13,
       <1>14, <1>15

\* The steps that publish a transition, unless its write fails or the window closes.
LEMMA PublishingSteps ==
    ASSUME WindowInv,
           \/ CommandStart \/ CommandCancel \/ CommandStop \/ StartCancelled \/ StopCompletes
           \/ StartedToCancel \/ ShowMapping \/ ShowPreview \/ StartSave \/ SaveEnds
    PROVE  Quiet \/ (Publishes /\ where' # "failed")
    <1>1. IsFields(c) /\ Phases /\ IsDocument(status) /\ task \in Tasks
      BY DEF WindowInv, WindowTypes
    <1>2. CASE CommandStart
      <2>1. PICK ok \in BOOLEAN :
              Publish(State(status, "STARTING", FALSE, TRUE), ok) /\ Continue(ok, "complete")
        BY <1>2 DEF CommandStart
      <2>2. Advances(status, State(status, "STARTING", FALSE, TRUE))
        BY <1>1, StateAdvances
      <2>3. /\ Calm /\ c'.closing = c.closing /\ command' = command
            /\ panel' = panel
        BY <1>2, <1>1 DEF CommandStart, Calm, Phases, Window, BeginStop
      <2>4. CASE ok
        BY <2>1, <2>2, <2>3, <2>4, PublishDoes DEF Publishes, Calm, Advances, Continue, WindowInv
      <2>5. CASE ~ok
        BY <2>1, <2>2, <2>3, <2>5, PublishDoes DEF Quiet, Advances, Continue, WindowInv
      <2>6. QED BY <2>4, <2>5
    <1>3. CASE CommandCancel
      <2>1. PICK ok \in BOOLEAN :
              Publish(State(status, "STARTING", FALSE, FALSE), ok) /\ Continue(ok, "complete")
        BY <1>3 DEF CommandCancel
      <2>2. Advances(status, State(status, "STARTING", FALSE, FALSE))
        BY <1>1, StateAdvances
      <2>3. /\ Calm /\ c'.closing = c.closing /\ command' = command
            /\ panel' = panel
        BY <1>3, <1>1 DEF CommandCancel, Calm, Phases, Window
      <2>4. CASE ok
        BY <2>1, <2>2, <2>3, <2>4, PublishDoes DEF Publishes, Calm, Advances, Continue, WindowInv
      <2>5. CASE ~ok
        BY <2>1, <2>2, <2>3, <2>5, PublishDoes DEF Quiet, Advances, Continue, WindowInv
      <2>6. QED BY <2>4, <2>5
    <1>4. CASE CommandStop
      <2>1. PICK ok \in BOOLEAN :
              Publish(State(status, "STOPPING", FALSE, FALSE), ok) /\ Continue(ok, "complete")
        BY <1>4 DEF CommandStop
      <2>2. Advances(status, State(status, "STOPPING", FALSE, FALSE))
        BY <1>1, StateAdvances
      <2>3. /\ Calm /\ c'.closing = c.closing /\ command' = command
            /\ panel' = panel
        BY <1>4, <1>1 DEF CommandStop, Calm, Phases, Window, BeginStop
      <2>4. CASE ok
        BY <2>1, <2>2, <2>3, <2>4, PublishDoes DEF Publishes, Calm, Advances, Continue, WindowInv
      <2>5. CASE ~ok
        BY <2>1, <2>2, <2>3, <2>5, PublishDoes DEF Quiet, Advances, Continue, WindowInv
      <2>6. QED BY <2>4, <2>5
    <1>5. CASE StartCancelled
      BY <1>5, <1>1, StartCancelledDoes DEF Quiet, Publishes, Calm
    <1>6. CASE StopCompletes
      BY <1>6, <1>1, StopCompletesDoes DEF Quiet, Publishes, Calm
    <1>7. CASE StartedToCancel
      <2>1. task.id \in Numbers
        BY <1>1 DEF Tasks
      <2>2. PICK ok \in BOOLEAN :
              Publish(State(Bind(status, task.id), "STOPPING", FALSE, FALSE), ok) /\ Continue(ok, After)
        BY <1>7 DEF StartedToCancel
      <2>3. Advances(status, State(Bind(status, task.id), "STOPPING", FALSE, FALSE))
        BY <1>1, <2>1, BoundAdvances
      <2>4. /\ Calm /\ c'.closing = c.closing /\ command' = command
            /\ panel' = panel
        BY <1>7, <1>1, ReachesBody DEF StartedToCancel, Started, Completes, Calm, Window,
           BeginStop, Owning
      <2>5. CASE ok
        BY <2>2, <2>3, <2>4, <2>5, PublishDoes DEF Publishes, Calm, Advances, Continue, After,
           WindowInv
      <2>6. CASE ~ok
        BY <2>2, <2>3, <2>4, <2>6, PublishDoes DEF Quiet, Advances, Continue, WindowInv
      <2>7. QED BY <2>5, <2>6
    <1>8. CASE ShowMapping
      <2>1. task.id \in Numbers
        BY <1>1 DEF Tasks
      <2>2. PICK ok \in BOOLEAN :
              Publish(State(Bind(status, task.id), "MAPPING", FALSE, TRUE), ok) /\ Continue(ok, After)
        BY <1>8 DEF ShowMapping
      <2>3. Advances(status, State(Bind(status, task.id), "MAPPING", FALSE, TRUE))
        BY <1>1, <2>1, BoundAdvances
      <2>4. /\ Calm /\ c'.closing = c.closing /\ command' = command
            /\ panel' = panel
        BY <1>8, <1>1, ReachesBody DEF ShowMapping, ShowSession, Started, Completes, Calm, Window,
           Owning
      <2>5. CASE ok
        BY <2>2, <2>3, <2>4, <2>5, PublishDoes DEF Publishes, Calm, Advances, Continue, After,
           WindowInv
      <2>6. CASE ~ok
        BY <2>2, <2>3, <2>4, <2>6, PublishDoes DEF Quiet, Advances, Continue, WindowInv
      <2>7. QED BY <2>5, <2>6
    <1>9. CASE ShowPreview
      <2>1. task.id \in Numbers
        BY <1>1 DEF Tasks
      <2>2. PICK ok \in BOOLEAN :
              Publish(State(Bind(status, task.id), "PREVIEW", TRUE, FALSE), ok) /\ Continue(ok, After)
        BY <1>9 DEF ShowPreview
      <2>3. Advances(status, State(Bind(status, task.id), "PREVIEW", TRUE, FALSE))
        BY <1>1, <2>1, BoundAdvances
      <2>4. /\ Calm /\ c'.closing = c.closing /\ command' = command
            /\ panel' \in {panel, NewPanel(panel.clicks)}
        BY <1>9, <1>1, ReachesBody DEF ShowPreview, ShowSession, Started, Completes, Calm, Owning,
           OpenGui
      <2>5. CASE ok
        BY <2>2, <2>3, <2>4, <2>5, PublishDoes DEF Publishes, Calm, Advances, Continue, After,
           WindowInv
      <2>6. CASE ~ok
        BY <2>2, <2>3, <2>4, <2>6, PublishDoes DEF Quiet, Advances, Continue, WindowInv
      <2>7. QED BY <2>5, <2>6
    <1>10. CASE StartSave
      <2>1. task.id \in Numbers
        BY <1>1 DEF Tasks
      <2>2. PICK ok \in BOOLEAN :
              Publish(State(Bind(status, task.id), "SAVING", FALSE, FALSE), ok) /\ Continue(ok, After)
        BY <1>10 DEF StartSave
      <2>3. Advances(status, State(Bind(status, task.id), "SAVING", FALSE, FALSE))
        BY <1>1, <2>1, BoundAdvances
      <2>4. /\ Calm /\ c'.closing = c.closing /\ command' = command
            /\ panel' = panel
        BY <1>10, <1>1, ReachesBody DEF StartSave, ShowSession, Started, Completes, Calm, Window,
           Owning
      <2>5. CASE ok
        BY <2>2, <2>3, <2>4, <2>5, PublishDoes DEF Publishes, Calm, Advances, Continue, After,
           WindowInv
      <2>6. CASE ~ok
        BY <2>2, <2>3, <2>4, <2>6, PublishDoes DEF Quiet, Advances, Continue, WindowInv
      <2>7. QED BY <2>5, <2>6
    <1>11. CASE SaveEnds
      <2>1. c'.closing = c.closing /\ command' = command /\ panel' = panel
        BY <1>11, <1>1 DEF SaveEnds, IsFields, Window
      <2>2. CASE c.closing
        BY <2>1, <2>2 DEF Quiet
      <2>3. CASE ~c.closing
        <3>1. Calm
          BY <1>11, <1>1, <2>3, ReachesBody DEF SaveEnds, Polls, Calm
        <3>2. PICK ok \in BOOLEAN : /\ Publish(State(status, "PREVIEW", TRUE, FALSE), ok)
                                   /\ where' = IF ok THEN AfterSave ELSE IF c.draining THEN "drain_save" ELSE "failed"
          BY <1>11, <2>3 DEF SaveEnds
        <3>3. Advances(status, State(status, "PREVIEW", TRUE, FALSE))
          BY <1>1, StateAdvances
        <3>4. CASE ok
          BY <2>1, <2>3, <3>1, <3>2, <3>3, <3>4, PublishDoes DEF Publishes, Advances, AfterSave,
             WindowInv
        <3>5. CASE ~ok
          BY <1>1, <2>1, <2>3, <3>2, <3>3, <3>5, PublishDoes DEF Quiet, Advances, Phases,
             WindowInv
        <3>6. QED BY <3>4, <3>5
      <2>4. QED BY <2>2, <2>3
    <1>12. QED BY <1>2, <1>3, <1>4, <1>5, <1>6, <1>7, <1>8, <1>9, <1>10, <1>11
\* Every step leaves what is published fitting what is done.
LEMMA ShowsKept ==
    ASSUME WindowInv, WindowNext
    PROVE  Shows'
    <1> USE DEF Numbers, None
    <1>1. IsFields(c) /\ task \in Tasks /\ IsSaver(saver) /\ IsDocument(status) /\ TaskFits /\
          OneMap /\ Phases /\ Shows /\ Numbered
      BY DEF WindowInv, WindowTypes
    <1>2. CASE StopRequested \/ GuiEnds \/ SaveMistrusted \/ OperationFailed \/ OperationRaises \/
      StartedToClose \/ ShowFails \/ DiscardFails \/ PrepareFails \/ TailStops \/ Leave \/
      InspectFails \/ DrainStops \/ Drained \/ Raises \/ Finish
      BY <1>2, QuietSteps, QuietKeeps
    <1>3. CASE CommandStart
      <2>1. CASE Quiet
        BY <2>1, QuietKeeps
      <2>2. CASE ~Quiet
        BY <1>3, <1>1, <2>2, PublishingSteps DEF Calm, CommandStart, Continue, Phases, Publish,
           Shows, State, StopTask
      <2>3. QED BY <2>1, <2>2
    <1>4. CASE CommandCancel
      <2>1. CASE Quiet
        BY <2>1, QuietKeeps
      <2>2. CASE ~Quiet
        BY <1>4, <1>1, <2>2, PublishingSteps DEF CommandCancel, Continue, Publish, Publishes,
           Shows, State
      <2>3. QED BY <2>1, <2>2
    <1>5. CASE CommandStop
      <2>1. CASE Quiet
        BY <2>1, QuietKeeps
      <2>2. CASE ~Quiet
        BY <1>5, <1>1, <2>2, PublishingSteps DEF CommandStop, Continue, Publish, Publishes, Shows,
           State
      <2>3. QED BY <2>1, <2>2
    <1>6. CASE StartCancelled
      <2>1. CASE Quiet
        BY <2>1, QuietKeeps
      <2>2. CASE ~Quiet
        BY <1>6, <1>1, <2>2, StartCancelledDoes DEF Shows, Calm
      <2>3. QED BY <2>1, <2>2
    <1>7. CASE StopCompletes
      <2>1. CASE Quiet
        BY <2>1, QuietKeeps
      <2>2. CASE ~Quiet
        <3>1. Calm /\ where' = "save" /\ saver' = saver
          BY <1>7, <2>2, StopCompletesShows, StopCompletesDoes
        <3>2. /\ ~status'.can_start
              /\ \/ status'.state = "STARTING" /\ task'.op = "start_map"
                 \/ status'.state = "STOPPING" /\ ~status'.can_stop
          BY <1>7, <2>2, StopCompletesShows
        <3>3. saver.id = None
          BY <1>7, <1>1, <3>1, StopCompletesDoes DEF Shows
        <3>4. QED BY <3>1, <3>2, <3>3 DEF Shows
      <2>3. QED BY <2>1, <2>2
    <1>8. CASE StartedToCancel
      <2>1. CASE Quiet
        BY <2>1, QuietKeeps
      <2>2. CASE ~Quiet
        BY <1>8, <1>1, <2>2, PublishingSteps, ReachesBody DEF After, Continue, Publish, Publishes,
           Shows, StartedToCancel, State, StopOps, TaskFits, Tasks
      <2>3. QED BY <2>1, <2>2
    <1>9. CASE ShowMapping
      <2>1. CASE Quiet
        BY <2>1, QuietKeeps
      <2>2. CASE ~Quiet
        BY <1>9, <1>1, <2>2, PublishingSteps, ReachesBody DEF After, Bind, Continue, NoTask,
           Numbered, Owning, Publish, Publishes, ShowMapping, Shows, State, StopOps, TaskFits,
           Tasks
      <2>3. QED BY <2>1, <2>2
    <1>10. CASE ShowPreview
      <2>1. CASE Quiet
        BY <2>1, QuietKeeps
      <2>2. CASE ~Quiet
        BY <1>10, <1>1, <2>2, PublishingSteps, ReachesBody DEF After, Bind, Continue, NoTask,
           Numbered, Owning, Publish, Publishes, ShowPreview, Shows, State, TaskFits, Tasks
      <2>3. QED BY <2>1, <2>2
    <1>11. CASE StartSave
      <2>1. CASE Quiet
        BY <2>1, QuietKeeps
      <2>2. CASE ~Quiet
        BY <1>11, <1>1, <2>2, PublishingSteps, ReachesBody DEF After, Bind, Continue, NoTask,
           Numbered, Owning, Publish, Shows, StartSave, State, TaskFits, Tasks
      <2>3. QED BY <2>1, <2>2
    <1>12. CASE SaveEnds
      <2>1. CASE Quiet
        BY <2>1, QuietKeeps
      <2>2. CASE ~Quiet
        BY <1>12, <1>1, <2>2, PublishingSteps, ReachesBody DEF AfterSave, MapBusy, NoSaver,
           OneMap, Publish, Publishes, SaveEnds, Shows, State
      <2>3. QED BY <2>1, <2>2
    <1>13. CASE GuiRetry
      BY <1>13, <1>1, ReachesBody DEF Calm, GuiRetry, Shows
    <1>14. CASE Rejected
      BY <1>14, <1>1, ReachesBody DEF Calm, Continue, Publish, Rejected, Shows
    <1>15. CASE Accepted
      <2>1. /\ Calm /\ UNCHANGED <<task, saver>>
            /\ c'.active = c.active /\ c'.maps = c.maps /\ c'.pending_map = c.pending_map
            /\ c'.action = command.action
        BY <1>15, <1>1, ReachesBody DEF Accepted, NewCommand, Calm
      <2>2. /\ status'.can_start = status.can_start /\ status'.can_stop = status.can_stop
            /\ status'.state = status.state /\ status'.active = status.active
        BY <1>15, <1>1 DEF Accepted, Publish, IsDocument
      <2>3. \/ command.action = "start" /\ status.can_start
            \/ command.action = "stop" /\ status.can_stop
        BY <1>15 DEF Accepted, Acceptable
      <2>4. QED BY <1>1, <2>1, <2>2, <2>3 DEF Shows
    <1>16. CASE PreflightFails
      BY <1>16, <1>1 DEF Calm, Loop, PreflightFails, Settle, Shows
    <1>17. CASE CancelledBeforeStart
      BY <1>17, <1>1 DEF Calm, CancelledBeforeStart, Loop, Settle, Shows
    <1>18. CASE StartBegins
      BY <1>18, <1>1 DEF Calm, Loop, Shows, StartBegins
    <1>19. CASE StartEnds
      BY <1>19, <1>1 DEF Calm, Loop, Settle, Shows, StartEnds, Tasks
    <1>20. CASE StopEnds
      BY <1>20, <1>1 DEF Calm, Loop, Settle, Shows, StopEnds, Tasks
    <1>21. CASE SaveExits
      BY <1>21, <1>1 DEF Calm, SaveExits, Shows
    <1>22. CASE Poll \/ Click \/ Submit \/ WindowEnds \/ Signal \/ Terminated
      BY <1>22, <1>1 DEF Calm, Click, Main, Poll, Shows, Signal, Submit, Terminated, WindowEnds,
         windowVars
    <1>23. QED BY <1>2, <1>3, <1>4, <1>5, <1>6, <1>7, <1>8, <1>9, <1>10, <1>11, <1>12, <1>13,
       <1>14, <1>15, <1>16, <1>17, <1>18, <1>19, <1>20, <1>21, <1>22 DEF WindowNext, Coordinator,
       Executor

\* Every step leaves a number for every session that may have to be started.
LEMMA RoomKept ==
    ASSUME WindowInv, WindowNext
    PROVE  Room'
    <1> USE DEF Numbers, None
    <1>1. IsFields(c) /\ task \in Tasks /\ IsDocument(status) /\ TaskFits /\ Phases /\ Shows /\
          Room /\ Numbered /\ Clicked /\ Seen
      BY DEF WindowInv, WindowTypes
    <1>2. CASE StopRequested \/ GuiEnds \/ SaveMistrusted \/ OperationFailed \/ OperationRaises \/
      StartedToClose \/ ShowFails \/ DiscardFails \/ PrepareFails \/ TailStops \/ Leave \/
      InspectFails \/ DrainStops \/ Drained \/ Raises \/ Finish
      BY <1>2, QuietSteps, QuietKeeps
    <1>3. CASE CommandStart
      <2>1. CASE Quiet
        BY <2>1, QuietKeeps
      <2>2. CASE ~Quiet
        BY <1>3, <1>1, <2>2, PublishingSteps DEF BeginStop, Calm, CommandStart, Room, StopTask,
           Window
      <2>3. QED BY <2>1, <2>2
    <1>4. CASE CommandCancel
      <2>1. CASE Quiet
        BY <2>1, QuietKeeps
      <2>2. CASE ~Quiet
        BY <1>4, <1>1, <2>2, PublishingSteps DEF CommandCancel, IsFields, Publishes, Room, Window
      <2>3. QED BY <2>1, <2>2
    <1>5. CASE CommandStop
      <2>1. CASE Quiet
        BY <2>1, QuietKeeps
      <2>2. CASE ~Quiet
        BY <1>5, <1>1, <2>2, PublishingSteps DEF BeginStop, Calm, CommandStop, Room, Shows,
           StopTask, Window
      <2>3. QED BY <2>1, <2>2
    <1>6. CASE StartCancelled
      <2>1. CASE Quiet
        BY <2>1, QuietKeeps
      <2>2. CASE ~Quiet
        <3>1. /\ c'.active = None /\ c'.maps = c.maps
              /\ task' = [at |-> "preflight", op |-> "start_preview", id |-> c.sequence + 1,
                          after |-> "none", result |-> "none"]
              /\ where' = "save"
          BY <1>6, <2>2, StartCancelledDoes, StartCancelledMoves DEF Quiet
        <3>2. None \notin c.maps
          BY <1>1 DEF IsFields, Sessions
        <3>3. QED BY <3>1, <3>2 DEF Room
      <2>3. QED BY <2>1, <2>2
    <1>7. CASE StopCompletes
      <2>1. CASE Quiet
        BY <2>1, QuietKeeps
      <2>2. CASE ~Quiet
        <3>1. c'.active = None /\ None \notin c'.maps /\ where' = "save" /\ c'.sequence = c.sequence + 1
          BY <1>7, <1>1, <2>2, StopCompletesShows DEF IsFields, Sessions
        <3>2. task'.after = "none" /\ task'.result = "none"
          BY <1>7, <2>2, StopCompletesShows
        <3>3. task'.op = "start_map" => c.sequence + 2 <= MaxSessions
          BY <1>7, <2>2, StopCompletesShows
        <3>4. QED BY <1>1, <3>1, <3>2, <3>3 DEF Room, IsFields
      <2>3. QED BY <2>1, <2>2
    <1>8. CASE StartedToCancel
      <2>1. CASE Quiet
        BY <2>1, QuietKeeps
      <2>2. CASE ~Quiet
        BY <1>8, <1>1, <2>2, PublishingSteps, ReachesBody DEF After, BeginStop, Calm, Completes,
           Continue, Owning, Room, Started, StartedToCancel, StopTask
      <2>3. QED BY <2>1, <2>2
    <1>9. CASE ShowMapping
      <2>1. CASE Quiet
        BY <2>1, QuietKeeps
      <2>2. CASE ~Quiet
        BY <1>9, <1>1, <2>2, PublishingSteps, ReachesBody DEF After, Continue, IsFields, NoTask,
           Owning, Publishes, Room, ShowMapping
      <2>3. QED BY <2>1, <2>2
    <1>10. CASE ShowPreview
      <2>1. CASE Quiet
        BY <2>1, QuietKeeps
      <2>2. CASE ~Quiet
        BY <1>10, <1>1, <2>2, PublishingSteps, ReachesBody DEF After, Continue, NoTask, Owning,
           Room, ShowPreview, TaskFits, Tasks
      <2>3. QED BY <2>1, <2>2
    <1>11. CASE StartSave
      <2>1. CASE Quiet
        BY <2>1, QuietKeeps
      <2>2. CASE ~Quiet
        BY <1>11, <1>1, <2>2, PublishingSteps, ReachesBody DEF After, Continue, NoTask, Owning,
           Room, StartSave, TaskFits, Tasks
      <2>3. QED BY <2>1, <2>2
    <1>12. CASE SaveEnds
      <2>1. CASE Quiet
        BY <2>1, QuietKeeps
      <2>2. CASE ~Quiet
        BY <1>12, <1>1, <2>2, PublishingSteps, ReachesBody DEF AfterSave, IsFields, Publishes,
           Room, SaveEnds, Window
      <2>3. QED BY <2>1, <2>2
    <1>13. CASE GuiRetry
      BY <1>13, <1>1, ReachesBody DEF Calm, GuiRetry, Room
    <1>14. CASE Rejected
      BY <1>14, <1>1, ReachesBody DEF Calm, Continue, Rejected, Room, Window
    <1>15. CASE Accepted
      <2>1. /\ Calm /\ UNCHANGED <<task, stop>>
            /\ c'.active = c.active /\ c'.maps = c.maps /\ c'.sequence = c.sequence
            /\ c'.action = command.action
        BY <1>15, <1>1, ReachesBody DEF Accepted, NewCommand, Calm, Window
      <2>2. command.generation = status.generation
        BY <1>15 DEF Accepted, Acceptable
      <2>3. command.action = "start" => c.sequence + 2 <= MaxSessions
        BY <1>1, <2>1, <2>2 DEF Clicked, Starting, Calm
      <2>4. QED BY <1>1, <2>1, <2>3 DEF Room
    <1>16. CASE PreflightFails
      BY <1>16, <1>1 DEF Calm, Loop, PreflightFails, Room, Settle
    <1>17. CASE CancelledBeforeStart
      BY <1>17, <1>1 DEF Calm, CancelledBeforeStart, Loop, Room, Settle
    <1>18. CASE StartBegins
      BY <1>18, <1>1 DEF Calm, Loop, Room, StartBegins
    <1>19. CASE StartEnds
      BY <1>19, <1>1 DEF Calm, Loop, Room, Settle, StartEnds, Tasks
    <1>20. CASE StopEnds
      BY <1>20, <1>1 DEF Calm, Loop, Room, Settle, StopEnds, Tasks
    <1>21. CASE SaveExits
      BY <1>21, <1>1 DEF Calm, Room, SaveExits, Window
    <1>22. CASE Poll \/ Click \/ Submit \/ WindowEnds \/ Signal \/ Terminated
      BY <1>22, <1>1 DEF Calm, Click, Main, Poll, Room, Signal, Submit, Terminated, WindowEnds,
         windowVars
    <1>23. QED BY <1>2, <1>3, <1>4, <1>5, <1>6, <1>7, <1>8, <1>9, <1>10, <1>11, <1>12, <1>13,
       <1>14, <1>15, <1>16, <1>17, <1>18, <1>19, <1>20, <1>21, <1>22 DEF WindowNext, Coordinator,
       Executor

\* A command that is answered is dead, and the window may see the answer.
LEMMA AnswerKeeps ==
    ASSUME WindowInv, Calm, c'.closing = c.closing, c'.sequence = c.sequence,
           doc' = status', IsDocument(status'), UNCHANGED <<command, panel>>,
           status'.generation = status.generation, status'.view = status.view,
           status'.active = status.active, status'.state = status.state,
           status.token <= status'.token, status.last_sequence <= status'.last_sequence,
           status'.ack = command.nonce
    PROVE  Seen' /\ Clicked'
    <1>1. /\ Seen /\ Clicked /\ IsDocument(status) /\ IsDocument(panel.seen) /\ doc = status
          /\ ~c.closing
      BY DEF WindowInv, WindowTypes, IsPanel, Seen, Calm
    <1>2. panel.polled => Follows(panel.seen, status')
      BY <1>1 DEF Seen, Follows, IsDocument
    <1>3. Seen'
      BY <1>1, <1>2 DEF Seen, Calm
    <1>4. Clicked'
      BY <1>1 DEF Clicked, Refers, Dead, Starting
    <1>5. QED BY <1>3, <1>4

\* receive() either way: the answer is published, or the body failed.
LEMMA AnsweringSteps ==
    ASSUME WindowInv, Rejected \/ Accepted
    PROVE  Seen' /\ Clicked'
    <1>1. IsFields(c) /\ IsDocument(status) /\ command \in Commands
      BY DEF WindowInv, WindowTypes
    <1>2. /\ Calm /\ c'.closing = c.closing /\ c'.sequence = c.sequence /\ UNCHANGED <<command, panel>>
      BY <1>1, ReachesBody DEF Rejected, Accepted, NewCommand, Calm, Window, IsFields
    <1>3. \E st : \E ok \in BOOLEAN :
             /\ Publish(st, ok) /\ (~ok => where' = "failed") /\ IsDocument(st)
             /\ st.generation = status.generation /\ st.view = status.view
             /\ st.active = status.active /\ st.state = status.state /\ status.token <= st.token
             /\ status.last_sequence <= st.last_sequence /\ st.ack = command.nonce
      <2>1. CASE Rejected
        <3> DEFINE st == [status EXCEPT !.ack = command.nonce]
        <3>1. PICK ok \in BOOLEAN : Publish(st, ok) /\ Continue(ok, "complete")
          BY <2>1 DEF Rejected
        <3>2. /\ IsDocument(st) /\ st.generation = status.generation /\ st.view = status.view
              /\ st.active = status.active /\ st.state = status.state /\ status.token <= st.token
              /\ status.last_sequence <= st.last_sequence /\ st.ack = command.nonce
          BY <1>1 DEF IsDocument, Commands
        <3> HIDE DEF st
        <3>3. QED BY <3>1, <3>2 DEF Continue
      <2>2. CASE Accepted
        <3> DEFINE st == [status EXCEPT !.ack = command.nonce, !.last_sequence = command.sequence,
                                        !.token = status.token + 1]
        <3>1. PICK ok \in BOOLEAN : Publish(st, ok) /\ Continue(ok, "command")
          BY <2>2 DEF Accepted
        <3>2. command.sequence > status.last_sequence
          BY <2>2 DEF Accepted, Acceptable
        <3>3. /\ IsDocument(st) /\ st.generation = status.generation /\ st.view = status.view
              /\ st.active = status.active /\ st.state = status.state /\ status.token <= st.token
              /\ status.last_sequence <= st.last_sequence /\ st.ack = command.nonce
          BY <1>1, <3>2 DEF IsDocument, Commands
        <3> HIDE DEF st
        <3>4. QED BY <3>1, <3>3 DEF Continue
      <2>3. QED BY <2>1, <2>2
    <1>4. PICK st : \E ok \in BOOLEAN :
             /\ Publish(st, ok) /\ (~ok => where' = "failed") /\ IsDocument(st)
             /\ st.generation = status.generation /\ st.view = status.view
             /\ st.active = status.active /\ st.state = status.state /\ status.token <= st.token
             /\ status.last_sequence <= st.last_sequence /\ st.ack = command.nonce
      BY <1>3
    <1>5. status' = st /\ IsDocument(status')
      BY <1>4 DEF Publish
    <1>6. CASE doc' = status'
      BY <1>2, <1>4, <1>5, <1>6, AnswerKeeps
    <1>7. CASE doc' = doc /\ where' = "failed"
      BY <1>2, <1>7, QuietKeeps DEF Quiet
    <1>8. QED BY <1>4, <1>6, <1>7 DEF Publish

\* What the window polls does not contradict what it saw.
LEMMA NothingContradicts ==
    ASSUME WindowInv, ~c.closing
    PROVE  ~Contradicts(doc)
    <1>1. Seen /\ IsDocument(doc) /\ IsDocument(panel.seen)
      BY DEF WindowInv, WindowTypes, IsPanel
    <1>2. panel.polled => Follows(panel.seen, doc)
      BY <1>1 DEF Seen
    <1>3. ~(doc.state \in {"PREVIEW", "SAVING", "MAPPING"} /\ doc.active = None)
      BY <1>1 DEF Seen
    <1>4. QED BY <1>1, <1>2, <1>3 DEF Contradicts, Follows, IsDocument

\* poll(): the window sees the newest status, and gives up a click that was
\* answered or can no longer be accepted.
LEMMA PollKeeps ==
    ASSUME WindowInv, Poll
    PROVE  Seen' /\ Clicked'
    <1>1. /\ Seen /\ Clicked /\ IsDocument(doc) /\ IsDocument(status) /\ IsDocument(panel.seen)
          /\ command \in Commands /\ IsPanel(panel)
      BY DEF WindowInv, WindowTypes, IsPanel
    <1>2. /\ ~c.closing /\ panel.draft = NoCommand /\ ~panel.failed
          /\ UNCHANGED <<where, c, status, doc, command>>
      BY DEF Poll, Alive, Main
    <1>3. ~Contradicts(doc)
      BY <1>2, NothingContradicts
    <1>4. /\ panel'.seen = doc /\ panel'.draft = NoCommand /\ panel'.first = panel.first
          /\ panel'.clicks = panel.clicks /\ ~panel'.failed /\ panel'.polled
          /\ panel'.pending = IF Answered THEN 0 ELSE panel.pending
      BY <1>2, <1>3, PollDoes
    <1>5. Seen'
      BY <1>1, <1>2, <1>4 DEF Seen, Follows, IsDocument, Calm
    <1>6. panel'.pending # 0 => Refers(command)'
      BY <1>1, <1>2, <1>4 DEF Clicked, Refers, Answered
    <1>7. Calm /\ Refers(command) /\ Answered => Dead(command)
      BY <1>1, <1>2 DEF Seen, Follows, Refers, Dead, Answered, IsDocument
    <1>8. Calm /\ command.nonce > panel.first /\ command.nonce # panel'.pending => Dead(command)
      <2>1. panel.pending # 0 => Refers(command)
        BY <1>1, <1>2 DEF Clicked
      <2>2. command.nonce > panel.first => command.nonce # 0
        BY <1>1 DEF Commands, IsPanel
      <2>3. QED BY <1>1, <1>2, <1>4, <1>7, <2>1, <2>2 DEF Clicked
    <1>9. QED BY <1>1, <1>2, <1>4, <1>5, <1>6, <1>8 DEF Clicked, Dead, Starting, Calm

\* request(): the draft of a click is about what the window saw.
LEMMA ClickKeeps ==
    ASSUME WindowInv, Click
    PROVE  Seen' /\ Clicked'
    <1>1. /\ Seen /\ Clicked /\ IsDocument(doc) /\ IsDocument(status) /\ IsPanel(panel)
          /\ command \in Commands
      BY DEF WindowInv, WindowTypes
    <1>2. /\ ~c.closing /\ panel.draft = NoCommand /\ panel.polled /\ panel.seen = doc
          /\ panel.pending = 0 /\ UNCHANGED <<where, c, status, doc, command>>
          /\ Offered(doc) = "start" => c.sequence + 2 <= MaxSessions
      BY DEF Click, Alive, Main
    <1>3. /\ panel'.seen = doc /\ panel'.polled = panel.polled /\ panel'.first = panel.first
          /\ panel'.failed = panel.failed /\ panel'.clicks = panel.clicks + 1
          /\ panel'.pending = panel.clicks + 1 /\ panel'.draft.nonce = panel.clicks + 1
          /\ panel'.draft.generation = doc.generation /\ panel'.draft.token = doc.token
          /\ panel'.draft.action = Offered(doc)
      BY <1>1, <1>2 DEF Click, IsPanel
    <1>4. Seen'
      BY <1>1, <1>2, <1>3 DEF Seen, Calm
    <1>5. panel.clicks \in Nat /\ panel.first \in Nat /\ command.nonce \in Nat
      BY <1>1 DEF IsPanel, Commands
    <1>6. Clicked'
      <2>1. /\ command.nonce < panel.clicks + 1 /\ panel.first <= panel.clicks + 1
            /\ command.generation <= doc.generation
        BY <1>1, <1>2, <1>5 DEF Clicked
      <2>2. Refers(panel.draft)' /\ panel'.draft # NoCommand /\ panel'.pending # 0
        BY <1>2, <1>3, <1>5 DEF Refers, NoCommand
      <2>3. Calm /\ command.nonce > panel.first => Dead(command)
        BY <1>1, <1>2, <1>5 DEF Clicked
      <2>4. doc.generation <= doc.generation
        BY <1>1 DEF IsDocument
      <2>5. Calm /\ (Starting(command) \/ Offered(doc) = "start") => c.sequence + 2 <= MaxSessions
        BY <1>1, <1>2 DEF Clicked
      <2>6. QED BY <1>2, <1>3, <1>5, <2>1, <2>2, <2>3, <2>4, <2>5 DEF Clicked, Dead, Starting,
         Calm
    <1>7. QED BY <1>4, <1>6

\* request(): the command file replaces one that nobody waits for.
LEMMA SubmitKeeps ==
    ASSUME WindowInv, Submit
    PROVE  Seen' /\ Clicked'
    <1>1. Seen /\ Clicked /\ IsPanel(panel) /\ command \in Commands
      BY DEF WindowInv, WindowTypes
    <1>2. /\ ~c.closing /\ panel.draft # NoCommand /\ command' = panel.draft
          /\ UNCHANGED <<where, c, status, doc>>
      BY DEF Submit, Main
    <1>3. /\ panel'.seen = panel.seen /\ panel'.polled = panel.polled /\ panel'.first = panel.first
          /\ panel'.failed = panel.failed /\ panel'.clicks = panel.clicks
          /\ panel'.pending = panel.pending /\ panel'.draft = NoCommand
      BY <1>1 DEF Submit, IsPanel
    <1>4. Seen'
      BY <1>1, <1>2, <1>3 DEF Seen, Calm
    <1>5. Clicked'
      BY <1>1, <1>2, <1>3 DEF Clicked, Refers, Starting, Calm, IsPanel, NoCommand
    <1>6. QED BY <1>4, <1>5

\* The window is started again: what was clicked before is not waited for.
LEMMA RetryKeeps ==
    ASSUME WindowInv, GuiRetry
    PROVE  Seen' /\ Clicked'
    <1>1. /\ Seen /\ Clicked /\ IsFields(c) /\ panel.clicks \in Nat /\ panel.first \in Nat
          /\ command \in Commands
      BY DEF WindowInv, WindowTypes, IsPanel
    <1>2. /\ ~c.closing /\ where # "failed" /\ c'.closing = c.closing /\ c'.sequence = c.sequence
          /\ UNCHANGED <<status, doc, command>>
      BY <1>1, ReachesBody DEF GuiRetry, GuiExited, IsFields
    <1>3. CASE where' = "failed" /\ panel' = panel
      BY <1>2, <1>3, QuietKeeps DEF Quiet
    <1>4. CASE panel' = NewPanel(panel.clicks)
      <2>1. /\ panel'.first = panel.clicks /\ panel'.clicks = panel.clicks
            /\ panel'.draft = NoCommand /\ panel'.pending = 0 /\ ~panel'.polled /\ ~panel'.failed
        BY <1>1, <1>4, NewPanelIs
      <2>2. Seen'
        BY <1>1, <1>2, <2>1 DEF Seen, Calm
      <2>3. Clicked'
        BY <1>1, <1>2, <2>1 DEF Clicked, Starting, Calm, Commands, NoCommand
      <2>4. QED BY <2>2, <2>3
    <1>5. QED BY <1>3, <1>4 DEF GuiRetry

\* Every step leaves the window with what the coordinator is in, or was, and every click
\* but the newest dead.
LEMMA SeenKept ==
    ASSUME WindowInv, WindowNext
    PROVE  Seen' /\ Clicked'
    <1>1. Seen /\ Clicked
      BY DEF WindowInv, WindowTypes
    <1>2. CASE StopRequested \/ GuiEnds \/ SaveMistrusted \/ OperationFailed \/ OperationRaises \/
      StartedToClose \/ ShowFails \/ DiscardFails \/ PrepareFails \/ TailStops \/ Leave \/
      InspectFails \/ DrainStops \/ Drained \/ Raises \/ Finish
      BY <1>2, QuietSteps, QuietKeeps
    <1>3. CASE CommandStart \/ CommandCancel \/ CommandStop \/ StartCancelled \/ StopCompletes \/
      StartedToCancel \/ ShowMapping \/ ShowPreview \/ StartSave \/ SaveEnds
      BY <1>3, PublishingSteps, QuietKeeps, PublishingKeeps, ShowsKept
    <1>4. CASE GuiRetry
      BY <1>4, RetryKeeps
    <1>5. CASE Rejected \/ Accepted
      BY <1>5, AnsweringSteps
    <1>6. CASE Poll
      BY <1>6, PollKeeps
    <1>7. CASE Click
      BY <1>7, ClickKeeps
    <1>8. CASE Submit
      BY <1>8, SubmitKeeps
    <1>9. CASE Executor \/ SaveExits \/ WindowEnds \/ Signal \/ Terminated
      <2>1. UNCHANGED <<where, c, status, doc, command, panel>>
        BY <1>9 DEF CancelledBeforeStart, Executor, Loop, Main, PreflightFails, SaveExits, Signal,
           StartBegins, StartEnds, StopEnds, Terminated, Window, WindowEnds, windowVars
      <2>2. QED BY <1>1, <2>1 DEF Calm, Clicked, Dead, Refers, Seen, Starting
    <1>10. QED BY <1>2, <1>3, <1>4, <1>5, <1>6, <1>7, <1>8, <1>9 DEF WindowNext, Coordinator,
       Executor


\* The first state of run() satisfies the invariant.
LEMMA WindowStarts == WindowInit => WindowInv
    <1> SUFFICES ASSUME WindowInit PROVE WindowInv
      OBVIOUS
    <1>1. /\ c = [Fields EXCEPT !.sequence = 1, !.maps = {}] /\ 1 \in Sessions
          /\ task = [at |-> "preflight", op |-> "start_preview", id |-> 1, after |-> "none",
                     result |-> "none"]
      BY WindowAssumption DEF WindowInit, BeginStart, StartTask, Fields, Sessions
    <1>2. /\ IsFields(c) /\ c.active = None /\ c.pending_map = None /\ c.closing = FALSE
          /\ c.draining = FALSE /\ c.failed_operation = "none" /\ c.sequence = 1 /\ c.maps = {}
      BY <1>1 DEF Fields, IsFields, Numbers
    <1>3. IsDocument(Opening) /\ Opening.state = "OPENING" /\ Opening.active = None
      BY DEF Opening, IsDocument, Numbers
    <1>4. /\ IsPanel(panel) /\ panel.first = 0 /\ panel.clicks = 0 /\ panel.draft = NoCommand
          /\ panel.pending = 0 /\ ~panel.polled /\ ~panel.failed /\ NoCommand \in Commands
      BY NewPanelIs DEF WindowInit
    <1>5. WindowTypes
      <2>1. task \in Tasks
        BY <1>1 DEF Tasks, Numbers, StartOps
      <2>2. IsSaver(saver)
        BY DEF WindowInit, NoSaver, IsSaver, Numbers, Verdicts
      <2>3. QED BY <1>2, <1>3, <1>4, <2>1, <2>2 DEF WindowInit, WindowTypes, Places, Fates,
         Verdicts
    <1>6. Phases
      BY <1>2 DEF WindowInit, Phases
    <1>7. TaskFits
      BY <1>1, <1>2 DEF TaskFits, StartOps, StopOps
    <1>8. Devices
      BY <1>1 DEF WindowInit, Devices, Numbers
    <1>9. OneMap
      BY <1>2 DEF WindowInit, OneMap, NoSaver
    <1>10. Shows /\ CancelHeld
      BY <1>3 DEF WindowInit, Shows, CancelHeld, Opening, NoSaver
    <1>11. Seen
      BY <1>3, <1>4 DEF WindowInit, Seen
    <1>12. Clicked
      <2>1. command = NoCommand /\ doc = Opening /\ ~Starting(NoCommand)
        BY DEF WindowInit, Starting, NoCommand
      <2>2. NoCommand.nonce = 0 /\ NoCommand.generation = 0 /\ Opening.generation = 0
        BY DEF NoCommand, Opening
      <2>3. QED BY <1>4, <2>1, <2>2 DEF Clicked
    <1>13. Numbered /\ Room
      <2>1. Numbered
        BY <1>2, WindowAssumption DEF Numbered, None
      <2>2. Room
        <3>1. /\ task.op = "start_preview" /\ task.after = "none" /\ task.result = "none"
          BY <1>1
        <3>2. where = "stop"
          BY DEF WindowInit
        <3>3. QED BY <1>2, <3>1, <3>2 DEF Room
      <2>3. QED BY <2>1, <2>2
    <1>14. MapsTraced
      <2>1. saver.at = "none" /\ \A s \in Sessions : data[s] = "none"
        BY DEF WindowInit, NoSaver
      <2>2. QED BY <1>1, <1>2, <2>1 DEF MapsTraced
    <1>15. QED BY <1>5, <1>6, <1>7, <1>8, <1>9, <1>10, <1>11, <1>12, <1>13, <1>14 DEF WindowInv

\* Every step of the window preserves the invariant.
LEMMA WindowKeeps == WindowInv /\ [WindowNext]_windowVars => WindowInv'
    <1> SUFFICES ASSUME WindowInv, [WindowNext]_windowVars PROVE WindowInv'
      OBVIOUS
    <1>1. CASE WindowNext
      <2>1. WindowTypes'
        BY <1>1, PlacesTyped, FieldsTyped, TaskTyped, SaverTyped, OutcomesTyped, StatusTyped,
           PanelTyped DEF WindowTypes
      <2>2. QED BY <1>1, <2>1, PhasesKept, TaskFitsKept, DevicesKept, OneMapKept, ShowsKept,
         CancelHeldKept, SeenKept, NumberedKept, RoomKept, MapsTracedKept DEF WindowInv
    <1>2. CASE UNCHANGED windowVars
      BY <1>2 DEF windowVars, WindowInv, WindowTypes, Phases, TaskFits, Devices, OneMap, MapBusy,
         Shows, CancelHeld, Seen, Clicked, Numbered, Room, MapsTraced, Calm, Refers, Dead,
         Starting
    <1>3. QED BY <1>1, <1>2

\* The invariant holds in every state the window reaches.
LEMMA WindowInvariance == WindowSpec => []WindowInv
    <1>1. QED BY WindowStarts, WindowKeeps, PTL DEF WindowSpec

\* At most one element: running is a subset of a singleton.
LEMMA AtMostOne ==
    ASSUME NEW S, NEW x, S \subseteq {x}
    PROVE  Cardinality(S) <= 1
    <1>1. S = {} \/ S = {x}
      OBVIOUS
    <1>2. Cardinality({}) = 0 /\ Cardinality({x}) = 1
      BY FS_EmptySet, FS_Singleton
    <1>3. QED BY <1>1, <1>2

\* OneSession, for any number of sessions, clicks and failed writes: two sessions
\* never drive the devices at the same time.  InteractiveCoordinator starts the
\* next one only out of complete_operation() of a stop that closed normally.
THEOREM NeverTwoSessions == WindowSpec => []OneSession
    <1>1. WindowInv => OneSession
      BY AtMostOne DEF WindowInv, Devices, OneSession
    <1>2. QED BY <1>1, WindowInvariance, PTL

\* What a step does to the failed writes, and to the ways out of run().
Counts ==
    /\ faults' \in {faults, faults + 1}
    /\ c'.raised \/ where' = "raised" => c.raised \/ where = "raised" \/ faults' = faults + 1

\* Only a failed write leads out of run() without its result.
LEMMA FailuresCount ==
    ASSUME WindowInv, WindowNext
    PROVE  Counts
    <1>1. IsFields(c)
      BY DEF WindowInv, WindowTypes
    <1>2. CASE GuiRetry \/ OperationRaises \/ StartedToClose \/ ShowFails \/ DiscardFails
      \/ PrepareFails \/ TailStops \/ Leave \/ InspectFails \/ DrainStops \/ Drained \/ Raises
      BY <1>2, <1>1 DEF After, BeginStop, Counts, DiscardFails, DrainStops, Drained, GuiRetry,
         InspectFails, IsFields, Leave, OperationRaises, Owning, PrepareFails, Raises, Released,
         ShowFails, StartedToClose, TailStops
    <1>3. CASE Executor \/ SaveExits \/ Poll \/ Click \/ Submit \/ WindowEnds \/ Signal \/ Terminated
      BY <1>3 DEF CancelledBeforeStart, Click, Counts, Executor, Loop, Main, Poll, PreflightFails,
         SaveExits, Signal, StartBegins, StartEnds, StopEnds, Submit, Terminated, WindowEnds,
         windowVars
    <1>4. CASE StopRequested \/ GuiEnds \/ SaveMistrusted
      BY <1>4, <1>1 DEF Continue, Counts, GuiEnds, IsFields, Publish, RequestClose, SaveMistrusted,
         StopRequested
    <1>5. CASE Rejected \/ Accepted \/ CommandStart \/ CommandCancel \/ CommandStop
      BY <1>5, <1>1 DEF Accepted, BeginStop, CommandCancel, CommandStart, CommandStop, Continue,
         Counts, IsFields, Publish, Rejected
    <1>6. CASE StartedToCancel \/ ShowMapping \/ ShowPreview \/ StartSave
      BY <1>6, <1>1 DEF After, BeginStop, Continue, Counts, IsFields, Owning, Publish, ShowMapping,
         ShowPreview, StartSave, StartedToCancel
    <1>7. CASE StartCancelled
      BY <1>7, <1>1 DEF After, BeginStart, Continue, Counts, IsFields, Publish, RequestClose,
         StartCancelled
    <1>8. CASE StopCompletes
      BY <1>8, <1>1 DEF After, BeginStart, Continue, Counts, IsFields, Publish, Released,
         StopCompletes
    <1>9. CASE SaveEnds
      BY <1>9, <1>1 DEF AfterSave, Counts, IsFields, Publish, SaveEnds
    <1>10. CASE OperationFailed
      BY <1>10, <1>1 DEF Counts, IsFields, OperationFailed, Publish, RequestClose
    <1>11. CASE Finish
      BY <1>11, <1>1 DEF Counts, Finish, IsFields, Publish
    <1>12. QED BY <1>2, <1>3, <1>4, <1>5, <1>6, <1>7, <1>8, <1>9, <1>10, <1>11 DEF WindowNext,
       Coordinator, Executor

\* run() ends without its result only after a failed write of the status.
Faulted == faults \in Nat /\ (c.raised \/ where = "raised" => faults > 0)

\* Failed writes are what raises, in every state the window reaches.
LEMMA FaultsInvariance == WindowSpec => []Faulted
    <1>1. WindowInit => Faulted
      BY DEF WindowInit, BeginStart, Fields, Faulted
    <1>2. WindowInv /\ Faulted /\ [WindowNext]_windowVars => Faulted'
      <2> SUFFICES ASSUME WindowInv, Faulted, [WindowNext]_windowVars PROVE Faulted'
        OBVIOUS
      <2>1. CASE WindowNext
        BY <2>1, FailuresCount DEF Counts, Faulted
      <2>2. CASE UNCHANGED windowVars
        BY <2>2 DEF windowVars, Faulted
      <2>3. QED BY <2>1, <2>2
    <1>3. QED BY <1>1, <1>2, WindowInvariance, PTL DEF WindowSpec

\* NoMapLost, for any number of sessions, clicks and failed writes: a result
\* that run() returns has every map nobody decided about among the pending ones, and no
\* path of complete_operation(), start_save(), poll_save() or operation_failed()
\* discards one, whether run() ends with its result or with an exception.
THEOREM NoMapIsEverLost == WindowSpec => []NoMapLost
    <1>1. WindowInv /\ Faulted => NoMapLost
      <2> SUFFICES ASSUME WindowInv, Faulted PROVE NoMapLost
        OBVIOUS
      <2>1. MapsTraced /\ Phases /\ TaskFits /\ IsFields(c)
        BY DEF WindowInv, WindowTypes
      <2>2. ASSUME where = "done", NEW s \in c.maps, data[s] = "kept"
            PROVE  s \in Pending
        <3>1. c.active = None /\ saver.id = None /\ task = NoTask
          BY <2>1, <2>2 DEF Phases, TaskFits
        <3>2. s # None /\ s \in Sessions
          BY <2>1 DEF IsFields, Sessions, None
        <3>3. s = c.pending_map \/ results[s] \in {"SAVE_PENDING", "FAILED"}
          BY <2>1, <2>2, <3>1, <3>2 DEF MapsTraced, NoTask
        <3>4. QED BY <3>2, <3>3 DEF Pending
      <2>3. QED BY <2>1, <2>2 DEF NoMapLost, MapsTraced, Faulted
    <1>2. QED BY <1>1, WindowInvariance, FaultsInvariance, PTL

\* ShownIsConsistent, for any number of sessions, clicks and failed writes: a
\* cancelled start is never published as MAPPING, and the checks of Panel::poll()
\* never refuse a status of an open window.
THEOREM ShownIsAlwaysConsistent == WindowSpec => []ShownIsConsistent
    <1>1. WindowInv => ShownIsConsistent
      BY DEF WindowInv, CancelHeld, Seen, ShownIsConsistent
    <1>2. QED BY <1>1, WindowInvariance, PTL

\* Only receive() that accepts leads to command().
LEMMA OnlyAccepting ==
    ASSUME WindowInv, WindowNext, where # "command", where' = "command"
    PROVE  Accepted
    <1>1. CASE Executor \/ SaveExits \/ DrainStops \/ Poll \/ Click \/ Submit \/ WindowEnds \/
      Signal \/ Terminated
      BY <1>1 DEF CancelledBeforeStart, Click, DrainStops, Executor, Loop, Main, Poll,
         PreflightFails, SaveExits, Signal, StartBegins, StartEnds, StopEnds, Submit, Terminated,
         WindowEnds, windowVars
    <1>2. CASE StopRequested \/ GuiEnds \/ SaveMistrusted
      BY <1>2, CloserDoes
    <1>3. CASE OperationFailed
      BY <1>3, FailureDoes
    <1>4. CASE GuiRetry \/ Rejected \/ CommandStart \/ CommandCancel \/ CommandStop
      BY <1>4 DEF CommandCancel, CommandStart, CommandStop, Continue, GuiRetry, Rejected
    <1>5. CASE OperationRaises \/ StartCancelled \/ StartedToClose \/ StartedToCancel \/ ShowFails
      \/ ShowMapping \/ ShowPreview \/ StartSave \/ DiscardFails \/ StopCompletes \/ PrepareFails
      BY <1>5 DEF After, Continue, DiscardFails, OperationRaises, PrepareFails, ShowFails,
         ShowMapping, ShowPreview, StartCancelled, StartSave, StartedToCancel, StartedToClose,
         StopCompletes
    <1>6. CASE SaveEnds \/ TailStops \/ Leave \/ InspectFails \/ Drained \/ Raises \/ Finish
      BY <1>6 DEF AfterSave, Drained, Finish, Raises, InspectFails, Leave, SaveEnds, TailStops
    <1>7. QED BY <1>1, <1>2, <1>3, <1>4, <1>5, <1>6 DEF WindowNext, Coordinator, Executor

\* NoLateClick, for any number of sessions, clicks and failed writes: receive()
\* never accepts a command of this window that its Panel no longer waits for.
THEOREM NoClickComesLate == WindowSpec => NoLateClick
    <1> DEFINE Waited == where # "command" /\ where' = "command" /\ command.nonce > panel.first
                           => panel.pending = command.nonce
    <1>1. WindowInv /\ [WindowNext]_windowVars => [Waited]_windowVars
      <2> SUFFICES ASSUME WindowInv, WindowNext, where # "command", where' = "command",
                          command.nonce > panel.first
                   PROVE  panel.pending = command.nonce
        BY DEF windowVars
      <2>1. Clicked /\ IsDocument(status) /\ command \in Commands
        BY DEF WindowInv, WindowTypes
      <2>2. Accepted
        BY OnlyAccepting
      <2>3. Calm /\ command.nonce # status.ack /\ Acceptable(command)
        BY <2>2, ReachesBody DEF Accepted, NewCommand, Calm
      <2>4. ~Dead(command)
        BY <2>1, <2>3 DEF Dead, Acceptable, Commands
      <2>5. QED BY <2>1, <2>3, <2>4 DEF Clicked, Calm
    <1>2. QED BY <1>1, WindowInvariance, PTL DEF WindowSpec, NoLateClick

=============================================================================
