------------------------ MODULE CheckpointJournalProofs ------------------------
(***************************************************************************)
(* For any number of frames and of data workers: a manifest never names    *)
(* what a power failure could take, and a successful close leaves a final  *)
(* manifest of everything.                                                 *)
(***************************************************************************)
EXTENDS CheckpointJournal, TLAPS

Prefix == [frames : Nat, pairs : Nat, arts : Nat]
Certificate == [frames : Nat, pairs : Nat, arts : Nat, final : BOOLEAN]

\* What a prefix counts is on the disk.
Durable(p) == DataDurable(p) /\ NamesDurable(p) /\ EntriesDurable(p)

\* Types.
Typed ==
    /\ written \in [cdrs : Nat, rows : Nat, pairs : Nat, arts : Nat]
    /\ writer \in {"idle", "artifact", "row", "appended", "pair", "paired", "stopped", "failed"}
    /\ latest \in Prefix /\ prefix \in Prefix /\ committed \in Prefix
    /\ pc \in {"wait", "data", "record", "ended"} \cup Operations
    /\ begun \in BOOLEAN /\ final \in BOOLEAN /\ first \in BOOLEAN /\ failures \in BOOLEAN
    /\ closing \in BOOLEAN /\ cancelled \in BOOLEAN /\ error \in BOOLEAN /\ trouble \in BOOLEAN
    /\ disk \in [rows : Nat, pairs : Nat, cdrs : SUBSET Nat, arts : SUBSET Nat, names : Nat,
                 source : BOOLEAN, output : BOOLEAN, parent : BOOLEAN, entries : SUBSET Nat]
    /\ manifests \subseteq Certificate
    /\ owner \in {"open", "stopping", "joining", "report", "stopped", "failed"}

\* Nothing is captured or synchronized before it is written.
Exists(p) == p.frames <= written.rows /\ p.pairs <= written.pairs /\ p.arts <= written.arts
Within ==
    /\ written.rows <= written.cdrs
    /\ Exists(latest) /\ Exists(prefix)
    /\ disk.rows <= written.rows /\ disk.pairs <= written.pairs /\ disk.names <= written.cdrs

\* The previous checkpoint, from which the next one counts.
Based == (first => committed = NoPrefix) /\ (~first => Durable(committed))

\* While the workers run, what is not durable yet has a job.
Pending(j) == j \in jobs \cup active
Covered ==
    /\ prefix.frames <= disk.rows \/ Pending(IndexJob)
    /\ prefix.pairs <= disk.pairs \/ Pending(PairsJob)
    /\ \A n \in 1..prefix.frames : n \in disk.cdrs \/ Pending(CdrJob(n))
    /\ \A a \in 1..prefix.arts : a \in disk.arts \/ Pending(ArtifactJob(a))

\* The three barriers of a commit.
Barriers ==
    /\ pc = "data" /\ ~failures => Covered
    /\ pc \in Operations \cup {"record"} => DataDurable(prefix)
    /\ pc \in (Operations \ {"names"}) \cup {"record"} => NamesDurable(prefix)
    /\ pc \in {"manifest", "replace", "publish", "record"} => EntriesDurable(prefix)

\* Where the writer is with its frame.
Staged ==
    /\ writer \in {"idle", "artifact", "appended", "pair", "paired", "stopped"} =>
           written.rows = written.cdrs
    /\ writer = "row" => written.cdrs = written.rows + 1
    /\ writer \in {"idle", "stopped"} =>
           latest = [frames |-> written.cdrs, pairs |-> written.pairs, arts |-> written.arts]
    /\ writer = "pair" => latest.frames = written.cdrs /\ latest.pairs = written.pairs
                          /\ latest.arts = written.arts

\* The end of the session.
Ending ==
    /\ closing => writer \in {"stopped", "failed"}
    /\ final => closing /\ prefix = latest
    /\ pc = "record" => manifests = {Manifest}
    /\ pc = "ended" /\ ~error => final /\ manifests = {Manifest}
    /\ owner \in {"joining", "report", "stopped"} => closing /\ (~trouble => writer = "stopped")
    /\ owner \in {"report", "stopped"} => pc = "ended" /\ (~trouble => ~error)
    /\ owner = "stopped" => ~trouble

KInv == Typed /\ Within /\ Based /\ Barriers /\ Staged /\ CheckpointIsDurable /\ Ending

-----------------------------------------------------------------------------
\* What is durable stays durable: the disk only gains.
Gains ==
    /\ disk.rows <= disk'.rows /\ disk.pairs <= disk'.pairs /\ disk.names <= disk'.names
    /\ disk.cdrs \subseteq disk'.cdrs /\ disk.arts \subseteq disk'.arts
    /\ disk.entries \subseteq disk'.entries
    /\ (disk.source => disk'.source) /\ (disk.output => disk'.output)
    /\ (disk.parent => disk'.parent)
    /\ disk' \in [rows : Nat, pairs : Nat, cdrs : SUBSET Nat, arts : SUBSET Nat, names : Nat,
                  source : BOOLEAN, output : BOOLEAN, parent : BOOLEAN, entries : SUBSET Nat]

\* Durability of a prefix survives a step of the disk.
DataDurableIn(d, p) ==
    /\ p.frames <= d.rows /\ p.pairs <= d.pairs
    /\ 1..p.frames \subseteq d.cdrs /\ 1..p.arts \subseteq d.arts
NamesDurableIn(d, p) == p.frames <= d.names /\ d.source
EntriesDurableIn(d, p) == d.output /\ d.parent /\ 1..p.arts \subseteq d.entries

\* A prefix that was durable before the disk gained is durable afterwards.
LEMMA DurableStays ==
    ASSUME Typed, Gains, NEW p, p.frames \in Nat, p.pairs \in Nat, p.arts \in Nat
    PROVE  /\ DataDurable(p) => DataDurableIn(disk', p)
           /\ NamesDurable(p) => NamesDurableIn(disk', p)
           /\ EntriesDurable(p) => EntriesDurableIn(disk', p)
<1>1. DataDurable(p) => DataDurableIn(disk', p)
  BY DEF Typed, Gains, DataDurable, DataDurableIn
<1>2. NamesDurable(p) => NamesDurableIn(disk', p)
  BY DEF Typed, Gains, NamesDurable, NamesDurableIn
<1>3. EntriesDurable(p) => EntriesDurableIn(disk', p)
  BY DEF Typed, Gains, EntriesDurable, EntriesDurableIn
<1> QED BY <1>1, <1>2, <1>3

\* Init establishes the invariant.
LEMMA KInit == Init => KInv
<1> SUFFICES ASSUME Init PROVE KInv OBVIOUS
<1>1. Typed BY DEF Init, Typed, NoPrefix, Prefix, Operations
<1>2. Within /\ Based /\ Staged BY DEF Init, Within, Exists, NoPrefix, Based, Staged
<1>3. Barriers /\ CheckpointIsDurable BY DEF Init, Barriers, Operations, CheckpointIsDurable
<1>4. Ending BY DEF Init, Ending
<1> QED BY <1>1, <1>2, <1>3, <1>4 DEF KInv

-----------------------------------------------------------------------------
\* The writer's steps leave the disk and the commit alone, and only add.
WriterStep ==
    Bootstrap \/ WriteCdr \/ WriteRow \/ WritePair \/ Capture \/ WriterFails \/ WriterStops

\* A step of the writer preserves the invariant.
LEMMA WriterKeeps == KInv /\ WriterStep => KInv'
<1> SUFFICES ASSUME KInv, WriterStep PROVE KInv' OBVIOUS
<1>u. UNCHANGED <<commit, data, durable, control>>
  BY DEF WriterStep, Bootstrap, WriteCdr, WriteRow, WritePair, Capture, WriterFails, WriterStops
<1>t. Typed /\ Within /\ Staged BY DEF KInv
<1>g. Typed' /\ Within' /\ Staged'
  <2>1. CASE Bootstrap
    BY <1>u, <1>t, <2>1 DEF Bootstrap, Typed, Within, Exists, Staged, Prefix, commit, data, durable,
       control, Artifacts
  <2>2. CASE WriteCdr
    BY <1>u, <1>t, <2>2 DEF WriteCdr, Typed, Within, Exists, Staged, Prefix, commit, data, durable,
       control
  <2>3. CASE WriteRow
    BY <1>u, <1>t, <2>3 DEF WriteRow, Typed, Within, Exists, Staged, Prefix, commit, data, durable,
       control
  <2>4. CASE WritePair
    BY <1>u, <1>t, <2>4 DEF WritePair, Typed, Within, Exists, Staged, Prefix, commit, data, durable,
       control
  <2>5. CASE Capture
    BY <1>u, <1>t, <2>5 DEF Capture, Typed, Within, Exists, Staged, Prefix, commit, data, durable,
       control
  <2>6. CASE WriterFails \/ WriterStops
    BY <1>u, <1>t, <2>6 DEF WriterFails, WriterStops, Typed, Within, Exists, Staged, Prefix, commit,
       data, durable, control
  <2> QED BY <2>1, <2>2, <2>3, <2>4, <2>5, <2>6 DEF WriterStep
<1>d. Based' /\ Barriers' /\ CheckpointIsDurable'
  BY <1>u DEF KInv, Based, Barriers, Covered, Pending, CheckpointIsDurable, Durable, DataDurable,
     NamesDurable, EntriesDurable, commit, data, durable
<1>e. Ending'
  <2>1. writer \notin {"stopped", "failed"}
    BY DEF WriterStep, Bootstrap, WriteCdr, WriteRow, WritePair, Capture, WriterFails, WriterStops
  <2>2. ~closing /\ ~final BY <2>1 DEF KInv, Ending
  <2>3. Manifest' = Manifest BY <1>u DEF Manifest, commit
  <2> QED BY <1>u, <2>1, <2>2, <2>3 DEF KInv, Ending, commit, control, durable
<1> QED BY <1>g, <1>d, <1>e DEF KInv

-----------------------------------------------------------------------------
\* The owner only tells the coordinator to end or to give up.
OwnerStep == Close \/ WriterJoined \/ WriterTimeout \/ Joined \/ JoinTimeout \/ Report

\* A step of the owner preserves the invariant.
LEMMA OwnerKeeps == KInv /\ OwnerStep => KInv'
<1> SUFFICES ASSUME KInv, OwnerStep PROVE KInv' OBVIOUS
<1>u. UNCHANGED <<archive, commit, data, durable>>
  BY DEF OwnerStep, Close, WriterJoined, WriterTimeout, Joined, JoinTimeout, Report
<1>d. Within' /\ Based' /\ Barriers' /\ Staged' /\ CheckpointIsDurable'
  BY <1>u DEF KInv, Within, Exists, Staged, Based, Barriers, Covered, Pending, CheckpointIsDurable,
     Durable, DataDurable, NamesDurable, EntriesDurable, archive, commit, data, durable
<1>t. Typed'
  <2>1. UNCHANGED <<written, writer, latest, pc, begun, prefix, final, first, committed, failures,
                    disk, manifests>>
    BY <1>u DEF archive, commit, data, durable
  <2>2. /\ closing' \in BOOLEAN /\ cancelled' \in BOOLEAN /\ error' \in BOOLEAN
        /\ trouble' \in BOOLEAN
        /\ owner' \in {"open", "stopping", "joining", "report", "stopped", "failed"}
    <3>1. Typed BY DEF KInv
    <3>2. CASE Close BY <3>1, <3>2 DEF Close, Typed
    <3>3. CASE WriterJoined BY <3>1, <3>3, Zenon DEF WriterJoined, Typed
    <3>4. CASE WriterTimeout BY <3>1, <3>4, Zenon DEF WriterTimeout, Typed
    <3>5. CASE Joined BY <3>1, <3>5, Zenon DEF Joined, Typed
    <3>6. CASE JoinTimeout BY <3>1, <3>6, Zenon DEF JoinTimeout, Typed
    <3>7. CASE Report BY <3>1, <3>7, Zenon DEF Report, Typed
    <3> QED BY <3>2, <3>3, <3>4, <3>5, <3>6, <3>7 DEF OwnerStep
  <2> QED BY <2>1, <2>2 DEF KInv, Typed
<1>e. Ending'
  <2>1. UNCHANGED <<writer, pc, final, prefix, latest, manifests>> /\ Manifest' = Manifest
    BY <1>u DEF archive, commit, durable, Manifest
  <2>2. Typed /\ Ending BY DEF KInv
  <2>3. CASE Close BY <2>1, <2>2, <2>3 DEF Close, Typed, Ending
  <2>4. CASE WriterJoined BY <2>1, <2>2, <2>4 DEF WriterJoined, Typed, Ending
  <2>5. CASE WriterTimeout BY <2>1, <2>2, <2>5 DEF WriterTimeout, Typed, Ending
  <2>6. CASE Joined BY <2>1, <2>2, <2>6 DEF Joined, Typed, Ending
  <2>7. CASE JoinTimeout BY <2>1, <2>2, <2>7 DEF JoinTimeout, Typed, Ending
  <2>8. CASE Report BY <2>1, <2>2, <2>8 DEF Report, Typed, Ending
  <2> QED BY <2>3, <2>4, <2>5, <2>6, <2>7, <2>8 DEF OwnerStep
<1> QED BY <1>d, <1>t, <1>e DEF KInv

-----------------------------------------------------------------------------
\* The coordinator's steps that leave the disk alone.

\* Every prefix that is spoken of stays durable when the disk gains.
LEMMA KnownStaysDurable ==
    ASSUME Typed, Based, CheckpointIsDurable, Gains, first' = first, committed' = committed,
           manifests' = manifests
    PROVE  Based' /\ CheckpointIsDurable'
<1>1. Based'
  <2>1. committed.frames \in Nat /\ committed.pairs \in Nat /\ committed.arts \in Nat
    BY DEF Typed, Prefix
  <2>2. ~first => /\ DataDurableIn(disk', committed) /\ NamesDurableIn(disk', committed)
                  /\ EntriesDurableIn(disk', committed)
    BY <2>1, DurableStays DEF Based, Durable
  <2> QED BY <2>2 DEF Based, Durable, DataDurable, NamesDurable, EntriesDurable, DataDurableIn,
             NamesDurableIn, EntriesDurableIn
<1>2. CheckpointIsDurable'
  <2> SUFFICES ASSUME NEW m \in manifests
               PROVE  /\ DataDurableIn(disk', m) /\ NamesDurableIn(disk', m)
                      /\ EntriesDurableIn(disk', m)
    BY DEF CheckpointIsDurable, DataDurable, NamesDurable, EntriesDurable, DataDurableIn,
       NamesDurableIn, EntriesDurableIn
  <2>1. m.frames \in Nat /\ m.pairs \in Nat /\ m.arts \in Nat BY DEF Typed, Certificate
  <2> QED BY <2>1, DurableStays DEF CheckpointIsDurable
<1> QED BY <1>1, <1>2

\* The jobs of a new commit cover what the last one does not.
LEMMA TickKeeps == KInv /\ Tick => KInv'
<1> SUFFICES ASSUME KInv, Tick PROVE KInv' OBVIOUS
<1>1. CASE UNCHANGED vars
  BY <1>1 DEF KInv, Typed, Within, Exists, Staged, Based, Barriers, Covered, Pending,
     CheckpointIsDurable, Durable, DataDurable, NamesDurable, EntriesDurable, Ending, Manifest,
     vars, archive, commit, data, durable, control
<1>2. CASE ~UNCHANGED vars
  <2>u. /\ pc = "wait" /\ prefix' = latest /\ final' = closing /\ jobs' = DataJobs(latest)
        /\ pc' = "data"
        /\ UNCHANGED <<archive, begun, first, committed, active, failures, durable, control>>
    BY <1>2 DEF Tick
  <2>v. UNCHANGED <<written, writer, latest, disk, manifests, closing, cancelled, error, owner,
                    trouble>>
    BY <2>u DEF archive, durable, control
  <2>1. Typed' BY <2>u, <2>v DEF KInv, Typed
  <2>2. Within' /\ Staged' BY <2>u, <2>v DEF KInv, Within, Exists, Staged
  <2>3. Based' /\ CheckpointIsDurable'
    BY <2>u, <2>v DEF KInv, Based, CheckpointIsDurable, Durable, DataDurable, NamesDurable,
       EntriesDurable
  <2>4. Covered'
    <3>t. Typed /\ Based BY DEF KInv
    <3>1. latest.frames <= disk.rows \/ IndexJob \in DataJobs(latest)
      BY <3>t DEF Typed, Prefix, Based, NoPrefix, Durable, DataDurable, DataJobs
    <3>2. latest.pairs <= disk.pairs \/ PairsJob \in DataJobs(latest)
      BY <3>t DEF Typed, Prefix, Based, NoPrefix, Durable, DataDurable, DataJobs
    <3>3. ASSUME NEW n \in 1..latest.frames PROVE n \in disk.cdrs \/ CdrJob(n) \in DataJobs(latest)
      <4>1. CASE n <= committed.frames
        BY <4>1, <3>t DEF Typed, Prefix, Based, NoPrefix, Durable, DataDurable
      <4>2. CASE ~(n <= committed.frames)
        <5>1. n \in (committed.frames + 1)..latest.frames BY <4>2, <3>t DEF Typed, Prefix
        <5> QED BY <5>1 DEF DataJobs
      <4> QED BY <4>1, <4>2
    <3>4. ASSUME NEW a \in 1..latest.arts
          PROVE  a \in disk.arts \/ ArtifactJob(a) \in DataJobs(latest)
      <4>1. CASE a <= committed.arts
        BY <4>1, <3>t DEF Typed, Prefix, Based, NoPrefix, Durable, DataDurable
      <4>2. CASE ~(a <= committed.arts)
        <5>1. a \in (committed.arts + 1)..latest.arts BY <4>2, <3>t DEF Typed, Prefix
        <5> QED BY <5>1 DEF DataJobs
      <4> QED BY <4>1, <4>2
    <3> HIDE DEF DataJobs
    <3> QED BY <2>u, <2>v, <3>1, <3>2, <3>3, <3>4 DEF Covered, Pending, IndexJob, PairsJob, CdrJob,
               ArtifactJob
  <2>5. Barriers' BY <2>4, <2>u DEF Barriers, Operations
  <2>6. Ending' BY <2>u, <2>v DEF KInv, Ending
  <2> QED BY <2>1, <2>2, <2>3, <2>5, <2>6 DEF KInv
<1> QED BY <1>1, <1>2

\* The steps between the barriers.
LEMMA BetweenKeeps ==
    ASSUME KInv,
           (\E j \in jobs : Dispatch(j)) \/ (\E j \in active : SyncFails(j)) \/ DataDone
           \/ DataFails \/ Begin \/ OperationFails \/ RecordFails \/ WriteManifest
    PROVE  KInv'
<1>u. UNCHANGED <<archive, prefix, final, first, committed, durable>>
      /\ UNCHANGED <<closing, cancelled, owner, trouble>>
  BY DEF Dispatch, SyncFails, DataDone, DataFails, Ends, Begin, OperationFails, RecordFails,
     WriteManifest, Completes, commit, control
<1>v. UNCHANGED <<written, writer, latest, prefix, final, first, committed, disk, manifests, closing,
                  cancelled, owner, trouble>>
  BY <1>u DEF archive, durable
<1>t. Typed /\ Barriers /\ Ending BY DEF KInv
<1>d. Within' /\ Based' /\ Staged' /\ CheckpointIsDurable'
  BY <1>v DEF KInv, Within, Exists, Staged, Based, CheckpointIsDurable, Durable, DataDurable,
     NamesDurable, EntriesDurable
<1>m. Manifest' = Manifest BY <1>v DEF Manifest
<1>1. CASE \E j \in jobs : Dispatch(j)
  <2> PICK j \in jobs : Dispatch(j) BY <1>1
  <2>1. UNCHANGED <<pc, begun, failures, error>> BY DEF Dispatch, commit, control
  <2>2. jobs' \cup active' = jobs \cup active BY DEF Dispatch
  <2>3. Typed' BY <1>t, <1>v, <2>1 DEF Typed
  <2>4. Barriers'
    BY <1>t, <1>v, <2>1, <2>2 DEF Barriers, Covered, Pending, DataDurable, NamesDurable, EntriesDurable
  <2>5. Ending' BY <1>t, <1>v, <1>m, <2>1 DEF Ending
  <2> QED BY <1>d, <2>3, <2>4, <2>5 DEF KInv
<1>2. CASE \E j \in active : SyncFails(j)
  <2> PICK j \in active : SyncFails(j) BY <1>2
  <2>1. UNCHANGED <<pc, begun, error>> /\ failures' = TRUE BY DEF SyncFails, commit, control
  <2>3. Typed'
    <3>1. failures' \in BOOLEAN BY <2>1, Zenon
    <3> QED BY <1>t, <1>v, <2>1, <3>1 DEF Typed
  <2>4. Barriers'
    BY <1>t, <1>v, <2>1 DEF Barriers, DataDurable, NamesDurable, EntriesDurable
  <2>5. Ending' BY <1>t, <1>v, <1>m, <2>1 DEF Ending
  <2> QED BY <1>d, <2>3, <2>4, <2>5 DEF KInv
<1>3. CASE DataDone
  <2>1. /\ pc = "data" /\ pc' = "names" /\ UNCHANGED <<begun, failures, error>>
        /\ jobs = {} /\ active = {} /\ ~failures
    BY <1>3 DEF DataDone, data, control
  <2>3. Typed' BY <1>t, <1>v, <2>1 DEF Typed, Operations
  <2>4. Barriers'
    <3>1. DataDurable(prefix) BY <1>t, <2>1 DEF Barriers, Covered, Pending, DataDurable
    <3> QED BY <3>1, <1>v, <2>1 DEF Barriers, DataDurable, Operations
  <2>5. Ending' BY <1>t, <1>v, <1>m, <2>1 DEF Ending
  <2> QED BY <1>d, <2>3, <2>4, <2>5 DEF KInv
<1>4. CASE DataFails \/ OperationFails \/ RecordFails
  <2>1. pc # "ended" /\ pc' = "ended" /\ begun' = FALSE /\ error' = TRUE /\ failures' = failures
    BY <1>4 DEF DataFails, OperationFails, RecordFails, Ends, data, Operations
  <2>3. Typed'
    <3>1. begun' \in BOOLEAN /\ error' \in BOOLEAN BY <2>1, Zenon
    <3> QED BY <1>t, <1>v, <2>1, <3>1 DEF Typed
  <2>4. Barriers' BY <2>1 DEF Barriers, Operations
  <2>5. Ending' BY <1>t, <1>v, <1>m, <2>1 DEF Ending
  <2> QED BY <1>d, <2>3, <2>4, <2>5 DEF KInv
<1>5. CASE Begin
  <2>1. UNCHANGED <<pc, failures, error>> /\ pc # "data" /\ begun' = TRUE
    BY <1>5 DEF Begin, data, control, Operations
  <2>3. Typed'
    <3>1. begun' \in BOOLEAN BY <2>1, Zenon
    <3> QED BY <1>t, <1>v, <2>1, <3>1 DEF Typed
  <2>4. Barriers' BY <1>t, <1>v, <2>1 DEF Barriers, DataDurable, NamesDurable, EntriesDurable
  <2>5. Ending' BY <1>t, <1>v, <1>m, <2>1 DEF Ending
  <2> QED BY <1>d, <2>3, <2>4, <2>5 DEF KInv
<1>6. CASE WriteManifest
  <2>1. pc = "manifest" /\ pc' = "replace" /\ begun' = FALSE /\ UNCHANGED <<failures, error>>
    BY <1>6 DEF WriteManifest, Completes, data, control
  <2>3. Typed'
    <3>1. begun' \in BOOLEAN BY <2>1, Zenon
    <3> QED BY <1>t, <1>v, <2>1, <3>1 DEF Typed, Operations
  <2>4. Barriers'
    BY <1>t, <1>v, <2>1 DEF Barriers, DataDurable, NamesDurable, EntriesDurable, Operations
  <2>5. Ending' BY <1>t, <1>v, <1>m, <2>1 DEF Ending
  <2> QED BY <1>d, <2>3, <2>4, <2>5 DEF KInv
<1> QED BY <1>1, <1>2, <1>3, <1>4, <1>5, <1>6

-----------------------------------------------------------------------------
\* The coordinator's steps that make something durable.

Disk == [rows : Nat, pairs : Nat, cdrs : SUBSET Nat, arts : SUBSET Nat, names : Nat,
         source : BOOLEAN, output : BOOLEAN, parent : BOOLEAN, entries : SUBSET Nat]

\* A worker's fsync.
LEMMA SyncedKeeps == ASSUME KInv, NEW j \in active, Synced(j) PROVE KInv'
<1>u. UNCHANGED <<written, writer, latest, pc, begun, prefix, final, first, committed, jobs,
                  failures, manifests, closing, cancelled, error, owner, trouble>>
  BY DEF Synced, archive, commit, control
<1>t. Typed /\ Within BY DEF KInv
<1>w. /\ written.rows \in Nat /\ written.pairs \in Nat /\ written.arts \in Nat
      /\ written.cdrs \in Nat
  BY <1>t DEF Typed
<1> DEFINE A == disk.arts \cup {a \in 1..written.arts : j = ArtifactJob(a)}
           C == disk.cdrs \cup {n \in 1..written.cdrs : j = CdrJob(n)}
           R == IF j = IndexJob THEN written.rows ELSE disk.rows
           P == IF j = PairsJob THEN written.pairs ELSE disk.pairs
<1>k. disk \in Disk BY <1>t DEF Typed, Disk
<1>s. disk' = [disk EXCEPT !.rows = R, !.pairs = P, !.arts = A, !.cdrs = C]
  BY DEF Synced
<1>c. /\ A \in SUBSET Nat /\ C \in SUBSET Nat /\ R \in Nat /\ P \in Nat
      /\ disk.rows <= R /\ disk.pairs <= P /\ R <= written.rows /\ P <= written.pairs
      /\ disk.arts \subseteq A /\ disk.cdrs \subseteq C
  <2>1. A \in SUBSET Nat /\ C \in SUBSET Nat BY <1>k, <1>w DEF Disk
  <2>2. R \in Nat /\ P \in Nat /\ disk.rows <= R /\ disk.pairs <= P /\ R <= written.rows
        /\ P <= written.pairs
    BY <1>k, <1>w, <1>t DEF Disk, Within
  <2> QED BY <2>1, <2>2
<1>x. /\ j = IndexJob => R = written.rows
      /\ j = PairsJob => P = written.pairs
      /\ \A a \in 1..written.arts : j = ArtifactJob(a) => a \in A
      /\ \A n \in 1..written.cdrs : j = CdrJob(n) => n \in C
  OBVIOUS
<1> HIDE DEF A, C, R, P
<1>f. /\ disk' \in Disk /\ disk'.rows = R /\ disk'.pairs = P /\ disk'.arts = A /\ disk'.cdrs = C
      /\ disk'.names = disk.names /\ disk'.source = disk.source /\ disk'.output = disk.output
      /\ disk'.parent = disk.parent /\ disk'.entries = disk.entries
  BY <1>s, <1>k, <1>c DEF Disk
<1>g. Gains BY <1>f, <1>c, <1>k DEF Gains, Disk
<1>1. Typed' BY <1>t, <1>u, <1>f DEF Typed, Disk
<1>2. Within' /\ Staged' BY <1>u, <1>f, <1>c DEF KInv, Within, Exists, Staged
<1>3. Based' /\ CheckpointIsDurable' BY <1>u, <1>g, KnownStaysDurable DEF KInv
<1>4. Barriers'
  <2>p. /\ prefix.frames \in Nat /\ prefix.pairs \in Nat /\ prefix.arts \in Nat
        /\ prefix.frames <= written.rows /\ prefix.frames <= written.cdrs
        /\ prefix.pairs <= written.pairs /\ prefix.arts <= written.arts
    BY <1>t DEF Typed, Prefix, Within, Exists
  <2>1. pc = "data" /\ ~failures => Covered'
    <3> SUFFICES ASSUME Covered PROVE Covered' BY DEF KInv, Barriers
    <3>a. active' = active \ {j} /\ jobs' = jobs BY DEF Synced
    <3>1. (prefix.frames <= disk.rows \/ Pending(IndexJob))'
      BY <3>a, <1>u, <1>f, <1>c, <1>x, <2>p, <1>w, <1>k DEF Covered, Pending, Disk, IndexJob
    <3>2. (prefix.pairs <= disk.pairs \/ Pending(PairsJob))'
      BY <3>a, <1>u, <1>f, <1>c, <1>x, <2>p, <1>w, <1>k DEF Covered, Pending, Disk, PairsJob
    <3>3. ASSUME NEW n \in 1..prefix.frames PROVE n \in C \/ CdrJob(n) \in jobs' \cup active'
      <4>1. n \in 1..written.cdrs BY <2>p, <1>w
      <4> QED BY <4>1, <3>a, <1>c, <1>x DEF Covered, Pending
    <3>4. ASSUME NEW a \in 1..prefix.arts PROVE a \in A \/ ArtifactJob(a) \in jobs' \cup active'
      <4>1. a \in 1..written.arts BY <2>p, <1>w
      <4> QED BY <4>1, <3>a, <1>c, <1>x DEF Covered, Pending
    <3> QED BY <3>1, <3>2, <3>3, <3>4, <1>u, <1>f DEF Covered, Pending, CdrJob, ArtifactJob
  <2>2. /\ DataDurable(prefix) => DataDurableIn(disk', prefix)
        /\ NamesDurable(prefix) => NamesDurableIn(disk', prefix)
        /\ EntriesDurable(prefix) => EntriesDurableIn(disk', prefix)
    BY <1>t, <1>g, <2>p, DurableStays
  <2> QED BY <2>1, <2>2, <1>u DEF KInv, Barriers, DataDurable, NamesDurable, EntriesDurable,
             DataDurableIn, NamesDurableIn, EntriesDurableIn
<1>5. Ending' BY <1>u DEF KInv, Ending, Manifest
<1> QED BY <1>1, <1>2, <1>3, <1>4, <1>5 DEF KInv

\* The directories of the frames.
LEMMA NamesKeep == KInv /\ SyncNames => KInv'
<1> SUFFICES ASSUME KInv, SyncNames PROVE KInv' OBVIOUS
<1>u. /\ UNCHANGED <<written, writer, latest, prefix, final, first, committed, jobs, active,
                     failures, manifests, closing, cancelled, error, owner, trouble>>
      /\ pc = "names" /\ pc' = "entries" /\ begun' = FALSE
  BY DEF SyncNames, Completes, archive, data, control
<1>t. Typed /\ Within /\ Based BY DEF KInv
<1> DEFINE M == IF first \/ prefix.frames # committed.frames THEN written.cdrs ELSE disk.names
           S == disk.source \/ first
<1>k. disk \in Disk BY <1>t DEF Typed, Disk
<1>s. disk' = [disk EXCEPT !.names = M, !.source = S] BY DEF SyncNames
<1>c. /\ M \in Nat /\ disk.names <= M /\ M <= written.cdrs /\ prefix.frames <= M
      /\ S \in BOOLEAN /\ (disk.source => S) /\ S
  <2>1. M \in Nat /\ disk.names <= M /\ M <= written.cdrs BY <1>k, <1>t DEF Disk, Within, Typed
  <2>2. prefix.frames <= M
    BY <1>k, <1>t DEF Disk, Within, Exists, Typed, Prefix, Based, Durable, NamesDurable
  <2>3. S BY <1>t, Zenon DEF Based, Durable, NamesDurable
  <2>4. S \in BOOLEAN BY Zenon
  <2> QED BY <2>1, <2>2, <2>3, <2>4
<1> HIDE DEF M, S
<1>f. /\ disk' \in Disk /\ disk'.rows = disk.rows /\ disk'.pairs = disk.pairs
      /\ disk'.arts = disk.arts /\ disk'.cdrs = disk.cdrs /\ disk'.names = M /\ disk'.source = S
      /\ disk'.output = disk.output /\ disk'.parent = disk.parent /\ disk'.entries = disk.entries
  BY <1>s, <1>k, <1>c DEF Disk
<1>g. Gains BY <1>f, <1>c, <1>k DEF Gains, Disk
<1>b. begun' \in BOOLEAN BY <1>u, Zenon
<1>1. Typed' BY <1>t, <1>u, <1>f, <1>b DEF Typed, Disk, Operations
<1>2. Within' /\ Staged' BY <1>u, <1>f, <1>c DEF KInv, Within, Exists, Staged
<1>3. Based' /\ CheckpointIsDurable' BY <1>u, <1>g, KnownStaysDurable DEF KInv
<1>4. Barriers'
  BY <1>u, <1>f, <1>c DEF KInv, Barriers, DataDurable, NamesDurable, Operations
<1>5. Ending' BY <1>u DEF KInv, Ending
<1> QED BY <1>1, <1>2, <1>3, <1>4, <1>5 DEF KInv

\* The directories of the artifacts and of the session.
LEMMA EntriesKeep == KInv /\ SyncEntries => KInv'
<1> SUFFICES ASSUME KInv, SyncEntries PROVE KInv' OBVIOUS
<1>u. /\ UNCHANGED <<written, writer, latest, prefix, final, first, committed, jobs, active,
                     failures, manifests, closing, cancelled, error, owner, trouble>>
      /\ pc = "entries" /\ pc' = "manifest" /\ begun' = FALSE
  BY DEF SyncEntries, Completes, archive, data, control
<1>t. Typed /\ Within /\ Based BY DEF KInv
<1> DEFINE O == disk.output \/ "output" \in Namespaces
           Q == disk.parent \/ "parent" \in Namespaces
           X == disk.entries \cup {a \in 1..written.arts : ParentOf(a) \in Namespaces}
<1>k. disk \in Disk BY <1>t DEF Typed, Disk
<1>s. disk' = [disk EXCEPT !.output = O, !.parent = Q, !.entries = X] BY DEF SyncEntries
<1>c. /\ O \in BOOLEAN /\ Q \in BOOLEAN /\ X \in SUBSET Nat
      /\ disk.entries \subseteq X /\ (disk.output => O) /\ (disk.parent => Q)
      /\ O /\ Q /\ 1..prefix.arts \subseteq X
  <2>1. O \in BOOLEAN /\ Q \in BOOLEAN BY Zenon
  <2>2. X \in SUBSET Nat /\ disk.entries \subseteq X BY <1>k, <1>t DEF Disk, Typed
  <2>3. first => "output" \in Namespaces /\ "parent" \in Namespaces BY Zenon DEF Namespaces
  <2>4. O /\ Q BY <2>3, <1>t, Zenon DEF Based, Durable, EntriesDurable
  <2>5. ASSUME NEW a \in 1..prefix.arts PROVE a \in X
    <3>1. CASE a <= committed.arts
      BY <3>1, <1>t DEF Typed, Prefix, Based, NoPrefix, Durable, EntriesDurable
    <3>2. CASE ~(a <= committed.arts)
      <4>1. a \in (committed.arts + 1)..prefix.arts BY <3>2, <1>t DEF Typed, Prefix
      <4>2. ParentOf(a) \in Namespaces BY <4>1, Zenon DEF Namespaces
      <4>3. a \in 1..written.arts BY <1>t DEF Typed, Prefix, Within, Exists
      <4> QED BY <4>2, <4>3
    <3> QED BY <3>1, <3>2
  <2> QED BY <2>1, <2>2, <2>4, <2>5
<1> HIDE DEF O, Q, X
<1>f. /\ disk' \in Disk /\ disk'.rows = disk.rows /\ disk'.pairs = disk.pairs
      /\ disk'.arts = disk.arts /\ disk'.cdrs = disk.cdrs /\ disk'.names = disk.names
      /\ disk'.source = disk.source /\ disk'.output = O /\ disk'.parent = Q /\ disk'.entries = X
  BY <1>s, <1>k, <1>c DEF Disk
<1>g. Gains BY <1>f, <1>c, <1>k DEF Gains, Disk
<1>b. begun' \in BOOLEAN BY <1>u, Zenon
<1>1. Typed' BY <1>t, <1>u, <1>f, <1>b DEF Typed, Disk, Operations
<1>2. Within' /\ Staged' BY <1>u, <1>f, <1>c DEF KInv, Within, Exists, Staged
<1>3. Based' /\ CheckpointIsDurable' BY <1>u, <1>g, KnownStaysDurable DEF KInv
<1>4. Barriers'
  BY <1>u, <1>f, <1>c DEF KInv, Barriers, DataDurable, NamesDurable, EntriesDurable, Operations
<1>5. Ending' BY <1>u DEF KInv, Ending
<1> QED BY <1>1, <1>2, <1>3, <1>4, <1>5 DEF KInv

-----------------------------------------------------------------------------
\* The manifest is replaced, made durable and recorded.
LEMMA PublicationKeeps == KInv /\ (Replace \/ Publish \/ Record) => KInv'
<1> SUFFICES ASSUME KInv, Replace \/ Publish \/ Record PROVE KInv' OBVIOUS
<1>u. UNCHANGED <<written, writer, latest, prefix, final, jobs, active, failures, disk, closing,
                  cancelled, error, owner, trouble>>
  BY DEF Replace, Publish, Record, Completes, archive, data, durable, control
<1>t. Typed /\ Barriers /\ Ending BY DEF KInv
<1>m. Manifest' = Manifest BY <1>u DEF Manifest
<1>w. Within' /\ Staged' BY <1>u DEF KInv, Within, Exists, Staged
<1>n. pc \in {"replace", "publish", "record"}
  BY DEF Replace, Publish, Record, Completes
<1>d. Durable(prefix) BY <1>n, <1>t DEF Barriers, Operations, Durable
<1>e. Durable(Manifest) BY <1>d DEF Durable, DataDurable, NamesDurable, EntriesDurable, Manifest
<1>c. Manifest \in Certificate BY <1>t DEF Typed, Prefix, Certificate, Manifest
<1>1. CASE Replace \/ Publish
  <2>1. /\ UNCHANGED <<first, committed>> /\ begun' = FALSE
        /\ manifests' \subseteq manifests \cup {Manifest}
        /\ \/ pc = "replace" /\ pc' = "publish"
           \/ pc = "publish" /\ pc' = "record" /\ manifests' = {Manifest}
    BY <1>1 DEF Replace, Publish, Completes
  <2>b. begun' \in BOOLEAN BY <2>1, Zenon
  <2>2. Typed' BY <1>t, <1>u, <1>c, <2>1, <2>b DEF Typed, Operations
  <2>3. Based' BY <1>u, <2>1 DEF KInv, Based, Durable, DataDurable, NamesDurable, EntriesDurable
  <2>4. CheckpointIsDurable'
    BY <1>u, <1>e, <2>1 DEF KInv, CheckpointIsDurable, Durable, DataDurable, NamesDurable,
       EntriesDurable
  <2>5. Barriers'
    BY <1>t, <1>u, <2>1 DEF Barriers, DataDurable, NamesDurable, EntriesDurable, Operations
  <2>6. Ending' BY <1>t, <1>u, <1>m, <2>1 DEF Ending
  <2> QED BY <1>w, <2>2, <2>3, <2>4, <2>5, <2>6 DEF KInv
<1>2. CASE Record
  <2>1. /\ pc = "record" /\ pc' = (IF final THEN "ended" ELSE "wait") /\ UNCHANGED <<begun, manifests>>
        /\ committed' = prefix /\ first' = FALSE
    BY <1>2 DEF Record, durable
  <2>b. first' \in BOOLEAN BY <2>1, Zenon
  <2>2. Typed' BY <1>t, <1>u, <2>1, <2>b DEF Typed
  <2>3. Based' BY <1>u, <1>d, <2>1 DEF Based, Durable, DataDurable, NamesDurable, EntriesDurable
  <2>4. CheckpointIsDurable'
    BY <1>u, <2>1 DEF KInv, CheckpointIsDurable, DataDurable, NamesDurable, EntriesDurable
  <2>5. Barriers' BY <2>1 DEF Barriers, Operations
  <2>6. Ending' BY <1>t, <1>u, <1>m, <2>1 DEF Ending
  <2> QED BY <1>w, <2>2, <2>3, <2>4, <2>5, <2>6 DEF KInv
<1> QED BY <1>1, <1>2

-----------------------------------------------------------------------------
\* The inductive invariant of the archive: what a commit has passed its barriers
\* for is durable, and the end of the session is the last captured prefix.
THEOREM CheckpointInductive == Spec => []KInv
<1>1. Init => KInv BY KInit
<1>2. KInv /\ [Next]_vars => KInv'
  <2> SUFFICES ASSUME KInv, [Next]_vars PROVE KInv' OBVIOUS
  <2>1. CASE WriterStep BY <2>1, WriterKeeps
  <2>2. CASE OwnerStep BY <2>2, OwnerKeeps
  <2>3. CASE Coordinator
    <3>1. CASE Tick BY <3>1, TickKeeps
    <3>2. CASE \/ (\E j \in jobs : Dispatch(j)) \/ (\E j \in active : SyncFails(j)) \/ DataDone
               \/ DataFails \/ Begin \/ OperationFails \/ RecordFails \/ WriteManifest
      BY <3>2, BetweenKeeps
    <3>3. CASE \E j \in active : Synced(j) BY <3>3, SyncedKeeps
    <3>4. CASE SyncNames BY <3>4, NamesKeep
    <3>5. CASE SyncEntries BY <3>5, EntriesKeep
    <3>6. CASE Replace \/ Publish \/ Record BY <3>6, PublicationKeeps
    <3> QED BY <2>3, <3>1, <3>2, <3>3, <3>4, <3>5, <3>6 DEF Coordinator
  <2>4. CASE UNCHANGED vars
    BY <2>4 DEF KInv, Typed, Within, Exists, Staged, Based, Barriers, Covered, Pending,
       CheckpointIsDurable, Durable, DataDurable, NamesDurable, EntriesDurable, Ending, Manifest,
       vars, archive, commit, data, durable, control
  <2> QED BY <2>1, <2>2, <2>3, <2>4 DEF Next, WriterStep, OwnerStep
<1> QED BY <1>1, <1>2, PTL DEF Spec

\* A checkpoint.json that survives a power failure names only what survives it,
\* for every number of frames and of data workers.
THEOREM CheckpointsAreDurable == Spec => []CheckpointIsDurable
<1>1. KInv => CheckpointIsDurable BY DEF KInv
<1> QED BY <1>1, CheckpointInductive, PTL

\* STOPPED means a durable final manifest of the whole archive.
THEOREM ClosesAreComplete == Spec => []CloseIsComplete
<1>1. KInv => CloseIsComplete
  <2> SUFFICES ASSUME KInv, owner = "stopped"
               PROVE  manifests = {[frames |-> written.cdrs, pairs |-> written.pairs,
                                    arts |-> written.arts, final |-> TRUE]}
    BY DEF CloseIsComplete
  <2>1. writer = "stopped" /\ final /\ manifests = {Manifest} /\ prefix = latest
    BY DEF KInv, Ending
  <2>2. latest = [frames |-> written.cdrs, pairs |-> written.pairs, arts |-> written.arts]
    BY <2>1 DEF KInv, Staged
  <2>3. final = TRUE BY <2>1 DEF KInv, Typed
  <2> QED BY <2>1, <2>2, <2>3 DEF Manifest
<1> QED BY <1>1, CheckpointInductive, PTL
=============================================================================
