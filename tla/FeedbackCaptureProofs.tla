------------------------- MODULE FeedbackCaptureProofs -------------------------
(***************************************************************************)
(* For every queue bound, batch size, number of events and of samples: the *)
(* journal's file is the prefix of what was accepted and the journal       *)
(* implements the event log; the capture program above it accounts for its *)
(* queries, and a summary that vouches for a session is right.  The        *)
(* journal's invariant numbers the lines across the three places a line    *)
(* can be in (file, batch, queue); the capture's says which records main() *)
(* has made at each of its positions.                                      *)
(***************************************************************************)
EXTENDS FeedbackCapture, SequenceTheorems, FiniteSetTheorems, TLAPS

USE BoundsAssumption, CaptureAssumption

-----------------------------------------------------------------------------
(* The journal: its inductive invariant.                                   *)

Gathering == worker \in {"idle", "gather", "write"}
Ended     == worker \in {"close", "exited"}

\* The lines are numbered consecutively through file, batch and queue.
Numbered ==
    /\ \A i \in 1..Len(file) : file[i] = i
    /\ Gathering => \A i \in 1..Len(batch) : batch[i] = Len(file) + i
    /\ \A i \in 1..Len(queue) : queue[i] = enqueued - Len(queue) + i

\* Every accepted event is in exactly one place until a write fails.
Counted ==
    /\ Gathering => Len(file) + Len(batch) + Len(queue) = enqueued
    /\ worker = "account" => Len(file) + Len(queue) = enqueued
    /\ worker \in {"finalize", "fsync"} => queue = <<>> /\ Len(file) = enqueued /\ closing
    /\ worker \in {"idle", "finalize", "fsync"} => batch = <<>>
    /\ Ended => closing /\ Len(file) <= enqueued

\* Completion is reported only after the final fsync, and nothing follows it.
Concluded ==
    /\ synced => Ended /\ Len(file) = enqueued
    /\ caller # "open" => closing
    /\ outcome = "open" <=> caller # "closed"
    /\ outcome = "complete" => synced

Inv == TypeOK /\ Numbered /\ Counted /\ PendingIsInFlight /\ Concluded

-----------------------------------------------------------------------------

\* What a concatenation holds.
LEMMA ConcatHolds ==
    ASSUME NEW s \in Seq(Nat), NEW t \in Seq(Nat)
    PROVE  /\ s \o t \in Seq(Nat) /\ Len(s \o t) = Len(s) + Len(t)
           /\ \A i \in 1..Len(s) : (s \o t)[i] = s[i]
           /\ \A i \in 1..Len(t) : (s \o t)[Len(s) + i] = t[i]
  OBVIOUS

\* What is left of a sequence without its first n elements.
LEMMA RestHolds ==
    ASSUME NEW s \in Seq(Nat), NEW n \in 0..Len(s)
    PROVE  LET r == SubSeq(s, n + 1, Len(s)) IN
           /\ r \in Seq(Nat) /\ Len(r) = Len(s) - n
           /\ \A i \in 1..(Len(s) - n) : r[i] = s[n + i]
  OBVIOUS

\* Taking n lines moves the head of the queue to the end of the batch.
LEMMA TakeMoves ==
    ASSUME TypeOK, NEW n \in 0..Len(queue), take(n)
    PROVE  /\ batch' \in Seq(Nat) /\ Len(batch') = Len(batch) + n
           /\ \A i \in 1..Len(batch) : batch'[i] = batch[i]
           /\ \A i \in 1..n : batch'[Len(batch) + i] = queue[i]
           /\ queue' \in Seq(Nat) /\ Len(queue') = Len(queue) - n
           /\ \A i \in 1..(Len(queue) - n) : queue'[i] = queue[n + i]
<1> USE DEF TypeOK
<1>1. n \in Nat /\ Len(queue) \in Nat /\ Len(batch) \in Nat
  OBVIOUS
<1> DEFINE head == SubSeq(queue, 1, n)
<1>2. /\ head \in Seq(Nat) /\ Len(head) = n
      /\ \A i \in 1..n : head[i] = queue[i]
  BY <1>1
<1>3. /\ queue' \in Seq(Nat) /\ Len(queue') = Len(queue) - n
      /\ \A i \in 1..(Len(queue) - n) : queue'[i] = queue[n + i]
  <2>1. queue \in Seq(Nat) /\ n \in 0..Len(queue) /\ queue' = SubSeq(queue, n + 1, Len(queue))
    BY DEF take
  <2> QED
    BY ONLY <2>1, RestHolds
<1>4. batch' = batch \o head
  BY DEF take
<1> HIDE DEF head
<1>5. /\ batch' \in Seq(Nat) /\ Len(batch') = Len(batch) + n
      /\ \A i \in 1..Len(batch) : batch'[i] = batch[i]
      /\ \A i \in 1..n : batch'[Len(batch) + i] = head[i]
  <2>1. batch \in Seq(Nat)
    OBVIOUS
  <2> QED
    BY ONLY <2>1, <1>2, <1>4, ConcatHolds
<1> QED
  BY <1>2, <1>3, <1>5

\* Taking keeps the numbering and the counts while the worker gathers.
LEMMA TakeKeeps ==
    ASSUME Inv, NEW n \in 0..Len(queue), take(n), Gathering, worker' \in {"gather", "write"},
           UNCHANGED <<file, enqueued, pending>>
    PROVE  /\ queue' \in Seq(Nat) /\ batch' \in Seq(Nat)
           /\ Numbered' /\ Counted' /\ PendingIsInFlight'
<1> USE DEF Inv, Gathering, Ended
<1>0. TypeOK /\ Len(queue) \in Nat /\ Len(batch) \in Nat /\ Len(file) \in Nat
  BY DEF TypeOK
<1>1. /\ batch' \in Seq(Nat) /\ Len(batch') = Len(batch) + n
      /\ \A i \in 1..Len(batch) : batch'[i] = batch[i]
      /\ \A i \in 1..n : batch'[Len(batch) + i] = queue[i]
      /\ queue' \in Seq(Nat) /\ Len(queue') = Len(queue) - n
      /\ \A i \in 1..(Len(queue) - n) : queue'[i] = queue[n + i]
  BY <1>0, TakeMoves
<1>2. Len(file) + Len(batch) + Len(queue) = enqueued /\ enqueued \in Nat
  BY DEF Counted, TypeOK
<1>3. \A i \in 1..Len(batch') : batch'[i] = Len(file) + i
  <2> SUFFICES ASSUME NEW i \in 1..(Len(batch) + n) PROVE batch'[i] = Len(file) + i
    BY <1>1
  <2>1. CASE i <= Len(batch)
    BY <2>1, <1>0, <1>1 DEF Numbered
  <2>2. CASE i > Len(batch)
    <3> DEFINE j == i - Len(batch)
    <3>1. j \in 1..n /\ j \in 1..Len(queue) /\ i = Len(batch) + j
      BY <2>2, <1>0
    <3>2. batch'[i] = queue[j] /\ queue[j] = enqueued - Len(queue) + j
      BY <3>1, <1>1 DEF Numbered
    <3>3. j \in Int /\ Len(batch) \in Int /\ Len(queue) \in Int /\ Len(file) \in Int
      BY <1>0, <2>2
    <3> HIDE DEF j
    <3> QED
      BY ONLY <3>1, <3>2, <3>3, <1>2
  <2> QED
    BY <2>1, <2>2, <1>0
<1>4. \A i \in 1..Len(queue') : queue'[i] = enqueued - Len(queue') + i
  <2> SUFFICES ASSUME NEW i \in 1..(Len(queue) - n)
               PROVE  queue'[i] = enqueued - (Len(queue) - n) + i
    BY <1>1
  <2>1. n + i \in 1..Len(queue) /\ queue'[i] = queue[n + i]
    BY <1>0, <1>1
  <2> QED
    BY <2>1, <1>0, <1>2 DEF Numbered
<1>5. Numbered'
  BY <1>3, <1>4 DEF Numbered
<1>6. Counted'
  <2>1. worker' \notin {"idle", "account", "finalize", "fsync", "close", "exited"}
    OBVIOUS
  <2>2. Len(file') + Len(batch') + Len(queue') = enqueued'
    <3>1. file' = file /\ enqueued' = enqueued /\ n \in Nat
      BY <1>0
    <3>2. Len(batch') = Len(batch) + n /\ Len(queue') = Len(queue) - n
      BY <1>1
    <3> HIDE DEF Inv, Gathering
    <3> QED
      BY <3>1, <3>2, <1>0, <1>2
  <2> QED
    BY <2>1, <2>2 DEF Counted
<1>7. PendingIsInFlight'
  BY <1>0, <1>1 DEF PendingIsInFlight
<1> QED
  BY <1>1, <1>5, <1>6, <1>7

\* Writing a prefix of the batch extends the file with the next numbers.
LEMMA WriteExtends ==
    ASSUME Inv, worker = "write", NEW n \in 0..Len(batch),
           file' = file \o SubSeq(batch, 1, n)
    PROVE  /\ file' \in Seq(Nat) /\ Len(file') = Len(file) + n
           /\ \A i \in 1..Len(file') : file'[i] = i
<1> USE DEF Inv, TypeOK
<1>1. n \in Nat /\ Len(file) \in Nat /\ Len(batch) \in Nat
  OBVIOUS
<1> DEFINE head == SubSeq(batch, 1, n)
<1>2. /\ head \in Seq(Nat) /\ Len(head) = n
      /\ \A i \in 1..n : head[i] = batch[i]
  BY <1>1
<1> HIDE DEF head
<1>3. /\ file' \in Seq(Nat) /\ Len(file') = Len(file) + n
      /\ \A i \in 1..Len(file) : file'[i] = file[i]
      /\ \A i \in 1..n : file'[Len(file) + i] = head[i]
  <2>1. file' = file \o head /\ file \in Seq(Nat)
    BY DEF head
  <2> QED
    BY ONLY <1>2, <2>1, ConcatHolds
<1>4. ASSUME NEW i \in 1..(Len(file) + n) PROVE file'[i] = i
  <2>1. CASE i <= Len(file)
    BY <2>1, <1>1, <1>3 DEF Numbered
  <2>2. CASE i > Len(file)
    <3> DEFINE j == i - Len(file)
    <3>1. j \in 1..n /\ j \in 1..Len(batch) /\ i = Len(file) + j
      BY <2>2, <1>1
    <3>2. file'[i] = batch[j] /\ batch[j] = Len(file) + j
      BY <3>1, <1>2, <1>3 DEF Numbered, Gathering
    <3> QED
      BY <3>1, <3>2
  <2> QED
    BY <2>1, <2>2, <1>1
<1> QED
  BY <1>3, <1>4

-----------------------------------------------------------------------------

\* A new journal satisfies the invariant.
LEMMA InitHolds == Init => Inv
<1> SUFFICES ASSUME Init PROVE Inv
  OBVIOUS
<1>0. Len(queue) = 0 /\ Len(batch) = 0 /\ Len(file) = 0
  BY DEF Init
<1>1. TypeOK
  <2>1. closing \in BOOLEAN /\ error \in BOOLEAN /\ synced \in BOOLEAN /\ waiting \in BOOLEAN
    BY Zenon DEF Init
  <2>2. queue \in Seq(Nat) /\ batch \in Seq(Nat) /\ file \in Seq(Nat)
    BY DEF Init
  <2> QED
    BY <2>1, <2>2 DEF Init, TypeOK, WorkerStates
<1>2. Numbered
  BY <1>0 DEF Numbered
<1>3. Counted
  BY <1>0 DEF Init, Counted, Gathering, Ended
<1>4. PendingIsInFlight /\ Concluded
  BY <1>0 DEF Init, PendingIsInFlight, Concluded
<1> QED
  BY <1>1, <1>2, <1>3, <1>4 DEF Inv

\* Every step keeps the invariant.
LEMMA StepHolds == Inv /\ [Next]_vars => Inv'
<1> SUFFICES ASSUME Inv, [Next]_vars PROVE Inv'
  OBVIOUS
<1> USE DEF Inv
<1>0. /\ queue \in Seq(Nat) /\ batch \in Seq(Nat) /\ file \in Seq(Nat)
      /\ Len(queue) \in Nat /\ Len(batch) \in Nat /\ Len(file) \in Nat
      /\ enqueued \in Nat /\ pending \in Nat
  BY DEF TypeOK
<1>n. Len(queue) \in Nat /\ Len(batch) \in Nat /\ Len(file) \in Nat /\ enqueued \in Nat
  BY <1>0
<1>1. CASE Accept
  <2> USE DEF Accept, notify_all
  <2>1. queue' \in Seq(Nat) /\ Len(queue') = Len(queue) + 1
    BY <1>0, <1>1
  <2>2. \A i \in 1..Len(queue') : queue'[i] = enqueued' - Len(queue') + i
    <3> SUFFICES ASSUME NEW i \in 1..(Len(queue) + 1)
                 PROVE  queue'[i] = enqueued - Len(queue) + i
      BY <1>0, <1>1, <2>1
    <3>1. CASE i = Len(queue) + 1
      BY <3>1, <1>0, <1>1
    <3>2. CASE i # Len(queue) + 1
      <4>1. i \in 1..Len(queue)
        BY <3>2, <1>0
      <4>2. queue'[i] = queue[i]
        BY <4>1, <1>0, <1>1
      <4> QED
        BY <4>1, <4>2 DEF Numbered
    <3> QED
      BY <3>1, <3>2
  <2>3. Numbered'
    BY <1>1, <2>2 DEF Numbered, Gathering
  <2>a. /\ caller = "open" /\ closing = FALSE /\ pending < MaxEvents
        /\ enqueued' = enqueued + 1 /\ pending' = pending + 1 /\ waiting' = FALSE
        /\ UNCHANGED <<batch, file, closing, error, synced, worker, caller, outcome>>
    BY <1>1 DEF TypeOK
  <2> HIDE DEF Accept
  <2>b. waiting' \in BOOLEAN
    BY <2>a, Zenon
  <2>4. TypeOK'
    BY <1>0, <2>1, <2>a, <2>b DEF TypeOK
  <2>c. worker \notin {"finalize", "fsync", "close", "exited"}
    BY <2>a DEF Counted, Ended
  <2>5. Counted'
    <3>1. CASE Gathering
      <4>1. Len(file) + Len(batch) + Len(queue) = enqueued
        BY <3>1 DEF Counted
      <4>2. Len(file) + Len(batch) + (Len(queue) + 1) = enqueued + 1
        BY ONLY <4>1, <1>n
      <4>3. (Len(file) + Len(batch) + Len(queue) = enqueued)'
        BY <4>2, <2>1, <2>a
      <4> QED
        BY <4>3, <3>1, <2>a DEF Counted, Gathering, Ended
    <3>2. CASE worker = "account"
      <4>1. Len(file) + Len(queue) = enqueued
        BY <3>2 DEF Counted
      <4>2. Len(file) + (Len(queue) + 1) = enqueued + 1
        BY ONLY <4>1, <1>n
      <4>3. (Len(file) + Len(queue) = enqueued)'
        BY <4>2, <2>1, <2>a
      <4> QED
        BY <4>3, <3>2, <2>a DEF Counted, Gathering, Ended
    <3> QED
      BY <2>c, <3>1, <3>2 DEF TypeOK, WorkerStates, Gathering
  <2>6. PendingIsInFlight'
    BY <1>0, <2>1, <2>a DEF PendingIsInFlight
  <2>7. Concluded'
    BY <1>0, <2>a DEF Concluded, Counted, Ended
  <2> QED
    BY <2>3, <2>4, <2>5, <2>6, <2>7
<1>2. CASE Gather
  <2>1. PICK n \in 0..Room : take(n) /\ worker' \in {"gather", "write"} /\ waiting' \in BOOLEAN
    BY <1>2 DEF Gather
  <2>2. n \in 0..Len(queue)
    BY <2>1, <1>0 DEF Room, Least
  <2>3. Gathering /\ UNCHANGED <<file, enqueued, pending, closing, error, synced, caller, outcome>>
    BY <1>2 DEF Gather, Gathering
  <2>4. queue' \in Seq(Nat) /\ batch' \in Seq(Nat) /\ Numbered' /\ Counted' /\ PendingIsInFlight'
    BY <2>1, <2>2, <2>3, TakeKeeps
  <2>5. TypeOK'
    BY <2>1, <2>3, <2>4 DEF TypeOK, WorkerStates
  <2>6. Concluded'
    BY <2>1, <2>3 DEF Concluded, Gathering, Ended
  <2> QED
    BY <2>4, <2>5, <2>6
<1>3. CASE AggregationEnds
  <2>1. PICK n \in 0..Room : take(n)
    BY <1>3 DEF AggregationEnds
  <2>2. n \in 0..Len(queue)
    BY <2>1, <1>0 DEF Room, Least
  <2>3. /\ Gathering /\ worker' = "write" /\ waiting' = FALSE
        /\ UNCHANGED <<file, enqueued, pending, closing, error, synced, caller, outcome>>
    BY <1>3 DEF AggregationEnds, Gathering
  <2>4. queue' \in Seq(Nat) /\ batch' \in Seq(Nat) /\ Numbered' /\ Counted' /\ PendingIsInFlight'
    BY <2>1, <2>2, <2>3, TakeKeeps
  <2>5. TypeOK'
    BY <2>3, <2>4 DEF TypeOK, WorkerStates
  <2>6. Concluded'
    BY <2>3 DEF Concluded, Gathering, Ended
  <2> QED
    BY <2>4, <2>5, <2>6
<1>4. CASE Write
  <2> USE DEF Write
  <2>1. file' = file \o SubSeq(batch, 1, Len(batch))
    BY <1>0, <1>4
  <2>2. /\ file' \in Seq(Nat) /\ Len(file') = Len(file) + Len(batch)
        /\ \A i \in 1..Len(file') : file'[i] = i
    <3>1. Len(batch) \in 0..Len(batch) /\ worker = "write"
      BY <1>0, <1>4
    <3> HIDE DEF Write, Inv
    <3> QED
      BY <2>1, <3>1, WriteExtends
  <2>3. TypeOK'
    BY <1>4, <2>2 DEF TypeOK, WorkerStates
  <2>4. Numbered'
    BY <1>4, <2>2 DEF Numbered, Gathering
  <2>5. Counted' /\ PendingIsInFlight'
    BY <1>0, <1>4, <2>2 DEF Counted, PendingIsInFlight, Gathering, Ended
  <2>6. Concluded'
    BY <1>4 DEF Concluded, Ended
  <2> QED
    BY <2>3, <2>4, <2>5, <2>6
<1>5. CASE WriteFails
  <2> USE DEF WriteFails, _fail_locked, notify_all
  <2>1. PICK n \in 0..Len(batch) : file' = file \o SubSeq(batch, 1, n)
    BY <1>5
  <2>2. /\ file' \in Seq(Nat) /\ Len(file') = Len(file) + n
        /\ \A i \in 1..Len(file') : file'[i] = i
    BY <1>5, <2>1, WriteExtends
  <2>3. TypeOK'
    BY <1>5, <2>2 DEF TypeOK, WorkerStates
  <2>4. Numbered'
    BY <1>5, <2>2 DEF Numbered, Gathering
  <2>5. Counted' /\ PendingIsInFlight'
    BY <1>0, <1>5, <2>2 DEF Counted, PendingIsInFlight, Gathering, Ended
  <2>6. Concluded'
    BY <1>5 DEF Concluded, Ended
  <2> QED
    BY <2>3, <2>4, <2>5, <2>6
<1>6. CASE Account
  <2> USE DEF Account
  <2>1. pending = Len(queue) + Len(batch) /\ pending' = Len(queue) /\ batch' = <<>> /\ Len(batch') = 0
    BY <1>0, <1>6 DEF PendingIsInFlight
  <2>2. TypeOK'
    BY <1>0, <1>6, <2>1 DEF TypeOK, WorkerStates
  <2>3. Numbered' /\ Counted'
    BY <1>0, <1>6, <2>1 DEF Numbered, Counted, Gathering, Ended
  <2>4. PendingIsInFlight' /\ Concluded'
    BY <1>0, <1>6, <2>1 DEF PendingIsInFlight, Concluded, Ended
  <2> QED
    BY <2>2, <2>3, <2>4
<1>7. CASE Drained
  <2> USE DEF Drained
  <2>1. TypeOK'
    BY <1>7 DEF TypeOK, WorkerStates
  <2>2. Numbered' /\ Counted'
    BY <1>0, <1>7 DEF Numbered, Counted, Gathering, Ended
  <2>3. PendingIsInFlight' /\ Concluded'
    BY <1>7 DEF PendingIsInFlight, Concluded, Ended
  <2> QED
    BY <2>1, <2>2, <2>3
<1>8. CASE Fsync
  <2> USE DEF Fsync
  <2>1. TypeOK'
    BY <1>8 DEF TypeOK, WorkerStates
  <2>2. Numbered' /\ Counted'
    BY <1>0, <1>8 DEF Numbered, Counted, Gathering, Ended
  <2>3. PendingIsInFlight' /\ Concluded'
    BY <1>8 DEF PendingIsInFlight, Concluded, Counted, Ended
  <2> QED
    BY <2>1, <2>2, <2>3
<1>9. CASE Finalize \/ FinalizeFails \/ CloseStream
  <2> USE DEF Finalize, FinalizeFails, CloseStream, _fail_locked, notify_all
  <2>1. TypeOK'
    BY <1>9 DEF TypeOK, WorkerStates
  <2>a. /\ UNCHANGED <<queue, batch, file, enqueued>> /\ (closing => closing')
        /\ \/ worker = "finalize" /\ worker' = "fsync"
           \/ worker \in {"finalize", "fsync"} /\ worker' = "close"
           \/ worker = "close" /\ worker' = "exited"
    BY <1>9
  <2>b. Numbered'
    BY <2>a DEF Numbered, Gathering
  <2>2. Numbered' /\ Counted'
    BY <1>0, <2>a, <2>b DEF Counted, Gathering, Ended
  <2>3. PendingIsInFlight' /\ Concluded'
    BY <1>9 DEF PendingIsInFlight, Concluded, Counted, Ended
  <2> QED
    BY <2>1, <2>2, <2>3
<1>10. CASE Refuse \/ CloseBegins \/ CloseTimesOut \/ CloseReturns \/ Sleep
  <2> USE DEF Refuse, CloseBegins, CloseTimesOut, CloseReturns, Sleep, _fail_locked, notify_all
  <2>1. TypeOK'
    BY <1>10 DEF TypeOK, WorkerStates
  <2>2. Numbered' /\ Counted'
    BY <1>10 DEF Numbered, Counted, Gathering, Ended
  <2>3. PendingIsInFlight' /\ Concluded'
    <3>1. PendingIsInFlight'
      BY <1>10 DEF PendingIsInFlight
    <3>2. CASE CloseReturns
      <4>1. \/ outcome' = "failed"
            \/ synced /\ outcome' = "complete"
        BY <3>2, Zenon
      <4>2. /\ caller = "join" /\ caller' = "closed"
            /\ UNCHANGED <<synced, worker, file, enqueued, closing>>
        BY <3>2
      <4> QED
        BY <3>1, <4>1, <4>2 DEF Concluded, Ended
    <3>3. CASE Refuse
      BY <3>1, <3>3 DEF Concluded, Ended
    <3>4. CASE CloseBegins
      BY <3>1, <3>4 DEF Concluded, Ended
    <3>5. CASE CloseTimesOut
      BY <3>1, <3>5 DEF Concluded, Ended
    <3>6. CASE Sleep
      BY <3>1, <3>6 DEF Concluded, Ended
    <3> QED
      BY <1>10, <3>1, <3>2, <3>3, <3>4, <3>5, <3>6
  <2> QED
    BY <2>1, <2>2, <2>3
<1>11. CASE UNCHANGED vars
  BY <1>11 DEF vars, TypeOK, Numbered, Counted, PendingIsInFlight, Concluded, Gathering, Ended
<1> QED
  BY <1>1, <1>2, <1>3, <1>4, <1>5, <1>6, <1>7, <1>8, <1>9, <1>10, <1>11
  DEF Next, Caller, Worker

\* The numbering and the counts hold in every reachable state of the writer.
THEOREM JournalInductive == Spec => []Inv
  BY InitHolds, StepHolds, PTL DEF Spec

\* Every variable of the writer keeps its type; pending_events never becomes
\* negative.
THEOREM JournalTypeCorrect == Spec => []TypeOK
  BY JournalInductive, PTL DEF Inv

\* The journal file is always the prefix of the accepted events.
THEOREM FileIsAlwaysPrefix == Spec => []FileIsPrefix
<1>1. Inv => FileIsPrefix
  BY DEF Inv, TypeOK, WorkerStates, Numbered, Counted, FileIsPrefix, Gathering, Ended
<1> QED
  BY <1>1, JournalInductive, PTL

\* pending_events bounds the queued and the in-flight events together.
THEOREM PendingIsAlwaysInFlight == Spec => []PendingIsInFlight
  BY JournalInductive, PTL DEF Inv

\* Every step of the writer is a step of the event log, or invisible to it.
LEMMA StepRefines == Inv /\ [Next]_vars => [Log!Next]_(Log!vars)
<1> SUFFICES ASSUME Inv, [Next]_vars PROVE [Log!Next]_(Log!vars)
  OBVIOUS
<1> USE DEF Inv, Log!vars, Log!Next
<1>0. /\ Len(queue) \in Nat /\ Len(batch) \in Nat /\ Len(file) \in Nat
      /\ enqueued \in Nat /\ file \in Seq(Nat) /\ batch \in Seq(Nat)
  BY DEF TypeOK
<1>1. CASE Accept
  BY <1>1 DEF Accept, Concluded, Log!Accept
<1>2. CASE Write \/ WriteFails
  <2>1. PICK n \in 0..Len(batch) : file' = file \o SubSeq(batch, 1, n)
    <3>1. CASE Write
      <4>1. file' = file \o SubSeq(batch, 1, Len(batch)) /\ Len(batch) \in 0..Len(batch)
        BY <3>1, <1>0 DEF Write
      <4> QED
        BY <4>1
    <3>2. CASE WriteFails
      BY <3>2 DEF WriteFails
    <3> QED
      BY <1>2, <3>1, <3>2
  <2>2. worker = "write" /\ enqueued' = enqueued /\ outcome' = outcome
    BY <1>2 DEF Write, WriteFails
  <2>3. Len(file') = Len(file) + n
    BY <2>1, <2>2, WriteExtends
  <2>4. Len(file) + n <= enqueued /\ outcome # "complete"
    BY <1>0, <2>1, <2>2 DEF Counted, Concluded, Gathering, Ended
  <2>5. CASE n = 0
    BY <1>0, <2>2, <2>3, <2>5
  <2>6. CASE n > 0
    BY <1>0, <2>1, <2>2, <2>3, <2>4, <2>6 DEF Log!Store
  <2> QED
    BY <2>5, <2>6
<1>3. CASE CloseReturns
  BY <1>3 DEF CloseReturns, Concluded, Log!Complete, Log!Fail
<1>4. CASE CloseTimesOut
  BY <1>4 DEF CloseTimesOut, Concluded, Log!Fail
<1>5. CASE Refuse \/ CloseBegins \/ Sleep \/ Drained \/ Gather \/ AggregationEnds \/ Account
           \/ Finalize \/ Fsync \/ FinalizeFails \/ CloseStream \/ UNCHANGED vars
  BY <1>5 DEF Refuse, CloseBegins, Sleep, Drained, Gather, AggregationEnds, Account,
              Finalize, Fsync, FinalizeFails, CloseStream, vars
<1> QED
  BY <1>1, <1>2, <1>3, <1>4, <1>5 DEF Next, Caller, Worker

\* AsyncJournal implements the event log: when close() reports success, every
\* accepted event is in the file, in order, and the file no longer changes.
THEOREM JournalImplementsLog == Spec => LogSpec
<1>1. Init => Log!Init
  BY DEF Init, Log!Init
<1> QED
  BY <1>1, JournalInductive, StepRefines, PTL DEF Spec, LogSpec, Log!Spec

-----------------------------------------------------------------------------
(* The capture: its inductive invariant.                                   *)

\* What an undisturbed capture has recorded after n samples, and on its way out.
Body(n) ==
    <<"lease_open">> \o [i \in 1..(n * Len(Round)) |-> Round[((i - 1) % Len(Round)) + 1]]
Finished(n) == Append(Body(n), "capture_complete")
PreviewEnded(n) == IF Preview THEN Append(Finished(n), "preview_end") ELSE Finished(n)
LeaseClosed(n) == Append(PreviewEnded(n), "lease_closed")

\* Every sample asked for was taken, or a signal ended the stream.
Enough == completed = Samples \/ stopped

\* What the journal has accepted at each position of main(), as long as nothing
\* went wrong.
Recorded ==
    /\ pc \in {"open", "opened"} => log = <<>> /\ completed = 0
    /\ pc \in {"loop", "verdict", "plan", "pace", "finish"} => log = Body(completed)
    /\ pc \in {"planned", "exchange", "answered", "unanswered"} =>
          log = Append(Body(completed), "planned")
    /\ pc = "confirm" => log = Append(Append(Body(completed), "planned"), "complete")
    /\ pc \in {"publish", "preview"} =>
          completed > 0 /\ log = Append(Append(Body(completed - 1), "planned"), "complete")
    /\ pc \in {"release", "ended"} /\ result = "ok" => log = Finished(completed)
    /\ pc = "released" /\ result = "ok" => log = PreviewEnded(completed)
    /\ pc = "ack" /\ result = "ok" => log = LeaseClosed(completed)
    /\ pc \in {"close", "join", "summary"} /\ result = "ok" => log = Session(completed)

\* What main() knows at its positions.
Positioned ==
    /\ pc \in {"preview", "ended"} => Preview
    /\ pc = "ack" => Recorder
    /\ pc \in {"blocked", "failure"} => result # "ok"
    /\ pc \in {"finish", "release", "ended", "released", "ack", "close", "join", "summary"}
          /\ (pc = "finish" \/ result = "ok") => Enough
    /\ pc \in {"plan", "planned", "exchange", "answered", "unanswered", "confirm"} =>
          completed < Samples
    /\ pc # "done" => summary = "none"

\* A summary that vouches for the session was written after the final fsync.
Vouched == summary = "synchronized" => synced /\ log = Session(completed) /\ Enough

\* Queries, plans and answers at each position: together they advance, one after
\* the other, and after a failure none of them does.
Tallied ==
    /\ pc \in {"open", "opened"} => sent = 0 /\ Count("planned") = 0 /\ Count("complete") = 0
    /\ pc \in {"loop", "verdict", "plan", "publish", "preview", "pace", "finish"} =>
          sent = completed /\ Count("planned") = sent /\ Count("complete") = sent
    /\ pc \in {"planned", "exchange"} =>
          sent = completed /\ Count("planned") = sent + 1 /\ Count("complete") = sent
    /\ pc = "answered" =>
          sent = completed + 1 /\ Count("planned") = sent /\ Count("complete") = completed
    /\ pc = "unanswered" =>
          /\ sent \in {completed, completed + 1}
          /\ Count("planned") = completed + 1 /\ Count("complete") = completed
    /\ pc = "confirm" =>
          sent = completed + 1 /\ Count("planned") = sent /\ Count("complete") = sent
    /\ sent <= Count("planned") /\ Count("planned") <= Count("complete") + 1

CInv == CaptureTypeOK /\ Recorded /\ Positioned /\ Vouched /\ Tallied

-----------------------------------------------------------------------------
(* Records and their counts.                                               *)

\* What a round of records holds.
LEMMA RoundHolds ==
    /\ Round \in Seq(Events) /\ Len(Round) = IF Preview THEN 3 ELSE 2
    /\ Round[1] = "planned" /\ Round[2] = "complete" /\ (Preview => Round[3] = "preview")
  BY DEF Round, Events

\* The remainders that place a record in its round.
LEMMA RemaindersOfTwo ==
    ASSUME NEW n \in Nat PROVE (n * 2) % 2 = 0 /\ (n * 2 + 1) % 2 = 1
  OBVIOUS

\* So for the longer round.
LEMMA RemaindersOfThree ==
    ASSUME NEW n \in Nat PROVE (n * 3) % 3 = 0 /\ (n * 3 + 1) % 3 = 1 /\ (n * 3 + 2) % 3 = 2
  OBVIOUS

\* The records of n samples, one by one.
LEMMA BodyHolds ==
    ASSUME NEW n \in Nat
    PROVE  /\ Body(n) \in Seq(Events) /\ Len(Body(n)) = 1 + n * Len(Round)
           /\ Body(n)[1] = "lease_open"
           /\ \A i \in 2..(1 + n * Len(Round)) :
                 Body(n)[i] = Round[((i - 2) % Len(Round)) + 1]
<1> DEFINE k == n * Len(Round)
           rounds == [i \in 1..k |-> Round[((i - 1) % Len(Round)) + 1]]
<1>1. Len(Round) \in Nat \ {0} /\ Round \in Seq(Events)
  BY RoundHolds
<1>2. k \in Nat
  <2>1. CASE Preview
    BY <2>1, RoundHolds
  <2>2. CASE ~Preview
    BY <2>2, RoundHolds
  <2> QED
    BY <2>1, <2>2
<1>3. \A i \in 1..k : ((i - 1) % Len(Round)) + 1 \in 1..Len(Round)
  <2> SUFFICES ASSUME NEW i \in 1..k PROVE ((i - 1) % Len(Round)) + 1 \in 1..Len(Round)
    OBVIOUS
  <2>1. i - 1 \in Int
    BY <1>2
  <2>2. CASE Preview
    BY <2>1, <2>2, RoundHolds
  <2>3. CASE ~Preview
    BY <2>1, <2>3, RoundHolds
  <2> QED
    BY <2>2, <2>3
<1> HIDE DEF k
<1>4. \A i \in 1..k : rounds[i] \in Events
  BY <1>1, <1>3
<1>5. rounds \in Seq(Events) /\ Len(rounds) = k
  <2>1. rounds \in [1..k -> Events]
    BY <1>4
  <2> QED
    BY <2>1, <1>2
<1>6. <<"lease_open">> \in Seq(Events)
  BY DEF Events
<1>7. \A i \in 1..k : rounds[i] = Round[((i - 1) % Len(Round)) + 1]
  OBVIOUS
<1>8. Body(n) = <<"lease_open">> \o rounds
  BY DEF Body, k
<1> HIDE DEF rounds
<1>9. /\ Body(n) \in Seq(Events) /\ Len(Body(n)) = 1 + k /\ Body(n)[1] = "lease_open"
      /\ \A i \in 1..k : Body(n)[1 + i] = rounds[i]
  BY <1>2, <1>5, <1>6, <1>8
<1>10. ASSUME NEW i \in 2..(1 + k) PROVE Body(n)[i] = Round[((i - 2) % Len(Round)) + 1]
  <2>1. i - 1 \in 1..k /\ 1 + (i - 1) = i /\ (i - 1) - 1 = i - 2
    BY <1>2
  <2> QED
    BY <2>1, <1>7, <1>9
<1> QED
  BY <1>9, <1>10 DEF k

\* Appending is concatenating with one record.
LEMMA RecordAppends ==
    ASSUME NEW s \in Seq(Events), NEW event \in Events
    PROVE  /\ Append(s, event) \in Seq(Events) /\ Len(Append(s, event)) = Len(s) + 1
           /\ Append(s, event) = s \o <<event>> /\ s \o <<>> = s
           /\ Append(s, event)[Len(s) + 1] = event
           /\ \A i \in 1..Len(s) : Append(s, event)[i] = s[i]
  OBVIOUS

\* The first record is all there is before the first sample.
LEMMA BodyBegins == Body(0) = Append(<<>>, "lease_open")
<1> SUFFICES ASSUME NEW n \in Nat, n = 0 PROVE Body(n) = Append(<<>>, "lease_open")
  OBVIOUS
<1>1. Body(n) \in Seq(Events) /\ Len(Body(n)) = 1 + n * Len(Round) /\ Body(n)[1] = "lease_open"
  BY BodyHolds
<1>2. Len(Body(n)) = 1
  BY <1>1, RoundHolds
<1> QED
  BY <1>1, <1>2

\* The records of one sample more.
LEMMA BodyGrows ==
    ASSUME NEW n \in Nat
    PROVE  Body(n + 1) = LET s == Append(Append(Body(n), "planned"), "complete")
                         IN  IF Preview THEN Append(s, "preview") ELSE s
<1> DEFINE a == Append(Body(n), "planned")
           b == Append(a, "complete")
           d == Append(b, "preview")
<1>1. /\ Body(n) \in Seq(Events) /\ Len(Body(n)) = 1 + n * Len(Round)
      /\ Body(n)[1] = "lease_open"
      /\ \A i \in 2..(1 + n * Len(Round)) : Body(n)[i] = Round[((i - 2) % Len(Round)) + 1]
  BY BodyHolds
<1>2. /\ Body(n + 1) \in Seq(Events) /\ Len(Body(n + 1)) = 1 + (n + 1) * Len(Round)
      /\ Body(n + 1)[1] = "lease_open"
      /\ \A i \in 2..(1 + (n + 1) * Len(Round)) :
            Body(n + 1)[i] = Round[((i - 2) % Len(Round)) + 1]
  BY BodyHolds
<1>3. "planned" \in Events /\ "complete" \in Events /\ "preview" \in Events
  BY DEF Events
<1>4. /\ a \in Seq(Events) /\ Len(a) = Len(Body(n)) + 1 /\ a[Len(Body(n)) + 1] = "planned"
      /\ \A i \in 1..Len(Body(n)) : a[i] = Body(n)[i]
  BY <1>1, <1>3, RecordAppends
<1> HIDE DEF a
<1>5. /\ b \in Seq(Events) /\ Len(b) = Len(a) + 1 /\ b[Len(a) + 1] = "complete"
      /\ \A i \in 1..Len(a) : b[i] = a[i]
  BY <1>3, <1>4, RecordAppends
<1> HIDE DEF b
<1>6. /\ d \in Seq(Events) /\ Len(d) = Len(b) + 1 /\ d[Len(b) + 1] = "preview"
      /\ \A i \in 1..Len(b) : d[i] = b[i]
  BY <1>3, <1>5, RecordAppends
<1> HIDE DEF d
<1>7. CASE ~Preview
  <2>1. Len(Round) = 2 /\ Round[1] = "planned" /\ Round[2] = "complete"
    BY <1>7, RoundHolds
  <2>2. /\ Len(Body(n)) = 1 + n * 2 /\ Len(b) = 3 + n * 2 /\ Len(Body(n + 1)) = 3 + n * 2
    BY <1>1, <1>2, <1>4, <1>5, <2>1
  <2>3. ASSUME NEW i \in 1..(3 + n * 2) PROVE b[i] = Body(n + 1)[i]
    <3>1. CASE i = 1
      BY <3>1, <1>1, <1>2, <1>4, <1>5, <2>2
    <3>2. CASE i \in 2..(1 + n * 2)
      <4>1. i \in 2..(1 + n * 2) /\ i \in 2..(1 + (n + 1) * 2)
        BY <3>2
      <4>2. b[i] = Body(n)[i]
        BY <3>2, <1>4, <1>5, <2>2
      <4>3. Body(n)[i] = Body(n + 1)[i]
        BY <4>1, <1>1, <1>2, <2>1
      <4> QED
        BY <4>2, <4>3
    <3>3. CASE i = 2 + n * 2
      <4>0. i \in 2..(1 + (n + 1) * 2)
        BY <3>3
      <4>1. Body(n + 1)[i] = Round[((i - 2) % 2) + 1]
        BY <1>2, <2>1, <4>0
      <4>2. i - 2 = n * 2 /\ (n * 2) % 2 = 0
        BY <3>3, RemaindersOfTwo
      <4>3. Body(n + 1)[i] = "planned"
        BY <3>3, <4>1, <4>2, <2>1
      <4> QED
        BY <3>3, <4>3, <1>4, <1>5, <2>2
    <3>4. CASE i = 3 + n * 2
      <4>0. i \in 2..(1 + (n + 1) * 2)
        BY <3>4
      <4>1. Body(n + 1)[i] = Round[((i - 2) % 2) + 1]
        BY <1>2, <2>1, <4>0
      <4>2. i - 2 = n * 2 + 1 /\ (n * 2 + 1) % 2 = 1
        BY <3>4, RemaindersOfTwo
      <4>3. Body(n + 1)[i] = "complete"
        BY <3>4, <4>1, <4>2, <2>1
      <4> QED
        BY <3>4, <4>3, <1>4, <1>5, <2>2
    <3> QED
      BY <3>1, <3>2, <3>3, <3>4
  <2>4. b = Body(n + 1)
    BY <2>2, <2>3, <1>2, <1>5
  <2> QED
    BY <1>7, <2>4 DEF b, a
<1>8. CASE Preview
  <2>1. Len(Round) = 3 /\ Round[1] = "planned" /\ Round[2] = "complete" /\ Round[3] = "preview"
    BY <1>8, RoundHolds
  <2>2. /\ Len(Body(n)) = 1 + n * 3 /\ Len(b) = 3 + n * 3 /\ Len(d) = 4 + n * 3
        /\ Len(Body(n + 1)) = 4 + n * 3
    BY <1>1, <1>2, <1>4, <1>5, <1>6, <2>1
  <2>3. ASSUME NEW i \in 1..(4 + n * 3) PROVE d[i] = Body(n + 1)[i]
    <3>1. CASE i = 1
      BY <3>1, <1>1, <1>2, <1>4, <1>5, <1>6, <2>2
    <3>2. CASE i \in 2..(1 + n * 3)
      <4>1. i \in 2..(1 + n * 3) /\ i \in 2..(1 + (n + 1) * 3)
        BY <3>2
      <4>2. d[i] = Body(n)[i]
        BY <3>2, <1>4, <1>5, <1>6, <2>2
      <4>3. Body(n)[i] = Body(n + 1)[i]
        BY <4>1, <1>1, <1>2, <2>1
      <4> QED
        BY <4>2, <4>3
    <3>3. CASE i = 2 + n * 3
      <4>0. i \in 2..(1 + (n + 1) * 3)
        BY <3>3
      <4>1. Body(n + 1)[i] = Round[((i - 2) % 3) + 1]
        BY <1>2, <2>1, <4>0
      <4>2. i - 2 = n * 3 /\ (n * 3) % 3 = 0
        BY <3>3, RemaindersOfThree
      <4>3. Body(n + 1)[i] = "planned"
        BY <3>3, <4>1, <4>2, <2>1
      <4> QED
        BY <3>3, <4>3, <1>4, <1>5, <1>6, <2>2
    <3>4. CASE i = 3 + n * 3
      <4>0. i \in 2..(1 + (n + 1) * 3)
        BY <3>4
      <4>1. Body(n + 1)[i] = Round[((i - 2) % 3) + 1]
        BY <1>2, <2>1, <4>0
      <4>2. i - 2 = n * 3 + 1 /\ (n * 3 + 1) % 3 = 1
        BY <3>4, RemaindersOfThree
      <4>3. Body(n + 1)[i] = "complete"
        BY <3>4, <4>1, <4>2, <2>1
      <4> QED
        BY <3>4, <4>3, <1>4, <1>5, <1>6, <2>2
    <3>5. CASE i = 4 + n * 3
      <4>0. i \in 2..(1 + (n + 1) * 3)
        BY <3>5
      <4>1. Body(n + 1)[i] = Round[((i - 2) % 3) + 1]
        BY <1>2, <2>1, <4>0
      <4>2. i - 2 = n * 3 + 2 /\ (n * 3 + 2) % 3 = 2
        BY <3>5, RemaindersOfThree
      <4>3. Body(n + 1)[i] = "preview"
        BY <3>5, <4>1, <4>2, <2>1
      <4> QED
        BY <3>5, <4>3, <1>6, <2>2
    <3> QED
      BY <3>1, <3>2, <3>3, <3>4, <3>5
  <2>4. d = Body(n + 1)
    BY <2>2, <2>3, <1>2, <1>6
  <2> QED
    BY <1>8, <2>4 DEF d, b, a
<1> QED
  BY <1>7, <1>8


\* What the records of a whole session are.
LEMMA SessionIs ==
    ASSUME NEW n \in Nat
    PROVE  Session(n) = IF Recorder THEN Append(LeaseClosed(n), "publication_ack")
                        ELSE LeaseClosed(n)
<1> DEFINE f == Finished(n)
           p == PreviewEnded(n)
           c == LeaseClosed(n)
<1>1. Body(n) \in Seq(Events)
  BY BodyHolds
<1>2. /\ "capture_complete" \in Events /\ "preview_end" \in Events /\ "lease_closed" \in Events
      /\ "publication_ack" \in Events
  BY DEF Events
<1>3. f \in Seq(Events) /\ f = Body(n) \o <<"capture_complete">>
  BY <1>1, <1>2, RecordAppends DEF Finished
<1>4. p \in Seq(Events) /\ p = f \o (IF Preview THEN <<"preview_end">> ELSE <<>>)
  BY <1>2, <1>3, RecordAppends DEF PreviewEnded
<1>5. c \in Seq(Events) /\ c = p \o <<"lease_closed">>
  BY <1>2, <1>4, RecordAppends DEF LeaseClosed
<1>6. Session(n) = c \o (IF Recorder THEN <<"publication_ack">> ELSE <<>>)
  BY <1>3, <1>4, <1>5 DEF Session, Body
<1> HIDE DEF c
<1>7. Session(n) = IF Recorder THEN Append(c, "publication_ack") ELSE c
  BY <1>2, <1>5, <1>6, RecordAppends
<1> QED
  BY <1>7 DEF c

\* How often a record is in a log.
Occurrences(s, e) == Cardinality({i \in 1..Len(s) : s[i] = e})

\* A record is added to the count of its kind.
LEMMA CountAppends ==
    ASSUME NEW e, NEW s \in Seq(Events), NEW event \in Events
    PROVE  /\ Occurrences(s, e) \in Nat
           /\ Occurrences(Append(s, event), e) =
                 Occurrences(s, e) + (IF event = e THEN 1 ELSE 0)
<1> DEFINE S == {i \in 1..Len(s) : s[i] = e}
           t == Append(s, event)
           T == {i \in 1..Len(t) : t[i] = e}
<1>1. Len(s) \in Nat /\ t \in Seq(Events) /\ Len(t) = Len(s) + 1 /\ t[Len(s) + 1] = event
      /\ \A i \in 1..Len(s) : t[i] = s[i]
  OBVIOUS
<1>2. IsFiniteSet(S) /\ Cardinality(S) \in Nat
  <2>1. IsFiniteSet(1..Len(s)) /\ S \subseteq 1..Len(s)
    BY <1>1, 1 \in Int, Len(s) \in Int, FS_Interval
  <2> QED
    BY <2>1, FS_Subset, FS_CardinalityType
<1>3. T = IF event = e THEN S \cup {Len(s) + 1} ELSE S
  <2> HIDE DEF t
  <2> QED
  BY <1>1
<1>4. Len(s) + 1 \notin S
  BY <1>1
<1>5. Cardinality(S \cup {Len(s) + 1}) = Cardinality(S) + 1
  BY <1>2, <1>4, FS_AddElement
<1>6. Cardinality(T) = Cardinality(S) + (IF event = e THEN 1 ELSE 0)
  <2> HIDE DEF S, T
  <2> QED
    BY <1>2, <1>3, <1>5
<1> QED
  BY <1>2, <1>6 DEF Occurrences

\* Counts are numbers.
LEMMA CountsAreNumbers ==
    ASSUME CaptureTypeOK PROVE Count("planned") \in Nat /\ Count("complete") \in Nat
  BY CountAppends, "planned" \in Events DEF CaptureTypeOK, Count, Occurrences, Events

\* journal() adds its record to the log and to the count of its kind.
LEMMA JournalCounts ==
    ASSUME CaptureTypeOK, NEW event \in Events, journal(event)
    PROVE  /\ log' = Append(log, event) /\ log' \in Seq(Events) /\ Len(log') = enqueued'
           /\ Count("planned")' = Count("planned") + (IF event = "planned" THEN 1 ELSE 0)
           /\ Count("complete")' = Count("complete") + (IF event = "complete" THEN 1 ELSE 0)
<1>1. log \in Seq(Events) /\ Len(log) = enqueued
  BY DEF CaptureTypeOK
<1>2. log' = Append(log, event) /\ enqueued' = enqueued + 1
  BY DEF journal, Accept
<1>3. log' \in Seq(Events) /\ Len(log') = enqueued'
  BY <1>1, <1>2, RecordAppends
<1>4. /\ Count("planned")' = Count("planned") + (IF event = "planned" THEN 1 ELSE 0)
      /\ Count("complete")' = Count("complete") + (IF event = "complete" THEN 1 ELSE 0)
  <2>1. /\ Count("planned") = Occurrences(log, "planned")
        /\ Count("complete") = Occurrences(log, "complete")
        /\ Count("planned")' = Occurrences(log', "planned")
        /\ Count("complete")' = Occurrences(log', "complete")
    BY DEF Count, Occurrences
  <2> QED
    BY <2>1, <1>1, <1>2, CountAppends
<1> QED
  BY <1>2, <1>3, <1>4

\* A step that records nothing counts nothing.
LEMMA NothingRecorded ==
    ASSUME CaptureTypeOK, log' = log, enqueued' = enqueued
    PROVE  /\ log' \in Seq(Events) /\ Len(log') = enqueued'
           /\ Count("planned")' = Count("planned") /\ Count("complete")' = Count("complete")
  BY DEF CaptureTypeOK, Count

\* journal() that raises, and every other step of main(), records nothing.
LEMMA RaisesRecordsNothing ==
    /\ journal_raises => log' = log /\ enqueued' = enqueued
    /\ Quiet => log' = log /\ enqueued' = enqueued /\ synced' = synced
  BY DEF journal_raises, Refuse, Quiet, vars

\* A call of the journal leaves its final fsync alone.
LEMMA CallsDoNotSync ==
    /\ \A event \in Events : journal(event) => synced' = synced
    /\ journal_raises => synced' = synced
  BY DEF journal, Accept, journal_raises, Refuse, vars

-----------------------------------------------------------------------------
(* Every step of main() keeps the invariant.                               *)

\* What the invariant says of the counters.
LEMMA Numbers ==
    ASSUME CInv
    PROVE  /\ CaptureTypeOK /\ Recorded /\ Positioned /\ Vouched /\ Tallied
           /\ Count("planned") \in Nat /\ Count("complete") \in Nat
           /\ completed \in Nat /\ sent \in Nat /\ log \in Seq(Events)
  BY CountsAreNumbers DEF CInv, CaptureTypeOK

\* A step that leaves the journal alone.
LEMMA QuietStep ==
    ASSUME CInv, Quiet
    PROVE  /\ log' = log /\ log' \in Seq(Events) /\ Len(log') = enqueued' /\ synced' = synced
           /\ Count("planned")' = Count("planned") /\ Count("complete")' = Count("complete")
  BY RaisesRecordsNothing, NothingRecorded DEF CInv

\* A step with a record the journal refuses.
LEMMA RefusedStep ==
    ASSUME CInv, journal_raises
    PROVE  /\ log' = log /\ log' \in Seq(Events) /\ Len(log') = enqueued' /\ synced' = synced
           /\ Count("planned")' = Count("planned") /\ Count("complete")' = Count("complete")
  BY RaisesRecordsNothing, CallsDoNotSync, NothingRecorded DEF CInv

\* A step with a record the journal accepts.
LEMMA RecordStep ==
    ASSUME CInv, NEW event \in Events, journal(event)
    PROVE  /\ log' = Append(log, event) /\ log' \in Seq(Events) /\ Len(log') = enqueued'
           /\ event # "planned" => Count("planned")' = Count("planned")
           /\ event = "planned" => Count("planned")' = Count("planned") + 1
           /\ event # "complete" => Count("complete")' = Count("complete")
           /\ event = "complete" => Count("complete")' = Count("complete") + 1
           /\ synced' = synced
<1>1. /\ log' = Append(log, event) /\ log' \in Seq(Events) /\ Len(log') = enqueued'
      /\ Count("planned")' = Count("planned") + (IF event = "planned" THEN 1 ELSE 0)
      /\ Count("complete")' = Count("complete") + (IF event = "complete" THEN 1 ELSE 0)
  BY JournalCounts DEF CInv
<1>2. synced' = synced
  BY CallsDoNotSync
<1> QED
  BY <1>1, <1>2, Numbers

\* ROS and the lease are set up.
LEMMA OpenKeeps == CInv /\ Open => CInv'
<1> SUFFICES ASSUME CInv, Open PROVE CInv'
  OBVIOUS
<1>1. /\ CaptureTypeOK /\ Recorded /\ Positioned /\ Vouched /\ Tallied
      /\ Count("planned") \in Nat /\ Count("complete") \in Nat
      /\ completed \in Nat /\ sent \in Nat /\ log \in Seq(Events)
  BY Numbers
<1>2. /\ log' = log /\ log' \in Seq(Events) /\ Len(log') = enqueued' /\ synced' = synced
      /\ Count("planned")' = Count("planned") /\ Count("complete")' = Count("complete")
  BY QuietStep DEF Open
<1> USE DEF Open, Goto, Rest
<1>3. CaptureTypeOK'
  BY <1>1, <1>2 DEF CaptureTypeOK, Labels, Positioned, Tallied
<1>4. Recorded'
  BY <1>1, <1>2 DEF Recorded, Positioned
<1>5. Positioned' /\ Vouched'
  BY <1>1, <1>2 DEF Positioned, Vouched, Enough, CaptureTypeOK
<1>6. Tallied'
  BY <1>1, <1>2 DEF Tallied, Positioned
<1> QED
  BY <1>3, <1>4, <1>5, <1>6 DEF CInv

\* The open lease is recorded.
LEMMA OpenedKeeps == CInv /\ Opened => CInv'
<1> SUFFICES ASSUME CInv, Opened PROVE CInv'
  OBVIOUS
<1>1. /\ CaptureTypeOK /\ Recorded /\ Positioned /\ Vouched /\ Tallied
      /\ Count("planned") \in Nat /\ Count("complete") \in Nat
      /\ completed \in Nat /\ sent \in Nat /\ log \in Seq(Events)
  BY Numbers
<1>2. /\ log' = Append(log, "lease_open") /\ log' \in Seq(Events) /\ Len(log') = enqueued'
      /\ Count("planned")' = Count("planned")
      /\ Count("complete")' = Count("complete")
      /\ synced' = synced
  <2>1. "lease_open" \in Events /\ journal("lease_open")
    BY DEF Events, Opened
  <2> QED
    BY <2>1, RecordStep
<1> USE DEF Opened, Goto, Rest
<1>3. CaptureTypeOK'
  BY <1>1, <1>2 DEF CaptureTypeOK, Labels, Positioned, Tallied
<1>4. Recorded'
  BY <1>1, <1>2, BodyBegins DEF Recorded, Positioned
<1>5. Positioned' /\ Vouched'
  BY <1>1, <1>2 DEF Positioned, Vouched, Enough, CaptureTypeOK
<1>6. Tallied'
  BY <1>1, <1>2 DEF Tallied, Recorded
<1> QED
  BY <1>3, <1>4, <1>5, <1>6 DEF CInv

\* Another sample is due.
LEMMA LoopAgainKeeps == CInv /\ LoopAgain => CInv'
<1> SUFFICES ASSUME CInv, LoopAgain PROVE CInv'
  OBVIOUS
<1>1. /\ CaptureTypeOK /\ Recorded /\ Positioned /\ Vouched /\ Tallied
      /\ Count("planned") \in Nat /\ Count("complete") \in Nat
      /\ completed \in Nat /\ sent \in Nat /\ log \in Seq(Events)
  BY Numbers
<1>2. /\ log' = log /\ log' \in Seq(Events) /\ Len(log') = enqueued' /\ synced' = synced
      /\ Count("planned")' = Count("planned") /\ Count("complete")' = Count("complete")
  BY QuietStep DEF LoopAgain
<1> USE DEF LoopAgain, Goto, Rest
<1>3. CaptureTypeOK'
  BY <1>1, <1>2 DEF CaptureTypeOK, Labels, Positioned, Tallied
<1>4. Recorded'
  BY <1>1, <1>2 DEF Recorded, Positioned
<1>5. Positioned' /\ Vouched'
  BY <1>1, <1>2 DEF Positioned, Vouched, Enough, CaptureTypeOK
<1>6. Tallied'
  BY <1>1, <1>2 DEF Tallied, Positioned
<1> QED
  BY <1>3, <1>4, <1>5, <1>6 DEF CInv

\* The loop of samples ends.
LEMMA LoopEndsKeeps == CInv /\ LoopEnds => CInv'
<1> SUFFICES ASSUME CInv, LoopEnds PROVE CInv'
  OBVIOUS
<1>1. /\ CaptureTypeOK /\ Recorded /\ Positioned /\ Vouched /\ Tallied
      /\ Count("planned") \in Nat /\ Count("complete") \in Nat
      /\ completed \in Nat /\ sent \in Nat /\ log \in Seq(Events)
  BY Numbers
<1>2. /\ log' = log /\ log' \in Seq(Events) /\ Len(log') = enqueued' /\ synced' = synced
      /\ Count("planned")' = Count("planned") /\ Count("complete")' = Count("complete")
  BY QuietStep DEF LoopEnds
<1> USE DEF LoopEnds, Goto, Rest
<1>3. CaptureTypeOK'
  BY <1>1, <1>2 DEF CaptureTypeOK, Labels, Positioned, Tallied
<1>4. Recorded'
  BY <1>1, <1>2 DEF Recorded, Positioned
<1>5. Positioned' /\ Vouched'
  BY <1>1, <1>2 DEF Positioned, Vouched, Enough, CaptureTypeOK
<1>6. Tallied'
  BY <1>1, <1>2 DEF Tallied, Positioned
<1> QED
  BY <1>3, <1>4, <1>5, <1>6 DEF CInv

\* The number of samples is judged.
LEMMA VerdictKeeps == CInv /\ Verdict => CInv'
<1> SUFFICES ASSUME CInv, Verdict PROVE CInv'
  OBVIOUS
<1>1. /\ CaptureTypeOK /\ Recorded /\ Positioned /\ Vouched /\ Tallied
      /\ Count("planned") \in Nat /\ Count("complete") \in Nat
      /\ completed \in Nat /\ sent \in Nat /\ log \in Seq(Events)
  BY Numbers
<1>2. /\ log' = log /\ log' \in Seq(Events) /\ Len(log') = enqueued' /\ synced' = synced
      /\ Count("planned")' = Count("planned") /\ Count("complete")' = Count("complete")
  BY QuietStep DEF Verdict
<1> USE DEF Verdict, Goto, Rest
<1>3. CaptureTypeOK'
  BY <1>1, <1>2 DEF CaptureTypeOK, Labels, Positioned, Tallied
<1>4. Recorded'
  BY <1>1, <1>2 DEF Recorded, Positioned
<1>5. Positioned' /\ Vouched'
  BY <1>1, <1>2 DEF Positioned, Vouched, Enough, CaptureTypeOK
<1>6. Tallied'
  BY <1>1, <1>2 DEF Tallied, Positioned
<1> QED
  BY <1>3, <1>4, <1>5, <1>6 DEF CInv

\* A request is planned.
LEMMA PlanKeeps == CInv /\ Plan => CInv'
<1> SUFFICES ASSUME CInv, Plan PROVE CInv'
  OBVIOUS
<1>1. /\ CaptureTypeOK /\ Recorded /\ Positioned /\ Vouched /\ Tallied
      /\ Count("planned") \in Nat /\ Count("complete") \in Nat
      /\ completed \in Nat /\ sent \in Nat /\ log \in Seq(Events)
  BY Numbers
<1>2. /\ log' = Append(log, "planned") /\ log' \in Seq(Events) /\ Len(log') = enqueued'
      /\ Count("planned")' = Count("planned") + 1
      /\ Count("complete")' = Count("complete")
      /\ synced' = synced
  <2>1. "planned" \in Events /\ journal("planned")
    BY DEF Events, Plan
  <2> QED
    BY <2>1, RecordStep
<1> USE DEF Plan, Goto, Rest
<1>3. CaptureTypeOK'
  BY <1>1, <1>2 DEF CaptureTypeOK, Labels, Positioned, Tallied
<1>4. Recorded'
  BY <1>1, <1>2 DEF Recorded, Positioned
<1>5. Positioned' /\ Vouched'
  BY <1>1, <1>2 DEF Positioned, Vouched, Enough, CaptureTypeOK
<1>6. Tallied'
  BY <1>1, <1>2 DEF Tallied, Positioned
<1> QED
  BY <1>3, <1>4, <1>5, <1>6 DEF CInv

\* The planned request is checked.
LEMMA PlannedKeeps == CInv /\ Planned => CInv'
<1> SUFFICES ASSUME CInv, Planned PROVE CInv'
  OBVIOUS
<1>1. /\ CaptureTypeOK /\ Recorded /\ Positioned /\ Vouched /\ Tallied
      /\ Count("planned") \in Nat /\ Count("complete") \in Nat
      /\ completed \in Nat /\ sent \in Nat /\ log \in Seq(Events)
  BY Numbers
<1>2. /\ log' = log /\ log' \in Seq(Events) /\ Len(log') = enqueued' /\ synced' = synced
      /\ Count("planned")' = Count("planned") /\ Count("complete")' = Count("complete")
  BY QuietStep DEF Planned
<1> USE DEF Planned, Goto, Rest
<1>3. CaptureTypeOK'
  BY <1>1, <1>2 DEF CaptureTypeOK, Labels, Positioned, Tallied
<1>4. Recorded'
  BY <1>1, <1>2 DEF Recorded, Positioned
<1>5. Positioned' /\ Vouched'
  BY <1>1, <1>2 DEF Positioned, Vouched, Enough, CaptureTypeOK
<1>6. Tallied'
  BY <1>1, <1>2 DEF Tallied, Positioned
<1> QED
  BY <1>3, <1>4, <1>5, <1>6 DEF CInv

\* The query is answered.
LEMMA ExchangeKeeps == CInv /\ Exchange => CInv'
<1> SUFFICES ASSUME CInv, Exchange PROVE CInv'
  OBVIOUS
<1>1. /\ CaptureTypeOK /\ Recorded /\ Positioned /\ Vouched /\ Tallied
      /\ Count("planned") \in Nat /\ Count("complete") \in Nat
      /\ completed \in Nat /\ sent \in Nat /\ log \in Seq(Events)
  BY Numbers
<1>2. /\ log' = log /\ log' \in Seq(Events) /\ Len(log') = enqueued' /\ synced' = synced
      /\ Count("planned")' = Count("planned") /\ Count("complete")' = Count("complete")
  BY QuietStep DEF Exchange
<1> USE DEF Exchange, Goto, Rest
<1>3. CaptureTypeOK'
  BY <1>1, <1>2 DEF CaptureTypeOK, Labels, Positioned, Tallied
<1>4. Recorded'
  BY <1>1, <1>2 DEF Recorded, Positioned
<1>5. Positioned' /\ Vouched'
  BY <1>1, <1>2 DEF Positioned, Vouched, Enough, CaptureTypeOK
<1>6. Tallied'
  BY <1>1, <1>2 DEF Tallied, Positioned
<1> QED
  BY <1>3, <1>4, <1>5, <1>6 DEF CInv

\* The exchange fails.
LEMMA ExchangeFailsKeeps == CInv /\ ExchangeFails => CInv'
<1> SUFFICES ASSUME CInv, ExchangeFails PROVE CInv'
  OBVIOUS
<1>1. /\ CaptureTypeOK /\ Recorded /\ Positioned /\ Vouched /\ Tallied
      /\ Count("planned") \in Nat /\ Count("complete") \in Nat
      /\ completed \in Nat /\ sent \in Nat /\ log \in Seq(Events)
  BY Numbers
<1>2. /\ log' = log /\ log' \in Seq(Events) /\ Len(log') = enqueued' /\ synced' = synced
      /\ Count("planned")' = Count("planned") /\ Count("complete")' = Count("complete")
  BY QuietStep DEF ExchangeFails
<1> USE DEF ExchangeFails, Goto, Rest
<1>3. CaptureTypeOK'
  BY <1>1, <1>2 DEF CaptureTypeOK, Labels, Positioned, Tallied
<1>4. Recorded'
  BY <1>1, <1>2 DEF Recorded, Positioned
<1>5. Positioned' /\ Vouched'
  BY <1>1, <1>2 DEF Positioned, Vouched, Enough, CaptureTypeOK
<1>6. Tallied'
  BY <1>1, <1>2 DEF Tallied, Positioned
<1> QED
  BY <1>3, <1>4, <1>5, <1>6 DEF CInv

\* An answer is recorded.
LEMMA AnsweredKeeps == CInv /\ Answered => CInv'
<1> SUFFICES ASSUME CInv, Answered PROVE CInv'
  OBVIOUS
<1>1. /\ CaptureTypeOK /\ Recorded /\ Positioned /\ Vouched /\ Tallied
      /\ Count("planned") \in Nat /\ Count("complete") \in Nat
      /\ completed \in Nat /\ sent \in Nat /\ log \in Seq(Events)
  BY Numbers
<1>2. /\ log' = Append(log, "complete") /\ log' \in Seq(Events) /\ Len(log') = enqueued'
      /\ Count("planned")' = Count("planned")
      /\ Count("complete")' = Count("complete") + 1
      /\ synced' = synced
  <2>1. "complete" \in Events /\ journal("complete")
    BY DEF Events, Answered
  <2> QED
    BY <2>1, RecordStep
<1> USE DEF Answered, Goto, Rest
<1>3. CaptureTypeOK'
  BY <1>1, <1>2 DEF CaptureTypeOK, Labels, Positioned, Tallied
<1>4. Recorded'
  BY <1>1, <1>2 DEF Recorded, Positioned
<1>5. Positioned' /\ Vouched'
  BY <1>1, <1>2 DEF Positioned, Vouched, Enough, CaptureTypeOK
<1>6. Tallied'
  BY <1>1, <1>2 DEF Tallied, Positioned
<1> QED
  BY <1>3, <1>4, <1>5, <1>6 DEF CInv

\* The sample counts.
LEMMA ConfirmKeeps == CInv /\ Confirm => CInv'
<1> SUFFICES ASSUME CInv, Confirm PROVE CInv'
  OBVIOUS
<1>1. /\ CaptureTypeOK /\ Recorded /\ Positioned /\ Vouched /\ Tallied
      /\ Count("planned") \in Nat /\ Count("complete") \in Nat
      /\ completed \in Nat /\ sent \in Nat /\ log \in Seq(Events)
  BY Numbers
<1>2. /\ log' = log /\ log' \in Seq(Events) /\ Len(log') = enqueued' /\ synced' = synced
      /\ Count("planned")' = Count("planned") /\ Count("complete")' = Count("complete")
  BY QuietStep DEF Confirm
<1> USE DEF Confirm, Goto, Rest
<1>3. CaptureTypeOK'
  BY <1>1, <1>2 DEF CaptureTypeOK, Labels, Positioned, Tallied
<1>4. Recorded'
  <2>1. /\ pc = "confirm" /\ pc' = "publish" /\ completed' = completed + 1 /\ result' = result
        /\ completed' - 1 = completed
    BY <1>1
  <2> HIDE DEF Confirm
  <2> QED
    BY <1>1, <1>2, <2>1 DEF Recorded
<1>5. Positioned' /\ Vouched'
  BY <1>1, <1>2 DEF Positioned, Vouched, Enough, CaptureTypeOK
<1>6. Tallied'
  BY <1>1, <1>2 DEF Tallied, Positioned
<1> QED
  BY <1>3, <1>4, <1>5, <1>6 DEF CInv

\* It is published.
LEMMA PublishKeeps == CInv /\ Publish => CInv'
<1> SUFFICES ASSUME CInv, Publish PROVE CInv'
  OBVIOUS
<1>1. /\ CaptureTypeOK /\ Recorded /\ Positioned /\ Vouched /\ Tallied
      /\ Count("planned") \in Nat /\ Count("complete") \in Nat
      /\ completed \in Nat /\ sent \in Nat /\ log \in Seq(Events)
  BY Numbers
<1>2. /\ log' = log /\ log' \in Seq(Events) /\ Len(log') = enqueued' /\ synced' = synced
      /\ Count("planned")' = Count("planned") /\ Count("complete")' = Count("complete")
  BY QuietStep DEF Publish
<1> USE DEF Publish, Goto, Rest
<1>3. CaptureTypeOK'
  BY <1>1, <1>2 DEF CaptureTypeOK, Labels, Positioned, Tallied
<1>4. Recorded'
  <2>1. /\ pc = "publish" /\ completed' = completed /\ result' = result /\ completed - 1 \in Nat
        /\ (completed - 1) + 1 = completed /\ pc' = IF Preview THEN "preview" ELSE "pace"
        /\ log = Append(Append(Body(completed - 1), "planned"), "complete")
    BY <1>1 DEF Recorded
  <2>2. ~Preview => Body(completed) = log
    BY <2>1, BodyGrows
  <2> HIDE DEF Publish
  <2> QED
    BY <1>1, <1>2, <2>1, <2>2 DEF Recorded
<1>5. Positioned' /\ Vouched'
  BY <1>1, <1>2 DEF Positioned, Vouched, Enough, CaptureTypeOK
<1>6. Tallied'
  BY <1>1, <1>2 DEF Tallied, Positioned
<1> QED
  BY <1>3, <1>4, <1>5, <1>6 DEF CInv

\* The preview is recorded.
LEMMA PublishPreviewKeeps == CInv /\ PublishPreview => CInv'
<1> SUFFICES ASSUME CInv, PublishPreview PROVE CInv'
  OBVIOUS
<1>1. /\ CaptureTypeOK /\ Recorded /\ Positioned /\ Vouched /\ Tallied
      /\ Count("planned") \in Nat /\ Count("complete") \in Nat
      /\ completed \in Nat /\ sent \in Nat /\ log \in Seq(Events)
  BY Numbers
<1>2. /\ log' = Append(log, "preview") /\ log' \in Seq(Events) /\ Len(log') = enqueued'
      /\ Count("planned")' = Count("planned")
      /\ Count("complete")' = Count("complete")
      /\ synced' = synced
  <2>1. "preview" \in Events /\ journal("preview")
    BY DEF Events, PublishPreview
  <2> QED
    BY <2>1, RecordStep
<1> USE DEF PublishPreview, Goto, Rest
<1>3. CaptureTypeOK'
  BY <1>1, <1>2 DEF CaptureTypeOK, Labels, Positioned, Tallied
<1>4. Recorded'
  <2>1. /\ pc' = "pace" /\ completed' = completed /\ result' = result /\ completed - 1 \in Nat
        /\ (completed - 1) + 1 = completed /\ Preview
        /\ log = Append(Append(Body(completed - 1), "planned"), "complete")
    BY <1>1 DEF Recorded, Positioned
  <2>2. Body(completed) = log'
    BY <1>2, <2>1, BodyGrows
  <2> HIDE DEF PublishPreview
  <2> QED
    BY <1>1, <1>2, <2>1, <2>2 DEF Recorded
<1>5. Positioned' /\ Vouched'
  BY <1>1, <1>2 DEF Positioned, Vouched, Enough, CaptureTypeOK
<1>6. Tallied'
  BY <1>1, <1>2 DEF Tallied, Positioned
<1> QED
  BY <1>3, <1>4, <1>5, <1>6 DEF CInv

\* The next sample comes.
LEMMA PaceKeeps == CInv /\ Pace => CInv'
<1> SUFFICES ASSUME CInv, Pace PROVE CInv'
  OBVIOUS
<1>1. /\ CaptureTypeOK /\ Recorded /\ Positioned /\ Vouched /\ Tallied
      /\ Count("planned") \in Nat /\ Count("complete") \in Nat
      /\ completed \in Nat /\ sent \in Nat /\ log \in Seq(Events)
  BY Numbers
<1>2. /\ log' = log /\ log' \in Seq(Events) /\ Len(log') = enqueued' /\ synced' = synced
      /\ Count("planned")' = Count("planned") /\ Count("complete")' = Count("complete")
  BY QuietStep DEF Pace
<1> USE DEF Pace, Goto, Rest
<1>3. CaptureTypeOK'
  BY <1>1, <1>2 DEF CaptureTypeOK, Labels, Positioned, Tallied
<1>4. Recorded'
  BY <1>1, <1>2 DEF Recorded, Positioned
<1>5. Positioned' /\ Vouched'
  BY <1>1, <1>2 DEF Positioned, Vouched, Enough, CaptureTypeOK
<1>6. Tallied'
  BY <1>1, <1>2 DEF Tallied, Positioned
<1> QED
  BY <1>3, <1>4, <1>5, <1>6 DEF CInv

\* The completion is recorded.
LEMMA FinishKeeps == CInv /\ Finish => CInv'
<1> SUFFICES ASSUME CInv, Finish PROVE CInv'
  OBVIOUS
<1>1. /\ CaptureTypeOK /\ Recorded /\ Positioned /\ Vouched /\ Tallied
      /\ Count("planned") \in Nat /\ Count("complete") \in Nat
      /\ completed \in Nat /\ sent \in Nat /\ log \in Seq(Events)
  BY Numbers
<1>2. /\ log' = Append(log, "capture_complete") /\ log' \in Seq(Events) /\ Len(log') = enqueued'
      /\ Count("planned")' = Count("planned")
      /\ Count("complete")' = Count("complete")
      /\ synced' = synced
  <2>1. "capture_complete" \in Events /\ journal("capture_complete")
    BY DEF Events, Finish
  <2> QED
    BY <2>1, RecordStep
<1> USE DEF Finish, Goto, Rest
<1>3. CaptureTypeOK'
  BY <1>1, <1>2 DEF CaptureTypeOK, Labels, Positioned, Tallied
<1>4. Recorded'
  BY <1>1, <1>2 DEF Recorded, Positioned, Finished
<1>5. Positioned' /\ Vouched'
  BY <1>1, <1>2 DEF Positioned, Vouched, Enough, CaptureTypeOK
<1>6. Tallied'
  BY <1>1, <1>2 DEF Tallied, Positioned
<1> QED
  BY <1>3, <1>4, <1>5, <1>6 DEF CInv

\* The journal is found unhealthy.
LEMMA CheckFailsKeeps == CInv /\ CheckFails => CInv'
<1> SUFFICES ASSUME CInv, CheckFails PROVE CInv'
  OBVIOUS
<1>1. /\ CaptureTypeOK /\ Recorded /\ Positioned /\ Vouched /\ Tallied
      /\ Count("planned") \in Nat /\ Count("complete") \in Nat
      /\ completed \in Nat /\ sent \in Nat /\ log \in Seq(Events)
  BY Numbers
<1>2. /\ log' = log /\ log' \in Seq(Events) /\ Len(log') = enqueued' /\ synced' = synced
      /\ Count("planned")' = Count("planned") /\ Count("complete")' = Count("complete")
  BY QuietStep DEF CheckFails
<1> USE DEF CheckFails, Goto, Rest, check_journal
<1>3. CaptureTypeOK'
  BY <1>1, <1>2 DEF CaptureTypeOK, Labels, Positioned, Tallied
<1>4. Recorded'
  BY <1>1, <1>2 DEF Recorded, Positioned
<1>5. Positioned' /\ Vouched'
  BY <1>1, <1>2 DEF Positioned, Vouched, Enough, CaptureTypeOK
<1>6. Tallied'
  BY <1>1, <1>2 DEF Tallied, Positioned
<1> QED
  BY <1>3, <1>4, <1>5, <1>6 DEF CInv

\* A call raises.
LEMMA CallFailsKeeps == CInv /\ CallFails => CInv'
<1> SUFFICES ASSUME CInv, CallFails PROVE CInv'
  OBVIOUS
<1>1. /\ CaptureTypeOK /\ Recorded /\ Positioned /\ Vouched /\ Tallied
      /\ Count("planned") \in Nat /\ Count("complete") \in Nat
      /\ completed \in Nat /\ sent \in Nat /\ log \in Seq(Events)
  BY Numbers
<1>2. /\ log' = log /\ log' \in Seq(Events) /\ Len(log') = enqueued' /\ synced' = synced
      /\ Count("planned")' = Count("planned") /\ Count("complete")' = Count("complete")
  BY QuietStep DEF CallFails
<1> USE DEF CallFails, Goto, Rest
<1>3. CaptureTypeOK'
  BY <1>1, <1>2 DEF CaptureTypeOK, Labels, Positioned, Tallied
<1>4. Recorded'
  BY <1>1, <1>2 DEF Recorded, Positioned
<1>5. Positioned' /\ Vouched'
  BY <1>1, <1>2 DEF Positioned, Vouched, Enough, CaptureTypeOK
<1>6. Tallied'
  BY <1>1, <1>2 DEF Tallied, Positioned
<1> QED
  BY <1>3, <1>4, <1>5, <1>6 DEF CInv

\* The failure is noted.
LEMMA FailedKeeps == CInv /\ Failed => CInv'
<1> SUFFICES ASSUME CInv, Failed PROVE CInv'
  OBVIOUS
<1>1. /\ CaptureTypeOK /\ Recorded /\ Positioned /\ Vouched /\ Tallied
      /\ Count("planned") \in Nat /\ Count("complete") \in Nat
      /\ completed \in Nat /\ sent \in Nat /\ log \in Seq(Events)
  BY Numbers
<1>2. /\ log' = log /\ log' \in Seq(Events) /\ Len(log') = enqueued' /\ synced' = synced
      /\ Count("planned")' = Count("planned") /\ Count("complete")' = Count("complete")
  BY QuietStep DEF Failed
<1> USE DEF Failed, Goto, Rest, fails
<1>3. CaptureTypeOK'
  BY <1>1, <1>2 DEF CaptureTypeOK, Labels, Positioned, Tallied
<1>4. Recorded'
  BY <1>1, <1>2 DEF Recorded, Positioned
<1>5. Positioned' /\ Vouched'
  BY <1>1, <1>2 DEF Positioned, Vouched, Enough, CaptureTypeOK
<1>6. Tallied'
  BY <1>1, <1>2 DEF Tallied, Positioned
<1> QED
  BY <1>3, <1>4, <1>5, <1>6 DEF CInv

\* The failure is recorded.
LEMMA FailureKeeps == CInv /\ Failure => CInv'
<1> SUFFICES ASSUME CInv, Failure PROVE CInv'
  OBVIOUS
<1>1. /\ CaptureTypeOK /\ Recorded /\ Positioned /\ Vouched /\ Tallied
      /\ Count("planned") \in Nat /\ Count("complete") \in Nat
      /\ completed \in Nat /\ sent \in Nat /\ log \in Seq(Events)
  BY Numbers
<1>2. /\ log' \in Seq(Events) /\ Len(log') = enqueued' /\ synced' = synced
      /\ Count("planned")' = Count("planned") /\ Count("complete")' = Count("complete")
      /\ \/ log' = Append(log, "capture_failed") /\ result' = result
         \/ result' = IF result = "ok" THEN "failed" ELSE result
  <2>1. "capture_failed" \in Events
    BY DEF Events
  <2>2. CASE journal("capture_failed") /\ result' = result
    BY <2>1, <2>2, RecordStep
  <2>3. CASE journal_raises /\ result' = IF result = "ok" THEN "failed" ELSE result
    BY <2>3, RefusedStep
  <2> QED
    BY <2>2, <2>3 DEF safe_journal, Failure
<1>a. pc = "failure" /\ pc' = "release" /\ UNCHANGED <<completed, sent, stopped, summary>>
  BY DEF Failure, Goto, Rest
<1>3. CaptureTypeOK'
  BY <1>1, <1>2, <1>a DEF CaptureTypeOK, Labels, Positioned, Tallied
<1>4. Recorded'
  BY <1>1, <1>2, <1>a DEF Recorded, Positioned
<1>5. Positioned' /\ Vouched'
  BY <1>1, <1>2, <1>a DEF Positioned, Vouched, Enough, CaptureTypeOK
<1>6. Tallied'
  BY <1>1, <1>2, <1>a DEF Tallied, Positioned
<1> QED
  BY <1>3, <1>4, <1>5, <1>6 DEF CInv

\* The lease is returned.
LEMMA ReleaseKeeps == CInv /\ Release => CInv'
<1> SUFFICES ASSUME CInv, Release PROVE CInv'
  OBVIOUS
<1>1. /\ CaptureTypeOK /\ Recorded /\ Positioned /\ Vouched /\ Tallied
      /\ Count("planned") \in Nat /\ Count("complete") \in Nat
      /\ completed \in Nat /\ sent \in Nat /\ log \in Seq(Events)
  BY Numbers
<1>2. /\ log' = log /\ log' \in Seq(Events) /\ Len(log') = enqueued' /\ synced' = synced
      /\ Count("planned")' = Count("planned") /\ Count("complete")' = Count("complete")
  BY QuietStep DEF Release
<1> USE DEF Release, Goto, Rest
<1>3. CaptureTypeOK'
  BY <1>1, <1>2 DEF CaptureTypeOK, Labels, Positioned, Tallied
<1>4. Recorded'
  BY <1>1, <1>2 DEF Recorded, Positioned, PreviewEnded
<1>5. Positioned' /\ Vouched'
  BY <1>1, <1>2 DEF Positioned, Vouched, Enough, CaptureTypeOK
<1>6. Tallied'
  BY <1>1, <1>2 DEF Tallied, Positioned
<1> QED
  BY <1>3, <1>4, <1>5, <1>6 DEF CInv

\* The preview's end is recorded.
LEMMA PreviewEndsKeeps == CInv /\ PreviewEnds => CInv'
<1> SUFFICES ASSUME CInv, PreviewEnds PROVE CInv'
  OBVIOUS
<1>1. /\ CaptureTypeOK /\ Recorded /\ Positioned /\ Vouched /\ Tallied
      /\ Count("planned") \in Nat /\ Count("complete") \in Nat
      /\ completed \in Nat /\ sent \in Nat /\ log \in Seq(Events)
  BY Numbers
<1>2. /\ log' \in Seq(Events) /\ Len(log') = enqueued' /\ synced' = synced
      /\ Count("planned")' = Count("planned") /\ Count("complete")' = Count("complete")
      /\ \/ log' = Append(log, "preview_end") /\ result' = result
         \/ result' = IF result = "ok" THEN "failed" ELSE result
  <2>1. "preview_end" \in Events
    BY DEF Events
  <2>2. CASE journal("preview_end") /\ result' = result
    BY <2>1, <2>2, RecordStep
  <2>3. CASE journal_raises /\ result' = IF result = "ok" THEN "failed" ELSE result
    BY <2>3, RefusedStep
  <2> QED
    BY <2>2, <2>3 DEF safe_journal, PreviewEnds
<1>a. pc = "ended" /\ pc' = "released" /\ UNCHANGED <<completed, sent, stopped, summary>>
  BY DEF PreviewEnds, Goto, Rest
<1>3. CaptureTypeOK'
  BY <1>1, <1>2, <1>a DEF CaptureTypeOK, Labels, Positioned, Tallied
<1>4. Recorded'
  BY <1>1, <1>2, <1>a DEF Recorded, Positioned, PreviewEnded
<1>5. Positioned' /\ Vouched'
  BY <1>1, <1>2, <1>a DEF Positioned, Vouched, Enough, CaptureTypeOK
<1>6. Tallied'
  BY <1>1, <1>2, <1>a DEF Tallied, Positioned
<1> QED
  BY <1>3, <1>4, <1>5, <1>6 DEF CInv

\* The returned lease is recorded.
LEMMA ReleasedKeeps == CInv /\ Released => CInv'
<1> SUFFICES ASSUME CInv, Released PROVE CInv'
  OBVIOUS
<1>1. /\ CaptureTypeOK /\ Recorded /\ Positioned /\ Vouched /\ Tallied
      /\ Count("planned") \in Nat /\ Count("complete") \in Nat
      /\ completed \in Nat /\ sent \in Nat /\ log \in Seq(Events)
  BY Numbers
<1>2. /\ log' \in Seq(Events) /\ Len(log') = enqueued' /\ synced' = synced
      /\ Count("planned")' = Count("planned") /\ Count("complete")' = Count("complete")
      /\ \/ log' = Append(log, "lease_closed") /\ result' = result
         \/ result' = IF result = "ok" THEN "failed" ELSE result
  <2>1. "lease_closed" \in Events
    BY DEF Events
  <2>2. CASE journal("lease_closed") /\ result' = result
    BY <2>1, <2>2, RecordStep
  <2>3. CASE journal_raises /\ result' = IF result = "ok" THEN "failed" ELSE result
    BY <2>3, RefusedStep
  <2> QED
    BY <2>2, <2>3 DEF safe_journal, Released
<1>a. pc = "released" /\ pc' = (IF Recorder THEN "ack" ELSE "close")
      /\ UNCHANGED <<completed, sent, stopped, summary>>
  BY DEF Released, Goto, Rest
<1>3. CaptureTypeOK'
  BY <1>1, <1>2, <1>a DEF CaptureTypeOK, Labels, Positioned, Tallied
<1>4. Recorded'
  BY <1>1, <1>2, <1>a, SessionIs DEF Recorded, Positioned, LeaseClosed
<1>5. Positioned' /\ Vouched'
  BY <1>1, <1>2, <1>a DEF Positioned, Vouched, Enough, CaptureTypeOK
<1>6. Tallied'
  BY <1>1, <1>2, <1>a DEF Tallied, Positioned
<1> QED
  BY <1>3, <1>4, <1>5, <1>6 DEF CInv

\* The acknowledgement is recorded.
LEMMA AcknowledgedKeeps == CInv /\ Acknowledged => CInv'
<1> SUFFICES ASSUME CInv, Acknowledged PROVE CInv'
  OBVIOUS
<1>1. /\ CaptureTypeOK /\ Recorded /\ Positioned /\ Vouched /\ Tallied
      /\ Count("planned") \in Nat /\ Count("complete") \in Nat
      /\ completed \in Nat /\ sent \in Nat /\ log \in Seq(Events)
  BY Numbers
<1>2. /\ log' \in Seq(Events) /\ Len(log') = enqueued' /\ synced' = synced
      /\ Count("planned")' = Count("planned") /\ Count("complete")' = Count("complete")
      /\ \/ log' = Append(log, "publication_ack") /\ result' = result
         \/ result' = IF result = "ok" THEN "failed" ELSE result
  <2>1. "publication_ack" \in Events
    BY DEF Events
  <2>2. CASE journal("publication_ack") /\ result' = result
    BY <2>1, <2>2, RecordStep
  <2>3. CASE journal_raises /\ result' = IF result = "ok" THEN "failed" ELSE result
    BY <2>3, RefusedStep
  <2> QED
    BY <2>2, <2>3 DEF safe_journal, Acknowledged
<1>a. pc = "ack" /\ pc' = "close" /\ UNCHANGED <<completed, sent, stopped, summary>>
  BY DEF Acknowledged, Goto, Rest
<1>3. CaptureTypeOK'
  BY <1>1, <1>2, <1>a DEF CaptureTypeOK, Labels, Positioned, Tallied
<1>4. Recorded'
  BY <1>1, <1>2, <1>a, SessionIs DEF Recorded, Positioned
<1>5. Positioned' /\ Vouched'
  BY <1>1, <1>2, <1>a DEF Positioned, Vouched, Enough, CaptureTypeOK
<1>6. Tallied'
  BY <1>1, <1>2, <1>a DEF Tallied, Positioned
<1> QED
  BY <1>3, <1>4, <1>5, <1>6 DEF CInv

\* Returning the lease or publishing raises.
LEMMA ReleaseFailsKeeps == CInv /\ ReleaseFails => CInv'
<1> SUFFICES ASSUME CInv, ReleaseFails PROVE CInv'
  OBVIOUS
<1>1. /\ CaptureTypeOK /\ Recorded /\ Positioned /\ Vouched /\ Tallied
      /\ Count("planned") \in Nat /\ Count("complete") \in Nat
      /\ completed \in Nat /\ sent \in Nat /\ log \in Seq(Events)
  BY Numbers
<1>2. /\ log' = log /\ log' \in Seq(Events) /\ Len(log') = enqueued' /\ synced' = synced
      /\ Count("planned")' = Count("planned") /\ Count("complete")' = Count("complete")
  BY QuietStep DEF ReleaseFails
<1> USE DEF ReleaseFails, Goto, Rest, fails
<1>3. CaptureTypeOK'
  BY <1>1, <1>2 DEF CaptureTypeOK, Labels, Positioned, Tallied
<1>4. Recorded'
  BY <1>1, <1>2 DEF Recorded, Positioned
<1>5. Positioned' /\ Vouched'
  BY <1>1, <1>2 DEF Positioned, Vouched, Enough, CaptureTypeOK
<1>6. Tallied'
  BY <1>1, <1>2 DEF Tallied, Positioned
<1> QED
  BY <1>3, <1>4, <1>5, <1>6 DEF CInv

\* The summary is written.
LEMMA SummarizeKeeps == CInv /\ Summarize => CInv'
<1> SUFFICES ASSUME CInv, Summarize PROVE CInv'
  OBVIOUS
<1>1. /\ CaptureTypeOK /\ Recorded /\ Positioned /\ Vouched /\ Tallied
      /\ Count("planned") \in Nat /\ Count("complete") \in Nat
      /\ completed \in Nat /\ sent \in Nat /\ log \in Seq(Events)
  BY Numbers
<1>2. /\ log' = log /\ log' \in Seq(Events) /\ Len(log') = enqueued' /\ synced' = synced
      /\ Count("planned")' = Count("planned") /\ Count("complete")' = Count("complete")
  BY QuietStep DEF Summarize
<1> USE DEF Summarize, Goto, Rest
<1>3. CaptureTypeOK'
  BY <1>1, <1>2 DEF CaptureTypeOK, Labels, Positioned, Tallied
<1>4. Recorded'
  BY <1>1, <1>2 DEF Recorded, Positioned
<1>5. Positioned' /\ Vouched'
  <2>1. /\ pc = "summary" /\ pc' = "done" /\ UNCHANGED <<completed, stopped, result>>
        /\ summary' = "synchronized" => result = "ok" /\ synced
    BY <1>1
  <2> HIDE DEF Summarize
  <2> QED
    BY <1>1, <1>2, <2>1 DEF Positioned, Vouched, Enough, Recorded
<1>6. Tallied'
  BY <1>1, <1>2 DEF Tallied, Positioned
<1> QED
  BY <1>3, <1>4, <1>5, <1>6 DEF CInv

\* The summary cannot be written.
LEMMA SummaryFailsKeeps == CInv /\ SummaryFails => CInv'
<1> SUFFICES ASSUME CInv, SummaryFails PROVE CInv'
  OBVIOUS
<1>1. /\ CaptureTypeOK /\ Recorded /\ Positioned /\ Vouched /\ Tallied
      /\ Count("planned") \in Nat /\ Count("complete") \in Nat
      /\ completed \in Nat /\ sent \in Nat /\ log \in Seq(Events)
  BY Numbers
<1>2. /\ log' = log /\ log' \in Seq(Events) /\ Len(log') = enqueued' /\ synced' = synced
      /\ Count("planned")' = Count("planned") /\ Count("complete")' = Count("complete")
  BY QuietStep DEF SummaryFails
<1> USE DEF SummaryFails, Goto, Rest
<1>3. CaptureTypeOK'
  BY <1>1, <1>2 DEF CaptureTypeOK, Labels, Positioned, Tallied
<1>4. Recorded'
  BY <1>1, <1>2 DEF Recorded, Positioned
<1>5. Positioned' /\ Vouched'
  BY <1>1, <1>2 DEF Positioned, Vouched, Enough, CaptureTypeOK
<1>6. Tallied'
  BY <1>1, <1>2 DEF Tallied, Positioned
<1> QED
  BY <1>3, <1>4, <1>5, <1>6 DEF CInv

\* The failed transaction is recorded, or not.
LEMMA UnansweredKeeps == CInv /\ Unanswered => CInv'
<1> SUFFICES ASSUME CInv, Unanswered PROVE CInv'
  OBVIOUS
<1>1. /\ CaptureTypeOK /\ Recorded /\ Positioned /\ Vouched /\ Tallied
      /\ Count("planned") \in Nat /\ Count("complete") \in Nat
      /\ completed \in Nat /\ sent \in Nat /\ log \in Seq(Events)
  BY Numbers
<1>2. /\ log' \in Seq(Events) /\ Len(log') = enqueued' /\ synced' = synced
      /\ Count("planned")' = Count("planned") /\ Count("complete")' = Count("complete")
  <2>1. "transaction_failed" \in Events
    BY DEF Events
  <2> QED
    BY <2>1, RecordStep, RefusedStep DEF Unanswered
<1> USE DEF Unanswered, Goto, Rest
<1>3. CaptureTypeOK'
  BY <1>1, <1>2 DEF CaptureTypeOK, Labels, Positioned, Tallied
<1>4. Recorded'
  BY <1>1, <1>2 DEF Recorded, Positioned
<1>5. Positioned' /\ Vouched'
  BY <1>1, <1>2 DEF Positioned, Vouched, Enough, CaptureTypeOK
<1>6. Tallied'
  BY <1>1, <1>2 DEF Tallied, Positioned
<1> QED
  BY <1>3, <1>4, <1>5, <1>6 DEF CInv

\* A refused record ends the capture.
LEMMA RecordRefusedKeeps == CInv /\ RecordRefused => CInv'
<1> SUFFICES ASSUME CInv, RecordRefused PROVE CInv'
  OBVIOUS
<1>1. /\ CaptureTypeOK /\ Recorded /\ Positioned /\ Vouched /\ Tallied
      /\ Count("planned") \in Nat /\ Count("complete") \in Nat
      /\ completed \in Nat /\ sent \in Nat /\ log \in Seq(Events)
  BY Numbers
<1>2. /\ log' \in Seq(Events) /\ Len(log') = enqueued' /\ synced' = synced
      /\ Count("planned")' = Count("planned") /\ Count("complete")' = Count("complete")
  BY RefusedStep DEF RecordRefused
<1> USE DEF RecordRefused, Goto, Rest
<1>3. CaptureTypeOK'
  BY <1>1, <1>2 DEF CaptureTypeOK, Labels, Positioned, Tallied
<1>4. Recorded'
  BY <1>1, <1>2 DEF Recorded, Positioned
<1>5. Positioned' /\ Vouched'
  BY <1>1, <1>2 DEF Positioned, Vouched, Enough, CaptureTypeOK
<1>6. Tallied'
  BY <1>1, <1>2 DEF Tallied, Positioned
<1> QED
  BY <1>3, <1>4, <1>5, <1>6 DEF CInv

\* The preview is blocked; whatever becomes of it, the failure is known.
LEMMA BlockedKeeps == CInv /\ Blocked => CInv'
<1> SUFFICES ASSUME CInv, Blocked PROVE CInv'
  OBVIOUS
<1>1. /\ CaptureTypeOK /\ Recorded /\ Positioned /\ Vouched /\ Tallied
      /\ Count("planned") \in Nat /\ Count("complete") \in Nat
      /\ completed \in Nat /\ sent \in Nat /\ log \in Seq(Events)
  BY Numbers
<1>2. /\ log' \in Seq(Events) /\ Len(log') = enqueued' /\ synced' = synced
      /\ Count("planned")' = Count("planned") /\ Count("complete")' = Count("complete")
  <2>1. "preview_blocked" \in Events
    BY DEF Events
  <2> QED
    BY <2>1, RecordStep, RefusedStep DEF Blocked, safe_journal
<1>a. /\ pc = "blocked" /\ pc' \in {"failure", "release"}
      /\ result' \in {result, "failed", "raised"}
      /\ (result # "ok" => result' # "ok") /\ UNCHANGED <<completed, sent, stopped, summary>>
  BY DEF Blocked, safe_journal, Goto, Rest
<1>3. CaptureTypeOK'
  BY <1>1, <1>2, <1>a DEF CaptureTypeOK, Labels, Positioned, Tallied
<1>4. Recorded'
  BY <1>1, <1>2, <1>a DEF Recorded, Positioned
<1>5. Positioned' /\ Vouched'
  BY <1>1, <1>2, <1>a DEF Positioned, Vouched, Enough, CaptureTypeOK
<1>6. Tallied'
  BY <1>1, <1>2, <1>a DEF Tallied, Positioned
<1> QED
  BY <1>3, <1>4, <1>5, <1>6 DEF CInv

\* A missing acknowledgement is a failure.
LEMMA UnacknowledgedKeeps == CInv /\ Unacknowledged => CInv'
<1> SUFFICES ASSUME CInv, Unacknowledged PROVE CInv'
  OBVIOUS
<1>1. /\ CaptureTypeOK /\ Recorded /\ Positioned /\ Vouched /\ Tallied
      /\ Count("planned") \in Nat /\ Count("complete") \in Nat
      /\ completed \in Nat /\ sent \in Nat /\ log \in Seq(Events)
  BY Numbers
<1>2. /\ log' \in Seq(Events) /\ Len(log') = enqueued' /\ synced' = synced
      /\ Count("planned")' = Count("planned") /\ Count("complete")' = Count("complete")
  <2>1. "publication_ack" \in Events
    BY DEF Events
  <2> QED
    BY <2>1, RecordStep, RefusedStep DEF Unacknowledged
<1> USE DEF Unacknowledged, Goto, Rest, fails
<1>3. CaptureTypeOK'
  BY <1>1, <1>2 DEF CaptureTypeOK, Labels, Positioned, Tallied
<1>4. Recorded'
  BY <1>1, <1>2 DEF Recorded, Positioned
<1>5. Positioned' /\ Vouched'
  BY <1>1, <1>2 DEF Positioned, Vouched, Enough, CaptureTypeOK
<1>6. Tallied'
  BY <1>1, <1>2 DEF Tallied, Positioned
<1> QED
  BY <1>3, <1>4, <1>5, <1>6 DEF CInv

\* close() begins.
LEMMA CloseKeeps == CInv /\ Close => CInv'
<1> SUFFICES ASSUME CInv, Close PROVE CInv'
  OBVIOUS
<1>1. /\ CaptureTypeOK /\ Recorded /\ Positioned /\ Vouched /\ Tallied
      /\ Count("planned") \in Nat /\ Count("complete") \in Nat
      /\ completed \in Nat /\ sent \in Nat /\ log \in Seq(Events)
  BY Numbers
<1>2. /\ log' = log /\ log' \in Seq(Events) /\ Len(log') = enqueued' /\ synced' = synced
      /\ Count("planned")' = Count("planned") /\ Count("complete")' = Count("complete")
  BY NothingRecorded DEF CInv, Close, CloseBegins
<1> USE DEF Close, Goto, Rest
<1>3. CaptureTypeOK'
  BY <1>1, <1>2 DEF CaptureTypeOK, Labels, Positioned, Tallied
<1>4. Recorded'
  BY <1>1, <1>2 DEF Recorded, Positioned
<1>5. Positioned' /\ Vouched'
  BY <1>1, <1>2 DEF Positioned, Vouched, Enough, CaptureTypeOK
<1>6. Tallied'
  BY <1>1, <1>2 DEF Tallied, Positioned
<1> QED
  BY <1>3, <1>4, <1>5, <1>6 DEF CInv

\* close() returns or gives up.
LEMMA JoinedKeeps == CInv /\ Joined => CInv'
<1> SUFFICES ASSUME CInv, Joined PROVE CInv'
  OBVIOUS
<1>1. /\ CaptureTypeOK /\ Recorded /\ Positioned /\ Vouched /\ Tallied
      /\ Count("planned") \in Nat /\ Count("complete") \in Nat
      /\ completed \in Nat /\ sent \in Nat /\ log \in Seq(Events)
  BY Numbers
<1>2. /\ log' = log /\ log' \in Seq(Events) /\ Len(log') = enqueued' /\ synced' = synced
      /\ Count("planned")' = Count("planned") /\ Count("complete")' = Count("complete")
  BY NothingRecorded DEF CInv, Joined, CloseReturns, CloseTimesOut
<1>a. /\ pc = "join" /\ pc' = "summary" /\ UNCHANGED <<completed, sent, stopped, summary>>
      /\ result' \in {result, "failed"}
  BY DEF Joined, Goto, Rest
<1>3. CaptureTypeOK'
  BY <1>1, <1>2, <1>a DEF CaptureTypeOK, Labels, Positioned, Tallied
<1>4. Recorded'
  BY <1>1, <1>2, <1>a DEF Recorded, Positioned
<1>5. Positioned' /\ Vouched'
  BY <1>1, <1>2, <1>a DEF Positioned, Vouched, Enough, CaptureTypeOK
<1>6. Tallied'
  BY <1>1, <1>2, <1>a DEF Tallied, Positioned
<1> QED
  BY <1>3, <1>4, <1>5, <1>6 DEF CInv

\* Every step of main() keeps the invariant.
LEMMA MainKeeps == CInv /\ Main => CInv'
  BY OpenKeeps, OpenedKeeps, LoopAgainKeeps, LoopEndsKeeps, VerdictKeeps, PlanKeeps,
     PlannedKeeps, ExchangeKeeps, ExchangeFailsKeeps, UnansweredKeeps, AnsweredKeeps,
     ConfirmKeeps, PublishKeeps, PublishPreviewKeeps, PaceKeeps, FinishKeeps,
     RecordRefusedKeeps, CheckFailsKeeps, CallFailsKeeps, FailedKeeps, BlockedKeeps,
     FailureKeeps, ReleaseKeeps, PreviewEndsKeeps, ReleasedKeeps, AcknowledgedKeeps,
     UnacknowledgedKeeps, ReleaseFailsKeeps, CloseKeeps, JoinedKeeps, SummarizeKeeps,
     SummaryFailsKeeps DEF Main

\* The writer thread and a signal keep it as well: the writer accepts nothing and
\* never takes its final fsync back.
LEMMA OthersKeep == CInv /\ (Writer \/ Signal \/ UNCHANGED all) => CInv'
<1> SUFFICES ASSUME CInv, Writer \/ Signal \/ UNCHANGED all PROVE CInv'
  OBVIOUS
<1>1. /\ CaptureTypeOK /\ Recorded /\ Positioned /\ Vouched /\ Tallied
  BY Numbers
<1>2. /\ enqueued' = enqueued /\ (synced => synced')
      /\ UNCHANGED <<pc, log, completed, sent, result, summary>>
      /\ (stopped' = stopped \/ stopped' = TRUE)
  <2>1. CASE Writer
    <3>1. Worker /\ UNCHANGED <<pc, log, completed, sent, result, summary, stopped>>
      BY <2>1 DEF Writer, main
    <3>2. enqueued' = enqueued /\ (synced => synced')
      BY <3>1 DEF Worker, Sleep, Drained, Gather, AggregationEnds, Write, WriteFails, Account,
                  Finalize, Fsync, FinalizeFails, CloseStream
    <3> QED
      BY <3>1, <3>2
  <2>2. CASE Signal
    BY <2>2 DEF Signal, vars, main
  <2>3. CASE UNCHANGED all
    BY <2>3 DEF all, vars, main
  <2> QED
    BY <2>1, <2>2, <2>3
<1>3. stopped' \in BOOLEAN
  <2>1. stopped \in BOOLEAN
    BY <1>1 DEF CaptureTypeOK
  <2> QED
    BY <1>2, <2>1, Zenon
<1>4. /\ log' \in Seq(Events) /\ Len(log') = enqueued'
      /\ Count("planned")' = Count("planned") /\ Count("complete")' = Count("complete")
  BY <1>1, <1>2, NothingRecorded
<1>5. CaptureTypeOK'
  BY <1>1, <1>2, <1>3, <1>4 DEF CaptureTypeOK
<1>6. Recorded' /\ Tallied'
  BY <1>1, <1>2, <1>4 DEF Recorded, Tallied
<1>7. Positioned' /\ Vouched'
  BY <1>1, <1>2 DEF Positioned, Vouched, Enough
<1> QED
  BY <1>5, <1>6, <1>7 DEF CInv

\* Nothing main() does is more than a call of the journal.
LEMMA CaptureCallsJournal == [CaptureNext]_all => [Next]_vars
<1> SUFFICES ASSUME [CaptureNext]_all PROVE [Next]_vars
  OBVIOUS
<1>1. CASE Main
  <2> USE DEF Next, Caller, Quiet, journal, journal_raises, safe_journal
  <2>1. CASE Open
    BY <2>1 DEF Open
  <2>2. CASE Opened
    BY <2>2 DEF Opened
  <2>3. CASE LoopAgain
    BY <2>3 DEF LoopAgain
  <2>4. CASE LoopEnds
    BY <2>4 DEF LoopEnds
  <2>5. CASE Verdict
    BY <2>5 DEF Verdict
  <2>6. CASE Plan
    BY <2>6 DEF Plan
  <2>7. CASE Planned
    BY <2>7 DEF Planned
  <2>8. CASE Exchange
    BY <2>8 DEF Exchange
  <2>9. CASE ExchangeFails
    BY <2>9 DEF ExchangeFails
  <2>10. CASE Unanswered
    BY <2>10 DEF Unanswered
  <2>11. CASE Answered
    BY <2>11 DEF Answered
  <2>12. CASE Confirm
    BY <2>12 DEF Confirm
  <2>13. CASE Publish
    BY <2>13 DEF Publish
  <2>14. CASE PublishPreview
    BY <2>14 DEF PublishPreview
  <2>15. CASE Pace
    BY <2>15 DEF Pace
  <2>16. CASE Finish
    BY <2>16 DEF Finish
  <2>17. CASE RecordRefused
    BY <2>17 DEF RecordRefused
  <2>18. CASE CheckFails
    BY <2>18 DEF CheckFails
  <2>19. CASE CallFails
    BY <2>19 DEF CallFails
  <2>20. CASE Failed
    BY <2>20 DEF Failed
  <2>21. CASE Blocked
    BY <2>21 DEF Blocked
  <2>22. CASE Failure
    BY <2>22 DEF Failure
  <2>23. CASE Release
    BY <2>23 DEF Release
  <2>24. CASE PreviewEnds
    BY <2>24 DEF PreviewEnds
  <2>25. CASE Released
    BY <2>25 DEF Released
  <2>26. CASE Acknowledged
    BY <2>26 DEF Acknowledged
  <2>27. CASE Unacknowledged
    BY <2>27 DEF Unacknowledged
  <2>28. CASE ReleaseFails
    BY <2>28 DEF ReleaseFails
  <2>29. CASE Close
    BY <2>29 DEF Close
  <2>30. CASE Joined
    BY <2>30 DEF Joined
  <2>31. CASE Summarize
    BY <2>31 DEF Summarize
  <2>32. CASE SummaryFails
    BY <2>32 DEF SummaryFails
  <2> QED
    BY <1>1, <2>1, <2>2, <2>3, <2>4, <2>5, <2>6, <2>7, <2>8, <2>9, <2>10, <2>11, <2>12,
       <2>13, <2>14, <2>15, <2>16, <2>17, <2>18, <2>19, <2>20, <2>21, <2>22, <2>23, <2>24,
       <2>25, <2>26, <2>27, <2>28, <2>29, <2>30, <2>31, <2>32 DEF Main
<1>2. CASE Writer \/ Signal
  BY <1>2 DEF Writer, Signal, Next
<1>3. CASE UNCHANGED all
  BY <1>3 DEF all
<1> QED
  BY <1>1, <1>2, <1>3 DEF CaptureNext

\* A capture that has not begun satisfies the invariants.
LEMMA CaptureBegins == CaptureInit => Inv /\ CInv
<1> SUFFICES ASSUME CaptureInit PROVE Inv /\ CInv
  OBVIOUS
<1>1. Inv
  BY InitHolds DEF CaptureInit
<1>2. /\ pc = "open" /\ log = <<>> /\ completed = 0 /\ sent = 0 /\ stopped = FALSE
      /\ result = "ok" /\ summary = "none" /\ enqueued = 0
  BY DEF CaptureInit, Init
<1>3. stopped \in BOOLEAN
  BY <1>2, Zenon
<1>4. CaptureTypeOK
  BY <1>2, <1>3 DEF CaptureTypeOK, Labels
<1>5. Count("planned") = 0 /\ Count("complete") = 0
  <2>1. /\ {i \in 1..Len(log) : log[i] = "planned"} = {}
        /\ {i \in 1..Len(log) : log[i] = "complete"} = {}
    BY <1>2
  <2> QED
    BY <2>1, FS_EmptySet DEF Count
<1>6. Recorded /\ Positioned /\ Vouched
  BY <1>2 DEF Recorded, Positioned, Vouched
<1>7. Tallied
  BY <1>2, <1>5 DEF Tallied
<1> QED
  BY <1>1, <1>4, <1>6, <1>7 DEF CInv

\* The journal's invariant and the capture's hold together in every reachable
\* state of the capture program.
LEMMA CaptureInvariance == CaptureSpec => [](Inv /\ CInv)
<1>1. Inv /\ CInv /\ [CaptureNext]_all => (Inv /\ CInv)'
  <2> SUFFICES ASSUME Inv, CInv, [CaptureNext]_all PROVE Inv' /\ CInv'
    OBVIOUS
  <2>1. Inv'
    BY CaptureCallsJournal, StepHolds
  <2>2. CInv'
    BY MainKeeps, OthersKeep DEF CaptureNext
  <2> QED
    BY <2>1, <2>2
<1> QED
  BY CaptureBegins, <1>1, PTL DEF CaptureSpec

\* main() of the capture keeps the types of its variables, and never takes or
\* transmits more samples than it was asked for.
THEOREM CaptureTypeCorrect == CaptureSpec => []CaptureTypeOK
<1>1. CInv => CaptureTypeOK
  BY DEF CInv
<1> QED
  BY <1>1, CaptureInvariance, PTL

\* Every query main() transmits was recorded as planned before, and a stream that
\* failed or could not be recorded sends nothing more.
THEOREM QueriesAreAlwaysAccounted == CaptureSpec => []QueriesAccounted
<1>1. CInv => QueriesAccounted
  BY Numbers DEF Tallied, QueriesAccounted
<1> QED
  BY <1>1, CaptureInvariance, PTL

\* A summary that says synchronized always belongs to a file with exactly the whole
\* session, for any number of samples and any journal.
THEOREM SynchronizedIsAlwaysWhole == CaptureSpec => []SynchronizedIsWhole
<1>1. Inv /\ CInv => SynchronizedIsWhole
  <2> SUFFICES ASSUME Inv, CInv, summary = "synchronized"
               PROVE  /\ completed = Samples \/ stopped
                      /\ [i \in 1..Len(file) |-> log[file[i]]] = Session(completed)
    BY DEF SynchronizedIsWhole
  <2>1. synced /\ log = Session(completed) /\ Enough
    BY DEF CInv, Vouched
  <2>2. Len(file) = enqueued /\ \A i \in 1..Len(file) : file[i] = i
    BY <2>1 DEF Inv, Concluded, Numbered
  <2>3. log \in Seq(Events) /\ Len(log) = enqueued
    BY DEF CInv, CaptureTypeOK
  <2>4. [i \in 1..Len(file) |-> log[file[i]]] = [i \in 1..Len(log) |-> log[i]]
    BY <2>2, <2>3
  <2>5. [i \in 1..Len(log) |-> log[i]] = log
    BY <2>3
  <2> QED
    BY <2>1, <2>4, <2>5 DEF Enough
<1> QED
  BY <1>1, CaptureInvariance, PTL

\* Used by the capture, the journal is still an event log: whatever main() does,
\* what it had accepted is stored in order and a complete close() has stored all.
THEOREM CaptureImplementsLog == CaptureSpec => LogSpec
<1>1. CaptureInit => Log!Init
  BY DEF CaptureInit, Init, Log!Init
<1>2. Inv /\ [CaptureNext]_all => [Log!Next]_(Log!vars)
  BY CaptureCallsJournal, StepRefines
<1> QED
  BY <1>1, <1>2, CaptureInvariance, PTL DEF CaptureSpec, LogSpec, Log!Spec

=============================================================================
