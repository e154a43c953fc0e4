---------------------------- MODULE GraphDelivery ----------------------------
(***************************************************************************)
(* Accepted observations on their way into the SLAM graph: the front end's *)
(* GraphDelivery (src/wc_fusion/graph_delivery.py, used by ros_node.py),   *)
(* the ROS topics between the processes, and the GraphNode that owns the   *)
(* database (src/wc_slam/src/graph_node.cpp).                              *)
(*                                                                         *)
(* The front end sends the first of its queued observations until a graph  *)
(* snapshot contains it.  Topics are KEEP_LAST queues: a slow reader loses *)
(* the oldest message, retries duplicate it.  Bundles are numbered in the  *)
(* order of submission; their content is right, or the graph rejects it.   *)
(* Clocks are reduced to two facts about the first queued observation: its *)
(* retry is due, its timeout has passed.                                   *)
(***************************************************************************)
EXTENDS Naturals, Sequences

CONSTANTS
    Capacity,     \* capacity of the delivery queue
    Depth,        \* KEEP_LAST depth of the accepted topic
    MaxBundles    \* bound: how many observations are submitted

ASSUME DeliveryAssumption ==
    Capacity \in Nat \ {0} /\ Depth \in Nat \ {0} /\ MaxBundles \in Nat

VARIABLES
    queue,        \* GraphDelivery.queue: bundle ids
    sent,         \* the first queued observation was sent (first_sent_ns)
    due,          \* its last_sent_ns is at least retry_ns ago
    expired,      \* its first_sent_ns is at least timeout_ns ago
    submitted,    \* last_enqueued_id
    acked,        \* last_acked_id
    failure,      \* GraphDelivery.failure
    halted,       \* the front end's gate is paused
    wire,         \* the accepted topic, as the graph will read it
    snapshot,     \* the nodes of the newest published graph snapshot
    news,         \* the front end has not read it yet
    records,      \* GraphNode.records_: ids in the order they were processed
    stage,        \* where GraphNode::accepted() is
    durable,      \* the graph revision file written last; it lists that many records
    paused,       \* paused_
    failed,       \* failed_
    closed,       \* engine_->closed()
    barrier,      \* the revision closed_snapshot.json names; 0: no such file
    alive         \* the graph process runs

sender == <<queue, sent, due, expired, submitted, acked, failure, halted>>
graph == <<records, stage, durable, paused, failed, closed, barrier, alive>>
topics == <<wire, snapshot, news>>
vars == <<sender, topics, graph>>

Init ==
    /\ queue = <<>> /\ sent = FALSE /\ due = FALSE /\ expired = FALSE
    /\ submitted = 0 /\ acked = 0 /\ failure = "none" /\ halted = FALSE
    /\ wire = <<>> /\ snapshot = <<>> /\ news = FALSE
    /\ records = <<>> /\ stage = "idle" /\ durable = 0
    /\ paused = FALSE /\ failed = FALSE /\ closed = FALSE /\ barrier = 0 /\ alive = TRUE

-----------------------------------------------------------------------------
(* The front end.                                                            *)

\* GraphDelivery.fail() and the node's fail().
fail(reason) == failure' = reason /\ halted' = TRUE

\* A full topic drops its oldest message.
publish(id) ==
    wire' = IF Len(wire) = Depth THEN Append(Tail(wire), id) ELSE Append(wire, id)

\* Faulty variant: the newest observation is sent first.
deliver_newest(q) ==
    IF failure # "none" \/ q = <<>> \/ (sent /\ ~due)
    THEN UNCHANGED <<sent, due, expired, failure, halted, wire>>
    ELSE sent' = TRUE /\ due' = FALSE /\ publish(q[Len(q)]) /\ UNCHANGED <<expired, failure, halted>>

\* Faulty variant: retries go on for ever.
deliver_forever(q) ==
    IF failure # "none" \/ q = <<>> \/ (sent /\ ~due)
    THEN UNCHANGED <<sent, due, expired, failure, halted, wire>>
    ELSE sent' = TRUE /\ due' = FALSE /\ publish(Head(q)) /\ UNCHANGED <<expired, failure, halted>>

\* next_payload() for the queue q, published by deliver_graph().
deliver_graph(q) ==
    IF failure # "none" \/ q = <<>>
    THEN UNCHANGED <<sent, due, expired, failure, halted, wire>>
    ELSE IF sent /\ expired
    THEN fail("timeout") /\ UNCHANGED <<sent, due, expired, wire>>
    ELSE IF sent /\ ~due
    THEN UNCHANGED <<sent, due, expired, failure, halted, wire>>
    ELSE /\ sent' = TRUE /\ due' = FALSE
         /\ publish(Head(q))
         /\ UNCHANGED <<expired, failure, halted>>

\* An observation passed the gate: submit() and a first deliver_graph().
Submit ==
    /\ ~halted /\ failure = "none"
    /\ submitted < MaxBundles
    /\ Len(queue) < Capacity
    /\ submitted' = submitted + 1
    /\ queue' = Append(queue, submitted + 1)
    /\ deliver_graph(Append(queue, submitted + 1))
    /\ UNCHANGED <<acked, snapshot, news, graph>>

\* ensure_capacity() on a full queue.
SubmitFull ==
    /\ ~halted /\ failure = "none"
    /\ Len(queue) >= Capacity
    /\ fail("full")
    /\ UNCHANGED <<queue, sent, due, expired, submitted, acked, topics, graph>>

\* watchdog(): delivery goes on while the gate is paused.
Watchdog ==
    /\ deliver_graph(queue)
    /\ UNCHANGED <<queue, submitted, acked, snapshot, news, graph>>

\* A watchdog that has something to do.
Redeliver == Watchdog /\ <<sent, due, failure, wire>>' # <<sent, due, failure, wire>>

RetryDue ==
    /\ sent /\ ~due
    /\ due' = TRUE
    /\ UNCHANGED <<queue, sent, expired, submitted, acked, failure, halted, topics, graph>>

TimeoutPasses ==
    /\ sent /\ ~expired
    /\ expired' = TRUE
    /\ UNCHANGED <<queue, sent, due, submitted, acked, failure, halted, topics, graph>>

\* What acknowledge() makes of a snapshot's nodes.
Matches == \E i \in 1..Len(snapshot) : snapshot[i] = Head(queue)
Skips == \E i \in 1..Len(snapshot) : snapshot[i] > Head(queue)

pop == /\ acked' = Head(queue) /\ queue' = Tail(queue)
       /\ sent' = FALSE /\ due' = FALSE /\ expired' = FALSE

\* graph_ack(): the front end reads the newest snapshot.
GraphAck ==
    /\ news /\ news' = FALSE
    /\ IF failure # "none" \/ queue = <<>> \/ (~Matches /\ ~Skips)
       THEN UNCHANGED sender
       ELSE IF Matches /\ sent
       THEN pop /\ UNCHANGED <<submitted, failure, halted>>
       ELSE fail("contradiction") /\ UNCHANGED <<queue, sent, due, expired, submitted, acked>>
    /\ UNCHANGED <<wire, snapshot, graph>>

\* A snapshot of another session, calibration or graph epoch.
ForeignSnapshot ==
    /\ failure = "none"
    /\ fail("foreign")
    /\ UNCHANGED <<queue, sent, due, expired, submitted, acked, topics, graph>>

\* pause(), or any failure of the front end, and resume().
Halt == /\ ~halted /\ halted' = TRUE
        /\ UNCHANGED <<queue, sent, due, expired, submitted, acked, failure, topics, graph>>

Resume == /\ halted /\ failure = "none" /\ halted' = FALSE
          /\ UNCHANGED <<queue, sent, due, expired, submitted, acked, failure, topics, graph>>

-----------------------------------------------------------------------------
(* The graph node: one callback at a time.                                   *)

Idle == alive /\ stage = "idle"

Known(id) == \E i \in 1..Len(records) : records[i] = id

Take == wire # <<>> /\ wire' = Tail(wire)

publish_snapshot == snapshot' = records /\ news' = TRUE

\* accepted() of a processed bundle: an exact retry is acknowledged again,
\* whether the graph is paused or closed.
AcceptedAgain ==
    /\ Idle /\ Take /\ ~failed
    /\ Known(Head(wire))
    /\ publish_snapshot
    /\ UNCHANGED <<sender, graph>>

\* accepted() returns without a trace.
AcceptedIgnored ==
    /\ Idle /\ Take
    /\ failed \/ (~Known(Head(wire)) /\ (paused \/ closed))
    /\ UNCHANGED <<sender, snapshot, news, graph>>

Acceptable(id) == \A i \in 1..Len(records) : id > records[i]

Ready == Idle /\ Take /\ ~failed /\ ~Known(Head(wire)) /\ ~paused /\ ~closed

\* accepted() throws before the graph has changed: a requirement or the engine
\* refuses the bundle, or a retry differs from what was processed.
AcceptedRejected ==
    /\ Idle /\ Take /\ ~failed
    /\ Known(Head(wire)) \/ (~paused /\ ~closed)
    /\ failed' = TRUE /\ paused' = TRUE
    /\ UNCHANGED <<sender, snapshot, news, records, stage, durable, closed, barrier, alive>>

\* Faulty variant: processed bundles are not looked up.
process_unconditionally ==
    /\ Idle /\ Take /\ ~failed /\ ~paused /\ ~closed
    /\ records' = Append(records, Head(wire)) /\ stage' = "processed"
    /\ UNCHANGED <<sender, snapshot, news, durable, paused, failed, closed, barrier, alive>>

\* accepted(): the engine processed the bundle, its record and revision exist.
AcceptedProcessed ==
    /\ Ready /\ Acceptable(Head(wire))
    /\ records' = Append(records, Head(wire))
    /\ stage' = "processed"
    /\ UNCHANGED <<sender, snapshot, news, durable, paused, failed, closed, barrier, alive>>

\* Faulty variant: the acknowledgement is published before the revision file.
persist_late ==
    /\ alive /\ stage = "processed" /\ stage' = "persisted"
    /\ UNCHANGED <<sender, topics, records, durable, paused, failed, closed, barrier, alive>>

\* The immutable revision file.
RevisionWritten ==
    /\ alive /\ stage = "processed"
    /\ durable' = Len(records)
    /\ stage' = "persisted"
    /\ UNCHANGED <<sender, topics, records, paused, failed, closed, barrier, alive>>

\* The file or the publication fails; a file may be there all the same.
RevisionFails ==
    /\ alive /\ stage \in {"processed", "persisted"}
    /\ failed' = TRUE /\ paused' = TRUE /\ stage' = "idle"
    /\ durable' \in {durable, Len(records)}
    /\ UNCHANGED <<sender, topics, records, closed, barrier, alive>>

\* The acknowledgement, then the transform, which may fail.
SnapshotPublished ==
    /\ alive /\ stage = "persisted"
    /\ publish_snapshot /\ stage' = "idle"
    /\ \/ UNCHANGED <<paused, failed>>
       \/ paused' = TRUE /\ failed' = TRUE
    /\ UNCHANGED <<sender, wire, records, durable, closed, barrier, alive>>

\* The pause_graph service.
PauseGraph ==
    /\ Idle /\ ~paused
    /\ paused' = TRUE
    /\ UNCHANGED <<sender, topics, records, stage, durable, failed, closed, barrier, alive>>

\* Faulty variant: a close of a failed graph succeeds too.
close_failed_graph ==
    /\ Idle /\ Len(records) > 0 /\ barrier = 0
    /\ paused' = TRUE /\ closed' = TRUE /\ barrier' = Len(records)
    /\ UNCHANGED <<sender, topics, records, stage, durable, failed, alive>>

\* The close_graph_snapshot service writes the barrier.
CloseSnapshot ==
    /\ Idle
    /\ ~failed /\ Len(records) > 0
    /\ barrier = 0
    /\ paused' = TRUE /\ closed' = TRUE
    /\ barrier' = Len(records)
    /\ UNCHANGED <<sender, topics, records, stage, durable, failed, alive>>

\* It is refused, or fails: before or after the engine was closed, or with the
\* barrier already in place.
CloseBlocked ==
    /\ Idle
    /\ paused' = TRUE
    /\ \/ (failed \/ records = <<>> \/ barrier # 0) /\ UNCHANGED <<closed, barrier>>
       \/ /\ ~failed /\ records # <<>> /\ barrier = 0
          /\ \/ closed' \in {closed, TRUE} /\ barrier' = 0
             \/ closed' = TRUE /\ barrier' = Len(records)
    /\ UNCHANGED <<sender, topics, records, stage, durable, failed, alive>>

\* The graph process dies; a session never restarts it.
Crash ==
    /\ alive /\ alive' = FALSE
    /\ UNCHANGED <<sender, topics, records, stage, durable, paused, failed, closed, barrier>>

-----------------------------------------------------------------------------

FrontEnd == Submit \/ SubmitFull \/ Redeliver \/ GraphAck \/ ForeignSnapshot \/ Halt \/ Resume

Node == \/ AcceptedAgain \/ AcceptedIgnored \/ AcceptedRejected \/ AcceptedProcessed
        \/ RevisionWritten \/ RevisionFails \/ SnapshotPublished
        \/ PauseGraph \/ CloseSnapshot \/ CloseBlocked \/ Crash

Next == FrontEnd \/ RetryDue \/ TimeoutPasses \/ Node

\* The watchdog timer fires and time passes; nothing is owed by the graph.
Spec == Init /\ [][Next]_vars /\ WF_vars(Redeliver) /\ WF_vars(TimeoutPasses)

-----------------------------------------------------------------------------
(* Properties.                                                               *)

\* Type correctness: the records of GraphDelivery, of the topics and of the graph
\* node keep their types; the front end never holds more than its MAX_PENDING
\* observations and a topic never more than its KEEP_LAST depth.
TypeOK ==
    /\ queue \in Seq(Nat) /\ wire \in Seq(Nat) /\ snapshot \in Seq(Nat) /\ records \in Seq(Nat)
    /\ Len(queue) <= Capacity /\ Len(wire) <= Depth
    /\ submitted \in Nat /\ acked \in Nat /\ durable \in Nat /\ barrier \in Nat
    /\ sent \in BOOLEAN /\ due \in BOOLEAN /\ expired \in BOOLEAN /\ halted \in BOOLEAN
    /\ news \in BOOLEAN /\ paused \in BOOLEAN /\ failed \in BOOLEAN /\ closed \in BOOLEAN
    /\ alive \in BOOLEAN
    /\ failure \in {"none", "timeout", "full", "contradiction", "foreign"}
    /\ stage \in {"idle", "processed", "persisted"}

\* The graph contains the submitted observations in order, without a gap or a
\* repetition, whatever the topics lost or repeated.
GraphIsPrefix ==
    Len(records) <= submitted /\ \A i \in 1..Len(records) : records[i] = i

\* What the front end forgets is in a revision file: an acknowledged
\* observation survives a crash of either process.
AckedIsDurable == acked <= durable

\* The barrier of a closed graph names a revision on disk that nothing follows,
\* and every acknowledged observation is in it.
BarrierIsFinal ==
    barrier # 0 => barrier = Len(records) /\ barrier = durable /\ acked <= barrier

\* Late, repeated and superseded snapshots never look like a contradiction.
NoFalseContradiction == failure # "contradiction"

\* Every submitted observation is acknowledged, or the delivery has failed
\* visibly: a lost message, a paused, closed or dead graph never goes unnoticed.
DeliveredOrFailed ==
    \A id \in 1..MaxBundles : submitted >= id ~> acked >= id \/ failure # "none"

=============================================================================
