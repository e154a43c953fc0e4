------------------------- MODULE GraphDeliveryProofs -------------------------
(***************************************************************************)
(* The delivery of observations into the graph, for every queue capacity,  *)
(* topic depth and number of observations.  The inductive invariant ties   *)
(* the two processes together through one number, the Frontier: the last   *)
(* observation that was ever sent.                                         *)
(***************************************************************************)
EXTENDS GraphDelivery, TLAPS

\* The last observation ever sent: the first queued one, once it was sent.
Frontier == IF sent THEN acked + 1 ELSE acked

\* The queue holds the observations after the acknowledged ones.
QueueNumbered ==
    /\ Len(queue) = submitted - acked /\ acked <= submitted
    /\ \A i \in 1..Len(queue) : queue[i] = acked + i
    /\ sent => queue # <<>>

\* Nothing beyond the frontier is on the wire, in the graph or in a snapshot.
Behind ==
    /\ \A i \in 1..Len(wire) : wire[i] \in 1..Frontier
    /\ \A i \in 1..Len(records) : records[i] = i
    /\ \A i \in 1..Len(snapshot) : snapshot[i] = i
    /\ Len(records) <= Frontier

\* Acknowledged, published, durable and processed observations, in this order.
Ordered ==
    /\ acked <= Len(snapshot)
    /\ Len(snapshot) <= durable
    /\ durable <= Len(records)
    /\ stage = "persisted" => durable = Len(records)
    /\ stage = "idle" /\ ~failed => durable = Len(records)

\* A barrier belongs to a closed, idle graph, all of it on disk.
Closed ==
    barrier # 0 => /\ closed /\ stage = "idle"
                   /\ barrier = Len(records) /\ durable = Len(records)

GInv == TypeOK /\ QueueNumbered /\ Behind /\ Ordered /\ Closed /\ NoFalseContradiction

-----------------------------------------------------------------------------

\* Dropping the first element of a sequence.
LEMMA TailHolds ==
    ASSUME NEW s \in Seq(Nat), s # <<>>
    PROVE  /\ Tail(s) \in Seq(Nat) /\ Len(s) \in Nat /\ Len(s) > 0 /\ Len(Tail(s)) = Len(s) - 1
           /\ \A i \in 1..Len(Tail(s)) : Tail(s)[i] = s[i + 1]
           /\ Head(s) = s[1] /\ Head(s) \in Nat
  OBVIOUS

\* Adding a last element to a sequence.
LEMMA AppendHolds ==
    ASSUME NEW s \in Seq(Nat), NEW n \in Nat
    PROVE  /\ Append(s, n) \in Seq(Nat) /\ Append(s, n) # <<>>
           /\ Len(s) \in Nat /\ Len(Append(s, n)) = Len(s) + 1
           /\ \A i \in 1..Len(s) : Append(s, n)[i] = s[i]
           /\ Append(s, n)[Len(s) + 1] = n
  OBVIOUS

\* A publication keeps the topic within its depth and below any bound that its
\* messages and the new one obey.
LEMMA PublishHolds ==
    ASSUME TypeOK, NEW n \in Nat, publish(n), NEW b \in Nat, n \in 1..b,
           \A i \in 1..Len(wire) : wire[i] \in 1..b
    PROVE  /\ wire' \in Seq(Nat) /\ Len(wire') <= Depth
           /\ \A i \in 1..Len(wire') : wire'[i] \in 1..b
<1>0. wire \in Seq(Nat) /\ Len(wire) \in Nat /\ Len(wire) <= Depth /\ Depth \in Nat /\ Depth > 0
  BY DeliveryAssumption DEF TypeOK
<1>1. CASE Len(wire) = Depth
  <2> DEFINE t == Tail(wire)
  <2>1. /\ t \in Seq(Nat) /\ Len(t) = Len(wire) - 1
        /\ \A i \in 1..Len(t) : t[i] = wire[i + 1]
    BY <1>0, <1>1, TailHolds
  <2>2. wire' = Append(t, n)
    BY <1>1 DEF publish
  <2> HIDE DEF t
  <2>3. /\ wire' \in Seq(Nat) /\ Len(wire') = Len(t) + 1
        /\ \A i \in 1..Len(t) : wire'[i] = t[i]
        /\ wire'[Len(t) + 1] = n
    BY <2>1, <2>2, AppendHolds
  <2>4. ASSUME NEW i \in 1..Len(wire') PROVE wire'[i] \in 1..b
    <3>1. i \in 1..Len(t) \/ i = Len(t) + 1
      BY <1>0, <2>1, <2>3
    <3>2. i \in 1..Len(t) => i + 1 \in 1..Len(wire) /\ wire'[i] = wire[i + 1]
      BY <1>0, <2>1, <2>3
    <3> QED
      BY <3>1, <3>2, <2>3
  <2> QED
    BY <1>0, <1>1, <2>1, <2>3, <2>4
<1>2. CASE Len(wire) # Depth
  <2>1. wire' = Append(wire, n)
    BY <1>2 DEF publish
  <2>2. /\ wire' \in Seq(Nat) /\ Len(wire') = Len(wire) + 1
        /\ \A i \in 1..Len(wire) : wire'[i] = wire[i]
        /\ wire'[Len(wire) + 1] = n
    BY <1>0, <2>1, AppendHolds
  <2>3. ASSUME NEW i \in 1..Len(wire') PROVE wire'[i] \in 1..b
    <3>1. i \in 1..Len(wire) \/ i = Len(wire) + 1
      BY <1>0, <2>2
    <3> QED
      BY <3>1, <2>2
  <2> QED
    BY <1>0, <1>2, <2>2, <2>3
<1> QED
  BY <1>1, <1>2

SenderTypes ==
    /\ sent \in BOOLEAN /\ due \in BOOLEAN /\ expired \in BOOLEAN /\ halted \in BOOLEAN
    /\ failure \in {"none", "timeout", "full", "contradiction", "foreign"}

\* deliver_graph() sends at most the first queued observation.
LEMMA DeliverHolds ==
    ASSUME GInv, NEW q \in Seq(Nat), q # <<>> => Head(q) = acked + 1, sent => q # <<>>,
           deliver_graph(q), acked' = acked
    PROVE  /\ wire' \in Seq(Nat) /\ Len(wire') <= Depth
           /\ \A i \in 1..Len(wire') : wire'[i] \in 1..Frontier'
           /\ Frontier <= Frontier' /\ (sent' => q # <<>>)
           /\ SenderTypes' /\ failure' # "contradiction"
<1>0. /\ TypeOK /\ acked \in Nat /\ sent \in BOOLEAN /\ wire \in Seq(Nat) /\ Len(wire) <= Depth
      /\ failure # "contradiction" /\ SenderTypes
      /\ \A i \in 1..Len(wire) : wire[i] \in 1..Frontier
  BY DEF GInv, TypeOK, Behind, NoFalseContradiction, SenderTypes
<1>1. CASE UNCHANGED <<sent, due, expired, failure, halted, wire>>
  BY <1>0, <1>1 DEF Frontier, SenderTypes
<1>2. CASE fail("timeout") /\ UNCHANGED <<sent, due, expired, wire>>
  <2>1. Frontier' = Frontier /\ Frontier \in Nat
    BY <1>0, <1>2 DEF Frontier
  <2>2. halted' \in BOOLEAN
    BY <1>2, Zenon DEF fail
  <2> QED
    BY <1>0, <1>2, <2>1, <2>2 DEF SenderTypes, fail
<1>3. CASE /\ q # <<>> /\ sent' = TRUE /\ due' = FALSE /\ publish(Head(q))
           /\ UNCHANGED <<expired, failure, halted>>
  <2>1. Frontier' = acked + 1 /\ Frontier <= acked + 1 /\ Head(q) = acked + 1
    BY <1>0, <1>3 DEF Frontier
  <2>2. \A i \in 1..Len(wire) : wire[i] \in 1..acked + 1
    <3> SUFFICES ASSUME NEW i \in 1..Len(wire) PROVE wire[i] \in 1..acked + 1
      OBVIOUS
    <3>1. wire[i] \in Nat /\ wire[i] \in 1..Frontier /\ Frontier \in Nat
      BY <1>0 DEF Frontier
    <3> QED
      BY <1>0, <3>1, <2>1
  <2>3. /\ wire' \in Seq(Nat) /\ Len(wire') <= Depth
        /\ \A i \in 1..Len(wire') : wire'[i] \in 1..acked + 1
    <3>1. acked + 1 \in Nat /\ acked + 1 \in 1..acked + 1 /\ publish(acked + 1)
      BY <1>0, <1>3, <2>1
    <3> QED
      BY <1>0, <2>2, <3>1, PublishHolds
  <2>4. sent' \in BOOLEAN /\ due' \in BOOLEAN
    BY <1>3, Zenon
  <2> QED
    BY <1>0, <1>3, <2>1, <2>3, <2>4 DEF SenderTypes
<1> QED
  BY <1>1, <1>2, <1>3 DEF deliver_graph

-----------------------------------------------------------------------------

\* An empty graph and an empty queue satisfy the invariant.
LEMMA DeliveryInit == Init => GInv
<1> SUFFICES ASSUME Init PROVE GInv
  OBVIOUS
<1>0. Len(queue) = 0 /\ Len(wire) = 0 /\ Len(snapshot) = 0 /\ Len(records) = 0
  BY DEF Init
<1>1. TypeOK
  <2>1. /\ sent \in BOOLEAN /\ due \in BOOLEAN /\ expired \in BOOLEAN /\ halted \in BOOLEAN
        /\ news \in BOOLEAN /\ paused \in BOOLEAN /\ failed \in BOOLEAN /\ closed \in BOOLEAN
        /\ alive \in BOOLEAN
    BY Zenon DEF Init
  <2>2. queue \in Seq(Nat) /\ wire \in Seq(Nat) /\ snapshot \in Seq(Nat) /\ records \in Seq(Nat)
    BY DEF Init
  <2> QED
    BY <1>0, <2>1, <2>2, DeliveryAssumption DEF Init, TypeOK
<1>2. QueueNumbered /\ Behind
  BY <1>0 DEF Init, QueueNumbered, Behind, Frontier
<1>3. Ordered /\ Closed /\ NoFalseContradiction
  BY <1>0 DEF Init, Ordered, Closed, NoFalseContradiction
<1> QED
  BY <1>1, <1>2, <1>3 DEF GInv

\* The facts about the invariant that the steps start from.
Numbers ==
    /\ queue \in Seq(Nat) /\ wire \in Seq(Nat) /\ snapshot \in Seq(Nat) /\ records \in Seq(Nat)
    /\ Len(queue) \in Nat /\ Len(wire) \in Nat /\ Len(snapshot) \in Nat /\ Len(records) \in Nat
    /\ submitted \in Nat /\ acked \in Nat /\ durable \in Nat /\ barrier \in Nat
    /\ sent \in BOOLEAN /\ Frontier \in Nat

\* The types of the sequences and counters that follow from the invariant.
LEMMA InvNumbers == GInv => Numbers
  BY DEF GInv, TypeOK, Numbers, Frontier

\* A step that leaves the graph alone, moves the frontier forward at most, and
\* keeps the sender's own facts, keeps the invariant.
LEMMA SenderKeeps ==
    ASSUME GInv, UNCHANGED <<graph, snapshot>>,
           queue' \in Seq(Nat), Len(queue') <= Capacity, submitted' \in Nat, acked' \in Nat,
           wire' \in Seq(Nat), Len(wire') <= Depth, news' \in BOOLEAN, SenderTypes',
           QueueNumbered', \A i \in 1..Len(wire') : wire'[i] \in 1..Frontier',
           Frontier' \in Nat, Frontier <= Frontier', acked' <= Len(snapshot),
           failure' # "contradiction"
    PROVE  GInv'
<1>0. Numbers
  BY InvNumbers
<1>1. TypeOK'
  BY DEF GInv, TypeOK, SenderTypes, graph
<1>2. Behind'
  BY <1>0 DEF GInv, Behind, graph, Numbers
<1>3. Ordered'
  BY <1>0 DEF GInv, Ordered, graph, Numbers
<1>4. Closed'
  BY DEF GInv, Closed, graph
<1> QED
  BY <1>1, <1>2, <1>3, <1>4 DEF GInv, NoFalseContradiction

\* A step of the graph that leaves the sender alone.
LEMMA NodeKeeps ==
    ASSUME GInv, UNCHANGED sender,
           wire' \in Seq(Nat), Len(wire') <= Depth, \A i \in 1..Len(wire') : wire'[i] \in 1..Frontier,
           TypeOK => TypeOK', Behind', Ordered', Closed'
    PROVE  GInv'
<1>1. QueueNumbered' /\ NoFalseContradiction'
  BY DEF GInv, QueueNumbered, NoFalseContradiction, sender
<1> QED
  BY <1>1 DEF GInv

\* Reading one message off the topic.
LEMMA TakeHolds ==
    ASSUME GInv, Take
    PROVE  /\ wire' \in Seq(Nat) /\ Len(wire') <= Depth
           /\ \A i \in 1..Len(wire') : wire'[i] \in 1..Frontier
           /\ Head(wire) \in 1..Frontier
<1>0. Numbers /\ Len(wire) <= Depth /\ Depth \in Nat /\ \A i \in 1..Len(wire) : wire[i] \in 1..Frontier
  BY InvNumbers, DeliveryAssumption DEF GInv, TypeOK, Behind
<1>1. wire # <<>> /\ wire' = Tail(wire) /\ wire \in Seq(Nat)
  BY <1>0 DEF Take, Numbers
<1>2. /\ wire' \in Seq(Nat) /\ Len(wire) > 0 /\ Len(wire') = Len(wire) - 1
      /\ \A i \in 1..Len(wire') : wire'[i] = wire[i + 1]
      /\ Head(wire) = wire[1] /\ Head(wire) \in Nat
  BY <1>1, TailHolds
<1>3. ASSUME NEW i \in 1..Len(wire') PROVE wire'[i] \in 1..Frontier
  <2>1. i + 1 \in 1..Len(wire)
    BY <1>0, <1>2 DEF Numbers
  <2> QED
    BY <1>0, <1>2, <2>1
<1> QED
  BY <1>0, <1>2, <1>3 DEF Numbers

-----------------------------------------------------------------------------

\* The steps of the front end keep the invariant.
LEMMA FrontEndHolds == GInv /\ (FrontEnd \/ RetryDue \/ TimeoutPasses) => GInv'
<1> SUFFICES ASSUME GInv, FrontEnd \/ RetryDue \/ TimeoutPasses PROVE GInv'
  OBVIOUS
<1>0. Numbers
  BY InvNumbers
<1>t. TypeOK /\ QueueNumbered /\ Behind /\ Ordered /\ NoFalseContradiction
  BY DEF GInv
<1>a. acked <= Len(snapshot) /\ Len(queue) <= Capacity /\ Len(wire) <= Depth
  BY <1>t DEF Ordered, TypeOK
<1>h. queue # <<>> => Head(queue) = acked + 1
  <2> SUFFICES ASSUME queue # <<>> PROVE Head(queue) = acked + 1
    OBVIOUS
  <2>1. Len(queue) > 0 /\ Head(queue) = queue[1]
    BY <1>0, TailHolds DEF Numbers
  <2> QED
    BY <1>0, <1>t, <2>1 DEF QueueNumbered, Numbers
<1>1. CASE Submit
  <2> DEFINE q == Append(queue, submitted + 1)
  <2>0. /\ deliver_graph(q) /\ queue' = q /\ submitted' = submitted + 1 /\ Len(queue) < Capacity
        /\ UNCHANGED <<acked, snapshot, news, graph>>
    BY <1>1 DEF Submit
  <2>1. /\ q \in Seq(Nat) /\ q # <<>> /\ Len(q) = Len(queue) + 1
        /\ \A i \in 1..Len(queue) : q[i] = queue[i]
        /\ q[Len(queue) + 1] = submitted + 1
    <3>1. queue \in Seq(Nat) /\ submitted + 1 \in Nat
      BY <1>0 DEF Numbers
    <3> QED
      BY <3>1, AppendHolds
  <2> HIDE DEF q
  <2>2. \A i \in 1..Len(q) : q[i] = acked + i
    <3> SUFFICES ASSUME NEW i \in 1..Len(q) PROVE q[i] = acked + i
      OBVIOUS
    <3>1. i \in 1..Len(queue) \/ i = Len(queue) + 1
      BY <1>0, <2>1 DEF Numbers
    <3>2. submitted + 1 = acked + (Len(queue) + 1)
      BY <1>0, <1>t DEF Numbers, QueueNumbered
    <3> QED
      BY <1>t, <2>1, <3>1, <3>2 DEF QueueNumbered
  <2>3. Head(q) = acked + 1
    <3>1. Head(q) = q[1] /\ 1 \in 1..Len(q)
      BY <1>0, <2>1, TailHolds DEF Numbers
    <3> QED
      BY <2>2, <3>1
  <2>4. /\ wire' \in Seq(Nat) /\ Len(wire') <= Depth
        /\ \A i \in 1..Len(wire') : wire'[i] \in 1..Frontier'
        /\ Frontier <= Frontier' /\ SenderTypes' /\ failure' # "contradiction"
    BY <2>0, <2>1, <2>3, DeliverHolds
  <2>5. Frontier' \in Nat /\ acked' \in Nat /\ news' \in BOOLEAN
    BY <1>0, <1>t, <2>0 DEF Numbers, Frontier, TypeOK
  <2>6. QueueNumbered'
    <3>1. Len(q) = (submitted + 1) - acked /\ acked <= submitted + 1
      BY <1>0, <1>t, <2>1 DEF Numbers, QueueNumbered
    <3> QED
      BY <2>0, <2>1, <2>2, <3>1 DEF QueueNumbered
  <2>7. Len(queue') <= Capacity /\ submitted' \in Nat /\ acked' <= Len(snapshot)
    BY <1>0, <1>a, <2>0, <2>1, DeliveryAssumption DEF Numbers
  <2> QED
    BY <2>0, <2>1, <2>4, <2>5, <2>6, <2>7, SenderKeeps
<1>2. CASE Redeliver
  <2>1. deliver_graph(queue) /\ UNCHANGED <<queue, submitted, acked, snapshot, news, graph>>
    BY <1>2 DEF Redeliver, Watchdog
  <2>2. /\ wire' \in Seq(Nat) /\ Len(wire') <= Depth
        /\ \A i \in 1..Len(wire') : wire'[i] \in 1..Frontier'
        /\ Frontier <= Frontier' /\ (sent' => queue # <<>>)
        /\ SenderTypes' /\ failure' # "contradiction"
    BY <1>0, <1>h, <1>t, <2>1, DeliverHolds DEF Numbers, QueueNumbered
  <2>3. QueueNumbered'
    BY <1>t, <2>1, <2>2 DEF QueueNumbered
  <2>4. Frontier' \in Nat /\ acked' \in Nat /\ news' \in BOOLEAN /\ submitted' \in Nat
        /\ queue' \in Seq(Nat) /\ Len(queue') <= Capacity /\ acked' <= Len(snapshot)
    BY <1>0, <1>a, <1>t, <2>1 DEF Numbers, Frontier, TypeOK
  <2> QED
    BY <2>1, <2>2, <2>3, <2>4, SenderKeeps
<1>3. CASE SubmitFull \/ ForeignSnapshot \/ Halt \/ Resume \/ RetryDue \/ TimeoutPasses
  <2>1. UNCHANGED <<queue, sent, submitted, acked, topics, graph>>
    BY <1>3 DEF SubmitFull, ForeignSnapshot, Halt, Resume, RetryDue, TimeoutPasses
  <2>2. /\ halted' = halted \/ halted' = TRUE \/ halted' = FALSE
        /\ due' = due \/ due' = TRUE
        /\ expired' = expired \/ expired' = TRUE
    BY <1>3 DEF SubmitFull, ForeignSnapshot, Halt, Resume, RetryDue, TimeoutPasses, fail
  <2>3. failure' \in {failure, "full", "foreign"}
    BY <1>3 DEF SubmitFull, ForeignSnapshot, Halt, Resume, RetryDue, TimeoutPasses, fail
  <2>b. halted \in BOOLEAN /\ due \in BOOLEAN /\ expired \in BOOLEAN
    BY <1>t DEF TypeOK
  <2>4. halted' \in BOOLEAN /\ due' \in BOOLEAN /\ expired' \in BOOLEAN
    BY <2>2, <2>b, Zenon
  <2>5. SenderTypes' /\ failure' # "contradiction"
    BY <1>t, <2>1, <2>3, <2>4 DEF SenderTypes, TypeOK, NoFalseContradiction
  <2>6. QueueNumbered' /\ Frontier' = Frontier
    BY <1>t, <2>1 DEF QueueNumbered, Frontier
  <2>7. /\ wire' = wire /\ snapshot' = snapshot /\ news' \in BOOLEAN
        /\ \A i \in 1..Len(wire) : wire[i] \in 1..Frontier
    BY <1>t, <2>1 DEF topics, TypeOK, Behind
  <2> QED
    BY <1>0, <1>a, <2>1, <2>5, <2>6, <2>7, SenderKeeps DEF Numbers
<1>4. CASE GraphAck
  <2>0. news' = FALSE /\ UNCHANGED <<wire, snapshot, graph>>
    BY <1>4 DEF GraphAck
  <2>n. news' \in BOOLEAN
    BY <2>0, Zenon
  <2>w. \A i \in 1..Len(wire) : wire[i] \in 1..Frontier
    BY <1>t DEF Behind
  <2>1. CASE UNCHANGED sender
    <3>1. QueueNumbered' /\ Frontier' = Frontier /\ SenderTypes' /\ failure' # "contradiction"
      BY <1>t, <2>1 DEF sender, QueueNumbered, Frontier, SenderTypes, TypeOK, NoFalseContradiction
    <3>2. queue' = queue /\ submitted' = submitted /\ acked' = acked
      BY <2>1 DEF sender
    <3> QED
      BY <1>0, <1>a, <2>0, <2>n, <2>w, <3>1, <3>2, SenderKeeps DEF Numbers
  <2>2. CASE queue # <<>> /\ Matches /\ sent /\ pop /\ UNCHANGED <<submitted, failure, halted>>
    <3>1. /\ queue' \in Seq(Nat) /\ Len(queue') = Len(queue) - 1 /\ Len(queue) > 0
          /\ \A i \in 1..Len(queue') : queue'[i] = queue[i + 1]
      BY <1>0, <2>2, TailHolds DEF pop, Numbers
    <3>2. acked' = acked + 1 /\ sent' = FALSE /\ due' = FALSE /\ expired' = FALSE
      BY <1>h, <2>2 DEF pop
    <3>3. sent' \in BOOLEAN /\ due' \in BOOLEAN /\ expired' \in BOOLEAN
      BY <3>2, Zenon
    <3>4. SenderTypes' /\ failure' # "contradiction"
      BY <1>t, <2>2, <3>3 DEF SenderTypes, TypeOK, NoFalseContradiction
    <3>5. Frontier = acked + 1 /\ Frontier' = acked + 1
      BY <2>2, <3>2 DEF Frontier
    <3>6. QueueNumbered'
      <4>1. Len(queue') = submitted' - acked' /\ acked' <= submitted'
        BY <1>0, <1>t, <2>2, <3>1, <3>2 DEF Numbers, QueueNumbered
      <4>2. ASSUME NEW i \in 1..Len(queue') PROVE queue'[i] = acked' + i
        <5>1. i + 1 \in 1..Len(queue) /\ queue'[i] = queue[i + 1]
          BY <1>0, <3>1 DEF Numbers
        <5> QED
          BY <1>0, <1>t, <3>2, <5>1 DEF Numbers, QueueNumbered
      <4> QED
        BY <3>2, <4>1, <4>2 DEF QueueNumbered
    <3>7. acked + 1 <= Len(snapshot)
      <4>1. PICK i \in 1..Len(snapshot) : snapshot[i] = acked + 1
        BY <1>h, <2>2 DEF Matches
      <4>2. snapshot[i] = i
        BY <1>t DEF Behind
      <4> QED
        BY <1>0, <4>1, <4>2 DEF Numbers
    <3>8. submitted' \in Nat /\ acked' \in Nat /\ Frontier' \in Nat /\ Len(queue') <= Capacity
      BY <1>0, <1>a, <2>2, <3>1, <3>2, <3>5, DeliveryAssumption DEF Numbers
    <3>9. \A i \in 1..Len(wire') : wire'[i] \in 1..Frontier'
      BY <2>0, <2>w, <3>5
    <3>w. wire' \in Seq(Nat) /\ Len(wire') <= Depth
      BY <1>0, <1>a, <2>0 DEF Numbers
    <3> QED
      BY <1>0, <2>0, <2>n, <3>1, <3>2, <3>4, <3>5, <3>6, <3>7, <3>8, <3>9, <3>w, SenderKeeps
      DEF Numbers
  <2>3. CASE queue # <<>> /\ (Matches \/ Skips) /\ ~(Matches /\ sent)
    <3>1. PICK i \in 1..Len(snapshot) : snapshot[i] >= acked + 1 /\ (sent => snapshot[i] # acked + 1)
      <4>1. CASE Matches
        BY <1>h, <1>0, <2>3, <4>1 DEF Matches, Numbers
      <4>2. CASE Skips
        <5>1. PICK j \in 1..Len(snapshot) : snapshot[j] > acked + 1
          BY <1>h, <2>3, <4>2 DEF Skips
        <5>2. snapshot[j] \in Nat
          BY <1>0 DEF Numbers
        <5>3. snapshot[j] >= acked + 1 /\ snapshot[j] # acked + 1
          BY <1>0, <5>1, <5>2 DEF Numbers
        <5> QED
          BY <5>3
      <4> QED
        BY <2>3, <4>1, <4>2
    <3>2. snapshot[i] = i /\ Len(snapshot) <= Len(records) /\ Len(records) <= Frontier
      BY <1>0, <1>t DEF Behind, Ordered, Numbers
    <3>3. i <= Frontier /\ i >= acked + 1 /\ (sent => i # acked + 1)
      BY <1>0, <3>1, <3>2 DEF Numbers
    <3>4. CASE sent
      BY <1>0, <3>3, <3>4 DEF Frontier, Numbers
    <3>5. CASE ~sent
      BY <1>0, <3>3, <3>5 DEF Frontier, Numbers
    <3> QED
      BY <3>4, <3>5
  <2> QED
    BY <1>4, <2>1, <2>2, <2>3 DEF GraphAck
<1> QED
  BY <1>1, <1>2, <1>3, <1>4 DEF FrontEnd

\* The steps of the graph node keep the invariant.
LEMMA NodeHolds == GInv /\ Node => GInv'
<1> SUFFICES ASSUME GInv, Node PROVE GInv'
  OBVIOUS
<1>0. Numbers
  BY InvNumbers
<1>t. TypeOK /\ QueueNumbered /\ Behind /\ Ordered /\ Closed
  BY DEF GInv
<1>w. Len(wire) <= Depth /\ \A i \in 1..Len(wire) : wire[i] \in 1..Frontier
  BY <1>t DEF TypeOK, Behind
<1>1. CASE AcceptedAgain
  <2>1. /\ Take /\ stage = "idle" /\ ~failed /\ snapshot' = records /\ news' = TRUE
        /\ UNCHANGED <<sender, graph>>
    BY <1>1 DEF AcceptedAgain, Idle, publish_snapshot
  <2>2. /\ wire' \in Seq(Nat) /\ Len(wire') <= Depth
        /\ \A i \in 1..Len(wire') : wire'[i] \in 1..Frontier
    BY <2>1, TakeHolds
  <2>3. Frontier' = Frontier
    BY <2>1 DEF sender, Frontier
  <2>4. news' \in BOOLEAN
    BY <2>1, Zenon
  <2>5. TypeOK'
    BY <1>t, <2>1, <2>2, <2>4 DEF TypeOK, sender, graph
  <2>6. Behind'
    BY <1>t, <2>1, <2>2, <2>3 DEF Behind, graph
  <2>7. Ordered'
    BY <1>0, <1>t, <2>1 DEF Ordered, Numbers, sender, graph
  <2>8. Closed'
    BY <1>t, <2>1 DEF Closed, graph
  <2> QED
    BY <2>1, <2>2, <2>5, <2>6, <2>7, <2>8, NodeKeeps
<1>2. CASE AcceptedIgnored
  <2>1. Take /\ UNCHANGED <<sender, snapshot, news, graph>>
    BY <1>2 DEF AcceptedIgnored
  <2>2. /\ wire' \in Seq(Nat) /\ Len(wire') <= Depth
        /\ \A i \in 1..Len(wire') : wire'[i] \in 1..Frontier
    BY <2>1, TakeHolds
  <2>3. Frontier' = Frontier
    BY <2>1 DEF sender, Frontier
  <2>4. TypeOK'
    BY <1>t, <2>1, <2>2 DEF TypeOK, sender, graph
  <2>5. Behind' /\ Ordered' /\ Closed'
    BY <1>t, <2>1, <2>2, <2>3 DEF Behind, Ordered, Closed, sender, graph
  <2> QED
    BY <2>1, <2>2, <2>4, <2>5, NodeKeeps
<1>3. CASE AcceptedRejected
  <2>1. /\ Take /\ failed' = TRUE /\ paused' = TRUE
        /\ UNCHANGED <<sender, snapshot, news, records, stage, durable, closed, barrier, alive>>
    BY <1>3 DEF AcceptedRejected
  <2>2. /\ wire' \in Seq(Nat) /\ Len(wire') <= Depth
        /\ \A i \in 1..Len(wire') : wire'[i] \in 1..Frontier
    BY <2>1, TakeHolds
  <2>3. Frontier' = Frontier
    BY <2>1 DEF sender, Frontier
  <2>b. failed' \in BOOLEAN /\ paused' \in BOOLEAN
    BY <2>1, Zenon
  <2>4. TypeOK'
    BY <1>t, <2>1, <2>2, <2>b DEF TypeOK, sender
  <2>5. Behind' /\ Ordered' /\ Closed'
    BY <1>t, <2>1, <2>2, <2>3 DEF Behind, Ordered, Closed, sender
  <2> QED
    BY <2>1, <2>2, <2>4, <2>5, NodeKeeps
<1>4. CASE AcceptedProcessed
  <2> DEFINE id == Head(wire)
  <2>1. /\ Take /\ ~Known(id) /\ ~closed /\ ~failed /\ stage = "idle" /\ Acceptable(id)
        /\ records' = Append(records, id) /\ stage' = "processed"
        /\ UNCHANGED <<sender, snapshot, news, durable, paused, failed, closed, barrier, alive>>
    BY <1>4 DEF AcceptedProcessed, Ready, Idle
  <2>2. /\ wire' \in Seq(Nat) /\ Len(wire') <= Depth
        /\ \A i \in 1..Len(wire') : wire'[i] \in 1..Frontier
        /\ id \in Nat /\ id > 0 /\ id <= Frontier
    BY <1>0, <2>1, TakeHolds DEF Numbers
  <2> HIDE DEF id
  <2>3. Frontier' = Frontier
    BY <2>1 DEF sender, Frontier
  <2>4. id = Len(records) + 1
    <3>1. acked <= Len(records)
      BY <1>0, <1>t DEF Ordered, Numbers
    <3>2. id <= Len(records) + 1
      <4>1. Frontier <= acked + 1
        BY <1>0 DEF Frontier, Numbers
      <4> QED
        BY <1>0, <2>2, <3>1, <4>1 DEF Numbers
    <3>3. CASE Len(records) = 0
      BY <3>2, <3>3, <2>2
    <3>4. CASE Len(records) # 0
      <4>1. Len(records) \in 1..Len(records) /\ records[Len(records)] = Len(records)
        BY <1>0, <1>t, <3>4 DEF Numbers, Behind
      <4>2. id > Len(records)
        BY <2>1, <4>1 DEF Acceptable
      <4>3. Len(records) \in Nat /\ id \in Nat
        BY <1>0, <2>2 DEF Numbers
      <4> QED
        BY ONLY <3>2, <4>2, <4>3
    <3> QED
      BY <3>3, <3>4
  <2>5. /\ records' \in Seq(Nat) /\ Len(records') = Len(records) + 1
        /\ \A i \in 1..Len(records) : records'[i] = records[i]
        /\ records'[Len(records) + 1] = id
    BY <1>0, <2>1, <2>2, AppendHolds DEF Numbers
  <2>6. \A i \in 1..Len(records') : records'[i] = i
    <3> SUFFICES ASSUME NEW i \in 1..Len(records') PROVE records'[i] = i
      OBVIOUS
    <3>1. i \in 1..Len(records) \/ i = Len(records) + 1
      BY <1>0, <2>5 DEF Numbers
    <3> QED
      BY <1>t, <2>4, <2>5, <3>1 DEF Behind
  <2>7. TypeOK'
    BY <1>t, <2>1, <2>2, <2>5 DEF TypeOK, sender
  <2>8. Behind'
    BY <1>t, <2>1, <2>2, <2>3, <2>4, <2>5, <2>6 DEF Behind
  <2>9. Ordered'
    BY <1>0, <1>t, <2>1, <2>5 DEF Ordered, Numbers, sender
  <2>10. Closed'
    BY <1>t, <2>1 DEF Closed
  <2> QED
    BY <2>1, <2>2, <2>7, <2>8, <2>9, <2>10, NodeKeeps
<1>5. CASE RevisionWritten
  <2>1. /\ stage = "processed" /\ stage' = "persisted" /\ durable' = Len(records)
        /\ UNCHANGED <<sender, topics, records, paused, failed, closed, barrier, alive>>
    BY <1>5 DEF RevisionWritten
  <2>2. TypeOK' /\ Frontier' = Frontier
    BY <1>0, <1>t, <2>1 DEF TypeOK, sender, topics, Frontier, Numbers
  <2>3. Behind' /\ Closed'
    BY <1>t, <2>1, <2>2 DEF Behind, Closed, topics
  <2>4. Ordered'
    BY <1>0, <1>t, <2>1 DEF Ordered, Numbers, sender, topics
  <2> QED
    BY <1>0, <1>w, <2>1, <2>2, <2>3, <2>4, NodeKeeps DEF topics, Numbers
<1>6. CASE RevisionFails
  <2>1. /\ stage # "idle" /\ stage' = "idle" /\ failed' = TRUE /\ paused' = TRUE
        /\ durable' \in {durable, Len(records)}
        /\ UNCHANGED <<sender, topics, records, closed, barrier, alive>>
    BY <1>6 DEF RevisionFails
  <2>b. failed' \in BOOLEAN /\ paused' \in BOOLEAN
    BY <2>1, Zenon
  <2>2. TypeOK' /\ Frontier' = Frontier
    BY <1>0, <1>t, <2>1, <2>b DEF TypeOK, sender, topics, Frontier, Numbers
  <2>3. Behind' /\ Closed' /\ Ordered'
    BY <1>0, <1>t, <2>1, <2>2 DEF Behind, Closed, Ordered, sender, topics, Numbers
  <2> QED
    BY <1>0, <1>w, <2>1, <2>2, <2>3, NodeKeeps DEF topics, Numbers
<1>7. CASE SnapshotPublished
  <2>1. /\ stage = "persisted" /\ stage' = "idle" /\ snapshot' = records /\ news' = TRUE
        /\ UNCHANGED <<sender, wire, records, durable, closed, barrier, alive>>
        /\ \/ UNCHANGED <<paused, failed>>
           \/ paused' = TRUE /\ failed' = TRUE
    BY <1>7 DEF SnapshotPublished, publish_snapshot
  <2>p. paused \in BOOLEAN /\ failed \in BOOLEAN
    BY <1>t DEF TypeOK
  <2>b. failed' \in BOOLEAN /\ paused' \in BOOLEAN /\ news' \in BOOLEAN
    BY <2>1, <2>p, Zenon
  <2>2. TypeOK' /\ Frontier' = Frontier
    BY <1>t, <2>1, <2>b DEF TypeOK, sender, Frontier
  <2>3. Behind' /\ Closed'
    BY <1>t, <2>1, <2>2 DEF Behind, Closed
  <2>4. Ordered'
    BY <1>0, <1>t, <2>1 DEF Ordered, Numbers, sender
  <2> QED
    BY <1>0, <1>w, <2>1, <2>2, <2>3, <2>4, NodeKeeps DEF Numbers
<1>8. CASE CloseSnapshot \/ (CloseBlocked /\ barrier' # barrier)
  <2>1. /\ stage = "idle" /\ ~failed /\ paused' = TRUE /\ closed' = TRUE
        /\ barrier' = Len(records)
        /\ UNCHANGED <<sender, topics, records, stage, durable, failed, alive>>
    BY <1>8 DEF CloseSnapshot, CloseBlocked, Idle
  <2>b. closed' \in BOOLEAN /\ paused' \in BOOLEAN
    BY <2>1, Zenon
  <2>2. TypeOK' /\ Frontier' = Frontier
    BY <1>0, <1>t, <2>1, <2>b DEF TypeOK, sender, topics, Frontier, Numbers
  <2>3. Behind' /\ Closed' /\ Ordered'
    BY <1>t, <2>1, <2>2 DEF Behind, Closed, Ordered, sender, topics
  <2> QED
    BY <1>0, <1>w, <2>1, <2>2, <2>3, NodeKeeps DEF topics, Numbers
<1>9. CASE PauseGraph \/ (CloseBlocked /\ barrier' = barrier) \/ Crash
  <2>1. /\ UNCHANGED <<sender, topics, records, stage, durable, failed, barrier>>
        /\ closed' = closed \/ closed' = TRUE
        /\ paused' = paused \/ paused' = TRUE
        /\ alive' = alive \/ alive' = FALSE
    BY <1>9 DEF PauseGraph, CloseBlocked, Crash
  <2>p. paused \in BOOLEAN /\ closed \in BOOLEAN /\ alive \in BOOLEAN
    BY <1>t DEF TypeOK
  <2>b. closed' \in BOOLEAN /\ paused' \in BOOLEAN /\ alive' \in BOOLEAN
    BY <2>1, <2>p, Zenon
  <2>2. TypeOK' /\ Frontier' = Frontier
    BY <1>t, <2>1, <2>b DEF TypeOK, sender, topics, Frontier
  <2>3. Behind' /\ Closed' /\ Ordered'
    <3>1. Closed'
      <4>1. CASE barrier = 0
        BY <2>1, <4>1 DEF Closed
      <4>2. CASE barrier # 0
        BY <1>t, <2>1, <2>p, <4>2 DEF Closed
      <4> QED
        BY <4>1, <4>2
    <3> QED
      BY <1>t, <2>1, <2>2, <3>1 DEF Behind, Ordered, sender, topics
  <2> QED
    BY <1>0, <1>w, <2>1, <2>2, <2>3, NodeKeeps DEF topics, Numbers
<1> QED
  BY <1>1, <1>2, <1>3, <1>4, <1>5, <1>6, <1>7, <1>8, <1>9 DEF Node

-----------------------------------------------------------------------------

\* The invariant holds in every state of the delivery.
THEOREM DeliveryInductive == Spec => []GInv
<1>1. Init => GInv
  BY DeliveryInit
<1>2. GInv /\ [Next]_vars => GInv'
  <2> SUFFICES ASSUME GInv, [Next]_vars PROVE GInv'
    OBVIOUS
  <2>1. CASE Next
    BY <2>1, FrontEndHolds, NodeHolds DEF Next
  <2>2. CASE UNCHANGED vars
    BY <2>2 DEF vars, sender, topics, graph, GInv, TypeOK, QueueNumbered, Behind, Frontier,
                Ordered, Closed, NoFalseContradiction
  <2> QED
    BY <2>1, <2>2
<1> QED
  BY <1>1, <1>2, PTL DEF Spec

\* Neither the delivery queue nor the accepted topic ever exceeds its bound.
THEOREM DeliveryTypeCorrect == Spec => []TypeOK
<1>1. GInv => TypeOK
  BY DEF GInv
<1> QED
  BY <1>1, DeliveryInductive, PTL

\* The graph holds the submitted observations in order, without a gap or a
\* repetition, although topics lose and retries repeat them.
THEOREM GraphIsAlwaysPrefix == Spec => []GraphIsPrefix
<1>1. GInv => GraphIsPrefix
  <2> SUFFICES ASSUME GInv PROVE GraphIsPrefix
    OBVIOUS
  <2>0. Numbers
    BY InvNumbers
  <2>1. Frontier <= submitted
    <3>1. CASE sent
      <4>1. Len(queue) > 0
        BY <2>0, <3>1, TailHolds DEF GInv, QueueNumbered, Numbers
      <4> QED
        BY <2>0, <3>1, <4>1 DEF GInv, QueueNumbered, Numbers, Frontier
    <3>2. CASE ~sent
      BY <2>0, <3>2 DEF GInv, QueueNumbered, Numbers, Frontier
    <3> QED
      BY <3>1, <3>2
  <2> QED
    BY <2>0, <2>1 DEF GInv, Behind, GraphIsPrefix, Numbers
<1> QED
  BY <1>1, DeliveryInductive, PTL

\* The front end forgets an observation only once a revision file lists it.
THEOREM AckedIsAlwaysDurable == Spec => []AckedIsDurable
<1>1. GInv => AckedIsDurable
  BY InvNumbers DEF GInv, Ordered, AckedIsDurable, Numbers
<1> QED
  BY <1>1, DeliveryInductive, PTL

\* A barrier names the last revision, which is on disk and holds everything
\* acknowledged.
THEOREM BarrierIsAlwaysFinal == Spec => []BarrierIsFinal
<1>1. GInv => BarrierIsFinal
  BY InvNumbers DEF GInv, Ordered, Closed, BarrierIsFinal, Numbers
<1> QED
  BY <1>1, DeliveryInductive, PTL

\* Late, repeated and superseded snapshots never stop the front end.
THEOREM NeverFalseContradiction == Spec => []NoFalseContradiction
<1>1. GInv => NoFalseContradiction
  BY DEF GInv
<1> QED
  BY <1>1, DeliveryInductive, PTL

=============================================================================
