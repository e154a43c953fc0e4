-------------------------- MODULE WheelDriveProofs --------------------------
(* Proofs about WheelDrive for every configuration and every bound. *)
EXTENDS WheelDrive, TLAPS

ActiveState(s) == s \in {"INITIALIZING", "ARMED"}

\* What any socket packet, disconnection or timeout may do to the owner's
\* fields: nothing about the channel, never a new activation, never forget a
\* pending stop, leave a pending stop behind whenever it deactivates, and take
\* new keys only of a generation up to t.
PumpStep(v, u, t) ==
    /\ u \in Owner
    /\ u.motion_may_exist = v.motion_may_exist
    /\ u.initialized_by_user = v.initialized_by_user
    /\ u.failed = v.failed
    /\ u.recovery_attempted = v.recovery_attempted
    /\ u.command_wait = v.command_wait
    /\ u.arm_generation >= v.arm_generation
    /\ v.stop_requested => u.stop_requested
    /\ u.stop_deadline => \/ v.stop_deadline /\ u.stop_zero_samples = v.stop_zero_samples
                          \/ ~v.motion_may_exist /\ u.stop_zero_samples = 0
    /\ v.state = "FAULT" <=> u.state = "FAULT"
    /\ ActiveState(u.state) =>
          /\ u.state = v.state
          /\ u.arm_generation = v.arm_generation
          /\ u.init_step = v.init_step
          /\ u.stop_requested = v.stop_requested
          /\ u.stop_deadline => v.stop_deadline
    /\ ActiveState(v.state) /\ ~ActiveState(u.state) =>
          u.stop_requested \/ ~v.motion_may_exist \/ v.stop_deadline
    /\ ActiveState(u.state) /\ target(v.keys) # Zero => target(u.keys) # Zero
    /\ u.keys # {} => \/ v.keys # {} /\ u.arm_generation = v.arm_generation
                      \/ u.arm_generation <= t

\* target() yields a direction for every set of keys.
LEMMA TargetType == \A ks : target(ks) \in Targets
BY DEF target, Targets, Bit

\* No held key commands no motion.
LEMMA TargetOfNone == target({}) = Zero
BY DEF target, Zero, Bit

\* The fields of disarm(v, b), one by one.
LEMMA DisarmFields ==
    ASSUME NEW v \in Owner, NEW b \in BOOLEAN
    PROVE  LET n == b /\ HybridManual /\ _ui_fresh(v)
               dl == v.stop_deadline /\ ~n
               u == disarm(v, b)
           IN
           /\ u \in Owner
           /\ u.keys = {}
           /\ u.arm_generation = v.arm_generation + 1
           /\ u.state = IF v.state = "FAULT" THEN "FAULT" ELSE IF ArmAllowed THEN "READY" ELSE "DISARMED"
           /\ u.init_step = 0
           /\ u.push_mode_requested = n
           /\ u.stop_deadline = dl
           /\ u.stop_requested = (v.stop_requested \/ n \/ (v.motion_may_exist /\ ~dl))
           /\ u.motion_may_exist = v.motion_may_exist
           /\ u.initialized_by_user = v.initialized_by_user
           /\ u.failed = v.failed
           /\ u.recovery_attempted = v.recovery_attempted
           /\ u.command_wait = v.command_wait
           /\ u.stop_zero_samples = v.stop_zero_samples
<1> DEFINE n == b /\ HybridManual /\ _ui_fresh(v)
           dl == v.stop_deadline /\ ~n
           u == disarm(v, b)
           st == IF v.state = "FAULT" THEN "FAULT" ELSE IF ArmAllowed THEN "READY" ELSE "DISARMED"
           g == v.arm_generation + 1
           z == 0
           hi == IF HybridManual THEN ~n ELSE v.hybrid_release_inhibited
           fg == v.foreground /\ (HybridManual => n)
           ui == IF HybridManual /\ ~n THEN "none" ELSE v.ui
           sr == v.stop_requested \/ n \/ (v.motion_may_exist /\ ~dl)
<1>1. n \in Flag /\ dl \in Flag /\ hi \in Flag /\ fg \in Flag /\ sr \in Flag
  BY ConfigAssumption DEF Owner, Flag
<1>2. g \in Nat /\ z \in Count(InitLength) /\ {} \in KeySet /\ FALSE \in Flag
  BY DEF Owner, InitLength, Count, KeySet, Flag
<1>3. st \in States /\ ui \in Heartbeat
  BY DEF Owner, States, Heartbeat
<1>4. u = [v EXCEPT !.keys = {}, !.keys_fresh = FALSE, !.arm_generation = g, !.state = st,
                    !.init_step = z, !.push_mode_requested = n,
                    !.hybrid_release_inhibited = hi, !.foreground = fg, !.ui = ui,
                    !.stop_deadline = dl, !.stop_requested = sr]
  BY DEF disarm
<1> HIDE DEF n, dl, u, st, g, z, hi, fg, ui, sr
<1>5. u \in Owner
  BY <1>1, <1>2, <1>3, <1>4 DEF Owner
<1>6. /\ u.keys = {} /\ u.arm_generation = g /\ u.state = st /\ u.init_step = z
      /\ u.push_mode_requested = n /\ u.stop_deadline = dl /\ u.stop_requested = sr
      /\ u.motion_may_exist = v.motion_may_exist
      /\ u.initialized_by_user = v.initialized_by_user
      /\ u.failed = v.failed /\ u.recovery_attempted = v.recovery_attempted
      /\ u.command_wait = v.command_wait /\ u.stop_zero_samples = v.stop_zero_samples
  BY <1>4 DEF Owner
<1> QED
  BY <1>5, <1>6 DEF n, dl, u, st, g, z, sr

\* A typed field keeps the record typed.
LEMMA Updates ==
    ASSUME NEW v \in Owner
    PROVE  /\ \A x \in States : [v EXCEPT !.state = x] \in Owner
           /\ \A x \in KeySet : [v EXCEPT !.keys = x] \in Owner
           /\ \A x \in Heartbeat : [v EXCEPT !.ui = x] \in Owner
           /\ \A x \in Count(3) : [v EXCEPT !.window = x] \in Owner
           /\ \A x \in Count(2) : [v EXCEPT !.command_wait = x] \in Owner
           /\ \A x \in Flag :
                 /\ [v EXCEPT !.keys_fresh = x] \in Owner
                 /\ [v EXCEPT !.peer_connected = x] \in Owner
                 /\ [v EXCEPT !.stop_requested = x] \in Owner
                 /\ [v EXCEPT !.motion_may_exist = x] \in Owner
                 /\ [v EXCEPT !.failed = x] \in Owner
                 /\ [v EXCEPT !.recovery_attempted = x] \in Owner
BY DEF Owner

\* disarm() is a step the pump may take; it drops the keys, opens a new generation and
\* leaves a stop owed or served wherever motion may exist.
LEMMA DisarmStep ==
    ASSUME NEW v \in Owner, NEW b \in BOOLEAN, NEW t
    PROVE  /\ PumpStep(v, disarm(v, b), t)
           /\ disarm(v, b).keys = {}
           /\ disarm(v, b).arm_generation = v.arm_generation + 1
           /\ ~ActiveState(disarm(v, b).state)
           /\ disarm(v, b).stop_requested \/ ~v.motion_may_exist \/ disarm(v, b).stop_deadline
<1>1. v.arm_generation \in Nat
  BY DEF Owner
<1> DEFINE n == b /\ HybridManual /\ _ui_fresh(v)
           dl == v.stop_deadline /\ ~n
           u == disarm(v, b)
<1>2. /\ u \in Owner /\ u.keys = {} /\ u.arm_generation = v.arm_generation + 1
      /\ u.state = IF v.state = "FAULT" THEN "FAULT" ELSE IF ArmAllowed THEN "READY" ELSE "DISARMED"
      /\ u.motion_may_exist = v.motion_may_exist
      /\ u.initialized_by_user = v.initialized_by_user
      /\ u.failed = v.failed /\ u.recovery_attempted = v.recovery_attempted
      /\ u.command_wait = v.command_wait /\ u.stop_zero_samples = v.stop_zero_samples
  BY DisarmFields
<1>3. u.stop_deadline = dl /\ u.stop_requested = (v.stop_requested \/ n \/ (v.motion_may_exist /\ ~dl))
  BY DisarmFields
<1>4. /\ v.stop_requested => u.stop_requested
      /\ u.stop_deadline => v.stop_deadline
      /\ u.stop_requested \/ ~v.motion_may_exist \/ u.stop_deadline
  BY <1>3
<1> HIDE DEF n, dl, u
<1>5. /\ PumpStep(v, u, t) /\ ~ActiveState(u.state)
  BY <1>1, <1>2, <1>4 DEF PumpStep, ActiveState
<1> QED
  BY <1>2, <1>4, <1>5 DEF u

\* Receiving nothing is a pump step.
LEMMA PumpRefl ==
    ASSUME NEW v \in Owner, NEW t
    PROVE  PumpStep(v, v, t)
<1>1. v.arm_generation \in Nat
  BY DEF Owner
<1> QED
  BY <1>1 DEF PumpStep, ActiveState

\* Pump steps compose, so one pump may handle any number of packets.
LEMMA PumpTrans ==
    ASSUME NEW a \in Owner, NEW b, NEW c, NEW t \in Nat, PumpStep(a, b, t), PumpStep(b, c, t)
    PROVE  PumpStep(a, c, t)
<1>1. a.arm_generation \in Nat /\ b.arm_generation \in Nat /\ c.arm_generation \in Nat
  BY DEF Owner, PumpStep
<1> QED
  BY <1>1 DEF PumpStep, ActiveState

\* revoke() has the effect of disarm() without a UI to fall back on.
LEMMA RevokeStep ==
    ASSUME NEW v \in Owner, NEW t
    PROVE  /\ PumpStep(v, revoke(v), t)
           /\ revoke(v).keys = {}
           /\ revoke(v).arm_generation = v.arm_generation + 1
           /\ ~ActiveState(revoke(v).state)
           /\ revoke(v).stop_requested \/ ~v.motion_may_exist \/ revoke(v).stop_deadline
BY DisarmStep DEF revoke

\* What fault() changes and what it leaves alone.
LEMMA FaultStep ==
    ASSUME NEW v \in Owner
    PROVE  LET u == fault(v) IN
           /\ u \in Owner
           /\ u.state = "FAULT"
           /\ u.keys = {}
           /\ u.arm_generation = v.arm_generation + 1
           /\ u.motion_may_exist = v.motion_may_exist
           /\ u.initialized_by_user = v.initialized_by_user
           /\ u.failed = v.failed
           /\ u.recovery_attempted = v.recovery_attempted
           /\ u.command_wait = v.command_wait
           /\ u.stop_deadline => v.stop_deadline
           /\ u.stop_zero_samples = v.stop_zero_samples
           /\ u.stop_requested \/ ~v.motion_may_exist \/ u.stop_deadline
<1> DEFINE x == [v EXCEPT !.state = "FAULT"]
           u == disarm(x, FALSE)
<1>1. x \in Owner
  BY Updates DEF States
<1>2. /\ x.state = "FAULT" /\ x.arm_generation = v.arm_generation
      /\ x.motion_may_exist = v.motion_may_exist
      /\ x.initialized_by_user = v.initialized_by_user
      /\ x.failed = v.failed /\ x.recovery_attempted = v.recovery_attempted
      /\ x.command_wait = v.command_wait /\ x.stop_deadline = v.stop_deadline
      /\ x.stop_zero_samples = v.stop_zero_samples
  BY DEF Owner
<1> HIDE DEF x
<1>3. /\ u \in Owner /\ u.keys = {} /\ u.arm_generation = x.arm_generation + 1
      /\ u.state = "FAULT" /\ u.motion_may_exist = x.motion_may_exist
      /\ u.initialized_by_user = x.initialized_by_user
      /\ u.failed = x.failed /\ u.recovery_attempted = x.recovery_attempted
      /\ u.command_wait = x.command_wait /\ u.stop_zero_samples = x.stop_zero_samples
  BY <1>1, <1>2, DisarmFields
<1>4. (u.stop_deadline => x.stop_deadline)
      /\ (u.stop_requested \/ ~x.motion_may_exist \/ u.stop_deadline)
<2>1. FALSE \in BOOLEAN
  OBVIOUS
<2>2. u.stop_deadline = (x.stop_deadline /\ ~(FALSE /\ HybridManual /\ _ui_fresh(x)))
  BY <1>1, <2>1, DisarmFields
<2> QED
  BY <1>1, <2>1, <2>2, DisarmStep
<1>5. u = fault(v)
  BY DEF fault, revoke, x
<1> HIDE DEF u
<1> QED
  BY <1>2, <1>3, <1>4, <1>5

\* The fields that PumpStep is about are left alone.
SameCore(v, u) ==
    /\ u.state = v.state /\ u.keys = v.keys /\ u.arm_generation = v.arm_generation
    /\ u.init_step = v.init_step /\ u.stop_requested = v.stop_requested
    /\ u.stop_deadline = v.stop_deadline /\ u.motion_may_exist = v.motion_may_exist
    /\ u.initialized_by_user = v.initialized_by_user
    /\ u.failed = v.failed /\ u.recovery_attempted = v.recovery_attempted
    /\ u.command_wait = v.command_wait /\ u.stop_zero_samples = v.stop_zero_samples

\* A change of fields no safety property depends on is a pump step.
LEMMA SameCoreStep ==
    ASSUME NEW v \in Owner, NEW u \in Owner, NEW t, SameCore(v, u)
    PROVE  PumpStep(v, u, t)
<1>1. v.arm_generation \in Nat
  BY DEF Owner
<1> QED
  BY <1>1 DEF PumpStep, SameCore, ActiveState

\* Connecting or losing the peer alone is a pump step.
LEMMA PeerStep ==
    ASSUME NEW v \in Owner, NEW p \in Flag, NEW t
    PROVE  PumpStep(v, [v EXCEPT !.peer_connected = p], t)
<1> DEFINE u == [v EXCEPT !.peer_connected = p]
<1>1. u \in Owner
  BY Updates
<1>2. SameCore(v, u)
  BY DEF Owner, SameCore
<1> HIDE DEF u
<1>3. PumpStep(v, u, t)
  BY <1>1, <1>2, SameCoreStep
<1> QED
  BY <1>3 DEF u

\* A new client is a pump step.
LEMMA ConnectedStep ==
    ASSUME NEW v \in Owner, NEW t
    PROVE  PumpStep(v, connected(v), t)
<1> DEFINE u == [v EXCEPT !.peer_connected = TRUE, !.foreground = FALSE, !.ui = "none"]
<1>0. TRUE \in Flag /\ FALSE \in Flag /\ "none" \in Heartbeat
  BY DEF Flag, Heartbeat
<1>1. u \in Owner
  BY <1>0 DEF Owner
<1>2. SameCore(v, u)
  BY DEF Owner, SameCore
<1> HIDE DEF u
<1>3. PumpStep(v, u, t)
  BY <1>1, <1>2, SameCoreStep
<1> QED
  BY <1>3 DEF u, connected

\* A lost client, whose keys are revoked, is a pump step.
LEMMA DisconnectedStep ==
    ASSUME NEW v \in Owner, NEW t \in Nat
    PROVE  PumpStep(v, disconnected(v), t)
<1> DEFINE x == [v EXCEPT !.peer_connected = FALSE]
<1>1. PumpStep(v, x, t) /\ x \in Owner
  BY PeerStep, Updates DEF Flag
<1> HIDE DEF x
<1>2. PumpStep(x, revoke(x), t)
  BY <1>1, RevokeStep
<1>3. PumpStep(v, revoke(x), t)
  BY <1>1, <1>2, PumpTrans
<1> QED
  BY <1>3 DEF disconnected, x

\* A rejected packet, which costs the client its connection, is a pump step.
LEMMA RejectedStep ==
    ASSUME NEW v \in Owner, NEW t \in Nat
    PROVE  PumpStep(v, rejected(v), t)
<1>1. PumpStep(v, revoke(v), t) /\ revoke(v) \in Owner
  BY RevokeStep DEF PumpStep
<1>2. PumpStep(revoke(v), disconnected(revoke(v)), t)
  BY <1>1, DisconnectedStep
<1> QED
  BY <1>1, <1>2, PumpTrans DEF rejected

\* A UI heartbeat is a pump step that keeps state and generation.
LEMMA HeartbeatStep ==
    ASSUME NEW v \in Owner, NEW ks, NEW t
    PROVE  /\ PumpStep(v, heartbeat(v, ks), t)
           /\ heartbeat(v, ks).state = v.state
           /\ heartbeat(v, ks).arm_generation = v.arm_generation
<1>0. /\ TRUE \in Flag /\ FALSE \in Flag /\ "fresh" \in Heartbeat /\ 0 \in Count(3)
      /\ v.arm_generation \in Nat
  BY DEF Flag, Heartbeat, Count, Owner
<1>1. CASE ks = {}
<2> DEFINE u == [v EXCEPT !.foreground = TRUE, !.ui = "fresh"]
<2>1. u \in Owner
  BY <1>0 DEF Owner
<2>2. SameCore(v, u)
  BY DEF Owner, SameCore
<2> HIDE DEF u
<2>3. PumpStep(v, u, t) /\ u.state = v.state /\ u.arm_generation = v.arm_generation
  BY <2>1, <2>2, SameCoreStep DEF SameCore
<2> QED
  BY <1>1, <2>3 DEF heartbeat, u
<1>2. CASE ks # {}
<2> DEFINE z == 0
           u == [v EXCEPT !.foreground = TRUE, !.ui = "fresh",
                          !.hybrid_release_inhibited = FALSE,
                          !.push_mode = FALSE, !.push_mode_requested = FALSE,
                          !.stop_deadline = FALSE, !.stop_zero_samples = z]
<2>1. heartbeat(v, ks) = u
  BY <1>2 DEF heartbeat
<2>2. z \in Count(3)
  BY <1>0
<2> HIDE DEF z
<2>3. u \in Owner
  BY <1>0, <2>2 DEF Owner
<2>4. /\ u.state = v.state /\ u.keys = v.keys /\ u.arm_generation = v.arm_generation
      /\ u.init_step = v.init_step /\ u.stop_requested = v.stop_requested
      /\ u.stop_deadline = FALSE /\ u.motion_may_exist = v.motion_may_exist
      /\ u.initialized_by_user = v.initialized_by_user
      /\ u.failed = v.failed /\ u.recovery_attempted = v.recovery_attempted
      /\ u.command_wait = v.command_wait
  BY DEF Owner
<2> HIDE DEF u
<2>5. PumpStep(v, u, t)
  BY <1>0, <2>3, <2>4 DEF PumpStep, ActiveState
<2> QED
  BY <2>1, <2>4, <2>5
<1> QED
  BY <1>1, <1>2

\* _request_hybrid_push() is a pump step: motion that may exist gets its stop.
LEMMA HybridPushStep ==
    ASSUME NEW v \in Owner, NEW t
    PROVE  PumpStep(v, _request_hybrid_push(v), t)
<1> DEFINE z == 0
           nd == ~v.motion_may_exist
           sr == v.stop_requested \/ v.motion_may_exist
           u == [v EXCEPT !.push_mode_requested = TRUE, !.stop_zero_samples = z,
                          !.stop_deadline = nd, !.stop_requested = sr]
<1>0. /\ TRUE \in Flag /\ z \in Count(3) /\ nd \in Flag /\ sr \in Flag
      /\ v.arm_generation \in Nat
  BY DEF Flag, Count, Owner
<1>1. _request_hybrid_push(v) \in {v, u}
  BY DEF _request_hybrid_push
<1>2. _request_hybrid_push(v) = u => v.state = "READY" \/ u = v
  BY DEF _request_hybrid_push
<1>3. CASE _request_hybrid_push(v) = v
  BY <1>3, PumpRefl
<1>4. CASE _request_hybrid_push(v) = u /\ v.state = "READY"
<2>1. (nd => ~v.motion_may_exist) /\ (v.stop_requested => sr) /\ z = 0
  OBVIOUS
<2> HIDE DEF z, nd, sr
<2>2. u \in Owner
  BY <1>0 DEF Owner
<2>3. /\ u.state = v.state /\ u.keys = v.keys /\ u.arm_generation = v.arm_generation
      /\ u.init_step = v.init_step /\ u.stop_requested = sr /\ u.stop_zero_samples = z
      /\ u.stop_deadline = nd /\ u.motion_may_exist = v.motion_may_exist
      /\ u.initialized_by_user = v.initialized_by_user
      /\ u.failed = v.failed /\ u.recovery_attempted = v.recovery_attempted
      /\ u.command_wait = v.command_wait
  BY DEF Owner
<2> HIDE DEF u
<2> QED
  BY <1>0, <1>4, <2>1, <2>2, <2>3 DEF PumpStep, ActiveState
<1> QED
  BY <1>1, <1>2, <1>3, <1>4, PumpRefl

\* A push_mode packet is a pump step.
LEMMA PushCommandStep ==
    ASSUME NEW v \in Owner, NEW g, NEW e \in BOOLEAN, NEW t \in Nat
    PROVE  PumpStep(v, push_command(v, g, e), t)
<1> DEFINE d == revoke(v)
           dl == d.stop_deadline /\ ~e
           sr == d.stop_requested \/ e
           u == [d EXCEPT !.push_mode = FALSE, !.push_mode_requested = e,
                          !.stop_deadline = dl, !.stop_requested = sr]
<1>1. /\ PumpStep(v, d, t) /\ d \in Owner /\ d.keys = {} /\ ~ActiveState(d.state)
  BY RevokeStep DEF PumpStep
<1>2. push_command(v, g, e) \in {v, u}
  BY DEF push_command
<1>3. /\ dl \in Flag /\ sr \in Flag /\ e \in Flag /\ FALSE \in Flag
      /\ (dl => d.stop_deadline) /\ (d.stop_requested => sr)
  BY DEF Flag
<1> HIDE DEF d, dl, sr
<1>4. u \in Owner
  BY <1>1, <1>3 DEF Owner
<1>5. /\ u.state = d.state /\ u.keys = d.keys /\ u.arm_generation = d.arm_generation
      /\ u.init_step = d.init_step /\ u.stop_requested = sr
      /\ u.stop_zero_samples = d.stop_zero_samples
      /\ u.stop_deadline = dl /\ u.motion_may_exist = d.motion_may_exist
      /\ u.initialized_by_user = d.initialized_by_user
      /\ u.failed = d.failed /\ u.recovery_attempted = d.recovery_attempted
      /\ u.command_wait = d.command_wait /\ d.arm_generation \in Nat
  BY <1>1 DEF Owner
<1> HIDE DEF u
<1>6. PumpStep(d, u, t)
  BY <1>1, <1>3, <1>4, <1>5 DEF PumpStep, ActiveState
<1>7. PumpStep(v, u, t)
  BY <1>1, <1>6, PumpTrans
<1> QED
  BY <1>2, <1>7, PumpRefl

\* Keys of a current packet: v.arm_generation is a generation the client knows.
LEMMA TakeKeysStep ==
    ASSUME NEW v \in Owner, NEW ks \in KeySet, NEW t \in Nat,
           v.arm_generation <= t, v.state # "FAULT"
    PROVE  PumpStep(v, take_keys(v, ks), t)
<1>0. /\ TRUE \in Flag /\ FALSE \in Flag /\ {} \in KeySet /\ "READY" \in States
      /\ v.arm_generation \in Nat /\ target({}) = Zero
  BY TargetOfNone DEF Flag, KeySet, Owner, States
<1>1. CASE v.keys # {} /\ ~v.keys_fresh
  BY <1>1, RevokeStep DEF take_keys
<1>2. CASE (v.keys = {} \/ v.keys_fresh) /\ target(ks) # Zero
<2> DEFINE u == [v EXCEPT !.keys = ks, !.keys_fresh = TRUE]
<2>1. take_keys(v, ks) = u
  BY <1>2, <1>0 DEF take_keys
<2>2. u \in Owner
  BY <1>0 DEF Owner
<2>3. /\ u.state = v.state /\ u.keys = ks /\ u.arm_generation = v.arm_generation
      /\ u.init_step = v.init_step /\ u.stop_requested = v.stop_requested
      /\ u.stop_deadline = v.stop_deadline /\ u.motion_may_exist = v.motion_may_exist
      /\ u.initialized_by_user = v.initialized_by_user
      /\ u.failed = v.failed /\ u.recovery_attempted = v.recovery_attempted
      /\ u.command_wait = v.command_wait /\ u.stop_zero_samples = v.stop_zero_samples
  BY DEF Owner
<2> HIDE DEF u
<2>4. PumpStep(v, u, t)
  BY <1>0, <1>2, <2>2, <2>3 DEF PumpStep, ActiveState
<2> QED
  BY <2>1, <2>4
<1>3. CASE (v.keys = {} \/ v.keys_fresh) /\ target(ks) = Zero /\ ks # {}
<2> DEFINE z == 0
           sr == v.stop_requested \/ (v.motion_may_exist /\ ~v.stop_deadline)
           u == [v EXCEPT !.keys = ks, !.keys_fresh = TRUE, !.state = "READY", !.init_step = z,
                          !.stop_requested = sr]
<2>1. take_keys(v, ks) = u
  BY <1>3 DEF take_keys
<2>2. /\ z \in Count(InitLength) /\ sr \in Flag /\ (v.stop_requested => sr)
      /\ sr \/ ~v.motion_may_exist \/ v.stop_deadline
  BY DEF Count, InitLength, Flag
<2> HIDE DEF z, sr
<2>3. u \in Owner
  BY <1>0, <2>2 DEF Owner
<2>4. /\ u.state = "READY" /\ u.keys = ks /\ u.arm_generation = v.arm_generation
      /\ u.stop_requested = sr
      /\ u.stop_deadline = v.stop_deadline /\ u.motion_may_exist = v.motion_may_exist
      /\ u.initialized_by_user = v.initialized_by_user
      /\ u.failed = v.failed /\ u.recovery_attempted = v.recovery_attempted
      /\ u.command_wait = v.command_wait /\ u.stop_zero_samples = v.stop_zero_samples
  BY DEF Owner
<2> HIDE DEF u
<2>5. PumpStep(v, u, t)
  BY <1>0, <2>2, <2>3, <2>4 DEF PumpStep, ActiveState
<2> QED
  BY <2>1, <2>5
<1>4. CASE (v.keys = {} \/ v.keys_fresh) /\ ks = {}
<2>1. CASE v.keys # {} \/ v.state \in {"INITIALIZING", "ARMED"}
<3> DEFINE x == [v EXCEPT !.keys = {}]
           u == disarm(x, TRUE)
<3>1. take_keys(v, ks) = u
  BY <1>4, <1>0, <2>1 DEF take_keys
<3>2. x \in Owner
  BY <1>0, Updates
<3>3. /\ x.state = v.state /\ x.arm_generation = v.arm_generation
      /\ x.stop_requested = v.stop_requested
      /\ x.stop_deadline = v.stop_deadline /\ x.motion_may_exist = v.motion_may_exist
      /\ x.initialized_by_user = v.initialized_by_user
      /\ x.failed = v.failed /\ x.recovery_attempted = v.recovery_attempted
      /\ x.command_wait = v.command_wait /\ x.stop_zero_samples = v.stop_zero_samples
  BY DEF Owner
<3> HIDE DEF x
<3>4. /\ PumpStep(x, u, t) /\ u.keys = {} /\ ~ActiveState(u.state)
      /\ u.stop_requested \/ ~x.motion_may_exist \/ u.stop_deadline
  BY <3>2, DisarmStep
<3> HIDE DEF u
<3>5. PumpStep(v, u, t)
  BY <3>3, <3>4 DEF PumpStep
<3> QED
  BY <3>1, <3>5
<2>2. CASE ~(v.keys # {} \/ v.state \in {"INITIALIZING", "ARMED"})
<3> DEFINE x == [v EXCEPT !.keys_fresh = FALSE]
<3>1. take_keys(v, ks) = _request_hybrid_push(x)
  BY <1>4, <1>0, <2>2 DEF take_keys
<3>2. x \in Owner
  BY <1>0, Updates
<3>3. SameCore(v, x)
  BY DEF Owner, SameCore
<3> HIDE DEF x
<3>4. PumpStep(v, x, t) /\ PumpStep(x, _request_hybrid_push(x), t)
  BY <3>2, <3>3, SameCoreStep, HybridPushStep
<3> QED
  BY <3>1, <3>4, PumpTrans
<2> QED
  BY <2>1, <2>2
<1> QED
  BY <1>0, <1>1, <1>2, <1>3, <1>4

\* A keys packet of an announced generation is a pump step.
LEMMA KeysCommandStep ==
    ASSUME NEW v \in Owner, NEW ks \in KeySet, NEW t \in Nat, NEW g \in 0..t, NEW fg \in BOOLEAN
    PROVE  PumpStep(v, keys_command(v, g, fg, ks), t)
<1>0. g <= t
  OBVIOUS
<1>1. CASE keys_command(v, g, fg, ks) = v
  BY <1>1, PumpRefl
<1>2. CASE keys_command(v, g, fg, ks) = revoke(v)
  BY <1>2, RevokeStep
<1>3. CASE /\ keys_command(v, g, fg, ks) = take_keys(v, ks)
           /\ v.state # "FAULT" /\ g = v.arm_generation
  BY <1>0, <1>3, TakeKeysStep
<1>4. CASE /\ keys_command(v, g, fg, ks) = take_keys(heartbeat(v, ks), ks)
           /\ v.state # "FAULT" /\ g = v.arm_generation
<2> DEFINE h == heartbeat(v, ks)
<2>1. PumpStep(v, h, t) /\ h \in Owner /\ h.state = v.state /\ h.arm_generation = v.arm_generation
  BY HeartbeatStep DEF PumpStep
<2> HIDE DEF h
<2>2. PumpStep(h, take_keys(h, ks), t)
  BY <1>0, <1>4, <2>1, TakeKeysStep
<2>3. PumpStep(v, take_keys(h, ks), t)
  BY <2>1, <2>2, PumpTrans
<2> QED
  BY <1>4, <2>3 DEF h
<1> QED
  BY <1>1, <1>2, <1>3, <1>4 DEF keys_command

\* What step() revokes when a signal, a stale UI or stale keys are found is a pump step.
LEMMA ExpiredStep ==
    ASSUME NEW v \in Owner, NEW t \in Nat
    PROVE  PumpStep(v, expired(v), t)
<1> DEFINE a == IF cancelled THEN revoke(v) ELSE v
           b == IF HybridManual /\ a.ui # "none" /\ ~_ui_fresh(a) THEN revoke(a) ELSE a
           c == IF b.state \in {"READY", "INITIALIZING", "ARMED"} /\ b.keys # {} /\ ~b.keys_fresh
                THEN revoke(b) ELSE b
<1>1. PumpStep(v, a, t) /\ a \in Owner
  BY RevokeStep, PumpRefl DEF PumpStep
<1> HIDE DEF a
<1>2. PumpStep(a, b, t) /\ b \in Owner
  BY <1>1, RevokeStep, PumpRefl DEF PumpStep
<1> HIDE DEF b
<1>3. PumpStep(b, c, t)
  BY <1>2, RevokeStep, PumpRefl
<1> HIDE DEF c
<1>4. PumpStep(v, c, t)
<2>1. PumpStep(a, c, t)
  BY <1>1, <1>2, <1>3, PumpTrans
<2> QED
  BY <1>1, <2>1, PumpTrans
<1> QED
  BY <1>4 DEF expired, a, b, c

-----------------------------------------------------------------------------
(* The inductive invariant.                                                  *)

\* The types of the fields of a typed record.
LEMMA FieldTypes ==
    ASSUME NEW v \in Owner
    PROVE  /\ v.state \in States
           /\ v.keys \in KeySet
           /\ v.arm_generation \in Nat
           /\ v.init_step \in Count(InitLength)
           /\ v.stop_zero_samples \in Count(3)
           /\ v.command_wait \in Count(2)
           /\ v.window \in Count(3)
BY DEF Owner

\* Whatever the pump does to the owner's fields, the invariant survives it.
LEMMA PumpPreserves ==
    ASSUME IndInv, pc \in Pumping, PumpStep(w, w', told), UNCHANGED <<pc, stepping, cancelled, dev>>
    PROVE  IndInv'
<1>0. /\ w \in Owner /\ w' \in Owner /\ w.arm_generation \in Nat /\ w'.arm_generation \in Nat
      /\ step_generation \in Nat /\ told \in Nat
      /\ w.command_wait \in 0..2 /\ w.stop_zero_samples \in 0..3
  BY FieldTypes DEF IndInv, TypeOK, PumpStep, Count
<1>1. TypeOK'
  BY <1>0 DEF IndInv, TypeOK, stepping, locals
<1>2. Moving' <=> Moving
  BY DEF Moving, Zero
<1>3. LastResort' <=> LastResort
  BY DEF LastResort, PumpStep
<1>4. MotionIsKnown'
  BY <1>2 DEF IndInv, MotionIsKnown, PumpStep
<1>5. StopOwed'
  BY <1>2, <1>3 DEF IndInv, StopOwed, MotionIsKnown, PumpStep, ActiveState
<1>6. ActiveUnstopped'
  BY DEF IndInv, ActiveUnstopped, PumpStep, ActiveState, Active, Guarding
<1>7. InitOrder'
  BY DEF IndInv, InitOrder, PumpStep, ActiveState, stepping, locals
<1>8. CommandForced'
  BY <1>0 DEF IndInv, CommandForced, PumpStep, Pumping
<1>9. KeysOfThisStep'
  BY <1>0 DEF IndInv, KeysOfThisStep, PumpStep, ActiveState, Active, Guarding,
                  Pumping, stepping, locals
<1>10. GuardPositions'
  BY DEF IndInv, GuardPositions, PumpStep, ActiveState, Active, stepping, locals
<1>11. ArmedHoldsDirection'
  BY DEF IndInv, ArmedHoldsDirection, PumpStep, ActiveState
<1>12. ClosedAtRest'
  BY <1>2, <1>3 DEF IndInv, ClosedAtRest
<1>13. StopSeenAtTop'
  BY DEF IndInv, StopSeenAtTop, PumpStep, Pumping
<1> QED
  BY <1>1, <1>4, <1>5, <1>6, <1>7, <1>8, <1>9, <1>10, <1>11, <1>12, <1>13 DEF IndInv

\* The fields IndInv speaks of, which a lapse of freshness leaves alone.
LEMMA SameCorePreserves ==
    ASSUME IndInv, w' \in Owner, SameCore(w, w'), UNCHANGED <<pc, stepping, cancelled, dev>>
    PROVE  IndInv'
<1>1. TypeOK'
  BY DEF IndInv, TypeOK, stepping, locals
<1>2. (Moving' <=> Moving) /\ (LastResort' <=> LastResort)
  BY DEF Moving, Zero, LastResort, SameCore
<1>3. /\ MotionIsKnown' /\ StopOwed' /\ ClosedAtRest'
  BY <1>2 DEF IndInv, MotionIsKnown, StopOwed, ClosedAtRest, SameCore
<1>4. ActiveUnstopped' /\ StopSeenAtTop' /\ InitOrder'
  BY DEF IndInv, ActiveUnstopped, StopSeenAtTop, InitOrder, Active, Guarding, SameCore, stepping, locals
<1>5. CommandForced' /\ KeysOfThisStep'
  BY DEF IndInv, CommandForced, KeysOfThisStep, Active, Guarding, SameCore, stepping, locals
<1>6. GuardPositions' /\ ArmedHoldsDirection'
  BY DEF IndInv, GuardPositions, ArmedHoldsDirection, Active, SameCore, stepping, locals
<1> QED
  BY <1>1, <1>3, <1>4, <1>5, <1>6 DEF IndInv

Controller == [enabled : BOOLEAN, speed : Targets]

\* The exception handler of step(): from fields v that account for the motion
\* there may be, a fault leaves the stop owed.
LEMMA FaultPreserves ==
    ASSUME IndInv, NEW v \in Owner, w' = fault(v), pc' \in {"faultStop", "top"},
           dev' \in Controller,
           Moving' => v.motion_may_exist /\ v.initialized_by_user /\ ~v.stop_deadline,
           v.stop_deadline => v.command_wait = 0 \/ v.command_wait + v.stop_zero_samples <= 2,
           told' \in Nat, told' <= v.arm_generation,
           step_generation' \in Nat, UNCHANGED <<release_generation, request, expected, cancelled>>
    PROVE  IndInv'
<1> DEFINE u == fault(v)
<1>1. /\ u \in Owner /\ u.state = "FAULT" /\ u.keys = {}
      /\ u.arm_generation = v.arm_generation + 1
      /\ u.motion_may_exist = v.motion_may_exist
      /\ u.initialized_by_user = v.initialized_by_user
      /\ u.failed = v.failed
      /\ u.recovery_attempted = v.recovery_attempted
      /\ u.command_wait = v.command_wait
      /\ u.stop_deadline => v.stop_deadline
      /\ u.stop_zero_samples = v.stop_zero_samples
      /\ u.stop_requested \/ ~v.motion_may_exist \/ u.stop_deadline
  BY FaultStep
<1>2. w' = u /\ pc' \in {"faultStop", "top"}
  OBVIOUS
<1> HIDE DEF u
<1>3. TypeOK'
  BY <1>1, <1>2 DEF IndInv, TypeOK, Controller, Positions
<1>4. v.arm_generation \in Nat /\ target({}) = Zero
  BY FieldTypes, TargetOfNone
<1>5. MotionIsKnown' /\ StopOwed' /\ ClosedAtRest'
  BY <1>1, <1>2 DEF MotionIsKnown, StopOwed, ClosedAtRest
<1>6. ActiveUnstopped' /\ StopSeenAtTop' /\ InitOrder' /\ GuardPositions' /\ ArmedHoldsDirection'
  BY <1>1, <1>2 DEF ActiveUnstopped, StopSeenAtTop, InitOrder, GuardPositions,
                    ArmedHoldsDirection, Active, Guarding
<1>7. CommandForced'
  BY <1>1, <1>2 DEF CommandForced
<1>8. KeysOfThisStep'
  BY <1>1, <1>2, <1>4 DEF KeysOfThisStep, Guarding, Active
<1> QED
  BY <1>3, <1>5, <1>6, <1>7, <1>8 DEF IndInv

\* Moves of the owner thread that change neither its fields nor the controller.
LEMMA MovePreserves ==
    ASSUME IndInv, LoopBody \/ FeedbackNotDue \/ NoRelease \/ ReleaseBegins \/ ReleaseCancelled \/ Signal
    PROVE  IndInv'
<1>0. /\ w' = w /\ dev' = dev /\ request' = request /\ expected' = expected
      /\ step_generation' = step_generation
  BY DEF LoopBody, FeedbackNotDue, NoRelease, ReleaseBegins, ReleaseCancelled, Signal, stepping, locals
<1>1. (Moving' <=> Moving) /\ (LastResort' <=> LastResort)
  BY <1>0 DEF Moving, Zero, LastResort
<1>2. w \in Owner /\ w.arm_generation \in Nat /\ step_generation \in Nat /\ told \in Nat
      /\ w.command_wait \in 0..2 /\ w.stop_zero_samples \in 0..3
  BY FieldTypes DEF IndInv, TypeOK, Count
<1>3. TypeOK'
  BY <1>0, <1>2 DEF IndInv, TypeOK, LoopBody, FeedbackNotDue, NoRelease, ReleaseBegins,
                    ReleaseCancelled, Signal, PumpEnds, stepping, locals, Positions
<1>4. MotionIsKnown' /\ StopOwed'
  BY <1>0, <1>1 DEF IndInv, MotionIsKnown, StopOwed
<1>6. /\ pc' = "closed" => pc = "closed"
      /\ pc' \in {"initGuard", "driveGuard", "faultStop", "closeStop"} => pc' = pc
  BY DEF LoopBody, FeedbackNotDue, NoRelease, ReleaseBegins, ReleaseCancelled, Signal
<1>7. ClosedAtRest' /\ ArmedHoldsDirection' /\ InitOrder'
  BY <1>0, <1>1, <1>6 DEF IndInv, ClosedAtRest, ArmedHoldsDirection, InitOrder
<1>8. StopSeenAtTop' /\ ActiveUnstopped'
  BY <1>0, <1>6 DEF IndInv, StopSeenAtTop, ActiveUnstopped, GuardPositions, Active, Guarding,
        LoopBody, FeedbackNotDue, NoRelease, ReleaseBegins, ReleaseCancelled, Signal
<1>9. GuardPositions'
  BY <1>0, <1>6 DEF IndInv, GuardPositions, ArmedHoldsDirection, Active, ReleaseWanted,
        LoopBody, FeedbackNotDue, NoRelease, ReleaseBegins, ReleaseCancelled, Signal
<1>10. CommandForced'
  BY <1>0, <1>2 DEF IndInv, CommandForced, StopSeenAtTop, ReleaseWanted, _stationary_window_fresh,
        LoopBody, FeedbackNotDue, NoRelease, ReleaseBegins, ReleaseCancelled, Signal
<1>11. KeysOfThisStep'
  BY <1>0, <1>2, <1>6 DEF IndInv, KeysOfThisStep, Active, Guarding, PumpEnds, stepping, locals,
        LoopBody, FeedbackNotDue, NoRelease, ReleaseBegins, ReleaseCancelled, Signal
<1> QED
  BY <1>3, <1>4, <1>7, <1>8, <1>9, <1>10, <1>11 DEF IndInv

\* The start of step(), with its timeouts, preserves the invariant.
LEMMA StepBeginsPreserves ==
    ASSUME IndInv, StepBegins
    PROVE  IndInv'
<1>0. w \in Owner /\ w.arm_generation \in Nat /\ told \in Nat /\ told <= w.arm_generation
      /\ w.command_wait \in 0..2 /\ w.stop_zero_samples \in 0..3
  BY FieldTypes DEF IndInv, TypeOK, Count, KeysOfThisStep
<1>1. PumpStep(w, w', told)
  BY <1>0, ExpiredStep DEF StepBegins
<1>2. /\ pc = "pump" /\ dev' = dev /\ step_generation' = w.arm_generation
      /\ told' = w.arm_generation /\ request' = request /\ expected' = expected
      /\ release_generation' = release_generation /\ cancelled' = cancelled
      /\ pc' = IF w'.stop_requested THEN "stop" ELSE "feedback"
  BY DEF StepBegins, PumpEnds
<1>3. w' \in Owner /\ w'.arm_generation \in Nat
  BY <1>1, FieldTypes DEF PumpStep
<1>4. TypeOK'
  BY <1>0, <1>2, <1>3 DEF IndInv, TypeOK, Positions
<1>5. (Moving' <=> Moving) /\ (LastResort' <=> LastResort)
  BY <1>1, <1>2 DEF Moving, Zero, LastResort, PumpStep
<1>6. MotionIsKnown' /\ StopOwed' /\ ClosedAtRest'
  BY <1>1, <1>2, <1>5 DEF IndInv, MotionIsKnown, StopOwed, ClosedAtRest, PumpStep, ActiveState
<1>7. ActiveUnstopped' /\ StopSeenAtTop' /\ InitOrder' /\ GuardPositions' /\ ArmedHoldsDirection'
  BY <1>1, <1>2 DEF IndInv, ActiveUnstopped, StopSeenAtTop, InitOrder, GuardPositions,
                    ArmedHoldsDirection, Active, Guarding, PumpStep, ActiveState
<1>8. CommandForced'
  BY <1>0, <1>1, <1>2 DEF IndInv, CommandForced, PumpStep
<1>9. KeysOfThisStep'
  BY <1>0, <1>1, <1>2, <1>3 DEF KeysOfThisStep, PumpStep, Guarding
<1> QED
  BY <1>4, <1>6, <1>7, <1>8, <1>9 DEF IndInv

\* Faults of step() and of the loop before anything new was written.
LEMMA EarlyFaultPreserves ==
    ASSUME IndInv,
           LoopFails \/ JournalFails \/ SampleFails \/ ReleaseFailsEarly
    PROVE  IndInv'
<1>0. w \in Owner /\ w.arm_generation \in Nat /\ told \in Nat /\ told <= w.arm_generation
      /\ step_generation \in Nat /\ dev \in Controller
  BY FieldTypes DEF IndInv, TypeOK, KeysOfThisStep, Controller
<1>1. PICK f \in Flag : /\ w' = fault([w EXCEPT !.failed = f]) \/ w' = fault(w)
                        /\ pc' \in {"faultStop", "top"} /\ dev' = dev
                        /\ told' \in {told, w.arm_generation}
                        /\ step_generation' \in Nat
                        /\ UNCHANGED <<release_generation, request, expected, cancelled>>
<2>1. w.failed \in Flag /\ TRUE \in Flag
  BY <1>0 DEF Owner, Flag
<2> QED
  BY <1>0, <2>1 DEF LoopFails, JournalFails, SampleFails, ReleaseFailsEarly, ExchangeFailsEarly,
         Faulted, PumpEnds, stepping, locals
<1>2. Moving' => w.motion_may_exist /\ w.initialized_by_user /\ ~w.stop_deadline
  BY <1>1 DEF IndInv, MotionIsKnown, Moving, Zero
<1> DEFINE v == [w EXCEPT !.failed = f]
<1>3. /\ v \in Owner /\ v.arm_generation = w.arm_generation
      /\ v.motion_may_exist = w.motion_may_exist /\ v.initialized_by_user = w.initialized_by_user
      /\ v.stop_deadline = w.stop_deadline /\ v.command_wait = w.command_wait
      /\ v.stop_zero_samples = w.stop_zero_samples
  BY <1>0 DEF Owner
<1>4. w.stop_deadline => w.command_wait = 0 \/ w.command_wait + w.stop_zero_samples <= 2
  BY DEF IndInv, CommandForced
<1>5. told' \in Nat /\ told' <= w.arm_generation
  BY <1>0, <1>1
<1> HIDE DEF v
<1>6. CASE w' = fault(w)
  BY <1>0, <1>1, <1>2, <1>4, <1>5, <1>6, FaultPreserves
<1>7. CASE w' = fault(v)
  BY <1>0, <1>1, <1>2, <1>3, <1>4, <1>5, <1>7, FaultPreserves
<1> QED
  BY <1>1, <1>6, <1>7 DEF v

-----------------------------------------------------------------------------
(* _stop().                                                                  *)

\* The fields v that a completed or failed stop leaves: only the stop flags,
\* the sample count and the channel's failure marks may differ from w's.
StopOnly(v) ==
    /\ v \in Owner
    /\ v.state = w.state /\ v.keys = w.keys /\ v.arm_generation = w.arm_generation
    /\ v.init_step = w.init_step /\ v.command_wait = w.command_wait
    /\ v.motion_may_exist = w.motion_may_exist
    /\ v.initialized_by_user = w.initialized_by_user
    /\ v.stop_requested = FALSE

\* The best-effort zero changes nothing but the channel's record of having tried it.
LEMMA BestEffort ==
    ASSUME NEW u \in Owner
    PROVE  /\ best_effort_zero(u) \in Owner
           /\ best_effort_zero(u).state = u.state /\ best_effort_zero(u).keys = u.keys
           /\ best_effort_zero(u).arm_generation = u.arm_generation
           /\ best_effort_zero(u).init_step = u.init_step
           /\ best_effort_zero(u).command_wait = u.command_wait
           /\ best_effort_zero(u).motion_may_exist = u.motion_may_exist
           /\ best_effort_zero(u).initialized_by_user = u.initialized_by_user
           /\ best_effort_zero(u).stop_requested = u.stop_requested
           /\ best_effort_zero(u).stop_deadline = u.stop_deadline
           /\ best_effort_zero(u).stop_zero_samples = u.stop_zero_samples
           /\ best_effort_zero(u).failed = u.failed
           /\ u.motion_may_exist => best_effort_zero(u).recovery_attempted
<1> DEFINE x == [u EXCEPT !.recovery_attempted = TRUE]
<1>1. x \in Owner
  BY Updates DEF Flag
<1>2. /\ x.state = u.state /\ x.keys = u.keys /\ x.arm_generation = u.arm_generation
      /\ x.init_step = u.init_step /\ x.command_wait = u.command_wait
      /\ x.motion_may_exist = u.motion_may_exist
      /\ x.initialized_by_user = u.initialized_by_user
      /\ x.stop_requested = u.stop_requested /\ x.stop_deadline = u.stop_deadline
      /\ x.stop_zero_samples = u.stop_zero_samples /\ x.failed = u.failed
      /\ x.recovery_attempted = TRUE
  BY DEF Owner
<1>3. best_effort_zero(u) = IF u.motion_may_exist THEN x ELSE u
  BY DEF best_effort_zero
<1> HIDE DEF x
<1> QED
  BY <1>1, <1>2, <1>3

\* A zero written to the controller changes only its speed target.
LEMMA ZeroedController ==
    ASSUME dev \in Controller
    PROVE  LET z == [dev EXCEPT !.speed = Zero] IN
           z \in Controller /\ z.enabled = dev.enabled /\ z.speed = Zero
BY DEF Controller, Zero, Targets

\* A stop that returns leaves motion only behind a failed channel whose last zero was tried.
LEMMA StopReturnsFacts ==
    ASSUME IndInv, NEW v, StopReturns(v)
    PROVE  /\ StopOnly(v)
           /\ dev' \in Controller
           /\ Moving' => Moving /\ v.failed /\ v.recovery_attempted /\ ~v.stop_deadline
           /\ v.stop_deadline => \/ w.stop_deadline /\ v.stop_zero_samples = w.stop_zero_samples
                                 \/ v.stop_zero_samples = 0
<1> DEFINE u == [w EXCEPT !.stop_requested = FALSE]
<1>1. w \in Owner /\ dev \in Controller
  BY DEF IndInv, TypeOK, Controller
<1>2. u \in Owner
  BY <1>1, Updates DEF Flag
<1>3. /\ u.state = w.state /\ u.keys = w.keys /\ u.arm_generation = w.arm_generation
      /\ u.init_step = w.init_step /\ u.command_wait = w.command_wait
      /\ u.motion_may_exist = w.motion_may_exist
      /\ u.initialized_by_user = w.initialized_by_user
      /\ u.stop_requested = FALSE /\ u.stop_deadline = w.stop_deadline
      /\ u.stop_zero_samples = w.stop_zero_samples /\ u.failed = w.failed
      /\ u.push_mode_requested = w.push_mode_requested
      /\ u.recovery_attempted = w.recovery_attempted
  BY <1>1 DEF Owner
<1>4. StopOnly(u)
  BY <1>2, <1>3 DEF StopOnly
<1>5. Moving => w.motion_may_exist /\ ~w.stop_deadline
  BY DEF IndInv, MotionIsKnown
<1>6. CASE v = u /\ dev' = dev /\ (u.stop_deadline \/ ~u.motion_may_exist)
<2>1. ~Moving /\ (Moving' <=> Moving)
  BY <1>3, <1>5, <1>6 DEF Moving, Zero
<2> HIDE DEF u
<2> QED
  BY <1>1, <1>3, <1>4, <1>6, <2>1
<1>7. CASE u.failed /\ v = best_effort_zero(u) /\ ZeroMayBeSent(u)
<2> DEFINE z == [dev EXCEPT !.speed = Zero]
<2>1. z \in Controller /\ z.enabled = dev.enabled /\ z.speed = Zero
  BY <1>1, ZeroedController
<2>2. dev' \in {dev, z}
  BY <1>7 DEF ZeroMayBeSent, Unanswered
<2> HIDE DEF z, u
<2>3. Moving' => Moving
  BY <2>1, <2>2 DEF Moving, Zero
<2>4. StopOnly(v)
  BY <1>2, <1>3, <1>7, BestEffort DEF StopOnly
<2>5. /\ v.failed /\ v.stop_deadline = w.stop_deadline
      /\ v.stop_zero_samples = w.stop_zero_samples
      /\ w.motion_may_exist => v.recovery_attempted
  BY <1>2, <1>3, <1>7, BestEffort
<2> QED
  BY <1>1, <1>5, <2>1, <2>2, <2>3, <2>4, <2>5
<1>8. CASE /\ v = [u EXCEPT !.stop_deadline = TRUE, !.stop_zero_samples = 0]
           /\ Acknowledged([dev EXCEPT !.speed = Zero])
<2> DEFINE n == 0
           x == [u EXCEPT !.stop_deadline = TRUE, !.stop_zero_samples = n]
           z == [dev EXCEPT !.speed = Zero]
<2>1. z \in Controller /\ z.enabled = dev.enabled /\ z.speed = Zero
  BY <1>1, ZeroedController
<2>2. dev' = z /\ v = x
  BY <1>8 DEF Acknowledged
<2>3. n \in Count(3) /\ TRUE \in Flag
  BY DEF Count, Flag
<2> HIDE DEF z, u, n
<2>4. ~Moving'
  BY <2>1, <2>2 DEF Moving
<2>5. x \in Owner
  BY <1>2, <2>3 DEF Owner
<2>6. /\ x.state = u.state /\ x.keys = u.keys /\ x.arm_generation = u.arm_generation
      /\ x.init_step = u.init_step /\ x.command_wait = u.command_wait
      /\ x.motion_may_exist = u.motion_may_exist
      /\ x.initialized_by_user = u.initialized_by_user
      /\ x.stop_requested = u.stop_requested /\ x.stop_zero_samples = n
  BY <1>2 DEF Owner
<2> HIDE DEF x
<2>7. StopOnly(x)
  BY <1>3, <2>5, <2>6 DEF StopOnly
<2> QED
  BY <2>1, <2>2, <2>4, <2>6, <2>7 DEF n
<1> QED
  BY <1>6, <1>7, <1>8 DEF StopReturns

\* The same holds of a stop that raises.
LEMMA StopRaisesFacts ==
    ASSUME IndInv, NEW v, StopRaises(v)
    PROVE  /\ StopOnly(v)
           /\ dev' \in Controller
           /\ Moving' => Moving /\ v.failed /\ v.recovery_attempted /\ ~v.stop_deadline
           /\ v.stop_deadline => \/ w.stop_deadline /\ v.stop_zero_samples = w.stop_zero_samples
                                 \/ v.stop_zero_samples = 0
<1> DEFINE u == [w EXCEPT !.stop_requested = FALSE, !.failed = TRUE]
           z == [dev EXCEPT !.speed = Zero]
<1>1. w \in Owner /\ dev \in Controller
  BY DEF IndInv, TypeOK, Controller
<1>2. u \in Owner
  BY <1>1 DEF Owner, Flag
<1>3. /\ u.state = w.state /\ u.keys = w.keys /\ u.arm_generation = w.arm_generation
      /\ u.init_step = w.init_step /\ u.command_wait = w.command_wait
      /\ u.motion_may_exist = w.motion_may_exist
      /\ u.initialized_by_user = w.initialized_by_user
      /\ u.stop_requested = FALSE /\ u.stop_deadline = w.stop_deadline
      /\ u.stop_zero_samples = w.stop_zero_samples /\ u.failed = TRUE
  BY <1>1 DEF Owner
<1>4. z \in Controller /\ z.enabled = dev.enabled /\ z.speed = Zero
  BY <1>1, ZeroedController
<1>5. v = best_effort_zero(u) /\ dev' \in {dev, z}
  BY DEF StopRaises, Unanswered
<1>6. Moving => w.motion_may_exist /\ ~w.stop_deadline
  BY DEF IndInv, MotionIsKnown
<1> HIDE DEF u, z
<1>7. Moving' => Moving
  BY <1>4, <1>5 DEF Moving, Zero
<1>8. StopOnly(v)
  BY <1>2, <1>3, <1>5, BestEffort DEF StopOnly
<1>9. /\ v.failed /\ v.stop_deadline = w.stop_deadline
      /\ v.stop_zero_samples = w.stop_zero_samples
      /\ w.motion_may_exist => v.recovery_attempted
  BY <1>2, <1>3, <1>5, BestEffort
<1> QED
  BY <1>1, <1>4, <1>5, <1>6, <1>7, <1>8, <1>9

\* A stop served by step(), by the fault handler or by close() preserves the invariant.
LEMMA StopPreserves ==
    ASSUME IndInv, StepStops \/ FaultStops \/ CloseStops
    PROVE  IndInv'
<1>1. /\ StopOnly(w')
      /\ dev' \in Controller
      /\ Moving' => Moving /\ w'.failed /\ w'.recovery_attempted /\ ~w'.stop_deadline
      /\ w'.stop_deadline => \/ w.stop_deadline /\ w'.stop_zero_samples = w.stop_zero_samples
                             \/ w'.stop_zero_samples = 0
  BY StopReturnsFacts, StopRaisesFacts DEF StepStops, FaultStops, CloseStops
<1>2. /\ step_generation' = step_generation /\ release_generation' = release_generation
      /\ request' = request /\ expected' = expected /\ told' = told /\ cancelled' = cancelled
  BY DEF StepStops, FaultStops, CloseStops, stepping, locals
<1>3. \/ pc = "stop" /\ pc' \in {"top", "feedback"}
      \/ pc = "faultStop" /\ pc' = "top"
      \/ pc = "closeStop" /\ pc' = "closed"
  BY DEF StepStops, FaultStops, CloseStops
<1>4. /\ w \in Owner /\ w' \in Owner /\ told \in Nat /\ step_generation \in Nat
      /\ w.command_wait \in 0..2 /\ w.arm_generation \in Nat
  BY <1>1, FieldTypes DEF IndInv, TypeOK, StopOnly, Count
<1>5. TypeOK'
  BY <1>1, <1>2, <1>3, <1>4 DEF IndInv, TypeOK, Controller, Positions
<1>6. ~Active /\ ~Active'
  BY <1>1, <1>3 DEF IndInv, ActiveUnstopped, StopSeenAtTop, GuardPositions, Active, Guarding, StopOnly
<1>7. MotionIsKnown' /\ StopOwed' /\ ClosedAtRest'
  BY <1>1 DEF IndInv, MotionIsKnown, StopOwed, ClosedAtRest, LastResort, StopOnly
<1>8. ActiveUnstopped' /\ InitOrder' /\ ArmedHoldsDirection' /\ GuardPositions'
  BY <1>3, <1>6 DEF ActiveUnstopped, InitOrder, ArmedHoldsDirection, GuardPositions, Active
<1>9. StopSeenAtTop'
  BY <1>1, <1>3 DEF StopSeenAtTop, StopOnly
<1>10. CommandForced'
  BY <1>1, <1>3, <1>4 DEF IndInv, CommandForced, StopOnly
<1>11. KeysOfThisStep'
  BY <1>1, <1>2, <1>3, <1>4 DEF IndInv, KeysOfThisStep, StopOnly, Guarding
<1> QED
  BY <1>5, <1>7, <1>8, <1>9, <1>10, <1>11 DEF IndInv

\* So does a stop whose exchange fails.
LEMMA StopFailurePreserves ==
    ASSUME IndInv, StepStopFails \/ CloseStopFails
    PROVE  IndInv'
<1>1. PICK v : /\ StopRaises(v) /\ w' = fault(v)
               /\ \/ pc = "stop" /\ pc' = "faultStop"
                  \/ pc = "closeStop" /\ pc' = "closed"
               /\ UNCHANGED <<stepping, cancelled>>
  BY DEF StepStopFails, CloseStopFails, Faulted
<1>2. /\ StopOnly(v)
      /\ dev' \in Controller
      /\ Moving' => Moving /\ v.failed /\ v.recovery_attempted /\ ~v.stop_deadline
      /\ v.stop_deadline => \/ w.stop_deadline /\ v.stop_zero_samples = w.stop_zero_samples
                            \/ v.stop_zero_samples = 0
  BY <1>1, StopRaisesFacts
<1>3. /\ v \in Owner /\ v.arm_generation = w.arm_generation /\ w.arm_generation \in Nat
      /\ w.command_wait \in 0..2 /\ v.command_wait = w.command_wait
      /\ told \in Nat /\ told <= w.arm_generation /\ step_generation \in Nat
  BY <1>2, FieldTypes DEF IndInv, TypeOK, StopOnly, KeysOfThisStep, Count
<1>4. v.stop_deadline => v.command_wait = 0 \/ v.command_wait + v.stop_zero_samples <= 2
  BY <1>2, <1>3 DEF IndInv, CommandForced
<1>5. Moving' => v.motion_may_exist /\ v.initialized_by_user /\ ~v.stop_deadline
  BY <1>2 DEF IndInv, MotionIsKnown, StopOnly
<1>6. /\ step_generation' = step_generation /\ told' = told
      /\ UNCHANGED <<release_generation, request, expected, cancelled>>
  BY <1>1 DEF stepping, locals
<1>7. CASE pc' = "faultStop"
  BY <1>1, <1>2, <1>3, <1>4, <1>5, <1>6, <1>7, FaultPreserves
<1>8. CASE pc' = "closed"
<2> DEFINE u == fault(v)
<2>1. /\ u \in Owner /\ u.state = "FAULT" /\ u.keys = {}
      /\ u.arm_generation = v.arm_generation + 1
      /\ u.motion_may_exist = v.motion_may_exist
      /\ u.initialized_by_user = v.initialized_by_user
      /\ u.failed = v.failed
      /\ u.recovery_attempted = v.recovery_attempted
      /\ u.command_wait = v.command_wait
      /\ u.stop_deadline => v.stop_deadline
      /\ u.stop_zero_samples = v.stop_zero_samples
  BY <1>3, FaultStep
<2>2. w' = u
  BY <1>1
<2> HIDE DEF u
<2>3. TypeOK'
  BY <1>2, <1>6, <1>8, <2>1, <2>2 DEF IndInv, TypeOK, Controller, Positions
<2>4. MotionIsKnown' /\ StopOwed' /\ ClosedAtRest'
  BY <1>2, <1>5, <2>1, <2>2 DEF MotionIsKnown, StopOwed, ClosedAtRest, LastResort
<2>5. ActiveUnstopped' /\ InitOrder' /\ ArmedHoldsDirection' /\ GuardPositions' /\ StopSeenAtTop'
  BY <1>8, <2>1, <2>2 DEF ActiveUnstopped, InitOrder, ArmedHoldsDirection, GuardPositions, Active,
                          StopSeenAtTop
<2>6. CommandForced' /\ KeysOfThisStep'
  BY <1>3, <1>4, <1>6, <1>8, <2>1, <2>2 DEF CommandForced, KeysOfThisStep, Guarding
<2> QED
  BY <2>3, <2>4, <2>5, <2>6 DEF IndInv
<1> QED
  BY <1>1, <1>7, <1>8

\* The end of the loop is a pump step that leaves no direction behind.
LEMMA ExitSteps ==
    ASSUME IndInv, Exit
    PROVE  PumpStep(w, w', told) /\ w'.keys = {} /\ ~ActiveState(w'.state)
<1> DEFINE a == IF w.state = "FAULT" THEN fault(w) ELSE w
           b == IF w.peer_connected THEN disconnected(a) ELSE a
<1>0. w \in Owner /\ told \in Nat
  BY DEF IndInv, TypeOK
<1>1. PumpStep(w, a, told)
<2>1. CASE w.state # "FAULT"
  BY <1>0, <2>1, PumpRefl
<2>2. CASE w.state = "FAULT"
<3>1. [w EXCEPT !.state = "FAULT"] = w
  BY <1>0, <2>2 DEF Owner
<3>2. a = revoke(w)
  BY <2>2, <3>1 DEF fault
<3> QED
  BY <1>0, <3>2, RevokeStep
<2> QED
  BY <2>1, <2>2
<1>2. a \in Owner
  BY <1>1 DEF PumpStep
<1> HIDE DEF a
<1>3. PumpStep(a, b, told) /\ b \in Owner
  BY <1>0, <1>2, PumpRefl, DisconnectedStep DEF PumpStep
<1> HIDE DEF b
<1>4. /\ PumpStep(b, revoke(b), told) /\ revoke(b).keys = {} /\ ~ActiveState(revoke(b).state)
  BY <1>3, RevokeStep
<1>5. w' = revoke(b)
  BY DEF Exit, a, b
<1>6. PumpStep(w, w', told)
<2>1. PumpStep(w, b, told)
  BY <1>0, <1>1, <1>3, PumpTrans
<2> QED
  BY <1>0, <1>4, <1>5, <2>1, PumpTrans
<1> QED
  BY <1>4, <1>5, <1>6

\* The end of the loop: every call of Exit is a revocation.
LEMMA ExitPreserves ==
    ASSUME IndInv, Exit
    PROVE  IndInv'
<1>0. w \in Owner /\ w.arm_generation \in Nat /\ told \in Nat /\ told <= w.arm_generation
      /\ w.command_wait \in 0..2 /\ dev' = dev /\ pc = "top" /\ pc' = "closeStop"
      /\ UNCHANGED <<stepping, cancelled>>
  BY FieldTypes DEF IndInv, TypeOK, KeysOfThisStep, Count, Exit
<1>6. PumpStep(w, w', told) /\ w'.keys = {} /\ ~ActiveState(w'.state)
  BY ExitSteps
<1>7. w' \in Owner /\ w'.arm_generation \in Nat /\ ~Active' /\ w'.stop_zero_samples \in 0..3
  BY <1>6, FieldTypes DEF PumpStep, Active, ActiveState, Count
<1>8. TypeOK'
  BY <1>0, <1>7 DEF IndInv, TypeOK, stepping, locals, Positions
<1>9. (Moving' <=> Moving) /\ (LastResort' <=> LastResort)
  BY <1>0, <1>6 DEF Moving, Zero, LastResort, PumpStep
<1>10. MotionIsKnown' /\ StopOwed' /\ ClosedAtRest'
  BY <1>0, <1>6, <1>9 DEF IndInv, MotionIsKnown, StopOwed, ClosedAtRest, PumpStep, ActiveState
<1>11. ActiveUnstopped' /\ InitOrder' /\ ArmedHoldsDirection' /\ GuardPositions' /\ StopSeenAtTop'
  BY <1>0, <1>7 DEF ActiveUnstopped, InitOrder, ArmedHoldsDirection, GuardPositions, Active,
                    StopSeenAtTop
<1>12. CommandForced'
  BY <1>0, <1>6 DEF IndInv, CommandForced, PumpStep
<1>13. KeysOfThisStep'
  BY <1>0, <1>6, <1>7 DEF KeysOfThisStep, PumpStep, Guarding, stepping, locals
<1> QED
  BY <1>8, <1>10, <1>11, <1>12, <1>13 DEF IndInv

-----------------------------------------------------------------------------
(* Feedback, release and the writes.                                         *)

\* A feedback sample preserves the invariant: the third zero finds the command due.
LEMMA SamplePreserves ==
    ASSUME IndInv, Sample
    PROVE  IndInv'
<1>1. PICK zero \in BOOLEAN : w' = sampled(w, zero)
  BY DEF Sample
<1> DEFINE cw == IF w.command_wait = 0 THEN 0 ELSE w.command_wait - 1
           wi == IF ~zero THEN 0 ELSE IF w.window = 3 THEN 3 ELSE w.window + 1
           sz == IF ~w.stop_deadline THEN w.stop_zero_samples ELSE IF ~zero THEN 0
                 ELSE IF w.stop_zero_samples = 3 THEN 3 ELSE w.stop_zero_samples + 1
           u == [w EXCEPT !.feedback_fresh = TRUE, !.command_wait = cw, !.window = wi,
                          !.stop_zero_samples = sz]
<1>2. w' = u
  BY <1>1 DEF sampled
<1>3. w \in Owner /\ pc = "feedback" /\ pc' = "act" /\ dev' = dev /\ UNCHANGED <<stepping, cancelled>>
  BY DEF IndInv, TypeOK, Sample
<1>4. w.command_wait \in 0..2 /\ w.window \in 0..3 /\ w.stop_zero_samples \in 0..3
  BY <1>3, FieldTypes DEF Count
<1>5. cw \in Count(2) /\ wi \in Count(3) /\ sz \in Count(3) /\ TRUE \in Flag
  BY <1>4 DEF Count, Flag
<1>6. w.stop_deadline => cw = 0 \/ cw + sz <= 2
  BY <1>4 DEF IndInv, CommandForced
<1> HIDE DEF cw, wi, sz
<1>7. u \in Owner
  BY <1>3, <1>5 DEF Owner
<1>8. /\ u.state = w.state /\ u.keys = w.keys /\ u.arm_generation = w.arm_generation
      /\ u.init_step = w.init_step /\ u.stop_requested = w.stop_requested
      /\ u.stop_deadline = w.stop_deadline /\ u.motion_may_exist = w.motion_may_exist
      /\ u.initialized_by_user = w.initialized_by_user
      /\ u.failed = w.failed /\ u.recovery_attempted = w.recovery_attempted
      /\ u.command_wait = cw /\ u.stop_zero_samples = sz
  BY <1>3 DEF Owner
<1> HIDE DEF u
<1>9. TypeOK'
  BY <1>2, <1>3, <1>7 DEF IndInv, TypeOK, stepping, locals, Positions
<1>10. (Moving' <=> Moving) /\ (LastResort' <=> LastResort)
  BY <1>2, <1>3, <1>8 DEF Moving, Zero, LastResort
<1>11. MotionIsKnown' /\ StopOwed' /\ ClosedAtRest' /\ ArmedHoldsDirection'
  BY <1>2, <1>3, <1>8, <1>10 DEF IndInv, MotionIsKnown, StopOwed, ClosedAtRest, ArmedHoldsDirection
<1>12. ActiveUnstopped' /\ StopSeenAtTop' /\ InitOrder' /\ GuardPositions'
  BY <1>2, <1>3, <1>8 DEF IndInv, ActiveUnstopped, StopSeenAtTop, InitOrder, GuardPositions,
                          Active, Guarding
<1>13. CommandForced'
  BY <1>2, <1>3, <1>6, <1>8 DEF CommandForced
<1>14. KeysOfThisStep'
  BY <1>2, <1>3, <1>8 DEF IndInv, KeysOfThisStep, Guarding, stepping, locals
<1> QED
  BY <1>9, <1>11, <1>12, <1>13, <1>14 DEF IndInv

\* A velocity write falls due, or only an old frame is discarded.
LEMMA DuePreserves ==
    ASSUME IndInv, CommandDue \/ WriteSuperseded
    PROVE  IndInv'
<1> DEFINE z == 0
           u == [w EXCEPT !.command_wait = z]
<1>1. w' = u /\ dev' = dev /\ cancelled' = cancelled /\ w \in Owner /\ UNCHANGED locals
  BY DEF IndInv, TypeOK, CommandDue, WriteSuperseded, stepping
<1>2. z \in Count(2) /\ z = 0
  BY DEF Count
<1> HIDE DEF z
<1>3. u \in Owner
  BY <1>1, <1>2, Updates
<1>4. /\ u.state = w.state /\ u.keys = w.keys /\ u.arm_generation = w.arm_generation
      /\ u.init_step = w.init_step /\ u.stop_requested = w.stop_requested
      /\ u.stop_deadline = w.stop_deadline /\ u.motion_may_exist = w.motion_may_exist
      /\ u.initialized_by_user = w.initialized_by_user
      /\ u.failed = w.failed /\ u.recovery_attempted = w.recovery_attempted
      /\ u.command_wait = z
  BY <1>1 DEF Owner
<1>5. \/ pc' = pc /\ told' = told
      \/ pc' = "top" /\ told' = w.arm_generation /\ (Active => ~w.stop_requested)
<2>1. WriteSuperseded => (Active => ~w.stop_requested)
  BY DEF WriteSuperseded, Verdict, _guard, Active
<2> QED
  BY <2>1 DEF CommandDue, WriteSuperseded, PumpEnds, stepping
<1> HIDE DEF u
<1>6. w.arm_generation \in Nat
  BY <1>1, FieldTypes
<1>7. TypeOK'
  BY <1>1, <1>3, <1>5, <1>6 DEF IndInv, TypeOK, locals, Positions
<1>8. (Moving' <=> Moving) /\ (LastResort' <=> LastResort)
  BY <1>1, <1>4 DEF Moving, Zero, LastResort
<1>9. MotionIsKnown' /\ StopOwed' /\ ClosedAtRest' /\ ArmedHoldsDirection'
  BY <1>1, <1>4, <1>5, <1>8 DEF IndInv, MotionIsKnown, StopOwed, ClosedAtRest, ArmedHoldsDirection
<1>10. ActiveUnstopped' /\ StopSeenAtTop' /\ InitOrder' /\ GuardPositions'
  BY <1>1, <1>4, <1>5 DEF IndInv, ActiveUnstopped, StopSeenAtTop, InitOrder, GuardPositions,
                          Active, Guarding, locals
<1>11. CommandForced'
  BY <1>1, <1>2, <1>4 DEF CommandForced
<1>12. KeysOfThisStep'
  BY <1>1, <1>4, <1>5, <1>6 DEF IndInv, KeysOfThisStep, Active, Guarding, locals
<1> QED
  BY <1>7, <1>9, <1>10, <1>11, <1>12 DEF IndInv

\* The servo release, answered or not, preserves the invariant.
LEMMA ReleasePreserves ==
    ASSUME IndInv, Release \/ ReleaseUnanswered
    PROVE  IndInv'
<1> DEFINE off == [dev EXCEPT !.enabled = FALSE]
           u == Released(w)
           x == [w EXCEPT !.failed = TRUE]
<1>0. /\ w \in Owner /\ dev \in Controller /\ w.arm_generation \in Nat /\ step_generation \in Nat
      /\ w.command_wait \in 0..2
  BY FieldTypes DEF IndInv, TypeOK, Controller, Count
<1>1. /\ pc = "releaseGuard" /\ told' = w.arm_generation /\ UNCHANGED <<locals, cancelled>>
      /\ dev' \in {dev, off} /\ w.stop_deadline
  BY DEF Release, ReleaseUnanswered, Acknowledged, Unanswered, PumpEnds, release_guard
<1>2. off \in Controller /\ off.enabled = FALSE
  BY <1>0 DEF Controller
<1> HIDE DEF off
<1>3. dev' \in Controller /\ ~Moving'
  BY <1>0, <1>1, <1>2 DEF IndInv, MotionIsKnown, Moving, Zero
<1>4. u \in Owner
  BY <1>0 DEF Released, Owner, Flag
<1>5. /\ u.state = w.state /\ u.keys = w.keys /\ u.arm_generation = w.arm_generation
      /\ u.init_step = w.init_step /\ u.stop_requested = w.stop_requested
      /\ u.stop_deadline = FALSE /\ u.command_wait = w.command_wait
  BY <1>0 DEF Released, Owner
<1>6. /\ x \in Owner /\ x.arm_generation = w.arm_generation
      /\ x.stop_deadline = w.stop_deadline /\ x.command_wait = w.command_wait
      /\ x.stop_zero_samples = w.stop_zero_samples
  BY <1>0 DEF Owner, Flag
<1> HIDE DEF u, x
<1>7. CASE w' = u /\ pc' = "schedule"
<2>1. TypeOK'
  BY <1>0, <1>1, <1>3, <1>4, <1>7 DEF IndInv, TypeOK, Controller, locals, Positions
<2>2. ~Active /\ ~Active'
  BY <1>1, <1>5, <1>7 DEF IndInv, GuardPositions, Active
<2>3. MotionIsKnown' /\ StopOwed' /\ ClosedAtRest'
  BY <1>3 DEF MotionIsKnown, StopOwed, ClosedAtRest
<2>4. ActiveUnstopped' /\ StopSeenAtTop' /\ InitOrder' /\ GuardPositions' /\ ArmedHoldsDirection'
  BY <1>7, <2>2 DEF ActiveUnstopped, StopSeenAtTop, InitOrder, GuardPositions,
                    ArmedHoldsDirection, Active
<2>5. CommandForced'
  BY <1>1, <1>5, <1>7 DEF IndInv, CommandForced
<2>6. KeysOfThisStep'
  BY <1>0, <1>1, <1>5, <1>7 DEF IndInv, KeysOfThisStep, Guarding, locals
<2> QED
  BY <2>1, <2>3, <2>4, <2>5, <2>6 DEF IndInv
<1>8. CASE Faulted(u)
  BY <1>0, <1>1, <1>3, <1>4, <1>5, <1>8, FaultPreserves DEF Faulted, locals
<1>9. CASE Faulted(x)
<2>1. x.stop_deadline => x.command_wait = 0 \/ x.command_wait + x.stop_zero_samples <= 2
  BY <1>6 DEF IndInv, CommandForced
<2> QED
  BY <1>0, <1>1, <1>3, <1>6, <1>9, <2>1, FaultPreserves DEF Faulted, locals
<1> QED
  BY <1>7, <1>8, <1>9 DEF Release, ReleaseUnanswered, u, x

\* activated(): a held direction leaves READY, and nothing else happens.
LEMMA ActivatedFacts ==
    ASSUME NEW v \in Owner
    PROVE  LET u == activated(v) IN
           /\ u \in Owner
           /\ u.keys = v.keys /\ u.arm_generation = v.arm_generation
           /\ u.stop_requested = v.stop_requested /\ u.motion_may_exist = v.motion_may_exist
           /\ u.initialized_by_user = v.initialized_by_user
           /\ u.failed = v.failed /\ u.recovery_attempted = v.recovery_attempted
           /\ u.command_wait = v.command_wait /\ u.stop_zero_samples = v.stop_zero_samples
           /\ \/ u.state = v.state /\ u.init_step = v.init_step /\ u.stop_deadline = v.stop_deadline
              \/ /\ v.state = "READY" /\ target(v.keys) # Zero
                 /\ u.state = IF v.initialized_by_user THEN "ARMED" ELSE "INITIALIZING"
                 /\ u.init_step = 0 /\ u.stop_deadline = FALSE
<1> DEFINE st == IF v.initialized_by_user THEN "ARMED" ELSE "INITIALIZING"
           z == 0
           x == [v EXCEPT !.state = st, !.init_step = z, !.stop_deadline = FALSE]
<1>1. activated(v) = IF v.state = "READY" /\ target(v.keys) # Zero THEN x ELSE v
  BY DEF activated
<1>2. st \in States /\ z \in Count(InitLength) /\ FALSE \in Flag
  BY DEF States, Count, InitLength, Flag
<1> HIDE DEF st, z
<1>3. x \in Owner
  BY <1>2 DEF Owner
<1>4. /\ x.keys = v.keys /\ x.arm_generation = v.arm_generation
      /\ x.stop_requested = v.stop_requested /\ x.motion_may_exist = v.motion_may_exist
      /\ x.initialized_by_user = v.initialized_by_user
      /\ x.failed = v.failed /\ x.recovery_attempted = v.recovery_attempted
      /\ x.command_wait = v.command_wait /\ x.stop_zero_samples = v.stop_zero_samples
      /\ x.state = st /\ x.init_step = z /\ x.stop_deadline = FALSE
  BY DEF Owner
<1> HIDE DEF x
<1> QED
  BY <1>1, <1>3, <1>4 DEF st, z

\* Choosing the next write preserves the invariant.
LEMMA SchedulePreserves ==
    ASSUME IndInv, ScheduleIdle \/ InitBegins \/ DriveBegins
    PROVE  IndInv'
<1> DEFINE u == activated(w)
<1>0. /\ w \in Owner /\ w.arm_generation \in Nat /\ w.command_wait \in 0..2 /\ dev \in Controller
      /\ pc = "schedule" /\ dev' = dev /\ cancelled' = cancelled
      /\ told' = told /\ step_generation' = step_generation
      /\ release_generation' = release_generation
  BY FieldTypes DEF IndInv, TypeOK, Controller, Count, ScheduleIdle, InitBegins, DriveBegins,
                    stepping, locals
<1>1. /\ u \in Owner
      /\ u.keys = w.keys /\ u.arm_generation = w.arm_generation
      /\ u.stop_requested = w.stop_requested /\ u.motion_may_exist = w.motion_may_exist
      /\ u.initialized_by_user = w.initialized_by_user
      /\ u.failed = w.failed /\ u.recovery_attempted = w.recovery_attempted
      /\ u.command_wait = w.command_wait /\ u.stop_zero_samples = w.stop_zero_samples
      /\ \/ u.state = w.state /\ u.init_step = w.init_step /\ u.stop_deadline = w.stop_deadline
         \/ /\ w.state = "READY" /\ target(w.keys) # Zero
            /\ u.state = IF w.initialized_by_user THEN "ARMED" ELSE "INITIALIZING"
            /\ u.init_step = 0 /\ u.stop_deadline = FALSE
  BY <1>0, ActivatedFacts
<1>2. u.init_step \in 0..InitLength /\ target(u.keys) \in Targets
  BY <1>1, FieldTypes, TargetType DEF Count
<1> HIDE DEF u
<1>3. ActiveState(u.state) => target(u.keys) # Zero
  BY <1>1 DEF IndInv, ArmedHoldsDirection, ActiveState
\* The branch of DriveBegins for a zero target contradicts <1>3.
<1>4. /\ w' = w \/ w' = u
      /\ \/ pc' = "top" /\ request' = request /\ expected' = expected
            /\ \/ w' = w /\ cancelled
               \/ /\ w' = u /\ ~cancelled
                  /\ u.state = "INITIALIZING" => w.state = "INITIALIZING"
                  /\ u.state = "ARMED" => u.command_wait > 0
         \/ pc' = "initGuard" /\ w' = u /\ u.state = "INITIALIZING"
            /\ request' = u.init_step /\ expected' = expected
         \/ pc' = "driveGuard" /\ w' = u /\ u.state = "ARMED"
            /\ request' = request /\ expected' = target(u.keys)
  BY <1>3 DEF ScheduleIdle, InitBegins, DriveBegins, u, ActiveState, stepping, locals
<1>5. TypeOK'
  BY <1>0, <1>1, <1>2, <1>4 DEF IndInv, TypeOK, Controller, Positions
<1>6. (Moving' <=> Moving) /\ (LastResort' <=> LastResort)
  BY <1>0, <1>1, <1>4 DEF Moving, Zero, LastResort
<1>7. MotionIsKnown' /\ StopOwed' /\ ClosedAtRest'
  BY <1>1, <1>4, <1>6 DEF IndInv, MotionIsKnown, StopOwed, ClosedAtRest
<1>8. ActiveUnstopped'
  BY <1>0, <1>1, <1>4 DEF IndInv, ActiveUnstopped, CommandForced, Active, Guarding
<1>9. InitOrder'
  BY <1>0, <1>1, <1>4 DEF IndInv, InitOrder, ZeroWrite
<1>10. ArmedHoldsDirection' /\ StopSeenAtTop' /\ GuardPositions'
  BY <1>1, <1>3, <1>4 DEF IndInv, ArmedHoldsDirection, ActiveState, StopSeenAtTop, GuardPositions
<1>11. CommandForced'
  BY <1>1, <1>4 DEF IndInv, CommandForced
<1>12. KeysOfThisStep'
<2>1. ActiveState(u.state) => w.keys # {}
  BY <1>1, <1>3, TargetOfNone
<2> QED
  BY <1>0, <1>1, <1>4, <2>1 DEF IndInv, KeysOfThisStep, Active, ActiveState, Guarding
<1> QED
  BY <1>5, <1>7, <1>8, <1>9, <1>10, <1>11, <1>12 DEF IndInv

\* Faults after activation, before anything is written.
LEMMA ScheduleFaultPreserves ==
    ASSUME IndInv, WriteFailsEarly \/ RequestUnlogged
    PROVE  IndInv'
<1> DEFINE u == activated(w)
           x == [u EXCEPT !.failed = TRUE]
<1>0. /\ w \in Owner /\ w.arm_generation \in Nat /\ w.command_wait \in 0..2 /\ dev \in Controller
      /\ told \in Nat /\ told <= w.arm_generation /\ step_generation \in Nat
      /\ dev' = dev /\ cancelled' = cancelled /\ UNCHANGED stepping
  BY FieldTypes DEF IndInv, TypeOK, Controller, Count, KeysOfThisStep, WriteFailsEarly, RequestUnlogged
<1>1. /\ u \in Owner /\ u.arm_generation = w.arm_generation
      /\ u.motion_may_exist = w.motion_may_exist
      /\ u.initialized_by_user = w.initialized_by_user
      /\ u.command_wait = w.command_wait /\ u.stop_zero_samples = w.stop_zero_samples
      /\ u.stop_deadline = w.stop_deadline \/ u.stop_deadline = FALSE
  BY <1>0, ActivatedFacts
<1>2. Faulted(u) \/ Faulted(x)
  BY DEF WriteFailsEarly, RequestUnlogged
<1> HIDE DEF u
<1>3. /\ x \in Owner /\ x.arm_generation = u.arm_generation
      /\ x.motion_may_exist = u.motion_may_exist
      /\ x.initialized_by_user = u.initialized_by_user
      /\ x.command_wait = u.command_wait /\ x.stop_zero_samples = u.stop_zero_samples
      /\ x.stop_deadline = u.stop_deadline
  BY <1>1 DEF Owner, Flag
<1> HIDE DEF x
<1>4. Moving' => u.motion_may_exist /\ u.initialized_by_user /\ ~u.stop_deadline
  BY <1>0, <1>1 DEF IndInv, MotionIsKnown, Moving, Zero
<1>5. u.stop_deadline => u.command_wait = 0 \/ u.command_wait + u.stop_zero_samples <= 2
  BY <1>1 DEF IndInv, CommandForced
<1>6. CASE Faulted(u)
  BY <1>0, <1>1, <1>4, <1>5, <1>6, FaultPreserves DEF Faulted, stepping, locals
<1>7. CASE Faulted(x)
  BY <1>0, <1>1, <1>3, <1>4, <1>5, <1>7, FaultPreserves DEF Faulted, stepping, locals
<1> QED
  BY <1>2, <1>6, <1>7

\* A write cancelled by its prewrite guard preserves the invariant.
LEMMA CancelledPreserves ==
    ASSUME IndInv, WriteCancelled
    PROVE  IndInv'
<1>0. /\ w \in Owner /\ w.arm_generation \in Nat /\ w.command_wait \in 0..2 /\ dev \in Controller
      /\ pc \in {"initGuard", "driveGuard"} /\ pc' = "top" /\ dev' = dev
      /\ told' = w.arm_generation /\ UNCHANGED <<locals, cancelled>>
  BY FieldTypes DEF IndInv, TypeOK, Controller, Count, WriteCancelled, PumpEnds
<1>1. PumpStep(w, w', 0) /\ ~Active'
<2>1. CASE w.arm_generation = step_generation
  BY <1>0, <2>1, RevokeStep DEF WriteCancelled, Active, ActiveState
<2>2. CASE w.arm_generation # step_generation
<3>1. w' = w /\ ~Active
  BY <1>0, <2>2 DEF WriteCancelled, IndInv, KeysOfThisStep, Guarding
<3> QED
  BY <1>0, <3>1, PumpRefl DEF Active
<2> QED
  BY <2>1, <2>2
<1>2. w' \in Owner /\ w'.arm_generation \in Nat
  BY <1>1, FieldTypes DEF PumpStep
<1>3. TypeOK'
  BY <1>0, <1>2 DEF IndInv, TypeOK, locals, Positions
<1>4. (Moving' <=> Moving) /\ (LastResort' <=> LastResort)
  BY <1>0, <1>1 DEF Moving, Zero, LastResort, PumpStep
<1>5. MotionIsKnown' /\ StopOwed' /\ ClosedAtRest'
  BY <1>0, <1>1, <1>4 DEF IndInv, MotionIsKnown, StopOwed, ClosedAtRest, PumpStep, ActiveState
<1>6. ActiveUnstopped' /\ StopSeenAtTop' /\ InitOrder' /\ GuardPositions' /\ ArmedHoldsDirection'
  BY <1>0, <1>1 DEF ActiveUnstopped, StopSeenAtTop, InitOrder, GuardPositions,
                    ArmedHoldsDirection, Active
<1>7. CommandForced'
  BY <1>0, <1>1 DEF IndInv, CommandForced, PumpStep
<1>8. KeysOfThisStep'
  BY <1>0, <1>1, <1>2 DEF KeysOfThisStep, PumpStep, Guarding
<1> QED
  BY <1>3, <1>5, <1>6, <1>7, <1>8 DEF IndInv

\* What the verdict "write" says about the intent.
LEMMA WriteVerdict ==
    ASSUME IndInv, pc \in {"initGuard", "driveGuard"}, Verdict = "write"
    PROVE  /\ ~w.stop_requested /\ ~w.stop_deadline
           /\ w.state = IF pc = "initGuard" THEN "INITIALIZING" ELSE "ARMED"
           /\ target(w.keys) # Zero
           /\ pc = "driveGuard" => target(w.keys) = expected
BY DEF IndInv, Verdict, _guard, ActiveUnstopped, Active

\* No initialization write sets the wheels in motion.
LEMMA InitEffectFacts ==
    ASSUME dev \in Controller, ~Moving, request \in 0..5, request > 3 => dev.speed = Zero
    PROVE  LET e == InitEffect(request) IN
           /\ e \in Controller /\ ~(e.enabled /\ e.speed # Zero)
           /\ request >= 3 => e.speed = Zero
<1>0. Zero \in Targets /\ TRUE \in BOOLEAN
  BY DEF Zero, Targets
<1>1. CASE request = 3
<2> DEFINE e == [dev EXCEPT !.speed = Zero]
<2>1. e \in Controller /\ e.speed = Zero
  BY <1>0 DEF Controller
<2> QED
  BY <1>1, <2>1 DEF InitEffect, ZeroWrite
<1>2. CASE request = 4
<2> DEFINE e == [dev EXCEPT !.enabled = TRUE]
<2>1. e \in Controller /\ e.speed = dev.speed
  BY <1>0 DEF Controller
<2> QED
  BY <1>2, <2>1 DEF InitEffect, ZeroWrite, EnableWrite
<1>3. CASE request \notin {3, 4}
  BY <1>3 DEF InitEffect, ZeroWrite, EnableWrite, Moving
<1> QED
  BY <1>1, <1>2, <1>3

\* The writes that were acknowledged, and the end of the initialization.
LEMMA WritePreserves ==
    ASSUME IndInv, InitWrite \/ InitDone \/ DriveWrite
    PROVE  IndInv'
<1>0. /\ w \in Owner /\ dev \in Controller /\ w.arm_generation \in Nat
      /\ w.init_step \in 0..5 /\ w.command_wait \in 0..2 /\ request \in 0..5
      /\ expected \in Targets
      /\ w.motion_may_exist \in Flag /\ w.initialized_by_user \in Flag /\ w.state \in States
  BY FieldTypes DEF IndInv, TypeOK, Controller, Count, InitLength, Owner
<1>1. /\ pc' = "top" /\ told' = w.arm_generation /\ UNCHANGED <<locals, cancelled>>
      /\ pc \in {"initGuard", "driveGuard"} /\ Verdict = "write"
  BY DEF InitWrite, InitDone, DriveWrite, PumpEnds
<1>2. /\ ~w.stop_requested /\ ~w.stop_deadline /\ Active
      /\ w.state = IF pc = "initGuard" THEN "INITIALIZING" ELSE "ARMED"
      /\ target(w.keys) # Zero
  BY <1>1, WriteVerdict DEF Active
<1>3. pc = "initGuard" => request = w.init_step /\ ~w.initialized_by_user /\ ~Moving
                          /\ (w.init_step > 3 => dev.speed = Zero)
  BY <1>2 DEF IndInv, InitOrder, MotionIsKnown, ZeroWrite
<1>4. /\ w' \in Owner /\ w'.keys = w.keys /\ w'.arm_generation = w.arm_generation
      /\ w'.stop_requested = w.stop_requested /\ w'.stop_deadline = w.stop_deadline
      /\ \/ /\ pc = "initGuard" /\ w'.state = "INITIALIZING"
            /\ w'.initialized_by_user = w.initialized_by_user
            /\ w'.init_step = w.init_step + 1 /\ dev' = InitEffect(request)
         \/ /\ pc = "initGuard" /\ w'.state = "ARMED" /\ w'.initialized_by_user = TRUE
            /\ dev' = dev
         \/ /\ pc = "driveGuard" /\ w'.state = "ARMED" /\ w'.motion_may_exist = TRUE
            /\ w'.initialized_by_user = w.initialized_by_user
            /\ dev' = [dev EXCEPT !.speed = expected]
<2>1. CASE InitWrite
<3> DEFINE m == w.motion_may_exist \/ request = EnableWrite
           n == w.init_step + 1
           u == [w EXCEPT !.motion_may_exist = m, !.init_step = n]
<3>1. m \in Flag /\ n \in Count(InitLength)
  BY <1>0, <1>1, <1>3, <2>1 DEF Flag, Count, InitWrite, InitLength
<3>2. w' = u
  BY <1>0, <2>1 DEF InitWrite, init_attempted, Owner
<3> HIDE DEF m
<3>3. n = w.init_step + 1
  OBVIOUS
<3> HIDE DEF n
<3>4. u \in Owner
  BY <1>0, <3>1 DEF Owner
<3>5. /\ u.keys = w.keys /\ u.arm_generation = w.arm_generation /\ u.state = w.state
      /\ u.stop_requested = w.stop_requested /\ u.stop_deadline = w.stop_deadline
      /\ u.initialized_by_user = w.initialized_by_user /\ u.init_step = n
  BY <1>0 DEF Owner
<3> HIDE DEF u
<3> QED
  BY <1>2, <2>1, <3>2, <3>3, <3>4, <3>5 DEF InitWrite, Acknowledged
<2>2. CASE InitDone
<3> DEFINE z == 0
           u == [w EXCEPT !.initialized_by_user = TRUE, !.state = "ARMED", !.command_wait = z]
<3>1. w' = u /\ z \in Count(2) /\ TRUE \in Flag /\ "ARMED" \in States
  BY <2>2 DEF InitDone, Count, Flag, States
<3> HIDE DEF z
<3>2. u \in Owner
  BY <1>0, <3>1 DEF Owner
<3>3. /\ u.keys = w.keys /\ u.arm_generation = w.arm_generation /\ u.state = "ARMED"
      /\ u.stop_requested = w.stop_requested /\ u.stop_deadline = w.stop_deadline
      /\ u.initialized_by_user = TRUE
  BY <1>0 DEF Owner
<3> HIDE DEF u
<3> QED
  BY <2>2, <3>1, <3>2, <3>3 DEF InitDone
<2>3. CASE DriveWrite
<3> DEFINE z == 2
           u == [w EXCEPT !.motion_may_exist = TRUE, !.command_wait = z]
<3>1. w' = u /\ z \in Count(2) /\ TRUE \in Flag
  BY <2>3 DEF DriveWrite, Count, Flag
<3> HIDE DEF z
<3>2. u \in Owner
  BY <1>0, <3>1 DEF Owner
<3>3. /\ u.keys = w.keys /\ u.arm_generation = w.arm_generation /\ u.state = w.state
      /\ u.stop_requested = w.stop_requested /\ u.stop_deadline = w.stop_deadline
      /\ u.initialized_by_user = w.initialized_by_user /\ u.motion_may_exist = TRUE
  BY <1>0 DEF Owner
<3> HIDE DEF u
<3> QED
  BY <1>2, <2>3, <3>1, <3>2, <3>3 DEF DriveWrite, Acknowledged
<2> QED
  BY <2>1, <2>2, <2>3
<1>8. dev' \in Controller /\ (Moving' => pc = "driveGuard")
      /\ (w'.state = "INITIALIZING" /\ w'.init_step > 3 => dev'.speed = Zero)
<2>1. CASE pc = "driveGuard"
  BY <1>0, <1>4, <2>1 DEF Controller
<2>2. CASE pc = "initGuard" /\ dev' = dev /\ w'.state = "ARMED"
  BY <1>0, <1>3, <2>2 DEF Moving, Zero
<2>3. CASE pc = "initGuard" /\ dev' = InitEffect(request) /\ w'.init_step = w.init_step + 1
<3>1. dev' \in Controller /\ ~(dev'.enabled /\ dev'.speed # Zero)
      /\ (request >= 3 => dev'.speed = Zero)
  BY <1>0, <1>3, <2>3, InitEffectFacts
<3> QED
  BY <1>0, <1>3, <2>3, <3>1 DEF Moving, Zero
<2> QED
  BY <1>4, <2>1, <2>2, <2>3
<1>9. TypeOK'
  BY <1>0, <1>1, <1>4, <1>8 DEF IndInv, TypeOK, Controller, locals, Positions
<1>10. pc = "driveGuard" => w.initialized_by_user
  BY <1>2 DEF IndInv, InitOrder
<1>11. MotionIsKnown' /\ StopOwed' /\ ClosedAtRest'
  BY <1>1, <1>2, <1>4, <1>8, <1>10 DEF MotionIsKnown, StopOwed, ClosedAtRest
<1>12. ActiveUnstopped' /\ StopSeenAtTop' /\ GuardPositions' /\ ArmedHoldsDirection'
  BY <1>1, <1>2, <1>4 DEF ActiveUnstopped, StopSeenAtTop, GuardPositions, ArmedHoldsDirection
<1>13. InitOrder'
  BY <1>1, <1>3, <1>4, <1>8, <1>10 DEF InitOrder, ZeroWrite
<1>14. CommandForced'
  BY <1>1, <1>2, <1>4 DEF CommandForced
<1>15. KeysOfThisStep'
  BY <1>0, <1>1, <1>4 DEF KeysOfThisStep, Guarding
<1> QED
  BY <1>9, <1>11, <1>12, <1>13, <1>14, <1>15 DEF IndInv

\* The writes that were not acknowledged.
LEMMA UnansweredPreserves ==
    ASSUME IndInv, InitUnanswered \/ DriveUnanswered
    PROVE  IndInv'
<1>0. /\ w \in Owner /\ dev \in Controller /\ w.arm_generation \in Nat
      /\ step_generation \in Nat /\ expected \in Targets /\ request \in 0..5
      /\ w.motion_may_exist \in Flag /\ TRUE \in Flag /\ Zero \in Targets
  BY FieldTypes DEF IndInv, TypeOK, Controller, Owner, Flag, Zero, Targets, InitLength
<1>1. /\ told' = w.arm_generation /\ UNCHANGED <<locals, cancelled>>
      /\ pc \in {"initGuard", "driveGuard"} /\ Verdict = "write"
  BY DEF InitUnanswered, DriveUnanswered, PumpEnds
<1>2. /\ ~w.stop_deadline
      /\ w.state = IF pc = "initGuard" THEN "INITIALIZING" ELSE "ARMED"
  BY <1>1, WriteVerdict
<1>3. pc = "initGuard" => request = w.init_step /\ ~Moving
                          /\ (w.init_step > 3 => dev.speed = Zero)
  BY <1>2 DEF IndInv, InitOrder, MotionIsKnown, ZeroWrite
<1>4. pc = "driveGuard" => w.initialized_by_user
  BY <1>2 DEF IndInv, InitOrder
<1>5. PICK m \in Flag :
         /\ Faulted([w EXCEPT !.motion_may_exist = m, !.failed = TRUE])
         /\ \/ pc = "initGuard" /\ Unanswered(InitEffect(request))
            \/ pc = "driveGuard" /\ m = TRUE /\ Unanswered([dev EXCEPT !.speed = expected])
<2>1. CASE InitUnanswered
<3> DEFINE m == w.motion_may_exist \/ request = EnableWrite
<3>1. m \in Flag
  BY <1>0 DEF Flag
<3>2. [init_attempted(w) EXCEPT !.failed = TRUE] = [w EXCEPT !.motion_may_exist = m, !.failed = TRUE]
  BY <1>0 DEF init_attempted, Owner
<3> HIDE DEF m
<3> QED
  BY <2>1, <3>1, <3>2 DEF InitUnanswered
<2>2. CASE DriveUnanswered
  BY <1>0, <2>2 DEF DriveUnanswered
<2> QED
  BY <2>1, <2>2
<1> DEFINE u == [w EXCEPT !.motion_may_exist = m, !.failed = TRUE]
<1>6. u \in Owner
  BY <1>0, <1>5 DEF Owner
<1>7. /\ u.arm_generation = w.arm_generation /\ u.motion_may_exist = m
      /\ u.initialized_by_user = w.initialized_by_user /\ u.stop_deadline = w.stop_deadline
  BY <1>0 DEF Owner
<1>8. Faulted(u)
  BY <1>5
<1> HIDE DEF u
<1>9. dev' \in Controller /\ (Moving' => pc = "driveGuard")
<2>1. CASE pc = "driveGuard"
  BY <1>0, <1>5, <2>1 DEF Controller, Unanswered
<2>2. CASE pc = "initGuard"
<3>1. CASE dev' = dev
  BY <1>0, <1>3, <2>2, <3>1 DEF Moving, Zero
<3>2. CASE dev' = InitEffect(request)
<4>1. dev' \in Controller /\ ~(dev'.enabled /\ dev'.speed # Zero)
  BY <1>0, <1>3, <2>2, <3>2, InitEffectFacts
<4> QED
  BY <4>1 DEF Moving, Zero
<3> QED
  BY <1>5, <2>2, <3>1, <3>2 DEF Unanswered
<2> QED
  BY <1>1, <2>1, <2>2
<1>10. Moving' => u.motion_may_exist /\ u.initialized_by_user /\ ~u.stop_deadline
  BY <1>2, <1>4, <1>5, <1>7, <1>9
<1> QED
  BY <1>0, <1>1, <1>2, <1>6, <1>7, <1>8, <1>9, <1>10, FaultPreserves DEF Faulted, locals

-----------------------------------------------------------------------------
(* The operator and time.                                                    *)

\* Every packet, connection and disconnection is a pump step.
LEMMA SocketSteps ==
    ASSUME IndInv, Socket
    PROVE  PumpStep(w, w', told)
<1>0. w \in Owner /\ told \in Nat
  BY DEF IndInv, TypeOK
<1>1. CASE Hello
  BY <1>0, <1>1, ConnectedStep DEF Hello
<1>2. CASE Disconnect
  BY <1>0, <1>2, DisconnectedStep DEF Disconnect
<1>3. CASE Reject \/ ClosePacket
  BY <1>0, <1>3, RejectedStep, RevokeStep DEF Reject, ClosePacket
<1>4. CASE DisarmPacket
  BY <1>0, <1>4, RevokeStep DEF DisarmPacket
<1>5. CASE PushPacket
<2>1. PICK g \in 0..told, enabled \in BOOLEAN :
         \/ w' = push_command(w, g, enabled)
         \/ w' = rejected(push_command(w, g, enabled))
  BY <1>5 DEF PushPacket
<2> DEFINE c == push_command(w, g, enabled)
<2>2. PumpStep(w, c, told) /\ c \in Owner
  BY <1>0, PushCommandStep DEF PumpStep
<2> HIDE DEF c
<2>3. PumpStep(c, rejected(c), told)
  BY <1>0, <2>2, RejectedStep
<2>4. PumpStep(w, rejected(c), told)
  BY <1>0, <2>2, <2>3, PumpTrans
<2> QED
  BY <2>1, <2>2, <2>4 DEF c
<1>6. CASE KeysPacket
<2>1. PICK g \in 0..told, foreground \in BOOLEAN, ks \in KeyInputs :
         w' = keys_command(w, g, foreground, ks)
  BY <1>6 DEF KeysPacket
<2>2. ks \in KeySet
  BY <2>1, InputAssumption DEF KeySet
<2> QED
  BY <1>0, <2>1, <2>2, KeysCommandStep
<1> QED
  BY <1>1, <1>2, <1>3, <1>4, <1>5, <1>6 DEF Socket

\* Packets preserve the invariant at every position where the code pumps.
LEMMA SocketPreserves ==
    ASSUME IndInv, Socket
    PROVE  IndInv'
<1>1. pc \in Pumping /\ UNCHANGED <<pc, stepping, cancelled, dev>>
  BY DEF Socket, Hello, Disconnect, Reject, DisarmPacket, ClosePacket, PushPacket, KeysPacket, Pump
<1> QED
  BY <1>1, SocketSteps, PumpPreserves

\* The passing of time and signals preserve the invariant.
LEMMA EnvironmentPreserves ==
    ASSUME IndInv, Environment
    PROVE  IndInv'
<1>1. w \in Owner /\ FALSE \in Flag /\ "stale" \in Heartbeat /\ 0 \in Count(3)
      /\ w.window \in 0..3
  BY FieldTypes DEF IndInv, TypeOK, Flag, Heartbeat, Count
<1>2. CASE KeysExpire
<2> DEFINE u == [w EXCEPT !.keys_fresh = FALSE]
<2>1. u \in Owner /\ SameCore(w, u)
  BY <1>1 DEF Owner, SameCore
<2> QED
  BY <1>2, <2>1, SameCorePreserves DEF KeysExpire
<1>3. CASE HeartbeatExpires
<2> DEFINE u == [w EXCEPT !.ui = "stale"]
<2>1. u \in Owner /\ SameCore(w, u)
  BY <1>1 DEF Owner, SameCore
<2> QED
  BY <1>3, <2>1, SameCorePreserves DEF HeartbeatExpires
<1>4. CASE FeedbackExpires
<2>1. \/ \E n \in Count(3) : w' = [w EXCEPT !.window = n]
      \/ w' = [w EXCEPT !.window = 0, !.feedback_fresh = FALSE]
  BY <1>1, <1>4 DEF FeedbackExpires, Count
<2>2. ASSUME NEW n \in Count(3), w' = [w EXCEPT !.window = n]
      PROVE  w' \in Owner /\ SameCore(w, w')
<3> DEFINE u == [w EXCEPT !.window = n]
<3>1. u \in Owner /\ SameCore(w, u)
  BY <1>1 DEF Owner, SameCore
<3> QED
  BY <2>2, <3>1
<2>3. ASSUME w' = [w EXCEPT !.window = 0, !.feedback_fresh = FALSE]
      PROVE  w' \in Owner /\ SameCore(w, w')
<3> DEFINE z == 0
           u == [w EXCEPT !.window = z, !.feedback_fresh = FALSE]
<3>1. z \in Count(3) /\ w' = u
  BY <1>1, <2>3
<3> HIDE DEF z
<3>2. u \in Owner /\ SameCore(w, u)
  BY <1>1, <3>1 DEF Owner, SameCore
<3> QED
  BY <3>1, <3>2
<2> QED
  BY <1>4, <2>1, <2>2, <2>3, SameCorePreserves DEF FeedbackExpires
<1> QED
  BY <1>2, <1>3, <1>4, DuePreserves, MovePreserves DEF Environment

-----------------------------------------------------------------------------
(* The theorems.                                                             *)

\* The constructors establish the invariant.
LEMMA InitHolds == Init => IndInv
<1> SUFFICES ASSUME Init PROVE IndInv
  OBVIOUS
<1> DEFINE st == IF ArmAllowed THEN "READY" ELSE "DISARMED"
           z == 0
           e == {}
           n == [
    state |-> st, keys |-> e, keys_fresh |-> FALSE,
    peer_connected |-> FALSE, foreground |-> FALSE, ui |-> "none",
    arm_generation |-> z,
    init_step |-> z, initialized_by_user |-> FALSE,
    stop_requested |-> FALSE, stop_deadline |-> FALSE, stop_zero_samples |-> z,
    feedback_fresh |-> FALSE, window |-> z, command_wait |-> z,
    push_mode |-> FALSE, push_mode_requested |-> FALSE, hybrid_release_inhibited |-> FALSE,
    failed |-> FALSE, motion_may_exist |-> FALSE, recovery_attempted |-> FALSE]
<1>1. w = n
  BY DEF Init, NewOwner
<1>2. /\ st \in States /\ z \in Count(InitLength) /\ z \in Count(3) /\ z \in Count(2) /\ z \in Nat
      /\ FALSE \in Flag /\ "none" \in Heartbeat /\ e \in KeySet
      /\ st \notin {"INITIALIZING", "ARMED", "FAULT"} /\ z = 0
  BY DEF States, Count, InitLength, Flag, Heartbeat, KeySet
<1> HIDE DEF st, z, e
<1>3. n \in Owner
  BY <1>2 DEF Owner
<1>4. /\ n.state = st /\ n.arm_generation = z /\ n.stop_deadline = FALSE /\ n.command_wait = z
      /\ n.stop_requested = FALSE
  OBVIOUS
<1> HIDE DEF n
<1>5. ~dev.enabled /\ pc = "top" /\ told = 0 /\ dev \in Controller
  BY DEF Init, Controller
<1>6. Zero \in Targets /\ 0 \in 0..InitLength
  BY DEF Zero, Targets, InitLength
<1>7. TypeOK
<2>1. cancelled \in BOOLEAN
  BY Zenon DEF Init
<2>2. pc \in Positions
  BY DEF Init, Positions
<2>3. step_generation \in Nat /\ release_generation \in Nat /\ request \in 0..InitLength
      /\ expected \in Targets /\ told \in Nat
  BY <1>6 DEF Init
<2> QED
  BY <1>1, <1>3, <1>5, <2>1, <2>2, <2>3 DEF TypeOK, Controller
<1>8. MotionIsKnown /\ StopOwed /\ ClosedAtRest
  BY <1>5 DEF MotionIsKnown, StopOwed, ClosedAtRest, Moving
<1>9. ActiveUnstopped /\ StopSeenAtTop /\ InitOrder /\ GuardPositions /\ ArmedHoldsDirection
  BY <1>1, <1>2, <1>4, <1>5 DEF ActiveUnstopped, StopSeenAtTop, InitOrder, GuardPositions,
                                ArmedHoldsDirection, Active
<1>10. CommandForced /\ KeysOfThisStep
  BY <1>1, <1>2, <1>4, <1>5 DEF CommandForced, KeysOfThisStep, Guarding
<1> QED
  BY <1>7, <1>8, <1>9, <1>10 DEF IndInv

\* Every step preserves the invariant.
LEMMA StepHolds == IndInv /\ [Next]_vars => IndInv'
<1> SUFFICES ASSUME IndInv, [Next]_vars PROVE IndInv'
  OBVIOUS
<1>1. CASE Socket
  BY <1>1, SocketPreserves
<1>2. CASE Environment
  BY <1>2, EnvironmentPreserves
<1>3. CASE LoopBody \/ FeedbackNotDue \/ NoRelease \/ ReleaseBegins \/ ReleaseCancelled
  BY <1>3, MovePreserves
<1>4. CASE LoopFails \/ JournalFails \/ SampleFails \/ ReleaseFailsEarly
  BY <1>4, EarlyFaultPreserves
<1>5. CASE StepBegins
  BY <1>5, StepBeginsPreserves
<1>6. CASE StepStops \/ FaultStops \/ CloseStops
  BY <1>6, StopPreserves, StopFailurePreserves DEF FaultStops
<1>7. CASE StepStopFails \/ CloseStopFails
  BY <1>7, StopFailurePreserves
<1>8. CASE Sample
  BY <1>8, SamplePreserves
<1>9. CASE Release \/ ReleaseUnanswered
  BY <1>9, ReleasePreserves
<1>10. CASE ScheduleIdle \/ InitBegins \/ DriveBegins
  BY <1>10, SchedulePreserves
<1>11. CASE WriteFailsEarly \/ RequestUnlogged
  BY <1>11, ScheduleFaultPreserves
<1>12. CASE WriteCancelled \/ WriteSuperseded
  BY <1>12, CancelledPreserves, DuePreserves
<1>13. CASE InitWrite \/ InitDone \/ DriveWrite
  BY <1>13, WritePreserves
<1>14. CASE InitUnanswered \/ DriveUnanswered
  BY <1>14, UnansweredPreserves
<1>15. CASE Exit
  BY <1>15, ExitPreserves
<1>16. CASE UNCHANGED vars
<2>1. w' = w /\ UNCHANGED <<pc, stepping, cancelled, dev>>
  BY <1>16 DEF vars, stepping, locals
<2> QED
  BY <2>1, SameCorePreserves DEF SameCore, IndInv, TypeOK
<1> QED
  BY <1>1, <1>2, <1>3, <1>4, <1>5, <1>6, <1>7, <1>8, <1>9, <1>10, <1>11, <1>12, <1>13,
     <1>14, <1>15, <1>16 DEF Next, Step

\* The inductive invariant holds in every reachable state.
THEOREM Inductive == Spec => []IndInv
  BY InitHolds, StepHolds, PTL DEF Spec

\* Every variable keeps its type: MappingWheel never leaves its enumerated
\* states, counts and flags, in any configuration.
THEOREM TypeCorrect == Spec => []TypeOK
<1>1. IndInv => TypeOK
  BY DEF IndInv
<1> QED
  BY <1>1, Inductive, PTL

\* step() never loses a stop: at the loop condition, a wheel that may still
\* turn without an armed direction has its zero pending, or the channel failed
\* and its one best-effort zero was spent.
THEOREM StopIsNeverForgotten == Spec => []StopNeverForgotten
<1>1. IndInv => StopNeverForgotten
  BY DEF IndInv, StopOwed, StopNeverForgotten
<1> QED
  BY <1>1, Inductive, PTL

\* close() returns with the wheels at rest, or after the failed channel's one
\* best-effort zero.
THEOREM CloseLeavesRest == Spec => []ClosedAtRest
<1>1. IndInv => ClosedAtRest
  BY DEF IndInv
<1> QED
  BY <1>1, Inductive, PTL

\* INITIALIZING and ARMED always hold a nonzero direction: step()'s branch for
\* an armed zero target is dead code.
THEOREM ArmedAlwaysHoldsDirection == Spec => []ArmedHoldsDirection
<1>1. IndInv => ArmedHoldsDirection
  BY DEF IndInv
<1> QED
  BY <1>1, Inductive, PTL

-----------------------------------------------------------------------------
(* What reaches the controller.                                              *)

\* Every step writes at most one frame: a zero speed, the release, an
\* initialization frame or a velocity, each only behind its guard.
LEMMA FramesOfNext ==
    ASSUME [Next]_vars
    PROVE  \/ dev' = dev
           \/ dev' = [dev EXCEPT !.speed = Zero]
           \/ dev' = [dev EXCEPT !.enabled = FALSE] /\ release_guard(w)
           \/ pc = "initGuard" /\ Verdict = "write" /\ dev' = InitEffect(request)
           \/ pc = "driveGuard" /\ Verdict = "write" /\ dev' = [dev EXCEPT !.speed = expected]
<1>1. CASE Socket \/ Environment \/ UNCHANGED vars
  BY <1>1 DEF Socket, Hello, Disconnect, Reject, DisarmPacket, ClosePacket, PushPacket, KeysPacket,
              Pump, Environment, KeysExpire, HeartbeatExpires, FeedbackExpires, CommandDue, Signal, vars
<1>2. CASE StepStops \/ StepStopFails \/ FaultStops \/ CloseStops \/ CloseStopFails
  BY <1>2 DEF StepStops, StepStopFails, FaultStops, CloseStops, CloseStopFails, StopReturns,
              StopRaises, ZeroMayBeSent, Acknowledged, Unanswered
<1>3. CASE Release \/ ReleaseUnanswered
  BY <1>3 DEF Release, ReleaseUnanswered, Acknowledged, Unanswered
<1>4. CASE InitWrite \/ InitUnanswered \/ DriveWrite \/ DriveUnanswered
  BY <1>4 DEF InitWrite, InitUnanswered, DriveWrite, DriveUnanswered, Acknowledged, Unanswered
<1>5. CASE LoopBody \/ LoopFails \/ StepBegins \/ JournalFails \/ FeedbackNotDue \/ Sample \/ SampleFails
  BY <1>5 DEF LoopBody, LoopFails, StepBegins, JournalFails, FeedbackNotDue, Sample, SampleFails
<1>6. CASE NoRelease \/ ReleaseBegins \/ ReleaseFailsEarly \/ ReleaseCancelled
  BY <1>6 DEF NoRelease, ReleaseBegins, ReleaseFailsEarly, ExchangeFailsEarly, ReleaseCancelled
<1>7. CASE ScheduleIdle \/ InitBegins \/ DriveBegins \/ WriteFailsEarly \/ RequestUnlogged
  BY <1>7 DEF ScheduleIdle, InitBegins, DriveBegins, WriteFailsEarly, RequestUnlogged
<1>8. CASE WriteCancelled \/ WriteSuperseded \/ InitDone \/ Exit
  BY <1>8 DEF WriteCancelled, WriteSuperseded, InitDone, Exit
<1> QED
  BY <1>1, <1>2, <1>3, <1>4, <1>5, <1>6, <1>7, <1>8 DEF Next, Step

\* _release() switches the servo off only at rest, with no direction held and
\* none being initialized or driven, whatever its own prewrite pump received.
THEOREM ReleasesOnlyAtRest == Spec => ReleaseOnlyAtRest
<1>1. ASSUME IndInv, [Next]_vars, dev.enabled, ~dev'.enabled
      PROVE  ~Moving /\ target(w.keys) = Zero /\ w.state \notin {"INITIALIZING", "ARMED"}
<2>1. dev \in Controller
  BY <1>1 DEF IndInv, TypeOK, Controller
<2>2. CASE dev' = dev \/ dev' = [dev EXCEPT !.speed = Zero] \/ dev' = [dev EXCEPT !.speed = expected]
  BY <1>1, <2>1, <2>2 DEF Controller
<2>3. CASE dev' = InitEffect(request)
  BY <1>1, <2>1, <2>3 DEF Controller, InitEffect
<2>4. CASE release_guard(w)
  BY <1>1, <2>4 DEF IndInv, MotionIsKnown, release_guard
<2> QED
  BY <1>1, <2>2, <2>3, <2>4, FramesOfNext
<1>2. IndInv /\ [Next]_vars => [dev.enabled /\ ~dev'.enabled =>
          ~Moving /\ target(w.keys) = Zero /\ w.state \notin {"INITIALIZING", "ARMED"}]_vars
  BY <1>1
<1> QED
  BY <1>2, Inductive, PTL DEF Spec, ReleaseOnlyAtRest

\* step() enables the servo only after a zero target was acknowledged, however
\* often its initialization was revoked and restarted.
THEOREM EnablesAfterZero == Spec => ZeroBeforeEnable
<1>1. ASSUME IndInv, [Next]_vars, ~dev.enabled, dev'.enabled
      PROVE  dev.speed = Zero
<2>1. dev \in Controller
  BY <1>1 DEF IndInv, TypeOK, Controller
<2>2. CASE dev' = dev \/ dev' = [dev EXCEPT !.speed = Zero] \/ dev' = [dev EXCEPT !.speed = expected]
  BY <1>1, <2>1, <2>2 DEF Controller
<2>3. CASE dev' = [dev EXCEPT !.enabled = FALSE]
  BY <1>1, <2>1, <2>3 DEF Controller
<2>4. CASE pc = "initGuard" /\ Verdict = "write" /\ dev' = InitEffect(request)
<3>1. request = EnableWrite
  BY <1>1, <2>1, <2>4 DEF InitEffect, Controller
<3>2. w.state = "INITIALIZING"
  BY <1>1, <2>4, WriteVerdict
<3>3. request = w.init_step /\ (w.init_step > ZeroWrite => dev.speed = Zero)
  BY <1>1, <2>4, <3>2 DEF IndInv, InitOrder
<3> QED
  BY <3>1, <3>3 DEF EnableWrite, ZeroWrite
<2> QED
  BY <1>1, <2>2, <2>3, <2>4, FramesOfNext
<1>2. IndInv /\ [Next]_vars => [~dev.enabled /\ dev'.enabled => dev.speed = Zero]_vars
  BY <1>1
<1> QED
  BY <1>2, Inductive, PTL DEF Spec, ZeroBeforeEnable

-----------------------------------------------------------------------------
(* A velocity frame and the intent behind it.                                *)

\* A failed channel always comes with FAULT, from which no packet leads back.
FailureLatched == w.failed => w.state = "FAULT"

\* The steps that end in the exception handler of step(), of the loop or of close().
LEMMA FaultsEndInFault ==
    ASSUME IndInv,
           \/ LoopFails \/ JournalFails \/ SampleFails \/ ReleaseFailsEarly
           \/ StepStopFails \/ CloseStopFails \/ WriteFailsEarly \/ RequestUnlogged
           \/ InitUnanswered \/ DriveUnanswered \/ ReleaseUnanswered
    PROVE  w'.state = "FAULT"
<1>1. w \in Owner /\ activated(w) \in Owner /\ TRUE \in Flag /\ FALSE \in Flag
  BY ActivatedFacts DEF IndInv, TypeOK, Flag
<1>2. CASE LoopFails \/ JournalFails
  BY <1>1, <1>2, FaultStep DEF LoopFails, JournalFails, Faulted
<1>3. CASE SampleFails \/ ReleaseFailsEarly \/ ReleaseUnanswered
  <2>1. PICK f \in {w.failed, TRUE} : w' = fault([w EXCEPT !.failed = f])
    BY <1>3 DEF SampleFails, ReleaseFailsEarly, ExchangeFailsEarly, ReleaseUnanswered, Faulted
  <2>2. f \in Flag
    BY <1>1, <2>1 DEF Owner
  <2>3. [w EXCEPT !.failed = f] \in Owner
    BY <1>1, <2>2, Updates
  <2> QED
    BY <2>1, <2>3, FaultStep
<1>4. CASE StepStopFails \/ CloseStopFails
  <2> DEFINE u == [w EXCEPT !.stop_requested = FALSE, !.failed = TRUE]
  <2>1. u \in Owner
    BY <1>1 DEF Owner
  <2>2. w' = fault(best_effort_zero(u))
    BY <1>4 DEF StepStopFails, CloseStopFails, Faulted
  <2> HIDE DEF u
  <2>3. best_effort_zero(u) \in Owner
    BY <2>1, BestEffort
  <2> QED
    BY <2>2, <2>3, FaultStep
<1>5. CASE WriteFailsEarly \/ RequestUnlogged
  <2>1. [activated(w) EXCEPT !.failed = TRUE] \in Owner
    BY <1>1, Updates
  <2>2. w' = fault([activated(w) EXCEPT !.failed = TRUE]) \/ w' = fault(activated(w))
    BY <1>5 DEF WriteFailsEarly, RequestUnlogged, Faulted
  <2> QED
    BY <1>1, <2>1, <2>2, FaultStep
<1>6. CASE InitUnanswered
  <2> DEFINE m == w.motion_may_exist \/ request = EnableWrite
             u == [w EXCEPT !.motion_may_exist = m]
  <2>1. m \in Flag
    BY DEF Flag
  <2>2. w' = fault([u EXCEPT !.failed = TRUE])
    BY <1>6 DEF InitUnanswered, Faulted, init_attempted
  <2> HIDE DEF m
  <2>3. u \in Owner
    BY <1>1, <2>1, Updates
  <2> HIDE DEF u
  <2>4. [u EXCEPT !.failed = TRUE] \in Owner
    BY <1>1, <2>3, Updates
  <2> QED
    BY <2>2, <2>4, FaultStep
<1>7. CASE DriveUnanswered
  <2> DEFINE u == [w EXCEPT !.motion_may_exist = TRUE, !.failed = TRUE]
  <2>1. u \in Owner
    BY <1>1 DEF Owner
  <2>2. w' = fault(u)
    BY <1>7 DEF DriveUnanswered, Faulted
  <2> HIDE DEF u
  <2> QED
    BY <2>1, <2>2, FaultStep
<1> QED
  BY <1>2, <1>3, <1>4, <1>5, <1>6, <1>7

\* A stop changes no state, and fails the channel only when it raises.
LEMMA StopsKeepLatch ==
    ASSUME IndInv, FailureLatched, StepStops \/ FaultStops \/ CloseStops
    PROVE  FailureLatched'
<1> DEFINE u == [w EXCEPT !.stop_requested = FALSE]
<1>0. w \in Owner /\ FALSE \in Flag
  BY DEF IndInv, TypeOK, Flag
<1>1. u \in Owner /\ u.failed = w.failed
  <2>1. u \in Owner
    BY <1>0, Updates
  <2>2. u.failed = w.failed
    BY <1>0 DEF Owner
  <2> QED
    BY <2>1, <2>2
<1>2. CASE StopReturns(w')
  <2>1. w'.state = w.state
    BY <1>2, StopReturnsFacts DEF StopOnly
  <2>2. \/ w' = u \/ w' = best_effort_zero(u)
        \/ w' = [u EXCEPT !.stop_deadline = TRUE, !.stop_zero_samples = 0]
    BY <1>2 DEF StopReturns
  <2> HIDE DEF u
  <2>3. w'.failed = u.failed
    <3>1. CASE w' = best_effort_zero(u)
      BY <1>1, <3>1, BestEffort
    <3>2. CASE w' = [u EXCEPT !.stop_deadline = TRUE, !.stop_zero_samples = 0]
      BY <1>1, <3>2 DEF Owner
    <3> QED
      BY <2>2, <3>1, <3>2
  <2> QED
    BY <1>1, <2>1, <2>3 DEF FailureLatched
<1>3. CASE StopRaises(w') /\ FaultStops
  <2>1. w'.state = w.state
    BY <1>3, StopRaisesFacts DEF StopOnly
  <2> QED
    BY <1>3, <2>1 DEF FaultStops, IndInv, GuardPositions, FailureLatched
<1> QED
  BY <1>2, <1>3 DEF StepStops, FaultStops, CloseStops

\* Every step keeps the latch.
LEMMA LatchHolds == IndInv /\ FailureLatched /\ [Next]_vars => FailureLatched'
<1> SUFFICES ASSUME IndInv, FailureLatched, [Next]_vars PROVE FailureLatched'
  OBVIOUS
<1>0. w \in Owner /\ told \in Nat
  BY DEF IndInv, TypeOK
<1>1. ASSUME PumpStep(w, w', told) PROVE FailureLatched'
  BY <1>1 DEF PumpStep, FailureLatched
<1>2. CASE Socket
  BY <1>1, <1>2, SocketSteps
<1>3. CASE StepBegins \/ WriteCancelled
  BY <1>0, <1>1, <1>3, ExpiredStep, RevokeStep, PumpRefl DEF StepBegins, WriteCancelled
<1>4. CASE Exit
  BY <1>1, <1>4, ExitSteps
<1>5. CASE \/ LoopFails \/ JournalFails \/ SampleFails \/ ReleaseFailsEarly
           \/ StepStopFails \/ CloseStopFails \/ WriteFailsEarly \/ RequestUnlogged
           \/ InitUnanswered \/ DriveUnanswered \/ ReleaseUnanswered
  BY <1>5, FaultsEndInFault DEF FailureLatched
<1>6. CASE StepStops \/ FaultStops \/ CloseStops
  BY <1>6, StopsKeepLatch
<1>7. CASE \/ LoopBody \/ FeedbackNotDue \/ NoRelease \/ ReleaseBegins \/ ReleaseCancelled
           \/ Signal \/ UNCHANGED vars
  BY <1>7 DEF LoopBody, FeedbackNotDue, NoRelease, ReleaseBegins, ReleaseCancelled, Signal, vars,
              FailureLatched
<1>8. CASE \/ KeysExpire \/ HeartbeatExpires \/ FeedbackExpires \/ CommandDue
           \/ Sample \/ WriteSuperseded \/ InitWrite \/ DriveWrite
  <2>1. w'.failed = w.failed /\ w'.state = w.state
    BY <1>0, <1>8 DEF KeysExpire, HeartbeatExpires, FeedbackExpires, CommandDue, Sample, sampled,
                      WriteSuperseded, InitWrite, init_attempted, DriveWrite, Owner
  <2> QED
    BY <2>1 DEF FailureLatched
<1>9. CASE Release
  <2>1. CASE w' = Released(w)
    BY <1>0, <2>1 DEF Released, Owner, FailureLatched
  <2>2. CASE Faulted(Released(w))
    <3>1. Released(w) \in Owner
      BY <1>0 DEF Released, Owner, Flag
    <3> QED
      BY <2>2, <3>1, FaultStep DEF Faulted, FailureLatched
  <2> QED
    BY <1>9, <2>1, <2>2 DEF Release
<1>10. CASE InitDone
  <2>1. w.state = "INITIALIZING" /\ w'.failed = w.failed
    BY <1>0, <1>10, WriteVerdict DEF InitDone, Owner
  <2> QED
    BY <2>1 DEF FailureLatched
<1>11. CASE ScheduleIdle \/ InitBegins \/ DriveBegins
  <2> DEFINE v == activated(w)
  <2>1. v \in Owner /\ v.failed = w.failed /\ (w.state = "FAULT" => v.state = "FAULT")
    BY <1>0, ActivatedFacts
  <2> HIDE DEF v
  <2>2. \/ w' = w \/ w' = v
        \/ w' = [v EXCEPT !.keys = {}, !.keys_fresh = FALSE, !.stop_requested = v.motion_may_exist]
    BY <1>11 DEF ScheduleIdle, InitBegins, DriveBegins, v
  <2>3. \/ w' = w
        \/ w'.failed = v.failed /\ w'.state = v.state
    <3>1. ASSUME w' = [v EXCEPT !.keys = {}, !.keys_fresh = FALSE,
                                !.stop_requested = v.motion_may_exist]
          PROVE  w'.failed = v.failed /\ w'.state = v.state
      BY <2>1, <3>1 DEF Owner
    <3>2. CASE w' = v
      BY <3>2
    <3> QED
      BY <2>2, <3>1, <3>2
  <2> QED
    BY <2>1, <2>3 DEF FailureLatched
<1> QED
  BY <1>2, <1>3, <1>4, <1>5, <1>6, <1>7, <1>8, <1>9, <1>10, <1>11 DEF Next, Environment, Step

\* A velocity reaches the controller only as the direction held when it is written,
\* from a connected operator with fresh keys and samples, with no stop owed and a
\* working channel: what the guard's own pump received is never overtaken.
THEOREM DriveAlwaysFollowsKeys == Spec => DriveFollowsKeys
<1>1. Init => FailureLatched
  BY DEF Init, NewOwner, FailureLatched
<1>2. Spec => []FailureLatched
  BY <1>1, LatchHolds, Inductive, PTL DEF Spec
<1>3. ASSUME IndInv, FailureLatched, [Next]_vars, dev'.speed # dev.speed, dev'.speed # Zero
      PROVE  /\ dev'.speed = target(w.keys)
             /\ w.peer_connected /\ w.keys_fresh /\ w.feedback_fresh
             /\ ~w.stop_requested /\ ~w.failed
  <2>1. dev \in Controller
    BY <1>3 DEF IndInv, TypeOK, Controller
  <2>2. ~(dev' = dev \/ dev' = [dev EXCEPT !.speed = Zero] \/ dev' = [dev EXCEPT !.enabled = FALSE])
    BY <1>3, <2>1 DEF Controller
  <2>3. dev' # InitEffect(request)
    BY <1>3, <2>1 DEF Controller, InitEffect
  <2>4. pc = "driveGuard" /\ Verdict = "write" /\ dev' = [dev EXCEPT !.speed = expected]
    BY <1>3, <2>2, <2>3, FramesOfNext
  <2>5. ~w.stop_requested /\ w.state = "ARMED" /\ target(w.keys) = expected
    BY <1>3, <2>4, WriteVerdict
  <2>6. w.peer_connected /\ w.keys_fresh /\ w.feedback_fresh
    BY <2>4 DEF Verdict, _guard, intent_fresh
  <2>7. ~w.failed
    BY <1>3, <2>5 DEF FailureLatched
  <2>8. dev'.speed = target(w.keys)
    BY <2>1, <2>4, <2>5 DEF Controller
  <2> QED
    BY <2>5, <2>6, <2>7, <2>8
<1>4. IndInv /\ FailureLatched /\ [Next]_vars =>
         [dev'.speed # dev.speed /\ dev'.speed # Zero =>
            /\ dev'.speed = target(w.keys)
            /\ w.peer_connected /\ w.keys_fresh /\ w.feedback_fresh
            /\ ~w.stop_requested /\ ~w.failed]_vars
  BY <1>3
<1> QED
  BY <1>2, <1>4, Inductive, PTL DEF Spec, DriveFollowsKeys

=============================================================================
