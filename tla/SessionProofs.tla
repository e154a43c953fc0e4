----------------------------- MODULE SessionProofs -----------------------------
(***************************************************************************)
(* The shutdown of a session, for every number of components, and the      *)
(* cleanup of one component's processes, for every number of PIDs and of   *)
(* processes.  The two models share no state: the last theorem shows that  *)
(* the wrapper of the second one does only what the first one assumes of   *)
(* it.                                                                     *)
(***************************************************************************)
EXTENDS Supervisor, ComponentTree, NaturalsInduction, WellFoundedInduction, SequenceTheorems, TLAPS

-----------------------------------------------------------------------------
(* The supervisor.                                                         *)

\* Every wrapper that runs has the lock's descriptor, and so has the supervisor
\* while it may still start one.
Holding ==
    /\ \A i \in Components : wrapper[i] \notin {"none", "gone"} => i \in holders
    /\ pc = "spawn" /\ ~stopping => 0 \in holders
    /\ others => holders = {}

\* What a wrapper's state says of its process tree.
TreesKnown ==
    \A i \in Components :
        /\ wrapper[i] \in {"none", "booting", "armed"} => tree[i] = "none"
        /\ wrapper[i] = "gone" /\ tree[i] = "alive" => status[i] = "nonzero"

\* Nothing failed so far: whoever is not waited for any more ended well.
Accounted ==
    /\ handled # {} => failed
    /\ pc \in {"lock", "spawn", "announce", "loop", "interrupt"} => handled = {}
    /\ pc \in {"wait", "report"} /\ ~failed =>
         \A i \in Components : \/ wrapper[i] = "none" \/ i \in pending
                               \/ wrapper[i] = "gone" /\ status[i] = "zero"
    /\ pc = "report" /\ ~failed => pending = {}

\* A reported success is final.
Reported ==
    manifest = "STOPPED" =>
        /\ pc \in {"unlock", "exited", "dead"}
        /\ \A i \in Components : \/ wrapper[i] = "none"
                                 \/ wrapper[i] = "gone" /\ status[i] = "zero"

SInv == TypeOK /\ Holding /\ TreesKnown /\ Accounted /\ Reported

-----------------------------------------------------------------------------

\* A session that has not taken its lock satisfies the invariant.
LEMMA SessionInit == Init => SInv
<1> SUFFICES ASSUME Init PROVE SInv
  OBVIOUS
<1>1. TypeOK
  <2>1. /\ owner \in BOOLEAN /\ stopping \in BOOLEAN /\ failed \in BOOLEAN /\ others \in BOOLEAN
    BY Zenon DEF Init
  <2>2. wstop \in [Components -> BOOLEAN] /\ armed \in [Components -> BOOLEAN]
    BY Zenon DEF Init
  <2> QED
    BY <2>1, <2>2 DEF Init, TypeOK, Components, Spawned
<1>2. Holding /\ TreesKnown /\ Accounted /\ Reported
  BY DEF Init, Holding, TreesKnown, Accounted, Reported, Components
<1> QED
  BY <1>1, <1>2 DEF SInv

ComponentTypes ==
    /\ wrapper \in [Components -> {"none", "booting", "armed", "watching", "cleaning", "killed", "gone"}]
    /\ wstop \in [Components -> BOOLEAN] /\ armed \in [Components -> BOOLEAN]
    /\ tree \in [Components -> {"none", "alive", "gone"}]
    /\ status \in [Components -> {"none", "zero", "nonzero"}]
    /\ holders \subseteq 0..N /\ others \in BOOLEAN

\* A step of the supervisor that leaves the components and the lock alone.
LEMMA MainQuiet ==
    ASSUME SInv, UNCHANGED <<lock, component>>,
           pc' \in {"lock", "spawn", "announce", "loop", "interrupt", "wait", "report", "unlock",
                    "exited", "dead"},
           owner' \in BOOLEAN, stopping' \in BOOLEAN, failed' \in BOOLEAN,
           manifest' \in {"none", "RUNNING", "STOPPED", "FAILED"},
           handled' \subseteq pending', pending' \subseteq pending, stage' \in 1..3,
           Accounted', Reported', pc' = "spawn" /\ ~stopping' => pc = "spawn" /\ ~stopping
    PROVE  SInv'
<1>1. TypeOK'
  BY DEF SInv, TypeOK, lock, component, Spawned
<1>2. Holding' /\ TreesKnown'
  BY DEF SInv, Holding, TreesKnown, lock, component
<1> QED
  BY <1>1, <1>2 DEF SInv

\* A step of one wrapper, or of its process tree.
LEMMA ComponentMoves ==
    ASSUME SInv, NEW i \in Components, UNCHANGED <<session, finish>>, ComponentTypes',
           \A j \in Components \ {i} : /\ wrapper'[j] = wrapper[j] /\ tree'[j] = tree[j]
                                       /\ status'[j] = status[j],
           others' = others, holders' \in {holders, holders \ {i}},
           wrapper[i] # "none", wrapper'[i] # "none", wrapper[i] = "gone" => wrapper'[i] = "gone",
           wrapper'[i] = "gone" \/ i \in holders',
           wrapper[i] = "gone" => status'[i] = status[i],
           wrapper'[i] \in {"booting", "armed"} => tree'[i] = "none",
           wrapper'[i] = "gone" /\ tree'[i] = "alive" => status'[i] = "nonzero"
    PROVE  SInv'
<1>1. TypeOK'
  <2>1. \A j \in Spawned : j \in Spawned'
    BY DEF Spawned
  <2> QED
    BY <2>1 DEF SInv, TypeOK, ComponentTypes, session, finish
<1>2. Holding'
  <2>1. \A j \in Components : wrapper'[j] \notin {"none", "gone"} => j \in holders'
    BY DEF SInv, Holding
  <2>2. 0 # i
    BY SessionAssumption DEF Components
  <2>3. pc' = "spawn" /\ ~stopping' => 0 \in holders'
    BY <2>2 DEF SInv, Holding, session
  <2>4. others' => holders' = {}
    BY DEF SInv, Holding
  <2> QED
    BY <2>1, <2>3, <2>4 DEF Holding
<1>3. TreesKnown'
  BY DEF SInv, TreesKnown
<1>4. Accounted'
  BY DEF SInv, Accounted, session, finish
<1>5. Reported'
  BY DEF SInv, Reported, session
<1> QED
  BY <1>1, <1>2, <1>3, <1>4, <1>5 DEF SInv

\* A stop signal ends wrappers that are not armed yet and changes no other state.
LEMMA SignalMoves ==
    ASSUME SInv, NEW S \in SUBSET Components, signal(S)
    PROVE  /\ ComponentTypes' /\ TreesKnown' /\ Spawned' = Spawned
           /\ \A i \in Components : wrapper'[i] \notin {"none", "gone"} => i \in holders'
           /\ 0 \in holders => 0 \in holders'
           /\ others' => holders' = {}
<1> DEFINE dies(i) == i \in S /\ wrapper[i] = "booting"
<1>0. /\ ComponentTypes /\ TreesKnown /\ Holding
  BY DEF SInv, TypeOK, ComponentTypes
<1>1. /\ wrapper' = [i \in Components |-> IF dies(i) THEN "gone" ELSE wrapper[i]]
      /\ status' = [i \in Components |-> IF dies(i) THEN "nonzero" ELSE status[i]]
      /\ wstop' = [i \in Components |-> wstop[i] \/ (i \in S /\ wrapper[i] \in {"armed", "watching"})]
      /\ holders' = holders \ {i \in Components : dies(i)}
      /\ UNCHANGED <<armed, tree, others>>
  BY DEF signal
<1> HIDE DEF dies
<1>2. \A i \in Components : /\ wrapper'[i] = IF dies(i) THEN "gone" ELSE wrapper[i]
                            /\ status'[i] = IF dies(i) THEN "nonzero" ELSE status[i]
                            /\ dies(i) => wrapper[i] = "booting"
  BY <1>1 DEF dies
<1>3. wstop' \in [Components -> BOOLEAN]
  BY <1>1, Zenon
<1>4. ComponentTypes'
  BY <1>0, <1>1, <1>3 DEF ComponentTypes
<1>5. TreesKnown'
  BY <1>0, <1>1, <1>2 DEF TreesKnown
<1>6. Spawned' = Spawned
  BY <1>2 DEF Spawned
<1>7. ASSUME NEW i \in Components, wrapper'[i] \notin {"none", "gone"} PROVE i \in holders'
  <2>1. ~dies(i) /\ wrapper'[i] = wrapper[i]
    BY <1>2, <1>7
  <2> QED
    BY <1>0, <1>1, <1>7, <2>1 DEF Holding
<1>8. 0 \in holders => 0 \in holders'
  BY <1>1, SessionAssumption DEF Components
<1>9. others' => holders' = {}
  BY <1>0, <1>1 DEF Holding
<1> QED
  BY <1>4, <1>5, <1>6, <1>7, <1>8, <1>9

-----------------------------------------------------------------------------

\* The steps of supervisor.main() up to the end of its loop.
LEMMA RunHolds ==
    SInv /\ (\/ StopSignal \/ OwnerDies \/ Lock \/ LockSkipped \/ Raises \/ SpawnEnds
             \/ Announce \/ Loop \/ LoopStops \/ \E i \in Components : Spawn(i)) => SInv'
<1> SUFFICES ASSUME SInv,
             \/ StopSignal \/ OwnerDies \/ Lock \/ LockSkipped \/ Raises \/ SpawnEnds
             \/ Announce \/ Loop \/ LoopStops \/ \E i \in Components : Spawn(i)
    PROVE SInv'
  OBVIOUS
<1>0. /\ TypeOK /\ Holding /\ TreesKnown /\ Accounted /\ Reported
      /\ owner \in BOOLEAN /\ stopping \in BOOLEAN /\ failed \in BOOLEAN /\ handled \subseteq pending
  BY DEF SInv, TypeOK
<1>1. CASE StopSignal
  <2>1. stopping' \in BOOLEAN
    BY <1>1, Zenon DEF StopSignal
  <2>2. Accounted' /\ Reported'
    BY <1>0, <1>1 DEF StopSignal, Accounted, Reported, finish, component
  <2> QED
    BY <1>0, <1>1, <2>1, <2>2, MainQuiet DEF StopSignal, TypeOK, finish
<1>2. CASE OwnerDies
  <2>1. owner' \in BOOLEAN
    BY <1>2, Zenon DEF OwnerDies
  <2>2. Accounted' /\ Reported'
    BY <1>0, <1>2 DEF OwnerDies, Accounted, Reported, finish, component
  <2> QED
    BY <1>0, <1>2, <2>1, <2>2, MainQuiet DEF OwnerDies, TypeOK, finish
<1>3. CASE LockSkipped \/ Raises \/ SpawnEnds \/ Announce \/ Loop \/ LoopStops
  <2>1. /\ pc \in {"lock", "spawn", "announce", "loop"}
        /\ pc' \in {"spawn", "announce", "loop", "interrupt"}
        /\ pc' = "spawn" => stopping' = TRUE
        /\ owner' = owner /\ UNCHANGED <<finish, lock, component>>
        /\ manifest' \in {manifest, "RUNNING"}
    BY <1>3 DEF LockSkipped, Raises, SpawnEnds, Announce, Loop, LoopStops
  <2>2. /\ stopping' = stopping \/ stopping' = TRUE \/ stopping' = owner_lost
        /\ failed' = failed \/ failed' = TRUE \/ failed' = FALSE
    BY <1>3 DEF LockSkipped, Raises, SpawnEnds, Announce, Loop, LoopStops
  <2>3. stopping' \in BOOLEAN /\ failed' \in BOOLEAN
    BY <1>0, <2>2, Zenon DEF owner_lost
  <2>4. handled = {} \/ failed' = TRUE
    BY <1>0, <2>1 DEF Accounted
  <2>5. Accounted'
    BY <1>0, <2>1, <2>4 DEF Accounted, finish, component
  <2>6. Reported'
    BY <1>0, <2>1 DEF Reported, component
  <2>7. UNCHANGED <<pending, handled, stage>> /\ stage \in 1..3
    BY <1>0, <2>1 DEF finish, TypeOK
  <2>8. manifest' \in {"none", "RUNNING", "STOPPED", "FAILED"}
    BY <1>0, <2>1 DEF TypeOK
  <2> QED
    BY <1>0, <2>1, <2>3, <2>5, <2>6, <2>7, <2>8, MainQuiet
<1>4. CASE Lock
  <2>1. /\ pc = "lock" /\ pc' = "spawn" /\ holders = {} /\ ~others /\ holders' = {0}
        /\ UNCHANGED <<owner, stopping, failed, manifest, finish, others, component>>
    BY <1>4 DEF Lock
  <2>2. TypeOK'
    BY <1>0, <2>1, SessionAssumption DEF TypeOK, finish, component, Spawned
  <2>3. Holding'
    BY <1>0, <2>1 DEF Holding, component
  <2>4. TreesKnown' /\ Accounted' /\ Reported'
    BY <1>0, <2>1 DEF TreesKnown, Accounted, Reported, finish, component
  <2> QED
    BY <2>2, <2>3, <2>4 DEF SInv
<1>5. ASSUME NEW i \in Components, Spawn(i) PROVE SInv'
  <2>1. /\ pc = "spawn" /\ ~stopping /\ wrapper[i] = "none"
        /\ wrapper' = [wrapper EXCEPT ![i] = "booting"] /\ holders' = holders \cup {i}
        /\ UNCHANGED <<session, finish, others, wstop, armed, tree, status>>
    BY <1>5 DEF Spawn, Following, owner_lost
  <2>2. /\ wrapper'[i] = "booting" /\ \A j \in Components \ {i} : wrapper'[j] = wrapper[j]
        /\ wrapper' \in [Components -> {"none", "booting", "armed", "watching", "cleaning", "killed", "gone"}]
    BY <1>0, <2>1 DEF TypeOK
  <2>3. TypeOK'
    <3>1. \A j \in Spawned : j \in Spawned'
      BY <2>2 DEF Spawned
    <3>2. holders' \subseteq 0..N
      BY <1>0, <2>1, SessionAssumption DEF TypeOK, Components
    <3> QED
      BY <1>0, <2>1, <2>2, <3>1, <3>2 DEF TypeOK, session, finish
  <2>4. Holding'
    <3>1. 0 \in holders /\ ~others
      BY <1>0, <2>1 DEF Holding
    <3> QED
      BY <1>0, <2>1, <2>2, <3>1 DEF Holding, session
  <2>5. TreesKnown'
    BY <1>0, <2>1, <2>2 DEF TreesKnown
  <2>6. Accounted' /\ Reported'
    BY <1>0, <2>1, <2>2 DEF Accounted, Reported, session, finish
  <2> QED
    BY <2>3, <2>4, <2>5, <2>6 DEF SInv
<1> QED
  BY <1>1, <1>2, <1>3, <1>4, <1>5

\* finish_children(), the report, the release of the lock and the crash.
LEMMA FinishHolds ==
    SInv /\ (\/ Interrupt \/ (\E i \in Components : Wait(i) \/ Timeout(i)) \/ StageEnds
             \/ Report \/ Unlock \/ Crash) => SInv'
<1> SUFFICES ASSUME SInv,
             \/ Interrupt \/ (\E i \in Components : Wait(i) \/ Timeout(i)) \/ StageEnds
             \/ Report \/ Unlock \/ Crash
    PROVE SInv'
  OBVIOUS
<1>0. /\ TypeOK /\ Holding /\ TreesKnown /\ Accounted /\ Reported
      /\ owner \in BOOLEAN /\ stopping \in BOOLEAN /\ failed \in BOOLEAN
      /\ handled \subseteq pending /\ stage \in 1..3
      /\ manifest \in {"none", "RUNNING", "STOPPED", "FAILED"}
  BY DEF SInv, TypeOK
<1>1. CASE Interrupt
  <2>1. /\ pc = "interrupt" /\ signal(Spawned) /\ pending' = Spawned /\ pc' = "wait"
        /\ UNCHANGED <<owner, stopping, failed, manifest, handled, stage>>
    BY <1>1 DEF Interrupt
  <2>2. /\ ComponentTypes' /\ TreesKnown' /\ Spawned' = Spawned
        /\ \A i \in Components : wrapper'[i] \notin {"none", "gone"} => i \in holders'
        /\ others' => holders' = {}
    BY <2>1, SignalMoves DEF Spawned
  <2>3. TypeOK'
    BY <1>0, <2>1, <2>2 DEF TypeOK, ComponentTypes
  <2>4. Holding'
    BY <2>1, <2>2 DEF Holding
  <2>5. Accounted' /\ Reported'
    BY <1>0, <2>1, <2>2 DEF Accounted, Reported, Spawned
  <2> QED
    BY <2>2, <2>3, <2>4, <2>5 DEF SInv
<1>2. ASSUME NEW i \in Components, Wait(i) PROVE SInv'
  <2>1. /\ pc = "wait" /\ wrapper[i] = "gone" /\ i \in pending /\ i \notin handled
        /\ pending' = pending \ {i} /\ failed' = (failed \/ status[i] # "zero")
        /\ UNCHANGED <<pc, owner, stopping, manifest, handled, stage, lock, component>>
    BY <1>2 DEF Wait, Gone
  <2>2. failed' \in BOOLEAN
    BY <1>0, <2>1, Zenon
  <2>3. Accounted'
    BY <1>0, <2>1 DEF Accounted, component
  <2>4. Reported'
    BY <1>0, <2>1 DEF Reported, component
  <2>5. handled' \subseteq pending' /\ pending' \subseteq pending
    BY <1>0, <2>1
  <2> QED
    BY <1>0, <2>1, <2>2, <2>3, <2>4, <2>5, MainQuiet
<1>3. ASSUME NEW i \in Components, Timeout(i) PROVE SInv'
  <2>1. /\ pc = "wait" /\ wrapper[i] # "gone" /\ i \in pending
        /\ failed' = TRUE /\ handled' = handled \cup {i}
        /\ UNCHANGED <<pc, owner, stopping, manifest, pending, stage>>
    BY <1>3 DEF Timeout, Gone
  <2>2. failed' \in BOOLEAN
    BY <2>1, Zenon
  <2>3. Accounted' /\ manifest' # "STOPPED"
    BY <1>0, <2>1 DEF Accounted, Reported
  <2>4. CASE signal({i})
    <3>1. /\ ComponentTypes' /\ TreesKnown' /\ Spawned' = Spawned
          /\ \A j \in Components : wrapper'[j] \notin {"none", "gone"} => j \in holders'
          /\ others' => holders' = {}
      BY <2>4, SignalMoves
    <3>2. TypeOK'
      BY <1>0, <2>1, <2>2, <3>1 DEF TypeOK, ComponentTypes
    <3>3. Holding' /\ Reported'
      BY <2>1, <2>3, <3>1 DEF Holding, Reported
    <3> QED
      BY <2>3, <3>1, <3>2, <3>3 DEF SInv
  <2>5. CASE wrapper' = [wrapper EXCEPT ![i] = "killed"] /\ UNCHANGED <<lock, wstop, armed, tree, status>>
    <3>1. /\ wrapper'[i] = "killed" /\ \A j \in Components \ {i} : wrapper'[j] = wrapper[j]
          /\ wrapper' \in [Components -> {"none", "booting", "armed", "watching", "cleaning", "killed", "gone"}]
      BY <1>0, <2>5 DEF TypeOK
    <3>2. \A j \in Spawned : j \in Spawned'
      BY <3>1 DEF Spawned
    <3>3. TypeOK'
      BY <1>0, <2>1, <2>2, <2>5, <3>1, <3>2 DEF TypeOK, lock
    <3>4. i \in holders
      <4>1. wrapper[i] # "none"
        BY <1>0, <2>1 DEF TypeOK, Spawned
      <4> QED
        BY <1>0, <2>1, <4>1 DEF Holding
    <3>5. Holding' /\ Reported'
      BY <1>0, <2>1, <2>3, <2>5, <3>1, <3>4 DEF Holding, Reported, lock
    <3>6. TreesKnown'
      BY <1>0, <2>5, <3>1 DEF TreesKnown
    <3> QED
      BY <2>3, <3>3, <3>5, <3>6 DEF SInv
  <2>6. CASE UNCHANGED <<lock, component>>
    <3>1. Reported' /\ handled' \subseteq pending'
      BY <1>0, <2>1, <2>3 DEF Reported
    <3> QED
      BY <1>0, <2>1, <2>2, <2>3, <2>6, <3>1, MainQuiet
  <2> QED
    BY <1>3, <2>4, <2>5, <2>6 DEF Timeout
<1>4. CASE StageEnds
  <2>1. /\ pc = "wait" /\ pending = handled
        /\ UNCHANGED <<owner, stopping, failed, manifest, pending, lock, component>>
        /\ \/ pc' = "report" /\ (pending = {} \/ stage = 3) /\ UNCHANGED <<stage, handled>>
           \/ pc' = "wait" /\ stage # 3 /\ stage' = stage + 1 /\ handled' = {}
    BY <1>4 DEF StageEnds
  <2>2. stage' \in 1..3 /\ handled' \subseteq pending'
    BY <1>0, <2>1
  <2>3. Accounted'
    BY <1>0, <2>1 DEF Accounted, component
  <2>4. Reported'
    BY <1>0, <2>1 DEF Reported, component
  <2> QED
    BY <1>0, <2>1, <2>2, <2>3, <2>4, MainQuiet
<1>5. CASE Report
  <2>1. /\ pc = "report" /\ pc' = "unlock"
        /\ manifest' = IF failed THEN "FAILED" ELSE "STOPPED"
        /\ UNCHANGED <<owner, stopping, failed, finish, lock, component>>
    BY <1>5 DEF Report
  <2>2. Accounted' /\ Reported'
    BY <1>0, <2>1 DEF Accounted, Reported, finish, component
  <2>3. manifest' \in {"none", "RUNNING", "STOPPED", "FAILED"} /\ UNCHANGED <<pending, handled, stage>>
    BY <2>1 DEF finish
  <2> QED
    BY <1>0, <2>1, <2>2, <2>3, MainQuiet
<1>6. CASE Unlock \/ Crash
  <2>1. /\ pc' \in {"exited", "dead"} /\ holders' = holders \ {0}
        /\ UNCHANGED <<owner, stopping, failed, manifest, finish, others, wrapper, armed, tree, status>>
    BY <1>6 DEF Unlock, Crash, component
  <2>2. \/ wstop' = wstop
        \/ wstop' = [i \in Components |-> wstop[i] \/ (armed[i] /\ wrapper[i] \in {"armed", "watching"})]
    BY <1>6 DEF Unlock, Crash, component
  <2>3. wstop' \in [Components -> BOOLEAN]
    <3>1. wstop \in [Components -> BOOLEAN] /\ armed \in [Components -> BOOLEAN]
      BY <1>0 DEF TypeOK
    <3> QED
      BY <2>2, <3>1, Zenon
  <2>4. TypeOK'
    BY <1>0, <2>1, <2>3 DEF TypeOK, finish, Spawned
  <2>5. Holding'
    <3>1. \A i \in Components : i # 0
      BY SessionAssumption DEF Components
    <3> QED
      BY <1>0, <2>1, <3>1 DEF Holding
  <2>6. TreesKnown' /\ Accounted'
    BY <1>0, <2>1 DEF TreesKnown, Accounted, finish
  <2>7. Reported'
    BY <1>0, <2>1 DEF Reported
  <2> QED
    BY <2>4, <2>5, <2>6, <2>7 DEF SInv
<1> QED
  BY <1>1, <1>2, <1>3, <1>4, <1>5, <1>6

\* The steps of the wrappers, of their trees and of other sessions.
LEMMA ComponentHolds ==
    SInv /\ (OtherSession \/ \E i \in Components : Steps(i) \/ TreeExits(i) \/ Clean(i)) => SInv'
<1> SUFFICES ASSUME SInv, OtherSession \/ \E i \in Components : Steps(i) \/ TreeExits(i) \/ Clean(i)
    PROVE SInv'
  OBVIOUS
<1>0. /\ TypeOK /\ Holding /\ TreesKnown /\ Accounted /\ Reported /\ ComponentTypes
  BY DEF SInv, TypeOK, ComponentTypes
<1>1. CASE OtherSession
  <2>1. /\ (holders = {} /\ others' = TRUE) \/ (others /\ others' = FALSE)
        /\ UNCHANGED <<session, finish, holders, component>>
    BY <1>1 DEF OtherSession
  <2>2. others' \in BOOLEAN
    BY <2>1, Zenon
  <2>3. TypeOK'
    BY <1>0, <2>1, <2>2 DEF TypeOK, session, finish, component, Spawned
  <2>4. Holding' /\ TreesKnown' /\ Accounted' /\ Reported'
    BY <1>0, <2>1 DEF Holding, TreesKnown, Accounted, Reported, session, finish, component
  <2> QED
    BY <2>3, <2>4 DEF SInv
<1>2. ASSUME NEW i \in Components, TreeExits(i) PROVE SInv'
  <2>1. /\ tree[i] = "alive" /\ tree' = [tree EXCEPT ![i] = "gone"]
        /\ UNCHANGED <<session, finish, lock, wrapper, wstop, armed, status>>
    BY <1>2 DEF TreeExits
  <2>2. ComponentTypes'
    BY <1>0, <2>1 DEF ComponentTypes, lock
  <2>3. tree'[i] = "gone" /\ \A j \in Components \ {i} : tree'[j] = tree[j]
    BY <1>0, <2>1 DEF ComponentTypes
  <2>4. wrapper[i] \notin {"none", "booting", "armed"}
    BY <1>0, <2>1 DEF TreesKnown
  <2> QED
    BY <1>0, <2>1, <2>2, <2>3, <2>4, ComponentMoves DEF Holding, lock
<1>3. ASSUME NEW i \in Components, Arm(i) \/ Launch(i) \/ Clean(i) PROVE SInv'
  <2>1. /\ wrapper[i] \in {"booting", "armed", "watching"}
        /\ UNCHANGED <<session, finish, lock, wstop, status>>
        /\ \/ wrapper' = [wrapper EXCEPT ![i] = "armed"] /\ tree' = tree /\ tree[i] = "none"
           \/ wrapper' = [wrapper EXCEPT ![i] = "watching"] /\ tree' = [tree EXCEPT ![i] = "alive"]
           \/ wrapper' = [wrapper EXCEPT ![i] = "cleaning"] /\ tree' = tree
        /\ armed' = armed \/ armed' = [armed EXCEPT ![i] = TRUE]
    BY <1>0, <1>3 DEF Arm, Launch, Clean, TreesKnown
  <2>2. armed' \in [Components -> BOOLEAN]
    <3>1. armed \in [Components -> BOOLEAN]
      BY <1>0 DEF ComponentTypes
    <3> QED
      BY <2>1, <3>1, Zenon
  <2>3. ComponentTypes'
    BY <1>0, <2>1, <2>2 DEF ComponentTypes, lock
  <2>4. /\ wrapper'[i] \in {"armed", "watching", "cleaning"}
        /\ wrapper'[i] = "armed" => tree'[i] = "none"
        /\ \A j \in Components \ {i} : wrapper'[j] = wrapper[j] /\ tree'[j] = tree[j]
    BY <1>0, <2>1 DEF ComponentTypes
  <2> QED
    BY <1>0, <2>1, <2>3, <2>4, ComponentMoves DEF Holding, lock
<1>4. ASSUME NEW i \in Components,
             LaunchRefused(i) \/ LaunchFails(i) \/ Cleaned(i) \/ Incomplete(i) \/ Dies(i)
      PROVE  SInv'
  <2>1. PICK s \in {"zero", "nonzero"} :
          /\ wrapper' = [wrapper EXCEPT ![i] = "gone"] /\ status' = [status EXCEPT ![i] = s]
          /\ holders' = holders \ {i} /\ wrapper[i] \notin {"none", "gone"}
          /\ UNCHANGED <<session, finish, others, wstop, armed>>
          /\ s = "zero" => tree'[i] = "gone"
          /\ tree' = tree \/ tree' = [tree EXCEPT ![i] = "gone"]
    <3>1. CASE Cleaned(i)
      BY <3>1 DEF Cleaned, ends
    <3>2. CASE LaunchRefused(i) \/ LaunchFails(i) \/ Incomplete(i)
      BY <3>2 DEF LaunchRefused, LaunchFails, Incomplete, ends
    <3>3. CASE Dies(i)
      <4>1. tree \in [Components -> {"none", "alive", "gone"}]
        BY <1>0 DEF ComponentTypes
      <4>2. tree' = tree \/ tree' = [tree EXCEPT ![i] = IF @ = "alive" THEN "gone" ELSE @]
        BY <3>3 DEF Dies
      <4>3. tree' = tree \/ tree' = [tree EXCEPT ![i] = "gone"]
        BY <4>1, <4>2
      <4> QED
        BY <3>3, <4>3 DEF Dies, ends
    <3> QED
      BY <1>4, <3>1, <3>2, <3>3
  <2>2. ComponentTypes'
    BY <1>0, <2>1 DEF ComponentTypes
  <2>3. /\ wrapper'[i] = "gone" /\ status'[i] = s
        /\ \A j \in Components \ {i} : /\ wrapper'[j] = wrapper[j] /\ tree'[j] = tree[j]
                                       /\ status'[j] = status[j]
    BY <1>0, <2>1 DEF ComponentTypes
  <2>4. tree'[i] = "alive" => status'[i] = "nonzero"
    BY <2>1, <2>3
  <2> QED
    BY <1>0, <2>1, <2>2, <2>3, <2>4, ComponentMoves
<1> QED
  BY <1>1, <1>2, <1>3, <1>4 DEF Steps

-----------------------------------------------------------------------------

\* The invariant holds in every state of a session.
THEOREM SessionInductive == Spec => []SInv
<1>1. Init => SInv
  BY SessionInit
<1>2. SInv /\ [Next]_vars => SInv'
  <2> SUFFICES ASSUME SInv, [Next]_vars PROVE SInv'
    OBVIOUS
  <2>1. CASE Next
    BY <2>1, RunHolds, FinishHolds, ComponentHolds DEF Next, Main
  <2>2. CASE UNCHANGED vars
    BY <2>2 DEF vars, session, finish, lock, component, SInv, TypeOK, Holding, TreesKnown,
                Accounted, Reported, Spawned
  <2> QED
    BY <2>1, <2>2
<1> QED
  BY <1>1, <1>2, PTL DEF Spec

\* Type correctness; only children that were started are ever waited for.
THEOREM SessionTypeCorrect == Spec => []TypeOK
<1>1. SInv => TypeOK
  BY DEF SInv
<1> QED
  BY <1>1, SessionInductive, PTL

\* A manifest that says STOPPED is true: no wrapper and no process of a
\* component is left.
THEOREM StoppedIsAlwaysQuiet == Spec => []StoppedIsQuiet
<1>1. SInv => StoppedIsQuiet
  BY DEF SInv, TypeOK, Reported, TreesKnown, StoppedIsQuiet
<1> QED
  BY <1>1, SessionInductive, PTL

\* The lock changes hands only after every wrapper has ended, also when the
\* supervisor was killed.
THEOREM SessionsNeverOverlap == Spec => []SessionsDoNotOverlap
<1>1. SInv => SessionsDoNotOverlap
  BY DEF SInv, Holding, TreesKnown, SessionsDoNotOverlap
<1> QED
  BY <1>1, SessionInductive, PTL

-----------------------------------------------------------------------------
(* The wrapper of a component.                                             *)

USE TreeAssumption

\* A PID in use.
Live(p) == tab[p].st # "none"

\* Processes are told apart by their births, and a process has a living, older parent
\* inside of the tree exactly if it is inside itself.
Lineage(p) ==
    \/ tab[p].parent = Wrapper /\ Mine(p)
    \/ tab[p].parent = InitPid /\ ~Mine(p)
    \/ /\ tab[p].parent \in Pids /\ Running(tab[p].parent)
       /\ tab[tab[p].parent].born < tab[p].born
       /\ Mine(tab[p].parent) <=> Mine(p)
Table ==
    /\ \A p \in Pids : Live(p) => tab[p].born \in 1..births /\ Lineage(p)
    /\ \A p, q \in Pids : Live(p) /\ Live(q) /\ tab[p].born = tab[q].born => p = q

\* No descendant of the wrapper is left.
NoneLeft == \A p \in Pids : Live(p) => ~Mine(p)

\* While /proc is read, a child of the wrapper is still to be read, or was.
Visible ==
    at = "scan" => \/ NoneLeft
                   \/ \E q \in todo : Live(q) /\ tab[q].parent = Wrapper
                   \/ \E r \in snap : r.parent = Wrapper

\* A record is as old as the process of its PID, or older.
Outdated(r) ==
    r.born <= births /\ (r.pid \in Pids /\ Live(r.pid) => r.born <= tab[r.pid].born)
Records == \A r \in snap \cup targets \cup {goal} : Outdated(r)

\* What was read of a process still holds.
Holds(r) == Live(r.pid) /\ tab[r.pid].born = r.born /\ tab[r.pid].parent = r.parent

\* The pidfd of signal_descendant() refers to the process of the record, or a younger one.
Opened ==
    at = "climb" =>
        /\ goal \in Record /\ goal.born <= fd
        /\ Live(goal.pid) => fd <= tab[goal.pid].born
        /\ chain = <<>> /\ climb \in Pids => climb = goal.pid
        /\ chain = <<>> /\ climb = Wrapper => fd \in mine
        /\ chain # <<>> => fd = goal.born /\ chain[1].born = goal.born

\* Every link of belongs_to() that still holds leads to the process that was read next,
\* and the last one, read back from the wrapper, into the tree.
Linked ==
    at = "climb" =>
        /\ \A i \in 1..Len(chain) :
              /\ chain[i].born <= births /\ chain[i].parent # InitPid
              /\ chain[i].parent = Wrapper => chain[i].born \in mine
        /\ \A i \in 1..(Len(chain) - 1) :
              /\ chain[i].parent = chain[i + 1].pid
              /\ Holds(chain[i]) => tab[chain[i].parent].born = chain[i + 1].born
        /\ climb \in Pids /\ chain # <<>> => climb = chain[Len(chain)].parent
        /\ climb = Wrapper /\ chain # <<>> /\ Holds(chain[Len(chain)])
              => chain[Len(chain)].born \in mine

\* There is a signal to send, and no ancestry between two records.
Signalling == (at \in {"signal", "climb"} => phase < 4) /\ (at # "climb" => chain = <<>>)

\* The command is the oldest process of the tree.
Eldest(b) == b \in mine /\ \A other \in mine : b <= other

\* Until it is reaped, the command is a child of the wrapper under its PID; afterwards
\* its status is known, unless a descendant got that PID.
Status ==
    /\ child = Wrapper => /\ mine = {} /\ rc = "none" /\ seen = "none"
                          /\ at = "start" \/ result = "nonzero"
    /\ (at = "start" => child = Wrapper) /\ (child \in Pids => mine # {})
    /\ child \in Pids /\ rc = "none" =>
          /\ Live(child) /\ tab[child].parent = Wrapper /\ Eldest(tab[child].born)
          /\ ~Running(child) => truth = tab[child].code
    /\ rc # "none" =>
          /\ \A p \in Pids : Live(p) => ~Eldest(tab[p].born)
          /\ ~reborn => truth = rc /\ ~(Live(child) /\ Mine(child))
    /\ seen # "none" => rc # "none" /\ (~reborn => seen = truth)

TreeInv ==
    /\ TreeTypeOK /\ Table /\ Visible /\ Records /\ Opened /\ Linked /\ Status
    /\ Signalling /\ SignalsStayInside /\ SuccessLeavesNothing /\ StatusIsKept

-----------------------------------------------------------------------------

\* A nonempty set of numbers has a least one.
LEMMA LeastNumber ==
  ASSUME NEW T, T \subseteq Nat, T # {}
  PROVE  \E m \in T : \A n \in T : m <= n
  <1>1. PICK m \in T : \A n \in T : ~ (<<n, m>> \in OpToRel(<, Nat))
    BY WFMin, NatLessThanWellFounded
  <1>2. \A n \in T : ~(n < m)
    BY <1>1 DEF OpToRel
  <1> QED
    BY <1>2

\* A child of the wrapper is left.
ChildLeft == \E p \in Pids : Live(p) /\ Mine(p) /\ tab[p].parent = Wrapper

\* If a descendant of the wrapper is left, one of them is the wrapper's child.
LEMMA RootIsChild == TreeTypeOK /\ Table => NoneLeft \/ ChildLeft
  <1> SUFFICES ASSUME TreeTypeOK, Table, ~NoneLeft
               PROVE  \E p \in Pids : Live(p) /\ Mine(p) /\ tab[p].parent = Wrapper
    BY DEF ChildLeft
  <1> DEFINE left == {p \in Pids : Live(p) /\ Mine(p)}
             ages == {tab[p].born : p \in left}
  <1>1. ages \subseteq Nat /\ ages # {}
    BY DEF NoneLeft, Table, TreeTypeOK
  <1>2. PICK b \in ages : \A n \in ages : b <= n
    BY <1>1, LeastNumber
  <1>3. PICK p \in left : tab[p].born = b
    BY <1>2
  <1>4. tab[p].parent \notin Pids
    <2> SUFFICES ASSUME tab[p].parent \in Pids PROVE FALSE
      OBVIOUS
    <2> DEFINE q == tab[p].parent
    <2>1. Live(q) /\ Mine(q) /\ tab[q].born < tab[p].born /\ tab[q].born \in Nat /\ tab[p].born \in Nat
      BY <1>3 DEF Table, Lineage, Running, Live, TreeTypeOK
    <2>2. tab[q].born \in ages
      BY <2>1
    <2>3. b <= tab[q].born
      BY <1>2, <2>2
    <2> QED
      BY <1>3, <2>1, <2>3
  <1> QED
    BY <1>3, <1>4 DEF Table, Lineage

-----------------------------------------------------------------------------
(* Steps of the process table.                                             *)

\* What may happen to the table: a process gets a new number, or keeps number and
\* parent, or is adopted.
Evolves ==
    /\ births \in Nat /\ births' \in Nat /\ births <= births' /\ mine \subseteq mine'
    /\ \A p \in Pids : Live(p)' =>
        \/ tab'[p].born = births + 1 /\ births' = births + 1
        \/ /\ Live(p) /\ tab'[p].born = tab[p].born
           /\ tab'[p].parent \in {tab[p].parent, Wrapper, InitPid}
           /\ tab'[p].parent \in Pids =>
                 tab'[tab'[p].parent].born = tab[tab'[p].parent].born

\* The process table keeps its type.
TabType == tab \in [Pids -> [st : {"none", "run", "zombie"}, parent : Pids \cup {Wrapper, InitPid},
                             born : 0..MaxBirths, code : Codes]]

\* A new process below a parent of its own kind.
LEMMA BornDoes ==
  ASSUME TreeTypeOK, Table, NEW p \in Pids, NEW par \in Pids \cup {Wrapper, InitPid}, Born(p, par),
         mine' \in {mine, mine \cup {births + 1}},
         \/ par = Wrapper /\ births + 1 \in mine'
         \/ par = InitPid /\ births + 1 \notin mine'
         \/ par \in Pids /\ Running(par) /\ (Mine(par) <=> births + 1 \in mine')
  PROVE  /\ TabType' /\ births' \in 0..MaxBirths /\ mine' \subseteq 1..births'
         /\ Table' /\ Evolves
  <1>1. /\ births \in Nat /\ births' = births + 1 /\ births' \in 0..MaxBirths
        /\ mine \subseteq 1..births /\ mine' \subseteq 1..births'
        /\ births + 1 \notin mine /\ mine \subseteq mine'
        /\ \A b \in 1..births : b \in mine' <=> b \in mine
    BY DEF Born, TreeTypeOK
  <1>2. /\ tab \in [Pids -> [st : {"none", "run", "zombie"}, parent : Pids \cup {Wrapper, InitPid},
                             born : 0..MaxBirths, code : Codes]]
        /\ tab[p].st = "none"
        /\ tab'[p] = [st |-> "run", parent |-> par, born |-> births + 1, code |-> "zero"]
        /\ \A q \in Pids \ {p} : tab'[q] = tab[q]
    BY DEF Born, TreeTypeOK
  <1>3. TabType'
    BY <1>1, <1>2 DEF Born, TabType, Codes
  <1>4. par # p
    BY <1>2 DEF Running
  <1>5. \A q \in Pids \ {p} : Live(q) => tab[q].born \in 1..births /\ tab[q].parent # p /\ Lineage(q)
    BY <1>2 DEF Table, Lineage, Running, Live
  <1>6. ASSUME NEW q \in Pids, Live(q)' PROVE (tab[q].born \in 1..births /\ Lineage(q))'
    <2>1. CASE q = p
      BY <1>1, <1>2, <1>4, <2>1 DEF Lineage, Running, Mine, Table, Live
    <2>2. CASE q # p
      BY <1>1, <1>2, <1>5, <1>6, <2>2 DEF Lineage, Running, Mine, Table, Live
    <2> QED
      BY <2>1, <2>2
  <1>7. ASSUME NEW q \in Pids, NEW r \in Pids, Live(q)', Live(r)', tab'[q].born = tab'[r].born
        PROVE  q = r
    BY <1>1, <1>2, <1>5, <1>7 DEF Table, Live
  <1>8. Evolves
    BY <1>1, <1>2, <1>5 DEF Evolves, Live
  <1> QED
    BY <1>1, <1>3, <1>6, <1>7, <1>8 DEF Table

\* A process exits: its children are adopted; init keeps no zombie.
LEMMA ExitDoes ==
  ASSUME TreeTypeOK, Table, NEW p \in Pids, NEW code \in Codes, Exit(p, code)
  PROVE  /\ TabType' /\ Table' /\ Evolves /\ births' = births /\ mine' = mine
         /\ \A q \in Pids : Live(q) /\ Mine(q) /\ tab[q].parent = Wrapper
               => /\ Live(q)' /\ tab'[q].parent = Wrapper /\ tab'[q].born = tab[q].born
                  /\ tab'[q].code = IF q = p THEN code ELSE tab[q].code
                  /\ tab'[q].st = IF q = p THEN "zombie" ELSE tab[q].st
  <1> DEFINE heir == IF Mine(p) THEN Wrapper ELSE InitPid
  <1>1. /\ tab \in [Pids -> [st : {"none", "run", "zombie"}, parent : Pids \cup {Wrapper, InitPid},
                             born : 0..MaxBirths, code : Codes]]
        /\ births \in Nat /\ mine \subseteq 1..births
        /\ Running(p) /\ births' = births /\ mine' = mine
    <2>1. Running(p) /\ births' = births /\ mine' = mine
      BY DEF Exit
    <2> QED
      BY <2>1 DEF TreeTypeOK
  <1>2. ASSUME NEW q \in Pids
        PROVE  \/ tab'[q] = Free
               \/ /\ tab'[q].st = IF q = p THEN "zombie" ELSE tab[q].st
                  /\ tab'[q].born = tab[q].born
                  /\ tab'[q].parent = IF tab[q].parent = p THEN heir ELSE tab[q].parent
                  /\ tab'[q].code = IF q = p THEN code ELSE tab[q].code
    BY <1>1 DEF Exit
  <1>3. ASSUME NEW q \in Pids, q # p, tab[q].st = "run" \/ tab[q].parent = Wrapper
        PROVE  tab'[q].st = tab[q].st
    BY <1>1, <1>3 DEF Exit
  <1>4. ASSUME NEW q \in Pids, tab[q].parent = Wrapper
        PROVE  tab'[q] # Free /\ tab'[q].st = IF q = p THEN "zombie" ELSE tab[q].st
    BY <1>1, <1>4 DEF Exit, Free
  <1>5. TabType'
    <2> DEFINE after(q) == [tab[q] EXCEPT !.st = IF q = p THEN "zombie" ELSE @,
                                          !.code = IF q = p THEN code ELSE @,
                                          !.parent = IF @ = p THEN heir ELSE @]
               Entry == [st : {"none", "run", "zombie"}, parent : Pids \cup {Wrapper, InitPid},
                         born : 0..MaxBirths, code : Codes]
    <2>1. Free \in Entry
      BY DEF Free, Codes
    <2>2. \A q \in Pids : after(q) \in Entry
      BY <1>1
    <2>3. tab' = [q \in Pids |-> IF after(q).st = "zombie" /\ after(q).parent = InitPid
                                 THEN Free ELSE after(q)]
      BY DEF Exit
    <2> QED
      BY <2>1, <2>2, <2>3 DEF TabType
  <1>6. \A q \in Pids : Live(q) => tab[q].born \in 1..births /\ Lineage(q) /\ tab[q].parent # q
    BY <1>1 DEF Table, Lineage, TreeTypeOK
  <1>7. ASSUME NEW q \in Pids, Live(q)'
        PROVE  (tab[q].born \in 1..births /\ Lineage(q))'
    <2>1. /\ Live(q) /\ tab'[q].born = tab[q].born
          /\ tab'[q].parent = IF tab[q].parent = p THEN heir ELSE tab[q].parent
      BY <1>2, <1>7, <1>1 DEF Live, Free, Running
    <2>2. CASE tab[q].parent = p
      BY <1>1, <1>6, <2>1, <2>2 DEF Lineage, Mine
    <2>3. CASE tab[q].parent \notin Pids
      BY <1>1, <1>6, <2>1, <2>3 DEF Lineage, Mine
    <2>4. CASE tab[q].parent \in Pids \ {p}
      <3> DEFINE r == tab[q].parent
      <3>1. Running(r) /\ tab[r].born < tab[q].born /\ (Mine(r) <=> Mine(q))
        BY <1>6, <2>1, <2>4 DEF Lineage
      <3>2. tab'[r].st = "run" /\ tab'[r].born = tab[r].born
        BY <1>2, <1>3, <2>4, <3>1 DEF Running, Free
      <3> QED
        BY <1>1, <1>6, <2>1, <2>4, <3>1, <3>2 DEF Lineage, Mine, Running
    <2> QED
      BY <2>2, <2>3, <2>4
  <1>8. ASSUME NEW q \in Pids, NEW r \in Pids, Live(q)', Live(r)', tab'[q].born = tab'[r].born
        PROVE  q = r
    BY <1>1, <1>2, <1>8 DEF Table, Live, Free, Running
  <1>9. Evolves
    <2> SUFFICES ASSUME NEW q \in Pids, Live(q)'
                 PROVE  /\ Live(q) /\ tab'[q].born = tab[q].born
                        /\ tab'[q].parent \in {tab[q].parent, Wrapper, InitPid}
                        /\ tab'[q].parent \in Pids =>
                              tab'[tab'[q].parent].born = tab[tab'[q].parent].born
      BY <1>1 DEF Evolves
    <2>1. /\ Live(q) /\ tab'[q].born = tab[q].born
          /\ tab'[q].parent = IF tab[q].parent = p THEN heir ELSE tab[q].parent
      BY <1>2, <1>1 DEF Live, Free, Running
    <2>2. ASSUME tab'[q].parent \in Pids PROVE tab'[tab'[q].parent].born = tab[tab'[q].parent].born
      <3>1. tab'[q].parent = tab[q].parent /\ tab[q].parent # p /\ Running(tab[q].parent)
        BY <1>6, <2>1, <2>2 DEF Lineage
      <3> QED
        BY <1>2, <1>3, <2>2, <3>1 DEF Running, Free
    <2> QED
      BY <2>1, <2>2
  <1>10. \A q \in Pids : Live(q) /\ Mine(q) /\ tab[q].parent = Wrapper
               => /\ Live(q)' /\ tab'[q].parent = Wrapper /\ tab'[q].born = tab[q].born
                  /\ tab'[q].code = IF q = p THEN code ELSE tab[q].code
                  /\ tab'[q].st = IF q = p THEN "zombie" ELSE tab[q].st
    BY <1>2, <1>4 DEF Live
  <1> QED
    BY <1>1, <1>5, <1>7, <1>8, <1>9, <1>10 DEF Table

\* A set of zombies is reaped.
LEMMA FreedDoes ==
  ASSUME TreeTypeOK, Table, NEW Z, \A p \in Z \cap Pids : ~Running(p),
         tab' = [p \in Pids |-> IF p \in Z THEN Free ELSE tab[p]],
         births' = births, mine' = mine
  PROVE  TabType' /\ Table' /\ Evolves /\ \A p \in Pids : Live(p)' <=> Live(p) /\ p \notin Z
  <1>1. /\ tab \in [Pids -> [st : {"none", "run", "zombie"}, parent : Pids \cup {Wrapper, InitPid},
                             born : 0..MaxBirths, code : Codes]]
        /\ births \in Nat /\ mine \subseteq 1..births
    BY DEF TreeTypeOK
  <1>2. TabType'
    BY <1>1 DEF TabType, Free, Codes
  <1>3. \A p \in Pids : Live(p)' <=> Live(p) /\ p \notin Z
    BY <1>1 DEF Live, Free
  <1>4. \A p \in Pids \ Z : tab'[p] = tab[p]
    BY <1>1
  <1>5. ASSUME NEW p \in Pids, Live(p), p \notin Z, tab[p].parent \in Pids
        PROVE  tab[p].parent \notin Z
    BY <1>5 DEF Table, Lineage
  <1>6. ASSUME NEW p \in Pids, Live(p)' PROVE (tab[p].born \in 1..births /\ Lineage(p))'
    BY <1>3, <1>4, <1>5, <1>6 DEF Table, Lineage, Running, Mine
  <1>7. ASSUME NEW q \in Pids, NEW r \in Pids, Live(q)', Live(r)', tab'[q].born = tab'[r].born
        PROVE  q = r
    BY <1>3, <1>4, <1>7 DEF Table
  <1>8. Evolves
    BY <1>1, <1>3, <1>4, <1>5 DEF Evolves
  <1> QED
    BY <1>2, <1>3, <1>6, <1>7, <1>8 DEF Table

\* A record stays as old.
LEMMA OutdatedStays ==
  ASSUME Evolves, TreeTypeOK, NEW r, r.born \in Nat, Outdated(r)
  PROVE  Outdated(r)'
  BY DEF Outdated, Evolves, Live, TreeTypeOK

\* What holds of a process whose parent is no subreaper held before.
LEMMA HoldsHeld ==
  ASSUME Evolves, NEW r \in Record, r.born <= births, r.parent \in Pids, Holds(r)'
  PROVE  Holds(r) /\ tab'[r.parent].born = tab[r.parent].born
  BY DEF Evolves, Holds, Record

\* The records survive a step of the table.
LEMMA RecordsStay ==
  ASSUME TreeTypeOK, Records, Evolves, UNCHANGED <<snap, targets, goal>>
  PROVE  Records'
  <1>1. \A r \in snap \cup targets \cup {goal} : r.born \in Nat
    BY DEF TreeTypeOK, Record, NoGoal
  <1> QED
    BY <1>1, OutdatedStays DEF Records

\* So do the descriptor and the chain of parents.
LEMMA ChainStays ==
  ASSUME TreeTypeOK, Opened, Linked, Evolves, UNCHANGED <<at, check>>
  PROVE  Opened' /\ Linked'
  <1> SUFFICES ASSUME at = "climb" PROVE Opened' /\ Linked'
    BY DEF Opened, Linked, check
  <1>0. UNCHANGED <<at, goal, fd, climb, chain>> /\ mine \subseteq mine' /\ births <= births'
        /\ births \in Nat /\ births' \in Nat /\ fd \in 0..births
    BY DEF check, Evolves, TreeTypeOK
  <1>1. chain \in Seq(Record) /\ Len(chain) \in Nat /\ \A i \in 1..Len(chain) : chain[i] \in Record
    BY DEF TreeTypeOK
  <1>2. Opened'
    <2>1. goal \in Record /\ goal.pid \in Pids /\ goal.born <= fd
      BY DEF Opened, Record
    <2>2. Live(goal.pid)' => fd <= tab'[goal.pid].born
      BY <1>0, <2>1 DEF Opened, Evolves
    <2> QED
      BY <1>0, <2>1, <2>2 DEF Opened
  <1>3. ASSUME NEW i \in 1..Len(chain)
        PROVE  chain[i].born \in Nat /\ chain[i].born <= births' /\ chain[i].parent # InitPid
               /\ (chain[i].parent = Wrapper => chain[i].born \in mine')
    BY <1>0, <1>1 DEF Linked, Record
  <1>4. ASSUME NEW i \in 1..(Len(chain) - 1)
        PROVE  /\ chain[i].parent = chain[i + 1].pid
               /\ Holds(chain[i])' => tab'[chain[i].parent].born = chain[i + 1].born
    <2>1. /\ chain[i] \in Record /\ chain[i + 1] \in Record /\ chain[i].parent \in Pids
          /\ chain[i].parent = chain[i + 1].pid /\ chain[i].born <= births
          /\ Holds(chain[i]) => tab[chain[i].parent].born = chain[i + 1].born
      <3>1. i \in 1..Len(chain) /\ i + 1 \in 1..Len(chain)
        BY <1>1
      <3>2. chain[i] \in Record /\ chain[i + 1] \in Record
        BY <1>1, <3>1
      <3>3. chain[i].parent = chain[i + 1].pid /\ chain[i].born <= births
            /\ (Holds(chain[i]) => tab[chain[i].parent].born = chain[i + 1].born)
        BY <3>1 DEF Linked
      <3> QED
        BY <3>2, <3>3 DEF Record
    <2>2. ASSUME Holds(chain[i])' PROVE tab'[chain[i].parent].born = chain[i + 1].born
      <3>1. PICK r0 \in Record : r0 = chain[i]
        BY <2>1
      <3>2. Holds(r0)'
        BY <1>0, <2>2, <3>1 DEF Holds
      <3>3. Holds(r0) /\ tab'[r0.parent].born = tab[r0.parent].born
        BY <2>1, <3>1, <3>2, HoldsHeld
      <3> QED
        BY <2>1, <3>1, <3>3 DEF Holds
    <2> QED
      BY <2>1, <2>2
  <1>5. ASSUME climb = Wrapper, chain # <<>>, Holds(chain[Len(chain)])'
        PROVE  chain[Len(chain)].born \in mine'
    <2>1. Len(chain) \in 1..Len(chain)
      BY <1>1, <1>5
    <2>2. PICK r0 \in Record : r0 = chain[Len(chain)]
      BY <1>1, <2>1
    <2>3. CASE r0.parent = Wrapper
      BY <1>3, <2>1, <2>2, <2>3
    <2>4. CASE r0.parent \in Pids
      <3>1. Holds(r0)' /\ r0.born <= births
        BY <1>0, <1>5, <2>1, <2>2 DEF Holds, Linked
      <3>2. Holds(r0)
        BY <2>4, <3>1, HoldsHeld
      <3> QED
        BY <1>0, <1>5, <2>2, <3>2 DEF Linked
    <2>5. r0.parent # InitPid
      BY <2>1, <2>2 DEF Linked
    <2> QED
      BY <2>3, <2>4, <2>5 DEF Record
  <1>6. Linked'
    BY <1>0, <1>3, <1>4, <1>5 DEF Linked
  <1> QED
    BY <1>2, <1>6

-----------------------------------------------------------------------------
(* Steps of the system around the wrapper.                                  *)

\* What is left, or was read, of the wrapper's children stays visible.
LEMMA VisibleStays ==
  ASSUME Visible, UNCHANGED <<at, todo, snap>>, todo \subseteq Pids, NoneLeft => NoneLeft',
         \A q \in Pids : Live(q) /\ tab[q].parent = Wrapper => Live(q)' /\ tab'[q].parent = Wrapper
  PROVE  Visible'
  BY DEF Visible

\* A new process, inside of the tree or outside, leaves the rest alone.
LEMMA BornKeeps ==
  ASSUME TreeInv, UNCHANGED <<truth, locals>>, NEW p \in Pids, NEW par \in Pids \cup {InitPid},
         Born(p, par), mine' \in {mine, mine \cup {births + 1}},
         \/ mine' = mine /\ reborn' = reborn
         \/ mine # {} /\ ~NoneLeft /\ reborn' = (reborn \/ p = child)
  PROVE  /\ NoneLeft => NoneLeft'
         /\ \A q \in Pids : Live(q) /\ tab[q].parent = Wrapper => Live(q)' /\ tab'[q].parent = Wrapper
         /\ Status' /\ StatusIsKept'
  <1>1. /\ births \in Nat /\ mine \subseteq 1..births /\ births' = births + 1
        /\ births + 1 \notin mine
    BY DEF TreeInv, TreeTypeOK, Born
  <1>2. /\ ~Live(p) /\ tab'[p].born = births + 1 /\ Live(p)'
        /\ \A q \in Pids \ {p} : tab'[q] = tab[q]
        /\ \A q \in Pids : Live(q) => tab[q].born \in 1..births
    BY DEF TreeInv, TreeTypeOK, Born, Live, Table
  <1>3. NoneLeft => NoneLeft'
    BY <1>1, <1>2 DEF NoneLeft, Mine, Live
  <1>4. \A q \in Pids : Live(q) /\ tab[q].parent = Wrapper => Live(q)' /\ tab'[q].parent = Wrapper
    BY <1>2 DEF Live
  <1>5. \A b \in 1..births : Eldest(b)' <=> Eldest(b)
    BY <1>1 DEF Eldest
  <1>6. ASSUME mine # {}, NEW b, b = births + 1 PROVE ~Eldest(b)'
    <2>1. PICK m : m \in mine
      BY <1>6
    <2>2. m \in 1..births /\ m \in mine'
      BY <1>1, <2>1
    <2>3. ~(b <= m)
      BY <1>1, <1>6, <2>2
    <2> QED
      BY <2>2, <2>3 DEF Eldest
  <1>7. UNCHANGED <<truth, child, rc, seen, at, result>> /\ (reborn => reborn')
    <2>1. UNCHANGED <<truth, child, rc, seen, at, result>>
      BY DEF locals, life
    <2>2. reborn => reborn'
      BY Zenon
    <2> QED
      BY <2>1, <2>2
  <1>8. Status'
    <2>1. /\ child = Wrapper => mine' = {} /\ rc = "none" /\ seen = "none"
          /\ child = Wrapper => (at = "start" \/ result = "nonzero")
          /\ at = "start" => child = Wrapper
          /\ child \in Pids => mine' # {}
      BY <1>1 DEF TreeInv, Status
    <2>2. ASSUME child \in Pids, rc = "none"
          PROVE  /\ Live(child)' /\ tab'[child].parent = Wrapper /\ Eldest(tab[child].born)'
                 /\ ~Running(child)' => truth = tab'[child].code
      BY <1>2, <1>5, <1>7, <2>2 DEF TreeInv, Status, Running, Live
    <2>3. ASSUME rc # "none"
          PROVE  /\ \A q \in Pids : Live(q)' => ~Eldest(tab[q].born)'
                 /\ ~reborn' => truth = rc /\ ~(Live(child) /\ Mine(child))'
      <3>1. mine # {} /\ child \in Pids
        BY <2>3 DEF TreeInv, Status, TreeTypeOK
      <3>2. \A q \in Pids : Live(q)' => ~Eldest(tab[q].born)'
        <4> SUFFICES ASSUME NEW q \in Pids, Live(q)' PROVE ~Eldest(tab[q].born)'
          OBVIOUS
        <4>1. CASE q = p
          BY <1>2, <1>6, <3>1, <4>1
        <4>2. CASE q # p
          <5>1. tab'[q] = tab[q] /\ Live(q) /\ tab[q].born \in 1..births
            BY <1>2, <4>2 DEF Live
          <5>2. ~Eldest(tab[q].born)
            BY <2>3, <5>1 DEF TreeInv, Status
          <5> QED
            BY <1>5, <5>1, <5>2 DEF Eldest
        <4> QED
          BY <4>1, <4>2
      <3>3. ASSUME ~reborn' PROVE ~reborn /\ ~(Live(child) /\ Mine(child))'
        <4>1. ~reborn /\ ~(Live(child) /\ Mine(child))
          BY <1>7, <2>3, <3>3, Zenon DEF TreeInv, Status
        <4>2. CASE child = p
          <5>1. mine' = mine
            BY <3>3, <4>2
          <5> QED
            BY <1>1, <1>2, <1>7, <4>1, <4>2, <5>1 DEF Mine
        <4>3. CASE child # p
          <5>1. tab'[child] = tab[child] /\ child' = child
            BY <1>2, <1>7, <3>1, <4>3
          <5>2. Live(child) => tab[child].born \in 1..births
            BY <1>2, <3>1
          <5> QED
            BY <1>1, <4>1, <5>1, <5>2 DEF Live, Mine
        <4> QED
          BY <4>1, <4>2, <4>3
      <3> QED
        BY <2>3, <3>2, <3>3 DEF TreeInv, Status
    <2>4. seen # "none" => rc # "none" /\ (~reborn' => seen = truth)
      BY <1>7 DEF TreeInv, Status
    <2> QED
      BY <1>7, <2>1, <2>2, <2>3, <2>4 DEF Status
  <1>9. StatusIsKept'
    BY <1>7 DEF TreeInv, StatusIsKept
  <1> QED
    BY <1>3, <1>4, <1>8, <1>9

\* An exit changes the status that is reported only if it is the command's.
LEMMA ExitKeeps ==
  ASSUME TreeInv, NEW p \in Pids, NEW code \in Codes, Exit(p, code)
  PROVE  /\ NoneLeft => NoneLeft'
         /\ \A q \in Pids : Live(q) /\ tab[q].parent = Wrapper => Live(q)' /\ tab'[q].parent = Wrapper
         /\ Status' /\ StatusIsKept'
  <1>1. /\ births' = births /\ mine' = mine
        /\ \A q \in Pids : Live(q)' => Live(q) /\ tab'[q].born = tab[q].born
        /\ \A q \in Pids : Live(q) /\ Mine(q) /\ tab[q].parent = Wrapper
               => /\ Live(q)' /\ tab'[q].parent = Wrapper /\ tab'[q].born = tab[q].born
                  /\ tab'[q].code = IF q = p THEN code ELSE tab[q].code
                  /\ tab'[q].st = IF q = p THEN "zombie" ELSE tab[q].st
    BY ExitDoes DEF TreeInv, Evolves
  <1>2. Live(p) /\ UNCHANGED <<reborn, child, rc, seen, at, result>>
    BY DEF Exit, Running, Live, locals, life
  <1>3. truth' = truth \/ (truth' = code /\ Eldest(tab[p].born))
    BY DEF Exit, Eldest, Mine
  <1>4. \A q \in Pids : Live(q) /\ tab[q].parent = Wrapper => Mine(q)
    BY DEF TreeInv, Table, Lineage
  <1>5. NoneLeft => NoneLeft'
    BY <1>1 DEF NoneLeft, Mine
  <1>6. rc # "none" => truth' = truth
    BY <1>2, <1>3 DEF TreeInv, Status
  <1>7. Status'
    <2>1. /\ child = Wrapper => mine' = {} /\ rc = "none" /\ seen = "none"
          /\ child = Wrapper => (at = "start" \/ result = "nonzero")
          /\ at = "start" => child = Wrapper
          /\ child \in Pids => mine' # {}
      BY <1>1 DEF TreeInv, Status
    <2>2. ASSUME child \in Pids, rc = "none"
          PROVE  /\ Live(child)' /\ tab'[child].parent = Wrapper /\ Eldest(tab[child].born)'
                 /\ ~Running(child)' => truth' = tab'[child].code
      <3>1. /\ Live(child) /\ tab[child].parent = Wrapper /\ Eldest(tab[child].born)
            /\ ~Running(child) => truth = tab[child].code
        BY <2>2 DEF TreeInv, Status
      <3>2. /\ Live(child)' /\ tab'[child].parent = Wrapper /\ tab'[child].born = tab[child].born
            /\ tab'[child].code = IF child = p THEN code ELSE tab[child].code
            /\ tab'[child].st = IF child = p THEN "zombie" ELSE tab[child].st
        <4>1. Live(child)' /\ tab'[child].parent = Wrapper
          BY <1>1, <1>2, <1>4, <2>2, <3>1 DEF Live
        <4> QED
          BY <1>1, <1>4, <2>2, <3>1, <4>1
      <3>3. Eldest(tab[child].born)'
        BY <1>1, <1>2, <3>1, <3>2 DEF Eldest
      <3>4. CASE child = p
        <4>1. truth' = code
          BY <3>1, <3>4 DEF Exit, Eldest, Mine
        <4> QED
          BY <3>2, <3>3, <3>4, <4>1
      <3>5. CASE child # p
        <4>1. ~Eldest(tab[p].born)
          <5>1. tab[p].born # tab[child].born
            BY <1>2, <2>2, <3>1, <3>5 DEF TreeInv, Table
          <5>2. tab[p].born \in Nat /\ tab[child].born \in Nat
            BY <2>2 DEF TreeInv, TreeTypeOK
          <5> QED
            BY <3>1, <5>1, <5>2 DEF Eldest
        <4>2. truth' = truth
          BY <1>3, <4>1
        <4> QED
          BY <1>2, <3>1, <3>2, <3>3, <3>5, <4>2 DEF Running
      <3> QED
        BY <3>4, <3>5
    <2>3. ASSUME rc # "none"
          PROVE  /\ \A q \in Pids : Live(q)' => ~Eldest(tab[q].born)'
                 /\ ~reborn => truth' = rc /\ ~(Live(child) /\ Mine(child))'
      <3>1. child \in Pids
        BY <2>3 DEF TreeInv, Status, TreeTypeOK
      <3>2. \A q \in Pids : Live(q)' => ~Eldest(tab[q].born)'
        BY <1>1, <2>3 DEF TreeInv, Status, Eldest
      <3>3. ASSUME ~reborn PROVE truth' = rc /\ ~(Live(child) /\ Mine(child))'
        <4>1. truth = rc /\ ~(Live(child) /\ Mine(child))
          BY <2>3, <3>3, Zenon DEF TreeInv, Status
        <4>2. Live(child)' => Live(child) /\ (Mine(child)' <=> Mine(child))
          BY <1>1, <1>2, <3>1 DEF Mine, Live
        <4> QED
          BY <1>6, <2>3, <4>1, <4>2
      <3> QED
        BY <3>2, <3>3
    <2>4. seen # "none" => rc # "none" /\ (~reborn => seen = truth')
      BY <1>6 DEF TreeInv, Status
    <2>5. UNCHANGED <<reborn, child, rc, seen, at, result>>
      BY <1>2
    <2> QED
      BY <2>1, <2>2, <2>3, <2>4, <2>5 DEF Status
  <1>8. StatusIsKept'
    <2> SUFFICES ASSUME result = "zero", ~reborn PROVE truth' = "zero"
      BY <1>2 DEF StatusIsKept
    <2>1. ~Eldest(tab[p].born) /\ truth = "zero"
      BY <1>2 DEF TreeInv, SuccessLeavesNothing, StatusIsKept, Eldest, Live, Mine
    <2> QED
      BY <1>3, <2>1
  <1> QED
    BY <1>1, <1>4, <1>5, <1>7, <1>8

\* Nor does a parent that waits for a process of its own.
LEMMA ParentReapsKeeps ==
  ASSUME TreeInv, NEW p \in Pids, ParentReaps(p)
  PROVE  /\ TabType' /\ Table' /\ Evolves /\ births' = births /\ mine' = mine
         /\ NoneLeft => NoneLeft'
         /\ \A q \in Pids : Live(q) /\ tab[q].parent = Wrapper => Live(q)' /\ tab'[q].parent = Wrapper
         /\ Status' /\ StatusIsKept'
  <1>1. /\ births' = births /\ mine' = mine /\ UNCHANGED <<truth, reborn, child, rc, seen, at, result>>
        /\ ~Running(p) /\ tab[p].parent \in Pids
    BY DEF ParentReaps, Running, locals, life
  <1>2. tab' = [q \in Pids |-> IF q \in {p} THEN Free ELSE tab[q]]
    BY DEF ParentReaps, TreeInv, TreeTypeOK
  <1>3. TabType' /\ Table' /\ Evolves /\ \A q \in Pids : Live(q)' <=> Live(q) /\ q \notin {p}
    BY <1>1, <1>2, FreedDoes, Zenon DEF TreeInv
  <1>4. \A q \in Pids \ {p} : tab'[q] = tab[q]
    BY <1>2
  <1>5. NoneLeft => NoneLeft'
    BY <1>1, <1>3, <1>4 DEF NoneLeft, Mine
  <1>6. \A q \in Pids : Live(q) /\ tab[q].parent = Wrapper => Live(q)' /\ tab'[q] = tab[q]
    BY <1>1, <1>3, <1>4
  <1>7. ASSUME rc # "none"
        PROVE  /\ \A q \in Pids : Live(q)' => ~Eldest(tab[q].born)'
               /\ ~reborn => truth = rc /\ ~(Live(child) /\ Mine(child))'
    <2>1. child \in Pids
      BY <1>7 DEF TreeInv, Status, TreeTypeOK
    <2>2. \A q \in Pids : Live(q)' => ~Eldest(tab[q].born)'
      BY <1>1, <1>3, <1>4, <1>7 DEF TreeInv, Status, Eldest
    <2>3. (Live(child) /\ Mine(child))' => Live(child) /\ Mine(child)
      <3>1. CASE child = p
        BY <1>1, <1>2, <3>1 DEF Live, Free
      <3>2. CASE child # p
        BY <1>1, <1>4, <2>1, <3>2 DEF Live, Mine
      <3> QED
        BY <3>1, <3>2
    <2> QED
      BY <1>7, <2>2, <2>3 DEF TreeInv, Status
  <1>8. ASSUME child \in Pids, rc = "none"
        PROVE  /\ Live(child)' /\ tab'[child].parent = Wrapper /\ Eldest(tab[child].born)'
               /\ ~Running(child)' => truth = tab'[child].code
    <2>1. /\ Live(child) /\ tab[child].parent = Wrapper /\ Eldest(tab[child].born)
          /\ ~Running(child) => truth = tab[child].code
      BY <1>8 DEF TreeInv, Status
    <2>2. tab'[child] = tab[child]
      BY <1>6, <1>8, <2>1
    <2> QED
      BY <1>1, <2>1, <2>2 DEF Live, Running, Eldest
  <1>9. Status'
    <2>1. /\ child = Wrapper => mine' = {} /\ rc = "none" /\ seen = "none"
          /\ child = Wrapper => (at = "start" \/ result = "nonzero")
          /\ at = "start" => child = Wrapper
          /\ child \in Pids => mine' # {}
          /\ seen # "none" => rc # "none" /\ (~reborn => seen = truth)
      BY <1>1 DEF TreeInv, Status
    <2> QED
      BY <1>1, <1>7, <1>8, <2>1 DEF Status
  <1>10. StatusIsKept'
    BY <1>1 DEF TreeInv, StatusIsKept
  <1> QED
    BY <1>1, <1>3, <1>5, <1>6, <1>9, <1>10

\* The wrapper reaps: the command's status is kept when it is among the zombies.
LEMMA ReapKeeps ==
  ASSUME TreeInv, reap, at \in {"watch", "reap", "scan"}, at' \in {"watch", "reap", "scan"},
         UNCHANGED <<child, result>>, seen' = seen \/ seen' = rc'
  PROVE  /\ TabType' /\ Table' /\ Evolves /\ births' = births /\ mine' = mine
         /\ rc' \in Codes \cup {"none"} /\ Status'
  <1>1. UNCHANGED <<births, mine, truth, reborn, child, result>> /\ child \in Pids /\ mine # {}
    <2>1. UNCHANGED <<births, mine, truth, reborn, child, result>>
      BY DEF reap
    <2>2. child \in Pids
      BY DEF TreeInv, TreeTypeOK, Status
    <2> QED
      BY <2>1, <2>2 DEF TreeInv, Status
  <1>2. tab' = [p \in Pids |-> IF p \in Zombies THEN Free ELSE tab[p]]
    BY DEF reap
  <1>3. TabType' /\ Table' /\ Evolves /\ \A p \in Pids : Live(p)' <=> Live(p) /\ p \notin Zombies
    <2>1. \A p \in Zombies \cap Pids : ~Running(p)
      BY DEF Zombies, Running
    <2> QED
      BY <1>1, <1>2, <2>1, FreedDoes, Zenon DEF TreeInv
  <1>4. \A p \in Pids \ Zombies : tab'[p] = tab[p]
    BY <1>2
  <1>5. /\ child \in Zombies => rc' = tab[child].code /\ rc' \in Codes /\ rc' # "none"
        /\ child \notin Zombies => rc' = rc
        /\ rc' \in Codes \cup {"none"}
    BY <1>1 DEF reap, TreeInv, TreeTypeOK, Codes
  <1>6. child \in Zombies => Live(child) /\ Mine(child) /\ ~Running(child)
    BY DEF Zombies, Live, Running, TreeInv, Table, Lineage
  <1>7. ASSUME rc' = "none"
        PROVE  /\ Live(child)' /\ tab'[child].parent = Wrapper /\ Eldest(tab[child].born)'
               /\ ~Running(child)' => truth = tab'[child].code
    <2>1. child \notin Zombies /\ rc = "none"
      BY <1>5, <1>7
    <2>2. /\ Live(child) /\ tab[child].parent = Wrapper /\ Eldest(tab[child].born)
          /\ ~Running(child) => truth = tab[child].code
      BY <1>1, <2>1 DEF TreeInv, Status
    <2>3. tab'[child] = tab[child]
      BY <1>1, <1>4, <2>1
    <2> QED
      BY <1>1, <2>2, <2>3 DEF Live, Running, Eldest
  <1>8. ASSUME rc' # "none"
        PROVE  \A q \in Pids : Live(q)' => ~Eldest(tab[q].born)'
    <2> SUFFICES ASSUME NEW q \in Pids, Live(q)' PROVE ~Eldest(tab[q].born)
      BY <1>1, <1>3, <1>4 DEF Eldest
    <2>1. Live(q) /\ q \notin Zombies
      BY <1>3
    <2>2. CASE rc # "none"
      BY <2>1, <2>2 DEF TreeInv, Status
    <2>3. CASE rc = "none"
      <3>1. child \in Zombies
        BY <1>5, <1>8, <2>3
      <3>2. Live(child) /\ Eldest(tab[child].born)
        BY <1>1, <2>3 DEF TreeInv, Status
      <3>3. tab[q].born # tab[child].born
        BY <1>1, <2>1, <3>1, <3>2 DEF TreeInv, Table
      <3>4. tab[q].born \in Nat /\ tab[child].born \in Nat
        BY <1>1 DEF TreeInv, TreeTypeOK
      <3> QED
        BY <3>2, <3>3, <3>4 DEF Eldest
    <2> QED
      BY <2>2, <2>3
  <1>9. ASSUME rc' # "none", ~reborn
        PROVE  truth = rc' /\ ~(Live(child) /\ Mine(child))'
    <2>1. CASE child \in Zombies
      <3>1. rc = "none"
        BY <1>6, <1>9, <2>1, Zenon DEF TreeInv, Status
      <3>2. truth = tab[child].code
        BY <1>1, <1>6, <2>1, <3>1 DEF TreeInv, Status
      <3>3. ~Live(child)'
        BY <1>1, <1>2, <2>1 DEF Live, Free
      <3> QED
        BY <1>5, <2>1, <3>2, <3>3
    <2>2. CASE child \notin Zombies
      <3>1. truth = rc /\ rc' = rc /\ ~(Live(child) /\ Mine(child))
        BY <1>5, <1>9, <2>2, Zenon DEF TreeInv, Status
      <3>2. tab'[child] = tab[child]
        BY <1>1, <1>4, <2>2
      <3> QED
        BY <1>1, <3>1, <3>2 DEF Live, Mine
    <2> QED
      BY <2>1, <2>2
  <1>10. seen' # "none" => rc' # "none" /\ (~reborn => seen' = truth)
    <2>1. CASE seen' = rc'
      BY <1>9, <2>1
    <2>2. CASE seen' = seen
      BY <1>5, <1>9, <2>2 DEF TreeInv, Status
    <2> QED
      BY <2>1, <2>2
  <1>11. Status'
    <2>1. child # Wrapper /\ at' # "start"
      BY <1>1
    <2> QED
      BY <1>1, <1>7, <1>8, <1>9, <1>10, <2>1 DEF Status
  <1> QED
    BY <1>1, <1>3, <1>5, <1>11

\* What the system around the wrapper does keeps the invariant.
LEMMA SystemKeeps ==
  ASSUME TreeInv, System
  PROVE  TreeInv'
  <1>0. UNCHANGED locals
    BY DEF System, Fork, Foreign, Exit, ParentReaps
  <1>1. UNCHANGED <<stray, stopped, child, seen, result, rc, at, phase, again, targets, sent, todo, snap,
                    goal, fd, climb, chain>>
    BY <1>0 DEF locals, life, loop, scan, check
  <1> DEFINE Kept ==
        /\ TabType' /\ Table' /\ Evolves /\ births' \in 0..MaxBirths /\ mine' \subseteq 1..births'
        /\ NoneLeft => NoneLeft'
        /\ \A q \in Pids : Live(q) /\ tab[q].parent = Wrapper => Live(q)' /\ tab'[q].parent = Wrapper
        /\ Status' /\ StatusIsKept' /\ truth' \in Codes \cup {"none"}
  <1>2. Kept
    <2>0. births \in 0..MaxBirths /\ mine \subseteq 1..births /\ truth \in Codes \cup {"none"}
      BY DEF TreeInv, TreeTypeOK
    <2>1. ASSUME NEW p \in Pids, NEW q \in Pids, Fork(p, q)
          PROVE  Kept
      <3>1. mine # {} /\ ~NoneLeft /\ Running(q) /\ Mine(q) /\ Born(p, q)
            /\ mine' = mine \cup {births + 1} /\ truth' = truth
        BY <2>1 DEF Fork, NoneLeft, Live, Mine, Running
      <3>2. reborn' = (reborn \/ p = child)
        BY <2>1, Zenon DEF Fork
      <3>3. /\ TabType' /\ Table' /\ Evolves /\ births' \in 0..MaxBirths /\ mine' \subseteq 1..births'
        BY <3>1, BornDoes DEF TreeInv
      <3>4. /\ NoneLeft => NoneLeft'
            /\ \A r \in Pids : Live(r) /\ tab[r].parent = Wrapper => Live(r)' /\ tab'[r].parent = Wrapper
            /\ Status' /\ StatusIsKept'
        BY <1>0, <3>1, <3>2, BornKeeps, Zenon
      <3> QED
        BY <2>0, <3>1, <3>3, <3>4
    <2>2. ASSUME NEW p \in Pids, NEW par \in Pids \cup {InitPid}, Foreign(p, par)
          PROVE  Kept
      <3>1. /\ mine' = mine /\ truth' = truth /\ reborn' = reborn /\ Born(p, par)
            /\ par = InitPid \/ (par \in Pids /\ Running(par) /\ ~Mine(par))
        BY <2>2 DEF Foreign
      <3>2. births + 1 \notin mine'
        BY <2>0, <3>1
      <3>3. /\ TabType' /\ Table' /\ Evolves /\ births' \in 0..MaxBirths /\ mine' \subseteq 1..births'
        BY <3>1, <3>2, BornDoes DEF TreeInv
      <3>4. /\ NoneLeft => NoneLeft'
            /\ \A r \in Pids : Live(r) /\ tab[r].parent = Wrapper => Live(r)' /\ tab'[r].parent = Wrapper
            /\ Status' /\ StatusIsKept'
        BY <1>0, <3>1, BornKeeps, Zenon
      <3> QED
        BY <2>0, <3>1, <3>3, <3>4
    <2>3. ASSUME NEW p \in Pids, NEW c \in Codes, Exit(p, c)
          PROVE  Kept
      <3>1. TabType' /\ Table' /\ Evolves /\ births' = births /\ mine' = mine
        BY <2>3, ExitDoes DEF TreeInv
      <3>2. /\ NoneLeft => NoneLeft'
            /\ \A r \in Pids : Live(r) /\ tab[r].parent = Wrapper => Live(r)' /\ tab'[r].parent = Wrapper
            /\ Status' /\ StatusIsKept'
        BY <2>3, ExitKeeps
      <3>3. truth' \in {c, truth}
        BY <2>3 DEF Exit
      <3> QED
        BY <2>0, <3>1, <3>2, <3>3
    <2>4. ASSUME NEW p \in Pids, ParentReaps(p)
          PROVE  Kept
      <3>1. truth' = truth
        BY <2>4 DEF ParentReaps
      <3> QED
        BY <2>0, <2>4, <3>1, ParentReapsKeeps
    <2> QED
      BY <2>1, <2>2, <2>3, <2>4 DEF System
  <1>3. reborn' \in BOOLEAN
    <2>1. reborn \in BOOLEAN
      BY DEF TreeInv, TreeTypeOK
    <2> QED
      BY <2>1, Zenon DEF System, Fork, Foreign, Exit, ParentReaps
  <1>4. TreeTypeOK'
    <2>1. births <= births' /\ births \in Nat /\ births' \in Nat
      BY <1>2 DEF Evolves
    <2>2. stray' \subseteq 1..births' /\ sent' \subseteq 1..births' /\ fd' \in 0..births'
      BY <1>1, <2>1 DEF TreeInv, TreeTypeOK
    <2> QED
      BY <1>1, <1>2, <1>3, <2>2 DEF TreeInv, TreeTypeOK, TabType
  <1>5. Visible'
    BY <1>1, <1>2, VisibleStays DEF TreeInv, TreeTypeOK
  <1>6. Records'
    BY <1>1, <1>2, RecordsStay DEF TreeInv
  <1>7. Opened' /\ Linked'
    BY <1>1, <1>2, ChainStays DEF TreeInv, check
  <1>8. Signalling' /\ SignalsStayInside' /\ SuccessLeavesNothing'
    BY <1>1, <1>2 DEF TreeInv, Signalling, SignalsStayInside, SuccessLeavesNothing, NoneLeft, Live
  <1> QED
    BY <1>2, <1>4, <1>5, <1>6, <1>7, <1>8 DEF TreeInv

-----------------------------------------------------------------------------
(* Steps of the wrapper.                                                    *)

\* A step that leaves the table alone keeps what is known of it and of the records.
LEMMA SameTable ==
  ASSUME TreeInv, UNCHANGED table
  PROVE  /\ TabType' /\ Table' /\ Evolves /\ births' \in 0..MaxBirths /\ mine' \subseteq 1..births'
         /\ truth' \in Codes \cup {"none"} /\ reborn' \in BOOLEAN
         /\ \A r : Outdated(r)' <=> Outdated(r)
         /\ NoneLeft' <=> NoneLeft
  <1>1. UNCHANGED <<tab, births, mine, truth, reborn>>
    BY DEF table
  <1>2. TreeTypeOK /\ Table
    BY DEF TreeInv
  <1>3. TabType' /\ Evolves
    BY <1>1, <1>2 DEF TreeTypeOK, TabType, Evolves, Live
  <1>4. Table' /\ (NoneLeft' <=> NoneLeft) /\ \A r : Outdated(r)' <=> Outdated(r)
    BY <1>1, <1>2 DEF Table, Lineage, Live, Running, Mine, NoneLeft, Outdated
  <1> QED
    BY <1>1, <1>2, <1>3, <1>4 DEF TreeTypeOK

\* Before the cleanup: a stop signal, a failed start, the start, the end of the watch.
LEMMA StartKeeps ==
  ASSUME TreeInv, Stop \/ StartFails \/ (\E p \in Pids : Popen(p)) \/ WatchStops
  PROVE  TreeInv'
  <1>1. CASE Stop
    <2>1. UNCHANGED <<tab, births, mine, truth, reborn, stray, child, seen, result, rc, at, phase, again,
                      targets, sent, todo, snap, goal, fd, climb, chain>> /\ at \in {"start", "watch"}
      BY <1>1 DEF Stop, table, loop, scan, check
    <2>2. stopped' \in BOOLEAN
      BY <1>1, Zenon DEF Stop
    <2>3. Table' /\ Evolves /\ Records'
      BY <2>1, SameTable DEF TreeInv, table, Records
    <2>4. TreeTypeOK' /\ Visible' /\ Opened' /\ Linked'
      BY <2>1, <2>2 DEF TreeInv, TreeTypeOK, Visible, Opened, Linked
    <2>5. Status' /\ Signalling' /\ SignalsStayInside' /\ SuccessLeavesNothing' /\ StatusIsKept'
      BY <2>1 DEF TreeInv, Status, Signalling, SignalsStayInside, SuccessLeavesNothing,
         StatusIsKept, Eldest, Live,
                  Running, Mine
    <2> QED
      BY <2>3, <2>4, <2>5 DEF TreeInv
  <1>2. CASE StartFails
    <2>1. /\ UNCHANGED <<tab, births, mine, truth, reborn, stray, stopped, child, seen, rc, phase, again,
                         targets, sent, todo, snap, goal, fd, climb, chain>>
          /\ at = "start" /\ at' = "exited" /\ result' = "nonzero"
      BY <1>2 DEF StartFails, exit, table, loop, scan, check
    <2>3. Table' /\ Evolves /\ Records'
      BY <2>1, SameTable DEF TreeInv, table, Records
    <2>4. TreeTypeOK' /\ Visible' /\ Opened' /\ Linked'
      BY <2>1 DEF TreeInv, TreeTypeOK, Visible, Opened, Linked, Codes
    <2>5. Status' /\ Signalling' /\ SignalsStayInside' /\ SuccessLeavesNothing' /\ StatusIsKept'
      BY <2>1 DEF TreeInv, Status, Signalling, SignalsStayInside, SuccessLeavesNothing,
         StatusIsKept, Eldest, Live,
                  Running, Mine
    <2> QED
      BY <2>3, <2>4, <2>5 DEF TreeInv
  <1>3. CASE WatchStops
    <2>1. /\ UNCHANGED <<tab, births, mine, truth, reborn, stray, stopped, child, seen, result, rc, phase,
                         again, targets, sent, todo, snap, goal, fd, climb, chain>>
          /\ at = "watch" /\ at' = "reap"
      BY <1>3 DEF WatchStops, table, life, loop, scan, check
    <2>3. Table' /\ Evolves /\ Records'
      BY <2>1, SameTable DEF TreeInv, table, Records
    <2>4. TreeTypeOK' /\ Visible' /\ Opened' /\ Linked'
      BY <2>1 DEF TreeInv, TreeTypeOK, Visible, Opened, Linked
    <2>5. Status' /\ Signalling' /\ SignalsStayInside' /\ SuccessLeavesNothing' /\ StatusIsKept'
      BY <2>1 DEF TreeInv, TreeTypeOK, Status, Signalling, SignalsStayInside, SuccessLeavesNothing,
         StatusIsKept,
                  Eldest, Live, Running, Mine
    <2> QED
      BY <2>3, <2>4, <2>5 DEF TreeInv
  <1>4. ASSUME NEW p \in Pids, Popen(p) PROVE TreeInv'
    <2>1. /\ UNCHANGED <<truth, reborn, stray, stopped, seen, result, rc, phase,
                         again, targets, sent, todo, snap, goal, fd, climb, chain>>
          /\ at = "start" /\ at' = "watch" /\ child' = p /\ mine' = {births + 1} /\ Born(p, Wrapper)
      BY <1>4 DEF Popen, loop, scan, check
    <2>2. mine = {} /\ rc = "none" /\ seen = "none" /\ result = "none"
      BY <2>1 DEF TreeInv, Status, TreeTypeOK
    <2>3. TabType' /\ births' \in 0..MaxBirths /\ mine' \subseteq 1..births' /\ Table' /\ Evolves
      <3>1. mine' = mine \cup {births + 1} /\ births + 1 \in mine'
        BY <2>1, <2>2
      <3> QED
        BY <2>1, <3>1, BornDoes DEF TreeInv
    <2>4. TreeTypeOK'
      <3>1. births <= births' /\ births \in Nat /\ births' \in Nat
        BY <2>3 DEF Evolves
      <3>2. stray' \subseteq 1..births' /\ sent' \subseteq 1..births' /\ fd' \in 0..births'
        BY <2>1, <3>1 DEF TreeInv, TreeTypeOK
      <3> QED
        BY <2>1, <2>2, <2>3, <3>2 DEF TreeInv, TreeTypeOK, TabType
    <2>5. Records'
      BY <2>1, <2>3, RecordsStay DEF TreeInv
    <2>6. Visible' /\ Opened' /\ Linked'
      BY <2>1 DEF Visible, Opened, Linked
    <2>7. Status'
      <3>1. tab'[p].st = "run" /\ tab'[p].parent = Wrapper /\ tab'[p].born = births + 1
            /\ births \in Nat
        BY <2>1 DEF Born, TreeInv, TreeTypeOK
      <3> QED
        BY <2>1, <2>2, <3>1 DEF Status, Live, Running, Eldest
    <2>8. Signalling' /\ SignalsStayInside' /\ SuccessLeavesNothing' /\ StatusIsKept'
      BY <2>1, <2>2 DEF TreeInv, Signalling, SignalsStayInside, SuccessLeavesNothing, StatusIsKept
    <2> QED
      BY <2>3, <2>4, <2>5, <2>6, <2>7, <2>8 DEF TreeInv
  <1> QED
    BY <1>1, <1>2, <1>3, <1>4

\* The wrapper reaps and looks at /proc: if a descendant is left, so is a child of the
\* wrapper, and its PID is listed.
LEMMA LookKeeps ==
  ASSUME TreeInv, Watch \/ Look \/ LookAgain
  PROVE  TreeInv'
  <1>1. /\ reap /\ UNCHANGED <<stray, stopped, child, result, phase, targets, sent, goal, fd, climb, chain>>
        /\ at \in {"watch", "reap", "scan"} /\ at' \in {"watch", "reap", "scan"}
        /\ seen' = seen \/ seen' = rc'
    BY DEF Watch, Look, LookAgain, look, Scanned, life, loop, check
  <1>2. again' \in BOOLEAN
    <2>1. again \in BOOLEAN
      BY DEF TreeInv, TreeTypeOK
    <2> QED
      BY <2>1, Zenon DEF Watch, Look, LookAgain, loop
  <1>3. \/ UNCHANGED <<todo, snap>> /\ at' # "scan"
        \/ todo' = {p \in Pids : tab'[p].st # "none"} /\ snap' = {}
    BY DEF Watch, Look, LookAgain, look, scan
  <1>4. /\ TabType' /\ Table' /\ Evolves /\ births' = births /\ mine' = mine
        /\ rc' \in Codes \cup {"none"} /\ Status'
    BY <1>1, ReapKeeps
  <1>5. result = "none" /\ truth' = truth /\ reborn' = reborn
    BY <1>1 DEF TreeInv, TreeTypeOK, reap
  <1>6. TreeTypeOK'
    <2>1. todo' \subseteq Pids /\ snap' \subseteq Record
      BY <1>3 DEF TreeInv, TreeTypeOK
    <2>2. seen' \in Codes \cup {"none"}
      BY <1>1, <1>4 DEF TreeInv, TreeTypeOK
    <2>3. truth' \in Codes \cup {"none"} /\ reborn' \in BOOLEAN /\ births' \in 0..MaxBirths
          /\ mine' \subseteq 1..births' /\ stray' \subseteq 1..births' /\ sent' \subseteq 1..births'
          /\ fd' \in 0..births' /\ stopped' \in BOOLEAN
      BY <1>1, <1>4, <1>5 DEF TreeInv, TreeTypeOK
    <2>4. at' \in {"start", "watch", "reap", "scan", "signal", "climb", "exited"}
          /\ result' \in Codes \cup {"none"} /\ (result' # "none" <=> at' = "exited")
      BY <1>1, <1>5
    <2>5. child' \in Pids \cup {Wrapper} /\ climb' \in Pids \cup {Wrapper} /\ phase' \in 1..4
          /\ targets' \subseteq Record /\ goal' \in Record \cup {NoGoal} /\ chain' \in Seq(Record)
      BY <1>1 DEF TreeInv, TreeTypeOK
    <2> QED
      BY <1>2, <1>4, <2>1, <2>2, <2>3, <2>4, <2>5 DEF TreeTypeOK, TabType
  <1>7. Visible'
    <2> SUFFICES ASSUME at' = "scan", ~NoneLeft' PROVE \E q \in todo' : (Live(q) /\ tab[q].parent = Wrapper)'
      BY DEF Visible
    <2>1. ChildLeft'
      BY <1>4, <1>6, RootIsChild, PTL
    <2>2. todo' = {p \in Pids : tab'[p].st # "none"}
      BY <1>3
    <2> QED
      BY <2>1, <2>2 DEF ChildLeft, Live
  <1>8. Records'
    <2>1. \A r \in snap' \cup targets' \cup {goal'} : r.born \in Nat /\ Outdated(r)
      BY <1>1, <1>3 DEF TreeInv, Records, TreeTypeOK, Record, NoGoal
    <2> QED
      BY <1>4, <2>1, OutdatedStays DEF Records, TreeInv
  <1>9. Opened' /\ Linked'
    BY <1>1 DEF Opened, Linked
  <1>10. Signalling' /\ SignalsStayInside' /\ SuccessLeavesNothing' /\ StatusIsKept'
    BY <1>1, <1>5 DEF TreeInv, Signalling, SignalsStayInside, SuccessLeavesNothing, StatusIsKept
  <1> QED
    BY <1>4, <1>6, <1>7, <1>8, <1>9, <1>10 DEF TreeInv

\* The status is known alike when only the wrapper moves on.
LEMMA StatusStays ==
  ASSUME TreeInv, UNCHANGED <<table, child, rc, seen, result>>, at' # "start", at # "start"
  PROVE  Status'
  BY DEF TreeInv, Status, table, Eldest, Live, Running, Mine

\* A PID is read: a child of the wrapper that is left is recorded as such.
LEMMA ReadKeeps ==
  ASSUME TreeInv, NEW p \in Pids, Read(p)
  PROVE  TreeInv'
  <1>1. /\ UNCHANGED table
        /\ UNCHANGED <<tab, births, mine, truth, reborn, stray, stopped, child, seen, result, rc, at, phase,
                       again, targets, sent, goal, fd, climb, chain>>
        /\ at = "scan" /\ todo' = todo \ {p}
        /\ snap' = IF tab[p].st = "none" THEN snap ELSE snap \cup {process(p)}
    BY DEF Read, table, life, loop, check
  <1>2. Table' /\ Evolves /\ (NoneLeft' <=> NoneLeft) /\ \A r : Outdated(r)' <=> Outdated(r)
    BY <1>1, SameTable
  <1>3. Live(p) => process(p) \in Record /\ Outdated(process(p))
    BY DEF TreeInv, TreeTypeOK, Table, process, Record, Outdated, Live
  <1>4. TreeTypeOK'
    BY <1>1, <1>3 DEF TreeInv, TreeTypeOK, Live
  <1>5. Records'
    BY <1>1, <1>2, <1>3 DEF TreeInv, Records, Live
  <1>6. Visible'
    <2>1. CASE NoneLeft
      BY <1>2, <2>1 DEF Visible
    <2>2. ASSUME NEW r \in snap, r.parent = Wrapper PROVE Visible'
      BY <1>1, <2>2 DEF Visible
    <2>3. ASSUME NEW q \in todo, Live(q), tab[q].parent = Wrapper PROVE Visible'
      <3>1. CASE q = p
        <4>1. process(p) \in snap' /\ process(p).parent = Wrapper
          BY <1>1, <2>3, <3>1 DEF process, Live
        <4> QED
          BY <4>1 DEF Visible
      <3>2. CASE q # p
        BY <1>1, <2>3, <3>2 DEF Visible, Live
      <3> QED
        BY <3>1, <3>2
    <2> QED
      BY <1>1, <2>1, <2>2, <2>3 DEF TreeInv, Visible
  <1>7. Opened' /\ Linked' /\ Status'
    BY <1>1, StatusStays DEF Opened, Linked
  <1>8. Signalling' /\ SignalsStayInside' /\ SuccessLeavesNothing' /\ StatusIsKept'
    BY <1>1 DEF TreeInv, Signalling, SignalsStayInside, SuccessLeavesNothing, StatusIsKept, Mine
  <1> QED
    BY <1>2, <1>4, <1>5, <1>6, <1>7, <1>8 DEF TreeInv

\* descendants() finds nothing although every PID was read: nothing is left.
LEMMA NothingFound ==
  ASSUME TreeInv, Scanned, Descends = {}
  PROVE  NoneLeft
  <1>1. \A r \in snap : r.parent # Wrapper
    <2> SUFFICES ASSUME NEW r \in snap, r.parent = Wrapper PROVE r \in Descends
      OBVIOUS
    <2>1. \A S \in SUBSET snap : HoldsChildren(S) => r \in S
      BY DEF HoldsChildren
    <2> QED
      BY <2>1 DEF Descends
  <1> QED
    BY <1>1 DEF TreeInv, Visible, Scanned

\* Between two looks and at the end of cleanup().
LEMMA CleanupKeeps ==
  ASSUME TreeInv, Finish \/ Remaining \/ Sleep \/ NextPhase
  PROVE  TreeInv'
  <1>1. CASE Finish
    <2>1. /\ UNCHANGED table
          /\ UNCHANGED <<tab, births, mine, truth, reborn, stray, stopped, child, seen, rc, phase, again,
                         targets, sent, todo, snap, goal, fd, climb, chain>>
          /\ at = "scan" /\ at' = "exited" /\ result = "none" /\ child \in Pids
      <3>1. at = "scan"
        BY <1>1 DEF Finish, CleanedUp, LeftOver, Scanned
      <3>2. result = "none" /\ child \in Pids
        BY <3>1 DEF TreeInv, TreeTypeOK, Status
      <3> QED
        BY <1>1, <3>1, <3>2 DEF Finish, exit, table, loop, scan, check
    <2>2. \/ result' = "nonzero"
          \/ /\ NoneLeft
             /\ result' = IF seen # "none" THEN seen ELSE IF rc # "none" THEN rc ELSE "zero"
      BY <1>1, NothingFound DEF Finish, CleanedUp, LeftOver, exit
    <2>3. Table' /\ Evolves /\ (NoneLeft' <=> NoneLeft) /\ \A r : Outdated(r)' <=> Outdated(r)
      BY <2>1, SameTable
    <2>4. TreeTypeOK'
      <3>1. result' \in Codes
        BY <2>2 DEF TreeInv, TreeTypeOK, Codes
      <3>2. result' # "none"
        BY <3>1 DEF Codes
      <3> QED
        BY <2>1, <3>1, <3>2 DEF TreeInv, TreeTypeOK
    <2>5. Records' /\ Visible' /\ Opened' /\ Linked'
      BY <2>1, <2>3 DEF TreeInv, Records, Visible, Opened, Linked
    <2>6. Status'
      BY <2>1 DEF TreeInv, Status, Eldest, Live, Running, Mine
    <2>7. Signalling' /\ SignalsStayInside' /\ SuccessLeavesNothing'
      BY <2>1, <2>2 DEF TreeInv, Signalling, SignalsStayInside, SuccessLeavesNothing, NoneLeft,
         Live, Mine
    <2>8. StatusIsKept'
      <3> SUFFICES ASSUME result' = "zero", ~reborn PROVE truth = "zero"
        BY <2>1 DEF StatusIsKept
      <3>1. rc # "none"
        BY <2>1, <2>2 DEF TreeInv, Status, NoneLeft, Eldest, Mine
      <3>2. truth = rc /\ (seen # "none" => seen = truth)
        BY <3>1, Zenon DEF TreeInv, Status
      <3> QED
        BY <2>2, <3>1, <3>2
    <2> QED
      BY <2>3, <2>4, <2>5, <2>6, <2>7, <2>8 DEF TreeInv
  <1>2. CASE Remaining
    <2>1. /\ UNCHANGED table
          /\ UNCHANGED <<tab, births, mine, truth, reborn, stray, stopped, child, seen, rc, result, phase,
                         sent, todo, goal, fd, climb, chain>>
          /\ at = "scan" /\ at' = "signal" /\ phase < 4 /\ targets' \subseteq snap /\ snap' = {}
      BY <1>2 DEF Remaining, Scanned, Descends, table, life, check
    <2>2. again' \in BOOLEAN
      BY <1>2, Zenon DEF Remaining
    <2>3. Table' /\ Evolves /\ (NoneLeft' <=> NoneLeft) /\ \A r : Outdated(r)' <=> Outdated(r)
      BY <2>1, SameTable
    <2>4. TreeTypeOK'
      BY <2>1, <2>2 DEF TreeInv, TreeTypeOK
    <2>5. Records' /\ Visible' /\ Opened' /\ Linked'
      BY <2>1, <2>3 DEF TreeInv, Records, Visible, Opened, Linked
    <2>6. Status'
      BY <2>1, StatusStays
    <2>7. Signalling' /\ SignalsStayInside' /\ SuccessLeavesNothing' /\ StatusIsKept'
      BY <2>1 DEF TreeInv, Signalling, SignalsStayInside, SuccessLeavesNothing, StatusIsKept, Mine
    <2> QED
      BY <2>3, <2>4, <2>5, <2>6, <2>7 DEF TreeInv
  <1>3. CASE Sleep \/ NextPhase
    <2>1. /\ UNCHANGED table
          /\ UNCHANGED <<tab, births, mine, truth, reborn, stray, stopped, child, seen, rc, result, again,
                         targets, todo, snap, goal, fd, climb, chain>>
          /\ at = "signal" /\ at' = "reap"
      BY <1>3 DEF Sleep, NextPhase, Round, table, life, scan, check
    <2>2. phase' \in 1..4 /\ sent' \in {sent, {}}
      BY <1>3, <2>1 DEF Sleep, NextPhase, TreeInv, TreeTypeOK, Signalling
    <2>3. Table' /\ Evolves /\ (NoneLeft' <=> NoneLeft) /\ \A r : Outdated(r)' <=> Outdated(r)
      BY <2>1, SameTable
    <2>4. TreeTypeOK'
      BY <2>1, <2>2 DEF TreeInv, TreeTypeOK
    <2>5. Records' /\ Visible' /\ Opened' /\ Linked'
      BY <2>1, <2>3 DEF TreeInv, Records, Visible, Opened, Linked
    <2>6. Status'
      BY <2>1, StatusStays
    <2>7. Signalling' /\ SignalsStayInside' /\ SuccessLeavesNothing' /\ StatusIsKept'
      BY <2>1 DEF TreeInv, Signalling, SignalsStayInside, SuccessLeavesNothing, StatusIsKept, Mine
    <2> QED
      BY <2>3, <2>4, <2>5, <2>6, <2>7 DEF TreeInv
  <1> QED
    BY <1>1, <1>2, <1>3

\* signal_descendant() is done with a record.
LEMMA NextRecordKeeps ==
  ASSUME TreeInv, at = "climb", next_record, UNCHANGED <<table, life, rc, phase, again, scan, stray>>,
         sent' \subseteq 1..births
  PROVE  TreeInv'
  <1>1. /\ UNCHANGED <<tab, births, mine, truth, reborn, stopped, child, seen, result, rc, phase, again,
                       todo, snap, stray>>
        /\ at' = "signal" /\ targets' = targets \ {goal} /\ goal' = NoGoal /\ fd' = 0 /\ climb' = Wrapper
        /\ chain' = <<>>
    BY DEF next_record, table, life, scan
  <1>2. Table' /\ Evolves /\ \A r : Outdated(r)' <=> Outdated(r)
    BY SameTable
  <1>3. TreeTypeOK'
    <2>1. fd' \in 0..births' /\ chain' \in Seq(Record)
      BY <1>1 DEF TreeInv, TreeTypeOK
    <2> QED
      BY <1>1, <2>1 DEF TreeInv, TreeTypeOK
  <1>4. Records'
    <2>1. Outdated(NoGoal)
      BY DEF Outdated, NoGoal, TreeInv, TreeTypeOK
    <2> QED
      BY <1>1, <1>2, <2>1 DEF TreeInv, Records
  <1>5. Visible' /\ Opened' /\ Linked'
    BY <1>1 DEF Visible, Opened, Linked
  <1>6. Status'
    BY <1>1, StatusStays
  <1>7. Signalling' /\ SignalsStayInside' /\ SuccessLeavesNothing' /\ StatusIsKept'
    BY <1>1 DEF TreeInv, Signalling, SignalsStayInside, SuccessLeavesNothing, StatusIsKept, Mine
  <1> QED
    BY <1>2, <1>3, <1>4, <1>5, <1>6, <1>7 DEF TreeInv

\* Within a record only the descriptor, the PID to read and the chain change.
LEMMA ClimbFrame ==
  ASSUME TreeInv, UNCHANGED <<table, life, rc, phase, again, scan, stray, sent>>, targets' \subseteq targets,
         at \in {"signal", "climb"}, at' \in {"signal", "climb"}, goal' \in targets \cup {goal},
         fd' \in 0..births, climb' \in Pids \cup {Wrapper}, chain' \in Seq(Record), Opened', Linked',
         at' = "signal" => chain' = <<>>
  PROVE  TreeInv'
  <1>1. UNCHANGED <<tab, births, mine, truth, reborn, stopped, child, seen, result, rc, phase, again,
                    todo, snap, stray, sent>>
    BY DEF table, life, scan
  <1>2. Table' /\ Evolves /\ \A r : Outdated(r)' <=> Outdated(r)
    BY SameTable
  <1>3. TreeTypeOK'
    BY <1>1 DEF TreeInv, TreeTypeOK
  <1>4. Records'
    BY <1>1, <1>2 DEF TreeInv, Records
  <1>5. Visible'
    BY DEF Visible
  <1>6. Status'
    BY <1>1, StatusStays
  <1>7. Signalling' /\ SignalsStayInside' /\ SuccessLeavesNothing' /\ StatusIsKept'
    BY <1>1 DEF TreeInv, Signalling, SignalsStayInside, SuccessLeavesNothing, StatusIsKept, Mine
  <1> QED
    BY <1>2, <1>3, <1>4, <1>5, <1>6, <1>7 DEF TreeInv

\* pidfd_open() pins a process at least as old as the record's.
LEMMA OpenKeeps ==
  ASSUME TreeInv, NEW r \in targets, Open(r)
  PROVE  TreeInv'
  <1>1. /\ at = "signal" /\ UNCHANGED <<table, life, rc, phase, again, scan, stray, sent, chain>>
        /\ UNCHANGED <<tab, births, mine>>
    BY DEF Open, check, table
  <1>2. r \in Record /\ r.pid \in Pids /\ tab[r.pid].born \in Nat /\ Outdated(r)
    BY DEF TreeInv, TreeTypeOK, Record, Records
  <1>3. CASE ~Live(r.pid)
    <2>1. targets' = targets \ {r} /\ UNCHANGED <<at, goal, fd, climb, chain>>
      BY <1>3 DEF Open, Live, check
    <2>2. Opened' /\ Linked'
      BY <1>1, <2>1 DEF Opened, Linked
    <2>3. fd' \in 0..births /\ climb' \in Pids \cup {Wrapper} /\ chain' \in Seq(Record) /\ chain' = <<>>
      BY <1>1, <2>1 DEF TreeInv, TreeTypeOK, Signalling
    <2> QED
      BY <1>1, <2>1, <2>2, <2>3, ClimbFrame
  <1>4. CASE Live(r.pid)
    <2>1. goal' = r /\ fd' = tab[r.pid].born /\ climb' = r.pid /\ at' = "climb" /\ targets' = targets
      BY <1>4 DEF Open, Live
    <2>2. fd' \in 1..births /\ r.born <= fd' /\ r.pid # Wrapper
      BY <1>2, <1>4, <2>1 DEF TreeInv, Table, Outdated
    <2>3. chain' = <<>>
      BY <1>1 DEF TreeInv, Signalling
    <2>4. Opened'
      BY <1>1, <1>2, <2>1, <2>2, <2>3 DEF Opened, Live
    <2>5. Linked'
      BY <2>3, <2>1, <2>2 DEF Linked
    <2> QED
      BY <1>1, <1>2, <2>1, <2>2, <2>3, <2>4, <2>5, ClimbFrame DEF TreeInv, TreeTypeOK
  <1> QED
    BY <1>3, <1>4

\* One link up: the record read last is the parent of the one before, as long as that
\* one's link holds.
LEMMA ClimbKeeps ==
  ASSUME TreeInv, Climb
  PROVE  TreeInv'
  <1>1. /\ at = "climb" /\ climb \in Pids /\ UNCHANGED <<table, life, rc, phase, again, scan, stray, sent>>
        /\ UNCHANGED <<tab, births, mine>>
    BY DEF Climb, table
  <1>2. CASE Stranger
    BY <1>1, <1>2, NextRecordKeeps DEF Climb, TreeInv, TreeTypeOK
  <1>3. CASE ~Stranger
    <2>1. /\ chain' = Append(chain, process(climb)) /\ climb' = tab[climb].parent
          /\ UNCHANGED <<at, targets, goal, fd>>
      BY <1>3 DEF Climb
    <2>2. /\ Live(climb) /\ tab[climb].parent # InitPid
          /\ chain = <<>> => tab[climb].born = goal.born
      BY <1>3 DEF Stranger, Live
    <2>3. PICK last \in Record : last = process(climb)
      <3>1. /\ tab[climb].parent \in Pids \cup {Wrapper, InitPid} /\ tab[climb].st \in {"run", "zombie"}
            /\ tab[climb].born \in 0..MaxBirths
        BY <1>1, <2>2 DEF TreeInv, TreeTypeOK, Live
      <3>2. tab[climb].born \in 1..births
        BY <1>1, <2>2 DEF TreeInv, Table
      <3>3. process(climb) \in Record
        BY <1>1, <3>1, <3>2 DEF process, Record
      <3> QED
        BY <3>3
    <2>4. /\ last.pid = climb /\ last.parent = tab[climb].parent /\ last.born = tab[climb].born
          /\ last.born <= births /\ last.parent # InitPid /\ last.parent \in Pids \cup {Wrapper}
          /\ last.parent = Wrapper => last.born \in mine
      BY <1>1, <2>2, <2>3 DEF TreeInv, TreeTypeOK, Table, Lineage, process, Mine, Live
    <2>5. /\ chain \in Seq(Record) /\ Len(chain) \in Nat /\ chain' \in Seq(Record)
          /\ Len(chain') = Len(chain) + 1 /\ chain'[Len(chain) + 1] = last
          /\ \A i \in 1..Len(chain) : chain'[i] = chain[i]
      BY <2>1, <2>3 DEF TreeInv, TreeTypeOK
    <2>6. Opened'
      <3>1. /\ goal \in Record /\ goal.born <= fd /\ goal.born \in Nat /\ fd \in Nat
            /\ Live(goal.pid) => fd <= tab[goal.pid].born
        BY <1>1 DEF TreeInv, Opened, Record, TreeTypeOK
      <3>2. chain' # <<>>
        BY <2>5
      <3>3. fd = goal.born /\ chain'[1].born = goal.born
        <4>1. CASE chain = <<>>
          <5>1. climb = goal.pid /\ tab[climb].born = goal.born
            BY <1>1, <2>2, <4>1 DEF TreeInv, Opened
          <5> QED
            BY <2>2, <2>4, <2>5, <3>1, <4>1, <5>1
        <4>2. CASE chain # <<>>
          BY <1>1, <2>5, <4>2 DEF TreeInv, Opened
        <4> QED
          BY <4>1, <4>2
      <3> QED
        BY <1>1, <2>1, <3>1, <3>2, <3>3 DEF Opened, Live
    <2>7. Linked'
      <3>1. ASSUME NEW i \in 1..Len(chain')
            PROVE  /\ chain'[i].born <= births /\ chain'[i].parent # InitPid
                   /\ chain'[i].parent = Wrapper => chain'[i].born \in mine
        <4>1. CASE i = Len(chain) + 1
          BY <2>4, <2>5, <4>1
        <4>2. CASE i \in 1..Len(chain)
          BY <1>1, <2>5, <4>2 DEF TreeInv, Linked
        <4> QED
          BY <2>5, <4>1, <4>2
      <3>2. ASSUME NEW i \in 1..(Len(chain') - 1)
            PROVE  /\ chain'[i].parent = chain'[i + 1].pid
                   /\ Holds(chain'[i]) => tab[chain'[i].parent].born = chain'[i + 1].born
        <4>1. CASE i = Len(chain)
          <5>1. chain # <<>> /\ chain'[i] = chain[i] /\ chain'[i + 1] = last
            BY <2>5, <4>1
          <5>2. climb = chain[i].parent
            BY <1>1, <4>1, <5>1 DEF TreeInv, Linked
          <5> QED
            BY <2>4, <5>1, <5>2
        <4>2. CASE i \in 1..(Len(chain) - 1)
          <5>1. i \in 1..Len(chain) /\ i + 1 \in 1..Len(chain)
            BY <2>5, <4>2
          <5>2. chain'[i] = chain[i] /\ chain'[i + 1] = chain[i + 1]
            BY <2>5, <5>1
          <5> QED
            BY <1>1, <4>2, <5>2 DEF TreeInv, Linked
        <4> QED
          BY <2>5, <4>1, <4>2
      <3>3. chain'[Len(chain')] = last /\ climb' = last.parent
        BY <2>1, <2>4, <2>5
      <3>4. climb' = Wrapper => last.born \in mine
        BY <2>4, <3>3
      <3>5. \A r : Holds(r)' <=> Holds(r)
        BY <1>1 DEF Holds, Live
      <3> QED
        BY <1>1, <3>1, <3>2, <3>3, <3>4, <3>5 DEF Linked
    <2>8. fd' \in 0..births /\ climb' \in Pids \cup {Wrapper}
      BY <2>1, <2>4 DEF TreeInv, TreeTypeOK
    <2> QED
      BY <1>1, <2>1, <2>5, <2>6, <2>7, <2>8, ClimbFrame
  <1> QED
    BY <1>2, <1>3

\* One link down: the process is inside of the tree, and so is then its child.
LEMMA RecheckKeeps ==
  ASSUME TreeInv, Recheck
  PROVE  TreeInv'
  <1>1. /\ at = "climb" /\ climb = Wrapper /\ chain # <<>>
        /\ UNCHANGED <<table, life, rc, phase, again, scan, stray, sent>> /\ UNCHANGED <<tab, births, mine>>
    BY DEF Recheck, table
  <1>2. CASE next_record
    BY <1>1, <1>2, NextRecordKeeps DEF TreeInv, TreeTypeOK
  <1>3. CASE ~next_record
    <2>1. /\ Holds(chain[Len(chain)]) /\ chain' = SubSeq(chain, 1, Len(chain) - 1)
          /\ UNCHANGED <<at, targets, goal, fd, climb>>
      BY <1>3 DEF Recheck, process, Holds, Live
    <2>2. /\ chain \in Seq(Record) /\ Len(chain) \in Nat /\ Len(chain) >= 1
      BY <1>1 DEF TreeInv, TreeTypeOK
    <2>3. /\ chain' \in Seq(Record) /\ Len(chain') = Len(chain) - 1
          /\ \A i \in 1..Len(chain') : chain'[i] = chain[i] /\ i \in 1..Len(chain)
      <3>1. /\ SubSeq(chain, 1, Len(chain) - 1) \in Seq(Record)
            /\ Len(SubSeq(chain, 1, Len(chain) - 1)) = Len(chain) - 1
            /\ \A i \in 1..(Len(chain) - 1) : SubSeq(chain, 1, Len(chain) - 1)[i] = chain[i]
        <4>1. PICK n \in Nat : n = Len(chain) - 1
          BY <2>2
        <4>2. \A i \in 1..n : chain[i] \in Record
          BY <2>2, <4>1
        <4>3. /\ SubSeq(chain, 1, n) \in Seq(Record)
              /\ Len(SubSeq(chain, 1, n)) = IF 1 <= n THEN n - 1 + 1 ELSE 0
              /\ \A i \in 1..(n - 1 + 1) : SubSeq(chain, 1, n)[i] = chain[1 + i - 1]
          BY <4>1, <4>2, SubSeqProperties
        <4>4. Len(SubSeq(chain, 1, n)) = n
          BY <4>1, <4>3
        <4>5. \A i \in 1..n : SubSeq(chain, 1, n)[i] = chain[i]
          <5> SUFFICES ASSUME NEW i \in 1..n PROVE SubSeq(chain, 1, n)[i] = chain[i]
            OBVIOUS
          <5>1. i \in 1..(n - 1 + 1) /\ 1 + i - 1 = i
            OBVIOUS
          <5> QED
            BY <4>3, <5>1
        <4> QED
          BY <4>1, <4>3, <4>4, <4>5
      <3> QED
        BY <2>1, <2>2, <3>1
    <2>4. PICK last \in Record : last = chain[Len(chain)]
      BY <2>2
    <2>5. last.born \in mine /\ last.pid \in Pids /\ tab[last.pid].born = last.born
      BY <1>1, <2>1, <2>4 DEF TreeInv, Linked, Holds, Record
    <2>6. Opened'
      <3>1. /\ goal \in Record /\ goal.born <= fd
            /\ Live(goal.pid) => fd <= tab[goal.pid].born
            /\ fd = goal.born /\ chain[1].born = goal.born
        BY <1>1 DEF TreeInv, Opened
      <3>2. ASSUME chain' = <<>> PROVE fd \in mine
        <4>1. Len(chain') = 0
          BY <3>2
        <4>2. Len(chain) = 1
          BY <2>2, <2>3, <4>1
        <4> QED
          BY <2>4, <2>5, <3>1, <4>2
      <3>3. chain' # <<>> => chain'[1].born = goal.born
        BY <2>3, <3>1
      <3> QED
        BY <1>1, <2>1, <3>1, <3>2, <3>3 DEF Opened, Live
    <2>7. Linked'
      <3>1. ASSUME NEW i \in 1..Len(chain')
            PROVE  /\ chain'[i].born <= births /\ chain'[i].parent # InitPid
                   /\ chain'[i].parent = Wrapper => chain'[i].born \in mine
        BY <1>1, <2>3 DEF TreeInv, Linked
      <3>2. ASSUME NEW i \in 1..(Len(chain') - 1)
            PROVE  /\ chain'[i].parent = chain'[i + 1].pid
                   /\ Holds(chain'[i]) => tab[chain'[i].parent].born = chain'[i + 1].born
        <4>1. i \in 1..(Len(chain) - 1) /\ i \in 1..Len(chain') /\ i + 1 \in 1..Len(chain')
          BY <2>2, <2>3
        <4>2. chain'[i] = chain[i] /\ chain'[i + 1] = chain[i + 1]
          BY <2>3, <4>1
        <4> QED
          BY <1>1, <4>1, <4>2 DEF TreeInv, Linked
      <3>3. ASSUME chain' # <<>>, Holds(chain'[Len(chain')])
            PROVE  chain'[Len(chain')].born \in mine
        <4>1. Len(chain') \in 1..(Len(chain) - 1) /\ Len(chain') + 1 = Len(chain)
              /\ Len(chain') \in 1..Len(chain')
          BY <2>2, <2>3, <3>3
        <4>2. PICK r \in Record : r = chain[Len(chain')] /\ r = chain'[Len(chain')]
          BY <2>2, <2>3, <4>1
        <4>3. r.parent = last.pid /\ (Holds(r) => tab[r.parent].born = last.born)
          BY <1>1, <2>4, <4>1, <4>2 DEF TreeInv, Linked
        <4>4. Holds(r) /\ tab[r.parent].born \in mine /\ r.pid \in Pids
          BY <2>5, <3>3, <4>2, <4>3 DEF Record
        <4> QED
          BY <2>5, <4>2, <4>3, <4>4 DEF TreeInv, Table, Lineage, Holds, Mine
      <3>4. \A r : Holds(r)' <=> Holds(r)
        BY <1>1 DEF Holds, Live
      <3> QED
        BY <1>1, <2>1, <3>1, <3>2, <3>3, <3>4 DEF Linked
    <2>8. fd' \in 0..births /\ climb' \in Pids \cup {Wrapper}
      BY <1>1, <2>1 DEF TreeInv, TreeTypeOK
    <2> QED
      BY <1>1, <2>1, <2>3, <2>6, <2>7, <2>8, ClimbFrame
  <1> QED
    BY <1>2, <1>3

\* The signal goes to the process of the descriptor, which is inside of the tree.
LEMMA SendKeeps ==
  ASSUME TreeInv, Send
  PROVE  TreeInv'
  <1>1. /\ at = "climb" /\ climb = Wrapper /\ chain = <<>> /\ next_record
        /\ UNCHANGED <<table, life, rc, phase, again, scan>>
    BY DEF Send
  <1>2. fd \in mine /\ goal \in Record /\ goal.born <= fd
    BY <1>1 DEF TreeInv, Opened
  <1>3. stray' = stray
    BY <1>2 DEF Send
  <1>4. goal.born \in 1..births
    BY <1>2 DEF TreeInv, TreeTypeOK, Record
  <1>5. sent' \subseteq 1..births
    BY <1>4 DEF Send, TreeInv, TreeTypeOK
  <1> QED
    BY <1>1, <1>3, <1>5, NextRecordKeeps

-----------------------------------------------------------------------------

\* The invariant holds in every reachable state.
THEOREM TreeInvariance == TreeSpec => []TreeInv
  <1>1. TreeInit => TreeInv
    <2> SUFFICES ASSUME TreeInit PROVE TreeInv
      OBVIOUS
    <2> USE DEF TreeInit
    <2>1. TreeTypeOK
      <3>1. stopped \in BOOLEAN /\ reborn \in BOOLEAN /\ again \in BOOLEAN
        BY Zenon
      <3>2. tab \in [Pids -> [st : {"none", "run", "zombie"}, parent : Pids \cup {Wrapper, InitPid},
                              born : 0..MaxBirths, code : Codes]]
        BY DEF Free, Codes
      <3>3. chain \in Seq(Record) /\ fd \in 0..births /\ mine \subseteq 1..births /\ births \in 0..MaxBirths
        OBVIOUS
      <3> QED
        BY <3>1, <3>2, <3>3 DEF TreeTypeOK
    <2>2. \A p \in Pids : ~Live(p)
      BY DEF Live, Free
    <2>3. Table /\ Visible /\ Opened /\ Linked /\ Signalling
      BY <2>2 DEF Table, Visible, Opened, Linked, Signalling
    <2>4. Records
      BY DEF Records, Outdated, NoGoal
    <2>5. Status /\ SignalsStayInside /\ SuccessLeavesNothing /\ StatusIsKept
      BY DEF Status, SignalsStayInside, SuccessLeavesNothing, StatusIsKept
    <2> QED
      BY <2>1, <2>3, <2>4, <2>5 DEF TreeInv
  <1>2. TreeInv /\ [TreeNext]_treeVars => TreeInv'
    <2> SUFFICES ASSUME TreeInv, [TreeNext]_treeVars PROVE TreeInv'
      OBVIOUS
    <2>1. CASE System
      BY <2>1, SystemKeeps
    <2>2. CASE Stop \/ StartFails \/ (\E p \in Pids : Popen(p)) \/ WatchStops
      BY <2>2, StartKeeps
    <2>3. CASE Watch \/ Look \/ LookAgain
      BY <2>3, LookKeeps
    <2>4. CASE Finish \/ Remaining \/ Sleep \/ NextPhase
      BY <2>4, CleanupKeeps
    <2>5. CASE \E p \in Pids : Read(p)
      BY <2>5, ReadKeeps
    <2>6. CASE \E r \in targets : Open(r)
      BY <2>6, OpenKeeps
    <2>7. CASE Climb
      BY <2>7, ClimbKeeps
    <2>8. CASE Recheck
      BY <2>8, RecheckKeeps
    <2>9. CASE Send
      BY <2>9, SendKeeps
    <2>10. CASE UNCHANGED treeVars
      <3>1. /\ UNCHANGED <<tab, births, mine, truth, reborn, stray, stopped, child, seen, result, rc, at, phase,
                           again, targets, sent, todo, snap, goal, fd, climb, chain>>
            /\ UNCHANGED table
        BY <2>10 DEF treeVars, table, locals, life, loop, scan, check
      <3>2. Table' /\ Evolves /\ (NoneLeft' <=> NoneLeft) /\ \A r : Outdated(r)' <=> Outdated(r)
        BY <3>1, SameTable
      <3>3. TreeTypeOK' /\ Visible' /\ Signalling'
        BY <3>1, <3>2 DEF TreeInv, TreeTypeOK, Visible, Signalling, Live
      <3>4. Records' /\ Opened' /\ Linked'
        BY <3>1, <3>2, ChainStays DEF TreeInv, Records, check
      <3>5. Status' /\ SignalsStayInside' /\ SuccessLeavesNothing' /\ StatusIsKept'
        BY <3>1 DEF TreeInv, Status, SignalsStayInside, SuccessLeavesNothing, StatusIsKept, Eldest,
           Live,
                    Running, Mine
      <3> QED
        BY <3>2, <3>3, <3>4, <3>5 DEF TreeInv
    <2> QED
      BY <2>1, <2>2, <2>3, <2>4, <2>5, <2>6, <2>7, <2>8, <2>9, <2>10
      DEF TreeNext, WrapperMain, Cleanup
  <1> QED
    BY <1>1, <1>2, PTL DEF TreeSpec

\* Type correctness of the process table and of the wrapper's variables.
THEOREM TreeTypeCorrect == TreeSpec => []TreeTypeOK
  BY TreeInvariance, PTL DEF TreeInv

\* A wrapper that reports success leaves no descendant, whatever forks, exits and PID
\* reuse happen while cleanup() reads /proc.
THEOREM SuccessAlwaysLeavesNothing == TreeSpec => []SuccessLeavesNothing
  BY TreeInvariance, PTL DEF TreeInv

\* signal_descendant() never signals a process outside of the tree.
THEOREM SignalsAlwaysStayInside == TreeSpec => []SignalsStayInside
  BY TreeInvariance, PTL DEF TreeInv

\* The status of the wrapper is the command's unless the cleanup failed.
THEOREM StatusIsAlwaysKept == TreeSpec => []StatusIsKept
  BY TreeInvariance, PTL DEF TreeInv

-----------------------------------------------------------------------------
(* The wrapper as the supervisor's model assumes it.                       *)

\* Where the wrapper is, and what is left of its command and the descendants.
WrapperAt == CASE at = "start" -> "armed" [] at = "watch" -> "watching"
               [] at = "exited" -> "gone" [] OTHER -> "cleaning"
SomeRun == \E p \in Pids : Running(p) /\ Mine(p)
TreeLeft == IF child = Wrapper THEN "none" ELSE IF SomeRun THEN "alive" ELSE "gone"

\* A session with this one component that has been started.
One(v) == [i \in 1..1 |-> v]
Assumed == INSTANCE Supervisor WITH
    N <- 1, pc <- "loop", owner <- TRUE, stopping <- FALSE, failed <- FALSE, manifest <- "RUNNING",
    pending <- {}, handled <- {}, stage <- 1, others <- FALSE,
    holders <- IF at = "exited" THEN {0} ELSE {0, 1},
    wrapper <- One(WrapperAt), wstop <- One(stopped), armed <- One(TRUE),
    tree <- One(TreeLeft), status <- One(result)

\* What the supervisor's model lets a component do, and a signal to it.
AssumedStep ==
    \/ Assumed!Steps(1) \/ Assumed!Clean(1) \/ Assumed!TreeExits(1) \/ Assumed!signal({1})
assumedVars == <<Assumed!component, Assumed!lock>>

LEMMA OneChanged ==
    ASSUME NEW v, NEW new
    PROVE  [One(v) EXCEPT ![1] = new] = One(new) /\ One(v)[1] = v
    <1>1. 1..1 = {1}
      OBVIOUS
    <1>2. QED BY <1>1 DEF One

\* Steps that change nothing the supervisor's model knows of.
LEMMA UnseenSteps ==
    ASSUME WrapperAt' = WrapperAt, stopped' = stopped, TreeLeft' = TreeLeft, result' = result,
           at' = "exited" <=> at = "exited"
    PROVE  UNCHANGED assumedVars
  BY DEF assumedVars, Assumed!component, Assumed!lock, One

\* As long as the same processes run, the same is left.
LEMMA SameLeft ==
    ASSUME child' = child, mine' = mine,
           \A p \in Pids : (Running(p)' <=> Running(p)) /\ (Running(p) => tab'[p].born = tab[p].born)
    PROVE  TreeLeft' = TreeLeft
  BY DEF TreeLeft, SomeRun, Mine

\* reap() only takes what has exited.
LEMMA ReapLeaves ==
    ASSUME TreeInv, reap, child' = child
    PROVE  TreeLeft' = TreeLeft
    <1>1. \A p \in Pids : tab'[p] = IF p \in Zombies THEN Free ELSE tab[p]
      BY DEF reap
    <1>2. \A p \in Pids : (Running(p)' <=> Running(p)) /\ (Running(p) => tab'[p].born = tab[p].born)
      BY <1>1 DEF Running, Zombies, Free
    <1>3. QED BY <1>2, SameLeft DEF reap

\* The end of the wrapper, as the supervisor's model has it.
LEMMA ExitIsEnd ==
    ASSUME TreeInv, NEW s, exit(s), at # "exited"
    PROVE  Assumed!ends(1, s) /\ TreeLeft' = TreeLeft
    <1>1. /\ at' = "exited" /\ result' = s /\ stopped' = stopped /\ child' = child
          /\ tab' = tab /\ mine' = mine
      BY DEF exit, table
    <1>2. TreeLeft' = TreeLeft
      BY <1>1, SameLeft DEF Running
    <1>3. WrapperAt' = "gone"
      BY <1>1 DEF WrapperAt
    <1>4. [One(WrapperAt) EXCEPT ![1] = "gone"] = One(WrapperAt') /\ [One(result) EXCEPT ![1] = s] = One(result')
      BY <1>1, <1>3, OneChanged
    <1>5. {0, 1} \ {1} = {0}
      OBVIOUS
    <1>6. QED BY <1>1, <1>2, <1>4, <1>5 DEF Assumed!ends

\* What the processes do: the last one of them exits, or nothing is seen.
LEMMA SystemAsAssumed ==
    ASSUME TreeInv, TreeInv', System
    PROVE  AssumedStep \/ UNCHANGED assumedVars
    <1>1. locals' = locals /\ at' = at /\ stopped' = stopped /\ result' = result /\ child' = child
      BY DEF System, Fork, Foreign, Exit, ParentReaps, locals, life
    <1>2. WrapperAt' = WrapperAt
      BY <1>1 DEF WrapperAt
    <1>3. SUFFICES TreeLeft' = TreeLeft \/ (TreeLeft = "alive" /\ TreeLeft' = "gone")
      <2>1. CASE TreeLeft' = TreeLeft
        BY <1>1, <1>2, <2>1, UnseenSteps
      <2>2. CASE TreeLeft = "alive" /\ TreeLeft' = "gone"
        <3>1. One(TreeLeft)[1] = "alive" /\ One(TreeLeft') = [One(TreeLeft) EXCEPT ![1] = "gone"]
          BY <2>2, OneChanged
        <3>2. Assumed!TreeExits(1)
          BY <1>1, <1>2, <3>1
             DEF Assumed!TreeExits, Assumed!session, Assumed!finish, Assumed!lock
        <3>3. QED BY <3>2 DEF AssumedStep
      <2>3. QED BY <1>3, <2>1, <2>2
    <1>4. CASE \E p, q \in Pids : Fork(p, q)
      <2>1. PICK p, q \in Pids : Fork(p, q)
        BY <1>4
      <2>2. SomeRun /\ child # Wrapper
        BY <2>1 DEF Fork, SomeRun, TreeInv, Status, Mine
      <2>3. SomeRun'
        BY <2>1 DEF Fork, Born, SomeRun, Running, Mine, TreeInv, TreeTypeOK
      <2>4. QED BY <1>1, <2>2, <2>3 DEF TreeLeft
    <1>5. CASE \E p \in Pids, par \in Pids \cup {InitPid} : Foreign(p, par)
      <2>1. PICK p \in Pids, par \in Pids \cup {InitPid} : Foreign(p, par)
        BY <1>5
      <2>2. SomeRun' <=> SomeRun
        BY <2>1 DEF Foreign, Born, SomeRun, Running, Mine, TreeInv, TreeTypeOK
      <2>3. QED BY <1>1, <2>2 DEF TreeLeft
    <1>6. CASE \E p \in Pids, code \in Codes : Exit(p, code)
      <2>1. PICK p \in Pids, code \in Codes : Exit(p, code)
        BY <1>6
      <2> DEFINE heir == IF Mine(p) THEN Wrapper ELSE InitPid
                 after(q) == [tab[q] EXCEPT !.st = IF q = p THEN "zombie" ELSE @,
                                            !.code = IF q = p THEN code ELSE @,
                                            !.parent = IF @ = p THEN heir ELSE @]
      <2>2. ASSUME NEW q \in Pids, Running(q)'
            PROVE  Running(q) /\ tab'[q].born = tab[q].born
        <3>1. tab'[q] = IF after(q).st = "zombie" /\ after(q).parent = InitPid THEN Free ELSE after(q)
          BY <2>1 DEF Exit
        <3>2. tab[q] \in [st : {"none", "run", "zombie"}, parent : Pids \cup {Wrapper, InitPid},
                          born : 0..MaxBirths, code : Codes]
          BY DEF TreeInv, TreeTypeOK
        <3>3. after(q).born = tab[q].born /\ after(q).st = IF q = p THEN "zombie" ELSE tab[q].st
          BY <3>2
        <3> HIDE DEF after
        <3>4. QED BY <2>2, <3>1, <3>3 DEF Running, Free
      <2>3. SomeRun' => SomeRun
        <3>1. mine' = mine
          BY <2>1 DEF Exit
        <3>2. QED BY <2>2, <3>1 DEF SomeRun, Mine
      <2>4. QED BY <1>1, <2>3 DEF TreeLeft
    <1>7. CASE \E p \in Pids : ParentReaps(p)
      <2>1. PICK p \in Pids : ParentReaps(p)
        BY <1>7
      <2>2. SomeRun' <=> SomeRun
        BY <2>1 DEF ParentReaps, SomeRun, Running, Mine, TreeInv, TreeTypeOK, Free
      <2>3. QED BY <1>1, <2>2 DEF TreeLeft
    <1>8. QED BY <1>4, <1>5, <1>6, <1>7 DEF System

\* The start of the command, and a stop signal.
LEMMA StartAsAssumed ==
    ASSUME TreeInv, TreeInv', Stop \/ StartFails \/ \E p \in Pids : Popen(p)
    PROVE  AssumedStep \/ UNCHANGED assumedVars
    <1>1. CASE Stop
      <2>1. /\ at \in {"start", "watch"} /\ at' = at /\ result' = result /\ child' = child /\ tab' = tab
            /\ mine' = mine /\ stopped' = TRUE
        BY <1>1 DEF Stop, table
      <2>2. WrapperAt \in {"armed", "watching"} /\ WrapperAt' = WrapperAt
        BY <2>1 DEF WrapperAt
      <2>3. TreeLeft' = TreeLeft
        BY <2>1, SameLeft DEF Running
      <2>4. \A i \in 1..1 : One(WrapperAt)[i] = WrapperAt /\ i \in {1}
        BY DEF One
      <2>5. Assumed!signal({1})
        BY <2>1, <2>2, <2>3, <2>4 DEF Assumed!signal, Assumed!Components, One
      <2>6. QED BY <2>5 DEF AssumedStep
    <1>2. CASE StartFails
      <2>1. Assumed!ends(1, "nonzero") /\ TreeLeft' = TreeLeft
        BY <1>2, ExitIsEnd DEF StartFails
      <2>2. One(WrapperAt)[1] = "armed"
        BY <1>2, OneChanged DEF StartFails, WrapperAt
      <2>3. Assumed!LaunchFails(1)
        BY <2>1, <2>2 DEF Assumed!LaunchFails, Assumed!session, Assumed!finish
      <2>4. QED BY <2>3 DEF AssumedStep, Assumed!Steps
    <1>3. CASE \E p \in Pids : Popen(p)
      <2>1. PICK p \in Pids : Popen(p)
        BY <1>3
      <2>2. /\ at = "start" /\ at' = "watch" /\ ~stopped /\ stopped' = stopped /\ result' = result
            /\ child' \in Pids
        BY <2>1 DEF Popen
      <2>3. SomeRun'
        BY <2>1 DEF Popen, Born, SomeRun, Running, Mine, TreeInv, TreeTypeOK
      <2>4. TreeLeft' = "alive" /\ WrapperAt = "armed" /\ WrapperAt' = "watching"
        BY <2>2, <2>3 DEF TreeLeft, WrapperAt
      <2>5. /\ One(WrapperAt)[1] = "armed" /\ One(stopped)[1] = stopped
            /\ One(WrapperAt') = [One(WrapperAt) EXCEPT ![1] = "watching"]
            /\ One(TreeLeft') = [One(TreeLeft) EXCEPT ![1] = "alive"]
        BY <2>4, OneChanged
      <2>6. Assumed!Launch(1)
        BY <2>2, <2>5 DEF Assumed!Launch, Assumed!Orphaned, Assumed!Supervising, Assumed!session,
           Assumed!finish, Assumed!lock
      <2>7. QED BY <2>6 DEF AssumedStep, Assumed!Steps
    <1>4. QED BY <1>1, <1>2, <1>3

\* Watching the command: the cleanup begins, or nothing is seen.
LEMMA WatchAsAssumed ==
    ASSUME TreeInv, TreeInv', Watch \/ WatchStops
    PROVE  AssumedStep \/ UNCHANGED assumedVars
    <1>1. /\ at = "watch" /\ at' \in {"watch", "reap"} /\ stopped' = stopped /\ result' = result
          /\ child' = child
      BY DEF Watch, WatchStops, life
    <1>2. TreeLeft' = TreeLeft
      <2>1. CASE Watch
        BY <1>1, <2>1, ReapLeaves DEF Watch
      <2>2. CASE WatchStops
        BY <1>1, <2>2, SameLeft DEF WatchStops, table, Running
      <2>3. QED BY <2>1, <2>2
    <1>3. CASE at' = "watch"
      BY <1>1, <1>2, <1>3, UnseenSteps DEF WrapperAt
    <1>4. CASE at' = "reap"
      <2>1. WrapperAt = "watching" /\ WrapperAt' = "cleaning"
        BY <1>1, <1>4 DEF WrapperAt
      <2>2. /\ One(WrapperAt)[1] = "watching"
            /\ One(WrapperAt') = [One(WrapperAt) EXCEPT ![1] = "cleaning"]
        BY <2>1, OneChanged
      <2>3. Assumed!Clean(1)
        BY <1>1, <1>2, <1>4, <2>2 DEF Assumed!Clean, Assumed!session, Assumed!finish, Assumed!lock
      <2>4. QED BY <2>3 DEF AssumedStep
    <1>5. QED BY <1>1, <1>3, <1>4

\* The cleanup ends, with success only when the tree is gone.
LEMMA FinishAsAssumed ==
    ASSUME TreeInv, TreeInv', Finish
    PROVE  AssumedStep
    <1>1. PICK s \in Codes : exit(s)
      BY DEF Finish, TreeInv, TreeTypeOK, Codes
    <1>2. at = "scan" /\ result' = s /\ tab' = tab /\ mine' = mine
      BY <1>1 DEF Finish, CleanedUp, LeftOver, Scanned, exit, table
    <1>3. Assumed!ends(1, s) /\ TreeLeft' = TreeLeft
      BY <1>1, <1>2, ExitIsEnd
    <1>4. One(WrapperAt)[1] = "cleaning" /\ One(TreeLeft)[1] = TreeLeft
      BY <1>2, OneChanged DEF WrapperAt
    <1>5. CASE s = "nonzero"
      <2>1. Assumed!Incomplete(1)
        BY <1>3, <1>4, <1>5 DEF Assumed!Incomplete, Assumed!session, Assumed!finish
      <2>2. QED BY <2>1 DEF AssumedStep, Assumed!Steps
    <1>6. CASE s = "zero"
      <2>1. ~SomeRun
        BY <1>2, <1>6 DEF SomeRun, Running, Mine, TreeInv, SuccessLeavesNothing
      <2>2. child # Wrapper
        BY <1>2, <1>6 DEF TreeInv, Status, TreeTypeOK
      <2>3. One(TreeLeft)[1] = "gone"
        BY <1>4, <2>1, <2>2 DEF TreeLeft
      <2>4. Assumed!Cleaned(1)
        BY <1>3, <1>4, <1>6, <2>3 DEF Assumed!Cleaned, Assumed!session, Assumed!finish
      <2>5. QED BY <2>4 DEF AssumedStep, Assumed!Steps
    <1>7. QED BY <1>1, <1>5, <1>6 DEF Codes

\* Looking, reading and signalling are not seen.
LEMMA CleanupAsAssumed ==
    ASSUME TreeInv, TreeInv', Cleanup
    PROVE  AssumedStep \/ UNCHANGED assumedVars
    <1>1. CASE Finish
      BY <1>1, FinishAsAssumed
    <1>2. CASE Cleanup /\ ~Finish
      <2>1. /\ {at, at'} \subseteq {"reap", "scan", "signal", "climb"}
            /\ stopped' = stopped /\ result' = result /\ child' = child
        BY <1>2 DEF Cleanup, Look, look, LookAgain, Scanned, Remaining, Round, Sleep, NextPhase,
           Read,
           Open, Climb, Recheck, Send, next_record, life
      <2>2. reap \/ (tab' = tab /\ mine' = mine)
        BY <1>2 DEF Cleanup, Look, look, LookAgain, Remaining, Round, Sleep, NextPhase, Read, Open,
           Climb, Recheck, Send, table
      <2>3. TreeLeft' = TreeLeft
        BY <2>1, <2>2, ReapLeaves, SameLeft DEF Running
      <2>4. QED BY <2>1, <2>3, UnseenSteps DEF WrapperAt
    <1>3. QED BY <1>1, <1>2

\* From the time its handlers are installed until it ends or is killed, the wrapper of
\* component.py does nothing but what the supervisor's model assumes of a component: it
\* starts its command unless it was told to stop, its tree never comes back to life, it
\* ends once, and with success only when nothing of the tree runs any more.
THEOREM WrapperAsAssumed == TreeSpec => [][AssumedStep]_assumedVars
  <1>1. TreeInv /\ TreeInv' /\ [TreeNext]_treeVars => [AssumedStep]_assumedVars
    <2>1. SUFFICES ASSUME TreeInv, TreeInv', [TreeNext]_treeVars
                   PROVE  AssumedStep \/ UNCHANGED assumedVars
      OBVIOUS
    <2>2. CASE System
      BY <2>1, <2>2, SystemAsAssumed
    <2>3. CASE Stop \/ StartFails \/ \E p \in Pids : Popen(p)
      BY <2>1, <2>3, StartAsAssumed
    <2>4. CASE Watch \/ WatchStops
      BY <2>1, <2>4, WatchAsAssumed
    <2>5. CASE Cleanup
      BY <2>1, <2>5, CleanupAsAssumed
    <2>6. CASE UNCHANGED treeVars
      <3>1. /\ at' = at /\ stopped' = stopped /\ result' = result /\ child' = child /\ tab' = tab
            /\ mine' = mine
        BY <2>6 DEF treeVars, table, locals, life
      <3>2. QED BY <3>1, SameLeft, UnseenSteps DEF WrapperAt, Running
    <2>7. QED BY <2>1, <2>2, <2>3, <2>4, <2>5, <2>6 DEF TreeNext, WrapperMain
  <1>2. QED BY <1>1, TreeInvariance, PTL DEF TreeSpec

=============================================================================
