------------------------------ MODULE Supervisor ------------------------------
(***************************************************************************)
(* One managed session: the supervisor (src/wc_runtime/supervisor.py) that *)
(* takes the session's lock, starts one wrapper per component and ends     *)
(* them all, and the wrappers (component.py), each with the promise that   *)
(* module ComponentTree checks: it ends, and reports success only when its *)
(* process tree is gone.                                                   *)
(*                                                                         *)
(* The lock is a flock() whose descriptor the wrappers inherit: it is held *)
(* as long as one of its holders lives.  The supervisor may be killed at   *)
(* any time.  Deadlines are not measured: a wait may time out whenever the *)
(* process it waits for is still there.                                    *)
(***************************************************************************)
EXTENDS Naturals

CONSTANT N        \* number of components, started in order

ASSUME SessionAssumption == N \in Nat \ {0}

Components == 1..N

VARIABLES
    pc,           \* where supervisor.main() is; "dead": killed
    owner,        \* the process the session is bound to lives
    stopping,     \* stopping
    failed,       \* result # 0
    manifest,     \* manifest.json
    pending,      \* finish_children(): the children waited for
    handled,      \* the ones this stage has looked at
    stage,        \* 1: SIGINT was sent, 2: SIGTERM, 3: SIGKILL
    holders,      \* who has the lock's descriptor: 0 is the supervisor
    others,       \* another session holds the lock
    wrapper,      \* per component: where component.main() is
    wstop,        \* its stopped
    armed,        \* its parent-death signal is set
    tree,         \* its command and all its descendants
    status        \* its exit status

session == <<pc, owner, stopping, failed, manifest>>
finish == <<pending, handled, stage>>
lock == <<holders, others>>
component == <<wrapper, wstop, armed, tree, status>>
vars == <<session, finish, lock, component>>

Init ==
    /\ pc = "lock" /\ owner = TRUE /\ stopping = FALSE /\ failed = FALSE /\ manifest = "none"
    /\ pending = {} /\ handled = {} /\ stage = 1
    /\ holders = {} /\ others \in BOOLEAN
    /\ wrapper = [i \in Components |-> "none"] /\ wstop = [i \in Components |-> FALSE]
    /\ armed = [i \in Components |-> FALSE]
    /\ tree = [i \in Components |-> "none"] /\ status = [i \in Components |-> "none"]

-----------------------------------------------------------------------------
(* supervisor.main().                                                        *)

Supervising == pc \notin {"exited", "dead"}

\* signal_stop().
StopSignal ==
    /\ Supervising /\ ~stopping
    /\ stopping' = TRUE
    /\ UNCHANGED <<pc, owner, failed, manifest, finish, lock, component>>

OwnerDies ==
    /\ owner /\ owner' = FALSE
    /\ UNCHANGED <<pc, stopping, failed, manifest, finish, lock, component>>

\* owner_lost(), the value it returns.
owner_lost == stopping \/ ~owner

\* acquire_resource_lock().  A session that is bound to no owner takes the lock
\* even when it was already told to stop.
Lock ==
    /\ pc = "lock" /\ owner /\ holders = {} /\ ~others
    /\ holders' = {0}
    /\ pc' = "spawn"
    /\ UNCHANGED <<owner, stopping, failed, manifest, finish, others, component>>

LockSkipped ==
    /\ pc = "lock" /\ owner_lost
    /\ stopping' = TRUE /\ pc' = "spawn"
    /\ UNCHANGED <<owner, failed, manifest, finish, lock, component>>

\* An exception: another session has the lock or its file is not usable, a process
\* or a file cannot be created.
Raises ==
    /\ pc \in {"lock", "spawn", "announce"}
    /\ failed' = TRUE /\ pc' = "interrupt"
    /\ UNCHANGED <<owner, stopping, manifest, finish, lock, component>>

Spawned == {i \in Components : wrapper[i] # "none"}

\* The next command of the plan.
Following(i) == wrapper[i] = "none" /\ \A j \in 1..(i - 1) : wrapper[j] # "none"

\* Faulty variant: the wrappers do not inherit the lock.
spawn_without_lock(i) ==
    /\ pc = "spawn" /\ ~owner_lost /\ Following(i)
    /\ wrapper' = [wrapper EXCEPT ![i] = "booting"]
    /\ UNCHANGED <<session, finish, lock, wstop, armed, tree, status>>

Spawn(i) ==
    /\ pc = "spawn" /\ ~owner_lost
    /\ Following(i)
    /\ wrapper' = [wrapper EXCEPT ![i] = "booting"]
    /\ holders' = holders \cup {i}
    /\ UNCHANGED <<session, finish, others, wstop, armed, tree, status>>

SpawnEnds ==
    /\ pc = "spawn" /\ (owner_lost \/ Spawned = Components)
    /\ stopping' = owner_lost /\ pc' = "announce"
    /\ UNCHANGED <<owner, failed, manifest, finish, lock, component>>

Announce ==
    /\ pc = "announce"
    /\ manifest' = "RUNNING" /\ pc' = "loop"
    /\ UNCHANGED <<owner, stopping, failed, finish, lock, component>>

\* One round of the loop: the owner, the children, the duration.
Gone(i) == wrapper[i] = "gone"

Loop ==
    /\ pc = "loop" /\ ~owner_lost
    /\ \E i \in Spawned : Gone(i)
    /\ stopping' = TRUE
    /\ failed' \in IF \A i \in Spawned : Gone(i) => status[i] = "zero" THEN {FALSE, TRUE} ELSE {TRUE}
    /\ pc' = "interrupt"
    /\ UNCHANGED <<owner, manifest, finish, lock, component>>

LoopStops ==
    /\ pc = "loop"
    /\ stopping' = TRUE /\ pc' = "interrupt"
    /\ UNCHANGED <<owner, failed, manifest, finish, lock, component>>

-----------------------------------------------------------------------------
(* A signal to a wrapper, and its end.                                       *)

\* Before its handlers are installed a stop signal kills the wrapper; once it
\* cleans up, it ignores them.
signal(S) ==
    LET dies(i) == i \in S /\ wrapper[i] = "booting" IN
    /\ wrapper' = [i \in Components |-> IF dies(i) THEN "gone" ELSE wrapper[i]]
    /\ status' = [i \in Components |-> IF dies(i) THEN "nonzero" ELSE status[i]]
    /\ wstop' = [i \in Components |-> wstop[i] \/ (i \in S /\ wrapper[i] \in {"armed", "watching"})]
    /\ holders' = holders \ {i \in Components : dies(i)}
    /\ UNCHANGED <<armed, tree, others>>

ends(i, s) ==
    /\ wrapper' = [wrapper EXCEPT ![i] = "gone"]
    /\ status' = [status EXCEPT ![i] = s]
    /\ holders' = holders \ {i}
    /\ UNCHANGED <<others, wstop, armed>>

-----------------------------------------------------------------------------
(* finish_children().                                                        *)

\* SIGINT to every child.
Interrupt ==
    /\ pc = "interrupt"
    /\ signal(Spawned)
    /\ pending' = Spawned /\ pc' = "wait"
    /\ UNCHANGED <<owner, stopping, failed, manifest, handled, stage>>

\* Faulty variant: a wait only looks for the end of the process.
wait_ignores_status(i) ==
    /\ pc = "wait" /\ i \in pending \ handled /\ Gone(i)
    /\ pending' = pending \ {i}
    /\ UNCHANGED <<session, handled, stage, lock, component>>

\* child.wait() returns.
Wait(i) ==
    /\ pc = "wait" /\ i \in pending \ handled /\ Gone(i)
    /\ pending' = pending \ {i}
    /\ failed' = (failed \/ status[i] # "zero")
    /\ UNCHANGED <<pc, owner, stopping, manifest, handled, stage, lock, component>>

\* It times out: SIGTERM, then SIGKILL, to the wrapper's process group.
Timeout(i) ==
    /\ pc = "wait" /\ i \in pending \ handled /\ ~Gone(i)
    /\ failed' = TRUE
    /\ handled' = handled \cup {i}
    /\ \/ stage = 1 /\ signal({i})
       \/ stage = 2 /\ wrapper' = [wrapper EXCEPT ![i] = "killed"]
                    /\ UNCHANGED <<lock, wstop, armed, tree, status>>
       \/ stage = 3 /\ UNCHANGED <<lock, component>>
    /\ UNCHANGED <<pc, owner, stopping, manifest, pending, stage>>

\* Every child of the stage is handled.
StageEnds ==
    /\ pc = "wait" /\ pending = handled
    /\ IF pending = {} \/ stage = 3
       THEN pc' = "report" /\ UNCHANGED <<stage, handled>>
       ELSE stage' = stage + 1 /\ handled' = {} /\ UNCHANGED pc
    /\ UNCHANGED <<owner, stopping, failed, manifest, pending, lock, component>>

\* The final manifest, then the locks.
Report ==
    /\ pc = "report"
    /\ manifest' = IF failed THEN "FAILED" ELSE "STOPPED"
    /\ pc' = "unlock"
    /\ UNCHANGED <<owner, stopping, failed, finish, lock, component>>

\* The end of the process closes the descriptors as well.
Unlock ==
    /\ pc \in {"report", "unlock"}
    /\ holders' = holders \ {0} /\ pc' = "exited"
    /\ UNCHANGED <<owner, stopping, failed, manifest, finish, others, component>>

\* The supervisor is killed; armed wrappers get SIGTERM.
Crash ==
    /\ Supervising
    /\ pc' = "dead" /\ holders' = holders \ {0}
    /\ wstop' = [i \in Components |-> wstop[i] \/ (armed[i] /\ wrapper[i] \in {"armed", "watching"})]
    /\ UNCHANGED <<owner, stopping, failed, manifest, finish, others, wrapper, armed, tree, status>>

-----------------------------------------------------------------------------
(* component.main().                                                         *)

\* The handlers, PR_SET_PDEATHSIG and PR_SET_CHILD_SUBREAPER.
Arm(i) ==
    /\ wrapper[i] = "booting"
    /\ wrapper' = [wrapper EXCEPT ![i] = "armed"] /\ armed' = [armed EXCEPT ![i] = TRUE]
    /\ UNCHANGED <<session, finish, lock, wstop, tree, status>>

\* Faulty variant: the parent is not compared.
orphaned_ignored(i) == wstop[i]

\* The parent died before the signal was set, or a stop came first.
Orphaned(i) == wstop[i] \/ ~Supervising

LaunchRefused(i) ==
    /\ wrapper[i] = "armed" /\ Orphaned(i)
    /\ ends(i, "nonzero")
    /\ UNCHANGED <<session, finish, tree>>

\* The command cannot be started.
LaunchFails(i) ==
    /\ wrapper[i] = "armed"
    /\ ends(i, "nonzero")
    /\ UNCHANGED <<session, finish, tree>>

Launch(i) ==
    /\ wrapper[i] = "armed" /\ ~Orphaned(i)
    /\ wrapper' = [wrapper EXCEPT ![i] = "watching"]
    /\ tree' = [tree EXCEPT ![i] = "alive"]
    /\ UNCHANGED <<session, finish, lock, wstop, armed, status>>

\* The processes of the component exit.
TreeExits(i) ==
    /\ tree[i] = "alive" /\ tree' = [tree EXCEPT ![i] = "gone"]
    /\ UNCHANGED <<session, finish, lock, wrapper, wstop, armed, status>>

\* A stop signal, or the end of the command (descendants of it may be left).
Clean(i) ==
    /\ wrapper[i] = "watching"
    /\ wrapper' = [wrapper EXCEPT ![i] = "cleaning"]
    /\ UNCHANGED <<session, finish, lock, wstop, armed, tree, status>>

\* cleanup() found the tree empty: the command's status.
Cleaned(i) ==
    /\ wrapper[i] = "cleaning" /\ tree[i] = "gone"
    /\ \E s \in {"zero", "nonzero"} : ends(i, s)
    /\ UNCHANGED <<session, finish, tree>>

\* cleanup() ran out of time.
Incomplete(i) ==
    /\ wrapper[i] = "cleaning"
    /\ ends(i, "nonzero")
    /\ UNCHANGED <<session, finish, tree>>

\* SIGKILL takes effect; the rest of the process group dies with the wrapper.
Dies(i) ==
    /\ wrapper[i] = "killed"
    /\ ends(i, "nonzero")
    /\ tree' \in {tree, [tree EXCEPT ![i] = IF @ = "alive" THEN "gone" ELSE @]}
    /\ UNCHANGED <<session, finish>>

-----------------------------------------------------------------------------

\* Another session waits for the lock and gives it back.
OtherSession ==
    /\ \/ holders = {} /\ ~others /\ others' = TRUE
       \/ others /\ others' = FALSE
    /\ UNCHANGED <<session, finish, holders, component>>

Main == \/ Lock \/ LockSkipped \/ Raises \/ (\E i \in Components : Spawn(i)) \/ SpawnEnds
        \/ Announce \/ Loop \/ Interrupt
        \/ (\E i \in Components : Wait(i) \/ Timeout(i)) \/ StageEnds \/ Report \/ Unlock

Steps(i) == Arm(i) \/ LaunchRefused(i) \/ LaunchFails(i) \/ Launch(i) \/ Cleaned(i) \/ Incomplete(i)
            \/ Dies(i)

\* A stop request, or the end of the command.
Leaves(i) == (wstop[i] \/ tree[i] = "gone") /\ Clean(i)

Next == \/ Main \/ LoopStops \/ StopSignal \/ OwnerDies \/ Crash \/ OtherSession
        \/ \E i \in Components : Steps(i) \/ TreeExits(i) \/ Clean(i)

\* The supervisor and the wrappers run; their waits are bounded.  Components
\* owe nothing, and nobody has to be killed or stopped.
Spec ==
    /\ Init /\ [][Next]_vars
    /\ WF_vars(Main) /\ WF_vars(owner_lost /\ LoopStops)
    /\ \A i \in Components : WF_vars(Steps(i)) /\ WF_vars(Leaves(i))

-----------------------------------------------------------------------------
(* Properties.                                                               *)

\* Type correctness: main() and finish_children() are at a known position, every
\* wrapper is in a known state and the manifest holds a state the code writes.
TypeOK ==
    /\ pc \in {"lock", "spawn", "announce", "loop", "interrupt", "wait", "report", "unlock",
               "exited", "dead"}
    /\ owner \in BOOLEAN /\ stopping \in BOOLEAN /\ failed \in BOOLEAN /\ others \in BOOLEAN
    /\ manifest \in {"none", "RUNNING", "STOPPED", "FAILED"}
    /\ handled \subseteq pending /\ pending \subseteq Spawned /\ stage \in 1..3
    /\ holders \subseteq 0..N
    /\ wrapper \in [Components -> {"none", "booting", "armed", "watching", "cleaning", "killed", "gone"}]
    /\ wstop \in [Components -> BOOLEAN] /\ armed \in [Components -> BOOLEAN]
    /\ tree \in [Components -> {"none", "alive", "gone"}]
    /\ status \in [Components -> {"none", "zero", "nonzero"}]

\* A session that is reported as stopped has left no process behind.
StoppedIsQuiet ==
    manifest = "STOPPED" =>
        \A i \in Components : wrapper[i] \in {"none", "gone"} /\ tree[i] # "alive"

\* Another session gets the lock only when every component of this one is gone or
\* was given up as a failure, even if the supervisor was killed.
SessionsDoNotOverlap ==
    others => \A i \in Components :
        /\ wrapper[i] \in {"none", "gone"}
        /\ tree[i] = "alive" => status[i] = "nonzero"

\* After a stop request, the death of the owner or the death of the supervisor
\* itself, every wrapper ends, and so does the supervisor.
SessionEnds ==
    (stopping \/ ~owner \/ pc = "dead") ~>
        /\ ~Supervising
        /\ \A i \in Components : wrapper[i] \in {"none", "gone"}

=============================================================================
