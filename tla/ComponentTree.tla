---------------------------- MODULE ComponentTree ----------------------------
(***************************************************************************)
(* The wrapper of one component of a session (src/wc_runtime/component.py):*)
(* a subreaper that starts one command, waits for it or for a stop signal, *)
(* and then signals its whole process tree until nothing is left.          *)
(*                                                                         *)
(* The system around it is modelled as far as the wrapper can see it: a    *)
(* process table whose processes fork, exit and are reaped at any time,    *)
(* unrelated processes that take over free PIDs, and /proc, which is read  *)
(* one process after the other while all of this goes on.  Start times     *)
(* distinguish the processes that use a PID in turn: they are birth        *)
(* numbers here.  Clocks are reduced to the end of a signal's grace time.  *)
(***************************************************************************)
EXTENDS Naturals, Sequences, FiniteSets

CONSTANTS
    Pids,         \* the PIDs processes other than the wrapper may get
    Wrapper,      \* the wrapper's own PID
    InitPid,      \* the parent of what no subreaper owns
    MaxBirths     \* bound: how many processes are started

ASSUME TreeAssumption ==
    /\ IsFiniteSet(Pids) /\ Wrapper \notin Pids /\ InitPid \notin Pids /\ Wrapper # InitPid
    /\ MaxBirths \in Nat

VARIABLES
    tab,          \* the process table
    births,       \* how many processes were started
    mine,         \* ghost: the births that descend from the wrapper
    truth,        \* ghost: the exit status of the command
    reborn,       \* ghost: a later descendant got the PID of the command
    stray,        \* ghost: the births outside of the tree that got a signal
    stopped,      \* a stop signal arrived
    child,        \* the PID of the command; Wrapper: not started
    rc,           \* child.returncode
    seen,         \* main()'s copy of it, taken while the command is watched
    result,       \* the exit status of the wrapper
    at,           \* where the wrapper is
    phase,        \* 1: SIGINT, 2: SIGTERM, 3: SIGKILL, 4: the last look
    again,        \* the second of two looks at /proc
    todo, snap,   \* descendants(): the PIDs to read, the records read
    targets,      \* the records the loop has yet to handle
    sent,         \* the births signalled in this phase
    goal, fd,     \* signal_descendant(): the record, the process its pidfd refers to
    climb, chain  \* belongs_to(): the PID to read, the ancestry read so far

table == <<tab, births, mine, truth, reborn>>
life == <<stopped, child, seen, result>>
scan == <<todo, snap>>
check == <<goal, fd, climb, chain>>
loop == <<phase, again, targets, sent>>
locals == <<stray, life, rc, at, loop, scan, check>>
treeVars == <<table, locals>>

Codes == {"zero", "nonzero"}
Free == [st |-> "none", parent |-> InitPid, born |-> 0, code |-> "zero"]
NoGoal == [pid |-> Wrapper, parent |-> InitPid, born |-> 0, st |-> "none"]

TreeInit ==
    /\ tab = [p \in Pids |-> Free] /\ births = 0 /\ mine = {}
    /\ truth = "none" /\ reborn = FALSE /\ stray = {}
    /\ stopped = FALSE /\ child = Wrapper /\ rc = "none" /\ seen = "none" /\ result = "none"
    /\ at = "start" /\ phase = 1 /\ again = FALSE 
    /\ todo = {} /\ snap = {} /\ targets = {} /\ sent = {}
    /\ goal = NoGoal /\ fd = 0 /\ climb = Wrapper /\ chain = <<>>

-----------------------------------------------------------------------------
(* The process table.                                                        *)

Running(p) == tab[p].st = "run"
Mine(p) == tab[p].born \in mine

\* A new process with the parent par takes the free PID p.
Born(p, par) ==
    /\ births < MaxBirths /\ tab[p].st = "none"
    /\ births' = births + 1
    /\ tab' = [tab EXCEPT ![p] = [st |-> "run", parent |-> par, born |-> births + 1, code |-> "zero"]]

\* A descendant of the wrapper forks.
Fork(p, q) ==
    /\ Running(q) /\ Mine(q)
    /\ Born(p, q)
    /\ mine' = mine \cup {births + 1}
    /\ reborn' = (reborn \/ p = child)
    /\ UNCHANGED <<truth, locals>>

\* An unrelated process starts.
Foreign(p, par) ==
    /\ par = InitPid \/ (par \in Pids /\ Running(par) /\ ~Mine(par))
    /\ Born(p, par)
    /\ UNCHANGED <<mine, truth, reborn, locals>>

\* A process exits.  Its children go to the subreaper or to init, which reaps its
\* own zombies at once.  Only the status of the command's PID is ever looked at.
Exit(p, c) ==
    /\ Running(p) /\ (p # child => c = "zero")
    /\ LET heir == IF Mine(p) THEN Wrapper ELSE InitPid
           after(q) == [tab[q] EXCEPT !.st = IF q = p THEN "zombie" ELSE @,
                                      !.code = IF q = p THEN c ELSE @,
                                      !.parent = IF @ = p THEN heir ELSE @]
       IN  tab' = [q \in Pids |-> IF after(q).st = "zombie" /\ after(q).parent = InitPid
                                  THEN Free ELSE after(q)]
    /\ truth' = IF Mine(p) /\ \A b \in mine : tab[p].born <= b THEN c ELSE truth
    /\ UNCHANGED <<births, mine, reborn, locals>>

\* A parent other than the wrapper waits for its child.
ParentReaps(p) ==
    /\ tab[p].st = "zombie" /\ tab[p].parent \in Pids
    /\ tab' = [tab EXCEPT ![p] = Free]
    /\ UNCHANGED <<births, mine, truth, reborn, locals>>

-----------------------------------------------------------------------------
(* main().                                                                   *)

\* A stop signal of the supervisor, or the death of the supervisor.
Stop ==
    /\ ~stopped /\ at \in {"start", "watch"}
    /\ stopped' = TRUE
    /\ UNCHANGED <<table, stray, child, seen, result, rc, at, loop, scan, check>>

exit(status) ==
    /\ at' = "exited" /\ result' = status
    /\ UNCHANGED <<table, stray, stopped, child, seen, rc, loop, scan, check>>

\* The supervisor is gone, a signal came first, or Popen() raises: there is
\* nothing to clean up.
StartFails == at = "start" /\ exit("nonzero")

Popen(p) ==
    /\ at = "start" /\ ~stopped
    /\ Born(p, Wrapper)
    /\ mine' = {births + 1} /\ child' = p /\ at' = "watch"
    /\ UNCHANGED <<truth, reborn, stray, stopped, seen, result, rc, loop, scan, check>>

\* The wrapper's zombies.
Zombies == {p \in Pids : tab[p].st = "zombie" /\ tab[p].parent = Wrapper}

\* Faulty variant: the status of the command is lost with those of the orphans.
reap_loses_status ==
    /\ tab' = [p \in Pids |-> IF p \in Zombies THEN Free ELSE tab[p]]
    /\ rc' = rc /\ UNCHANGED <<births, mine, truth, reborn>>

\* reap(): every zombie of the wrapper; the command is known by its PID.
reap ==
    /\ tab' = [p \in Pids |-> IF p \in Zombies THEN Free ELSE tab[p]]
    /\ rc' = IF child \in Zombies THEN tab[child].code ELSE rc
    /\ UNCHANGED <<births, mine, truth, reborn>>

Watch ==
    /\ at = "watch" /\ ~stopped
    /\ reap
    /\ seen' = rc'
    /\ at' = IF rc' # "none" THEN "reap" ELSE "watch"
    /\ UNCHANGED <<stray, stopped, child, result, loop, scan, check>>

WatchStops ==
    /\ at = "watch" /\ stopped
    /\ at' = "reap"
    /\ UNCHANGED <<table, stray, life, rc, loop, scan, check>>

-----------------------------------------------------------------------------
(* cleanup().                                                                *)

\* reap(), then descendants(): the PIDs in /proc, to be read one by one.
look ==
    /\ reap
    /\ todo' = {p \in Pids : tab'[p].st # "none"} /\ snap' = {}
    /\ at' = "scan"

Look ==
    /\ at = "reap"
    /\ look
    /\ UNCHANGED <<stray, life, loop, check>>

\* process(): what /proc says of a PID.
process(p) == [pid |-> p, parent |-> tab[p].parent, born |-> tab[p].born, st |-> tab[p].st]

Read(p) ==
    /\ at = "scan" /\ p \in todo
    /\ todo' = todo \ {p}
    /\ snap' = IF tab[p].st = "none" THEN snap ELSE snap \cup {process(p)}
    /\ UNCHANGED <<table, stray, life, rc, at, loop, check>>

\* A set of records with every child of the wrapper and of its own members.
HoldsChildren(S) ==
    \A r \in snap : r.parent = Wrapper \/ (\E s \in S : r.parent = s.pid) => r \in S

\* The records that a chain of parents, as they were read, leads to the wrapper: the
\* least such set.
Descends == {r \in snap : \A S \in SUBSET snap : HoldsChildren(S) => r \in S}

Scanned == at = "scan" /\ todo = {}

\* The first look finds nothing: reap and look again.
LookAgain ==
    /\ Scanned /\ Descends = {} /\ ~again /\ phase < 4
    /\ look
    /\ again' = TRUE
    /\ UNCHANGED <<stray, life, phase, targets, sent, check>>

\* Faulty variant: after SIGKILL nothing can be left.
clean_after_kill == Scanned /\ (phase = 4 \/ (again /\ Descends = {}))

\* cleanup() found nothing twice in a row, or with its last look.
CleanedUp == Scanned /\ Descends = {} /\ (again \/ phase = 4)

LeftOver == Scanned /\ Descends # {} /\ phase = 4

\* main() returns.
Finish ==
    \/ CleanedUp /\ exit(IF seen # "none" THEN seen ELSE IF rc # "none" THEN rc ELSE "zero")
    \/ ~CleanedUp /\ LeftOver /\ exit("nonzero")

\* SIGINT only goes to the command itself, every signal once.
Wanted(r) ==
    r.st # "zombie" /\ r.born \notin sent /\ (phase = 1 => r.pid = child)

\* Something is left; after an empty first look there is nobody to signal.
Remaining ==
    /\ Scanned /\ Descends # {} /\ phase < 4
    /\ targets' = IF again THEN {} ELSE {r \in Descends : Wanted(r)}
    /\ again' = FALSE /\ at' = "signal" /\ snap' = {}
    /\ UNCHANGED <<table, stray, life, rc, phase, sent, todo, check>>

Round ==
    /\ at = "signal" /\ targets = {}
    /\ at' = "reap"
    /\ UNCHANGED <<table, stray, life, rc, again, targets, scan, check>>

\* The loop over the records is over and the signal's grace time is not.
Sleep == Round /\ UNCHANGED <<phase, sent>>

\* The grace time is over: the next signal, or the last look.
NextPhase == Round /\ phase' = phase + 1 /\ sent' = {}

-----------------------------------------------------------------------------
(* signal_descendant() and belongs_to().                                     *)

next_record == /\ at' = "signal" /\ targets' = targets \ {goal}
               /\ goal' = NoGoal /\ fd' = 0 /\ climb' = Wrapper /\ chain' = <<>>

\* pidfd_open().
Open(r) ==
    /\ at = "signal" /\ r \in targets
    /\ IF tab[r.pid].st = "none"
       THEN targets' = targets \ {r} /\ UNCHANGED <<at, check>>
       ELSE /\ goal' = r /\ fd' = tab[r.pid].born /\ climb' = r.pid
            /\ at' = "climb" /\ UNCHANGED <<chain, targets>>
    /\ UNCHANGED <<table, stray, life, rc, phase, again, sent, scan>>

\* The next process of the chain is gone, another one, or nobody's child.
Stranger ==
    \/ tab[climb].st = "none"
    \/ chain = <<>> /\ tab[climb].born # goal.born
    \/ \E i \in 1..Len(chain) : chain[i].pid = climb
    \/ tab[climb].parent = InitPid

\* Faulty variant: the start time is enough.
climb_trusting ==
    /\ at = "climb" /\ climb \in Pids
    /\ IF tab[climb].st = "none" \/ tab[climb].born # goal.born
       THEN next_record
       ELSE climb' = Wrapper /\ UNCHANGED <<at, targets, goal, fd, chain>>
    /\ UNCHANGED <<table, stray, life, rc, phase, again, sent, scan>>

\* One link of the chain of parents.
Climb ==
    /\ at = "climb" /\ climb \in Pids
    /\ IF Stranger
       THEN next_record
       ELSE /\ chain' = Append(chain, process(climb)) /\ climb' = tab[climb].parent
            /\ UNCHANGED <<at, targets, goal, fd>>
    /\ UNCHANGED <<table, stray, life, rc, phase, again, sent, scan>>

\* The chain is read a second time, from the wrapper down.
Recheck ==
    /\ at = "climb" /\ climb = Wrapper /\ chain # <<>>
    /\ LET last == chain[Len(chain)]
           now == process(last.pid)
       IN  IF now.st = "none" \/ now.born # last.born \/ now.parent # last.parent
           THEN next_record
           ELSE chain' = SubSeq(chain, 1, Len(chain) - 1) /\ UNCHANGED <<at, targets, goal, fd, climb>>
    /\ UNCHANGED <<table, stray, life, rc, phase, again, sent, scan>>

\* pidfd_send_signal(): the process the descriptor refers to, if it is still there.
Send ==
    /\ at = "climb" /\ climb = Wrapper /\ chain = <<>>
    /\ IF \E p \in Pids : tab[p].st # "none" /\ tab[p].born = fd
       THEN stray' = stray \cup ({fd} \ mine) /\ sent' = sent \cup {goal.born}
       ELSE UNCHANGED <<stray, sent>>
    /\ next_record
    /\ UNCHANGED <<table, life, rc, phase, again, scan>>

-----------------------------------------------------------------------------

System == \/ \E p, q \in Pids : Fork(p, q)
          \/ \E p \in Pids, par \in Pids \cup {InitPid} : Foreign(p, par)
          \/ \E p \in Pids, c \in Codes : Exit(p, c)
          \/ \E p \in Pids : ParentReaps(p)

Cleanup == \/ Look \/ LookAgain \/ Finish \/ Remaining \/ Sleep \/ NextPhase
           \/ \E p \in Pids : Read(p)
           \/ \E r \in targets : Open(r)
           \/ Climb \/ Recheck \/ Send

WrapperMain == StartFails \/ (\E p \in Pids : Popen(p)) \/ Watch \/ WatchStops \/ Cleanup

TreeNext == System \/ Stop \/ WrapperMain

TreeSpec == TreeInit /\ [][TreeNext]_treeVars

-----------------------------------------------------------------------------
(* Properties.                                                               *)

Record == [pid : Pids, parent : Pids \cup {Wrapper, InitPid}, born : 1..MaxBirths,
           st : {"run", "zombie"}]

\* Type correctness: the process table, the scan of list_descendants() and the
\* local variables of main() and cleanup keep their types.
TreeTypeOK ==
    /\ tab \in [Pids -> [st : {"none", "run", "zombie"}, parent : Pids \cup {Wrapper, InitPid},
                         born : 0..MaxBirths, code : Codes]]
    /\ births \in 0..MaxBirths /\ mine \subseteq 1..births /\ stray \subseteq 1..births
    /\ truth \in Codes \cup {"none"} /\ rc \in Codes \cup {"none"} /\ seen \in Codes \cup {"none"}
    /\ result \in Codes \cup {"none"} /\ (result # "none" <=> at = "exited")
    /\ stopped \in BOOLEAN /\ reborn \in BOOLEAN /\ again \in BOOLEAN
    /\ child \in Pids \cup {Wrapper} /\ climb \in Pids \cup {Wrapper}
    /\ at \in {"start", "watch", "reap", "scan", "signal", "climb", "exited"}
    /\ phase \in 1..4
    /\ todo \subseteq Pids /\ snap \subseteq Record /\ targets \subseteq Record
    /\ sent \subseteq 1..births /\ fd \in 0..births
    /\ goal \in Record \cup {NoGoal} /\ chain \in Seq(Record)

\* A wrapper that reports success leaves no descendant behind, not even one that
\* was forked, orphaned or moved to another PID while /proc was being read.
SuccessLeavesNothing ==
    result = "zero" => \A p \in Pids : tab[p].st # "none" => ~Mine(p)

\* No signal ever reaches a process outside of the tree, although PIDs are reused
\* between the scan, the pidfd and the check of the ancestry.
SignalsStayInside == stray = {}

\* The wrapper's status is the command's unless the cleanup failed, provided
\* that no later descendant got the command's PID.
StatusIsKept == result = "zero" /\ ~reborn => truth = "zero"

\* The same without the proviso: "without losing the direct component exit status".
StatusIsNeverLost == result = "zero" => truth = "zero"

=============================================================================
