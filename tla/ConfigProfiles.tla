--------------------------- MODULE ConfigProfiles ---------------------------
(***************************************************************************)
(* Switching the panel to another configuration profile: ConfigProfiles    *)
(* (src/wc_panel/config_profiles.py).  A profile replaces several files,   *)
(* one after the other, and the panel may die between any two writes.  A   *)
(* journal next to copies of the old files, and a pointer to it, let the   *)
(* next operation finish or undo what was begun.                           *)
(*                                                                         *)
(* A file's content is the profile it belongs to, or the number of the     *)
(* edit that somebody else made; digests and revisions are the contents    *)
(* they stand for.  Each write is atomic (a temporary file and a rename)   *)
(* or fails without effect.  An edit may come at any time, also between    *)
(* the comparison of a file and the write that replaces it.                *)
(***************************************************************************)
EXTENDS Naturals, FiniteSets

CONSTANTS
    N,            \* number of configuration files, len(FILES)
    Profiles,     \* the saved profiles
    MaxEdits,     \* bound: edits by others
    MaxFaults,    \* bound: failed writes and deaths of the panel
    None

ASSUME ProfilesAssumption ==
    /\ N \in Nat \ {0} /\ MaxEdits \in Nat /\ MaxFaults \in Nat
    /\ Profiles # {} /\ Profiles \cap Nat = {} /\ None \notin Profiles

VARIABLES
    files,        \* the configuration files
    marker,       \* the profile active.json names
    pointer,      \* .transaction.json exists
    journal,      \* the transaction.json it points to
    token,        \* what the user confirmed: a profile, for these files
    pc,           \* where the panel is; "down": it does not run
    next,         \* the next file to write
    edits,        \* how many edits were made
    faults,       \* how many faults occurred
    kept,         \* ghost: the files that hold an edit made during the current transaction
    late          \* ghost: the next file was edited after its comparison, before its write

disk == <<files, marker, pointer, journal>>
vars == <<disk, token, pc, next, edits, faults, kept, late>>

Files == 1..N
Contents == Profiles \cup Nat
whole(p) == [f \in Files |-> p]

Init ==
    /\ \E p \in Profiles : files = whole(p)
    /\ marker = None /\ pointer = FALSE
    /\ journal = [state |-> "NONE", before |-> files, after |-> files, profile |-> None, active |-> None]
    /\ token = None /\ pc = "idle" /\ next = 1
    /\ edits = 0 /\ faults = 0 /\ kept = {} /\ late = FALSE

goto(label) == pc' = label /\ late' = FALSE /\ UNCHANGED <<token, edits, faults, kept>>
state(s) == journal' = [journal EXCEPT !.state = s]

\* _replace(): the next file gets new content, whatever it holds by now.
replace(content) ==
    /\ files' = [files EXCEPT ![next] = content] /\ next' = next + 1
    /\ kept' = IF late THEN kept \ {next} ELSE kept
    /\ late' = FALSE
    /\ UNCHANGED <<marker, pointer, journal, token, edits, faults>>

-----------------------------------------------------------------------------
(* save_current(), preview() and apply().  Every operation recovers first.   *)

\* The current files become a profile, known by its content, and the active one.
save_current(p) ==
    /\ pc = "idle" /\ ~pointer
    /\ files = whole(p) /\ marker # p
    /\ marker' = p
    /\ goto("idle") /\ UNCHANGED <<files, pointer, journal, next>>

preview(p) ==
    /\ pc = "idle" /\ ~pointer
    /\ token' = [profile |-> p, files |-> files]
    /\ UNCHANGED <<disk, pc, next, edits, faults, kept, late>>

\* The copies of the files and the journal: nothing points to them yet.
Prepare ==
    /\ pc = "idle" /\ ~pointer
    /\ token # None /\ token.files = files
    /\ journal' = [state |-> "PREPARED", before |-> files, after |-> whole(token.profile),
                   profile |-> token.profile, active |-> marker]
    /\ pc' = "point" /\ kept' = {}
    /\ UNCHANGED <<files, marker, pointer, token, next, edits, faults, late>>

Point ==
    /\ pc = "point"
    /\ pointer' = TRUE /\ next' = 1
    /\ goto("install") /\ UNCHANGED <<files, marker, journal>>

\* What the files must be when the first next - 1 are written.
expected == [f \in Files |-> IF f < next THEN journal.after[f] ELSE journal.before[f]]

\* require_bytes() finds every file as expected.
Compare ==
    /\ pc = "install" /\ next <= N /\ files = expected
    /\ goto("write") /\ UNCHANGED <<disk, next>>

Install ==
    /\ pc = "write"
    /\ replace(journal.after[next])
    /\ pc' = "install"

Mark ==
    /\ pc = "install" /\ next > N /\ files = expected
    /\ marker' = journal.profile
    /\ goto("commit") /\ UNCHANGED <<files, pointer, journal, next>>

\* require_bytes(): somebody else changed a file.
Changed ==
    /\ pc = "install" /\ files # expected
    /\ goto("undo") /\ UNCHANGED <<disk, next>>

\* The commit point.
Commit ==
    /\ pc = "commit"
    /\ state("COMPLETE")
    /\ goto("clean") /\ UNCHANGED <<files, marker, pointer, next>>

\* The token is used up.
Clean ==
    /\ pc = "clean"
    /\ pointer' = FALSE /\ token' = None /\ pc' = "idle"
    /\ UNCHANGED <<files, marker, journal, next, edits, faults, kept, late>>

-----------------------------------------------------------------------------
(* _recover() and _rollback().                                               *)

outcome == IF journal.state = "COMPLETE" THEN journal.after ELSE journal.before

\* Faulty variant: a rollback under way is taken for a finished one.
recover_rolling_back ==
    /\ pc = "idle" /\ pointer /\ journal.state \in {"COMPLETE", "ROLLED_BACK", "ROLLING_BACK"}
    /\ pointer' = FALSE
    /\ goto("idle") /\ UNCHANGED <<files, marker, journal, next>>

\* The transaction had ended; if its files were changed since, the pointer stays.
RecoverEnded ==
    /\ pc = "idle" /\ pointer /\ journal.state \in {"COMPLETE", "ROLLED_BACK"}
    /\ files = outcome
    /\ pointer' = FALSE
    /\ goto("idle") /\ UNCHANGED <<files, marker, journal, next>>

\* Faulty variant: only a transaction is undone that was not being undone before.
recover_prepared ==
    /\ pc = "idle" /\ pointer /\ journal.state = "PREPARED"
    /\ goto("undo") /\ UNCHANGED <<disk, next>>

RecoverBegun ==
    /\ pc = "idle" /\ pointer /\ journal.state \in {"PREPARED", "ROLLING_BACK"}
    /\ goto("undo") /\ UNCHANGED <<disk, next>>

Ours(f) == files[f] \in {journal.before[f], journal.after[f]}

\* Persist the intent, unless a file was changed by somebody else.
Undo ==
    /\ pc = "undo"
    /\ IF \A f \in Files : Ours(f)
       THEN state("ROLLING_BACK") /\ next' = 1 /\ goto("restore")
       ELSE goto("idle") /\ UNCHANGED <<journal, next>>
    /\ UNCHANGED <<files, marker, pointer>>

\* Faulty variant: the files were compared before, and are not compared again.
restore_unchecked ==
    /\ pc = "restore" /\ next <= N
    /\ goto("rewrite") /\ UNCHANGED <<disk, next>>

CompareAgain ==
    /\ pc = "restore" /\ next <= N
    /\ goto(IF Ours(next) THEN "rewrite" ELSE "idle") /\ UNCHANGED <<disk, next>>

Restore ==
    /\ pc = "rewrite"
    /\ replace(journal.before[next])
    /\ pc' = "restore"

Unmark ==
    /\ pc = "restore" /\ next > N
    /\ marker' = journal.active
    /\ goto("undone") /\ UNCHANGED <<files, pointer, journal, next>>

Undone ==
    /\ pc = "undone"
    /\ state("ROLLED_BACK")
    /\ goto("unpoint") /\ UNCHANGED <<files, marker, pointer, next>>

Unpoint ==
    /\ pc = "unpoint"
    /\ pointer' = FALSE
    /\ goto("idle") /\ UNCHANGED <<files, marker, journal, next>>

-----------------------------------------------------------------------------
(* What may go wrong, and the others.                                        *)

Fault == faults < MaxFaults /\ faults' = faults + 1

\* Faulty variant: the rollback also covers what follows the commit point.
handler_undoes_commit == IF pc \in {"install", "write", "commit", "clean"} THEN "undo" ELSE "idle"

\* Where an exception leads: into the rollback, or out of the operation.
handler == IF pc \in {"install", "write", "commit"} THEN "undo" ELSE "idle"

\* A write fails.
WriteFails ==
    /\ pc \notin {"idle", "down"}
    /\ Fault
    /\ pc' = handler /\ late' = FALSE
    /\ token' = IF pc = "clean" THEN None ELSE token
    /\ UNCHANGED <<disk, next, edits, kept>>

\* The panel dies: the files stay.
Dies ==
    /\ pc # "down"
    /\ Fault
    /\ pc' = "down" /\ token' = None /\ late' = FALSE
    /\ UNCHANGED <<disk, next, edits, kept>>

Opens ==
    /\ pc = "down"
    /\ goto("idle") /\ UNCHANGED <<disk, next>>

\* Somebody edits a file, or puts a profile's content into it.
Edit(f, c) ==
    /\ edits < MaxEdits /\ files[f] # c
    /\ files' = [files EXCEPT ![f] = c]
    /\ edits' = edits + 1
    /\ kept' = IF c \in Nat THEN kept \cup {f} ELSE kept \ {f}
    /\ late' = (late \/ (pc \in {"write", "rewrite"} /\ f = next))
    /\ UNCHANGED <<marker, pointer, journal, token, pc, next, faults>>

Panel == \/ Point \/ Compare \/ Install \/ Mark \/ Changed \/ Commit \/ Clean
         \/ RecoverEnded \/ RecoverBegun \/ Undo \/ CompareAgain \/ Restore \/ Unmark
         \/ Undone \/ Unpoint
         \/ Opens

Next == \/ Panel \/ Prepare \/ WriteFails \/ Dies
        \/ \E p \in Profiles : save_current(p) \/ preview(p)
        \/ \E f \in Files, c \in Profiles \cup {edits + 1} : Edit(f, c)

\* The panel runs, is opened again and used; nobody has to switch anything.
Spec == Init /\ [][Next]_vars /\ WF_vars(Panel)

-----------------------------------------------------------------------------
(* Properties.                                                               *)

\* When no transaction is pending, no matter how many writes failed, how often the
\* panel died or which rollback was cut short, the files belong to one profile,
\* and active.json names no other one.
SwitchIsAtomic ==
    ~pointer /\ edits = 0 =>
        \E p \in Profiles : files = whole(p) /\ marker \in {None, p}

\* An edit made by somebody else after the user's confirmation is overwritten by
\* neither the switch nor its rollback, with one exception: an edit of the file
\* about to be written, made after its comparison and before its rename, is lost
\* if the rename succeeds.  If that write fails, the edit survives the rollback.
EditsSurvive == \A f \in kept : files[f] \in Nat

\* "COMPLETE is the commit point": no failure after it and no later recovery undoes
\* the switch, although its pointer may still be there.
CommitIsFinal == [][journal.state = "COMPLETE" => journal'.state # "ROLLING_BACK"]_vars

\* A transaction that was begun is finished or undone, unless somebody else's edit
\* stands in the way.
Recovers == pointer ~> ~pointer \/ edits > 0

=============================================================================
