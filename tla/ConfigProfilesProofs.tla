------------------------ MODULE ConfigProfilesProofs ------------------------
(***************************************************************************)
(* Profile switches for every number of files, profiles, edits and faults. *)
(* The inductive invariant says what each position of the panel and each   *)
(* state of the journal tell of the files, the marker and the pointer.     *)
(***************************************************************************)
EXTENDS ConfigProfiles, TLAPS

USE ProfilesAssumption

States == {"NONE", "PREPARED", "ROLLING_BACK", "ROLLED_BACK", "COMPLETE"}
Positions == {"idle", "down", "point", "install", "write", "commit", "clean", "undo", "restore",
              "rewrite", "undone", "unpoint"}

Typed ==
    /\ files \in [Files -> Contents]
    /\ journal \in [state : States, before : [Files -> Contents], after : [Files -> Profiles],
                    profile : Profiles \cup {None}, active : Profiles \cup {None}]
    /\ token # None => token.profile \in Profiles
    /\ marker \in Profiles \cup {None}
    /\ pc \in Positions /\ next \in Nat \ {0} /\ edits \in Nat /\ kept \subseteq Files

\* Where the panel is and what the journal says.
Phases ==
    /\ pc \in {"point", "install", "write", "commit"} => journal.state = "PREPARED"
    /\ pc = "undo" => journal.state \in {"PREPARED", "ROLLING_BACK"}
    /\ pc \in {"restore", "rewrite", "undone"} => journal.state = "ROLLING_BACK"
    /\ pc = "unpoint" => journal.state = "ROLLED_BACK"
    /\ pc = "clean" => journal.state = "COMPLETE"
    /\ pc \in {"install", "write", "commit", "undo", "restore", "rewrite", "undone"} => pointer
    /\ pc \in {"write", "rewrite"} => next <= N

\* An edit of the current transaction is newer than everything the journal knows, and
\* the file about to be written holds none, unless it came after the comparison.
Fresh ==
    /\ \A f \in Files : files[f] \in Nat => files[f] <= edits
    /\ \A f \in Files : journal.before[f] \in Nat => journal.before[f] <= edits
    /\ \A f \in kept : files[f] \in Nat /\ files[f] # journal.before[f]
    /\ pc \in {"write", "rewrite"} /\ next \in kept => late

\* The files belong to one profile, and the marker names no other one.
Settled == \E p \in Profiles : files = whole(p) /\ marker \in {None, p}

\* Without edits: what the journal and the position say of the files.
Unedited ==
    /\ journal.state # "NONE" =>
          /\ \E p \in Profiles : journal.before = whole(p) /\ journal.active \in {None, p}
          /\ journal.profile \in Profiles /\ journal.after = whole(journal.profile)
    /\ ~pointer => Settled
    /\ pc = "point" => files = journal.before /\ marker = journal.active
    /\ pc \in {"install", "write"} => files = expected
    /\ pc = "commit" \/ journal.state = "COMPLETE" => files = journal.after /\ marker = journal.profile
    /\ pc \in {"restore", "rewrite"} => \A f \in Files : f < next => files[f] = journal.before[f]
    /\ pc = "undone" => files = journal.before /\ marker = journal.active
    /\ journal.state = "ROLLED_BACK" => Settled

PInv == Typed /\ Phases /\ Fresh /\ (edits = 0 => Unedited)

-----------------------------------------------------------------------------

\* A panel without a transaction satisfies the invariant.
LEMMA ProfilesInit == Init => PInv
<1> SUFFICES ASSUME Init PROVE PInv
  OBVIOUS
<1>1. PICK p \in Profiles : files = whole(p)
  BY DEF Init
<1>2. Typed
  BY <1>1 DEF Init, Typed, Contents, whole, States, Positions
<1>3. Phases /\ Fresh
  BY <1>1 DEF Init, Phases, Fresh, whole
<1>4. Unedited
  BY <1>1 DEF Init, Unedited, Settled
<1> QED
  BY <1>2, <1>3, <1>4 DEF PInv

\* Every step keeps the types.
LEMMA StepTyped == PInv /\ [Next]_vars => Typed'
<1> SUFFICES ASSUME PInv, [Next]_vars PROVE Typed'
  OBVIOUS
<1> USE DEF PInv, Typed, goto, state, disk, States, Positions
<1>1. CASE Point
  BY <1>1 DEF Point
<1>2. CASE Install
  <2>1. next \in Files /\ journal.after[next] \in Contents
    BY <1>2 DEF Install, Phases, Files, Contents
  <2>2. files' \in [Files -> Contents]
    BY <1>2, <2>1 DEF Install, replace
  <2> QED
    BY <1>2, <2>2 DEF Install, replace
<1>3. CASE Mark
  BY <1>3 DEF Mark
<1>4. CASE Changed
  BY <1>4 DEF Changed
<1>5. CASE Commit
  BY <1>5 DEF Commit
<1>6. CASE Clean
  BY <1>6 DEF Clean
<1>7. CASE RecoverEnded
  BY <1>7 DEF RecoverEnded
<1>8. CASE RecoverBegun
  BY <1>8 DEF RecoverBegun
<1>9. CASE Undo
  BY <1>9 DEF Undo
<1>10. CASE Restore
  <2>1. next \in Files /\ journal.before[next] \in Contents
    BY <1>10 DEF Restore, Phases, Files
  <2>2. files' \in [Files -> Contents]
    BY <1>10, <2>1 DEF Restore, replace
  <2> QED
    BY <1>10, <2>2 DEF Restore, replace
<1>11. CASE Unmark
  BY <1>11 DEF Unmark
<1>12. CASE Undone
  BY <1>12 DEF Undone
<1>13. CASE Unpoint
  BY <1>13 DEF Unpoint
<1>14. CASE Opens
  BY <1>14 DEF Opens
<1>15. CASE Prepare
  BY <1>15 DEF Prepare, whole
<1>16. CASE WriteFails
  BY <1>16 DEF WriteFails, handler
<1>17. CASE Dies
  BY <1>17 DEF Dies
<1>18. ASSUME NEW p \in Profiles, save_current(p) \/ preview(p) PROVE Typed'
  <2>1. CASE save_current(p)
    BY <2>1 DEF save_current
  <2>2. CASE preview(p)
    BY <2>2 DEF preview
  <2> QED
    BY <1>18, <2>1, <2>2
<1>19. ASSUME NEW f \in Files, NEW c \in Profiles \cup {edits + 1}, Edit(f, c) PROVE Typed'
  BY <1>19 DEF Edit, Contents
<1>20. CASE Compare
  BY <1>20 DEF Compare
<1>21. CASE CompareAgain
  BY <1>21 DEF CompareAgain
<1>22. CASE UNCHANGED vars
  BY <1>22 DEF vars
<1> QED
  BY <1>1, <1>2, <1>3, <1>4, <1>5, <1>6, <1>7, <1>8, <1>9, <1>10, <1>11, <1>12, <1>13, <1>14,
     <1>15, <1>16, <1>17, <1>18, <1>19, <1>20, <1>21, <1>22 DEF Next, Panel

\* Every step leaves files, marker and journal as its next position expects them.
LEMMA StepPhases == PInv /\ [Next]_vars => Phases'
<1> SUFFICES ASSUME PInv, [Next]_vars PROVE Phases'
  OBVIOUS
<1> USE DEF PInv, Typed, Phases, goto, state, disk, States, Positions
<1>1. CASE Point
  BY <1>1 DEF Point
<1>2. CASE Install
  BY <1>2 DEF Install, replace
<1>3. CASE Mark
  BY <1>3 DEF Mark
<1>4. CASE Changed
  BY <1>4 DEF Changed
<1>5. CASE Commit
  BY <1>5 DEF Commit
<1>6. CASE Clean
  BY <1>6 DEF Clean
<1>7. CASE RecoverEnded
  BY <1>7 DEF RecoverEnded
<1>8. CASE RecoverBegun
  BY <1>8 DEF RecoverBegun
<1>9. CASE Undo
  BY <1>9 DEF Undo
<1>10. CASE Restore
  BY <1>10 DEF Restore, replace
<1>11. CASE Unmark
  BY <1>11 DEF Unmark
<1>12. CASE Undone
  BY <1>12 DEF Undone
<1>13. CASE Unpoint
  BY <1>13 DEF Unpoint
<1>14. CASE Opens
  BY <1>14 DEF Opens
<1>15. CASE Prepare
  BY <1>15 DEF Prepare
<1>16. CASE WriteFails
  BY <1>16 DEF WriteFails, handler
<1>17. CASE Dies
  BY <1>17 DEF Dies
<1>18. ASSUME NEW p \in Profiles, save_current(p) \/ preview(p) PROVE Phases'
  BY <1>18 DEF save_current, preview
<1>19. ASSUME NEW f \in Files, NEW c \in Profiles \cup {edits + 1}, Edit(f, c) PROVE Phases'
  BY <1>19 DEF Edit, Contents
<1>20. CASE Compare
  BY <1>20 DEF Compare
<1>21. CASE CompareAgain
  BY <1>21 DEF CompareAgain
<1>22. CASE UNCHANGED vars
  BY <1>22 DEF vars
<1> QED
  BY <1>1, <1>2, <1>3, <1>4, <1>5, <1>6, <1>7, <1>8, <1>9, <1>10, <1>11, <1>12, <1>13, <1>14,
     <1>15, <1>16, <1>17, <1>18, <1>19, <1>20, <1>21, <1>22 DEF Next, Panel

\* Every step keeps the edits of a transaction newer than what its journal knows.
LEMMA StepFresh == PInv /\ [Next]_vars => Fresh'
<1> SUFFICES ASSUME PInv, [Next]_vars PROVE Fresh'
  OBVIOUS
<1> USE DEF PInv, Typed, Fresh, goto, state, disk
<1>1. CASE Point
  BY <1>1 DEF Point
<1>2. CASE Install
  BY <1>2 DEF Install, replace, Phases, Files
<1>3. CASE Mark
  BY <1>3 DEF Mark
<1>4. CASE Changed
  BY <1>4 DEF Changed
<1>5. CASE Commit
  BY <1>5 DEF Commit
<1>6. CASE Clean
  BY <1>6 DEF Clean
<1>7. CASE RecoverEnded
  BY <1>7 DEF RecoverEnded
<1>8. CASE RecoverBegun
  BY <1>8 DEF RecoverBegun
<1>9. CASE Undo
  BY <1>9 DEF Undo
<1>10. CASE Restore
  BY <1>10 DEF Restore, replace, Phases, Files
<1>11. CASE Unmark
  BY <1>11 DEF Unmark
<1>12. CASE Undone
  BY <1>12 DEF Undone
<1>13. CASE Unpoint
  BY <1>13 DEF Unpoint
<1>14. CASE Opens
  BY <1>14 DEF Opens
<1>15. CASE Prepare
  BY <1>15 DEF Prepare
<1>16. CASE WriteFails
  BY <1>16 DEF WriteFails, handler
<1>17. CASE Dies
  BY <1>17 DEF Dies
<1>18. ASSUME NEW p \in Profiles, save_current(p) \/ preview(p) PROVE Fresh'
  BY <1>18 DEF save_current, preview
<1>19. ASSUME NEW f \in Files, NEW c \in Profiles \cup {edits + 1}, Edit(f, c) PROVE Fresh'
  <2>1. pc \in {"write", "rewrite"} /\ next \in kept' => late'
    <3>1. CASE f = next
      BY <1>19, <3>1, Zenon DEF Edit
    <3>2. CASE f # next
      <4>1. next \in kept' => next \in kept
        BY <1>19, <3>2 DEF Edit
      <4> QED
        BY <1>19, <4>1, Zenon DEF Edit
    <3> QED
      BY <3>1, <3>2
  <2>2. /\ \A g \in Files : files'[g] \in Nat => files'[g] <= edits'
        /\ \A g \in Files : journal'.before[g] \in Nat => journal'.before[g] <= edits'
        /\ \A g \in kept' : files'[g] \in Nat /\ files'[g] # journal'.before[g]
    BY <1>19 DEF Edit, Contents
  <2>3. pc' = pc /\ next' = next
    BY <1>19 DEF Edit
  <2> QED
    BY <2>1, <2>2, <2>3
<1>20. CASE Compare
  <2>1. files[next] = journal.before[next]
    BY <1>20 DEF Compare, expected, Files
  <2> QED
    BY <1>20, <2>1 DEF Compare
<1>21. CASE CompareAgain
  <2>1. pc' = "rewrite" => next \notin kept
    <3>1. pc' = "rewrite" => Ours(next)
      BY <1>21 DEF CompareAgain
    <3>2. next \in kept => next \in Files /\ files[next] \in Nat /\ files[next] # journal.before[next]
      OBVIOUS
    <3>3. next \in Files => journal.after[next] \notin Nat
      OBVIOUS
    <3> QED
      BY <3>1, <3>2, <3>3 DEF Ours
  <2> QED
    BY <1>21, <2>1 DEF CompareAgain
<1>22. CASE UNCHANGED vars
  BY <1>22 DEF vars
<1> QED
  BY <1>1, <1>2, <1>3, <1>4, <1>5, <1>6, <1>7, <1>8, <1>9, <1>10, <1>11, <1>12, <1>13, <1>14,
     <1>15, <1>16, <1>17, <1>18, <1>19, <1>20, <1>21, <1>22 DEF Next, Panel

\* Without edits: one step per action, for the parts it can disturb.
LEMMA StepUnedited == PInv /\ [Next]_vars /\ edits' = 0 => Unedited'
<1> SUFFICES ASSUME PInv, [Next]_vars, edits' = 0 PROVE Unedited'
  OBVIOUS
<1> USE DEF PInv, Typed, Phases, goto, state, disk
<1>0. ASSUME NEW f \in Files, NEW c \in Profiles \cup {edits + 1}, Edit(f, c) PROVE FALSE
  BY <1>0 DEF Edit
<1>e. edits = 0 /\ Unedited
  <2>1. edits' = edits
    BY <1>0 DEF Next, Panel, Point, Compare, Install, replace, Mark, Changed, Commit, Clean,
       RecoverEnded, RecoverBegun,
       Undo, CompareAgain, Restore, Unmark, Undone, Unpoint, Opens, Prepare, WriteFails, Dies, save_current, preview, vars
  <2> QED
    BY <2>1
<1>1. CASE Point
  <2>1. files' = expected'
    BY <1>1, <1>e DEF Point, Unedited, expected, Files
  <2> QED
    BY <1>1, <1>e, <2>1 DEF Point, Unedited, Settled
<1>2. CASE Install
  <2>1. files' = expected'
    <3>1. \A f \in Files : files[f] = IF f < next THEN journal.after[f] ELSE journal.before[f]
      BY <1>2, <1>e DEF Install, Unedited, expected
    <3>2. \A f \in Files : f < next + 1 <=> f < next \/ f = next
      BY DEF Files
    <3>3. files' = [f \in Files |-> IF f = next THEN journal.after[f] ELSE files[f]]
      BY <1>2 DEF Install, replace
    <3>4. \A f \in Files : files'[f] = IF f < next + 1 THEN journal.after[f] ELSE journal.before[f]
      BY <3>1, <3>2, <3>3 DEF Files
    <3>5. next' = next + 1 /\ journal' = journal
      BY <1>2 DEF Install, replace
    <3>6. files' = [f \in Files |-> IF f < next + 1 THEN journal.after[f] ELSE journal.before[f]]
      BY <3>3, <3>4
    <3> QED
      BY <3>5, <3>6 DEF expected
  <2> QED
    BY <1>2, <1>e, <2>1 DEF Install, replace, Unedited, Settled
<1>3. CASE Mark
  <2>1. files = journal.after
    BY <1>3 DEF Mark, expected, Files
  <2> QED
    BY <1>3, <1>e, <2>1 DEF Mark, Unedited, Settled
<1>4. CASE Changed
  BY <1>4, <1>e DEF Changed, Unedited, Settled
<1>5. CASE Commit
  BY <1>5, <1>e DEF Commit, Unedited, Settled
<1>6. CASE Clean
  BY <1>6, <1>e DEF Clean, Unedited, Settled
<1>7. CASE RecoverEnded
  BY <1>7, <1>e DEF RecoverEnded, Unedited, Settled
<1>8. CASE RecoverBegun
  BY <1>8, <1>e DEF RecoverBegun, Unedited, Settled
<1>9. CASE Undo
  <2>1. pc' = "restore" => \A f \in Files : ~(f < next')
    BY <1>9 DEF Undo, Files
  <2> QED
    BY <1>9, <1>e, <2>1 DEF Undo, Unedited, Settled
<1>10. CASE Restore
  <2>1. \A f \in Files : f < next => files[f] = journal.before[f]
    BY <1>10, <1>e DEF Restore, Unedited
  <2>2. pc' = "restore" => \A f \in Files : f < next' => files'[f] = journal.before[f]
    BY <1>10, <2>1 DEF Restore, replace, Files
  <2> QED
    BY <1>10, <1>e, <2>2 DEF Restore, replace, Unedited, Settled
<1>11. CASE Unmark
  <2>1. files = journal.before
    <3>1. \A f \in Files : files[f] = journal.before[f]
      BY <1>11, <1>e DEF Unmark, Unedited, Files
    <3> QED
      BY <3>1
  <2> QED
    BY <1>11, <1>e, <2>1 DEF Unmark, Unedited, Settled
<1>12. CASE Undone
  BY <1>12, <1>e DEF Undone, Unedited, Settled
<1>13. CASE Unpoint
  BY <1>13, <1>e DEF Unpoint, Unedited, Settled
<1>14. CASE Opens
  BY <1>14, <1>e DEF Opens, Unedited, Settled
<1>15. CASE Prepare
  BY <1>15, <1>e DEF Prepare, Unedited, Settled
<1>16. CASE WriteFails
  BY <1>16, <1>e DEF WriteFails, handler, Unedited, Settled
<1>17. CASE Dies
  BY <1>17, <1>e DEF Dies, Unedited, Settled
<1>18. ASSUME NEW p \in Profiles, save_current(p) PROVE Unedited'
  <2>1. Settled' /\ pc' = "idle" /\ pc = "idle" /\ ~pointer'
    BY <1>18 DEF save_current, Settled, whole
  <2>2. journal.state = "COMPLETE" => p = journal.profile
    <3>1. 1 \in Files
      BY DEF Files
    <3>2. journal.state = "COMPLETE" => whole(p) = whole(journal.profile)
      BY <1>18, <1>e DEF save_current, Unedited
    <3> QED
      BY <3>1, <3>2 DEF whole
  <2> QED
    BY <1>18, <1>e, <2>1, <2>2 DEF save_current, Unedited
<1>19. ASSUME NEW p \in Profiles, preview(p) PROVE Unedited'
  BY <1>19, <1>e DEF preview, Unedited, Settled
<1>20. CASE Compare
  BY <1>20, <1>e DEF Compare, Unedited, Settled, expected
<1>21. CASE CompareAgain
  BY <1>21, <1>e DEF CompareAgain, Unedited, Settled
<1>22. CASE UNCHANGED vars
  BY <1>22, <1>e DEF vars, Unedited, Settled, expected
<1> QED
  BY <1>0, <1>1, <1>2, <1>3, <1>4, <1>5, <1>6, <1>7, <1>8, <1>9, <1>10, <1>11, <1>12, <1>13, <1>14,
     <1>15, <1>16, <1>17, <1>18, <1>19, <1>20, <1>21, <1>22 DEF Next, Panel

-----------------------------------------------------------------------------

\* The inductive invariant of the profile switch.
THEOREM ProfilesInductive == Spec => []PInv
<1>1. PInv /\ [Next]_vars => PInv'
  BY StepTyped, StepPhases, StepFresh, StepUnedited DEF PInv
<1> QED
  BY <1>1, ProfilesInit, PTL DEF Spec

\* A switch of the configuration files is all or nothing, whatever fails or dies
\* in apply() and in any number of rollbacks.
THEOREM SwitchesAreAtomic == Spec => []SwitchIsAtomic
<1>1. PInv => SwitchIsAtomic
  BY DEF PInv, Unedited, Settled, SwitchIsAtomic
<1> QED
  BY <1>1, ProfilesInductive, PTL

\* Neither apply() nor _rollback() overwrites what somebody else wrote after the
\* confirmation, except in the file whose comparison is done and whose rename is next.
THEOREM EditsAlwaysSurvive == Spec => []EditsSurvive
<1>1. PInv => EditsSurvive
  BY DEF PInv, Fresh, EditsSurvive
<1> QED
  BY <1>1, ProfilesInductive, PTL

\* What the journal calls COMPLETE is never rolled back.
THEOREM CommitsAreFinal == Spec => CommitIsFinal
<1>1. PInv /\ [Next]_vars => [journal.state = "COMPLETE" => journal'.state # "ROLLING_BACK"]_vars
  <2> SUFFICES ASSUME PInv, Next, journal.state = "COMPLETE" PROVE journal'.state # "ROLLING_BACK"
    OBVIOUS
  <2> USE DEF PInv, Typed, Phases, goto, state, disk
  <2>1. CASE Undo \/ Undone \/ Commit \/ Prepare
    BY <2>1 DEF Undo, Undone, Commit, Prepare
  <2>2. CASE ~(Undo \/ Undone \/ Commit \/ Prepare)
    BY <2>2 DEF Next, Panel, Point, Compare, Install, replace, Mark, Changed, Clean, RecoverEnded,
       RecoverBegun, CompareAgain, Restore,
       Unmark, Unpoint, Opens, WriteFails, Dies, save_current, preview, Edit
  <2> QED
    BY <2>1, <2>2
<1> QED
  BY <1>1, ProfilesInductive, PTL DEF Spec, CommitIsFinal

=============================================================================
