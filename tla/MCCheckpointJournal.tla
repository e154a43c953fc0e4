-------------------------- MODULE MCCheckpointJournal --------------------------
(* Small instances of CheckpointJournal for TLC. *)
EXTENDS CheckpointJournal

=============================================================================
