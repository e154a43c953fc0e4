--------------------------- MODULE MCComponentTree ---------------------------
(* Small instances of ComponentTree for TLC. *)
EXTENDS ComponentTree, TLC

\* PIDs are interchangeable: the model never compares them by order.
PidSymmetry == Permutations(Pids)

=============================================================================
