------------------------- MODULE MCInteractiveWindow -------------------------
(* Small instances of InteractiveWindow for TLC. *)
EXTENDS InteractiveWindow

=============================================================================
