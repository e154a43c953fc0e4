---------------------------- MODULE MCWheelDrive ----------------------------
(* Small instances of WheelDrive for TLC. *)
EXTENDS WheelDrive

\* No key, one direction, another direction, and two opposing keys.
MCKeyInputs == {{}, {"w"}, {"w", "a"}, {"w", "s"}}

\* For the liveness run: no key and one direction.
MCOneDirection == {{}, {"w"}}

=============================================================================
