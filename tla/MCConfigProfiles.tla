-------------------------- MODULE MCConfigProfiles --------------------------
(* Three configuration files and two profiles for TLC. *)
EXTENDS ConfigProfiles

=============================================================================
