---------------------------- MODULE MCMapRetention ----------------------------
(* Small instances of MapRetention for TLC. *)
EXTENDS MapRetention, TLC

CONSTANTS r1, r2, r3, d1, d2

MCRuns == {r1, r2, r3}
MCDests == {d1, d2}

\* Runs and destinations are interchangeable.
Symmetric == Permutations(MCRuns) \cup Permutations(MCDests)

=============================================================================
