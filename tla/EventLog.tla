------------------------------ MODULE EventLog ------------------------------
(***************************************************************************)
(* What a journal promises its callers: events are numbered as they are    *)
(* accepted, the stored events are always the first ones accepted, and a   *)
(* close that reports completion has stored every one of them and is final.*)
(* A close that reports a failure promises nothing more than the prefix:   *)
(* the writer may still be storing.                                        *)
(***************************************************************************)
EXTENDS Naturals

VARIABLES
    accepted,   \* how many events were accepted
    stored,     \* how many of them, the first ones, are in the file
    outcome     \* "open", or what close() reported: "complete" or "failed"

vars == <<accepted, stored, outcome>>

Init == accepted = 0 /\ stored = 0 /\ outcome = "open"

Accept == /\ outcome = "open"
          /\ accepted' = accepted + 1
          /\ UNCHANGED <<stored, outcome>>

Store == /\ outcome # "complete"
         /\ stored' \in (stored + 1)..accepted
         /\ UNCHANGED <<accepted, outcome>>

Complete == /\ outcome = "open"
            /\ stored = accepted
            /\ outcome' = "complete"
            /\ UNCHANGED <<accepted, stored>>

Fail == /\ outcome = "open"
        /\ outcome' = "failed"
        /\ UNCHANGED <<accepted, stored>>

Next == Accept \/ Store \/ Complete \/ Fail

Spec == Init /\ [][Next]_vars

=============================================================================
