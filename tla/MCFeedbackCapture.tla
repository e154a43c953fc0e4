-------------------------- MODULE MCFeedbackCapture --------------------------
(* Small instances of FeedbackCapture for TLC. *)
EXTENDS FeedbackCapture

=============================================================================
