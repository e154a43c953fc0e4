------------------------------ MODULE MCXtSource ------------------------------
\* The XT source with two frames, two places in its queue and one in the SDK.
EXTENDS XtSource

=============================================================================
