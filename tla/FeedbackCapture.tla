--------------------------- MODULE FeedbackCapture ---------------------------
(***************************************************************************)
(* The read-only wheel feedback capture: main() and FeedbackPoller of      *)
(* src/wc_motion/feedback_transport.py, composed with its journal.  Main   *)
(* is the journal's only caller; the writer thread runs beside it, so the  *)
(* journal may fail between any two of main's steps.                       *)
(*                                                                         *)
(* A record is its event kind; an exchange is answered or fails, with or   *)
(* without having transmitted its query.  Modelled is the capture with     *)
(* --async-journal and a sample count.                                     *)
(***************************************************************************)
EXTENDS AsyncJournal, FiniteSets

CONSTANTS
    Samples,    \* args.samples
    Preview,    \* --preview-history-calibration
    Recorder    \* --require-recorder

ASSUME CaptureAssumption ==
    Samples \in Nat \ {0} /\ Preview \in BOOLEAN /\ Recorder \in BOOLEAN

VARIABLES
    pc,         \* where main() is
    log,        \* the kind of each accepted record
    completed,
    sent,       \* queries transmitted
    stopped,    \* a signal was received
    result,     \* "ok", "failed" (result = 1), or an exception is on its way out
    summary     \* the summary file: "none", "failed" or "synchronized"

main == <<pc, log, completed, sent, result, summary>>
all == <<vars, main, stopped>>

CaptureInit ==
    /\ Init
    /\ pc = "open" /\ log = <<>> /\ completed = 0 /\ sent = 0
    /\ stopped = FALSE /\ result = "ok" /\ summary = "none"

-----------------------------------------------------------------------------
(* The calls main() makes.                                                   *)

\* journal(record) returns.
journal(event) == Accept /\ log' = Append(log, event)

\* journal(record) raises: it refuses the record, or is closed already.
journal_raises ==
    /\ \/ Refuse
       \/ closing /\ UNCHANGED vars
    /\ UNCHANGED log

\* safe_journal(record)
safe_journal(event) ==
    \/ journal(event) /\ UNCHANGED result
    \/ journal_raises /\ result' = IF result = "ok" THEN "failed" ELSE result

check_journal == ~closing

Goto(label) == pc' = label

\* A step of main() that leaves the journal alone.
Quiet == UNCHANGED <<vars, log>>

Rest == UNCHANGED <<completed, sent, stopped, summary>>

fails == result' = IF result = "ok" THEN "failed" ELSE result

-----------------------------------------------------------------------------
(* The capture.                                                              *)

\* ROS set-up, waiting for the recorder, and lease.open().
Open == /\ pc = "open" /\ Goto("opened")
        /\ Quiet /\ Rest /\ UNCHANGED result

Opened == /\ pc = "opened" /\ journal("lease_open") /\ Goto("loop")
          /\ Rest /\ UNCHANGED result

LoopAgain == /\ pc = "loop" /\ completed < Samples /\ ~stopped
             /\ Goto("plan")
             /\ Quiet /\ Rest /\ UNCHANGED result

\* Enough samples, a signal, or the duration is over.
LoopEnds == /\ pc = "loop" /\ Goto("verdict")
            /\ Quiet /\ Rest /\ UNCHANGED result

\* Faulty variant: the number of samples is not compared.
verdict_generous == /\ pc = "verdict" /\ Goto("finish")
                    /\ Quiet /\ Rest /\ UNCHANGED result

Verdict == /\ pc = "verdict"
           /\ Goto(IF stopped \/ completed = Samples THEN "finish" ELSE "failed")
           /\ Quiet /\ Rest /\ UNCHANGED result

\* sample(): the request is planned, checked, sent, and its answer recorded.
Plan == /\ pc = "plan" /\ check_journal /\ journal("planned") /\ Goto("planned")
        /\ Rest /\ UNCHANGED result

Planned == /\ pc = "planned" /\ check_journal /\ Goto("exchange")
           /\ Quiet /\ Rest /\ UNCHANGED result

Exchange == /\ pc = "exchange" /\ sent' = sent + 1 /\ Goto("answered")
            /\ Quiet /\ UNCHANGED <<completed, stopped, summary, result>>

ExchangeFails == /\ pc = "exchange" /\ sent' \in {sent, sent + 1} /\ Goto("unanswered")
                 /\ Quiet /\ UNCHANGED <<completed, stopped, summary, result>>

\* Faulty variant: a failed transaction is recorded and the stream goes on.
unanswered_retries == /\ pc = "unanswered" /\ journal("transaction_failed") /\ Goto("loop")
                      /\ Rest /\ UNCHANGED result

\* The failure is recorded if the journal still accepts it; it ends the stream.
Unanswered == /\ pc = "unanswered" /\ Goto("failed")
              /\ \/ journal("transaction_failed")
                 \/ journal_raises
              /\ Rest /\ UNCHANGED result

Answered == /\ pc = "answered" /\ check_journal /\ journal("complete") /\ Goto("confirm")
            /\ Rest /\ UNCHANGED result

\* The checks after the record, in sample() and in main().
Confirm == /\ pc = "confirm" /\ check_journal
           /\ completed' = completed + 1 /\ Goto("publish")
           /\ Quiet /\ UNCHANGED <<sent, stopped, summary, result>>

Publish == /\ pc = "publish" /\ Goto(IF Preview THEN "preview" ELSE "pace")
           /\ Quiet /\ Rest /\ UNCHANGED result

PublishPreview == /\ pc = "preview" /\ journal("preview") /\ Goto("pace")
                  /\ Rest /\ UNCHANGED result

\* Until the next sample is due the journal is checked every 20 ms; a delayed
\* sample is due at once.
Pace == /\ pc = "pace" /\ Goto("loop")
        /\ Quiet /\ Rest /\ UNCHANGED result

Finish == /\ pc = "finish" /\ journal("capture_complete") /\ Goto("release")
          /\ Rest /\ UNCHANGED result

\* A journal that refuses a record ends the capture.
RecordRefused == /\ pc \in {"opened", "plan", "answered", "preview", "finish"}
                 /\ journal_raises /\ Goto("failed")
                 /\ Rest /\ UNCHANGED result

\* So does a check that finds it unhealthy.
CheckFails == /\ pc \in {"planned", "confirm", "pace"}
              /\ ~check_journal /\ Goto("failed")
              /\ Quiet /\ Rest /\ UNCHANGED result

\* And an exception of ROS, of the recorder wait, of lease.open() or of the preview.
CallFails == /\ pc \in {"open", "publish", "preview", "pace"} /\ Goto("failed")
             /\ Quiet /\ Rest /\ UNCHANGED result

-----------------------------------------------------------------------------
(* The end: the failure is recorded, the lease returned, the journal closed. *)

Failed == /\ pc = "failed" /\ fails /\ Goto(IF Preview THEN "blocked" ELSE "failure")
          /\ Quiet /\ Rest

\* The preview is blocked; publishing that may raise out of the handler.
Blocked == /\ pc = "blocked"
           /\ \/ safe_journal("preview_blocked") /\ Goto("failure")
              \/ /\ \/ journal("preview_blocked") \/ journal_raises
                 /\ result' = "raised" /\ Goto("release")
           /\ Rest

Failure == /\ pc = "failure" /\ safe_journal("capture_failed") /\ Goto("release")
           /\ Rest

\* lease.close()
Release == /\ pc = "release" /\ Goto(IF Preview THEN "ended" ELSE "released")
           /\ Quiet /\ Rest /\ UNCHANGED result

PreviewEnds == /\ pc = "ended" /\ safe_journal("preview_end") /\ Goto("released")
               /\ Rest

Released == /\ pc = "released" /\ safe_journal("lease_closed")
            /\ Goto(IF Recorder THEN "ack" ELSE "close")
            /\ Rest

\* The recorder acknowledged every publication.
Acknowledged == /\ pc = "ack" /\ safe_journal("publication_ack") /\ Goto("close")
                /\ Rest

\* It did not.
Unacknowledged == /\ pc = "ack" /\ fails /\ Goto("close")
                  /\ \/ journal("publication_ack") \/ journal_raises
                  /\ Rest

\* lease.close() or a publication raises: the rest of the handler is skipped.
ReleaseFails == /\ pc \in {"release", "ack"} \/ (Preview /\ pc = "released")
                /\ fails /\ Goto("close")
                /\ Quiet /\ Rest

Close == /\ pc = "close" /\ CloseBegins /\ Goto("join")
         /\ Rest /\ UNCHANGED <<log, result>>

Joined == /\ pc = "join" /\ Goto("summary")
          /\ CloseReturns \/ CloseTimesOut
          /\ result' = IF outcome' = "failed" /\ result = "ok" THEN "failed" ELSE result
          /\ Rest /\ UNCHANGED log

\* The summary is written, unless an exception is on its way out.
Summarize == /\ pc = "summary" /\ Goto("done")
             /\ summary' = CASE result = "raised" -> "none"
                             [] result = "ok" /\ synced -> "synchronized"
                             [] OTHER -> "failed"
             /\ Quiet /\ UNCHANGED <<completed, sent, stopped, result>>

SummaryFails == /\ pc = "summary" /\ Goto("done")
                /\ Quiet /\ Rest /\ UNCHANGED result

-----------------------------------------------------------------------------

\* stop(): SIGINT or SIGTERM.
Signal == /\ ~stopped /\ stopped' = TRUE /\ UNCHANGED <<vars, main>>

Main ==
    \/ Open \/ Opened \/ LoopAgain \/ LoopEnds \/ Verdict
    \/ Plan \/ Planned \/ Exchange \/ ExchangeFails \/ Unanswered \/ Answered \/ Confirm
    \/ Publish \/ PublishPreview \/ Pace \/ Finish
    \/ RecordRefused \/ CheckFails \/ CallFails
    \/ Failed \/ Blocked \/ Failure \/ Release \/ PreviewEnds \/ Released
    \/ Acknowledged \/ Unacknowledged \/ ReleaseFails \/ Close \/ Joined
    \/ Summarize \/ SummaryFails

\* The writer thread.
Writer == Worker /\ UNCHANGED <<main, stopped>>

CaptureNext == Main \/ Writer \/ Signal

CaptureSpec == CaptureInit /\ [][CaptureNext]_all /\ WF_all(Writer)

-----------------------------------------------------------------------------
(* Properties.                                                               *)

Labels == {"open", "opened", "loop", "verdict", "plan", "planned", "exchange", "answered",
           "unanswered", "confirm", "publish", "preview", "pace", "finish", "failed", "blocked",
           "failure", "release", "ended", "released", "ack", "close", "join", "summary", "done"}

Events == {"lease_open", "planned", "complete", "transaction_failed", "preview",
           "capture_complete", "preview_blocked", "capture_failed", "preview_end",
           "lease_closed", "publication_ack"}

\* Type correctness of the capture's own state.
CaptureTypeOK ==
    /\ pc \in Labels /\ log \in Seq(Events) /\ Len(log) = enqueued
    /\ completed \in 0..Samples /\ sent \in 0..Samples
    /\ stopped \in BOOLEAN
    /\ result \in {"ok", "failed", "raised"}
    /\ summary \in {"none", "failed", "synchronized"}

Round == <<"planned", "complete">> \o (IF Preview THEN <<"preview">> ELSE <<>>)

\* A whole session of n samples, as the file should hold it.
Session(n) ==
    <<"lease_open">>
    \o [i \in 1..(n * Len(Round)) |-> Round[((i - 1) % Len(Round)) + 1]]
    \o <<"capture_complete">>
    \o (IF Preview THEN <<"preview_end">> ELSE <<>>)
    \o <<"lease_closed">>
    \o (IF Recorder THEN <<"publication_ack">> ELSE <<>>)

\* A summary that says synchronized belongs to a file that holds exactly the
\* whole session: every sample asked for (or up to the signal), planned before
\* it was answered, and the closing records; nothing refused, lost or repeated.
SynchronizedIsWhole ==
    summary = "synchronized" =>
        /\ completed = Samples \/ stopped
        /\ [i \in 1..Len(file) |-> log[file[i]]] = Session(completed)

Count(event) == Cardinality({i \in 1..Len(log) : log[i] = event})

\* Every transmitted query was recorded as planned first, and at most the last
\* one is unanswered: a failed or unlogged stream sends nothing more.
QueriesAccounted ==
    /\ sent <= Count("planned")
    /\ Count("planned") <= Count("complete") + 1
    /\ pc \in {"plan", "planned"} => sent = Count("complete")

=============================================================================
