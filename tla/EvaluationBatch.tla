---------------------------- MODULE EvaluationBatch ---------------------------
(***************************************************************************)
(* A batch of evaluation trials, from evaluation.py: a runner that reserves*)
(* a trial in a journal, builds its authority, runs and grades it, and goes*)
(* on to the next; a timer and a caller that stop it; and the inspection   *)
(* that recovers a batch from its folder.                                  *)
(*                                                                         *)
(* The planning and the web comparison batches inherit the stops and repeat*)
(* the loop; they also look at a stop while they prepare a trial.  What an *)
(* authority does is AuthoritySession; here it only begins its actions one *)
(* by one.  A grade is what the folder of the trial shows: nothing, a trial*)
(* without a readable receipt, or one that failed or passed.               *)
(***************************************************************************)
EXTENDS Naturals, SequencesExt

CONSTANTS
  TRIALS,               \* the length of the plan
  STEPS                 \* the actions of a whole trial

ASSUME BatchAssumption == TRIALS \in Nat \ {0} /\ STEPS \in Nat

VARIABLES
  batch,                \* the runner
  folder                \* what is on disk

batching == <<batch, folder>>

NoBatchReport ==
  [status |-> "none", reason |-> "none", grades |-> <<>>, finished |-> 0, issues |-> {}]

\* An empty or truncated file.
PartialReport == [NoBatchReport EXCEPT !.status = "partial"]

\* A plain run or one of those that look at a stop while they prepare; cancelled from
\* another thread, or by a handler that interrupts the runner itself.
ReadyBatch(mode, looks, interrupts) ==
  [mode       |-> mode,         \* execute or dry_run
   looks      |-> looks,
   interrupts |-> interrupts,
   at         |-> "idle",       \* where the runner is
   trial      |-> 0,            \* the last one reserved
   stop       |-> "none",       \* _stop_reason
   expired    |-> FALSE,        \* the deadline is over
   active     |-> FALSE,        \* _active is the authority
   authority  |-> "none",       \* none, live or cancelled
   acted      |-> 0,            \* the actions it has begun
   whole      |-> FALSE,        \* its evidence is as expected
   reason     |-> IF mode = "execute" THEN "completed" ELSE "dry_run",
   report     |-> NoBatchReport,
   returned   |-> FALSE]

EmptyFolder ==
  [manifest |-> FALSE, opened |-> FALSE, journal |-> <<>>, torn |-> FALSE,
   trials |-> [n \in 1 .. TRIALS |-> "absent"], json |-> NoBatchReport, md |-> NoBatchReport]

Running == batch.at \notin {"idle", "over"}

To(place) == [batch EXCEPT !.at = place]
-----------------------------------------------------------------------------
(***************************************************************************)
(* Stopping.                                                               *)
(***************************************************************************)
\* _stop: the first reason stays, and the authority there is learns of every one.
StoppedBy(b, reason) ==
  [b EXCEPT !.stop = IF @ = "none" THEN reason ELSE @,
            !.authority = IF b.active THEN "cancelled" ELSE @]

\* _stopped
Looked(b) == IF b.expired THEN StoppedBy(b, "deadline") ELSE b

\* The lock is held while an authority is installed; the handler of a signal enters it
\* again, for it runs on the thread that holds it.
Locked == batch.at = "publishing"

DeadlinePasses ==
  /\ Running /\ ~batch.expired
  /\ batch' = [batch EXCEPT !.expired = TRUE]
  /\ UNCHANGED folder

TimerStops ==
  /\ Running /\ batch.expired /\ ~Locked
  /\ batch' = StoppedBy(batch, "deadline")
  /\ UNCHANGED folder

CancelBatch ==
  /\ batch.at # "over" /\ (batch.interrupts \/ ~Locked)
  /\ batch' = StoppedBy(batch, "cancelled")
  /\ UNCHANGED folder
-----------------------------------------------------------------------------
(***************************************************************************)
(* What is saved.  A write that fails may have reached the disk; a process *)
(* that dies in one leaves what a failed one does.  A file it has created  *)
(* may then be empty or end anywhere: that of a manifest, or of the receipt*)
(* of a trial, is read as none; that of a report has a value of its own.   *)
(***************************************************************************)
Saves(saved, next, failed) ==
  \/ folder' = saved /\ batch' = next
  \/ folder' \in {folder, saved} /\ batch' = failed

\* emit: a line of the journal may be torn.
EmitLine(line, next, failed) ==
  \/ Saves([folder EXCEPT !.journal = Append(@, line)], next, failed)
  \/ folder' = [folder EXCEPT !.torn = TRUE] /\ batch' = failed

SaveReportIn(name, report, next, failed) ==
  \/ Saves([folder EXCEPT ![name] = report], next, failed)
  \/ folder' = [folder EXCEPT ![name] = PartialReport] /\ batch' = failed

BeginBatch ==
  /\ batch.at = "idle"
  /\ batch' \in {To("manifest"), To("over")}
  /\ UNCHANGED folder

SaveManifest ==
  /\ batch.at = "manifest"
  /\ Saves([folder EXCEPT !.manifest = TRUE], To("opening"), To("over"))

OpenJournal ==
  /\ batch.at = "opening"
  /\ Saves([folder EXCEPT !.opened = TRUE],
           To(IF batch.mode = "execute" THEN "choosing" ELSE "closing"), To("over"))

\* The next trial, unless the plan is done or the batch was stopped.
Choose ==
  /\ batch.at = "choosing"
  /\ LET b == Looked(batch)
     IN  batch' = IF batch.trial = TRIALS THEN To("closing")
                  ELSE IF b.stop # "none" THEN [b EXCEPT !.at = "closing", !.reason = b.stop]
                  ELSE [b EXCEPT !.at = "reserving"]
  /\ UNCHANGED folder

Admitted == [batch EXCEPT !.at = "opening_trial", !.trial = @ + 1, !.acted = 0, !.whole = FALSE]

Started == [kind |-> "started", trial |-> batch.trial + 1, value |-> "none"]

\* As if a reservation that could not be recorded did not matter.
ReserveAnyway == batch.at = "reserving" /\ EmitLine(Started, Admitted, Admitted)

\* The whole allowance of the trial is on record before its authority is built.
ReserveTrial == batch.at = "reserving" /\ EmitLine(Started, Admitted, To("over"))
-----------------------------------------------------------------------------
(***************************************************************************)
(* One trial.                                                              *)
(***************************************************************************)
\* An exception that leaves the trial ends the batch after its grade.
TrialFails == [batch EXCEPT !.at = "grading", !.reason = "component_failed"]

OpenTrial ==
  /\ batch.at = "opening_trial"
  /\ Saves([folder EXCEPT !.trials[batch.trial] = "begun"], To("preparing"), TrialFails)

Built(b) ==
  IF b.looks /\ b.stop # "none" THEN [b EXCEPT !.at = "recording"]
                                ELSE [b EXCEPT !.at = "installing", !.authority = "live"]

\* Any of its services may fail; some batches look at a stop between them.
BuildAuthority ==
  /\ batch.at = "preparing"
  /\ batch' \in {Built(IF batch.looks THEN Looked(batch) ELSE batch), To("recording")}
  /\ UNCHANGED folder

\* As if an authority were only told of the stops that come after it.
InstallBlindly ==
  /\ batch.at = "installing"
  /\ batch' = To("publishing")
  /\ UNCHANGED folder

\* _install: under the lock, the new authority learns of a stop before it,
InstallLooks ==
  /\ batch.at = "installing"
  /\ LET b == Looked(batch)
     IN  batch' = [b EXCEPT !.at = "publishing",
                            !.authority = IF b.stop # "none" THEN "cancelled" ELSE @]
  /\ UNCHANGED folder

\* and is there for the next one.
InstallSets ==
  /\ batch.at = "publishing"
  /\ batch' = [batch EXCEPT !.at = "working", !.active = TRUE]
  /\ UNCHANGED folder

Stands == batch.authority = "live" /\ ~batch.expired

Act ==
  /\ batch.at = "working" /\ Stands /\ batch.acted < STEPS
  /\ batch' = [batch EXCEPT !.acted = @ + 1]
  /\ UNCHANGED folder

\* The session is over, its lab is closed and its evidence finalized, if they can be.
AuthorityEnds ==
  /\ batch.at = "working"
  /\ \E whole \in {FALSE, batch.acted = STEPS /\ Stands} :
       batch' = [batch EXCEPT !.at = "recording", !.whole = whole,
                              !.active = FALSE, !.authority = "none"]
  /\ UNCHANGED folder

RecordTrial ==
  /\ batch.at = "recording"
  /\ Saves([folder EXCEPT !.trials[batch.trial] = IF batch.whole THEN "passed" ELSE "failed"],
           To("grading"), TrialFails)
-----------------------------------------------------------------------------
Grade == folder.trials[batch.trial]

FinishTrial ==
  /\ batch.at = "grading"
  /\ EmitLine([kind |-> "finished", trial |-> batch.trial, value |-> Grade],
              To("telling"), To("over"))

TellTrial ==
  /\ batch.at = "telling"
  /\ batch' \in {To("deciding"), To("over")}
  /\ UNCHANGED folder

\* After a stop, a failed trial or a failed component there is no other trial.
Decide ==
  /\ batch.at = "deciding"
  /\ LET b == Looked(batch)
     IN  batch' =
           IF b.stop # "none" THEN [b EXCEPT !.at = "closing", !.reason = b.stop]
           ELSE IF Grade # "passed" \/ b.reason = "component_failed"
             THEN [b EXCEPT !.at = "closing",
                            !.reason = IF @ = "completed" THEN "trial_failed" ELSE @]
           ELSE [b EXCEPT !.at = "choosing"]
  /\ UNCHANGED folder

CloseBatch ==
  /\ batch.at = "closing"
  /\ EmitLine([kind |-> "ended", trial |-> 0, value |-> batch.reason], To("reporting"), To("over"))
-----------------------------------------------------------------------------
(***************************************************************************)
(* _inspect_evaluation: what the folder tells.                             *)
(***************************************************************************)
Untold == [starts |-> 0, finishes |-> <<>>, end |-> "none", broken |-> FALSE]

\* _journal
Accepts(mode, h, e) ==
  /\ h.end = "none"
  /\ CASE e.kind = "started"  -> /\ mode = "execute" /\ h.starts = Len(h.finishes)
                                 /\ h.starts < TRIALS /\ e.trial = h.starts + 1
       [] e.kind = "finished" -> /\ h.starts > 0 /\ Len(h.finishes) = h.starts - 1
                                 /\ e.trial = h.starts
       [] e.kind = "ended"    -> /\ h.starts = Len(h.finishes)
                                 /\ e.value = "completed" => h.starts = TRIALS
                                 /\ e.value = "dry_run" <=> mode = "dry_run"

Told(mode, h, e) ==
  IF h.broken \/ ~Accepts(mode, h, e) THEN [h EXCEPT !.broken = TRUE]
  ELSE CASE e.kind = "started"  -> [h EXCEPT !.starts = @ + 1]
         [] e.kind = "finished" -> [h EXCEPT !.finishes = Append(@, e.value)]
         [] e.kind = "ended"    -> [h EXCEPT !.end = e.value]

Recounted(mode, journal) ==
  FoldLeft(LAMBDA h, e : Told(mode, h, e), Untold, journal)

BatchHistory == Recounted(batch.mode, folder.journal)

Grades(h) == SubSeq(folder.trials, 1, h.starts)

BatchIssues(h) ==
  (IF h.broken \/ ~folder.opened THEN {"evaluation_journal_invalid"} ELSE {})
    \cup (IF folder.torn THEN {"evaluation_journal_torn"} ELSE {})
    \cup (IF h.end = "none" THEN {"evaluation_completion_unknown"} ELSE {})
    \cup (IF \E n \in 1 .. TRIALS : n > h.starts /\ folder.trials[n] # "absent"
          THEN {"unexpected_evaluation_entry"} ELSE {})
    \cup (IF Len(h.finishes) < h.starts THEN {"trial_completion_unknown"} ELSE {})
    \cup (IF \E n \in DOMAIN h.finishes : h.finishes[n] # folder.trials[n]
          THEN {"saved_trial_grade_mismatch"} ELSE {})

\* _aggregate
BatchStatus(h, issues) ==
  IF issues # {} THEN IF h.end = "none" THEN "incomplete" ELSE "failed"
  ELSE CASE h.end = "dry_run" -> "dry_run"
         [] h.end = "completed" /\ Grades(h) = [n \in 1 .. TRIALS |-> "passed"] -> "passed"
         [] h.end \in {"completed", "trial_failed", "component_failed"} -> "failed"
         [] OTHER -> "incomplete"

BatchReport(h, issues) ==
  [status |-> BatchStatus(h, issues), reason |-> h.end, grades |-> Grades(h),
   finished |-> Len(h.finishes), issues |-> issues]

Recomputed == BatchReport(BatchHistory, BatchIssues(BatchHistory))

\* Both saved reports must be the recomputed one.  Part of report.json cannot be loaded;
\* part of report.md is a text like any other.
ReportIssues(report) ==
  IF folder.json \in {NoBatchReport, PartialReport} \/ folder.md = NoBatchReport
    THEN {"aggregate_report_unavailable"}
  ELSE IF {folder.json, folder.md} # {report} THEN {"aggregate_report_mismatch"} ELSE {}

InspectedBatch ==
  IF ~folder.manifest THEN NoBatchReport
  ELSE BatchReport(BatchHistory, Recomputed.issues \cup ReportIssues(Recomputed))
-----------------------------------------------------------------------------
SaveReport ==
  /\ batch.at = "reporting"
  /\ SaveReportIn("json", Recomputed,
                  [batch EXCEPT !.at = "summarizing", !.report = Recomputed], To("over"))

SaveSummary ==
  /\ batch.at = "summarizing"
  /\ SaveReportIn("md", batch.report,
                  [batch EXCEPT !.at = "over", !.returned = TRUE], To("over"))

BatchNext ==
  \/ DeadlinePasses \/ TimerStops \/ CancelBatch
  \/ BeginBatch \/ SaveManifest \/ OpenJournal \/ Choose \/ ReserveTrial
  \/ OpenTrial \/ BuildAuthority \/ InstallLooks \/ InstallSets \/ Act \/ AuthorityEnds
  \/ RecordTrial \/ FinishTrial \/ TellTrial \/ Decide \/ CloseBatch
  \/ SaveReport \/ SaveSummary
-----------------------------------------------------------------------------
(***************************************************************************)
(* Properties.                                                             *)
(***************************************************************************)
\* Whatever fails and whenever the process dies, an inspection finds the allowance of
\* every trial the runner went on to as reserved, and rejects no line, no folder and no
\* grade that the runner saved; it finds a report that differs from its own only where
\* the write of report.md was cut short.  A report.json that is whole is the one that it
\* recomputes, as is the very report the runner returned, and it calls a batch passed only
\* if the runner came to the end of its plan unstopped.
BatchIsRecovered ==
  /\ batch.trial <= BatchHistory.starts
  /\ folder.opened =>
       InspectedBatch.issues \subseteq
         {"evaluation_journal_torn", "evaluation_completion_unknown", "trial_completion_unknown",
          "aggregate_report_unavailable"}
           \cup (IF folder.md = PartialReport THEN {"aggregate_report_mismatch"} ELSE {})
  /\ folder.json \notin {NoBatchReport, PartialReport} => folder.json = Recomputed
  /\ batch.returned => InspectedBatch = batch.report
  /\ InspectedBatch.status = "passed" =>
       batch.at = "over" /\ batch.trial = TRIALS /\ batch.reason = "completed"

\* No authority works on that does not know of the stop.
SignalsReachAuthority ==
  batch.stop # "none" /\ batch.at = "working" => batch.authority = "cancelled"

\* The timer, and a cancellation from another thread, reach the authority whether they
\* come before, while or after it is installed.  A signal need not: its handler can run
\* between the two halves of the installation.
StopsReachAuthority ==
  ~batch.interrupts \/ batch.stop = "deadline" => SignalsReachAuthority
=============================================================================
