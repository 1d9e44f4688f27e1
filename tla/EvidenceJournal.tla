---------------------------- MODULE EvidenceJournal ----------------------------
(***************************************************************************)
(* The evidence of one assessment, from evidence.py: a store that writes   *)
(* artifacts, a journal and two reports, and stops for good at its first   *)
(* failure; and the inspection that recomputes the report from the files.  *)
(*                                                                         *)
(* An operation is a list of writes, each synced before the next, and the  *)
(* memory it leaves.  The process may fail or die in any of them, and then *)
(* nothing, a part or the whole of that write is on disk.                  *)
(*                                                                         *)
(* An execution is known by its step, and its status tells what the card   *)
(* asks of the result: "expected" is a success with the expected parse.    *)
(***************************************************************************)
EXTENDS Naturals, SequencesExt

CONSTANT Workflows      \* of "plain", "discovery", "versioned" and "owned_lab"

VARIABLES
  workflow,             \* of the manifest
  disk,                 \* the files of the bundle
  memory,               \* what the store keeps
  job                   \* the operation under way, and whether the store still works

evidence == <<workflow, disk, memory, job>>

ASSUME EvidenceAssumption == Workflows \subseteq {"plain", "discovery", "versioned", "owned_lab"}

STATUSES == {"expected", "unexpected", "failed"}

Versioned == workflow \in {"versioned", "owned_lab"}

MaxExecutions == IF workflow = "plain" THEN 2 ELSE 3

MaxEvents ==
  CASE workflow = "plain"     -> 5
    [] workflow = "discovery" -> 7
    [] workflow = "versioned" -> 11
    [] workflow = "owned_lab" -> 12

Result(step) == [file |-> "result", step |-> step]

Published(format) == [file |-> format, step |-> 0]

NoSummary == [mode |-> "none", completed |-> FALSE, attempted |-> 0, succeeded |-> 0]

Event(kind, step, value, summary) ==
  [kind |-> kind, step |-> step, value |-> value, summary |-> summary]

NoReport == [records |-> <<>>, decisions |-> <<>>, closed |-> FALSE, summary |-> NoSummary,
             issues |-> {}, conclusive |-> FALSE]

Blank == [records |-> <<>>, decisions |-> <<>>, closed |-> FALSE, terminal |-> FALSE,
          report |-> NoReport]

EvidenceInit ==
  /\ workflow \in Workflows
  /\ disk = [journal |-> <<>>, torn |-> FALSE, whole |-> {}, partial |-> {}]
  /\ memory = Blank
  /\ job = [todo |-> <<>>, leaves |-> Blank, works |-> TRUE]
-----------------------------------------------------------------------------
(***************************************************************************)
(* What the store and the inspection both ask of a history h of records,   *)
(* decisions and closure.                                                  *)
(***************************************************************************)
Pending(h) == \E n \in DOMAIN h.records : h.records[n] = "started"

Successes(h) == {n \in DOMAIN h.records : h.records[n] \in {"expected", "unexpected"}}

\* decide: the next action is proposed on complete and expected evidence.
Proposal(h) ==
  IF Len(h.records) = Len(h.decisions) /\ \A n \in DOMAIN h.records : h.records[n] = "expected"
  THEN "propose" ELSE "stop"

\* _check_decision_order
MayDecide(h) ==
  /\ Versioned /\ ~h.closed /\ Len(h.decisions) < 3 /\ ~Pending(h)
  /\ h.decisions # <<>> => Last(h.decisions) = "propose"

\* _require_proposed, and the order of executions.
MayStart(h) ==
  /\ Len(h.records) < MaxExecutions /\ ~Pending(h) /\ ~h.closed
  /\ Versioned => /\ Len(h.decisions) = Len(h.records) + 1
                  /\ Last(h.decisions) = "propose"

MayClose(h) == workflow = "owned_lab" /\ ~h.closed /\ ~Pending(h)

\* _summary, _reconcile_summary and _reconcile_workflow_summary
Reconciles(h, summary) ==
  /\ summary.mode \in {"execute", "dry_run"}
  /\ summary.succeeded = Cardinality(Successes(h))
  /\ workflow # "plain" => summary.attempted >= Len(h.records)
  /\ Versioned => /\ summary.attempted >= Len(h.decisions)
                  /\ summary.mode = "dry_run" => h.records = <<>>

MayConclude(h, summary) == Reconciles(h, summary) /\ (workflow = "owned_lab" => h.closed)

Complete(h) ==
  /\ Len(h.records) = MaxExecutions
  /\ \A n \in DOMAIN h.records : h.records[n] = "expected"

\* terminal_decision
Reason(h, summary) ==
  IF summary.mode = "dry_run" THEN "dry_run"
  ELSE IF ~summary.completed THEN "session_stopped"
  ELSE IF ~Complete(h) THEN "evidence_missing"
  ELSE "concluded"

\* _report: the outcome is validated or not demonstrated only on whole evidence.
Report(h, summary, issues) ==
  [records |-> h.records, decisions |-> h.decisions, closed |-> h.closed, summary |-> summary,
   issues |-> issues,
   conclusive |-> issues = {} /\ summary # NoSummary /\ Reason(h, summary) = "concluded"]
-----------------------------------------------------------------------------
(***************************************************************************)
(* The operations of the store.                                            *)
(***************************************************************************)
Line(event) == [to |-> "journal", what |-> event]

File(name) == [to |-> "file", what |-> name]

\* _check: a store that has failed or is finalized does nothing more.
Usable == job.works /\ job.todo = <<>> /\ memory.report = NoReport

Writes(todo, after) ==
  /\ Usable
  /\ job' = [job EXCEPT !.todo = todo, !.leaves = after]
  /\ UNCHANGED <<workflow, disk, memory>>

RecordDecision ==
  LET step  == Len(memory.decisions) + 1
      value == Proposal(memory)
  IN  /\ MayDecide(memory)
      /\ Writes(<<Line(Event("decision", step, value, NoSummary))>>,
                [memory EXCEPT !.decisions = Append(@, value)])

StartExecution ==
  /\ MayStart(memory)
  /\ Writes(<<Line(Event("started", Len(memory.records) + 1, "started", NoSummary))>>,
            [memory EXCEPT !.records = Append(@, "started")])

FinishedBy(status) ==
  LET step == Len(memory.records)
  IN  [writes |-> <<File(Result(step)), Line(Event("finished", step, status, NoSummary))>>,
       leaves |-> [memory EXCEPT !.records[step] = status]]

\* As if the event were recorded before the artifact that it names.
FinishEventFirst(status) ==
  /\ Pending(memory)
  /\ Writes(Reverse(FinishedBy(status).writes), FinishedBy(status).leaves)

FinishExecution(status) ==
  /\ Pending(memory)
  /\ Writes(FinishedBy(status).writes, FinishedBy(status).leaves)

RecordLabClosed ==
  /\ MayClose(memory)
  /\ Writes(<<Line(Event("closed", 0, "closed", NoSummary))>>, [memory EXCEPT !.closed = TRUE])

Open(h) == IF Pending(h) THEN {"execution_completion_unknown"} ELSE {}

\* As if a finalized store had no open execution.
FinalReportUnchecked(summary) == Report(memory, summary, {})

FinalReport(summary) == Report(memory, summary, Open(memory))

Ending(summary) ==
  (IF Versioned THEN <<Line(Event("terminal", 0, Reason(memory, summary), summary))>> ELSE <<>>)
    \o <<Line(Event("done", 0, "done", summary)), File(Published("json")), File(Published("md"))>>

Finalize(summary) ==
  /\ MayConclude(memory, summary)
  /\ Writes(Ending(summary), [memory EXCEPT !.terminal = Versioned, !.report = FinalReport(summary)])

\* An operation out of order, or with a value that does not fit, is refused for good.
RefuseOperation ==
  /\ Usable
  /\ job' = [job EXCEPT !.works = FALSE]
  /\ UNCHANGED <<workflow, disk, memory>>
-----------------------------------------------------------------------------
(***************************************************************************)
(* The writes, and what interrupts them.                                   *)
(***************************************************************************)
Written(w) ==
  IF w.to = "file" THEN [disk EXCEPT !.whole = @ \cup {w.what}]
                   ELSE [disk EXCEPT !.journal = Append(@, w.what)]

Partly(w) ==
  IF w.to = "file" THEN [disk EXCEPT !.partial = @ \cup {w.what}]
                   ELSE [disk EXCEPT !.torn = TRUE]

WriteNext ==
  /\ job.todo # <<>>
  /\ disk' = Written(Head(job.todo))
  /\ job' = [job EXCEPT !.todo = Tail(@)]
  /\ memory' = IF Len(job.todo) = 1 THEN job.leaves ELSE memory
  /\ UNCHANGED workflow

WriteFails ==
  /\ job.todo # <<>>
  /\ \/ UNCHANGED disk
     \/ disk' = Partly(Head(job.todo))
     \/ disk' = Written(Head(job.todo))
  /\ job' = [job EXCEPT !.todo = <<>>, !.works = FALSE]
  /\ UNCHANGED <<workflow, memory>>

Operate ==
  \/ RecordDecision \/ StartExecution \/ RecordLabClosed \/ RefuseOperation
  \/ \E status \in STATUSES : FinishExecution(status)
  \/ \E mode \in {"execute", "dry_run"}, completed \in BOOLEAN, attempted, succeeded \in 0 .. 3 :
       Finalize([mode |-> mode, completed |-> completed, attempted |-> attempted,
                 succeeded |-> succeeded])

EvidenceNext == Operate \/ WriteNext \/ WriteFails
-----------------------------------------------------------------------------
(***************************************************************************)
(* inspect_assessment: the journal is read until a line does not follow.   *)
(***************************************************************************)
Unread ==
  [records |-> <<>>, decisions |-> <<>>, closed |-> FALSE, terminal |-> NoSummary,
   summary |-> NoSummary, named |-> {}, broken |-> FALSE]

\* The order is that of the code: after the end, after the terminal decision and
\* after the closure of the lab only what ends the journal follows.
Follows(s, e) ==
  /\ s.summary = NoSummary
  /\ s.terminal # NoSummary => e.kind = "done"
  /\ s.closed => e.kind \in {"terminal", "done"}
  /\ CASE e.kind = "decision" -> MayDecide(s) /\ e.step = Len(s.decisions) + 1 /\ e.value = Proposal(s)
       [] e.kind = "started"  -> MayStart(s) /\ e.step = Len(s.records) + 1
       [] e.kind = "finished" -> Pending(s) /\ e.step = Len(s.records) /\ Result(e.step) \in disk.whole
       [] e.kind = "closed"   -> MayClose(s)
       [] e.kind = "terminal" -> Versioned /\ MayConclude(s, e.summary) /\ e.value = Reason(s, e.summary)
       [] e.kind = "done"     -> /\ MayConclude(s, e.summary)
                                 /\ Versioned => s.terminal = e.summary

Read(s, e) ==
  IF s.broken \/ ~Follows(s, e) THEN [s EXCEPT !.broken = TRUE]
  ELSE CASE e.kind = "decision" -> [s EXCEPT !.decisions = Append(@, e.value)]
         [] e.kind = "started"  -> [s EXCEPT !.records = Append(@, "started")]
         [] e.kind = "finished" -> [s EXCEPT !.records[e.step] = e.value,
                                             !.named = @ \cup {Result(e.step)}]
         [] e.kind = "closed"   -> [s EXCEPT !.closed = TRUE]
         [] e.kind = "terminal" -> [s EXCEPT !.terminal = e.summary]
         [] e.kind = "done"     -> [s EXCEPT !.summary = e.summary]

ReadAll(journal) == FoldLeft(Read, Unread, journal)

Lines == Len(disk.journal) + (IF disk.torn THEN 1 ELSE 0)

History ==
  LET read == {n \in DOMAIN disk.journal : n <= MaxEvents}
  IN  ReadAll(SubSeq(disk.journal, 1, Cardinality(read)))

Broken == History.broken \/ disk.torn

Files == disk.whole \cup disk.partial

IssuesOf(s) ==
  (IF Lines > MaxEvents THEN {"journal_event_limit"} ELSE {})
    \cup (IF Broken THEN {"journal_or_artifact_incomplete"} ELSE {})
    \cup (IF s.summary = NoSummary THEN {"assessment_closure_missing"} ELSE {})
    \cup (IF Versioned /\ s.terminal = NoSummary THEN {"workflow_terminal_missing"} ELSE {})
    \cup (IF workflow = "owned_lab" /\ ~s.closed THEN {"owned_lab_closure_missing"} ELSE {})
    \cup Open(s)
    \cup (IF \E f \in Files : f.file = "result" /\ f \notin s.named
          THEN {"orphan_artifacts_present"} ELSE {})

\* The saved reports must be the recomputed one; a report is written only by Finalize.
Matches(report) ==
  /\ {Published("json"), Published("md")} \subseteq disk.whole
  /\ job.leaves.report = report

Inspection ==
  LET s      == History
      report == Report(s, s.summary, IssuesOf(s))
  IN  IF s.summary = NoSummary \/ Matches(report) THEN report
      ELSE Report(s, s.summary, IssuesOf(s) \cup {"report_missing_or_mismatched"})
-----------------------------------------------------------------------------
(***************************************************************************)
(* Properties.                                                             *)
(***************************************************************************)
\* Whatever fails and whenever the process dies, the inspection recovers all that
\* the store has acknowledged and at most the operation that was under way: it
\* rejects nothing the store wrote but a torn last line, and every artifact is
\* either named by an event or reported as an orphan.
InspectionRecovers ==
  LET s == History
  IN  /\ ~s.broken /\ Lines <= MaxEvents
      /\ s.records \in {memory.records, job.leaves.records}
      /\ s.decisions \in {memory.decisions, job.leaves.decisions}
      /\ s.closed \in {memory.closed, job.leaves.closed}
      /\ Usable => <<s.records, s.decisions, s.closed>>
                     = <<memory.records, memory.decisions, memory.closed>>
      /\ \A f \in Files : f.file = "result" /\ f \notin s.named =>
           "orphan_artifacts_present" \in Inspection.issues

\* The report a finalized store returned is the one an inspection recomputes, issue
\* for issue; and nobody finds a conclusive report before the journal is closed, both
\* reports are written and every execution has its artifact.
PublishedReportReplays ==
  /\ memory.report # NoReport => Inspection = memory.report
  /\ Inspection.conclusive =>
       /\ {Published("json"), Published("md")} \subseteq disk.whole
       /\ \A n \in 1 .. MaxExecutions : Result(n) \in disk.whole
=============================================================================
