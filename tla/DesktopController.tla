--------------------------- MODULE DesktopController --------------------------
(***************************************************************************)
(* The desktop's controller and the window that polls it, from             *)
(* gui/controller.py: one worker thread inspects saved evidence or runs a  *)
(* session and replays its evidence, and hands its result over in a queue  *)
(* of one place; the window starts, cancels, polls and closes.             *)
(*                                                                         *)
(* A directory is the operation it was opened for, and a report is that    *)
(* directory, or 0.  A cancellation and a poll are calls of several steps, *)
(* between which the worker goes on.                                       *)
(***************************************************************************)
EXTENDS AssessmentService

CONSTANT MaxOperations

ASSUME DesktopAssumption == MaxOperations \in Nat \ {0}

VARIABLES
  desk,                 \* what the controller keeps
  gui,                  \* where the window is: idle, in a cancellation, in a poll, or closed
  worker,               \* the thread
  results               \* the queue

desktop == <<service, desk, gui, worker, results>>

NoThread == [at |-> "none", operation |-> 0, phase |-> "none", report |-> 0]

DesktopInit ==
  /\ desk = [busy |-> FALSE, closing |-> FALSE, generation |-> 0, operation |-> "none",
             path |-> 0, report |-> 0, phase |-> "none", asked |-> FALSE]
  /\ gui = "idle" /\ worker = NoThread /\ results = <<>>

Alive == worker.at \notin {"none", "dead"}

\* As if a worker that has returned were enough for the next one.
IdleByThread == gui = "idle" /\ ~desk.closing /\ ~Alive

\* _idle
Idle == gui = "idle" /\ ~desk.closing /\ ~desk.busy /\ ~Alive

Begins(operation, phase) ==
  /\ Idle /\ desk.generation < MaxOperations
  /\ desk' = [desk EXCEPT !.busy = TRUE, !.generation = @ + 1, !.operation = operation,
                          !.path = desk.generation + 1, !.report = 0, !.phase = phase,
                          !.asked = FALSE]
  /\ UNCHANGED <<gui, results>>

Thread(at) == [NoThread EXCEPT !.at = at, !.operation = desk.generation + 1]

\* As if the old report stayed until there is a new one.
InspectKeepsReport ==
  /\ Idle /\ desk.generation < MaxOperations
  /\ desk' = [desk EXCEPT !.busy = TRUE, !.generation = @ + 1, !.operation = "inspection",
                          !.path = desk.generation + 1, !.phase = "none"]
  /\ worker' = Thread("inspecting")
  /\ UNCHANGED <<service, gui, results>>

\* The old evidence is not shown while another directory is checked.
Inspect ==
  /\ Begins("inspection", "none")
  /\ worker' = Thread("inspecting")
  /\ UNCHANGED service

StartSession ==
  /\ Begins("session", "running")
  /\ service' = Ready("none") /\ worker' = Thread("running")

\* The thread does not start; the service of a session is cancelled unused.
StartFails ==
  /\ Idle /\ desk.generation < MaxOperations
  /\ \E session \in BOOLEAN :
       /\ desk' = [desk EXCEPT !.generation = @ + 1, !.operation = "none", !.report = 0,
                               !.path = desk.generation + 1, !.asked = session,
                               !.phase = IF session THEN "failed" ELSE "none"]
       /\ service' = IF session THEN [Ready("none") EXCEPT !.cancelled = TRUE, !.canceller = "returned"]
                     ELSE service
  /\ worker' = NoThread
  /\ UNCHANGED <<gui, results>>
-----------------------------------------------------------------------------
(***************************************************************************)
(* The worker.                                                             *)
(***************************************************************************)
\* A report that can be replayed, or none.
Inspected ==
  /\ worker.at = "inspecting"
  /\ \E report \in {0, worker.operation} : worker' = [worker EXCEPT !.at = "putting", !.report = report]
  /\ UNCHANGED <<service, desk, gui, results>>

Run ==
  /\ worker.at = "running" /\ service.at # "over"
  /\ RunService \/ WorkOfService
  /\ UNCHANGED <<desk, gui, worker, results>>

\* The run has ended, its authority is closed, and only then its evidence is replayed.
RunEnded ==
  /\ worker.at = "running" /\ service.at = "over"
  /\ worker' = [worker EXCEPT !.at = "replaying", !.phase = service.state]
  /\ UNCHANGED <<service, desk, gui, results>>

Replayed ==
  /\ worker.at = "replaying"
  /\ \E report \in {0, worker.operation} :
       worker' = [worker EXCEPT
         !.at = "putting", !.report = report,
         !.phase = IF report = 0 /\ @ = "finished" THEN "replay_failed" ELSE @]
  /\ UNCHANGED <<service, desk, gui, results>>

\* Waits for the one place of the queue; the thread is alive a little longer.
Put ==
  /\ worker.at = "putting" /\ results = <<>>
  /\ results' = <<worker>>
  /\ worker' = [worker EXCEPT !.at = "leaving"]
  /\ UNCHANGED <<service, desk, gui>>

Leave ==
  /\ worker.at = "leaving"
  /\ worker' = [NoThread EXCEPT !.at = "dead"]
  /\ UNCHANGED <<service, desk, gui, results>>

Work == Inspected \/ Run \/ RunEnded \/ Replayed \/ Put \/ Leave
-----------------------------------------------------------------------------
(***************************************************************************)
(* The window's thread.                                                    *)
(***************************************************************************)
SessionRuns == desk.operation = "session" /\ desk.busy

\* cancel_session, by the button or by the first call of close.
BeginCancel(next) ==
  /\ gui = "idle" /\ ~desk.closing /\ SessionRuns
  /\ IF service.canceller = "idle" THEN CancelSets ELSE UNCHANGED service
  /\ gui' = next
  /\ UNCHANGED <<desk, worker, results>>

Cancel == BeginCancel("cancelling") \/ BeginCancel("cancelling_to_close")

ContinueCancel ==
  /\ gui \in {"cancelling", "cancelling_to_close"}
  /\ CancelStep(FALSE)
  /\ UNCHANGED <<desk, gui, worker, results>>

Closes(d) == [d EXCEPT !.closing = TRUE, !.generation = @ + 1]

EndCancel ==
  /\ gui \in {"cancelling", "cancelling_to_close"} /\ ~Cancelling
  /\ LET asked == [desk EXCEPT !.asked = TRUE]
     IN  desk' = IF gui = "cancelling" THEN asked ELSE Closes(asked)
  /\ gui' = "idle"
  /\ UNCHANGED <<service, worker, results>>

\* poll: what the session has come to.
PollLooks ==
  /\ gui = "idle" /\ ~desk.closing
  /\ gui' = "polling"
  /\ desk' = [desk EXCEPT !.phase =
       IF ~SessionRuns THEN @
       ELSE IF service.state \in {"ready", "running"} THEN "running" ELSE "replaying"]
  /\ UNCHANGED <<service, worker, results>>

\* Then the result, once the thread is gone.
PollTakes ==
  /\ gui = "polling"
  /\ gui' = "idle"
  /\ IF Alive \/ results = <<>> THEN UNCHANGED <<desk, results>>
     ELSE /\ results' = <<>>
          /\ IF results[1].operation # desk.generation THEN UNCHANGED desk
             ELSE desk' = [desk EXCEPT
                    !.busy = FALSE, !.operation = "none", !.report = results[1].report,
                    !.phase = IF results[1].phase = "none" THEN @ ELSE results[1].phase]
  /\ UNCHANGED <<service, worker>>

\* close, when there is nothing to cancel.
Close ==
  /\ gui = "idle" /\ ~desk.closing /\ ~SessionRuns
  /\ desk' = Closes(desk)
  /\ UNCHANGED <<service, gui, worker, results>>

\* close, again by every poll of the window until the worker is gone.
CloseWaits ==
  /\ gui = "idle" /\ desk.closing /\ ~Alive
  /\ gui' = "closed" /\ results' = <<>>
  /\ desk' = [desk EXCEPT !.busy = FALSE, !.operation = "none"]
  /\ UNCHANGED <<service, worker>>

DesktopNext ==
  \/ Inspect \/ StartSession \/ StartFails \/ Work \/ Cancel \/ ContinueCancel
  \/ EndCancel \/ PollLooks \/ PollTakes \/ Close \/ CloseWaits
-----------------------------------------------------------------------------
\* What is shown as a report was replayed from the directory that is shown, and an
\* operation that still runs shows none; a session is shown as finished only with one.
ShownIsReplayed ==
  /\ desk.report # 0 => desk.report = desk.path /\ ~desk.busy /\ ~Alive
  /\ desk.phase = "finished" => desk.report # 0 /\ service.finalized

\* Every operation ends, also in a window that closes: no worker waits for a
\* place in the queue that only the window could clear.
OperationsEnd == desk.busy ~> ~desk.busy
=============================================================================
