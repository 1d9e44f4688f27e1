--------------------------- MODULE AssessmentService --------------------------
(***************************************************************************)
(* The single-use service of the configurable assessment, from             *)
(* configurable_service.py: a worker opens one isolated service after the  *)
(* other, publishes its session under a lock, runs it, and settles the     *)
(* evidence, while its caller may cancel at any time.  The desktop cancels *)
(* from another thread; the command line from a signal handler, which      *)
(* interrupts the worker itself and watches every step.                    *)
(*                                                                         *)
(* What runs within the session is AuthoritySession; here it only ends, on *)
(* its own or because it was cancelled, and has a last look at that.       *)
(***************************************************************************)
EXTENDS Naturals, Sequences

SERVICES == <<"manifests", "audit", "approvals", "launcher", "evidence">>

STOPS == {"session_timeout", "coordinator_failed"}

VARIABLE service

Ready(observer) ==
  [state     |-> "ready",        \* _state
   reason    |-> "none",         \* _stop_reason
   at        |-> "idle",         \* where the worker is
   opened    |-> 0,              \* how many of SERVICES are open
   cancelled |-> FALSE,          \* _cancelled
   runner    |-> "none",         \* the session: none, live or cancelled
   outcome   |-> "none",         \* the stop reason of its summary
   observer  |-> observer,       \* on_step: none, watching or failed
   finalized |-> FALSE,          \* the report of the evidence is written
   canceller |-> "idle"]         \* where a call of cancel is

\* run: once.
RunService ==
  /\ service.at = "idle" /\ service.state = "ready"
  /\ service' = [service EXCEPT !.state = "running", !.at = "setup"]

\* How a run ends by an exception; what was opened is closed on the way.
Over(state, reason) ==
  [service EXCEPT !.state = state, !.reason = reason, !.at = "over", !.runner = "none"]

\* One more service is open, and the control is looked at before the next.
OpenService ==
  /\ service.at = "setup"
  /\ LET opened == service.opened + 1
     IN  IF service.cancelled /\ SERVICES[opened] # "evidence"
         THEN service' = Over("stopped", "session_cancelled")
         ELSE service' = [service EXCEPT
                !.opened = opened, !.at = IF opened = Len(SERVICES) THEN "publishing" ELSE @]

SetupFails ==
  /\ service.at \in {"setup", "publishing"}
  /\ \/ service' = Over("failed", "assessment_failed")
     \/ service' = Over("stopped", "session_timeout")

\* Under the lock the session is published, and then cancelled if that was asked
\* for before there was one.
Publish ==
  /\ service.at = "publishing"
  /\ service' = [service EXCEPT !.at = "checking", !.runner = "live"]

\* As if that were only looked at while the services are opened.
CheckPublishedNever ==
  /\ service.at = "checking"
  /\ service' = [service EXCEPT !.at = "authority"]

CheckPublished ==
  /\ service.at = "checking"
  /\ service' = [service EXCEPT
       !.at = "authority", !.runner = IF service.cancelled THEN "cancelled" ELSE @]

\* An observer that raises cancels the run, whatever the session makes of that.
ObserverFails ==
  /\ service.at = "authority" /\ service.observer = "watching"
  /\ service' = [service EXCEPT
       !.observer = "failed", !.cancelled = TRUE, !.runner = "cancelled"]

\* The last look of the session at its own cancellation.
SessionEnded ==
  /\ service.at = "authority"
  /\ \E outcome \in STOPS \cup
         (IF service.runner = "cancelled" THEN {"session_cancelled"} ELSE {"session_completed"}) :
       service' = [service EXCEPT !.at = "settling", !.outcome = outcome]

SessionRaises ==
  service.at = "authority" /\ service' = Over("failed", "assessment_failed")

\* The lab is recorded as closed and the report is finalized, unless the observer failed.
Settle ==
  /\ service.at = "settling"
  /\ IF service.observer = "failed" THEN service' = Over("failed", "assessment_failed")
     ELSE service' = [Over("finished", service.outcome) EXCEPT !.finalized = TRUE]

SettleFails ==
  service.at = "settling" /\ service' = Over("failed", "assessment_failed")

WorkOfService ==
  \/ OpenService \/ SetupFails \/ Publish \/ CheckPublished
  \/ ObserverFails \/ SessionEnded \/ SessionRaises \/ Settle \/ SettleFails
-----------------------------------------------------------------------------
\* cancel: the event, then the session that there is under the lock, then that one.
CancelSets ==
  /\ service.canceller = "idle"
  /\ service' = [service EXCEPT !.cancelled = TRUE, !.canceller = "set"]

\* The lock is held between the publication and its check, except against a handler
\* that interrupts its holder.
CancelReads(interrupts) ==
  /\ service.canceller = "set"
  /\ interrupts \/ service.at # "checking"
  /\ service' = [service EXCEPT
       !.canceller = IF service.runner = "none" THEN "returned" ELSE "found"]

CancelReaches ==
  /\ service.canceller = "found"
  /\ service' = [service EXCEPT
       !.canceller = "returned", !.runner = IF @ = "none" THEN @ ELSE "cancelled"]

CancelStep(interrupts) == CancelReads(interrupts) \/ CancelReaches

Cancelling == service.canceller \in {"set", "found"}

\* run_assessment: the handler of a signal interrupts the run, wherever it is.
CommandLineNext ==
  \/ ~Cancelling /\ (RunService \/ WorkOfService)
  \/ service.at \notin {"idle", "over"} /\ CancelSets
  \/ CancelStep(TRUE)
-----------------------------------------------------------------------------
\* Once a call of cancel has returned, no session is left that does not know it, whether
\* the call came before, while or after the session was published; and a run that was
\* cancelled because its observer failed has no finalized report and is never called
\* finished, although its session may have ended with an ordinary summary.
CancellationIsKept ==
  /\ service.canceller = "returned" /\ service.at # "checking" => service.runner # "live"
  /\ service.observer = "failed" => ~service.finalized /\ service.state # "finished"
=============================================================================
