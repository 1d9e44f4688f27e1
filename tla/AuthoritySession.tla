--------------------------- MODULE AuthoritySession ---------------------------
(***************************************************************************)
(* The authority of one session, from control_plane.py: it answers the     *)
(* requests of a confined coordinator, and owns the steps, the output      *)
(* budget, the plan its provider quoted and the closing of the session.    *)
(*                                                                         *)
(* The supervisor of the coordinator calls exchange serially, while the    *)
(* lock of requests is held another caller may come at any point, and is   *)
(* rejected without the lock: its rejection interleaves with the handler.  *)
(* A caller that finds the lock free is answered like the supervisor.      *)
(* Controller.submit is reduced to its decision, its checks of the control *)
(* and the start and the end of the tool (LaunchChain has the rest), and   *)
(* messages to their operation, their sequence number and their plan.      *)
(***************************************************************************)
EXTENDS SessionContext, Sequences, FiniteSets, Functions

CONSTANTS
  NoAction, NoPlan, Malformed,   \* values that are none of the others
  Allowance,            \* per action: max_output_bytes of its parameters
  MaxSteps, MaxOutput   \* the limits of the session

Plans == {p \in [action : Actions \cup {NoAction}, done : BOOLEAN] :
            p.action = NoAction => p.done}

ASSUME AuthorityAssumption ==
  /\ Allowance \in [Actions -> Nat \ {0}]
  /\ MaxSteps \in Nat \ {0} /\ MaxOutput \in Nat \ {0}
  /\ NoAction \notin Actions /\ NoPlan \notin Plans /\ Malformed \notin Plans \cup {NoPlan}

VARIABLES
  phase,                \* where the thread of run is
  mode,                 \* planned: it has a provider; execute, interactive: how run was called
  place, job,           \* where the request that holds the lock is, and what it knows
  closed, protocol_failed, pending_plan,
  summary,              \* what the session reports
  poisoned,             \* what has failed for the controller: audit, approval
  quotes,               \* history: plans of the provider, with their steps
  reservations,         \* history: reserved actions, with their steps
  launches,             \* history: started actions, with their steps
  disturbed,            \* history: a call of exchange was rejected or raised
  final                 \* the status that session_finished told

gates   == <<closed, protocol_failed, pending_plan>>
history == <<quotes, reservations, launches>>
vars    == <<control, phase, mode, place, job, gates, summary, poisoned, history,
             disturbed, final>>

\* A provider quotes the plans (schema version 2).
Planned == mode.planned

\* A request names its operation, its sequence number and a plan if it proposes.
Requests ==
  LET steps == 0 .. MaxSteps + 1 IN
  IF Planned
  THEN [op : {"plan"}, step : steps, plan : {NoPlan}]
         \cup [op : {"propose", "bad"}, step : steps, plan : Plans]
  ELSE [op : {"both", "bad"}, step : steps, plan : Plans \cup {Malformed}]

\* "idle" is the free lock.
Places == {"idle", "asking", "proposing", "reserved", "approving", "submitting",
           "launching", "running", "recording", "deciding"}

Outcomes == {"none", "denied", "output_limit", "dry_run", "succeeded", "blocked", "failed"}

NoJob == [plan |-> NoPlan, granted |-> FALSE, outcome |-> "none"]

Init ==
  /\ ControlInit
  /\ phase = "ready"
  /\ \E planned \in BOOLEAN :
       mode = [planned |-> planned, execute |-> FALSE, interactive |-> FALSE]
  /\ place = "idle" /\ job = NoJob
  /\ closed = FALSE /\ protocol_failed = FALSE /\ pending_plan = NoPlan
  /\ summary = [status |-> "stopped", attempted |-> 0, succeeded |-> 0, reserved |-> 0]
  /\ poisoned = {} /\ final = "none"
  /\ quotes = <<>> /\ reservations = <<>> /\ launches = <<>> /\ disturbed = FALSE
-----------------------------------------------------------------------------
Here == [step |-> summary.attempted, action |-> job.plan.action]

\* An event can only be stored while no event has failed.
Emits == "audit" \notin poisoned

Stay == UNCHANGED <<phase, mode, final>>

Goto(p) == place' = p

\* exchange returns its response and releases the lock.
Reply == place' = "idle" /\ job' = NoJob

\* exchange raises: it closes the session before the supervisor hears of it.
Raise ==
  /\ Reply
  /\ closed' = TRUE /\ disturbed' = TRUE
  /\ UNCHANGED <<protocol_failed, pending_plan, summary, history>> /\ Stay

\* reject: it cancels what is under way too; its own event may fail.
Reject ==
  /\ closed' = TRUE /\ protocol_failed' = TRUE /\ cancelled' = TRUE
  /\ disturbed' = TRUE
  /\ summary' = [summary EXCEPT !.status = "stopped"]
  /\ poisoned' \in {poisoned, poisoned \cup {"audit"}}
  /\ UNCHANGED <<now, pending_plan, history, mode, final>>

Concurrent ==
  /\ phase = "dialogue" /\ place # "idle"
  /\ Reject
  /\ UNCHANGED <<phase, place, job>>
-----------------------------------------------------------------------------
\* A bug: any plan may be proposed once the provider has quoted one.
RefusedUnmatched(r) ==
  \/ closed \/ r.op = "bad"
  \/ r.step # summary.attempted + (IF r.op = "propose" THEN 0 ELSE 1)
  \/ r.step < 1 \/ r.step > MaxSteps
  \/ Planned /\ (r.op = "plan") # (pending_plan = NoPlan)

\* Why handle rejects a request.
Refused(r) ==
  \/ closed
  \/ r.op = "bad"
  \/ r.step # summary.attempted + (IF r.op = "propose" THEN 0 ELSE 1)
  \/ r.step < 1 \/ r.step > MaxSteps
  \/ Planned /\ (r.op = "plan") # (pending_plan = NoPlan)
  \/ r.op = "propose" /\ r.plan # pending_plan

Accept(r) ==
  /\ Emits
  /\ summary' = IF r.op = "propose" THEN summary ELSE [summary EXCEPT !.attempted = r.step]
  /\ pending_plan' = IF r.op = "propose" THEN NoPlan ELSE pending_plan
  /\ job' = [job EXCEPT !.plan = r.plan]
  /\ Goto(IF r.op = "plan" THEN "asking" ELSE "proposing")
  /\ UNCHANGED <<control, closed, protocol_failed, poisoned, history, disturbed>> /\ Stay

Exchange(r) ==
  /\ phase = "dialogue" /\ place = "idle"
  /\ \/ Stopped /\ Raise /\ UNCHANGED <<control, poisoned>>
     \/ ~Stopped /\ Refused(r) /\ Reject /\ UNCHANGED <<phase, place, job>>
     \/ ~Stopped /\ ~Refused(r) /\ Accept(r)

\* The provider answers with a plan that parses and fits a reply.
ProviderQuotes(p) ==
  /\ place = "asking" /\ ~Stopped /\ Emits
  /\ pending_plan' = p
  /\ quotes' = Append(quotes, [step |-> summary.attempted, plan |-> p])
  /\ Reply
  /\ UNCHANGED <<control, closed, protocol_failed, summary, poisoned, reservations, launches,
                 disturbed>> /\ Stay

\* It fails, or its plan is malformed: the coordinator is told to stop.
ProviderFails ==
  /\ place = "asking" /\ Emits
  /\ closed' = TRUE
  /\ Reply
  /\ UNCHANGED <<control, protocol_failed, pending_plan, summary, poisoned, history,
                 disturbed>> /\ Stay
-----------------------------------------------------------------------------
\* The proposal ends the session at once.
EndsHere(status) ==
  /\ closed' = TRUE
  /\ summary' = [summary EXCEPT !.status = status]
  /\ Reply
  /\ UNCHANGED reservations

Rejected(outcome) ==
  /\ closed' = TRUE
  /\ job' = [job EXCEPT !.outcome = outcome]
  /\ Goto("recording")
  /\ UNCHANGED <<summary, reservations>>

Reserve ==
  /\ summary' = [summary EXCEPT !.reserved = @ + Allowance[job.plan.action]]
  /\ reservations' = Append(reservations, Here)
  /\ Goto("reserved")
  /\ UNCHANGED <<closed, job>>

OverBudget == summary.reserved + Allowance[job.plan.action] > MaxOutput

Propose ==
  /\ place = "proposing"
  /\ \/ job.plan = Malformed /\ Emits /\ EndsHere(summary.status)
     \/ job.plan # Malformed /\ job.plan.action = NoAction /\ EndsHere("completed")
     \/ /\ job.plan # Malformed /\ job.plan.action # NoAction
        /\ ~Stopped /\ Emits
        /\ IF Verdict(Policy, job.plan.action) = "deny" THEN Rejected("denied")
           ELSE IF OverBudget THEN Rejected("output_limit") ELSE Reserve
  /\ UNCHANGED <<control, protocol_failed, pending_plan, poisoned, quotes, launches,
                 disturbed>> /\ Stay

\* The steps below change the request, and at most one thing more.
OnlyJob == UNCHANGED <<control, gates, poisoned, quotes, reservations, disturbed>> /\ Stay

Reserved ==
  /\ place = "reserved" /\ ~Stopped /\ Emits
  /\ job' = IF mode.execute THEN job ELSE [job EXCEPT !.outcome = "dry_run"]
  /\ Goto(IF ~mode.execute THEN "recording"
          ELSE IF mode.interactive /\ AsksConsent[Policy] THEN "approving" ELSE "submitting")
  /\ UNCHANGED <<summary, launches>> /\ OnlyJob

ReviewReturns ==
  /\ place = "approving"
  /\ \E granted \in BOOLEAN : job' = [job EXCEPT !.granted = granted]
  /\ Goto("submitting")
  /\ UNCHANGED <<summary, launches>> /\ OnlyJob

\* Controller.submit up to its intent; with a grant it may refuse still.
Submit ==
  /\ place = "submitting" /\ ~Stopped /\ Emits
  /\ \/ /\ Goto("recording")
        /\ job' = [job EXCEPT !.outcome = "blocked"]
     \/ /\ AsksConsent[Policy] => job.granted
        /\ Goto("launching")
        /\ UNCHANGED job
  /\ UNCHANGED <<summary, launches>> /\ OnlyJob

\* A bug: no check between the intent and the tool.
LaunchUnchecked ==
  /\ place = "launching"
  /\ Goto("running")
  /\ launches' = Append(launches, Here)
  /\ UNCHANGED <<job, summary>> /\ OnlyJob

\* Its check after the intent, and the start of the tool.
Launch ==
  /\ place = "launching"
  /\ IF Stopped
     THEN /\ Goto("recording")
          /\ job' = [job EXCEPT !.outcome = "failed"]
          /\ UNCHANGED launches
     ELSE /\ Goto("running")
          /\ launches' = Append(launches, Here)
          /\ UNCHANGED job
  /\ UNCHANGED summary /\ OnlyJob

RunEnds ==
  /\ place = "running" /\ Emits
  /\ \E outcome \in {"succeeded", "failed", "blocked"} :
       /\ job' = [job EXCEPT !.outcome = outcome]
       /\ summary' = IF outcome = "succeeded" THEN [summary EXCEPT !.succeeded = @ + 1]
                     ELSE summary
  /\ Goto("recording")
  /\ UNCHANGED launches /\ OnlyJob

\* record, and the check that follows it on the way to the next step.
Record ==
  /\ place = "recording" /\ Emits
  /\ IF job.outcome \in {"denied", "output_limit"}
     THEN Reply /\ UNCHANGED <<summary, launches>> /\ OnlyJob
     ELSE IF Stopped
     THEN Raise /\ UNCHANGED <<control, poisoned>>
     ELSE Goto("deciding") /\ UNCHANGED <<job, summary, launches>> /\ OnlyJob

\* What the outcome means for the session; a rejection may have come in since the check.
Decide ==
  /\ place = "deciding"
  /\ LET failed == mode.execute /\ job.outcome # "succeeded"
         ends   == failed \/ job.plan.done \/ summary.attempted = MaxSteps
     IN  /\ closed' = (closed \/ ends)
         /\ summary' = IF ~failed /\ job.plan.done THEN [summary EXCEPT !.status = "completed"]
                       ELSE summary
  /\ Reply
  /\ UNCHANGED <<control, protocol_failed, pending_plan, poisoned, history, disturbed>> /\ Stay
-----------------------------------------------------------------------------
\* A bug: the review does not watch the control.
WaitsButReview == {"asking", "running"}

\* Where a handler waits for somebody else; each wait watches the control.
Waits == {"asking", "approving", "running"}

WaitStops ==
  /\ place \in Waits /\ Stopped
  /\ IF place = "running"
     THEN /\ Emits /\ Goto("recording")
          /\ job' = [job EXCEPT !.outcome = "failed"]
          /\ UNCHANGED <<summary, launches>> /\ OnlyJob
     ELSE Raise /\ UNCHANGED <<control, poisoned>>

\* A check of the control raises between two waits.
CheckStops ==
  /\ place \in {"proposing", "reserved", "submitting"} /\ Stopped
  /\ place = "proposing" => job.plan \in Plans /\ job.plan.action # NoAction
  /\ Raise /\ UNCHANGED <<control, poisoned>>

\* An event, the evidence or a callback of the host fails in the handler.
HandlerFails ==
  \/ /\ place \notin {"idle", "deciding"}
     /\ poisoned' = poisoned \cup {"audit"}
     /\ Raise /\ UNCHANGED control
  \/ /\ place \in {"approving", "recording"}
     /\ Raise /\ UNCHANGED <<control, poisoned>>
  \/ /\ place \in {"approving", "submitting"}
     /\ poisoned' = poisoned \cup {"approval"} /\ cancelled' = TRUE
     /\ Raise /\ UNCHANGED now
-----------------------------------------------------------------------------
\* run: session_started is stored, the control checked, the provider bound.
StartRun ==
  /\ phase = "ready"
  /\ \E execute, interactive \in BOOLEAN :
       mode' = [mode EXCEPT !.execute = execute, !.interactive = interactive]
  /\ \/ ~Stopped /\ phase' = "dialogue" /\ UNCHANGED closed
     \/ phase' = "finishing" /\ closed' = TRUE /\ (Stopped \/ Planned)
  /\ UNCHANGED <<control, place, job, protocol_failed, pending_plan, summary, poisoned, history,
                 disturbed, final>>

\* A bug: a coordinator that closed properly is believed.
DialogueTrusted ==
  /\ phase = "dialogue" /\ place = "idle"
  /\ phase' = "finishing"
  /\ UNCHANGED <<control, gates, summary, poisoned, history, disturbed, mode, final, place, job>>

\* The coordinator closed; properly says whether with the expected result.
DialogueReturns ==
  /\ phase = "dialogue" /\ place = "idle" /\ ~Stopped
  /\ \E properly \in BOOLEAN :
       IF protocol_failed \/ ~closed \/ ~properly
       THEN Reject
       ELSE UNCHANGED <<control, gates, summary, poisoned, history, disturbed, mode, final>>
  /\ phase' = "finishing"
  /\ UNCHANGED <<place, job>>

\* The dialogue is over for an exception, or for a stop of the control.
DialogueRaises ==
  /\ phase = "dialogue" /\ place = "idle"
  /\ phase' = "finishing" /\ closed' = TRUE
  /\ summary' = [summary EXCEPT !.status = "stopped"]
  /\ UNCHANGED <<control, mode, place, job, protocol_failed, pending_plan, poisoned, history,
                 disturbed, final>>

\* session_finished; run raises when the trail is gone.
Finish ==
  /\ phase = "finishing"
  /\ \/ /\ Emits /\ phase' = "finished"
        /\ final' = IF "approval" \in poisoned THEN "stopped" ELSE summary.status
        /\ UNCHANGED poisoned
     \/ /\ phase' = "raised" /\ poisoned' = poisoned \cup {"audit"}
        /\ UNCHANGED final
  /\ UNCHANGED <<control, mode, place, job, gates, summary, history, disturbed>>

World == (Tick \/ Cancel) /\ UNCHANGED <<phase, mode, place, job, gates, summary, poisoned,
                                         history, disturbed, final>>

\* What the thread of run does by itself once it got there.
Proceeds == Propose \/ Reserved \/ Submit \/ Launch \/ Record \/ Decide \/ CheckStops \/ Finish

Next ==
  \/ StartRun
  \/ \E r \in Requests : Exchange(r)
  \/ Concurrent
  \/ \E p \in Plans : ProviderQuotes(p)
  \/ ProviderFails \/ ReviewReturns \/ RunEnds
  \/ Proceeds \/ WaitStops \/ HandlerFails
  \/ DialogueReturns \/ DialogueRaises
  \/ World

Spec == Init /\ [][Next]_vars

\* Time passes, the thread goes on, and whoever is waited for gives up when stopped; an event
\* that cannot be stored raises.
FairSpec ==
  /\ Spec
  /\ WF_vars(Tick /\ World)
  /\ WF_vars(Proceeds)
  /\ WF_vars(WaitStops)
  /\ WF_vars(HandlerFails /\ ~Emits)
  /\ WF_vars(DialogueRaises /\ Stopped)
-----------------------------------------------------------------------------
Jobs == [plan : Plans \cup {NoPlan, Malformed}, granted : BOOLEAN, outcome : Outcomes]

Summaries == [status : {"stopped", "completed"}, attempted : 0 .. MaxSteps,
              succeeded : 0 .. MaxSteps, reserved : 0 .. MaxOutput]

Quotes == [step : 1 .. MaxSteps, plan : Plans]

Entries == [step : 1 .. MaxSteps, action : Actions]

TypeOK ==
  /\ ControlType
  /\ phase \in {"ready", "dialogue", "finishing", "finished", "raised"}
  /\ mode \in [planned : BOOLEAN, execute : BOOLEAN, interactive : BOOLEAN]
  /\ place \in Places /\ job \in Jobs
  /\ closed \in BOOLEAN /\ protocol_failed \in BOOLEAN /\ pending_plan \in Plans \cup {NoPlan}
  /\ summary \in Summaries
  /\ poisoned \subseteq {"audit", "approval"}
  /\ quotes \in Seq(Quotes) /\ reservations \in Seq(Entries) /\ launches \in Seq(Entries)
  /\ disturbed \in BOOLEAN /\ final \in {"none", "stopped", "completed"}

Steps(s) == {s[i].step : i \in DOMAIN s}

\* Every tool that starts was reserved for in its step, was quoted for it by the provider if
\* there is one, and is the only one of its step; what was reserved is never given back and
\* stays within the budget of the session (control_plane.py:238-248).
EveryLaunchIsAccounted ==
  /\ \A i \in DOMAIN launches :
       /\ \E j \in DOMAIN reservations : reservations[j] = launches[i]
       /\ Planned => \E j \in DOMAIN quotes : /\ quotes[j].step = launches[i].step
                                              /\ quotes[j].plan.action = launches[i].action
  /\ Cardinality(Steps(launches)) = Len(launches)
  /\ Cardinality(Steps(reservations)) = Len(reservations)
  /\ summary.reserved = SumFunction([j \in DOMAIN reservations |->
                                       Allowance[reservations[j].action]])
  /\ summary.reserved <= MaxOutput

\* Once the session is stopped, a request was rejected or a service has failed, no tool starts
\* and nobody is asked for an approval any more, a request that is under way included
\* (control_plane.py:117-120).
NothingStartsOnceStopped ==
  [][launches' # launches \/ (place' = "approving" /\ place # "approving")
       => ~Stopped /\ ~protocol_failed /\ poisoned = {}]_vars

\* A session is only reported as completed if no call was rejected or failed, whatever came in
\* while the last request was answered, if every reserved action succeeded when the session
\* executes, and if the provider, when there is one, has said that it is done.
CompletionIsEarned ==
  final = "completed" =>
    /\ ~disturbed /\ "approval" \notin poisoned
    /\ IF mode.execute THEN Len(reservations) = summary.succeeded ELSE launches = <<>>
    /\ Planned => quotes # <<>> /\ quotes[Len(quotes)].plan.done

\* Every session ends: neither an unanswered review, nor a provider, a tool or a coordinator
\* that never answers keeps the session beyond its deadline (execution.py:44-50).
SessionEnds == phase = "dialogue" ~> phase \in {"finished", "raised"}
=============================================================================
