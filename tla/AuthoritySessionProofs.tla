------------------------ MODULE AuthoritySessionProofs ------------------------
(***************************************************************************)
(* Theorems about AuthoritySession, for every policy, limits and allowance, *)
(* and about CoordinatorDialogue, for every coordinator and all limits.    *)
(***************************************************************************)
EXTENDS AuthoritySession, CoordinatorDialogue, SequenceTheorems, FoldTheorems, TLAPS

USE ContextAssumption, AuthorityAssumption

\* A request is only under way during the dialogue, and the session is closed after it; a
\* rejection has cancelled the session; a service that failed has either done so too, or
\* closed the session while no request was under way.
HaltInv ==
  /\ place # "idle" => phase = "dialogue"
  /\ phase \notin {"ready", "dialogue"} => closed
  /\ protocol_failed => cancelled
  /\ poisoned # {} => cancelled \/ (closed /\ place = "idle")

LEMMA RejectHalts ==
  ASSUME HaltInv, Reject, UNCHANGED place,
         phase' = phase \/ (phase' = "finishing" /\ place = "idle")
  PROVE  HaltInv'
BY DEF Reject, HaltInv

LEMMA RaiseHalts ==
  ASSUME HaltInv, Raise, cancelled => cancelled'
  PROVE  HaltInv'
BY DEF HaltInv, Raise, Reply, Stay

LEMMA StillHalted ==
  ASSUME HaltInv, UNCHANGED <<phase, protocol_failed, poisoned>>,
         cancelled => cancelled', closed => closed',
         place' = "idle" \/ place # "idle"
  PROVE  HaltInv'
BY DEF HaltInv

LEMMA HaltStep ==
  ASSUME HaltInv, [Next]_vars
  PROVE  HaltInv'
<1> USE DEF gates, control, history, Stay, OnlyJob, Goto, Reply
<1>1. CASE StartRun
  BY <1>1 DEF StartRun, HaltInv
<1>2. ASSUME NEW r \in Requests, Exchange(r) PROVE HaltInv'
  <2>1. CASE Stopped /\ Raise /\ UNCHANGED <<control, poisoned>>
    BY <2>1, RaiseHalts
  <2>2. CASE Reject /\ UNCHANGED <<phase, place, job>>
    BY <2>2, RejectHalts
  <2>3. CASE ~Stopped /\ ~Refused(r) /\ Accept(r)
    BY <1>2, <2>3 DEF Exchange, Refused, Accept, HaltInv
  <2> QED
    BY <1>2, <2>1, <2>2, <2>3 DEF Exchange
<1>3. CASE Concurrent
  BY <1>3, RejectHalts DEF Concurrent
<1>4. CASE (\E p \in Plans : ProviderQuotes(p)) \/ ProviderFails
  <2>1. UNCHANGED <<phase, protocol_failed, poisoned, cancelled>> /\ place' = "idle"
    BY <1>4 DEF ProviderQuotes, ProviderFails
  <2>2. closed => closed'
    BY <1>4 DEF ProviderQuotes, ProviderFails
  <2> QED
    BY <2>1, <2>2, StillHalted
<1>5. CASE ReviewReturns \/ RunEnds \/ Reserved \/ Submit \/ Launch
  <2>1. place # "idle" /\ OnlyJob
    BY <1>5 DEF ReviewReturns, RunEnds, Reserved, Submit, Launch
  <2> QED
    BY <2>1, StillHalted
<1>6. CASE Propose \/ Decide
  <2>1. UNCHANGED <<phase, protocol_failed, poisoned, cancelled>> /\ place # "idle"
    BY <1>6 DEF Propose, Decide
  <2>2. closed => closed'
    BY <1>6 DEF Propose, Decide, EndsHere, Rejected, Reserve
  <2> QED
    BY <2>1, <2>2, StillHalted
<1>7. CASE Record \/ WaitStops \/ CheckStops
  <2>1. CASE Raise /\ UNCHANGED <<control, poisoned>>
    BY <2>1, RaiseHalts
  <2>2. CASE place # "idle" /\ OnlyJob
    BY <2>2, StillHalted
  <2> QED
    BY <1>7, <2>1, <2>2 DEF Record, WaitStops, CheckStops, Waits
<1>8. CASE HandlerFails
  BY <1>8 DEF HandlerFails, Raise, HaltInv
<1>9. CASE DialogueReturns
  <2>1. CASE Reject
    BY <1>9, <2>1, RejectHalts DEF DialogueReturns
  <2>2. CASE closed /\ UNCHANGED <<control, gates, poisoned>>
    BY <1>9, <2>2 DEF DialogueReturns, HaltInv
  <2> QED
    BY <1>9, <2>1, <2>2 DEF DialogueReturns
<1>10. CASE DialogueRaises
  BY <1>10 DEF DialogueRaises, HaltInv
<1>11. CASE Finish
  BY <1>11 DEF Finish, HaltInv
<1>12. CASE World
  BY <1>12, StillHalted DEF World, Tick, Cancel
<1>13. CASE UNCHANGED vars
  BY <1>13, StillHalted DEF vars
<1> QED
  BY <1>1, <1>2, <1>3, <1>4, <1>5, <1>6, <1>7, <1>8, <1>9, <1>10, <1>11, <1>12, <1>13
     DEF Next, Proceeds

\* A session starts no tool and asks for no approval once it is stopped, once a request was
\* rejected, concurrently or not, or once the trail or the approvals have failed, for any
\* limits and any policy (control_plane.py:117-120).
THEOREM NoStartsOnceStopped == Spec => NothingStartsOnceStopped
<1>1. Init => HaltInv
  BY DEF Init, HaltInv
<1>2. HaltInv /\ [Next]_vars => HaltInv'
  BY HaltStep
<1>3. HaltInv /\ [Next]_vars =>
        [launches' # launches \/ (place' = "approving" /\ place # "approving")
           => ~Stopped /\ ~protocol_failed /\ poisoned = {}]_vars
  <2> SUFFICES ASSUME HaltInv, Next,
                      launches' # launches \/ (place' = "approving" /\ place # "approving")
               PROVE  ~Stopped /\ ~protocol_failed /\ poisoned = {}
    OBVIOUS
  <2>1. place # "idle" /\ ~Stopped
    <3> USE DEF history, OnlyJob, Stay, Goto, Reply
    <3>1. CASE Launch \/ Reserved
      BY <3>1 DEF Launch, Reserved
    <3>2. ASSUME NEW r \in Requests, Exchange(r) PROVE FALSE
      BY <3>2 DEF Exchange, Raise, Reject, Accept
    <3>3. CASE Concurrent
      BY <3>3 DEF Concurrent, Reject
    <3>4. CASE (\E p \in Plans : ProviderQuotes(p)) \/ ProviderFails \/ ReviewReturns \/ RunEnds
      BY <3>4 DEF ProviderQuotes, ProviderFails, ReviewReturns, RunEnds
    <3>5. CASE Propose \/ Decide \/ Submit
      BY <3>5 DEF Propose, Decide, Submit, EndsHere, Rejected, Reserve
    <3>6. CASE Record \/ WaitStops \/ CheckStops \/ HandlerFails
      BY <3>6 DEF Record, WaitStops, CheckStops, HandlerFails, Raise
    <3>7. CASE StartRun \/ DialogueReturns \/ DialogueRaises \/ Finish \/ World
      BY <3>7 DEF StartRun, DialogueReturns, DialogueRaises, Finish, World, Reject
    <3> QED
      BY <3>1, <3>2, <3>3, <3>4, <3>5, <3>6, <3>7 DEF Next, Proceeds
  <2> QED
    BY <2>1 DEF HaltInv, Stopped
<1> QED
  BY <1>1, <1>2, <1>3, PTL DEF Spec, NothingStartsOnceStopped
-----------------------------------------------------------------------------
(***************************************************************************)
(* What the session is accountable for.                                    *)
(***************************************************************************)
\* Where a step that was reserved for is on its way to the tool.
Acting == {"reserved", "approving", "submitting", "launching", "running"}

\* The provider has quoted this plan for the step that is under way.
Quoted(p) ==
  quotes # <<>> /\ quotes[Len(quotes)] = [step |-> summary.attempted, plan |-> p]

\* The step under way has not been reserved for.
Ahead == place \in {"asking", "proposing"} \/ pending_plan # NoPlan

\* The plan of the request in hand is the quoted one, and its reservation the last one.
RequestInv ==
  /\ pending_plan # NoPlan => Planned /\ place = "idle" /\ Quoted(pending_plan)
  /\ place = "asking" => Planned
  /\ place = "proposing" => job.plan \in Plans \cup {Malformed} /\ (Planned => job.plan \in Plans)
  /\ place \in Acting \cup {"recording", "deciding"}
       => job.plan \in Plans /\ job.plan.action # NoAction
  /\ Planned /\ place \notin {"idle", "asking"} => Quoted(job.plan)
  /\ place \in Acting => reservations # <<>> /\ reservations[Len(reservations)] = Here

\* A step is reserved for at most once, and succeeds at most once.
CountInv ==
  /\ Len(reservations) <= summary.attempted
  /\ Ahead => Len(reservations) < summary.attempted
  /\ summary.succeeded <= Len(reservations)
  /\ place \in Acting => summary.succeeded < Len(reservations)

\* The fields of the report and of the request keep their types one by one.
LEMMA FieldsTyped ==
  ASSUME summary \in Summaries, job \in Jobs
  PROVE  /\ summary.status \in {"stopped", "completed"}
         /\ summary.attempted \in 0 .. MaxSteps /\ summary.succeeded \in 0 .. MaxSteps
         /\ summary.reserved \in 0 .. MaxOutput
         /\ \A status \in {"stopped", "completed"} : [summary EXCEPT !.status = status] \in Summaries
         /\ \A n \in 0 .. MaxSteps : [summary EXCEPT !.attempted = n] \in Summaries
         /\ \A n \in 0 .. MaxSteps : [summary EXCEPT !.succeeded = n] \in Summaries
         /\ \A n \in 0 .. MaxOutput : [summary EXCEPT !.reserved = n] \in Summaries
         /\ job.plan \in Plans \cup {NoPlan, Malformed}
         /\ NoJob \in Jobs
         /\ \A p \in Plans \cup {NoPlan, Malformed} : [job EXCEPT !.plan = p] \in Jobs
         /\ \A granted \in BOOLEAN : [job EXCEPT !.granted = granted] \in Jobs
         /\ \A outcome \in Outcomes : [job EXCEPT !.outcome = outcome] \in Jobs
<1>1. summary.status \in {"stopped", "completed"} /\ summary.attempted \in 0 .. MaxSteps
        /\ summary.succeeded \in 0 .. MaxSteps /\ summary.reserved \in 0 .. MaxOutput
  BY DEF Summaries
<1>2. \A status \in {"stopped", "completed"} : [summary EXCEPT !.status = status] \in Summaries
  BY DEF Summaries
<1>3. \A n \in 0 .. MaxSteps : [summary EXCEPT !.attempted = n] \in Summaries
  BY DEF Summaries
<1>4. \A n \in 0 .. MaxSteps : [summary EXCEPT !.succeeded = n] \in Summaries
  BY DEF Summaries
<1>5. \A n \in 0 .. MaxOutput : [summary EXCEPT !.reserved = n] \in Summaries
  BY DEF Summaries
<1>6. job.plan \in Plans \cup {NoPlan, Malformed} /\ NoJob \in Jobs
  BY DEF Jobs, NoJob, Outcomes
<1>7. /\ \A p \in Plans \cup {NoPlan, Malformed} : [job EXCEPT !.plan = p] \in Jobs
      /\ \A granted \in BOOLEAN : [job EXCEPT !.granted = granted] \in Jobs
      /\ \A outcome \in Outcomes : [job EXCEPT !.outcome = outcome] \in Jobs
  BY DEF Jobs
<1> QED
  BY <1>1, <1>2, <1>3, <1>4, <1>5, <1>6, <1>7

LEMMA TypeStep ==
  ASSUME TypeOK, RequestInv, CountInv, [Next]_vars
  PROVE  TypeOK'
<1> USE DEF TypeOK, ControlType, gates, control, history, Stay, OnlyJob, Goto, Reply, Places
<1>0. summary \in Summaries /\ job \in Jobs
  OBVIOUS
<1>1. CASE StartRun
  <2>1. mode' \in [planned : BOOLEAN, execute : BOOLEAN, interactive : BOOLEAN]
    BY <1>1 DEF StartRun
  <2>2. phase' \in {"dialogue", "finishing"} /\ closed' \in BOOLEAN
    BY <1>1 DEF StartRun
  <2> QED
    BY <1>1, <2>1, <2>2 DEF StartRun
<1>2. ASSUME Reject, UNCHANGED <<phase, place, job>> \/
             (phase' = "finishing" /\ UNCHANGED <<place, job>>)
      PROVE  TypeOK'
  BY <1>0, <1>2, FieldsTyped DEF Reject
<1>3. ASSUME Raise, now' = now, cancelled' \in BOOLEAN, poisoned' \subseteq {"audit", "approval"}
      PROVE  TypeOK'
  BY <1>0, <1>3, FieldsTyped DEF Raise
<1>4. ASSUME NEW r \in Requests, Exchange(r) PROVE TypeOK'
  <2>1. CASE ~Stopped /\ ~Refused(r) /\ Accept(r)
    <3>1. r.step \in 0 .. MaxSteps
      BY <2>1 DEF Refused, Requests
    <3>2. r.plan \in Plans \cup {NoPlan, Malformed}
      BY DEF Requests
    <3>3. summary' \in Summaries /\ job' \in Jobs
      BY <1>0, <2>1, <3>1, <3>2, FieldsTyped DEF Accept
    <3> QED
      BY <2>1, <3>3 DEF Accept
  <2> QED
    BY <1>2, <1>3, <1>4, <2>1 DEF Exchange
<1>5. ASSUME NEW p \in Plans, ProviderQuotes(p) PROVE TypeOK'
  <2>1. summary.attempted \in 1 .. MaxSteps
    BY <1>0, <1>5, FieldsTyped DEF ProviderQuotes, CountInv, Ahead
  <2>2. quotes' \in Seq(Quotes)
    BY <1>5, <2>1 DEF ProviderQuotes, Quotes
  <2> QED
    BY <1>0, <1>5, <2>2, FieldsTyped DEF ProviderQuotes
<1>6. CASE ProviderFails
  BY <1>0, <1>6, FieldsTyped DEF ProviderFails
<1>7. CASE Propose
  <2>1. CASE job.plan # Malformed /\ job.plan.action # NoAction /\ ~OverBudget /\ Reserve
    <3>1. job.plan \in Plans /\ job.plan.action \in Actions
      BY <1>7, <2>1 DEF Propose, RequestInv, Plans
    <3>2. Here \in Entries
      BY <1>0, <1>7, <3>1, FieldsTyped DEF Here, Entries, CountInv, Ahead, Propose
    <3>3. summary.reserved + Allowance[job.plan.action] \in 0 .. MaxOutput
      BY <1>0, <2>1, <3>1, FieldsTyped DEF OverBudget
    <3>4. summary' \in Summaries
      BY <1>0, <2>1, <3>3, FieldsTyped DEF Reserve
    <3>5. reservations' \in Seq(Entries)
      BY <2>1, <3>2 DEF Reserve
    <3> QED
      BY <1>7, <2>1, <3>4, <3>5 DEF Propose, Reserve
  <2>2. ASSUME NEW status \in {"stopped", "completed"}, EndsHere(status) PROVE TypeOK'
    <3>1. summary' \in Summaries /\ job' \in Jobs
      BY <1>0, <2>2, FieldsTyped DEF EndsHere
    <3> QED
      BY <1>7, <2>2, <3>1 DEF Propose, EndsHere
  <2>3. ASSUME NEW outcome \in {"denied", "output_limit"}, Rejected(outcome) PROVE TypeOK'
    <3>1. job' \in Jobs
      BY <1>0, <2>3, FieldsTyped DEF Rejected, Outcomes
    <3> QED
      BY <1>7, <2>3, <3>1 DEF Propose, Rejected
  <2>4. summary.status \in {"stopped", "completed"}
    BY <1>0, FieldsTyped
  <2>5. \/ \E status \in {"stopped", "completed"} : EndsHere(status)
        \/ \E outcome \in {"denied", "output_limit"} : Rejected(outcome)
        \/ job.plan # Malformed /\ job.plan.action # NoAction /\ ~OverBudget /\ Reserve
    BY <1>7, <2>4, Zenon DEF Propose
  <2> QED
    BY <2>1, <2>2, <2>3, <2>5, Zenon
<1>8. CASE Reserved \/ ReviewReturns \/ Submit
  <2>1. job' \in Jobs
    BY <1>0, <1>8, FieldsTyped DEF Reserved, ReviewReturns, Submit, Outcomes
  <2> QED
    BY <1>8, <2>1 DEF Reserved, ReviewReturns, Submit
<1>9. CASE Launch
  <2>1. job.plan \in Plans /\ job.plan.action \in Actions
    BY <1>9 DEF Launch, RequestInv, Acting, Plans
  <2>2. Here \in Entries
    BY <1>0, <1>9, <2>1, FieldsTyped DEF Launch, Acting, Here, Entries, CountInv
  <2>3. job' \in Jobs
    BY <1>0, <1>9, FieldsTyped DEF Launch, Outcomes
  <2>4. launches' \in Seq(Entries)
    <3>1. launches' \in {launches, Append(launches, Here)}
      BY <1>9 DEF Launch
    <3>2. launches \in Seq(Entries)
      OBVIOUS
    <3>3. Append(launches, Here) \in Seq(Entries)
      BY <2>2, <3>2, AppendProperties
    <3> QED
      BY <3>1, <3>2, <3>3
  <2> QED
    BY <1>9, <2>3, <2>4 DEF Launch
<1>10. CASE RunEnds
  <2>1. summary.succeeded + 1 \in 0 .. MaxSteps
    BY <1>0, <1>10, FieldsTyped DEF RunEnds, CountInv, Acting
  <2>2. job' \in Jobs
    BY <1>0, <1>10, FieldsTyped DEF RunEnds, Outcomes
  <2>3. summary' \in Summaries
    <3>1. summary' \in {summary, [summary EXCEPT !.succeeded = summary.succeeded + 1]}
      BY <1>10 DEF RunEnds
    <3> QED
      BY <1>0, <2>1, <3>1, FieldsTyped
  <2> QED
    BY <1>10, <2>2, <2>3 DEF RunEnds
<1>11. CASE Decide
  BY <1>0, <1>11, FieldsTyped DEF Decide
<1>12. CASE Record \/ CheckStops \/ WaitStops \/ HandlerFails
  <2>1. CASE Raise
    BY <1>3, <1>12, <2>1 DEF Record, CheckStops, WaitStops, HandlerFails
  <2>2. CASE place' \in Places /\ job' \in Jobs /\ UNCHANGED <<summary, launches>> /\ OnlyJob
    BY <2>2
  <2> QED
    BY <1>0, <1>12, <2>1, <2>2, FieldsTyped
       DEF Record, CheckStops, WaitStops, HandlerFails, Outcomes
<1>13. CASE Concurrent
  BY <1>2, <1>13 DEF Concurrent
<1>14. CASE DialogueReturns
  BY <1>2, <1>14 DEF DialogueReturns
<1>15. CASE DialogueRaises
  BY <1>0, <1>15, FieldsTyped DEF DialogueRaises
<1>16. CASE Finish
  BY <1>0, <1>16, FieldsTyped DEF Finish
<1>17. CASE World
  <2>1. now' \in 0 .. Deadline /\ cancelled' \in BOOLEAN
    <3>1. now \in 0 .. Deadline /\ Deadline \in Nat /\ cancelled \in BOOLEAN
      OBVIOUS
    <3>2. CASE Tick
      BY <3>1, <3>2 DEF Tick
    <3>3. CASE Cancel
      BY <3>1, <3>3 DEF Cancel
    <3> QED
      BY <1>17, <3>2, <3>3 DEF World
  <2> QED
    BY <1>17, <2>1 DEF World
<1>18. CASE UNCHANGED vars
  BY <1>18 DEF vars
<1> QED
  BY <1>1, <1>4, <1>5, <1>6, <1>7, <1>8, <1>9, <1>10, <1>11, <1>12, <1>13, <1>14, <1>15, <1>16,
     <1>17, <1>18 DEF Next, Proceeds

\* Steps after which the same request is in hand further on, or none.
Onwards ==
  \/ place' = place
  \/ place' = "idle"
  \/ /\ place \in Acting /\ place' \in Acting \cup {"recording"}
     /\ place = "running" => place' = "recording"
  \/ place = "proposing" /\ place' = "recording" /\ job.plan \in Plans /\ job.plan.action # NoAction
  \/ place = "recording" /\ place' = "deciding"

LEMMA RequestFrame ==
  ASSUME RequestInv, UNCHANGED <<mode, quotes, reservations, pending_plan>>,
         summary'.attempted = summary.attempted,
         Onwards, place' = "idle" \/ job'.plan = job.plan
  PROVE  RequestInv'
<1>1. CASE place' = "idle"
  BY <1>1 DEF RequestInv, Quoted, Planned, Acting
<1>2. CASE place' # "idle"
  <2>1. \A p : Quoted(p)' <=> Quoted(p)
    BY DEF Quoted
  <2>2. place # "idle" /\ pending_plan' = NoPlan
    BY <1>2 DEF RequestInv, Onwards, Acting
  <2>3. Here' = Here
    BY <1>2 DEF Here
  <2>4. place' \in Acting => place \in Acting
    BY <1>2 DEF Onwards, Acting
  <2>5. place' \in Acting \cup {"recording", "deciding"}
          => job.plan \in Plans /\ job.plan.action # NoAction
    BY <1>2 DEF RequestInv, Onwards, Acting
  <2>6. place' \notin {"idle", "asking"} => place \notin {"idle", "asking"}
    BY <1>2 DEF Onwards, Acting
  <2>7. (place' = "asking" => place = "asking") /\ (place' = "proposing" => place = "proposing")
    BY <1>2 DEF Onwards, Acting
  <2> QED
    BY <1>2, <2>1, <2>2, <2>3, <2>4, <2>5, <2>6, <2>7 DEF RequestInv, Planned
<1> QED
  BY <1>1, <1>2

LEMMA CountFrame ==
  ASSUME CountInv, UNCHANGED <<reservations, pending_plan>>,
         summary'.attempted = summary.attempted, summary'.succeeded = summary.succeeded, Onwards
  PROVE  CountInv'
BY DEF CountInv, Ahead, Onwards, Acting

\* What most steps do to the request in hand.
LEMMA MostStepsGoOn ==
  ASSUME TypeOK, RequestInv, [Next]_vars,
         ~ \E r \in Requests : Exchange(r) /\ Accept(r),
         ~ \E p \in Plans : ProviderQuotes(p),
         ~ (Propose /\ Reserve), ~StartRun
  PROVE  /\ UNCHANGED <<mode, quotes, reservations, pending_plan>>
         /\ summary'.attempted = summary.attempted /\ summary'.reserved = summary.reserved
         /\ Onwards
         /\ place' = "idle" \/ job'.plan = job.plan
<1> USE DEF gates, control, history, Stay, OnlyJob, Goto, Reply, Onwards
<1>1. \A status : LET next == [summary EXCEPT !.status = status]
                 IN  next.attempted = summary.attempted /\ next.reserved = summary.reserved
  BY DEF TypeOK, Summaries
<1>2. \A v : /\ [job EXCEPT !.granted = v].plan = job.plan
             /\ [job EXCEPT !.outcome = v].plan = job.plan
  BY DEF TypeOK, Jobs
<1>3. CASE Raise
  BY <1>3 DEF Raise
<1>4. CASE Reject /\ UNCHANGED <<place, job>>
  BY <1>1, <1>4 DEF Reject
<1>5. CASE \E r \in Requests : Exchange(r)
  BY <1>3, <1>4, <1>5 DEF Exchange
<1>6. CASE Concurrent
  BY <1>4, <1>6 DEF Concurrent
<1>7. CASE ProviderFails
  BY <1>7 DEF ProviderFails
<1>8. CASE ReviewReturns \/ Reserved \/ Submit \/ Launch
  BY <1>2, <1>8 DEF ReviewReturns, Reserved, Submit, Launch, Acting
<1>9. CASE RunEnds
  <2>1. LET next == [summary EXCEPT !.succeeded = @ + 1]
        IN  next.attempted = summary.attempted /\ next.reserved = summary.reserved
    BY DEF TypeOK, Summaries
  <2>2. summary'.attempted = summary.attempted /\ summary'.reserved = summary.reserved
    BY <1>9, <2>1 DEF RunEnds
  <2> QED
    BY <1>2, <1>9, <2>2 DEF RunEnds, Acting
<1>10. CASE Propose
  <2>1. CASE job.plan # Malformed /\ job.plan.action # NoAction
    <3>1. job.plan \in Plans
      BY <1>10, <2>1 DEF Propose, RequestInv
    <3> QED
      BY <1>2, <1>10, <2>1, <3>1 DEF Propose, Rejected, EndsHere
  <2>2. CASE ~(job.plan # Malformed /\ job.plan.action # NoAction)
    BY <1>1, <1>10, <2>2 DEF Propose, EndsHere
  <2> QED
    BY <2>1, <2>2
<1>11. CASE Decide
  BY <1>1, <1>11 DEF Decide
<1>12. CASE Record \/ WaitStops \/ CheckStops \/ HandlerFails
  BY <1>2, <1>3, <1>12 DEF Record, WaitStops, CheckStops, HandlerFails, Acting
<1>13. CASE DialogueReturns
  BY <1>4, <1>13 DEF DialogueReturns
<1>14. CASE DialogueRaises \/ Finish \/ World \/ UNCHANGED vars
  BY <1>1, <1>14 DEF DialogueRaises, Finish, World, vars
<1> QED
  BY <1>5, <1>6, <1>7, <1>8, <1>9, <1>10, <1>11, <1>12, <1>13, <1>14 DEF Next, Proceeds

LEMMA StartKeeps ==
  ASSUME TypeOK, HaltInv, StartRun
  PROVE  /\ Planned' = Planned /\ place = "idle" /\ place' = "idle" /\ phase = "ready"
         /\ UNCHANGED <<pending_plan, quotes, reservations, launches, summary>>
<1>1. \A execute, interactive \in BOOLEAN :
        [mode EXCEPT !.execute = execute, !.interactive = interactive].planned = mode.planned
  BY DEF TypeOK
<1>2. Planned' = Planned
  BY <1>1 DEF StartRun, Planned
<1> QED
  BY <1>2 DEF StartRun, HaltInv, history

LEMMA AcceptGoesAhead ==
  ASSUME TypeOK, RequestInv, NEW r \in Requests, Exchange(r), Accept(r)
  PROVE  /\ place = "idle" /\ phase = "dialogue" /\ ~closed /\ ~Stopped /\ ~Refused(r)
         /\ pending_plan' = NoPlan
         /\ job'.plan = r.plan /\ place' = IF r.op = "plan" THEN "asking" ELSE "proposing"
         /\ summary'.succeeded = summary.succeeded /\ summary'.reserved = summary.reserved
         /\ summary'.status = summary.status
         /\ r.op = "propose" => /\ Planned /\ pending_plan # NoPlan /\ r.plan = pending_plan
                                /\ summary'.attempted = summary.attempted
         /\ r.op # "propose" => /\ pending_plan = NoPlan \/ ~Planned
                                /\ summary'.attempted = summary.attempted + 1
         /\ Planned => r.op \in {"plan", "propose"}
         /\ ~Planned => r.op = "both" /\ r.plan \in Plans \cup {Malformed}
         /\ UNCHANGED <<mode, phase, closed, quotes, reservations, launches, disturbed, control>>
<1>1. place = "idle" /\ phase = "dialogue" /\ ~Stopped
  BY DEF Exchange, Raise, Reject, Accept, Reply, Goto
<1>2. ~Refused(r)
  BY <1>1 DEF Exchange, Raise, Reject, Accept, Goto
<1>3. ~closed /\ r.op # "bad"
        /\ r.step = summary.attempted + (IF r.op = "propose" THEN 0 ELSE 1)
        /\ (Planned => ~((r.op = "plan") # (pending_plan = NoPlan)))
        /\ (r.op = "propose" => r.plan = pending_plan)
  BY <1>2 DEF Refused
<1>4. IF Planned THEN r.op \in {"plan", "propose"}
      ELSE r.op = "both" /\ r.plan \in Plans \cup {Malformed}
  BY <1>3 DEF Requests
<1>5. job'.plan = r.plan
  BY DEF Accept, TypeOK, Jobs
<1>6. \A n : LET next == [summary EXCEPT !.attempted = n]
            IN  /\ next.status = summary.status /\ next.attempted = n
                /\ next.succeeded = summary.succeeded /\ next.reserved = summary.reserved
  BY DEF TypeOK, Summaries
<1>7. /\ r.op = "propose" => summary' = summary
      /\ r.op # "propose" => summary' = [summary EXCEPT !.attempted = r.step]
  BY DEF Accept
<1>8. pending_plan' = NoPlan
  BY <1>3, <1>4 DEF Accept, RequestInv
<1>9. /\ place' = IF r.op = "plan" THEN "asking" ELSE "proposing"
      /\ UNCHANGED <<mode, phase, closed, quotes, reservations, launches, disturbed, control>>
  BY DEF Accept, Goto, Stay, history
<1>10. /\ summary'.succeeded = summary.succeeded /\ summary'.reserved = summary.reserved
       /\ summary'.status = summary.status
       /\ r.op = "propose" => summary'.attempted = summary.attempted
       /\ r.op # "propose" => summary'.attempted = summary.attempted + 1
  <2>1. CASE r.op = "propose"
    BY <1>7, <2>1
  <2>2. CASE r.op # "propose"
    <3>1. summary' = [summary EXCEPT !.attempted = summary.attempted + 1]
      BY <1>3, <1>7, <2>2
    <3> QED BY <1>6, <2>2, <3>1
  <2> QED
    BY <2>1, <2>2
<1> QED
  BY <1>1, <1>2, <1>3, <1>4, <1>5, <1>8, <1>9, <1>10

LEMMA ReserveCounts ==
  ASSUME TypeOK, RequestInv, Propose, Reserve
  PROVE  /\ place = "proposing" /\ place' = "reserved" /\ pending_plan' = pending_plan
         /\ job' = job /\ job.plan \in Plans /\ job.plan.action \in Actions
         /\ ~Stopped /\ Emits
         /\ summary'.attempted = summary.attempted /\ summary'.succeeded = summary.succeeded
         /\ summary'.status = summary.status
         /\ summary'.reserved = summary.reserved + Allowance[job.plan.action]
         /\ reservations' = Append(reservations, Here)
         /\ Len(reservations') = Len(reservations) + 1
         /\ reservations'[Len(reservations')] = Here
         /\ \A i \in DOMAIN reservations : reservations'[i] = reservations[i]
         /\ UNCHANGED <<mode, phase, closed, quotes, launches, disturbed, control>>
<1>1. place = "proposing" /\ place' = "reserved"
  BY DEF Propose, Reserve, Goto
<1>2. job.plan # Malformed /\ job.plan.action # NoAction /\ ~Stopped /\ Emits
  BY <1>1 DEF Propose, EndsHere, Reply
<1>3. job.plan \in Plans /\ job.plan.action \in Actions
  BY <1>1, <1>2 DEF RequestInv, Plans
<1>4. /\ summary'.attempted = summary.attempted /\ summary'.succeeded = summary.succeeded
      /\ summary'.status = summary.status
      /\ summary'.reserved = summary.reserved + Allowance[job.plan.action]
  BY DEF Reserve, TypeOK, Summaries
<1>5. reservations' = Append(reservations, Here) /\ reservations \in Seq(Entries)
  BY DEF Reserve, TypeOK
<1>6. /\ Len(reservations') = Len(reservations) + 1
      /\ reservations'[Len(reservations')] = Here
      /\ \A i \in DOMAIN reservations : reservations'[i] = reservations[i]
  BY <1>5
<1> QED
  BY <1>1, <1>2, <1>3, <1>4, <1>5, <1>6 DEF Propose, Reserve, Stay, control

LEMMA RequestStep ==
  ASSUME TypeOK, HaltInv, RequestInv, [Next]_vars
  PROVE  RequestInv'
<1>1. ASSUME NEW r \in Requests, Exchange(r), Accept(r) PROVE RequestInv'
  <2> USE AcceptGoesAhead
  <2>1. CASE r.op = "propose"
    <3>1. Quoted(r.plan)'
      BY <1>1, <2>1 DEF RequestInv, Quoted
    <3>2. r.plan \in Plans
      BY <1>1, <2>1 DEF TypeOK
    <3> QED
      BY <1>1, <2>1, <3>1, <3>2 DEF RequestInv, Planned, Acting
  <2>2. CASE r.op # "propose"
    BY <1>1, <2>2 DEF RequestInv, Planned, Acting
  <2> QED
    BY <2>1, <2>2
<1>2. ASSUME NEW p \in Plans, ProviderQuotes(p) PROVE RequestInv'
  <2>1. /\ pending_plan' = p /\ place' = "idle" /\ mode' = mode /\ Planned
        /\ quotes' = Append(quotes, [step |-> summary.attempted, plan |-> p])
        /\ summary' = summary
    BY <1>2 DEF ProviderQuotes, Reply, Stay, RequestInv
  <2>2. quotes' # <<>> /\ quotes'[Len(quotes')] = [step |-> summary.attempted, plan |-> p]
    BY <2>1 DEF TypeOK
  <2> QED
    BY <2>1, <2>2 DEF RequestInv, Quoted, Planned, Acting
<1>3. CASE Propose /\ Reserve
  <2>1. reservations' # <<>> /\ reservations'[Len(reservations')] = Here'
    <3>1. reservations' # <<>>
      BY <1>3, ReserveCounts DEF TypeOK
    <3> QED
      BY <1>3, <3>1, ReserveCounts DEF Here
  <2>2. job.plan.action # NoAction
    BY <1>3, ReserveCounts
  <2> QED
    BY <1>3, <2>1, <2>2, ReserveCounts DEF RequestInv, Quoted, Planned
<1>4. CASE StartRun
  <2>1. \A p : Quoted(p)' <=> Quoted(p)
    BY <1>4, StartKeeps DEF Quoted
  <2> QED
    BY <1>4, <2>1, StartKeeps DEF RequestInv, Acting
<1> QED
  BY <1>1, <1>2, <1>3, <1>4, MostStepsGoOn, RequestFrame

LEMMA CountStep ==
  ASSUME TypeOK, HaltInv, RequestInv, CountInv, [Next]_vars
  PROVE  CountInv'
<1>0. Len(reservations) \in Nat /\ summary.attempted \in Nat /\ summary.succeeded \in Nat
  BY DEF TypeOK, Summaries
<1>1. ASSUME NEW r \in Requests, Exchange(r), Accept(r) PROVE CountInv'
  BY <1>0, <1>1, AcceptGoesAhead DEF CountInv, Ahead, Acting
<1>2. ASSUME NEW p \in Plans, ProviderQuotes(p) PROVE CountInv'
  BY <1>2 DEF ProviderQuotes, Reply, Stay, CountInv, Ahead, Acting
<1>3. CASE Propose /\ Reserve
  BY <1>0, <1>3, ReserveCounts DEF CountInv, Ahead, RequestInv
<1>4. CASE StartRun
  BY <1>4, StartKeeps DEF CountInv, Ahead
<1>5. CASE RunEnds
  <2>1. /\ summary'.attempted = summary.attempted
        /\ summary'.succeeded \in {summary.succeeded, summary.succeeded + 1}
    BY <1>5 DEF RunEnds, TypeOK, Summaries
  <2>2. place = "running" /\ place' = "recording" /\ UNCHANGED <<reservations, pending_plan>>
    BY <1>5 DEF RunEnds, Goto, OnlyJob, gates
  <2> QED
    BY <1>0, <2>1, <2>2 DEF CountInv, Ahead, Acting
<1>6. ASSUME ~RunEnds, ~StartRun, ~ \E r \in Requests : Exchange(r) /\ Accept(r),
             ~(Propose /\ Reserve)
      PROVE  summary'.succeeded = summary.succeeded
  <2>1. \/ summary' = summary
        \/ \E status : summary' = [summary EXCEPT !.status = status]
    <3> USE DEF gates, history, OnlyJob
    <3>1. CASE Raise \/ Reject \/ ProviderFails \/ ReviewReturns \/ Reserved \/ Submit \/ Launch
      BY <3>1 DEF Raise, Reject, ProviderFails, ReviewReturns, Reserved, Submit, Launch
    <3>2. CASE \E r \in Requests : Exchange(r)
      BY <1>6, <3>1, <3>2 DEF Exchange
    <3>3. CASE Propose \/ Decide
      BY <1>6, <3>3 DEF Propose, Decide, EndsHere, Rejected
    <3>4. CASE Record \/ WaitStops \/ CheckStops \/ HandlerFails \/ Concurrent
      BY <3>1, <3>4 DEF Record, WaitStops, CheckStops, HandlerFails, Concurrent
    <3>5. CASE DialogueReturns \/ DialogueRaises \/ Finish \/ World \/ UNCHANGED vars
      BY <3>1, <3>5 DEF DialogueReturns, DialogueRaises, Finish, World, vars
    <3>6. CASE \E p \in Plans : ProviderQuotes(p)
      BY <3>6 DEF ProviderQuotes
    <3> QED
      BY <1>6, <3>1, <3>2, <3>3, <3>4, <3>5, <3>6 DEF Next, Proceeds
  <2> QED
    BY <2>1 DEF TypeOK, Summaries
<1>7. CASE ~RunEnds /\ ~StartRun /\ ~(\E r \in Requests : Exchange(r) /\ Accept(r))
             /\ ~(Propose /\ Reserve) /\ ~(\E p \in Plans : ProviderQuotes(p))
  BY <1>6, <1>7, MostStepsGoOn, CountFrame
<1> QED
  BY <1>1, <1>2, <1>3, <1>4, <1>5, <1>7

Ordered(s) == \A i, j \in DOMAIN s : i < j => s[i].step < s[j].step

\* The steps of the reservations increase, and so do those of the launches, each of which has
\* a reservation and a quote; nothing was launched yet in a step that is not running.
OrderInv ==
  /\ Ordered(reservations) /\ Ordered(launches)
  /\ \A i \in DOMAIN reservations :
       /\ reservations[i].step <= summary.attempted
       /\ Ahead => reservations[i].step < summary.attempted
  /\ \A i \in DOMAIN launches : \E j \in DOMAIN reservations : reservations[j] = launches[i]
  /\ place \in Acting \ {"running"}
       => \A i \in DOMAIN launches : launches[i].step < summary.attempted
  /\ Planned => \A i \in DOMAIN launches : \E j \in DOMAIN quotes :
                  /\ quotes[j].step = launches[i].step
                  /\ quotes[j].plan.action = launches[i].action

LEMMA OneEntryPerStep ==
  ASSUME NEW s \in Seq(Entries), Ordered(s)
  PROVE  Cardinality(Steps(s)) = Len(s)
<1> DEFINE n == Len(s)
           f == [i \in 1 .. n |-> s[i].step]
<1>0. n \in Nat /\ DOMAIN s = 1 .. n
  OBVIOUS
<1>1. n \in Nat /\ DOMAIN s = 1 .. n /\ \A i \in 1 .. n : s[i].step \in Int
  <2>1. \A e \in Entries : e.step \in Int
    BY DEF Entries
  <2>2. \A i \in 1 .. n : s[i] \in Entries
    BY <1>0
  <2> QED
    BY <1>0, <2>1, <2>2
<1>2. f \in Surjection(1 .. n, Steps(s))
  BY <1>1 DEF Steps, Surjection
<1>3. IsInjective(f)
  <2> SUFFICES ASSUME NEW i \in 1 .. n, NEW j \in 1 .. n, f[i] = f[j], i # j
               PROVE  FALSE
    BY DEF IsInjective
  <2>1. i < j \/ j < i
    BY <1>1
  <2>2. s[i].step = s[j].step /\ s[i].step \in Int /\ s[j].step \in Int
    BY <1>1
  <2>3. s[i].step < s[j].step \/ s[j].step < s[i].step
    BY <1>0, <2>1 DEF Ordered
  <2> HIDE DEF n, f
  <2> QED
    BY <2>2, <2>3
<1>4. f \in Injection(1 .. n, Steps(s))
  <2>1. f \in [1 .. n -> Steps(s)]
    BY <1>2 DEF Surjection
  <2> HIDE DEF f, n
  <2> QED
    BY <1>3, <2>1 DEF Injection
<1> HIDE DEF f, n
<1>5. IsFiniteSet(1 .. n) /\ Cardinality(1 .. n) = n
  <2>1. /\ IsFiniteSet(1 .. n)
        /\ Cardinality(1 .. n) = IF 1 > n THEN 0 ELSE n - 1 + 1
    BY <1>0, FS_Interval
  <2> QED
    BY <1>0, <2>1
<1>6. Cardinality(Steps(s)) = Cardinality(1 .. n)
  BY <1>2, <1>4, <1>5, FS_Surjection
<1> QED
  BY <1>5, <1>6 DEF n

LEMMA LaunchesGrow ==
  ASSUME TypeOK, RequestInv, [Next]_vars
  PROVE  \/ UNCHANGED launches
         \/ /\ place = "launching" /\ place' = "running" /\ job' = job /\ ~Stopped
            /\ launches' = Append(launches, Here)
            /\ UNCHANGED <<phase, mode, summary, quotes, reservations, pending_plan>>
<1> USE DEF history, OnlyJob, Stay, gates
<1>1. CASE Raise \/ Reject
  BY <1>1 DEF Raise, Reject
<1>2. CASE \E r \in Requests : Exchange(r)
  BY <1>1, <1>2 DEF Exchange, Accept
<1>3. CASE (\E p \in Plans : ProviderQuotes(p)) \/ ProviderFails \/ ReviewReturns \/ RunEnds
  BY <1>3 DEF ProviderQuotes, ProviderFails, ReviewReturns, RunEnds
<1>4. CASE Propose \/ Reserved \/ Submit \/ Decide
  BY <1>4 DEF Propose, Reserved, Submit, Decide
<1>5. CASE Launch
  BY <1>5 DEF Launch, Goto
<1>6. CASE Record \/ WaitStops \/ CheckStops \/ HandlerFails \/ Concurrent
  BY <1>1, <1>6 DEF Record, WaitStops, CheckStops, HandlerFails, Concurrent
<1>7. CASE StartRun \/ DialogueReturns \/ DialogueRaises \/ Finish \/ World \/ UNCHANGED vars
  BY <1>1, <1>7 DEF StartRun, DialogueReturns, DialogueRaises, Finish, World, vars
<1> QED
  BY <1>1, <1>2, <1>3, <1>4, <1>5, <1>6, <1>7 DEF Next, Proceeds

LEMMA OrderStep ==
  ASSUME TypeOK, HaltInv, RequestInv, OrderInv, [Next]_vars
  PROVE  OrderInv'
<1> DEFINE known == UNCHANGED <<mode, quotes, reservations, launches>>
<1>0. /\ summary.attempted \in Nat
      /\ \A i \in DOMAIN reservations : reservations[i] \in Entries /\ reservations[i].step \in Nat
      /\ \A i \in DOMAIN launches : launches[i] \in Entries /\ launches[i].step \in Nat
  <2>1. \A e \in Entries : e.step \in Nat
    BY DEF Entries
  <2>2. /\ reservations \in Seq(Entries) /\ launches \in Seq(Entries)
        /\ summary.attempted \in Nat
    BY DEF TypeOK, Summaries
  <2> QED
    BY <2>1, <2>2
<1>1. ASSUME NEW r \in Requests, Exchange(r), Accept(r) PROVE OrderInv'
  <2>1. \/ summary'.attempted = summary.attempted + 1
        \/ Ahead /\ summary'.attempted = summary.attempted
    BY <1>1, AcceptGoesAhead DEF Ahead
  <2>2. \A i \in DOMAIN reservations : reservations[i].step < summary'.attempted
    BY <1>0, <2>1 DEF OrderInv
  <2>3. place' \notin Acting
    BY <1>1, AcceptGoesAhead DEF Acting
  <2>4. known
    BY <1>1, AcceptGoesAhead
  <2>5. \A i \in DOMAIN reservations : reservations[i].step <= summary'.attempted
    BY <1>0, <2>1, <2>2
  <2> QED
    BY <2>2, <2>3, <2>4, <2>5 DEF OrderInv, Planned, Ordered
<1>2. ASSUME NEW p \in Plans, ProviderQuotes(p) PROVE OrderInv'
  <2>1. /\ place = "asking" /\ place' = "idle"
        /\ UNCHANGED <<summary, mode, reservations, launches>>
        /\ quotes' = Append(quotes, [step |-> summary.attempted, plan |-> p])
    BY <1>2 DEF ProviderQuotes, Reply, Stay
  <2>2. quotes \in Seq(Quotes)
    BY DEF TypeOK
  <2>3. DOMAIN quotes \subseteq DOMAIN quotes' /\ \A j \in DOMAIN quotes : quotes'[j] = quotes[j]
    BY <2>1, <2>2
  <2> QED
    BY <2>1, <2>3 DEF OrderInv, Ahead, Planned, Acting, Ordered
<1>3. CASE Propose /\ Reserve
  <2>1. Ahead /\ Here.step = summary.attempted
    BY <1>3, ReserveCounts DEF Ahead, Here
  <2>2. reservations \in Seq(Entries)
    BY DEF TypeOK
  <2>3. DOMAIN reservations' = DOMAIN reservations \cup {Len(reservations')}
    BY <1>3, <2>2, ReserveCounts
  <2>4. \A i \in DOMAIN reservations : i < Len(reservations') /\ i \in Nat
    BY <1>3, <2>2, ReserveCounts
  <2>9. /\ reservations'[Len(reservations')].step = summary.attempted
        /\ \A i \in DOMAIN reservations : /\ reservations'[i].step = reservations[i].step
                                          /\ reservations[i].step < summary.attempted
    BY <1>3, <2>1, ReserveCounts DEF OrderInv
  <2>5. Ordered(reservations)'
    <3> SUFFICES ASSUME NEW i \in DOMAIN reservations', NEW j \in DOMAIN reservations', i < j
                 PROVE  reservations'[i].step < reservations'[j].step
      BY DEF Ordered
    <3>1. i \in DOMAIN reservations
      <4>1. Len(reservations') \in Nat
        BY <1>3, <2>2, ReserveCounts
      <4>2. j \in Nat /\ j <= Len(reservations')
        <5>1. CASE j = Len(reservations')
          BY <4>1, <5>1
        <5>2. CASE j \in DOMAIN reservations
          BY <2>4, <4>1, <5>2
        <5> QED
          BY <2>3, <5>1, <5>2
      <4>3. i # Len(reservations')
        BY <4>1, <4>2
      <4> QED
        BY <2>3, <4>3
    <3>2. CASE j \in DOMAIN reservations
      BY <2>9, <3>1, <3>2 DEF OrderInv, Ordered
    <3>3. CASE j = Len(reservations')
      BY <2>9, <3>1, <3>3
    <3> QED
      BY <2>3, <3>2, <3>3
  <2>6. \A i \in DOMAIN reservations' : reservations'[i].step <= summary'.attempted
    <3> SUFFICES ASSUME NEW i \in DOMAIN reservations'
                 PROVE  reservations'[i].step <= summary.attempted
      BY <1>3, ReserveCounts
    <3>1. CASE i \in DOMAIN reservations
      BY <1>0, <2>9, <3>1
    <3>2. CASE i = Len(reservations')
      BY <1>0, <2>9, <3>2
    <3> QED
      BY <2>3, <3>1, <3>2
  <2>7. \A i \in DOMAIN launches' : /\ \E j \in DOMAIN reservations' : reservations'[j] = launches'[i]
                                    /\ launches'[i].step < summary'.attempted
    <3> SUFFICES ASSUME NEW i \in DOMAIN launches
                 PROVE  /\ \E j \in DOMAIN reservations' : reservations'[j] = launches[i]
                        /\ launches[i].step < summary.attempted
      BY <1>3, ReserveCounts
    <3>1. PICK j \in DOMAIN reservations : reservations[j] = launches[i]
      BY DEF OrderInv
    <3>2. reservations'[j] = launches[i] /\ j \in DOMAIN reservations'
      BY <1>3, <2>3, <3>1, ReserveCounts
    <3>3. launches[i].step < summary.attempted
      BY <2>9, <3>1
    <3> QED
      BY <3>2, <3>3
  <2>8. ~Ahead'
    BY <1>3, ReserveCounts DEF Ahead, RequestInv
  <2> QED
    BY <1>3, <2>5, <2>6, <2>7, <2>8, ReserveCounts DEF OrderInv, Planned, Ordered
<1>4. CASE StartRun
  BY <1>4, StartKeeps DEF OrderInv, Ahead, Acting, Ordered
<1>5. CASE place = "launching" /\ place' = "running" /\ job' = job /\ launches' = Append(launches, Here)
             /\ UNCHANGED <<mode, summary, quotes, reservations, pending_plan>>
  <2>1. launches \in Seq(Entries) /\ reservations \in Seq(Entries) /\ quotes \in Seq(Quotes)
    BY DEF TypeOK
  <2>2. /\ DOMAIN launches' = DOMAIN launches \cup {Len(launches) + 1}
        /\ launches'[Len(launches) + 1] = Here
        /\ \A i \in DOMAIN launches : /\ launches'[i] = launches[i]
                                      /\ i < Len(launches) + 1 /\ i \in Nat
    BY <1>5, <2>1
  <2>3. Here.step = summary.attempted /\ Here.action = job.plan.action
    BY DEF Here
  <2>4. \E j \in DOMAIN reservations : reservations[j] = Here
    <3>1. Len(reservations) \in DOMAIN reservations /\ reservations[Len(reservations)] = Here
      BY <1>5, <2>1 DEF RequestInv, Acting
    <3> QED
      BY <3>1
  <2>5. Planned => \E j \in DOMAIN quotes : /\ quotes[j].step = Here.step
                                            /\ quotes[j].plan.action = Here.action
    <3> SUFFICES ASSUME Planned
                 PROVE  \E j \in DOMAIN quotes : /\ quotes[j].step = Here.step
                                                 /\ quotes[j].plan.action = Here.action
      OBVIOUS
    <3>1. Quoted(job.plan)
      BY <1>5 DEF RequestInv
    <3>2. Len(quotes) \in DOMAIN quotes
      BY <2>1, <3>1 DEF Quoted
    <3> QED
      BY <2>3, <3>1, <3>2 DEF Quoted
  <2>6. Ordered(launches)'
    BY <1>0, <1>5, <2>2, <2>3 DEF OrderInv, Ordered, Acting
  <2>7. \A i \in DOMAIN launches' : \E j \in DOMAIN reservations : reservations[j] = launches'[i]
    BY <2>2, <2>4 DEF OrderInv
  <2>8. Planned => \A i \in DOMAIN launches' : \E j \in DOMAIN quotes :
                  /\ quotes[j].step = launches'[i].step
                  /\ quotes[j].plan.action = launches'[i].action
    BY <2>2, <2>5 DEF OrderInv
  <2>9. Ahead' => Ahead
    BY <1>5 DEF Ahead
  <2> QED
    BY <1>5, <2>6, <2>7, <2>8, <2>9 DEF OrderInv, Planned, Ordered
<1>6. CASE /\ ~(\E r \in Requests : Exchange(r) /\ Accept(r)) /\ ~(\E p \in Plans : ProviderQuotes(p))
           /\ ~(Propose /\ Reserve) /\ ~StartRun /\ UNCHANGED launches
  <2>1. /\ known /\ pending_plan' = pending_plan /\ Onwards
        /\ summary'.attempted = summary.attempted
    BY <1>6, MostStepsGoOn
  <2>2. Ahead' => Ahead
    BY <2>1 DEF Onwards, Ahead, Acting
  <2>3. place' \in Acting \ {"running"} => place \in Acting \ {"running"}
    BY <2>1 DEF Onwards, Acting
  <2> QED
    BY <2>1, <2>2, <2>3 DEF OrderInv, Planned, Ordered
<1> QED
  BY <1>1, <1>2, <1>3, <1>4, <1>5, <1>6, LaunchesGrow

Amounts == [j \in DOMAIN reservations |-> Allowance[reservations[j].action]]

\* What was reserved adds up to the output the session reports as reserved.
SumInv == summary.reserved = SumFunction(Amounts)

LEMMA SumStep ==
  ASSUME TypeOK, HaltInv, RequestInv, SumInv, [Next]_vars
  PROVE  SumInv'
<1>1. CASE summary'.reserved = summary.reserved /\ reservations' = reservations
  BY <1>1 DEF SumInv, Amounts
<1>2. CASE Propose /\ Reserve
  <2>1. reservations \in Seq(Entries) /\ Len(reservations) \in Nat
    BY DEF TypeOK
  <2>2. /\ DOMAIN reservations = 1 .. Len(reservations)
        /\ DOMAIN reservations' = 1 .. (Len(reservations) + 1)
        /\ reservations'[Len(reservations) + 1] = Here
    BY <1>2, <2>1, ReserveCounts
  <2>3. \A i \in 1 .. (Len(reservations) + 1) : reservations'[i].action \in Actions
    <3>1. Here.action = job.plan.action /\ job.plan.action \in Actions
      BY <1>2, ReserveCounts DEF Here
    <3>2. \A i \in 1 .. Len(reservations) : reservations'[i].action \in Actions
      <4>1. \A i \in 1 .. Len(reservations) : /\ reservations[i] \in Entries
                                               /\ reservations'[i] = reservations[i]
        BY <1>2, <2>1, <2>2, ReserveCounts
      <4>2. \A e \in Entries : e.action \in Actions
        BY DEF Entries
      <4> QED
        BY <4>1, <4>2
    <3>3. \A i \in 1 .. (Len(reservations) + 1) :
            i \in 1 .. Len(reservations) \/ i = Len(reservations) + 1
      BY <2>1
    <3> QED
      BY <2>2, <3>1, <3>2, <3>3
  <2> DEFINE f == [j \in DOMAIN reservations' |-> Allowance[reservations'[j].action]]
  <2>4. \A i \in 1 .. (Len(reservations) + 1) : f[i] \in Nat
    BY <2>2, <2>3
  <2>5. \A i \in 1 .. Len(reservations) : Amounts[i] = f[i]
    <3>1. \A i \in 1 .. Len(reservations) : /\ reservations'[i] = reservations[i]
                                             /\ i \in DOMAIN reservations /\ i \in DOMAIN reservations'
      BY <1>2, <2>1, <2>2, ReserveCounts
    <3> QED
      BY <3>1 DEF Amounts
  <2>6. f[Len(reservations) + 1] = Allowance[job.plan.action]
    BY <2>1, <2>2 DEF Here
  <2>7. DOMAIN Amounts = 1 .. Len(reservations) /\ DOMAIN f = 1 .. (Len(reservations) + 1)
    BY <2>2 DEF Amounts
  <2>8. SumFunction(f) = SumFunction(Amounts) + f[Len(reservations) + 1]
    <3> HIDE DEF f
    <3> QED
      BY <2>1, <2>4, <2>5, <2>7, SumAppends
  <2>9. Amounts' = f
    BY DEF Amounts
  <2> QED
    BY <1>2, <2>6, <2>8, <2>9, ReserveCounts DEF SumInv
<1>3. ASSUME NEW p \in Plans, ProviderQuotes(p) PROVE summary' = summary /\ reservations' = reservations
  BY <1>3 DEF ProviderQuotes
<1> QED
  BY <1>1, <1>2, <1>3, AcceptGoesAhead, StartKeeps, MostStepsGoOn

LEMMA InitAccounts == Init => TypeOK /\ HaltInv /\ RequestInv /\ CountInv /\ OrderInv /\ SumInv
<1> SUFFICES ASSUME Init PROVE TypeOK /\ HaltInv /\ RequestInv /\ CountInv /\ OrderInv /\ SumInv
  OBVIOUS
<1>1. /\ summary = [status |-> "stopped", attempted |-> 0, succeeded |-> 0, reserved |-> 0]
      /\ place = "idle" /\ job = NoJob /\ pending_plan = NoPlan
      /\ quotes = <<>> /\ reservations = <<>> /\ launches = <<>>
  BY DEF Init
<1>2. TypeOK
  <2>1. summary \in Summaries
    BY <1>1 DEF Summaries
  <2>2. NoJob \in Jobs
    BY DEF NoJob, Jobs, Outcomes
  <2>3. mode \in [planned : BOOLEAN, execute : BOOLEAN, interactive : BOOLEAN]
    BY DEF Init
  <2>4. quotes \in Seq(Quotes) /\ reservations \in Seq(Entries) /\ launches \in Seq(Entries)
    BY <1>1
  <2>5. ControlType
    <3>1. now = 0 /\ cancelled = FALSE /\ 0 \in 0 .. Deadline
      BY DEF Init, ControlInit
    <3> QED
      BY <3>1 DEF ControlType
  <2> QED
    BY <1>1, <2>1, <2>2, <2>3, <2>4, <2>5 DEF Init, TypeOK, Places
<1>3. HaltInv /\ RequestInv
  BY <1>1 DEF Init, HaltInv, RequestInv, Acting
<1>4. CountInv
  BY <1>1 DEF CountInv, Ahead, Acting
<1>5. OrderInv
  BY <1>1 DEF OrderInv, Ordered, Acting
<1>6. SumInv
  BY <1>1, SumOfNone DEF SumInv, Amounts, SumFunction
<1> QED
  BY <1>2, <1>3, <1>4, <1>5, <1>6

\* Whatever the coordinator asks, in any order, and whoever calls concurrently: every tool that
\* starts was reserved for and, with a provider, quoted for its own step, no step starts two, and
\* the reservations add up to what is reported, within the budget (control_plane.py:238-248).
THEOREM LaunchesAccounted == Spec => [](TypeOK /\ EveryLaunchIsAccounted)
<1> DEFINE Inv == TypeOK /\ HaltInv /\ RequestInv /\ CountInv /\ OrderInv /\ SumInv
<1>1. Init => Inv
  BY InitAccounts
<1>2. Inv /\ [Next]_vars => Inv'
  BY HaltStep, TypeStep, RequestStep, CountStep, OrderStep, SumStep
<1>3. Inv => TypeOK /\ EveryLaunchIsAccounted
  <2> SUFFICES ASSUME Inv PROVE EveryLaunchIsAccounted
    OBVIOUS
  <2>1. Cardinality(Steps(launches)) = Len(launches) /\ Cardinality(Steps(reservations)) = Len(reservations)
    BY OneEntryPerStep DEF TypeOK, OrderInv
  <2>2. summary.reserved <= MaxOutput
    BY DEF TypeOK, Summaries
  <2> QED
    BY <2>1, <2>2 DEF EveryLaunchIsAccounted, OrderInv, SumInv, Amounts
<1> QED
  BY <1>1, <1>2, <1>3, PTL DEF Spec
-----------------------------------------------------------------------------
(***************************************************************************)
(* When a session may be reported as completed.                            *)
(***************************************************************************)
Completed == summary.status = "completed"

\* A completed session is closed, and a disturbance that comes once it is completed, or while
\* its last request is answered, has stopped it: the end of the dialogue takes its status back.
CloseInv ==
  /\ phase = "ready" => ~disturbed /\ ~Completed
  /\ Completed => closed /\ place = "idle"
  /\ disturbed => closed /\ (place = "idle" \/ cancelled)
  /\ disturbed /\ Completed => phase = "dialogue" /\ Stopped
  /\ final # "none" => phase = "finished"
  /\ final = "completed" => Completed /\ "approval" \notin poisoned
  /\ Completed /\ Planned => quotes # <<>> /\ quotes[Len(quotes)].plan.done

\* What a step does to the status.
LEMMA StatusSet ==
  ASSUME TypeOK
  PROVE  /\ \A v : [summary EXCEPT !.status = v].status = v
         /\ \A v : [summary EXCEPT !.status = v].succeeded = summary.succeeded
         /\ \A n : [summary EXCEPT !.attempted = n].status = summary.status
         /\ \A n : [summary EXCEPT !.attempted = n].succeeded = summary.succeeded
         /\ \A n : [summary EXCEPT !.reserved = n].status = summary.status
         /\ \A n : [summary EXCEPT !.succeeded = n].status = summary.status
         /\ \A n : [summary EXCEPT !.succeeded = n].succeeded = n
BY DEF TypeOK, Summaries

LEMMA RaiseCloses ==
  ASSUME HaltInv, CloseInv, Raise, cancelled => cancelled', now' = now,
         place # "idle" \/ Stopped, phase = "dialogue"
  PROVE  CloseInv'
<1>1. /\ place' = "idle" /\ closed' /\ disturbed' /\ UNCHANGED <<phase, mode, final, quotes, summary>>
  BY DEF Raise, Reply, Stay, history
<1>2. Completed' => Completed
  BY <1>1 DEF Completed
<1>3. Completed => Stopped'
  BY <1>1 DEF CloseInv, Stopped
<1> QED
  BY <1>1, <1>2, <1>3 DEF CloseInv, Completed, Planned

LEMMA RejectCloses ==
  ASSUME TypeOK, CloseInv, Reject, UNCHANGED place, phase = "dialogue", phase' # "ready"
  PROVE  CloseInv'
<1>1. /\ closed' /\ disturbed' /\ cancelled' /\ UNCHANGED <<mode, final>>
      /\ ~Completed'
  BY StatusSet DEF Reject, Completed
<1>2. final = "none"
  BY DEF CloseInv, TypeOK
<1> QED
  BY <1>1, <1>2 DEF CloseInv

\* Steps of a request in hand that do not close anything keep the invariant.
LEMMA RequestKeepsClosed ==
  ASSUME CloseInv, HaltInv, place # "idle",
         UNCHANGED <<phase, mode, final, summary, poisoned, disturbed, control, quotes>>,
         closed => closed'
  PROVE  CloseInv'
<1>1. (phase = "dialogue" /\ final = "none") \/ final # "completed"
  BY DEF HaltInv, CloseInv
<1> QED
  BY <1>1 DEF CloseInv, Completed, Planned, Stopped, control

LEMMA CloseStep ==
  ASSUME TypeOK, HaltInv, RequestInv, CloseInv, [Next]_vars
  PROVE  CloseInv'
<1> USE DEF gates, history, Stay, OnlyJob, Goto, Reply
<1>1. CASE StartRun
  <2>1. final = "none" /\ ~Completed /\ ~disturbed
    BY <1>1, StartKeeps DEF CloseInv
  <2>2. /\ UNCHANGED <<final, disturbed, summary>>
        /\ phase' \in {"dialogue", "finishing"}
    BY <1>1 DEF StartRun
  <2>3. final' = "none" /\ ~Completed' /\ ~disturbed'
    BY <2>1, <2>2 DEF Completed
  <2> QED
    BY <2>2, <2>3 DEF CloseInv
<1>2. ASSUME NEW r \in Requests, Exchange(r) PROVE CloseInv'
  <2>1. CASE Accept(r)
    <3>1. ~closed /\ phase = "dialogue" /\ UNCHANGED <<phase, disturbed>>
            /\ summary'.status = summary.status
      BY <1>2, <2>1, AcceptGoesAhead
    <3>2. ~Completed' /\ ~disturbed' /\ final' = "none"
      BY <2>1, <3>1 DEF Accept, CloseInv, Completed
    <3> QED
      BY <3>1, <3>2 DEF CloseInv
  <2>2. CASE Stopped /\ Raise /\ UNCHANGED <<control, poisoned>>
    BY <1>2, <2>2, RaiseCloses DEF Exchange, control
  <2> QED
    BY <1>2, <2>1, <2>2, RejectCloses DEF Exchange
<1>3. CASE Concurrent
  BY <1>3, RejectCloses DEF Concurrent
<1>4. ASSUME NEW p \in Plans, ProviderQuotes(p) PROVE CloseInv'
  BY <1>4 DEF ProviderQuotes, CloseInv, Completed, Planned, Stopped, control
<1>5. CASE ProviderFails
  BY <1>5 DEF ProviderFails, CloseInv, Completed, Planned, Stopped, control
<1>6. CASE Propose
  <2>1. ASSUME EndsHere(summary.status) PROVE CloseInv'
    <3>1. Completed' => Completed
      BY <2>1, StatusSet DEF EndsHere, Completed
    <3> QED
      BY <1>6, <2>1, <3>1 DEF Propose, EndsHere, CloseInv, HaltInv
  <2>2. CASE job.plan # Malformed /\ job.plan.action = NoAction /\ EndsHere("completed")
    <3>1. Planned => quotes # <<>> /\ quotes[Len(quotes)].plan = job.plan
      BY <1>6 DEF Propose, RequestInv, Quoted
    <3>2. job.plan.done
      BY <1>6, <2>2 DEF Propose, RequestInv, Plans
    <3>3. disturbed => Stopped
      BY <1>6 DEF Propose, CloseInv, Stopped
    <3>4. phase = "dialogue" /\ final = "none"
      BY <1>6 DEF Propose, HaltInv, CloseInv
    <3> QED
      BY <1>6, <2>2, <3>1, <3>2, <3>3, <3>4
         DEF Propose, EndsHere, CloseInv, Completed, Planned, Stopped, control
  <2>3. ASSUME NEW outcome, Rejected(outcome) PROVE CloseInv'
    BY <1>6, <2>3, RequestKeepsClosed DEF Propose, Rejected
  <2>4. CASE Reserve
    <3>1. ~Completed'
      BY <1>6, <2>4, StatusSet DEF Propose, Reserve, Completed, CloseInv
    <3> QED
      BY <1>6, <2>4, <3>1 DEF Propose, Reserve, CloseInv, Completed, HaltInv, control, Stopped
  <2> QED
    BY <1>6, <2>1, <2>2, <2>3, <2>4 DEF Propose
<1>7. CASE Reserved \/ ReviewReturns \/ Submit \/ Launch
  <2>1. place # "idle" /\ UNCHANGED <<phase, mode, final, summary, poisoned, disturbed, control,
                                      quotes, closed>>
    BY <1>7 DEF Reserved, ReviewReturns, Submit, Launch
  <2> QED
    BY <2>1, RequestKeepsClosed
<1>8. CASE RunEnds
  <2>1. ~Completed /\ ~Completed'
    BY <1>8, StatusSet DEF RunEnds, CloseInv, Completed
  <2> QED
    BY <1>8, <2>1 DEF RunEnds, CloseInv, HaltInv, control, Stopped
<1>9. CASE Record \/ WaitStops \/ CheckStops
  <2>1. CASE Raise /\ UNCHANGED <<control, poisoned>>
    BY <1>9, <2>1, RaiseCloses DEF Record, WaitStops, CheckStops, HaltInv, control, Waits
  <2>2. CASE UNCHANGED <<summary, launches>> /\ OnlyJob /\ place # "idle"
    BY <2>2, RequestKeepsClosed
  <2> QED
    BY <1>9, <2>1, <2>2 DEF Record, WaitStops, CheckStops, Waits
<1>10. CASE Decide
  <2>1. phase = "dialogue" /\ final = "none" /\ ~Completed
    BY <1>10 DEF Decide, HaltInv, CloseInv
  <2>2. disturbed => Stopped
    BY <1>10 DEF Decide, CloseInv, Stopped
  <2>3. Completed' => closed' /\ job.plan.done
    BY <1>10, <2>1 DEF Decide, Completed
  <2>4. Planned => quotes # <<>> /\ quotes[Len(quotes)].plan = job.plan
    BY <1>10 DEF Decide, RequestInv, Quoted
  <2> QED
    BY <1>10, <2>1, <2>2, <2>3, <2>4 DEF Decide, CloseInv, Planned, Stopped, control
<1>11. CASE HandlerFails
  <2>1. place # "idle" /\ Raise /\ (cancelled => cancelled') /\ now' = now
    BY <1>11 DEF HandlerFails, control
  <2> QED
    BY <2>1, RaiseCloses DEF HaltInv
<1>12. CASE DialogueReturns
  <2>1. CASE Reject
    BY <1>12, <2>1, RejectCloses DEF DialogueReturns
  <2>2. CASE UNCHANGED <<control, gates, summary, poisoned, history, disturbed, mode, final>>
    BY <1>12, <2>2 DEF DialogueReturns, CloseInv, Completed, Planned, Stopped
  <2> QED
    BY <1>12, <2>1, <2>2 DEF DialogueReturns
<1>13. CASE DialogueRaises
  <2>1. ~Completed' /\ final = "none"
    BY <1>13, StatusSet DEF DialogueRaises, Completed, CloseInv
  <2> QED
    BY <1>13, <2>1 DEF DialogueRaises, CloseInv
<1>14. CASE Finish
  BY <1>14 DEF Finish, CloseInv, Completed, Planned, Stopped, control
<1>15. CASE World
  <2>1. (cancelled => cancelled') /\ (Stopped => Stopped')
    BY <1>15 DEF World, Tick, Cancel, Stopped, TypeOK, ControlType
  <2> QED
    BY <1>15, <2>1 DEF World, CloseInv, Completed, Planned
<1>16. CASE UNCHANGED vars
  BY <1>16 DEF vars, CloseInv, Completed, Planned, Stopped, control
<1> QED
  BY <1>1, <1>2, <1>3, <1>4, <1>5, <1>6, <1>7, <1>8, <1>9, <1>10, <1>11, <1>12, <1>13, <1>14,
     <1>15, <1>16 DEF Next, Proceeds

Spent == Len(reservations) = summary.succeeded

\* While a session executes and nothing has ended it, every reserved action has succeeded, save
\* the one in hand; a session that does not execute starts nothing.
ExecInv ==
  /\ phase = "ready" => launches = <<>> /\ Spent
  /\ place \in Acting \ {"reserved"} => mode.execute
  /\ ~mode.execute => launches = <<>>
  /\ place = "recording" /\ job.outcome \in {"denied", "output_limit"} => closed
  /\ mode.execute =>
       /\ place \in {"asking", "proposing"} \/ (place = "idle" /\ (closed => Completed)) => Spent
       /\ place \in Acting => Len(reservations) = summary.succeeded + 1
       /\ place \in {"recording", "deciding"} /\ job.outcome = "succeeded" => Spent

LEMMA EndedKeepsExec ==
  ASSUME ExecInv, closed', place' = "idle", ~Completed',
         UNCHANGED <<mode, launches>>, phase' # "ready"
  PROVE  ExecInv'
BY DEF ExecInv, Acting

LEMMA RejectKeepsExec ==
  ASSUME TypeOK, ExecInv, Reject, UNCHANGED <<place, job>>, phase' # "ready"
  PROVE  ExecInv'
<1>1. summary'.succeeded = summary.succeeded /\ ~Completed'
  BY StatusSet DEF Reject, Completed
<1>2. UNCHANGED <<mode, launches, reservations>> /\ closed'
  BY DEF Reject, history
<1> QED
  BY <1>1, <1>2 DEF ExecInv, Spent

LEMMA ExecStep ==
  ASSUME TypeOK, HaltInv, RequestInv, CloseInv, ExecInv, [Next]_vars
  PROVE  ExecInv'
<1> USE DEF gates, history, Stay, OnlyJob, Goto, Reply
<1>0. ASSUME place # "idle", Raise PROVE ExecInv'
  <2>1. ~Completed' /\ phase' # "ready"
    BY <1>0 DEF Raise, CloseInv, HaltInv, Completed
  <2> QED
    BY <1>0, <2>1, EndedKeepsExec DEF Raise
<1>1. CASE StartRun
  <2>1. /\ launches = <<>> /\ Spent /\ place = "idle" /\ place' = "idle"
        /\ UNCHANGED <<launches, reservations, summary>> /\ phase' # "ready"
    BY <1>1, StartKeeps DEF ExecInv, StartRun
  <2> QED
    BY <2>1 DEF ExecInv, Acting, Spent
<1>2. ASSUME NEW r \in Requests, Exchange(r) PROVE ExecInv'
  <2>1. CASE Accept(r)
    <3>1. place = "idle" /\ ~closed /\ phase' = "dialogue" /\ place' \in {"asking", "proposing"}
            /\ summary'.succeeded = summary.succeeded /\ UNCHANGED <<mode, launches, reservations>>
      BY <1>2, <2>1, AcceptGoesAhead
    <3> QED
      BY <3>1 DEF ExecInv, Acting, Spent
  <2>2. CASE Stopped /\ Raise /\ UNCHANGED <<control, poisoned>>
    <3>1. /\ place = "idle" /\ place' = "idle" /\ closed' /\ phase' = "dialogue"
          /\ UNCHANGED <<mode, launches, reservations, summary>>
      BY <1>2, <2>2 DEF Exchange, Raise
    <3>2. Completed' => Completed
      BY <3>1 DEF Completed
    <3> QED
      BY <3>1, <3>2 DEF ExecInv, Acting, Spent
  <2> QED
    BY <1>2, <2>1, <2>2, RejectKeepsExec DEF Exchange
<1>3. CASE Concurrent
  BY <1>3, RejectKeepsExec DEF Concurrent
<1>4. ASSUME NEW p \in Plans, ProviderQuotes(p) PROVE ExecInv'
  BY <1>4 DEF ProviderQuotes, ExecInv, Acting, Spent, HaltInv
<1>5. CASE ProviderFails
  <2>1. ~Completed' /\ phase' # "ready"
    BY <1>5 DEF ProviderFails, CloseInv, HaltInv, Completed
  <2> QED
    BY <1>5, <2>1, EndedKeepsExec DEF ProviderFails
<1>6. CASE Propose
  <2>1. /\ place = "proposing" /\ phase = "dialogue" /\ phase' = "dialogue" /\ ~Completed
        /\ UNCHANGED <<mode, launches>>
        /\ mode.execute => Spent
    BY <1>6 DEF Propose, HaltInv, CloseInv, ExecInv
  <2>2. ASSUME NEW status, EndsHere(status) PROVE ExecInv'
    <3>1. summary'.succeeded = summary.succeeded /\ reservations' = reservations
            /\ place' = "idle" /\ closed'
      BY <2>2, StatusSet DEF EndsHere
    <3> QED
      BY <2>1, <3>1 DEF ExecInv, Spent, Acting
  <2>3. ASSUME NEW outcome \in {"denied", "output_limit"}, Rejected(outcome) PROVE ExecInv'
    <3>1. /\ place' = "recording" /\ closed' /\ UNCHANGED <<summary, reservations>>
          /\ job'.outcome # "succeeded"
      BY <2>3 DEF Rejected, TypeOK, Jobs
    <3> QED
      BY <2>1, <3>1 DEF ExecInv, Spent, Acting
  <2>4. CASE Reserve
    <3>1. Len(reservations') = Len(reservations) + 1 /\ summary'.succeeded = summary.succeeded
            /\ place' = "reserved"
      BY <1>6, <2>4, ReserveCounts
    <3> QED
      BY <2>1, <3>1 DEF ExecInv, Spent, Acting
  <2>5. (\E status : EndsHere(status)) \/ Reserve
          \/ \E outcome \in {"denied", "output_limit"} : Rejected(outcome)
    BY <1>6 DEF Propose
  <2> QED
    BY <2>2, <2>3, <2>4, <2>5
<1>7. CASE Reserved \/ ReviewReturns \/ Submit
  <2>1. /\ place \in {"reserved", "approving", "submitting"} /\ phase = "dialogue"
        /\ UNCHANGED <<phase, mode, summary, launches, reservations>>
    BY <1>7 DEF Reserved, ReviewReturns, Submit, HaltInv
  <2>2. \A v : [job EXCEPT !.outcome = v].outcome = v
    BY DEF TypeOK, Jobs
  <2>3. \/ place' \in {"approving", "submitting", "launching"} /\ mode.execute
        \/ place' = "recording" /\ job'.outcome \in {"dry_run", "blocked"}
    <3>1. CASE Reserved
      BY <2>2, <3>1 DEF Reserved
    <3>2. CASE ReviewReturns \/ Submit
      BY <2>2, <3>2 DEF ReviewReturns, Submit, ExecInv, Acting
    <3> QED
      BY <1>7, <3>1, <3>2
  <2>4. /\ mode.execute => Len(reservations) = summary.succeeded + 1
        /\ ~mode.execute => launches = <<>>
    BY <2>1 DEF ExecInv, Acting
  <2> QED
    BY <2>1, <2>3, <2>4 DEF ExecInv, Acting, Spent
<1>8. CASE Launch
  <2>1. mode.execute /\ Len(reservations) = summary.succeeded + 1 /\ phase = "dialogue"
    BY <1>8 DEF Launch, ExecInv, Acting, HaltInv
  <2>2. \/ place' = "running"
        \/ place' = "recording" /\ job'.outcome = "failed"
    BY <1>8 DEF Launch, TypeOK, Jobs
  <2> QED
    BY <1>8, <2>1, <2>2 DEF Launch, ExecInv, Acting, Spent
<1>9. CASE RunEnds
  <2>1. mode.execute /\ Len(reservations) = summary.succeeded + 1 /\ phase = "dialogue"
    BY <1>9 DEF RunEnds, ExecInv, Acting, HaltInv
  <2>2. /\ place' = "recording" /\ UNCHANGED <<phase, mode, launches, reservations>>
        /\ job'.outcome \in {"succeeded", "failed", "blocked"}
        /\ job'.outcome = "succeeded" => summary'.succeeded = summary.succeeded + 1
    BY <1>9, StatusSet DEF RunEnds, TypeOK, Jobs
  <2> QED
    BY <2>1, <2>2 DEF ExecInv, Acting, Spent
<1>10. CASE Record
  <2>1. CASE Raise
    BY <1>0, <1>10, <2>1 DEF Record
  <2>2. CASE job.outcome \in {"denied", "output_limit"} /\ Reply /\ UNCHANGED <<summary, launches>> /\ OnlyJob
    <3>1. closed' /\ ~Completed' /\ phase' # "ready" /\ place' = "idle"
      BY <1>10, <2>2 DEF Record, ExecInv, CloseInv, Completed, HaltInv
    <3> QED
      BY <2>2, <3>1, EndedKeepsExec
  <2>3. CASE Goto("deciding") /\ UNCHANGED <<job, summary, launches>> /\ OnlyJob
    BY <1>10, <2>3 DEF Record, ExecInv, Acting, Spent, HaltInv
  <2> QED
    BY <1>10, <2>1, <2>2, <2>3 DEF Record
<1>11. CASE Decide
  <2>1. /\ place = "deciding" /\ place' = "idle" /\ phase = "dialogue" /\ ~Completed
        /\ UNCHANGED <<phase, mode, launches, reservations>>
        /\ summary'.succeeded = summary.succeeded
    BY <1>11, StatusSet DEF Decide, HaltInv, CloseInv
  <2>2. CASE mode.execute /\ job.outcome # "succeeded"
    <3>1. closed' /\ ~Completed'
      BY <1>11, <2>1, <2>2 DEF Decide, Completed
    <3> QED
      BY <2>1, <3>1, EndedKeepsExec
  <2>3. CASE ~(mode.execute /\ job.outcome # "succeeded")
    BY <2>1, <2>3 DEF ExecInv, Acting, Spent
  <2> QED
    BY <2>2, <2>3
<1>12. CASE WaitStops \/ CheckStops \/ HandlerFails
  <2>1. CASE Raise
    BY <1>0, <1>12, <2>1 DEF WaitStops, CheckStops, HandlerFails, Waits
  <2>2. CASE /\ place = "running" /\ Goto("recording") /\ job' = [job EXCEPT !.outcome = "failed"]
             /\ UNCHANGED <<summary, launches>> /\ OnlyJob
    <3>1. job'.outcome = "failed"
      BY <2>2 DEF TypeOK, Jobs
    <3> QED
      BY <2>2, <3>1 DEF ExecInv, Acting, Spent, HaltInv
  <2> QED
    BY <1>12, <2>1, <2>2 DEF WaitStops, CheckStops, HandlerFails
<1>13. CASE DialogueReturns
  <2>1. CASE Reject
    BY <1>13, <2>1, RejectKeepsExec DEF DialogueReturns
  <2>2. CASE UNCHANGED <<control, gates, summary, poisoned, history, disturbed, mode, final>>
    BY <1>13, <2>2 DEF DialogueReturns, ExecInv, Acting, Spent, Completed
  <2> QED
    BY <1>13, <2>1, <2>2 DEF DialogueReturns
<1>14. CASE DialogueRaises
  <2>1. ~Completed'
    BY <1>14, StatusSet DEF DialogueRaises, Completed
  <2> QED
    BY <1>14, <2>1, EndedKeepsExec DEF DialogueRaises
<1>15. CASE Finish \/ World \/ UNCHANGED vars
  <2>1. /\ UNCHANGED <<mode, place, job, closed, summary, launches, reservations>>
        /\ phase' = "ready" => phase = "ready"
    BY <1>15 DEF Finish, World, vars
  <2> QED
    BY <2>1 DEF ExecInv, Acting, Spent, Completed
<1> QED
  BY <1>1, <1>2, <1>3, <1>4, <1>5, <1>6, <1>7, <1>8, <1>9, <1>10, <1>11, <1>12, <1>13, <1>14,
     <1>15 DEF Next, Proceeds

\* A session that reports completion was not disturbed, by a rejected or failed call, up to its
\* very end; in an executing session every reserved action has succeeded, and the provider, when
\* there is one, has said that it is done (control_plane.py:262-273, :319-351).
THEOREM CompletionsAreEarned == Spec => []CompletionIsEarned
<1> DEFINE Inv == /\ TypeOK /\ HaltInv /\ RequestInv /\ CountInv
                  /\ CloseInv /\ ExecInv
<1>1. Init => Inv
  <2> SUFFICES ASSUME Init PROVE CloseInv /\ ExecInv
    BY InitAccounts
  <2>1. ~Completed /\ Spent
    BY DEF Init, Completed, Spent
  <2>2. place = "idle" /\ final = "none" /\ launches = <<>> /\ ~disturbed
          /\ ~mode.execute
    BY DEF Init
  <2> QED
    BY <2>1, <2>2 DEF CloseInv, ExecInv, Acting
<1>2. Inv /\ [Next]_vars => Inv'
  BY HaltStep, TypeStep, RequestStep, CountStep, CloseStep, ExecStep
<1>3. Inv => CompletionIsEarned
  <2> SUFFICES ASSUME Inv, final = "completed" PROVE CompletionIsEarned
    BY DEF CompletionIsEarned
  <2>1. Completed /\ phase = "finished" /\ ~disturbed /\ "approval" \notin poisoned
    BY DEF CloseInv
  <2>2. place = "idle" /\ closed
    BY <2>1 DEF CloseInv
  <2>3. IF mode.execute THEN Len(reservations) = summary.succeeded ELSE launches = <<>>
    BY <2>1, <2>2 DEF ExecInv, Spent
  <2> QED
    BY <2>1, <2>3 DEF CompletionIsEarned, CloseInv
<1> QED
  BY <1>1, <1>2, <1>3, PTL DEF Spec
-----------------------------------------------------------------------------
HIDE AuthorityAssumption
HIDE ContextAssumption
USE DialogueAssumption

\* What may be in a pipe or in a buffer.
Pieces == Heads \cup Bodies

Threads == {"starting", "selecting", "serving", "parsing", "dispatching", "probing", "calling",
            "ending", "leaving", "returned", "accepted", "raised"}

Stages == {"sending_init", "waiting_ready", "waiting_request", "exchanging", "sending_response",
           "waiting_result", "waiting_eof"}

DialogueTypeOK ==
  /\ thread \in Threads /\ stage \in Stages /\ events \subseteq Outputs \cup {"stdin"}
  /\ unsent \in 0 .. MaxParts
  /\ incoming \in Seq(Pieces) /\ out \in Seq(Pieces)
  /\ written \in Seq(Pieces) /\ seen \in Seq(Pieces)
  /\ total \in Nat /\ diagnostics \in Nat /\ requests \in Nat /\ err \in Nat /\ calls \in Nat
  /\ stopping \in BOOLEAN /\ reaped \in BOOLEAN /\ halted \in BOOLEAN
  /\ eof \subseteq Outputs /\ shut \subseteq Outputs
  /\ leader \in {"absent", "alive", "zero", "nonzero", "killed"}
  /\ cause \in {"none", "output_limit", "other"}

\* What was read and counted.
Counted ==
  /\ written = seen \o out
  /\ total = Len(seen) + diagnostics
  /\ IF cause = "output_limit" THEN total > OutputLimit \/ diagnostics > MaxDiagnostics
     ELSE total <= OutputLimit /\ diagnostics <= MaxDiagnostics

\* An end that was seen is closed and drained; an end that is to be served has something.
Ended ==
  /\ "stdout" \in eof => "stdout" \in shut /\ out = <<>>
  /\ "stderr" \in eof => "stderr" \in shut /\ err = 0
  /\ "stdout" \in events /\ cause = "none" => "stdout" \in shut \/ out # <<>>
  /\ "stderr" \in events /\ cause = "none" => "stderr" \in shut \/ err > 0

\* How many frames were parsed.
Parsed ==
  IF stage \in {"sending_init", "waiting_ready"} THEN 0
  ELSE IF stage = "waiting_eof" THEN requests + 2 ELSE requests + 1

Kind(j) == IF j = 1 THEN "READY" ELSE IF j = requests + 2 THEN "RESULT" ELSE "REQUEST"

\* What was read is the frames that were parsed, and what is not parsed yet.
Understood ==
  /\ Len(seen) = 2 * Parsed + Len(incoming)
  /\ \A j \in 1 .. Parsed : seen[2 * j - 1] = Kind(j)
  /\ \A i \in 1 .. Len(incoming) : incoming[i] = seen[2 * Parsed + i]
  /\ Parsed > 0 => seen[2] = "sound"

\* Where the thread is, in which phase.
Placed ==
  /\ thread # "leaving"
  /\ thread = "parsing" => stage \in DOMAIN Awaited
  /\ incoming # <<>> => stage \in DOMAIN Awaited
  /\ thread \in {"dispatching", "probing", "calling"} => stage = "exchanging"
  /\ stage = "exchanging" => thread \in {"serving", "dispatching", "probing", "calling", "raised"}
  /\ "stdout" \in eof => stage = "waiting_eof"
  /\ thread \in {"ending", "returned", "accepted"} => eof = Outputs
  /\ thread \in {"returned", "accepted"} => leader = "zero" /\ reaped
  /\ events # {} => thread \in {"serving", "parsing", "raised"}
  /\ "stdin" \in events => unsent > 0
  /\ (unsent > 0) <=> stage \in {"sending_init", "sending_response"}

\* How many requests there were, and how many calls of exchange.
Asked ==
  /\ calls = IF stage = "exchanging" /\ thread # "calling" THEN requests - 1 ELSE requests
  /\ stage \in {"sending_init", "waiting_ready"} => requests = 0
  /\ stage \in {"exchanging", "sending_response", "waiting_result", "waiting_eof"} => requests >= 1
  /\ requests <= MaxRequests
  /\ stage \in {"sending_response", "waiting_request"} /\ ~stopping => requests < MaxRequests
  /\ stopping => stage \in {"sending_response", "waiting_result", "waiting_eof"}
  /\ stage \in {"waiting_result", "waiting_eof"} => stopping

\* The inductive invariant; a dialogue that failed only keeps its counts and its ends.
DialogueInv ==
  /\ DialogueTypeOK /\ Counted /\ Ended
  /\ cause = "none" => Understood /\ Placed /\ Asked
  /\ cause # "none" => thread \in {"leaving", "raised"}
  /\ thread = "starting" => leader = "absent"

-----------------------------------------------------------------------------
\* Reading takes the front of what is queued.
LEMMA ReadSplits ==
  ASSUME NEW q \in Seq(Pieces), NEW n \in 1 .. Len(q)
  PROVE  /\ SubSeq(q, 1, n) \in Seq(Pieces) /\ Len(SubSeq(q, 1, n)) = n
         /\ SubSeq(q, n + 1, Len(q)) \in Seq(Pieces) /\ Len(SubSeq(q, n + 1, Len(q))) = Len(q) - n
         /\ \A i \in 1 .. Len(q) - n : SubSeq(q, n + 1, Len(q))[i] = q[n + i]
         /\ SubSeq(q, 1, n) \o SubSeq(q, n + 1, Len(q)) = q
         /\ \A i \in 1 .. n : SubSeq(q, 1, n)[i] = q[i]
<1>1. \A i \in 1 .. n : q[i] \in Pieces
  BY ElementOfSeq
<1>2. \A i \in (n + 1) .. Len(q) : q[i] \in Pieces
  BY ElementOfSeq
<1>3. SubSeq(q, 1, n) \in Seq(Pieces) /\ Len(SubSeq(q, 1, n)) = n
      /\ \A i \in 1 .. n : SubSeq(q, 1, n)[i] = q[i]
  BY <1>1, SubSeqProperties
<1>4. /\ SubSeq(q, n + 1, Len(q)) \in Seq(Pieces) /\ Len(SubSeq(q, n + 1, Len(q))) = Len(q) - n
      /\ \A i \in 1 .. Len(q) - n : SubSeq(q, n + 1, Len(q))[i] = q[n + i]
  <2>1. /\ SubSeq(q, n + 1, Len(q)) \in Seq(Pieces)
        /\ Len(SubSeq(q, n + 1, Len(q))) = IF n + 1 <= Len(q) THEN Len(q) - (n + 1) + 1 ELSE 0
        /\ \A i \in 1 .. Len(q) - (n + 1) + 1 : SubSeq(q, n + 1, Len(q))[i] = q[(n + 1) + i - 1]
    BY <1>2, SubSeqProperties
  <2> QED
    BY <2>1
<1>5. SubSeq(q, 1, n) \o SubSeq(q, n + 1, Len(q)) = SubSeq(q, 1, Len(q))
  BY ConcatAdjacentSubSeq
<1>6. SubSeq(q, 1, Len(q)) = q
  BY SubSeqFull
<1> QED
  BY <1>3, <1>4, <1>5, <1>6

\* Nothing is read, asked or called yet.
LEMMA DialogueStarts == DialogueInit => DialogueInv
<1> SUFFICES ASSUME DialogueInit PROVE DialogueInv
  OBVIOUS
<1> USE DEF DialogueInit
<1>0. << >> \in Seq(Pieces)
  BY EmptySeq
<1>1. DialogueTypeOK
  <2>1. incoming \in Seq(Pieces) /\ out \in Seq(Pieces) /\ written \in Seq(Pieces) /\ seen \in Seq(Pieces)
    BY <1>0
  <2>2. thread \in Threads /\ stage \in Stages /\ unsent \in 0 .. MaxParts
    BY DEF Threads, Stages, DialogueAssumption
  <2>3. events \subseteq Outputs \cup {"stdin"} /\ eof \subseteq Outputs /\ shut \subseteq Outputs
    OBVIOUS
  <2> QED
    BY <2>1, <2>2, <2>3 DEF DialogueTypeOK
<1>2. Counted
  BY DEF Counted, OutputLimit
<1>3. Ended
  BY DEF Ended
<1>4. Understood
  BY DEF Understood, Parsed
<1>5. Placed /\ Asked
  BY DEF Placed, Asked, Awaited
<1> QED
  BY <1>1, <1>2, <1>3, <1>4, <1>5 DEF DialogueInv

\* A dialogue that is abandoned keeps nothing but its counts.
LEMMA AbandonSettles ==
  ASSUME DialogueTypeOK', Counted', Ended', NEW why \in {"output_limit", "other"}, Abandon(why)
  PROVE  DialogueInv'
BY DEF DialogueInv, Abandon

LEMMA SpawnKeeps == ASSUME DialogueInv, Spawn PROVE DialogueInv'
BY DEF DialogueInv, Spawn, Continue, DialogueTypeOK, Counted, Ended, Understood, Placed, Asked,
       Parsed, Kind, Threads, progress, counts, pipes, child, Outputs

LEMMA CheckKeeps == ASSUME DialogueInv, CheckRaises PROVE DialogueInv'
BY DEF DialogueInv, CheckRaises, Abandon, DialogueTypeOK, Counted, Ended, Threads, progress, counts,
       pipes, child, Outputs

LEMMA SelectKeeps == ASSUME DialogueInv, Select PROVE DialogueInv'
<1> USE DEF Select, Continue, progress, counts, pipes, child
<1>0. cause = "none" /\ thread = "selecting" /\ thread' = "serving" /\ cause' = cause
  BY DEF DialogueInv
<1>1. /\ events' \subseteq Outputs \cup {"stdin"}
      /\ \A end \in Outputs : end \in events' => Readable(end)
      /\ "stdin" \in events' => unsent > 0
  BY DEF Outputs
<1>2. DialogueTypeOK'
  BY <1>0, <1>1 DEF DialogueInv, DialogueTypeOK, Threads
<1>3. Counted' /\ Ended'
  BY <1>0, <1>1 DEF DialogueInv, Counted, Ended, Readable, Outputs
<1>4. Understood' /\ Asked'
  BY <1>0 DEF DialogueInv, Understood, Parsed, Kind, Asked
<1>5. Placed'
  BY <1>0, <1>1 DEF DialogueInv, Placed
<1> QED
  BY <1>0, <1>2, <1>3, <1>4, <1>5 DEF DialogueInv

LEMMA WriteKeeps == ASSUME DialogueInv, WriteInput PROVE DialogueInv'
<1> USE DEF WriteInput, Serves, counts, pipes, child
<1>1. cause = "none" /\ thread = "serving" /\ unsent > 0 /\ stage \in {"sending_init", "sending_response"}
  BY DEF DialogueInv, Placed
<1>2. DialogueTypeOK'
  BY <1>1 DEF DialogueInv, DialogueTypeOK, Threads, Stages, Continue, Abandon
<1>3. Counted' /\ Ended'
  BY <1>1 DEF DialogueInv, Counted, Ended, Continue, Abandon
<1>4. CASE Abandon("other")
  BY <1>2, <1>3, <1>4, AbandonSettles
<1>5. CASE Continue("serving")
  <2>1. unsent' \in 0 .. unsent
        /\ stage' = IF unsent' > 0 THEN stage
                    ELSE IF stage = "sending_init" THEN "waiting_ready"
                    ELSE IF stopping THEN "waiting_result" ELSE "waiting_request"
    BY <1>5 DEF Continue, Abandon
  <2>2. incoming = <<>> /\ eof' = eof /\ "stdout" \notin eof /\ events' = {}
    BY <1>1 DEF DialogueInv, Placed, Awaited
  <2>3. Understood'
    BY <1>1, <2>1 DEF DialogueInv, Understood, Parsed, Kind
  <2>4. Placed'
    BY <1>1, <1>5, <2>1, <2>2 DEF DialogueInv, DialogueTypeOK, Placed, Continue
  <2>5. Asked'
    BY <1>1, <1>5, <2>1 DEF DialogueInv, DialogueTypeOK, Asked, Continue
  <2> QED
    BY <1>1, <1>2, <1>3, <1>5, <2>3, <2>4, <2>5 DEF DialogueInv, Continue
<1> QED
  BY <1>4, <1>5

LEMMA ReadOutputKeeps == ASSUME DialogueInv, ReadOutput PROVE DialogueInv'
<1> USE DEF child
<1>1. cause = "none" /\ thread = "serving" /\ "stdout" \notin eof /\ events' = events \ {"stdout"}
  BY DEF DialogueInv, ReadOutput, Serves, Ended
<1>2. PICK n \in 1 .. Len(out) :
        /\ seen' = seen \o SubSeq(out, 1, n)
        /\ out' = SubSeq(out, n + 1, Len(out))
        /\ total' = total + n
        /\ IF total + n > OutputLimit THEN Abandon("output_limit") /\ UNCHANGED incoming
           ELSE IF stage \notin DOMAIN Awaited THEN Abandon("other") /\ UNCHANGED incoming
           ELSE Continue("parsing") /\ incoming' = incoming \o SubSeq(out, 1, n)
  BY DEF ReadOutput, ReadAmounts
<1>3. UNCHANGED <<stage, unsent, requests, stopping, diagnostics, eof, err, shut, written, leader,
                  reaped, halted, calls>>
  BY DEF ReadOutput
<1> DEFINE a == SubSeq(out, 1, n)
<1>4. out \in Seq(Pieces) /\ seen \in Seq(Pieces) /\ incoming \in Seq(Pieces)
  BY DEF DialogueInv, DialogueTypeOK
<1>5. a \in Seq(Pieces) /\ Len(a) = n /\ out' \in Seq(Pieces) /\ a \o out' = out
  BY <1>2, <1>4, ReadSplits
<1> HIDE DEF a
<1>6. /\ seen' = seen \o a /\ seen' \in Seq(Pieces) /\ Len(seen') = Len(seen) + n
      /\ \A i \in 1 .. Len(seen) + n : seen'[i] = IF i <= Len(seen) THEN seen[i] ELSE a[i - Len(seen)]
  BY <1>2, <1>4, <1>5, ConcatProperties DEF a
<1>7. seen' \o out' = seen \o out
  <2> DEFINE b == SubSeq(out, n + 1, Len(out))
  <2>1. b \in Seq(Pieces) /\ out' = b
    BY <1>2, <1>5
  <2> HIDE DEF b
  <2>2. (seen \o a) \o b = seen \o (a \o b)
    <3>1. seen \in Seq(Pieces) /\ a \in Seq(Pieces) /\ b \in Seq(Pieces)
      BY <1>4, <1>5, <2>1
    <3> QED
      BY <3>1, ConcatAssociative
  <2> QED
    BY <1>5, <1>6, <2>1, <2>2
<1>8. Len(seen) \in Nat /\ Len(incoming) \in Nat
  BY <1>4, LenProperties
<1>9. incoming' \in Seq(Pieces)
  <2>1. incoming \o a \in Seq(Pieces)
    BY <1>4, <1>5, ConcatProperties
  <2> QED
    BY <1>2, <1>4, <2>1 DEF a
<1>10. DialogueTypeOK'
  <2>1. total' \in Nat /\ thread' \in Threads /\ cause' \in {"none", "output_limit", "other"}
    BY <1>1, <1>2 DEF DialogueInv, DialogueTypeOK, Abandon, Continue, Threads
  <2> QED
    BY <1>1, <1>3, <1>5, <1>6, <1>9, <2>1 DEF DialogueInv, DialogueTypeOK
<1>11. Counted'
  <2>1. written' = seen' \o out'
    BY <1>3, <1>7 DEF DialogueInv, Counted
  <2>2. total' = Len(seen') + diagnostics'
    BY <1>2, <1>3, <1>6, <1>8 DEF DialogueInv, DialogueTypeOK, Counted
  <2>3. diagnostics' <= MaxDiagnostics
    BY <1>1, <1>3 DEF DialogueInv, Counted
  <2>4. CASE total + n > OutputLimit
    BY <1>2, <2>1, <2>2, <2>4 DEF Counted, Abandon, OutputLimit
  <2>5. CASE ~(total + n > OutputLimit)
    <3>1. total' <= OutputLimit
      BY <1>2, <2>5 DEF DialogueInv, DialogueTypeOK, OutputLimit
    <3>2. cause' # "output_limit"
      BY <1>1, <1>2, <2>5 DEF Abandon, Continue
    <3> QED
      BY <2>1, <2>2, <2>3, <3>1, <3>2 DEF Counted, OutputLimit
  <2> QED
    BY <2>4, <2>5
<1>12. Ended'
  BY <1>1, <1>3 DEF DialogueInv, Ended
<1>13. CASE Abandon("output_limit") \/ Abandon("other")
  BY <1>10, <1>11, <1>12, <1>13, AbandonSettles
<1>14. CASE Continue("parsing") /\ incoming' = incoming \o a /\ stage \in DOMAIN Awaited
  <2>1. /\ Len(incoming') = Len(incoming) + n
        /\ \A i \in 1 .. Len(incoming) + n :
             incoming'[i] = IF i <= Len(incoming) THEN incoming[i] ELSE a[i - Len(incoming)]
    BY <1>4, <1>5, <1>14, ConcatProperties
  <2>2. Parsed \in Nat /\ Parsed' = Parsed
    BY <1>3 DEF Parsed, DialogueInv, DialogueTypeOK
  <2>3. Understood
    BY <1>1 DEF DialogueInv
  <2>4. Len(seen') = 2 * Parsed' + Len(incoming')
    BY <1>6, <1>8, <2>1, <2>2, <2>3 DEF Understood
  <2>5. \A i \in 1 .. Len(incoming') : incoming'[i] = seen'[2 * Parsed' + i]
    <3> SUFFICES ASSUME NEW i \in 1 .. Len(incoming) + n PROVE incoming'[i] = seen'[2 * Parsed + i]
      BY <2>1, <2>2
    <3>1. CASE i <= Len(incoming)
      BY <3>1, <1>6, <1>8, <2>1, <2>2, <2>3 DEF Understood
    <3>2. CASE i > Len(incoming)
      BY <3>2, <1>6, <1>8, <2>1, <2>2, <2>3 DEF Understood
    <3> QED
      BY <3>1, <3>2, <1>8
  <2>6. \A j \in 1 .. Parsed : seen'[2 * j - 1] = Kind(j)
    BY <1>6, <1>8, <2>2, <2>3 DEF Understood
  <2>7. Parsed > 0 => seen'[2] = "sound"
    BY <1>6, <1>8, <2>2, <2>3 DEF Understood
  <2>8. Understood'
    BY <1>3, <2>2, <2>4, <2>5, <2>6, <2>7 DEF Understood, Kind
  <2>9. Placed' /\ Asked'
    BY <1>1, <1>3, <1>14 DEF DialogueInv, Placed, Asked, Continue, Awaited
  <2> QED
    BY <1>1, <1>10, <1>11, <1>12, <1>14, <2>8, <2>9 DEF DialogueInv, Continue
<1> QED
  BY <1>2, <1>13, <1>14 DEF a

LEMMA EndOfOutputKeeps == ASSUME DialogueInv, EndOfOutput PROVE DialogueInv'
BY DEF DialogueInv, EndOfOutput, Serves, Continue, Abandon, DialogueTypeOK, Counted, Ended, Understood, Placed,
       Asked, Parsed, Kind, Threads, progress, counts, pipes, child, Outputs

LEMMA ServedKeeps == ASSUME DialogueInv, Served PROVE DialogueInv'
<1> USE DEF Served, Continue, progress, counts, pipes, child
<1>0. cause = "none" /\ cause' = cause
  BY DEF DialogueInv
<1>2. DialogueTypeOK'
  BY DEF DialogueInv, DialogueTypeOK, Threads
<1>3. Counted' /\ Ended' /\ Understood'
  BY <1>0 DEF DialogueInv, Counted, Ended, Understood, Parsed, Kind
<1>4. Placed' /\ Asked'
  BY <1>0 DEF DialogueInv, Placed, Asked
<1> QED
  BY <1>0, <1>2, <1>3, <1>4 DEF DialogueInv

\* Diagnostics change nothing but their counts, which may go beyond the limits then.
LEMMA DiagnosticsKeep ==
  ASSUME DialogueInv, cause = "none", NEW limit, CountDiagnostics(limit), "stderr" \notin eof,
         UNCHANGED <<progress, out, shut, written, child, halted, seen, calls>>,
         events' = events \ {"stderr"}
  PROVE  DialogueInv'
<1> USE DEF progress, child
<1>1. PICK n \in 1 .. err :
        /\ err' = err - n /\ total' = total + n /\ diagnostics' = diagnostics + n /\ eof' = eof
        /\ IF total + n > OutputLimit \/ diagnostics + n > MaxDiagnostics
           THEN Abandon("output_limit") ELSE UNCHANGED <<thread, cause>>
  BY DEF CountDiagnostics, ReadAmounts
<1>2. DialogueTypeOK'
  BY <1>1 DEF DialogueInv, DialogueTypeOK, Abandon, Threads
<1>3. Counted'
  BY <1>1 DEF DialogueInv, DialogueTypeOK, Counted, Abandon, OutputLimit
<1>4. Ended'
  BY <1>1 DEF DialogueInv, Ended, Abandon
<1>5. CASE Abandon("output_limit")
  BY <1>2, <1>3, <1>4, <1>5, AbandonSettles
<1>6. CASE UNCHANGED <<thread, cause>>
  <2>1. Understood'
    BY DEF DialogueInv, Understood, Parsed, Kind
  <2>2. Placed' /\ Asked'
    BY <1>1, <1>6 DEF DialogueInv, Placed, Asked
  <2> QED
    BY <1>2, <1>3, <1>4, <1>6, <2>1, <2>2 DEF DialogueInv
<1> QED
  BY <1>1, <1>5, <1>6

\* So does their end.
LEMMA EndOfDiagnosticsKeeps ==
  ASSUME DialogueInv, cause = "none", EndOfDiagnostics, "stderr" \in shut,
         UNCHANGED <<progress, out, shut, written, child, halted, seen, calls>>,
         events' = events \ {"stderr"}
  PROVE  DialogueInv'
<1> USE DEF progress, child, counts, EndOfDiagnostics
<1>2. DialogueTypeOK'
  BY DEF DialogueInv, DialogueTypeOK, Outputs
<1>3. Counted' /\ Ended'
  BY DEF DialogueInv, Counted, Ended
<1>4. Understood' /\ Asked'
  BY DEF DialogueInv, Understood, Parsed, Kind, Asked
<1>5. Placed'
  BY DEF DialogueInv, DialogueTypeOK, Placed, Outputs
<1> QED
  BY <1>2, <1>3, <1>4, <1>5 DEF DialogueInv

LEMMA ReadDiagnosticsKeeps == ASSUME DialogueInv, ReadDiagnostics PROVE DialogueInv'
<1>1. cause = "none" /\ events' = events \ {"stderr"} /\ "stderr" \in events
  BY DEF ReadDiagnostics, Serves, DialogueInv
<1>2. CASE CountDiagnostics(err)
  <2>1. "stderr" \notin eof
    BY <1>2 DEF CountDiagnostics, ReadAmounts, DialogueInv, DialogueTypeOK, Ended
  <2> QED
    BY <1>1, <1>2, <2>1, DiagnosticsKeep DEF ReadDiagnostics
<1>3. CASE EndOfDiagnostics
  <2>1. "stderr" \in shut
    BY <1>1, <1>3 DEF EndOfDiagnostics, DialogueInv, Ended
  <2> QED
    BY <1>1, <1>3, <2>1, EndOfDiagnosticsKeeps DEF ReadDiagnostics
<1> QED
  BY <1>2, <1>3 DEF ReadDiagnostics

LEMMA DrainKeeps == ASSUME DialogueInv, Drain PROVE DialogueInv'
<1>1. cause = "none" /\ events' = events \ {"stderr"} /\ events = {}
  BY DEF Drain, DialogueInv, Placed
<1>2. CASE "stderr" \notin eof /\ CountDiagnostics(MaxDiagnostics - diagnostics + 1)
  BY <1>1, <1>2, DiagnosticsKeep DEF Drain
<1>3. CASE "stderr" \in shut /\ EndOfDiagnostics
  BY <1>1, <1>3, EndOfDiagnosticsKeeps DEF Drain
<1>4. CASE Continue("probing") /\ UNCHANGED <<err, counts, eof>>
  <2> USE DEF Drain, Continue, progress, counts, child
  <2>1. DialogueTypeOK'
    BY <1>4 DEF DialogueInv, DialogueTypeOK, Threads
  <2>2. Counted' /\ Ended' /\ Understood'
    BY <1>1, <1>4 DEF DialogueInv, Counted, Ended, Understood, Parsed, Kind
  <2>3. Placed' /\ Asked'
    BY <1>1, <1>4 DEF DialogueInv, Placed, Asked
  <2> QED
    BY <1>1, <1>4, <2>1, <2>2, <2>3 DEF DialogueInv
<1> QED
  BY <1>2, <1>3, <1>4 DEF Drain

LEMMA ProbeKeeps == ASSUME DialogueInv, Probe PROVE DialogueInv'
<1> USE DEF Probe, progress, counts, pipes, child
<1>1. cause = "none"
  BY DEF DialogueInv
<1>2. DialogueTypeOK'
  BY DEF DialogueInv, DialogueTypeOK, Threads, Continue, Abandon
<1>3. Counted' /\ Ended'
  BY DEF DialogueInv, Counted, Ended, Continue, Abandon
<1>4. CASE Continue("calling") /\ calls' = calls + 1
  <2>1. Understood'
    BY DEF DialogueInv, Understood, Parsed, Kind
  <2>2. Placed' /\ Asked'
    BY <1>1, <1>4 DEF DialogueInv, DialogueTypeOK, Placed, Asked, Continue
  <2> QED
    BY <1>1, <1>2, <1>3, <1>4, <2>1, <2>2 DEF DialogueInv, Continue
<1>5. CASE Abandon("other")
  BY <1>2, <1>3, <1>5, AbandonSettles
<1> QED
  BY <1>4, <1>5

LEMMA ExchangeKeeps == ASSUME DialogueInv, ExchangeReturns PROVE DialogueInv'
<1> USE DEF ExchangeReturns, counts, pipes, child
<1>1. cause = "none"
  BY DEF DialogueInv
<1>2. DialogueTypeOK'
  BY DEF DialogueInv, DialogueTypeOK, Threads, Stages, Continue, Abandon
<1>3. Counted' /\ Ended'
  BY DEF DialogueInv, Counted, Ended, Continue, Abandon
<1>4. CASE Continue("selecting") /\ stage' = "sending_response"
  <2>1. Understood'
    BY <1>1, <1>4 DEF DialogueInv, Understood, Placed, Parsed, Kind
  <2>2. unsent' > 0 /\ events = {} /\ incoming = <<>> /\ calls = requests /\ requests >= 1
        /\ eof' = eof /\ "stdout" \notin eof
    BY <1>1, <1>4 DEF DialogueInv, Placed, Asked, Awaited, Abandon, Continue
  <2>3. Placed' /\ Asked'
    BY <1>1, <1>4, <2>2 DEF DialogueInv, DialogueTypeOK, Placed, Asked, Continue, Abandon
  <2> QED
    BY <1>1, <1>2, <1>3, <1>4, <2>1, <2>3 DEF DialogueInv, Continue
<1>5. CASE Abandon("other")
  BY <1>2, <1>3, <1>5, AbandonSettles
<1> QED
  BY <1>4, <1>5

LEMMA EndKeeps == ASSUME DialogueInv, End PROVE DialogueInv'
<1> USE DEF End, progress, counts, pipes
<1>1. cause = "none"
  BY DEF DialogueInv
<1>2. DialogueTypeOK'
  BY DEF DialogueInv, DialogueTypeOK, Threads, Continue, Abandon
<1>3. Counted' /\ Ended'
  BY DEF DialogueInv, Counted, Ended, Continue, Abandon
<1>4. CASE Continue("selecting") \/ (Continue("returned") /\ leader = "zero" /\ reaped')
  <2>1. Understood' /\ Asked'
    BY <1>1, <1>4 DEF DialogueInv, Understood, Parsed, Kind, Asked, Continue
  <2>2. Placed'
    BY <1>1, <1>4 DEF DialogueInv, Placed, Continue
  <2> QED
    BY <1>1, <1>2, <1>3, <1>4, <2>1, <2>2 DEF DialogueInv, Continue
<1>5. CASE Abandon("other")
  BY <1>2, <1>3, <1>5, AbandonSettles
<1> QED
  BY <1>4, <1>5

LEMMA LeaveKeeps == ASSUME DialogueInv, Leave PROVE DialogueInv'
BY DEF DialogueInv, Leave, DialogueTypeOK, Counted, Ended, Placed, Threads, progress, counts, child, Outputs

LEMMA SettleKeeps == ASSUME DialogueInv, Settle PROVE DialogueInv'
BY DEF DialogueInv, Settle, DialogueTypeOK, Counted, Ended, Understood, Placed,
       Asked, Parsed, Kind, Threads, Awaited, progress, counts, pipes, child, Outputs

LEMMA OneFrame == \A n \in Nat : n >= 2 /\ ~(n > 2) => n = 2
OBVIOUS

\* The header that does not fit is the end of the dialogue, a frame in part is kept.
LEMMA ParseKeeps == ASSUME DialogueInv, Parse PROVE DialogueInv'
<1> USE DEF counts, pipes, child
<1>1. cause = "none" /\ thread = "parsing" /\ stage \in DOMAIN Awaited
  BY DEF DialogueInv, Parse, Placed
<1>2. UNCHANGED <<events, unsent, stopping, total, diagnostics, eof, out, err, shut, written, leader,
                  reaped, halted, seen, calls>>
  BY DEF Parse
<1>3. Understood /\ Placed /\ Asked /\ DialogueTypeOK
  BY <1>1 DEF DialogueInv
<1>4. Len(incoming) \in Nat /\ Len(seen) \in Nat /\ incoming \in Seq(Pieces)
  BY <1>3, LenProperties DEF DialogueTypeOK
<1>5. Ended'
  BY <1>1, <1>2 DEF DialogueInv, Ended
<1>6. Counted'
  <2>1. cause' # "output_limit"
    BY <1>1 DEF Parse, ParseReady, ParseRequest, ParseResult, Abandon, Continue
  <2> QED
    BY <1>1, <1>2, <2>1 DEF DialogueInv, Counted
<1>7. /\ stage' \in Stages /\ incoming' \in Seq(Pieces) /\ requests' \in Nat
      /\ thread' \in Threads /\ cause' \in {"none", "other"}
  <2>1. CASE UNCHANGED <<stage, incoming, requests>>
    BY <1>1, <1>3, <2>1 DEF DialogueTypeOK, Parse, ParseReady, ParseRequest, ParseResult, Abandon, Continue, Threads
  <2>2. CASE incoming' = SubSeq(incoming, 3, Len(incoming))
    <3>1. \A i \in 3 .. Len(incoming) : incoming[i] \in Pieces
      BY <1>4, ElementOfSeq
    <3>2. incoming' \in Seq(Pieces)
      BY <2>2, <3>1, <1>4, SubSeqProperties
    <3> QED
      BY <1>1, <1>3, <3>2 DEF DialogueTypeOK, Parse, ParseReady, ParseRequest, ParseResult, Abandon, Continue, Threads, Stages
  <2>3. CASE incoming' = <<>>
    BY <1>1, <1>3, <2>3, EmptySeq DEF DialogueTypeOK, Parse, ParseReady, ParseRequest, ParseResult, Abandon, Continue, Threads, Stages
  <2> QED
    BY <2>1, <2>2, <2>3 DEF Parse, ParseReady, ParseRequest, ParseResult
<1>8. DialogueTypeOK'
  BY <1>2, <1>3, <1>7 DEF DialogueTypeOK
<1>9. CASE Abandon("other")
  BY <1>5, <1>6, <1>8, <1>9, AbandonSettles
<1>10. CASE Continue("serving") /\ UNCHANGED <<stage, incoming, requests>>
  <2>1. Understood' /\ Placed' /\ Asked'
    BY <1>1, <1>2, <1>3, <1>10 DEF Understood, Parsed, Kind, Placed, Asked, Continue
  <2> QED
    BY <1>1, <1>5, <1>6, <1>8, <1>10, <2>1 DEF DialogueInv, Continue
<1>11. ASSUME Len(incoming) >= 2, incoming[1] = Awaited[stage], ParseReady, ~Abandon("other")
       PROVE  DialogueInv'
  <2>1. /\ stage = "waiting_ready" /\ stage' = "waiting_request" /\ requests' = requests /\ requests = 0
        /\ incoming' = SubSeq(incoming, 3, Len(incoming)) /\ incoming[2] = "sound"
        /\ thread' = "parsing" /\ cause' = cause
    BY <1>3, <1>11 DEF ParseReady, Continue, Asked
  <2>2. /\ Len(incoming') = Len(incoming) - 2
        /\ \A i \in 1 .. Len(incoming) - 2 : incoming'[i] = incoming[i + 2]
    <3>1. 2 \in 1 .. Len(incoming)
      BY <1>4, <1>11
    <3>2. /\ Len(SubSeq(incoming, 2 + 1, Len(incoming))) = Len(incoming) - 2
          /\ \A i \in 1 .. Len(incoming) - 2 :
               SubSeq(incoming, 2 + 1, Len(incoming))[i] = incoming[2 + i]
      BY <1>4, <3>1, ReadSplits
    <3> QED
      BY <1>4, <2>1, <3>2
  <2>3. Parsed = 0 /\ Parsed' = 1
    BY <2>1 DEF Parsed
  <2>4. Len(seen) = Len(incoming) /\ \A i \in 1 .. Len(incoming) : incoming[i] = seen[i]
    BY <1>3, <1>4, <2>3 DEF Understood
  <2>5. seen[1] = "READY" /\ seen[2] = "sound"
    BY <1>4, <1>11, <2>1, <2>4 DEF Awaited
  <2>6. \A i \in 1 .. Len(incoming') : incoming'[i] = seen'[2 + i]
    BY <1>2, <1>4, <2>2, <2>4
  <2>7. Understood'
    BY <1>2, <1>4, <1>11, <2>1, <2>2, <2>3, <2>4, <2>5, <2>6 DEF Understood, Kind
  <2>8. Placed' /\ Asked'
    BY <1>1, <1>2, <1>3, <2>1 DEF Placed, Asked, Awaited
  <2> QED
    BY <1>1, <1>5, <1>6, <1>8, <2>1, <2>7, <2>8 DEF DialogueInv
<1>12. ASSUME Len(incoming) >= 2, incoming[1] = Awaited[stage], ParseRequest \/ ParseResult,
              ~Abandon("other")
       PROVE  DialogueInv'
  <2>0. Len(incoming) \in Nat /\ Len(incoming) >= 2
    BY <1>4, <1>12
  <2>1. /\ Len(incoming) = 2 /\ incoming' = <<>> /\ thread' = "serving" /\ cause' = cause
        /\ \/ stage = "waiting_request" /\ stage' = "exchanging" /\ requests' = requests + 1
              /\ requests # MaxRequests
           \/ stage = "waiting_result" /\ stage' = "waiting_eof" /\ requests' = requests
    <3>1. CASE ParseRequest
      <4>1. ~(Len(incoming) > 2 \/ requests = MaxRequests)
        BY <1>12, <3>1 DEF ParseRequest
      <4>2. /\ stage = "waiting_request" /\ Continue("serving") /\ incoming' = <<>>
            /\ requests' = requests + 1 /\ stage' = "exchanging"
        BY <3>1, <4>1 DEF ParseRequest
      <4>3. Len(incoming) = 2
        BY <2>0, <4>1, OneFrame
      <4> QED
        BY <4>1, <4>2, <4>3 DEF Continue
    <3>2. CASE ParseResult
      <4>1. ~(Len(incoming) > 2)
        BY <1>12, <3>2 DEF ParseResult
      <4>2. /\ stage = "waiting_result" /\ Continue("serving") /\ incoming' = <<>>
            /\ requests' = requests /\ stage' = "waiting_eof"
        BY <3>2, <4>1 DEF ParseResult
      <4>3. Len(incoming) = 2
        BY <2>0, <4>1, OneFrame
      <4> QED
        BY <4>2, <4>3 DEF Continue
    <3> QED
      BY <1>12, <3>1, <3>2
  <2>2. requests \in Nat /\ Parsed = requests + 1 /\ Parsed' = requests + 2
    BY <1>3, <2>1 DEF Parsed, DialogueTypeOK
  <2>3. /\ Len(seen) = 2 * (requests + 2)
        /\ seen[2 * (requests + 2) - 1] = Awaited[stage]
        /\ \A j \in 1 .. requests + 1 : seen[2 * j - 1] = IF j = 1 THEN "READY" ELSE "REQUEST"
        /\ seen[2] = "sound"
    BY <1>3, <1>4, <1>12, <2>1, <2>2 DEF Understood, Kind
  <2>4. \A j \in 1 .. Parsed' : seen'[2 * j - 1] = Kind(j)'
    <3> SUFFICES ASSUME NEW j \in 1 .. requests + 2 PROVE seen[2 * j - 1] = Kind(j)'
      BY <1>2, <2>2
    <3>1. CASE j = requests + 2
      BY <2>1, <2>2, <2>3, <3>1 DEF Kind, Awaited
    <3>2. CASE j # requests + 2
      BY <2>1, <2>2, <2>3, <3>2 DEF Kind
    <3> QED
      BY <3>1, <3>2
  <2>5. Understood'
    BY <1>2, <2>1, <2>2, <2>3, <2>4 DEF Understood
  <2>6. Placed'
    BY <1>1, <1>2, <1>3, <2>1 DEF Placed, Awaited
  <2>7. Asked'
    BY <1>1, <1>2, <1>3, <2>1, <2>2 DEF DialogueTypeOK, Asked
  <2> QED
    BY <1>1, <1>5, <1>6, <1>8, <2>1, <2>5, <2>6, <2>7 DEF DialogueInv
<1>13. CASE Len(incoming) >= 2 /\ incoming[1] = Awaited[stage] /\ (ParseReady \/ ParseRequest \/ ParseResult)
  BY <1>9, <1>11, <1>12, <1>13
<1> QED
  BY <1>4, <1>9, <1>10, <1>13, EmptySeq DEF Parse

LEMMA CoordinatorKeeps == ASSUME DialogueInv, Coordinator PROVE DialogueInv'
<1> USE DEF progress, counts
<1>1. /\ UNCHANGED <<thread, events, stage, unsent, incoming, requests, stopping, total, diagnostics, eof,
                     reaped, halted, seen, calls, cause>>
      /\ Lives
  BY DEF Coordinator, Writes, Complains, Closes, Exits
<1>2. Understood' <=> Understood
  BY <1>1 DEF Understood, Parsed, Kind
<1>3. Asked' <=> Asked
  BY <1>1 DEF Asked
<1>4. cause = "none" => Placed'
  BY <1>1 DEF DialogueInv, Placed, Lives
<1>5. CASE Writes
  <2>1. PICK piece \in Pieces : written' = Append(written, piece) /\ out' = Append(out, piece)
    BY <1>5 DEF Writes, Pieces, Payloads, Heads, Bodies
  <2>2. written \in Seq(Pieces) /\ out \in Seq(Pieces) /\ seen \in Seq(Pieces)
    BY DEF DialogueInv, DialogueTypeOK
  <2>3. written' \in Seq(Pieces) /\ out' \in Seq(Pieces) /\ out' # <<>>
    BY <2>1, <2>2, AppendProperties
  <2>4. written' = seen \o out'
    <3>1. <<piece>> \in Seq(Pieces) /\ out' = out \o <<piece>> /\ written' = written \o <<piece>>
      BY <2>1, <2>2, AppendIsConcat
    <3> QED
      BY <2>2, <3>1, ConcatAssociative DEF DialogueInv, Counted
  <2>5. DialogueTypeOK' /\ Counted' /\ Ended'
    BY <1>1, <1>5, <2>3, <2>4 DEF DialogueInv, DialogueTypeOK, Counted, Ended, Writes
  <2> QED
    BY <1>1, <1>2, <1>3, <1>4, <1>5, <2>5 DEF DialogueInv, Writes
<1>6. CASE Complains
  <2>1. DialogueTypeOK' /\ Counted' /\ Ended'
    BY <1>1, <1>6 DEF DialogueInv, DialogueTypeOK, Counted, Ended, Complains
  <2> QED
    BY <1>1, <1>2, <1>3, <1>4, <1>6, <2>1 DEF DialogueInv, Complains
<1>7. CASE Closes
  <2>1. PICK end \in Outputs : shut' = shut \cup {end}
    BY <1>7 DEF Closes
  <2>2. DialogueTypeOK' /\ Counted' /\ Ended'
    BY <1>1, <1>7, <2>1 DEF DialogueInv, DialogueTypeOK, Counted, Ended, Closes
  <2> QED
    BY <1>1, <1>2, <1>3, <1>4, <1>7, <2>2 DEF DialogueInv, Closes
<1>8. CASE Exits
  <2>1. DialogueTypeOK' /\ Counted' /\ Ended'
    BY <1>1, <1>8 DEF DialogueInv, DialogueTypeOK, Counted, Ended, Exits, pipes
  <2> QED
    BY <1>1, <1>2, <1>3, <1>4, <1>8, <2>1 DEF DialogueInv, Exits
<1> QED
  BY <1>5, <1>6, <1>7, <1>8 DEF Coordinator

LEMMA DeadlineKeeps == ASSUME DialogueInv, Halt PROVE DialogueInv'
BY DEF DialogueInv, Halt, DialogueTypeOK, Counted, Ended, Understood, Placed,
       Asked, Parsed, Kind, progress, counts, pipes, child

LEMMA DialogueInductive == ASSUME DialogueInv, [DialogueNext]_dialogue PROVE DialogueInv'
<1>1. CASE UNCHANGED dialogue
  BY <1>1 DEF dialogue, DialogueInv, DialogueTypeOK, Counted, Ended, Understood, Placed,
              Asked, Parsed, Kind, progress, counts, pipes, child
<1>2. CASE Supervise
  BY <1>2, SpawnKeeps, CheckKeeps, SelectKeeps, WriteKeeps, ReadOutputKeeps, EndOfOutputKeeps,
     ReadDiagnosticsKeeps, ParseKeeps, ServedKeeps, DrainKeeps, ProbeKeeps, ExchangeKeeps, EndKeeps,
     LeaveKeeps, SettleKeeps DEF Supervise
<1> QED
  BY <1>1, <1>2, CoordinatorKeeps, DeadlineKeeps DEF DialogueNext

LEMMA DialogueInvariant == DialogueSpec => []DialogueInv
BY DialogueStarts, DialogueInductive, PTL DEF DialogueSpec

\* Every variable of the dialogue keeps its type: the coordinator can bring the thread of
\* supervise to no other place, and its buffers to no other content (coordinator_ipc.py:115-281).
THEOREM DialogueTypeCorrect == DialogueSpec => []DialogueTypeOK
<1>1. DialogueInv => DialogueTypeOK
  BY DEF DialogueInv
<1> QED
  BY <1>1, DialogueInvariant, PTL

\* A result is only returned of a whole dialogue, for any number of requests, any sizes of reads
\* and pipes, and any coordinator: everything it wrote was read and understood, every request was
\* answered, and it has exited with zero (coordinator_ipc.py:197-225, :268-279).
THEOREM ReturnedDialoguesAreWhole == DialogueSpec => []ReturnedDialogueIsWhole
<1>1. ASSUME DialogueInv PROVE ReturnedDialogueIsWhole
  <2> SUFFICES ASSUME thread \in {"returned", "accepted"}
               PROVE  /\ leader = "zero" /\ reaped
                      /\ Frames(written, requests + 2, requests + 2)
                      /\ requests \in 1 .. MaxRequests /\ calls = requests /\ stopping
                      /\ err = 0 /\ diagnostics <= MaxDiagnostics
    BY DEF ReturnedDialogueIsWhole
  <2>1. cause = "none" /\ Understood /\ Placed /\ Asked /\ DialogueTypeOK /\ Counted /\ Ended
    BY <1>1 DEF DialogueInv
  <2>2. eof = Outputs /\ stage = "waiting_eof" /\ leader = "zero" /\ reaped /\ incoming = <<>>
    BY <2>1 DEF Placed, Outputs, Awaited
  <2>3. out = <<>> /\ err = 0
    BY <2>1, <2>2 DEF Ended, Outputs
  <2>4. written = seen
    BY <2>1, <2>3, ConcatEmptySeq DEF Counted, DialogueTypeOK
  <2>5. requests \in 1 .. MaxRequests /\ calls = requests /\ stopping
    BY <2>1, <2>2 DEF Asked, DialogueTypeOK
  <2>6. Parsed = requests + 2
    BY <2>2 DEF Parsed
  <2>7. Frames(seen, requests + 2, requests + 2)
    BY <2>1, <2>2, <2>5, <2>6 DEF Understood, Kind, Frames
  <2>8. diagnostics <= MaxDiagnostics
    BY <2>1 DEF Counted
  <2> QED
    BY <2>2, <2>3, <2>4, <2>5, <2>7, <2>8
<1> QED
  BY <1>1, DialogueInvariant, PTL

\* The limit on all the output only ends a dialogue with a frame or the diagnostics beyond their
\* own limits, whatever these are (coordinator_ipc.py:128-129, :186-192, :246-249).
THEOREM LimitSpares == DialogueSpec => []LimitSparesLegalDialogues
<1>1. ASSUME DialogueInv PROVE LimitSparesLegalDialogues
  <2> SUFFICES ASSUME cause = "output_limit", diagnostics <= MaxDiagnostics
               PROVE  ~WithinLimits
    BY <1>1 DEF LimitSparesLegalDialogues, DialogueInv, DialogueTypeOK
  <2>1. Len(seen) + diagnostics > OutputLimit
    BY <1>1 DEF DialogueInv, DialogueTypeOK, Counted
  <2>2. Len(seen) \in Nat /\ diagnostics \in Nat
    BY <1>1, LenProperties DEF DialogueInv, DialogueTypeOK
  <2> QED
    BY <2>1, <2>2 DEF WithinLimits, OutputLimit
<1> QED
  BY <1>1, DialogueInvariant, PTL

\* exchange is only called for a request with nothing behind it, be it the rest of a read or
\* queued in the pipe, while the control has not stopped (coordinator_ipc.py:226-257).
THEOREM QuietBeforeCalls == DialogueSpec => CallsFollowQuiet
<1>1. ASSUME DialogueInv, [DialogueNext]_dialogue, calls' # calls
      PROVE  /\ ~halted /\ Frames(written, requests + 1, 0) /\ calls' = requests
             /\ "stdout" \notin shut
  <2>1. Probe
    BY <1>1 DEF DialogueNext, Supervise, Spawn, CheckRaises, Select, WriteInput, ReadOutput, EndOfOutput,
                ReadDiagnostics, Parse, Served, Drain, ExchangeReturns, End, Leave, Settle, Coordinator,
                Halt, dialogue
  <2>2. /\ ~halted /\ out = <<>> /\ "stdout" \notin shut /\ calls' = calls + 1 /\ thread = "probing"
    BY <1>1, <2>1 DEF Probe
  <2>3. cause = "none" /\ Understood /\ Placed /\ Asked /\ DialogueTypeOK /\ Counted
    BY <1>1, <2>2 DEF DialogueInv
  <2>4. stage = "exchanging" /\ incoming = <<>> /\ calls = requests - 1 /\ requests \in Nat
    BY <2>2, <2>3 DEF Placed, Asked, Awaited, DialogueTypeOK
  <2>5. written = seen
    BY <2>2, <2>3, ConcatEmptySeq DEF Counted, DialogueTypeOK
  <2>6. Frames(seen, requests + 1, 0)
    BY <2>3, <2>4 DEF Understood, Parsed, Kind, Frames
  <2> QED
    BY <1>1, <2>2, <2>4, <2>5, <2>6
<1> QED
  BY <1>1, DialogueInvariant, PTL DEF DialogueSpec, CallsFollowQuiet

\* Every step of supervise is one of the mediated dialogue or invisible in it: requests and
\* responses take turns, within their number, until a stop (coordinator_ipc.py:163-174, :219-267).
THEOREM DialogueIsMediated == DialogueSpec => ImplementsMediatedDialogue
<1>1. DialogueInit => Mediated!Init
  BY DEF DialogueInit, Mediated!Init, Turn
<1>2. ASSUME DialogueInv, [DialogueNext]_dialogue PROVE [Mediated!Next]_(Mediated!mediated)
  <2> USE DEF Mediated!mediated
  <2>0. cause = "none" => Placed /\ Asked /\ DialogueTypeOK
    BY <1>2 DEF DialogueInv
  <2>1. CASE UNCHANGED dialogue
    BY <2>1 DEF dialogue, progress, Turn
  <2>2. CASE Halt \/ Coordinator
    BY <2>2 DEF Halt, Coordinator, Writes, Complains, Closes, Exits, progress, Turn
  <2>3. CASE \E why \in {"output_limit", "other"} : Abandon(why) /\ UNCHANGED calls
    BY <2>3 DEF Abandon, Turn, Mediated!Next, Mediated!Fail
  <2>4. CASE Spawn
    BY <2>4 DEF Spawn, Continue, progress, Turn, Mediated!Next, Mediated!Fail
  <2>5. CASE CheckRaises
    BY <2>3, <2>5 DEF CheckRaises
  <2>6. CASE Select \/ Served
    BY <2>6 DEF Select, Served, Continue, progress, Turn
  <2>7. CASE WriteInput
    <3>1. CASE Abandon("other")
      BY <2>3, <2>7, <3>1 DEF WriteInput
    <3>2. CASE Continue("serving")
      BY <1>2, <2>0, <2>7, <3>2 DEF WriteInput, Serves, Continue, Abandon, Turn, DialogueInv, Placed
    <3> QED
      BY <2>7, <3>1, <3>2 DEF WriteInput
  <2>8. CASE ReadOutput
    <3>1. CASE Abandon("other") \/ Abandon("output_limit")
      BY <2>3, <2>8, <3>1 DEF ReadOutput
    <3>2. CASE Continue("parsing")
      BY <2>8, <3>2 DEF ReadOutput, Serves, Continue, Turn
    <3> QED
      BY <2>8, <3>1, <3>2 DEF ReadOutput
  <2>9. CASE EndOfOutput
    <3>1. CASE Abandon("other")
      BY <2>3, <2>9, <3>1 DEF EndOfOutput
    <3>2. CASE Continue("serving")
      BY <2>9, <3>2 DEF EndOfOutput, Serves, Continue, progress, Turn
    <3> QED
      BY <2>9, <3>1, <3>2 DEF EndOfOutput
  <2>10. CASE ReadDiagnostics
    <3>1. CASE Abandon("output_limit")
      BY <2>3, <2>10, <3>1 DEF ReadDiagnostics
    <3>2. CASE UNCHANGED <<thread, cause>>
      BY <2>10, <3>2 DEF ReadDiagnostics, progress, Turn
    <3> QED
      BY <2>10, <3>1, <3>2 DEF ReadDiagnostics, CountDiagnostics, EndOfDiagnostics
  <2>11. CASE Parse
    <3>1. CASE Abandon("other")
      BY <2>3, <2>11, <3>1 DEF Parse
    <3>2. CASE Continue("serving") /\ UNCHANGED stage
      BY <1>2, <2>11, <3>2 DEF Parse, Continue, Turn
    <3>3. CASE ParseReady /\ Continue("parsing")
      BY <1>2, <2>0, <2>11, <3>3 DEF DialogueInv, Parse, ParseReady, Continue, Abandon, Turn, Asked,
                                     Mediated!Next, Mediated!Boot
    <3>4. CASE (ParseRequest \/ ParseResult) /\ Continue("serving")
      BY <1>2, <2>0, <2>11, <3>4 DEF DialogueInv, Parse, ParseRequest, ParseResult, Continue, Abandon,
                                     Turn, Asked
    <3> QED
      BY <2>11, <3>1, <3>2, <3>3, <3>4 DEF Parse, ParseReady, ParseRequest, ParseResult
  <2>12. CASE Drain
    <3>1. CASE Abandon("output_limit")
      BY <2>3, <2>12, <3>1 DEF Drain
    <3>2. CASE UNCHANGED <<thread, cause>>
      BY <2>12, <3>2 DEF Drain, progress, Turn
    <3>3. CASE Continue("probing")
      BY <2>12, <3>3 DEF Drain, Continue, progress, Turn
    <3> QED
      BY <2>12, <3>1, <3>2, <3>3 DEF Drain, CountDiagnostics, EndOfDiagnostics
  <2>13. CASE Probe
    <3>1. CASE Abandon("other") /\ UNCHANGED calls
      BY <2>3, <3>1
    <3>2. CASE Continue("calling") /\ calls' = calls + 1
      <4>1. cause = "none" /\ stage = "exchanging" /\ ~stopping /\ calls < MaxRequests
        BY <1>2, <2>0, <2>13 DEF Probe, DialogueInv, Placed, Asked, DialogueTypeOK
      <4>2. Turn = "coordinator" /\ Turn' = "authority"
        BY <2>13, <3>2, <4>1 DEF Turn, Probe, Continue, progress
      <4> QED
        BY <3>2, <4>1, <4>2 DEF Mediated!Next, Mediated!Call
    <3> QED
      BY <2>13, <3>1, <3>2 DEF Probe
  <2>14. CASE ExchangeReturns
    <3>1. CASE Abandon("other")
      BY <2>3, <2>14, <3>1 DEF ExchangeReturns
    <3>2. CASE Continue("selecting") /\ stage' = "sending_response" /\ calls' = calls
               /\ (stopping' \/ requests < MaxRequests)
      <4>1. cause = "none" /\ calls = requests
        BY <1>2, <2>0, <2>14 DEF ExchangeReturns, DialogueInv, Asked
      <4>2. Turn = "authority" /\ Turn' = IF stopping' THEN "closing" ELSE "coordinator"
        BY <2>14, <3>2, <4>1 DEF Turn, ExchangeReturns, Continue
      <4>3. calls = MaxRequests => stopping'
        BY <2>0, <3>2, <4>1 DEF DialogueTypeOK, DialogueAssumption
      <4> QED
        BY <3>2, <4>2, <4>3 DEF Mediated!Next, Mediated!Answer
    <3> QED
      BY <2>14, <3>1, <3>2 DEF ExchangeReturns
  <2>15. CASE End
    <3>1. CASE Abandon("other")
      BY <2>3, <2>15, <3>1 DEF End
    <3>2. CASE Continue("selecting")
      BY <2>15, <3>2 DEF End, Continue, progress, Turn
    <3>3. CASE Continue("returned")
      <4>1. cause = "none" /\ stopping
        BY <1>2, <2>0, <2>15 DEF End, DialogueInv, Placed, Asked, Outputs
      <4>2. Turn = "closing" /\ Turn' = "closed" /\ calls' = calls
        BY <2>15, <3>3, <4>1 DEF Turn, End, Continue
      <4> QED
        BY <4>2 DEF Mediated!Next, Mediated!Close
    <3> QED
      BY <2>15, <3>1, <3>2, <3>3 DEF End
  <2>16. CASE Leave \/ Settle
    BY <1>2, <2>16 DEF Leave, Settle, DialogueInv, Placed, progress, Turn, Mediated!Next, Mediated!Fail
  <2> QED
    BY <1>2, <2>1, <2>2, <2>4, <2>5, <2>6, <2>7, <2>8, <2>9, <2>10, <2>11, <2>12, <2>13, <2>14, <2>15,
       <2>16 DEF DialogueNext, Supervise
<1> QED
  BY <1>1, <1>2, DialogueInvariant, PTL DEF DialogueSpec, ImplementsMediatedDialogue, Mediated!Spec
=============================================================================
