------------------------------ MODULE LaunchChain -----------------------------
(***************************************************************************)
(* The way from a proposal to a running tool: the controller               *)
(* (controller.py) and its isolated services, the audit writer             *)
(* (audit_isolation.py, audit_worker.py), the approval worker              *)
(* (approval_isolation.py, approval_worker.py) and the launcher            *)
(* (launcher_isolation.py and module WitnessedLauncher).                   *)
(*                                                                         *)
(* The session thread calls the controller and waits for one service at a  *)
(* time; the workers, the clock, a cancellation, another thread that       *)
(* closes the launcher, and faults of each worker run beside it.  A call   *)
(* to a worker has the worker's part and the host's receipt as steps of    *)
(* their own: either may fail when the other is done.                      *)
(***************************************************************************)
EXTENDS WitnessedLauncher

CONSTANTS
  MaxEvents,            \* audit records of one writer
  MaxRequests,          \* requests one approval worker answers
  Faults                \* what happens beside the session: a subset of "audit",
                        \* "approval" and "launcher" (their worker dies), "cancel", "close"

ASSUME ChainAssumption == MaxEvents \in Nat /\ MaxRequests \in Nat

VARIABLES
  pc,                   \* where the session thread is, or the record it has written
  act,                  \* the action of the call in progress
  wire,                 \* how far a worker is with the request in hand
  poisoned,             \* _audit_failed and _approval_failed of the controller
  trail,                \* the audit records on disk, by their event
  intents,              \* the records of execution_started among them
  evidence,             \* the executions of the evidence store: open or done
  reviews, requests,    \* what the approval worker has answered
  told,                 \* the reservations the launcher last acknowledged
  stopped               \* the launcher is closed or closing on the host

host == <<pc, act, wire, poisoned>>
records == <<trail, intents, evidence>>
counters == <<reviews, requests, told, stopped>>
vars == <<control, approvals, admission, channels, worker, host, records, counters>>

Events == {"policy_decision", "approval_rejected", "approval_consumed",
           "execution_blocked", "execution_started", "execution_finished"}

Places == {"idle", "reviewing", "consuming", "available", "recording", "launching",
           "running", "closing"} \cup Events

Wires == {"none", "sent", "stored", "burned", "rejected", "done"}

Init ==
  /\ ControlInit /\ GrantsInit /\ AdmissionInit /\ LauncherInit
  /\ pc = "idle" /\ act = job /\ wire = "none" /\ poisoned = {}
  /\ trail = <<>> /\ intents = <<>> /\ evidence = <<>>
  /\ reviews = 0 /\ requests = 0
  /\ told = [executions |-> 0, outputs |-> 0] /\ stopped = FALSE
-----------------------------------------------------------------------------
\* The session thread goes on, or asks a worker: for a record, its place is the event.
Goto(place) == pc' = place /\ wire' = "none"

Ask(place) == pc' = place /\ wire' = "sent"
-----------------------------------------------------------------------------
(***************************************************************************)
(* Reviews of the approval worker.                                         *)
(***************************************************************************)
\* The first review starts the worker.
Review(a) ==
  /\ pc = "idle" /\ ~Stopped /\ approving # "down" /\ requests < MaxRequests
  /\ Ask("reviewing")
  /\ act' = a /\ approving' = "up"
  /\ UNCHANGED <<control, approvals, admission, auditing, proofs, consents, worker,
                 poisoned, records, counters>>

\* The human types the challenge, or denies.
ReviewAnswered ==
  /\ pc = "reviewing" /\ wire = "sent" /\ approving = "up" /\ now < Deadline
  /\ reviews < MaxReviews /\ Verdict(Policy, act) = "approval_required"
  /\ Issue(Policy, act) \/ IssueOverCapacity(Policy, act) \/ UNCHANGED approvals
  /\ wire' = "done" /\ reviews' = reviews + 1
  /\ UNCHANGED <<control, admission, channels, worker, pc, act, poisoned,
                 records, requests, told, stopped>>

ReviewReturns ==
  /\ pc = "reviewing" /\ wire = "done" /\ approving = "up" /\ ~Stopped
  /\ Goto("idle")
  /\ requests' = requests + 1
  /\ UNCHANGED <<control, approvals, admission, channels, worker, act, poisoned,
                 records, reviews, told, stopped>>

\* A fault, a refusal or an expired wait closes the service for good.  The controller
\* remembers the failure of a consumption, unless the session was stopped.
ApprovalFails ==
  /\ pc \in {"reviewing", "consuming"}
  /\ Goto("idle")
  /\ approving' = "down"
  /\ IF pc = "consuming"
     THEN poisoned' = poisoned \cup {"approval"} \/ (Stopped /\ UNCHANGED poisoned)
     ELSE UNCHANGED poisoned
  /\ UNCHANGED <<control, approvals, admission, auditing, proofs, consents, worker, act,
                 records, counters>>
-----------------------------------------------------------------------------
(***************************************************************************)
(* Audit records.                                                          *)
(***************************************************************************)
\* The record is appended and synced.  An intent beyond the limit is not written.
AuditStores ==
  /\ pc \in Events /\ wire = "sent" /\ auditing /\ Len(trail) < MaxEvents
  /\ trail' = Append(trail, pc)
  /\ IF pc = "execution_started"
     THEN /\ Len(intents) < MaxLaunches
          /\ intents' = Append(intents, [action |-> act, at |-> Len(trail) + 1])
          /\ wire' = "stored"
     ELSE wire' = "done" /\ UNCHANGED intents
  /\ UNCHANGED <<control, approvals, admission, channels, worker, pc, act,
                 poisoned, evidence, counters>>

\* Only then the witness of an intent leaves for the launcher.
AuditProves ==
  /\ pc = "execution_started" /\ wire = "stored" /\ auditing
  /\ wire' = "done"
  /\ proofs' = Append(proofs,
       [seq |-> Len(intents), at |-> Len(trail), action |-> act, issued |-> now])
  /\ UNCHANGED <<control, approvals, admission, auditing, approving, consents, worker,
                 pc, act, poisoned, records, counters>>

\* As if a failed record were not remembered.
AuditFailsOnce ==
  /\ pc \in Events
  /\ Goto("idle")
  /\ UNCHANGED <<control, approvals, admission, channels, worker,
                 act, poisoned, records, counters>>

\* The record is refused, or its receipt does not come: nothing is recorded again.
AuditFails ==
  /\ pc \in Events
  /\ Goto("idle")
  /\ auditing' = FALSE
  /\ poisoned' = poisoned \cup {"audit"}
  /\ UNCHANGED <<control, approvals, admission, proofs, approving, consents, worker,
                 act, records, counters>>

Acknowledged(e) == pc = e /\ wire = "done" /\ auditing

Quietly == UNCHANGED <<control, approvals, admission, channels, worker, act,
                       poisoned, records, counters>>
-----------------------------------------------------------------------------
(***************************************************************************)
(* A proposal.                                                             *)
(***************************************************************************)
Submit(a) ==
  /\ pc = "idle" /\ poisoned = {} /\ ~Stopped
  /\ Ask("policy_decision")
  /\ act' = a
  /\ UNCHANGED <<control, approvals, admission, channels, worker, poisoned, records, counters>>

\* Denied, a dry run, or stopped; allowed; or to be approved, where a caller that is not
\* interactive has no approval.
Decided ==
  /\ Acknowledged("policy_decision")
  /\ \/ Goto("idle")
     \/ Verdict(Policy, act) = "allow" /\ ~Stopped /\ Goto("available")
     \/ /\ Verdict(Policy, act) = "approval_required" /\ ~Stopped
        /\ Ask("consuming") \/ Ask("approval_rejected")
  /\ Quietly

\* No review was ever held: there is no worker to ask.
ConsumeUnstarted ==
  /\ pc = "consuming" /\ approving = "unstarted"
  /\ Ask("approval_rejected")
  /\ Quietly

\* The worker burns the grant first.
ApprovalBurns(r) ==
  /\ pc = "consuming" /\ wire = "sent" /\ approving = "up" /\ now < Deadline
  /\ requests < MaxRequests
  /\ Consume(r, Policy, act)
  /\ wire' = IF ConsumeReason(r, Policy, act) = "none" THEN "burned" ELSE "rejected"
  /\ UNCHANGED <<control, admission, channels, worker, pc, act, poisoned, records, counters>>

\* Then the witness leaves for the launcher, with the expiry the grant had.
ApprovalProves ==
  LET until == Sooner(minted[consumed[Len(consumed)].ref].expires, Deadline)
  IN /\ pc = "consuming" /\ wire = "burned" /\ approving = "up" /\ now < until
     /\ wire' = "done"
     /\ consents' = Append(consents,
          [seq |-> Len(consumed), request |-> requests + 1, action |-> act, issued |-> now,
           expires |-> until])
     /\ UNCHANGED <<control, approvals, admission, auditing, proofs, approving, worker,
                    pc, act, poisoned, records, counters>>

Consumed ==
  /\ pc = "consuming" /\ wire \in {"done", "rejected"} /\ approving = "up" /\ ~Stopped
  /\ Ask(IF wire = "done" THEN "approval_consumed" ELSE "approval_rejected")
  /\ requests' = requests + 1
  /\ UNCHANGED <<control, approvals, admission, channels, worker, act, poisoned,
                 records, reviews, told, stopped>>

ApprovalRecorded == Acknowledged("approval_consumed") /\ Goto("available") /\ Quietly

InProfile(a) == \E n \in 0 .. MaxSteps : a \in Profile[n]

\* The backend is closed, does not allow the action, or cannot run here.
CheckAvailable ==
  /\ pc = "available"
  /\ \/ ~stopped /\ InProfile(act) /\ Goto("recording")
     \/ Ask("execution_blocked")
  /\ Quietly

EvidenceStarts ==
  /\ pc = "recording"
  /\ Ask("execution_started")
  /\ evidence' = Append(evidence, "open")
  /\ UNCHANGED <<control, approvals, admission, channels, worker, act, poisoned,
                 trail, intents, counters>>

EvidenceFails ==
  /\ pc \in {"recording", "closing"}
  /\ Goto("idle")
  /\ poisoned' = poisoned \cup {"audit"}
  /\ UNCHANGED <<control, approvals, admission, channels, worker, act,
                 records, counters>>

IntentRecorded == Acknowledged("execution_started") /\ Goto("launching") /\ Quietly

Ended ==
  /\ \E e \in {"approval_rejected", "execution_blocked", "execution_finished"} : Acknowledged(e)
  /\ Goto("idle")
  /\ Quietly
-----------------------------------------------------------------------------
(***************************************************************************)
(* The launch.                                                             *)
(***************************************************************************)
\* Writing the intent may have used the time that was left.
LaunchHalted == pc = "launching" /\ Stopped /\ Goto("closing") /\ Quietly

\* The first request starts the worker.
Send ==
  /\ pc = "launching" /\ ~Stopped /\ ~stopped /\ launcher # "down"
  /\ told.executions < MaxSteps /\ InProfile(act)
  /\ Goto("running")
  /\ launcher' = "up" /\ stage' = "asked" /\ job' = act
  /\ UNCHANGED <<control, approvals, admission, channels, intentRead, consentRead, fresh,
                 checked, launches, act, poisoned, records, counters>>

RunReturns ==
  /\ pc = "running" /\ launcher = "up" /\ stage = "answered" /\ ~stopped /\ ~Stopped
  /\ executions = told.executions + 1 /\ outputs = told.outputs + Allowance[act]
  /\ Goto("closing")
  /\ stage' = "idle"
  /\ told' = [executions |-> executions, outputs |-> outputs]
  /\ UNCHANGED <<control, approvals, admission, channels, launcher, job, intentRead,
                 consentRead, fresh, checked, launches, act, poisoned, records,
                 reviews, requests, stopped>>

\* As if the call ended without waiting for the worker to be reaped.
RunAbandoned ==
  /\ pc \in {"launching", "running"}
  /\ Goto("closing")
  /\ stopped' = TRUE
  /\ UNCHANGED <<control, approvals, admission, channels, worker, act, poisoned,
                 records, reviews, requests, told>>

\* A refusal, a fault, the deadline, a cancellation or a stop from another thread: the
\* host kills and reaps the worker before the call ends.
RunFails ==
  /\ pc \in {"launching", "running"}
  /\ Goto("closing")
  /\ stopped' = TRUE /\ launcher' = "down" /\ stage' = "refused"
  /\ UNCHANGED <<control, approvals, admission, channels, job, intentRead, consentRead,
                 fresh, checked, launches, act, poisoned, records, reviews,
                 requests, told>>

EvidenceFinishes ==
  /\ pc = "closing"
  /\ Ask("execution_finished")
  /\ evidence' = [evidence EXCEPT ![Len(evidence)] = "done"]
  /\ UNCHANGED <<control, approvals, admission, channels, worker, act, poisoned,
                 trail, intents, counters>>

\* Another thread closes the launcher; it waits for a run in progress.
CloseLauncher ==
  /\ "close" \in Faults /\ ~stopped
  /\ stopped' = TRUE
  /\ launcher' = IF pc = "running" THEN launcher ELSE "down"
  /\ UNCHANGED <<control, approvals, admission, channels, stage, job, intentRead,
                 consentRead, fresh, checked, launches, host, records, reviews, requests,
                 told>>
-----------------------------------------------------------------------------
(***************************************************************************)
(* Workers that die on their own.                                          *)
(***************************************************************************)
AuditCrash ==
  /\ "audit" \in Faults /\ auditing
  /\ auditing' = FALSE
  /\ UNCHANGED <<control, approvals, admission, proofs, approving, consents, worker, host,
                 records, counters>>

ApprovalCrash ==
  /\ "approval" \in Faults /\ approving = "up"
  /\ approving' = "down"
  /\ UNCHANGED <<control, approvals, admission, auditing, proofs, consents, worker, host,
                 records, counters>>

LauncherCrash ==
  /\ "launcher" \in Faults /\ launcher = "up"
  /\ launcher' = "down"
  /\ UNCHANGED <<control, approvals, admission, channels, stage, job, intentRead,
                 consentRead, fresh, checked, launches, host, records, counters>>
-----------------------------------------------------------------------------
Reviews == (\E a \in Actions : Review(a)) \/ ReviewAnswered \/ ReviewReturns \/ ApprovalFails

Audits == AuditStores \/ AuditProves \/ AuditFails

Proposes ==
  \/ \E a \in Actions : Submit(a)
  \/ \E r \in 0 .. Len(minted) : ApprovalBurns(r)
  \/ Decided \/ ConsumeUnstarted \/ ApprovalProves \/ Consumed
  \/ ApprovalRecorded \/ CheckAvailable \/ EvidenceStarts \/ EvidenceFails
  \/ IntentRecorded \/ Ended

Runs == LaunchHalted \/ Send \/ RunReturns \/ RunFails \/ EvidenceFinishes \/ CloseLauncher

Works ==
  /\ WorkerStep
  /\ UNCHANGED <<control, approvals, host, records, counters>>

Surroundings ==
  \/ AuditCrash \/ ApprovalCrash \/ LauncherCrash
  \/ /\ Tick \/ ("cancel" \in Faults /\ Cancel)
     /\ UNCHANGED <<approvals, admission, channels, worker, host, records, counters>>

Next == Reviews \/ Audits \/ Proposes \/ Runs \/ Works \/ Surroundings

Spec == Init /\ [][Next]_vars
-----------------------------------------------------------------------------
(***************************************************************************)
(* Properties.                                                             *)
(***************************************************************************)
\* The types of the state.
TypeOK ==
  /\ ControlType /\ GrantsType /\ AdmissionType /\ LauncherType
  /\ pc \in Places /\ act \in Actions /\ wire \in Wires
  /\ poisoned \subseteq {"audit", "approval"}
  /\ trail \in Seq(Events)
  /\ intents \in Seq([action : Actions, at : Nat \ {0}])
  /\ evidence \in Seq({"open", "done"})
  /\ reviews \in Nat /\ requests \in Nat
  /\ told \in [executions : Nat, outputs : Nat] /\ stopped \in BOOLEAN

\* Every tool that ever started has its own durable intent and, where the policy asks,
\* its own consumed grant: the n-th launch the n-th of each, all for the same action,
\* and the grant, reviewed for that action, had not expired at the last check.
LaunchesAreBacked ==
  \A n \in DOMAIN launches :
    /\ n \in DOMAIN intents /\ launches[n].intent = n
    /\ trail[intents[n].at] = "execution_started" /\ intents[n].action = launches[n].action
    /\ Asks => /\ n \in DOMAIN consumed /\ launches[n].consent = n
               /\ consumed[n].action = launches[n].action
               /\ minted[consumed[n].ref].action = launches[n].action
               /\ launches[n].checked < minted[consumed[n].ref].expires

\* What was reserved covers every launch, and what the host was last told never
\* exceeds it; both agree while the launcher lives and no run is in progress.
ReservationsCoverLaunches ==
  /\ Len(launches) <= executions
  /\ SumFunction([n \in DOMAIN launches |-> Allowance[launches[n].action]]) <= outputs
  /\ told.executions <= executions /\ told.outputs <= outputs
  /\ launcher = "up" /\ pc # "running" =>
       told = [executions |-> executions, outputs |-> outputs]

Started == {i \in DOMAIN trail : trail[i] = "execution_started"}
Finished == {i \in DOMAIN trail : trail[i] = "execution_finished"}

\* The trail tells executions one after the other: an intent is followed at once by
\* its completion or by nothing at all, and no completion is told before the evidence
\* of its execution is closed.
TrailTellsExecutions ==
  /\ \A i \in Started : i = Len(trail) \/ i + 1 \in Finished
  /\ \A i \in Finished : i - 1 \in Started
  /\ Cardinality(Started) <= Len(evidence)
  /\ Cardinality(Finished) <= Cardinality({i \in DOMAIN evidence : evidence[i] = "done"})

\* A tool only ever starts while the session waits for it: never once the call is
\* over, the audit or the approvals have failed for the controller, or another action
\* is in hand.
StartsOnlyAwaited ==
  [][launches' # launches => pc = "running" /\ act = job /\ poisoned = {}]_vars

ActionsOf(s) == [n \in DOMAIN s |-> s[n].action]

Gate == INSTANCE LaunchGate WITH
  NeedsConsent <- Asks,
  intended <- ActionsOf(intents),
  consented <- ActionsOf(consumed),
  launched <- ActionsOf(launches)

\* The chain keeps the promise of LaunchGate: a launch takes place only as the next one
\* after its own intent and consent, whatever fails, dies or is late before it.
ImplementsLaunchGate == Gate!Spec
=============================================================================
