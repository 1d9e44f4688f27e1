# Recon Cockpit: verification project

TLA+ models, model-checking configurations and machine-checked proofs for the
parts of Recon Cockpit that decide whether something may be done, and that
remember that it was: the ledgers in which engagements and costs are spent, and
the way from a proposal of an untrusted planner to a tool that runs. All paths
below are relative to `src/recon_cockpit/secure_agent/` unless they say otherwise.

Contents: the system (1), the plan (2), the modules and the code they model (3),
the runs (4), the proofs (5), and what is not covered (6).

## 1. The system

### 1.1 Components

Recon Cockpit lets a planner (scripted, a confined coordinator, or a model
provider behind a broker) propose actions, and executes the ones a policy, a
reviewer, the budgets and a chain of confined workers agree on. Nothing a planner
says is authority. Every durable thing is a record: audit lines, ledger rows,
evidence files.

| component | state it keeps | operations | talks to |
|---|---|---|---|
| dispatch ledger engine, `engagement_dispatch_contract.py` | status, revision, generation, rules, sessions, reservations, completions, events, latest clock | create, revise, revoke, session, reserve, complete | called by the store for each request and for the replay of all of them |
| dispatch ledger store, `engagement_dispatch_store.py` | SQLite file, per handle: lock, `_failed`, `_closed`, owner | create, open, mutate, retry, snapshot, close | SQLite, the engine, threads and other processes on the same file |
| price contract, `cost_contract.py` | none | cost of a usage, ceiling of a quotation | cost ledger |
| cost ledger, `cost_ledger.py`, `cost_cli.py` | scopes with limits, attempts, receipts, journal | create scope, set limit, estimate, reserve, begin dispatch, cancel, mark uncertain, settle, correct | paid calls of a process, the operator from another one |
| paid provider calls, `assessment_planning.py`, `web_model_provider.py`, `provider_pilot.py` | local flags of one call | quote, reserve, claim, send, settle, clean up | cost ledger, provider |
| session control and policy, `execution.py`, `models.py` | deadline, cancellation; the policy is immutable | check, remaining; the decision about an action | everything in a session |
| approval grants, `approvals.py` | references to grants, under a lock | issue, consume | reviewer threads, the controller, the approval worker |
| launch admission, `launch_admission.py`, `admission_worker.py` | steps, executions, reserved output, one permit at a time | admit, redeem, end | the launcher worker |
| controller and isolated services, `controller.py`, `audit_*.py`, `approval_*.py`, `launcher_*.py` | failure flags, per worker a phase and a sequence number, witnesses in two pipes | propose, submit, review, run; store an intent, prove it, consume a grant, prove it, admit, launch, finish | each other over pipes; witnesses go from the audit and the approval worker to the launcher, past the host |
| session authority, `control_plane.py`, `session_*.py` | steps, reserved output, the quoted plan, closed, protocol failure | run, exchange (plan, propose), reject, record | confined coordinator, provider, reviewer, controller |
| engagement records, `engagement_contract.py`, `engagement_store.py` | revisions of the rules of engagement, revocation, clock | create, revise, revoke, snapshot | SQLite, operator scripts |
| coordinator dialogue, `coordinator_ipc.py`, `coordinator_isolation.py` | phase, buffers and counters of one dialogue, three pipes, a child process | supervise, run, kill and reap | the confined coordinator over pipes, the session authority by a callback |
| local session loop, `session.py`, `coordinator_worker.py` | the loop of a planner in the process; the program inside the confined coordinator | run, exchange | controller, session authority |
| evidence, `evidence.py`, `workflow.py` | journal, artifacts, reports, manifest | decide, start, finish, record the closure of the lab, finalize, inspect | controller, inspection, desktop window |
| routing and name/TLS owners, `routing_ledger.py`, `name_tls_ledger.py` | counters, leases, the binding of a name, events, terminal flag | arm, connect, transfer, observe, finish, check the deadline, terminate, snapshot, replay | daemon, client and frontend over private channels |
| owned provider broker, `provider_broker.py` | lock, sequence, counters, last receipt | bind, exchange | session authority, provider transport, audit writer |
| configurable service, `configurable_service.py`, `configurable_cli.py` | state, session, cancellation, observer failure | run, cancel, read the evidence | session authority, the desktop worker or a signal handler |
| tool fixtures, runtimes and parsers (about 250 files) | none shared | fixed runs of bundled tools on owned fixtures | launcher |
| evaluation batches, `evaluation.py`, `planning_evaluation.py`, `web_comparison.py` | the stop, the authority installed, the folder of the batch | run, cancel, inspect | session authority, a timer, a signal handler or another thread |
| grading, contracts, packets | none | grade, pack | saved evidence |
| desktop window, `../gui/controller.py` | one worker, its queue of one place, the report shown, closing | inspect, start a session, cancel, poll, close | a worker thread, the configurable service |
| manual case workbench, `../case.py`, `../cli.py` | a case on disk | create, log, note | the user |

`PROJECT.json` lists every source file under one component, with its status.

### 1.2 What is hard

* **One durable decision, many callers.** Handles of several processes share one
  SQLite file. Threads share a handle. A deadline may fire after the commit; the
  caller then sees an error for a request that is recorded, and retries it.
* **Money that left.** A provider may have been paid although the reply, the
  acknowledgement of the claim, or the whole process is lost. Usage and billing
  evidence arrive in any order and more than once.
* **Witnesses.** A launch needs an intent that is on disk and a consumed grant that
  has not expired. Both are proved to the launcher by one-way pipes that the host does not see;
  workers die between the record and its proof, and between the proof and its
  answer. What was left by an abandoned exchange must not serve the next one.
* **Stops.** A cancellation, a deadline, a concurrent caller or a failed audit
  record may come while a request waits for a reviewer or a tool. The request
  under way must not go on, and nothing may wait for ever.
* **A peer that is not trusted.** The confined coordinator writes, closes and exits as it likes, between any two calls of the host,
  and a read ends where it ends: what is in the buffer is not all that was said.
* **Budgets.** They are reserved before anything is asked, never given back, and
  checked at several nested levels.
* **Counters at their end.** A ledger stops at a fixed number of events and must
  still have room for the reports of what it let go.
* **Two accounts of one history.** What a live component decided, with its clock and
  its faults, is decided again from saved events by another copy of it: a ledger
  by its replay, a bundle of evidence by its inspection, the rules of engagement by the
  validation of their export. Whatever the record does not hold, the copy cannot know.
* **One place for a result.** The worker of the window hands its result over in a queue
  of one place, while the user cancels, closes and starts again.

The hazards are listed line by line in `PROJECT.json`, with the properties that
would notice each of them; every hazard has one.

### 1.3 What makes the parts correct

* Dispatch ledger: an approval, an audit record, an identifier or a session slot is
  spent at most once; a reservation obeys the rules in force and the limits over
  the whole life; a `headers` dispatch follows a timely successful `identify` of
  the same rules; there is always room for reports; a clock that ran back spends nothing.
* Store: a receipt is true for ever; an error that is called clean recorded nothing;
  the file is a log to which one decided request at a time is appended; poisoned
  handles stay so; no call blocks for ever.
* Costs: the hold covers whatever the request may cost; a request is sent once
  at most, and only after its claim; money that may have been spent stays counted
  until evidence comes; budgets are broken by evidence only; the journal tells the tables.
* Launches: each has its own durable intent, its own unexpired grant where the policy asks,
  and its own reservation, all for the same action; a tool starts only while
  somebody waits for it; the trail tells what ran.
* Session: every tool was quoted, reserved and is the only one of its step;
  nothing starts after a stop; only an undisturbed session is called completed;
  every session ends.
* Coordinator dialogue: the authority is called for one request at a time with nothing behind it; a result stands for a
  whole dialogue that was answered, read to its end and left with zero; no limit ends a legal dialogue; every dialogue ends.
* Owner ledgers: a snapshot replays to itself; a service is reached only under an answer that
  is the expected one, was delivered and has not expired.
* Evidence: an inspection recovers the history from whatever an interruption leaves,
  and a conclusive report is found on the whole of it only.
* Broker: every attempt that left is in the counters and in the audit trail before it leaves.
* Engagement records: an answer stays true; an exported history is valid.
* Desktop and service: what is shown is the replay of the last operation; a
  cancellation reaches the session however it meets its publication; every operation ends.
* Evaluation batch: the allowance of a trial is on record before its authority exists; whatever
  write is the last one, an inspection finds it, and rejects nothing that was saved; a stop
  reaches the authority however it meets its installation.

## 2. Plan

Order, most important behaviour first. Steps 1 to 17 are done.

1. `DispatchLedger` with the abstract `SpendingAuthority`; proofs.
2. `DispatchStore` around it, with the abstract `RecordLog`; proofs.
3. `PriceCard` and `CostLedger`; proofs.
4. `PaidCalls`, which composes calls with `CostLedger`, and the abstract `MeteredSends`; proofs.
5. `SessionContext`, `ApprovalGrants`, `LaunchAdmission`; proofs.
6. `WitnessedLauncher`, which composes the two with the launcher, and `LaunchChain`,
   which composes that with the controller and the isolated services; the abstract
   `LaunchGate`; proofs.
7. `AuthoritySession` over `SessionContext`, with the tool path reduced to its outcome.
8. Its first theorem, `NoStartsOnceStopped`.
9. `OwnerLedger` with `RoutingLedger` and `NameTlsLedger`: the live ledger beside the replay of its snapshot.
10. `EngagementRecords`: revisions, revocation, receipts, and the validation of the export. It is not
    refined to `RecordLog` a second time: the transaction is the one `DispatchStore` models, and is one step here.
11. `ProviderBroker`: counters against the durable record and the exchange.
12. `EvidenceJournal`: artifacts and events with a crash between any two writes; its inspection.
13. `AssessmentService` and `DesktopController`, composed.
14. `EvaluationBatch`, with its journal, its stops and its inspection.
15. Proofs of the invariants that only runs had shown: the sums over finite sets they need (`FoldTheorems`); what the
    session reserved and when it is completed; the journal, the budgets and the ceilings of the costs; the reservations and the trail of the
    chain; the follow-ups and the time of the dispatch ledger; the poison of the store; the desktop, the command line, the batch and the broker; the replay of both owners' ledgers and the name their services need.
16. Proofs of `BatchIsRecovered`, `AnswersAreTrue`, `InspectionRecovers` and `PublishedReportReplays`, whose second account is a fold over a
    sequence: what an inspection reads of a journal and one more line is one step more.
17. `CoordinatorDialogue`, with the abstract `MediatedDialogue`; proofs.
18. The local session loop and the owned lab, if the state they add proves interesting beside `AuthoritySession`;
    the journals of the configurable and of the Nmap workflow, which have the form of `EvidenceJournal`.

Steps 10 to 12 share one run with the grants, `records`; the authority of a session and the supervisor of its coordinator share `session`; the two owners' ledgers share `owners`, and the
desktop, the command line and the batch share `clients`: where modules have no variable in common, a run takes one of them at a time. What theorems have made redundant (`ClaimedOnce`, `SentMoneyStaysCounted`, `BillingIsFinal`,
`ConsumedAsReviewed`, `NoSpendUnderOldRules`, `SpentOnce`, `UtcNeverRollsBack`, `ReceiptsPayOnce`, `PermitsOpenOneLaunch`, `LimitSparesLegalDialogues`) is no longer run, so that the suite stays short enough to be run on every change.

## 3. Modules

A definition has the name it has in the code where there is one. An operation that
raises without a change is not a step: its guards are those of the action. Tokens,
digests and identifiers are numbers or members of small sets, since the code only compares them.

| module | models | is composed of | promise |
|---|---|---|---|
| `DispatchLedger` | `_Engine` of `engagement_dispatch_contract.py` | | `SpendingAuthority` |
| `DispatchStore` | `engagement_dispatch_store.py`, SQLite as used there | the engine as a constant, `Accepts` | `RecordLog` |
| `PriceCard` | `PriceCard`, `TokenUsage`, `quote` of `cost_contract.py`: one request, quoted and priced | | |
| `CostLedger` | `CostLedger` of `cost_ledger.py` | quotes as constants | |
| `PaidCalls` | the callers of the ledger | `CostLedger` | `MeteredSends` |
| `SessionContext` | `ExecutionControl`, `Policy.decide` | | |
| `ApprovalGrants` | `ApprovalStore` | `SessionContext` | |
| `LaunchAdmission` | `AdmissionState` and its worker | `SessionContext` | |
| `WitnessedLauncher` | `launcher_worker.py`, `audit_witness.py`, `approval_witness.py` | the two above | |
| `LaunchChain` | `controller.py`, audit and approval workers with their hosts, `launcher_isolation.py` | `WitnessedLauncher` | `LaunchGate` |
| `AuthoritySession` | `AuthoritySession.run` of `control_plane.py` | `SessionContext` | |
| `CoordinatorDialogue` | `supervise` of `coordinator_ipc.py`, `LinuxCoordinator.run` | the coordinator as an environment, the authority as a call that answers or raises | `MediatedDialogue` |
| `OwnerLedger` | what `routing_ledger.py` and `name_tls_ledger.py` have in common | | |
| `RoutingLedger` | `Ledger` and `_replay_snapshot` of `routing_ledger.py` | `OwnerLedger` | |
| `NameTlsLedger` | `Ledger` and `_replay` of `name_tls_ledger.py` | `OwnerLedger` | |
| `AssessmentService` | `ConfigurableAssessmentService`, the signal handler of `configurable_cli.py` | `AuthoritySession` as a session that runs, ends or raises | |
| `DesktopController` | `gui/controller.py` | `AssessmentService` | |
| `EvaluationBatch` | `EvaluationRunner`, `_inspect_evaluation` | `AuthoritySession` as an authority that acts and ends | |
| `EvidenceJournal` | `EvidenceStore`, `inspect_assessment`, the decisions of `workflow.py` | | |
| `ProviderBroker` | `OwnedProviderBroker` of `provider_broker.py` | | |
| `EngagementRecords` | `EngagementStore`, `validate_export` of `engagement_contract.py` | | |

The proofs are in modules of their own: `DispatchLedgerProofs`, `DispatchStoreProofs`, `CostLedgerProofs` (with `PriceCard` and
`PaidCalls`), `LaunchChainProofs` (with the grants and the permits), `AuthoritySessionProofs` (with the coordinator dialogue), `ClientsProofs` (the service, the desktop,
the batch, the broker, the engagement records and the evidence) and `OwnersProofs`. `FoldTheorems` has what they need of the sums and of the
folds of the community modules.

### 3.1 Dispatch ledger and store

`DispatchLedger` has the tables of the engine as sets of records (`sessions`,
`reservations`, `completions`, `events`) and its scalar fields (`status`, `revision`,
`generation`, `latest`, `rules`). An action is one accepted request: `Creates`,
`Revises`, `Revokes`, `Registers`, `Reserves`, `Completes` choose the request and
call the operator of the same handler. `Expects` is the common check
of `push`, `ClockStatus` the classification of the host's clock, `Charged` and
`WithinLimits` the lifetime cost. Digests, field formats and byte limits are left out.

`DispatchStore` gives each thread's call a program counter: it waits for the lock of
the handle, begins the SQLite transaction, decides against the snapshot it read,
checks, commits, releases, answers. `Faults` are exceptions and late deadlines at each of these points,
`Endings` the close or the death of a handle or process. The engine is the
constant operator `Accepts`, so what is proved of the store holds for every engine.

### 3.2 Costs

`PriceCard` states the arithmetic exactly (rate per `Unit` tokens, rounded up once), as a state machine of two states: a request is quoted under
limits on its tokens, and then priced by the usage that is reported.
`CostLedger` keeps `scopes`, `attempts`, `receipts` and `journal`, and each operation is one
step, because the code performs it in one `BEGIN IMMEDIATE` transaction with its event; a crash inside it is left to SQLite
(`DispatchStore` has the faults around a commit). A denial
for budget is journalled and then raised; a replayed operation changes nothing.

`PaidCalls` puts several calls of one process (with one handle) and the operator beside each other. A call
knows only what it was told (`known`): an acknowledgement may be lost after
the commit, an exception may strike between any two steps, the handle may fail, the process may
die. Calls of planning and of the web model clean up by the durable state of
their attempt, pilot calls by their flags.

### 3.3 The way to a tool

`SessionContext` has the two variables every part looks at, `now` and `cancelled`. `ApprovalGrants` numbers
the tokens and records in `consumed` and `spoiled` what became of them; `LaunchAdmission` does
the same for permits. `WitnessedLauncher` adds the queues of witnesses
(`proofs`, `consents`), the stage of the launcher worker and what it has seen. `LaunchChain` adds the
session thread (`pc`, `act`), the worker that has a request in hand (`wire`), the trail, the failures of the controller and a flag
for a concurrent close. The part of a worker and the receipt by the host are two steps, so either
may fail when the other is done. The set `Faults` says which components may fail in a run.

### 3.4 The session

`AuthoritySession` is one thread that runs the session and answers the requests of the coordinator,
which the supervisor hands to it one at a time (`exchange`), and callers that find the lock taken and
are rejected without it (`Concurrent`). `place` is where the request in hand is, between two points at
which something else can happen: a wait, an event, a callback, a check of the control. `job` is what it
knows. `closed`, `protocol_failed`, `pending_plan` and `summary` are the variables of `_run`.
A message is its operation, its number and its plan; anything malformed is `bad` or `Malformed`.
`Controller.submit` is its decision, its checks and the outcome of a tool, since `LaunchChain` has the rest.

`CoordinatorDialogue` is the other side of the callback. `thread` is where the thread of `supervise` is between two calls of
the system, `stage` its variable `phase`, and `events` what `select` has told. `out`, `err` and `shut` are the two pipes from the coordinator: what is queued, and which
ends are closed. A frame is two pieces, the header and the payload, and each counts as one byte, so that reads may split a frame, end with it, or take the beginning of the next
one; every limit is the sum of what it is in the code. `Supervise` has an action for each event of the loop, `Parse` is one turn of the loop over the buffer, and
`Drain` and `Probe` are the looks at the pipes before the authority is called. The look and the call are one step: what the coordinator writes between the two is
not to be told from what it writes during the call. `Coordinator` is anything the child and its descendants may do, `Halt` the deadline or a cancellation; `written`, `seen` and `calls` are history.
`AuthoritySession` in turn sees this module as `DialogueReturns` and `DialogueRaises`.

### 3.5 The owners' ledgers

An owner ledger answers messages of three roles, each with the next sequence number of its sender, and writes an event for each. `OwnerLedger`
has the record of such a ledger and what both files say alike: the order of messages (`InOrder`), the
clock (`Readings`, `ClockFault`), the deadlines, the events kept back for clean-up (`AtCapacity`), and stopping. A request
that is denied stops the ledger. `RoutingLedger` adds what may be armed, connected, requested and
transferred; `NameTlsLedger` the plan of a case, the binding that an answer leaves and its expiry.

A state has the live ledger and a second one that is told what the first has saved. `Receive`, `Poll` and `End` are what happens to the first, and
`Advance` is the step they share: the live ledger takes its outcome and the second is told the events that were just saved (`Replay`, one event after another by `Replayed`).
The property compares the two in every state. The replay
gives the second ledger a clock that reads the recorded times, which is why a fault of the clock needs an event of its own.
`MCOwners` takes one of the two owners per behaviour.

### 3.6 Records

`EvidenceJournal` makes an operation a list of writes, `job.todo`, and the memory it leaves. A write happens whole, in part or not
at all, and the store or the process may end there. `Inspection` is the report that `inspect_assessment` computes from the files, with its issues.
`ProviderBroker` has several callers, each at a place between the lock, the reservation, the two audit events and the transport.
`EngagementRecords` has the table of revisions, what has been answered, and the handle; `ValidExport` replays the
table as `validate_export` does.

### 3.7 Desktop, service and batch

`AssessmentService` is one run of the service, with the session reduced to what its caller sees, and a cancellation in three steps: the flag, the read of
the session, the call. The read and the publication are each atomic under the lock, or, in the command line, the handler interrupts the
thread between two of its instructions. `DesktopController` has the Tk thread and the worker. `Inspect` and `StartSession` start a
worker, `Put` waits for the place in the queue, `PollLooks` and `PollTakes` are the two halves of a poll, and `Close` and `CloseWaits` of closing.

`EvaluationBatch` has the runner in `batch` and what is on disk in `folder`. Each write of the runner is a step that may fail without its
effect, with it, or with a part of the file, and the runner then ends, so a process that dies in a write is the same step. What a part
amounts to is what the inspection makes of it: a partial manifest or receipt cannot be read and counts as absent, a line of the journal
that is cut short is a torn one, and a partial report is the value `PartialReport`: of `report.json` it cannot be loaded, of `report.md` it is a mismatch,
with which a batch that has completed is inspected as failed. An authority is `live` or `cancelled` and begins its actions one by one;
the two halves of `_install` are `InstallLooks` and `InstallSets`, between which another thread must wait for the lock
and a signal handler need not. `InspectedBatch` is the report that `inspect_evaluation` recomputes from the folder: `Accepts` and `Told` read the
journal, `BatchIssues` and `BatchStatus` judge it. `MCClients` takes the desktop, the command line or the batch per behaviour.

## 4. Runs

Every action and every disjunct of the modules fires in some run. `CHECK_DEADLOCK FALSE` stands where the modelled
program does stop: a session that is over, a ledger at its last event, calls that have all ended.

| run | states | what it asks |
|---|---|---|
| `dispatch` | 77,437 | Two owners, two sessions and two revisions share one lifetime budget, approvals and audit records, under clocks that advance and jump: every prefix of at most six recorded events. *Checks* `HeadersFollowEligibleIdentify`, `EventsAccountForRows`, `ImplementsAuthority` in `MCDispatchLedger`, `MCDispatchLedger.cfg`. |
| `store` | 274,857 | Two concurrent calls on two handles, shared by threads or not, with every fault, interrupt, crash and close between any two steps: what callers are told is true, poison is final, and the two levels of locks never deadlock. *Checks* `ReceiptsAreTrue`, `CleanErrorsRecordNothing`, `ImplementsRecordLog`, `PoisonIsFinal`, `CallsEnd` in `MCDispatchStore`, `MCDispatchStore.cfg`. |
| `costs` | 844,188 | Two attempts compete for the budgets of a chain of four scopes while limits change and usage and billing evidence arrives in any order; and beside it every card with rates up to 2 per 3 tokens, every token limit and every usage up to 2. *Checks* `JournalExplainsTables`, `CeilingCoversUsage`, `BreachedOnlyByEvidence` in `MCCostLedger`, `MCCostLedger.cfg`. |
| `paid_calls` | 1,138,839 | A planning call and a pilot call share a handle and a budget, with exceptions, lost acknowledgements, a crash and the operator between any two steps. *Checks* `SentIsHeldOrPaid`, `CleanEndingsResolve`, `ImplementsMeteredSends` in `MCPaidCalls`, `MCPaidCalls.cfg`. |
| `launches` | 6,593,481 | Two reviewed launches under a policy that asks for approval, with every worker dying anywhere in the first, the deadline, a cancellation and a concurrent close: no tool starts without its durable intent and its unexpired grant, or when nobody waits for it, and the chain implements LaunchGate. *Checks* `LaunchesAreBacked`, `StartsOnlyAwaited`, `ImplementsLaunchGate` in `MCLaunchChain`, `MCLaunchChain.cfg`. |
| `launches_allowed` | 571,124 | Two launches under a policy that asks for no approval, with all faults: the reservations cover every launch, and the trail tells the executions one after the other with closed evidence. *Checks* `ReservationsCoverLaunches`, `TrailTellsExecutions` in `MCLaunchChain`, `MCLaunchChainOpen.cfg`. |
| `session` | 971,311 | Both sides of a session. Sessions of three steps with any requests of the coordinator and of a concurrent caller: every tool was quoted, reserved and the only one of its step, only an undisturbed session is completed, nothing starts after a stop, every session ends. Dialogues of at most two requests with a coordinator that writes, closes and exits as it likes: a result stands for a whole dialogue, the authority is called for one request with nothing behind it, in turn, and every dialogue ends. *Checks* `EveryLaunchIsAccounted`, `CompletionIsEarned`, `ReturnedDialogueIsWhole`, `NothingStartsOnceStopped`, `CallsFollowQuiet`, `ImplementsMediatedDialogue`, `SessionEnds`, `DialogueEnds` in `MCSession`, `MCSession.cfg`. |
| `owners` | 54,996 | A routing owner with two actions on a log of seven events, or the owner of a name in a positive, a negative and a probe case, with messages in any order, repeated and late, clocks that reverse, polls and terminations: each ledger replays (that of a name unless a message met a fault of the clock), and services reserve only under an answer that is known and current. *Checks* `SnapshotsReplay`, `SteadyLedgersReplay`, `ServicesKnowTheName` in `MCOwners`, `MCOwners.cfg`. |
| `owners_clock` | to the violation | A message that meets a clock before its last reading leaves a ledger of a name whose own replay rejects it. *Checks* `SavedLedgersReplay` in `MCOwners`, `MCOwnersClock.cfg`. |
| `clients` | 41,076 | Four operations of the desktop over the service, with cancellations and closes at any moment; or the command line with its observer and its signal handler; or a batch of three trials with a deadline, cancellations, failures and a death in any write. *Checks* `ShownIsReplayed`, `CancellationIsKept`, `BatchIsRecovered`, `StopsReachAuthority`, `OperationsEnd` in `MCClients`, `MCClients.cfg`. |
| `clients_signal` | to the violation | A signal whose handler runs between the look at the stop and the publication of a trial's authority does not reach that authority. *Checks* `SignalsReachAuthority` in `MCClients`, `MCClientsSignal.cfg`. |
| `records` | 175,358 | Grants, broker reservations, engagement rules or the evidence of an assessment, each alone: single use whatever was tried before, attempts that are accounted for, answers that stay true and evidence that an inspection recovers from any interruption. *Checks* `FirstAttemptDecides`, `AttemptsAreAccounted`, `AnswersAreTrue`, `InspectionRecovers`, `PublishedReportReplays` in `MCRecords`, `MCRecords.cfg`. |

The bounds, and why they are enough:

* `dispatch`: two owners and two sessions, so that each unique thing can be tried twice by somebody
  else and lifetime sums cross sessions; two dispatches, two revisions, and clocks that advance, jump and run back. Six
  identifiers bound the run: create, a revision, a session, two reservations and a report, or as many of others. They are taken in
  order, since they are interchangeable. The end of the log is not reached: that a report always has room there is proved.
* `store`: two calls on two handles, in one process or two, or a retry after both; no symmetry, because the run checks liveness as well.
* `costs`: two attempts in a chain of four scopes compete for limits that are changed under them; up to eleven events,
  as many as a life of both attempts with late evidence takes. `paid_calls` has one more, for the operator.
  The scopes are created in one order and with one tree, the one in which nested budgets overlap. The
  run also has the smallest rates at which rounding and both orders of cached and uncached price occur (`PriceCard`).
* `records`: a store of two grants, three ever, and a clock that passes the lifetime twice; a broker with two callers, controls that stop at any moment, and budgets of two calls and three bytes; three identifiers for two revisions, a revocation
  and their retries, on two handles; and an assessment of each of the four workflows from its first decision to its last report, with one interruption.
* `launches`: up to two reviewed launches, for the same action or different ones, under a policy that asks, a store of one grant that expires before the
  deadline, four requests to the approval worker and seven audit records: as many as the second launch needs to start.
  Every fault of every worker strikes the first launch at any point; a second review begins only where nothing has failed so far, and is
  followed until something fails (`SecondIsQuiet`). `launches_allowed` has two launches with all faults, under a policy
  that asks for no consent. That consents and launches stay in step over any number of launches and faults is proved.
* `session`: three steps, an action of each kind (fits always, fits once, denied), every request with any number and
  any plan, a concurrent caller at every point. The deadline is one tick: what matters is before and after.
  Its other half is the supervisor: two requests, so that one is answered without a stop and one more is too many; one byte of diagnostics, so that a second is too many; pipes
  of two pieces (`Capacity`), so that a read ends before, within or after a frame and the next one begins behind it; one part for what the host writes, which may also be written not at all (`MaxParts`). The
  coordinator writes as long as it is read, so the limits are reached and passed. The theorems hold for all of these.
* `owners`: the routing owner has two actions of one connection each, a log of seven events of which three are kept for clean-up, and a clock of two ticks that
  may run back: before, at the deadline of a short action, and at that of the session. A log of seven ends within the second action. Requests come in every order and may be repeated. The owner of a name has
  a positive, a negative and a probe case over a name asked once or twice, with answers that are right, wrong, undelivered and late; its log of fifteen events is as long as
  its longest case, and one message beyond the useful ones is enough to be denied at any point, since a denial stops the ledger.
  `owners_clock` is the same machine, and stops at the first fault of the clock in a message.
* `clients`: four operations of the desktop, so that a second and a third can meet the leftovers of the first; a cancellation and a close at
  any moment; or the command line, with an observer that may fail and a signal at any moment; or a batch of three trials of two actions each, so that a trial
  has one before and one after it and an authority can be stopped before, between and after its actions. `clients_signal` asks of a batch
  with a signal handler what `clients` asks of the timer and of another thread.

Fairness. `DispatchStore!FairSpec`: each call takes its own next step if it can for ever; the locks are taken when they
are free, and nothing is assumed of faults, closes or other handles. `AuthoritySession!FairSpec`: time passes; the thread takes its own
next step; a wait gives up once the control has stopped (each wait polls `remaining`, `execution.py:44-50`); an event that cannot be stored
raises; the supervisor of the coordinator ends once the control has stopped. Nothing is
assumed of the coordinator, the provider, the reviewer or the tool, which may never answer. `MCSession!SidesSpec` assumes the same of a behaviour of the authority. For one of the supervisor (`CoordinatorDialogue!FairDialogueSpec`): the deadline comes, since it is a time, and
the thread of `supervise` takes its next step, since `select` and the wait for the child are bounded by the remaining time, the pipes are not blocking, and the callback, which is required to honour the
control (`coordinator_ipc.py:3-5`), gives up with it; of the coordinator nothing is assumed. `MCClients!Spec`: the worker takes its next step, because each service it runs is bounded by the deadline of its
session; the Tk thread goes on with a cancellation and a close it has begun, because nothing else runs on that thread; and the
timer of the poll, which Tk's event loop serves between other events, is strongly fair. The user need not do anything. The other specifications state no
fairness and check safety only.

Each property has a mutant of a mapped definition, the bug it is there to find: a check that was dropped, an order
that was swapped, an undo that gives too much back. They stand next to the definitions they replace, under `A bug:`.

Two disagreements were found.

* `name_tls_ledger.py:393` records a fault of the owner's clock that meets a message as a denied
  `message` event, and `_replay` tells every such event again under a clock that reads the recorded time: its reply is another, and
  `validate_snapshot` rejects an honest snapshot that has its complete transcript (`name_tls_saved_reply_changed`).
  `tests/test_name_tls_authority.py:339` expects a snapshot with its messages to be validated. The older `routing_ledger.py:313` records the fault as
  `clock_stop`, and `_replay` has a branch for that event at `name_tls_ledger.py:455`. `owners_clock` shows it; `owners` checks
  that nothing else keeps a ledger from replaying.
* `evaluation.py:187` looks at the stop and then publishes the authority of the trial. A signal handler runs on the thread that holds the
  (reentrant) lock, so it may come between the two, find nothing to cancel, and leave the authority at work until its session ends or the
  deadline passes; only then does the loop see the stop. `docs/evaluation.md:124` says that a signal cancels the current
  authority, and `configurable_service.py:196` looks again after its publication. `clients_signal` shows it; `clients` checks that the timer and another thread, which
  must wait for the lock, do reach the authority.

Three things that look like disagreements are documented: an intent may end with a
blocked completion (`docs/isolated-fixture-launcher.md`), an append whose answer was lost stays on the trail without a
launch (`docs/isolated-audit.md`), and a witness that was left over stops the launcher for good (`docs/launch-approval-witness.md`).

## 5. Proofs

TLAPS checks the following for every value of the constants that satisfies the named assumptions.

| theorem | in | says |
|---|---|---|
| `TypeCorrect` | `DispatchLedgerProofs` | Every state and row keeps its type, and the generation stays within the schema bound, for every set of identifiers, rules and clocks. |
| `NothingSpentTwice` | `DispatchLedgerProofs` | No approval, audit record, dispatch identifier or session slot is ever spent by two reservations. |
| `RevocationIsFinal` | `DispatchLedgerProofs` | Once revoked, the ledger records reports only. |
| `SpendingFollowsRules` | `DispatchLedgerProofs` | Each new reservation belongs to the rules in force, and so does its session. |
| `ReportsAlwaysFit` | `DispatchLedgerProofs` | With the bounds of the code the event and completion tables always have room for the report of every uncompleted reservation. (`EventsAccountForRows`) |
| `FollowUpsAreEarned` | `DispatchLedgerProofs` | Every headers reservation stands on one identify dispatch of the same revision, session target and owner that was reported a success in time and before it. (`HeadersFollowEligibleIdentify`) |
| `TimeMovesOn` | `DispatchLedgerProofs` | The recorded UTC times never run back, whatever the clocks of the hosts read. |
| `LedgerIsAuthority` | `DispatchLedgerProofs` | The ledger implements the abstract spending authority: it spends only while open, within the limits in force, and never refunds. (`ImplementsAuthority`) |
| `StoreTypeCorrect` | `DispatchStoreProofs` | The store stays well typed for any engine and any number of handles and calls. |
| `ReceiptsHold` | `DispatchStoreProofs` | A receipt once returned names its request at its sequence in the committed log for ever, whatever fails later. (`ReceiptsAreTrue`) |
| `CleanErrorsHold` | `DispatchStoreProofs` | A call that ended in a clean error never recorded its request. (`CleanErrorsRecordNothing`) |
| `StoreIsRecordLog` | `DispatchStoreProofs` | For every engine the store implements the abstract log: one admissible request at a time, no event twice, no stale decision. (`ImplementsRecordLog`) |
| `PoisonStays` | `DispatchStoreProofs` | Once a caller was told of an uncertain outcome, no call of that handle that has not passed its checks ever records anything. (`PoisonIsFinal`) |
| `CeilingsCoverUsage` | `CostLedgerProofs` | For every price card, every token limits and every usage within them, the cost is at most the ceiling that the ledger holds, and never below the exact price. (`CeilingCoversUsage`) |
| `LedgerTypeCorrect` | `CostLedgerProofs` | For any scopes, prices and attempts the tables keep their types, a hold is always the quoted ceiling and an unknown cost is never a number. |
| `ClaimsAreGrantedOnce` | `CostLedgerProofs` | The claim to send an attempt is granted once in the whole history, and never to one released as unsent. |
| `NoReceiptPaysTwice` | `CostLedgerProofs` | No receipt settles two charges. |
| `SentMoneyStays` | `CostLedgerProofs` | After the send claim the counted amount changes only with a new receipt. |
| `JournalExplains` | `CostLedgerProofs` | Limits, states, holds, charges with their sources, and used receipts of the tables are what the journal tells, in any history of any number of attempts and scopes. (`JournalExplainsTables`) |
| `BudgetsAreKept` | `CostLedgerProofs` | A step that takes the money counted in a scope above its limit is a settlement or a lowering of the limit; no reservation and no send claim does. (`BreachedOnlyByEvidence`) |
| `BillingStands` | `CostLedgerProofs` | A billed charge is replaced only by another bill. |
| `PaidCallsTypeCorrect` | `CostLedgerProofs` | The calls and the ledger keep their types for any number of calls and any prices. |
| `SentStaysHeldOrPaid` | `CostLedgerProofs` | Whatever is lost, raised, cancelled or killed, a request that has left is settled or its whole ceiling is still held. (`SentIsHeldOrPaid`) |
| `EndingsLeaveNothingOpen` | `CostLedgerProofs` | A call that ends cleanly leaves its attempt settled, released, denied or marked uncertain. (`CleanEndingsResolve`) |
| `PaidCallsAreMetered` | `CostLedgerProofs` | The calls implement metered sends: each request leaves at most once, after its claim, and no claim is released. (`ImplementsMeteredSends`) |
| `GrantsAreSingleUse` | `LaunchChainProofs` | For any policies, lifetimes and capacities, a grant is consumed at most once and never after any failed attempt on it. (`FirstAttemptDecides`) |
| `GrantsBindReview` | `LaunchChainProofs` | For any policies, lifetimes and capacities, what is consumed is the reviewed action under the reviewed policy within the lifetime. |
| `AdmissionTypeCorrect` | `LaunchChainProofs` | For any profile, allowances and limits, the reservations stay within the limits of the session. |
| `PermitsAreSingleUse` | `LaunchChainProofs` | For any profile, allowances and limits, a permit opens at most one launch, the one it was admitted for. |
| `ChainTypeCorrect` | `LaunchChainProofs` | For any instance of the chain the state keeps its types. |
| `LaunchesBacked` | `LaunchChainProofs` | For any instance every launch has its own durable intent and, where the policy asks, its own consumed grant that was unexpired at the last check, all for the same action. (`LaunchesAreBacked`) |
| `LaunchesAwaited` | `LaunchChainProofs` | For any instance a tool only starts while the session thread waits for this action and nothing has failed for the controller. (`StartsOnlyAwaited`) |
| `TrailTells` | `LaunchChainProofs` | For any instance the trail tells the executions one after the other, and a completion only once the evidence is closed. (`TrailTellsExecutions`) |
| `ReservationsCover` | `LaunchChainProofs` | For any instance the reservations cover every launch, and what the host was told last never exceeds them and agrees with them between runs. (`ReservationsCoverLaunches`) |
| `ChainImplementsGate` | `LaunchChainProofs` | For any instance every behaviour of the chain is one of LaunchGate. (`ImplementsLaunchGate`) |
| `NoStartsOnceStopped` | `AuthoritySessionProofs` | For any policy and limits no tool starts and no approval is asked for once the session is stopped, a request was rejected or a service has failed. (`NothingStartsOnceStopped`) |
| `LaunchesAccounted` | `AuthoritySessionProofs` | For any policy, limits and coordinator every tool that starts was reserved for, quoted and is the only one of its step, and the reservations add up to no more than the budget. (`EveryLaunchIsAccounted`) |
| `CompletionsAreEarned` | `AuthoritySessionProofs` | Only a session without any rejection or failure, whose reserved actions all succeeded and whose provider said that it is done, is called completed. (`CompletionIsEarned`) |
| `DialogueTypeCorrect` | `AuthoritySessionProofs` | For any limits and any coordinator every variable of the dialogue keeps its type. |
| `ReturnedDialoguesAreWhole` | `AuthoritySessionProofs` | For any number of requests, limits, sizes of reads and pipes, and any coordinator, a result is only returned when everything it wrote is a verified READY, its answered requests and the result, all of it was read, and it has exited with zero. (`ReturnedDialogueIsWhole`) |
| `LimitSpares` | `AuthoritySessionProofs` | For any limits the output limit never ends a dialogue whose frames and diagnostics are within their own. |
| `QuietBeforeCalls` | `AuthoritySessionProofs` | For any coordinator the authority is called for a request only when nothing else was written behind it, the output has not ended, and the control has not stopped. (`CallsFollowQuiet`) |
| `DialogueIsMediated` | `AuthoritySessionProofs` | Every dialogue is one of `MediatedDialogue`: requests and responses take turns, at most the allowed number, none after a stop, and a result only then. (`ImplementsMediatedDialogue`) |
| `RoutingSnapshotsReplay` | `OwnersProofs` | The saved events of a routing owner are accepted by the replay and rebuild its ledger, for every set of actions, limits and clock faults. (`SnapshotsReplay`) |
| `SteadyNamesReplay` | `OwnersProofs` | The saved events of the owner of a name do so too, as long as no message met a fault of the clock. (`SteadyLedgersReplay`) |
| `ServicesAreKnown` | `OwnersProofs` | No service of a name is armed or reserves, and no name is bound, without an answer that was seen on the wire, delivered as a whole and reported within its time to live, for any plans, deadlines and times to live. (`ServicesKnowTheName`) |
| `SignalsAreKept` | `ClientsProofs` | In the command line, once the handler of a signal has returned, no session is left that does not know of it, and a run whose observer failed is never called finished. (`CancellationIsKept`) |
| `CancellationsAreKept` | `ClientsProofs` | So it is in the desktop, for any number of operations and cancellations. (`CancellationIsKept`) |
| `ReportsAreReplayed` | `ClientsProofs` | What is shown was replayed from the directory that is shown while nothing runs, and a session is shown as finished only with its finalized report. (`ShownIsReplayed`) |
| `StopsAreKnown` | `ClientsProofs` | A stop from the timer or another thread reaches the authority at work. (`StopsReachAuthority`) |
| `AttemptsAreKept` | `ClientsProofs` | For any number of callers and any budgets: the transport is entered for a reservation on record, each attempt ends at most once, and the counters cover the record within the budgets. (`AttemptsAreAccounted`) |
| `BatchesAreRecovered` | `ClientsProofs` | Whichever write of a batch is the last one, in whole or in part, an inspection finds every allowance that was handed out and rejects nothing that was saved, except a report.md whose write was cut short; a whole report.json is the one that it recomputes. (`BatchIsRecovered`) |
| `AnswersStayTrue` | `ClientsProofs` | A caller of the engagement records can rely on what it is told, and the whole history is accepted by the validation of its export, for any number of handles, events and revisions and any failures. (`AnswersAreTrue`) |
| `InspectionsRecover` | `ClientsProofs` | In every workflow, whatever fails and whenever the process dies, the inspection of the evidence recovers what the store acknowledged and at most one operation more, and rejects no line the store wrote. (`InspectionRecovers`) |
| `ReportsOutliveTheStore` | `ClientsProofs` | The report of a finalized store is the one an inspection recomputes, and none is conclusive before the journal is closed, both reports are written and every execution has its artifact. (`PublishedReportReplays`) |

Assumptions. Each is an `ASSUME` of the module that declares the constants, evaluated by the runs: rules
are well formed and clock samples ordered (`DispatchLedger`); the model values differ from what they
stand beside; allowances, lifetimes and limits are positive numbers where the code validates them as such;
the profile of a session is a function from steps to actions.

The arguments:

* **Dispatch ledger.** `TypeInv` is typing with the relation between `status`, `revision` and `generation`. `SpentOnce`
  is inductive by itself with the effect of `Reserve`. For the room of reports, typing is not enough: `CountInv` adds that the
  events are as many as the rows that caused them (`Balanced`), so that the bound on the tables bounds the log; `push` keeps
  a place for each outstanding reservation, and `Counted` says how many there are. The refinement maps a revision to a
  change of limits and a reservation to spending its fixed cost; each step or stutter is shown per action.
* **Store.** `CallInv` says of a call at each place what it knows: past the decision, that its decision is about the log as it is
  (because the write lock has been held since), past the commit, that its receipt is true; before it, that
  nothing of it is recorded. It is shared by all the theorems. A receipt stays true because the log only grows. For poison,
  `PoisonLasts` says that the answer that poisons a handle has set its `failed`, which no step clears, and `Barred` that a call which had not passed its checks
  by then never does on that handle; the property has a box within a box, and follows from these two.
* **Cost ledger.** `Shaped` says that a step either changes one attempt along an edge of its states with the event of
  that edge, or changes none. `HistoryInv` relates every journal entry to the state its attempt must have left behind. A second
  claim would need an attempt in a state its first claim has left for good.
* **Paid calls.** What a call believes (`known`) is at most what is durable, and a request has only left if its attempt
  is past the claim. From this both the held money and the refinement follow per action.
* **Launch chain.** `ChainInv` is the conjunction of typing, the invariants of grants and permits, what the session
  thread knows (`ThreadInv`), what the intents on the way are (`IntentInv`), what the consents are
  (`ConsentInv`) and `LockstepInv`: intents, consents and launches count up together, and what is in a pipe is the difference between
  two counts. Without the last, a witness that was left over could belong to an earlier launch of the same action; it says that
  whoever abandons an exchange leaves the counts apart, and that the launcher never starts anything again from then on.
* **Session.** `HaltInv`: a request is only under way in the dialogue; a rejection has cancelled the session; a failed
  service has done so too, or has closed the session while nothing was under way. The action property follows with the guards
  of the two steps that start something.

  For what is accounted, `RequestInv` says that the step of the request in hand is the last of `quotes` and of `reservations`, and `OrderInv` that steps
  increase: one entry for each step follows from this, and it is greater than that of every launch before it. `SumInv` carries
  the sum. For a completion, `CloseInv` is needed, because a disturbance may come when the status is already `completed`: it then has
  stopped the session, and the end of the dialogue takes the status back; and `ExecInv` counts successes against reservations at each place of the request in hand.
* **Follow-ups and time** of the dispatch ledger. `SlotInv`: an identify dispatch that is not reported yet, or whose report nothing has followed,
  has left its clock as the clock of the session, which is what the code compares a `headers` request with. `TimeInv`: events are numbered by their count and
  none of them has a clock above the high-water mark, so the one comparison with the mark stands for all earlier events.
* **Journal and budgets.** `Shaped` again gives both. The journal explains the tables because the last event of an attempt, or of a scope, is
  the one that was just appended; a hold is the amount of a reservation's event, which stays in the journal, and the receipts grow with the settlements. For the budgets, `TreeInv` makes the scopes a forest of bounded height (a
  parent has an earlier kind), so a chain of scopes does not change once it stands; a reservation adds its ceiling to the scopes of
  its chain only, each of which was looked at, and a send claim counts what the reservation has counted.
* **Ceilings.** The cost grows with the weight, and the weight of a usage is at most that of the dearest one: the two cases are
  whether a cached token costs more, and each is a product of two numbers that are not negative. Rounding once keeps both directions.
* **Clean endings.** The property is inductive with the typing of the calls. A call ends by its own last step, and the
  cancel, the settlement or the uncertain mark of that step resolves its attempt (`EndingsResolve`); a call that has ended moves its attempt no more,
  other calls have attempts of their own (`OtherRowsStay`), and an operator only ever resolves attempts (`OperatorResolves`).
* **Trail and reservations.** `TrailInv`: the last record is an intent without its completion only while its call is on the way (`Begun`) or the
  controller records nothing any more (`Silenced`). `ReservedInv`: what was launched, and what is in hand between its admission and its start, is reserved;
  the host is told before the next call begins.
* **Desktop, command line, batch.** `ServiceInv`: a `cancel` that returned without a session left its flag, which is read after the session is
  published, and no other call can look in between. `ShownInv` follows a report from the worker through the queue to the window: whatever is in one
  of these hands belongs to the operation that is shown. `BatchInv`: the lock keeps every stop but that of a handler out of the
  two halves of an installation.
* **Broker.** `BrokerInv`: only the last attempt can be under way (`Open`), and the place of the call says which of its two events
  the trail still lacks; all the others have both, unless the audit has failed.
* **Batch, recovered.** `RecoveredInv` gives the history that the journal on disk replays to, for each place of the run, beside what the runner holds:
  a line is on disk before what it tells is in memory, and no place is left without its line. What is still to be written of the report is told from the same history.
  `ReportsSaved` says of the two reports that one that is whole is what is recomputed; a part of one is only ever the last thing that the runner wrote, and then it returns no report.
* **Engagement records.** `Sound` says that the events are the rows that made the tables, each under an identifier of its own, and that they replay to the state.
  An answer rests on a row, and rows are only added, which leaves the replay of the earlier ones alone (`ReplayGrows`).
* **Evidence.** `RecordsRecover`: the journal reads as an honest history (`HonestReading`: it broke no rule and names an artifact for each execution that has finished), it is as long as
  that history tells (`Tally`), and the store is at a stage (`StoreStage`) of which this is the reading: at rest, stopped, with the writes of one operation left, or concluded. A line that is
  still to be written follows that history, so it is read if it comes to disk, and there is room for it if it is torn; the limit of the journal is never reached because each workflow
  bounds the tally (`TallyIsBounded`). When a store has concluded, the reading and the memory have the same records, hence the same issues and the same report.
* **Coordinator dialogue.** `DialogueInv`: what was written is what was read and what is queued (`Counted`), with the counters that go with it; what was read is the frames that were
  parsed, one by one of the kind their place asks for, and the buffer (`Understood`); an end that was seen is closed and drained (`Ended`); and the place of the thread and the phase
  tell each other, the requests and the calls (`Placed`, `Asked`). A dialogue that was given up keeps its counts only. With an empty buffer and empty pipes, what was written is therefore the frames that were parsed, which is what
  the two properties about whole dialogues ask; the limit follows from the counts. In the refinement a step of the loop is a turn of the mediated dialogue or invisible.
* **Owners.** `ReplayInv` and `RetoldInv` say that the rebuilt ledger is the live one but for the time it has observed, which is no later, and
  the same once the owner has stopped; and that the live ledger is `Accounted` (typed, with the lists of its actions and connections in order,
  and no deadline passed that was not settled). What one call does to the live ledger is then shown to be what
  its events do to a ledger at the same point (`Reproduces`): the rebuilt ledger is told the recorded time, so it answers as the live one did.
  A request after a deadline is the hard case: it settles the deadline first, which writes an event of its own, so the replay must do in two steps what the
  owner did in one. That needs a place for the second event, which is what the events kept for clean-up give, and is why `OwnerAssumption` asks for at least one
  (the code keeps `CLEANUP_EVENT_RESERVE`). For the name, messages without effect on the log advance the observed time only.
* **Name and services.** `NamedInv`: a binding stands for the row of the last question, which is finished, was answered as expected and delivered as a whole, and
  it expires no later than that answer; while there is a binding no question is armed, so that row is not written to any more. A reservation for a service is permitted under a
  binding that has not expired only, which by the invariant is what the property asks for; a report that binds was held against the wire in the same step (`FinishInforms`).

Sums. `FoldTheorems` proves of `SumFunction`, for functions into the natural numbers on finite sets: its type, that it does not depend on anything but the
values, what one more index or one changed value does to it, and that a part sums to no more than the whole. They follow by the smallest counterexample
from the definition of the fold, since an induction theorem cannot be instantiated.

Folds. For a fold over a sequence it proves the same way that the recursion has a solution (`IterationExists`), that the fold therefore follows a trace of steps from the first element to the last
(`IterationTraces`), and that two folds with the same first steps have the same trace so far (`TracesAgree`). Each inspection adds that its own fold is one of these (`ReadSolutionIterates` and
its like) and that appending one line adds one step (`ReadingGoesOn`), which is all that the invariants need; no theorem says what the fold of a given journal is.

Only model-checked:

* `CallsEnd`, `SessionEnds`, `DialogueEnds`, `OperationsEnd`: liveness under fairness, which is out of the prover's reach, as is `ENABLED`.
* `SavedLedgersReplay` and `SignalsReachAuthority`, which the code violates.

`SentMoneyStaysCounted`, `BillingIsFinal`, `ClaimedOnce`, `ConsumedAsReviewed`, `NoSpendUnderOldRules`, `RevokedOnlyReports`, `SpentOnce`, `UtcNeverRollsBack`, `ReceiptsPayOnce`, `PermitsOpenOneLaunch` and
`LimitSparesLegalDialogues` are proved and not run.

## 6. Not modelled

Components with status `not_modelled` in `PROJECT.json` each give their reason. In short: the tool
fixtures, runtimes, parsers and topologies are pure functions and system calls; grading and packets read finished runs; the
command lines assemble; the launch path of the configurable tools is the one of `LaunchChain`, and the local loop a simpler `AuthoritySession`.

The models stand for a small part of the implementation by lines. It has some 88,000 lines in 432 files, of which
about 250 are one pattern repeated for each bundled tool: a contract that fixes one argument list,
a fixture that answers with fixed bytes, a confined runtime of mount and namespace calls, a worker that starts one process, and a parser of what it
prints. They share no state, take no decision that another part relies on before it has been checked again by the controller and
the launcher, and a TLA+ version of them would restate each byte format. The parts that keep state between two calls, or that two
threads or processes touch, are the ones modelled.

Within the modelled components these are left out: byte formats (of the coordinator's frames too, beyond header and payload), digests and their comparison beyond equality, size limits of messages
and files, file custody (owner, mode, links) except as one failure among others, bootstrap and confinement of workers,
dry runs of the launcher, and the arithmetic of quotes inside `CostLedger` (it is in `PriceCard`).
