----------------------------- MODULE ClientsProofs ----------------------------
(***************************************************************************)
(* What is proved of the programs around an authority and of the records   *)
(* they leave: the service and the two that run it, the batch of trials,   *)
(* the owned provider broker, the engagement records and the evidence of   *)
(* an assessment.  Each of them is taken on its own here: its initial      *)
(* states, and steps that are one of its actions.  The runs of MCClients   *)
(* and MCRecords check these very actions, one of them in each behaviour.  *)
(***************************************************************************)
EXTENDS DesktopController, EvaluationBatch, ProviderBroker, EngagementRecords, EvidenceJournal,
        SequenceTheorems, FoldTheorems

\* The command line, whose signals interrupt the run it watches.
CommandLineSpec == service = Ready("watching") /\ [][CommandLineNext]_service

\* The window, its worker and the service of the session.
DesktopSpec == service = Ready("none") /\ DesktopInit /\ [][DesktopNext]_desktop

\* A batch, in either mode, however it is stopped.
BatchInit ==
  /\ folder = EmptyFolder
  /\ \E mode \in {"execute", "dry_run"}, looks, interrupts \in BOOLEAN :
       batch = ReadyBatch(mode, looks, interrupts)

BatchSpec == BatchInit /\ [][BatchNext]_batching

\* The broker, with its callers.
BrokerSpec == BrokerInit /\ [][BrokerNext]_brokerage

\* The engagement records, amended by any number of handles.
EngagementSpec == EngagementInit /\ [][EngagementNext]_engaged

\* The evidence of one assessment of any workflow.
EvidenceSpec == EvidenceInit /\ [][EvidenceNext]_evidence
-----------------------------------------------------------------------------
(***************************************************************************)
(* The service: CancellationIsKept.                                        *)
(*                                                                         *)
(* A call of cancel sets the event before it looks for a session, so one   *)
(* that has returned without finding any is known to the check that follows*)
(* the publication; until that check no other call can look, for it waits  *)
(* for the lock or, in a handler, finds the session that is published.     *)
(***************************************************************************)
ServiceFields ==
  {"state", "reason", "at", "opened", "cancelled", "runner", "outcome", "observer",
   "finalized", "canceller"}

Kept ==
  /\ DOMAIN service = ServiceFields
  /\ service.canceller # "idle" => service.cancelled
  /\ service.runner = "live" => service.at \in {"checking", "authority", "settling"}
  /\ service.at # "checking" /\ service.canceller = "returned" => service.runner # "live"

Settled ==
  /\ service.at # "over" => ~service.finalized /\ service.state # "finished"
  /\ service.observer = "failed" => ~service.finalized /\ service.state # "finished"
  /\ service.state = "finished" => service.finalized

ServiceInv == Kept /\ Settled

\* A new service, as either client makes one.
LEMMA ReadyIsKept ==
  ASSUME NEW observer \in {"none", "watching"}, service = Ready(observer)
  PROVE  ServiceInv
BY DEF ServiceInv, Kept, Settled, Ready, ServiceFields

\* No step of the run loses a cancellation, or finalizes a report after a failure.
LEMMA RunKeepsService ==
  ASSUME ServiceInv, RunService \/ WorkOfService
  PROVE  ServiceInv'
<1> USE DEF ServiceInv, Kept, Settled, ServiceFields
<1>1. CASE RunService       BY <1>1 DEF RunService
<1>2. CASE OpenService
  <2> DEFINE opened == service.opened + 1
  <2>1. \/ service' = Over("stopped", "session_cancelled")
        \/ \E place \in {service.at, "publishing"} :
             service' = [service EXCEPT !.opened = opened, !.at = place]
    BY <1>2 DEF OpenService
  <2>2. service.at = "setup"  BY <1>2 DEF OpenService
  <2> HIDE DEF opened
  <2> QED BY <2>1, <2>2 DEF Over
<1>3. CASE SetupFails       BY <1>3 DEF SetupFails, Over
<1>4. CASE Publish          BY <1>4 DEF Publish
<1>5. CASE CheckPublished   BY <1>5 DEF CheckPublished
<1>6. CASE ObserverFails    BY <1>6 DEF ObserverFails
<1>7. CASE SessionEnded
  <2> PICK outcome : service' = [service EXCEPT !.at = "settling", !.outcome = outcome]
    BY <1>7 DEF SessionEnded
  <2> QED BY <1>7 DEF SessionEnded
<1>8. CASE SessionRaises    BY <1>8 DEF SessionRaises, Over
<1>9. CASE Settle           BY <1>9 DEF Settle, Over
<1>10. CASE SettleFails     BY <1>10 DEF SettleFails, Over
<1> QED BY <1>1, <1>2, <1>3, <1>4, <1>5, <1>6, <1>7, <1>8, <1>9, <1>10 DEF WorkOfService

\* Neither does a step of the call, whether it interrupts the run or waits for the lock.
LEMMA CancelKeepsService ==
  ASSUME NEW interrupts \in BOOLEAN, ServiceInv, CancelSets \/ CancelStep(interrupts)
  PROVE  ServiceInv'
<1> USE DEF ServiceInv, Kept, Settled, ServiceFields
<1>1. CASE CancelSets               BY <1>1 DEF CancelSets
<1>2. CASE CancelReads(interrupts)  BY <1>2 DEF CancelReads
<1>3. CASE CancelReaches            BY <1>3 DEF CancelReaches
<1> QED BY <1>1, <1>2, <1>3 DEF CancelStep

\* What is asked of a service follows.
LEMMA ServiceInvSuffices == ServiceInv => CancellationIsKept
BY DEF ServiceInv, Kept, Settled, CancellationIsKept

\* On the command line no session is left that does not know of a signal whose handler
\* has returned, wherever it interrupted the run, and none whose observer failed is
\* called finished.
THEOREM SignalsAreKept == CommandLineSpec => []CancellationIsKept
<1>1. service = Ready("watching") => ServiceInv
  BY ReadyIsKept
<1>2. ServiceInv /\ [CommandLineNext]_service => ServiceInv'
  <2> SUFFICES ASSUME ServiceInv, [CommandLineNext]_service
               PROVE  ServiceInv'
    OBVIOUS
  <2>1. CASE RunService \/ WorkOfService      BY <2>1, RunKeepsService
  <2>2. CASE CancelSets \/ CancelStep(TRUE)   BY <2>2, CancelKeepsService
  <2>3. CASE UNCHANGED service
    BY <2>3 DEF ServiceInv, Kept, Settled
  <2> QED BY <2>1, <2>2, <2>3 DEF CommandLineNext
<1> QED BY <1>1, <1>2, ServiceInvSuffices, PTL DEF CommandLineSpec
-----------------------------------------------------------------------------
(***************************************************************************)
(* The desktop: ShownIsReplayed.                                           *)
(*                                                                         *)
(* A report goes from the worker through the queue to the desk.  While an  *)
(* operation is busy its directory is the one that is shown, and nothing is*)
(* in the queue or in the worker's hands that belongs to another.          *)
(***************************************************************************)
DeskFields ==
  {"busy", "closing", "generation", "operation", "path", "report", "phase", "asked"}

WorkerFields == {"at", "operation", "phase", "report"}

\* What a report or a phase in some hands says of the operation and its service.
RunTells(operation, report, phase) ==
  /\ report \in {0, operation}
  /\ phase = "finished" => report # 0 /\ service.finalized

WorkerTells ==
  /\ DOMAIN worker = WorkerFields
  /\ Alive => desk.busy /\ worker.operation = desk.path
  /\ worker.at \in {"inspecting", "running", "dead", "none"} => worker.phase = "none"
  /\ worker.at = "replaying" /\ worker.phase = "finished" => service.finalized
  /\ worker.at \in {"putting", "leaving"} =>
       RunTells(worker.operation, worker.report, worker.phase)

ResultTells ==
  results # <<>> =>
    /\ desk.busy
    /\ results[1].operation = desk.path
    /\ RunTells(desk.path, results[1].report, results[1].phase)

DeskTells ==
  /\ DOMAIN desk = DeskFields
  /\ RunTells(desk.path, desk.report, desk.phase)
  /\ desk.busy => desk.report = 0

ShownInv == ServiceInv /\ WorkerTells /\ ResultTells /\ DeskTells

\* A finalized report stays finalized until another session is started.
LEMMA StaysFinalized ==
  ASSUME ServiceInv, RunService \/ WorkOfService \/ CancelSets \/ CancelStep(FALSE)
  PROVE  service.finalized => service'.finalized
<1> USE DEF ServiceInv, Kept, Settled, ServiceFields
<1> SUFFICES ASSUME service.finalized PROVE service'.finalized
  OBVIOUS
<1>1. service.at = "over"
  OBVIOUS
<1>2. CancelSets \/ CancelStep(FALSE)
  BY <1>1 DEF RunService, WorkOfService, OpenService, SetupFails, Publish, CheckPublished,
              ObserverFails, SessionEnded, SessionRaises, Settle, SettleFails
<1> QED BY <1>2 DEF CancelSets, CancelStep, CancelReads, CancelReaches

\* So a step of the service disturbs nothing of what is told.
LEMMA ServiceKeepsShown ==
  ASSUME ShownInv, RunService \/ WorkOfService \/ CancelSets \/ CancelStep(FALSE),
         UNCHANGED <<desk, worker, results>>
  PROVE  ShownInv'
<1>1. ServiceInv'
  BY RunKeepsService, CancelKeepsService DEF ShownInv
<1>2. service.finalized => service'.finalized
  BY StaysFinalized DEF ShownInv
<1>3. WorkerTells'
  BY <1>2 DEF ShownInv, WorkerTells, RunTells, Alive
<1>4. ResultTells'
  BY <1>2 DEF ShownInv, ResultTells, RunTells
<1>5. DeskTells'
  BY <1>2 DEF ShownInv, DeskTells, RunTells
<1> QED BY <1>1, <1>3, <1>4, <1>5 DEF ShownInv

\* An operation begins with nothing shown and nothing in the queue.
LEMMA BeginningsKeepShown ==
  ASSUME ShownInv, Inspect \/ StartSession \/ StartFails
  PROVE  ShownInv'
<1> USE DEF ShownInv, WorkerTells, ResultTells, DeskTells, RunTells, DeskFields, WorkerFields
<1>1. ~desk.busy /\ ~Alive /\ results = <<>>
  BY DEF Inspect, StartSession, StartFails, Begins, Idle
<1>2. results' = <<>> /\ ResultTells'
  BY <1>1 DEF Inspect, StartSession, StartFails, Begins
<1>3. CASE Inspect
  <2>1. ServiceInv'   BY <1>3 DEF Inspect, ServiceInv, Kept, Settled
  <2>2. DeskTells'    BY <1>3 DEF Inspect, Begins
  <2>3. WorkerTells'  BY <1>3 DEF Inspect, Begins, Thread, NoThread, Alive
  <2> QED BY <2>1, <2>2, <2>3, <1>2
<1>4. CASE StartSession
  <2>1. ServiceInv'
    BY <1>4 DEF StartSession, ServiceInv, Kept, Settled, Ready, ServiceFields
  <2>2. DeskTells'    BY <1>4 DEF StartSession, Begins
  <2>3. WorkerTells'  BY <1>4 DEF StartSession, Begins, Thread, NoThread, Alive
  <2> QED BY <2>1, <2>2, <2>3, <1>2
<1>5. CASE StartFails
  <2>1. ServiceInv'
    <3>1. \/ UNCHANGED service
          \/ service' = [Ready("none") EXCEPT !.cancelled = TRUE, !.canceller = "returned"]
      BY <1>5 DEF StartFails
    <3>2. CASE UNCHANGED service
      BY <3>2 DEF ServiceInv, Kept, Settled
    <3>3. CASE service' = [Ready("none") EXCEPT !.cancelled = TRUE, !.canceller = "returned"]
      <4>1. /\ DOMAIN service' = ServiceFields
            /\ service'.cancelled /\ service'.runner = "none" /\ service'.state = "ready"
            /\ service'.observer = "none" /\ service'.finalized = FALSE
        BY <3>3 DEF Ready, ServiceFields
      <4> QED BY <4>1 DEF ServiceInv, Kept, Settled
    <3> QED BY <3>1, <3>2, <3>3
  <2>2. DeskTells'
    <3>1. PICK session \in BOOLEAN :
            desk' = [desk EXCEPT
              !.generation = @ + 1, !.operation = "none", !.report = 0,
              !.path = desk.generation + 1, !.asked = session,
              !.phase = IF session THEN "failed" ELSE "none"]
      BY <1>5 DEF StartFails
    <3> QED BY <3>1
  <2>3. WorkerTells'  BY <1>5 DEF StartFails, NoThread, Alive
  <2> QED BY <2>1, <2>2, <2>3, <1>2
<1> QED BY <1>3, <1>4, <1>5

\* The worker hands over what it replayed, and calls nothing finished without it.
LEMMA WorkKeepsShown ==
  ASSUME ShownInv, Work
  PROVE  ShownInv'
<1> USE DEF ShownInv, WorkerTells, ResultTells, DeskTells, RunTells, WorkerFields
<1>1. CASE Run
  BY <1>1, ServiceKeepsShown DEF Run
<1>2. CASE Inspected \/ RunEnded \/ Replayed \/ Put \/ Leave
  <2>1. ServiceInv' /\ DeskTells'
    BY <1>2 DEF Inspected, RunEnded, Replayed, Put, Leave, ServiceInv, Kept, Settled
  <2>2. Alive /\ desk.busy /\ worker.operation = desk.path
    BY <1>2 DEF Inspected, RunEnded, Replayed, Put, Leave, Alive
  <2>3. WorkerTells'
    <3>1. CASE Inspected
      <4> PICK report \in {0, worker.operation} :
            worker' = [worker EXCEPT !.at = "putting", !.report = report]
        BY <3>1 DEF Inspected
      <4> QED BY <3>1, <2>2 DEF Inspected, Alive
    <3>2. CASE RunEnded
      <4>1. service.state = "finished" => service.finalized
        BY DEF ServiceInv, Settled
      <4> QED BY <3>2, <2>2, <4>1 DEF RunEnded, Alive
    <3>3. CASE Replayed
      <4> PICK report \in {0, worker.operation} :
            worker' = [worker EXCEPT
              !.at = "putting", !.report = report,
              !.phase = IF report = 0 /\ @ = "finished" THEN "replay_failed" ELSE @]
        BY <3>3 DEF Replayed
      <4> QED BY <3>3, <2>2 DEF Replayed, Alive
    <3>4. CASE Put
      BY <3>4, <2>2 DEF Put, Alive
    <3>5. CASE Leave
      BY <3>5 DEF Leave, NoThread, Alive
    <3> QED BY <1>2, <3>1, <3>2, <3>3, <3>4, <3>5
  <2>4. ResultTells'
    <3>1. CASE Put
      <4>1. results' = <<worker>> /\ UNCHANGED <<service, desk>>
        BY <3>1 DEF Put
      <4>2. results'[1] = worker
        BY <4>1
      <4>3. RunTells(desk.path, worker.report, worker.phase)
        BY <2>2, <3>1 DEF Put
      <4> QED BY <4>1, <4>2, <4>3, <2>2
    <3>2. CASE Inspected \/ RunEnded \/ Replayed \/ Leave
      BY <3>2 DEF Inspected, RunEnded, Replayed, Leave
    <3> QED BY <1>2, <3>1, <3>2
  <2> QED BY <2>1, <2>3, <2>4
<1> QED BY <1>1, <1>2 DEF Work

\* The window shows what it takes from the queue once the worker is gone.
LEMMA WindowKeepsShown ==
  ASSUME ShownInv,
         Cancel \/ ContinueCancel \/ EndCancel \/ PollLooks \/ PollTakes \/ Close \/ CloseWaits
  PROVE  ShownInv'
<1> USE DEF ShownInv, WorkerTells, ResultTells, DeskTells, RunTells, DeskFields
<1>1. CASE Cancel \/ ContinueCancel
  <2>1. UNCHANGED <<desk, worker, results>>
    BY <1>1 DEF Cancel, BeginCancel, ContinueCancel
  <2>2. UNCHANGED service \/ CancelSets \/ CancelStep(FALSE)
    BY <1>1 DEF Cancel, BeginCancel, ContinueCancel
  <2>3. UNCHANGED service => ShownInv'
    BY <2>1 DEF Alive, ServiceInv, Kept, Settled
  <2> QED BY <2>1, <2>2, <2>3, ServiceKeepsShown
<1>2. CASE EndCancel \/ PollLooks \/ PollTakes \/ Close \/ CloseWaits
  <2>1. UNCHANGED <<service, worker>>
    BY <1>2 DEF EndCancel, PollLooks, PollTakes, Close, CloseWaits
  <2>2. ServiceInv'
    BY <2>1 DEF ServiceInv, Kept, Settled
  <2>3. CASE EndCancel \/ PollLooks \/ Close
    <3>1. UNCHANGED results /\ DOMAIN desk' = DeskFields
      BY <2>3 DEF EndCancel, PollLooks, Close, Closes
    <3>2. desk'.busy = desk.busy /\ desk'.path = desk.path /\ desk'.report = desk.report
      BY <2>3 DEF EndCancel, PollLooks, Close, Closes
    <3>3. desk'.phase = desk.phase \/ desk'.phase \in {"running", "replaying"}
      BY <2>3 DEF EndCancel, PollLooks, Close, Closes
    <3> QED BY <2>1, <2>2, <3>1, <3>2, <3>3 DEF Alive
  <2>4. CASE PollTakes
    <3>1. CASE Alive \/ results = <<>>
      BY <2>1, <2>2, <2>4, <3>1 DEF PollTakes, Alive
    <3>2. CASE ~Alive /\ results # <<>>
      <4>1. results' = <<>>
        BY <2>4, <3>2 DEF PollTakes
      <4>2. DeskTells'
        BY <2>1, <2>4, <3>2 DEF PollTakes
      <4> QED BY <2>1, <2>2, <3>2, <4>1, <4>2 DEF Alive
    <3> QED BY <3>1, <3>2
  <2>5. CASE CloseWaits
    BY <2>1, <2>2, <2>5 DEF CloseWaits, Alive
  <2> QED BY <1>2, <2>3, <2>4, <2>5
<1> QED BY <1>1, <1>2

LEMMA ShownInvHolds == DesktopSpec => []ShownInv
<1>1. service = Ready("none") /\ DesktopInit => ShownInv
  <2> SUFFICES ASSUME service = Ready("none"), DesktopInit PROVE ShownInv
    OBVIOUS
  <2>1. ServiceInv
    BY ReadyIsKept
  <2> QED
    BY <2>1 DEF DesktopInit, ShownInv, WorkerTells, ResultTells, DeskTells, RunTells, NoThread,
                Alive, DeskFields, WorkerFields
<1>2. ShownInv /\ [DesktopNext]_desktop => ShownInv'
  <2> SUFFICES ASSUME ShownInv, [DesktopNext]_desktop PROVE ShownInv'
    OBVIOUS
  <2>1. CASE Inspect \/ StartSession \/ StartFails
    BY <2>1, BeginningsKeepShown
  <2>2. CASE Work
    BY <2>2, WorkKeepsShown
  <2>3. CASE Cancel \/ ContinueCancel \/ EndCancel \/ PollLooks \/ PollTakes \/ Close \/ CloseWaits
    BY <2>3, WindowKeepsShown
  <2>4. CASE UNCHANGED desktop
    BY <2>4 DEF desktop, ShownInv, ServiceInv, Kept, Settled, WorkerTells, ResultTells,
                DeskTells, RunTells, Alive
  <2> QED BY <2>1, <2>2, <2>3, <2>4 DEF DesktopNext
<1> QED BY <1>1, <1>2, PTL DEF DesktopSpec

\* What the window shows as a report was replayed from the directory it shows; while an
\* operation is busy it shows none, and nothing is called finished without one.
THEOREM ReportsAreReplayed == DesktopSpec => []ShownIsReplayed
<1>1. ShownInv => ShownIsReplayed
  BY DEF ShownInv, WorkerTells, DeskTells, RunTells, ShownIsReplayed
<1> QED BY <1>1, ShownInvHolds, PTL

\* From the window no session is left that does not know of a cancellation that has
\* returned, for the lock is held between the publication and its check.
THEOREM CancellationsAreKept == DesktopSpec => []CancellationIsKept
<1>1. ShownInv => CancellationIsKept
  BY ServiceInvSuffices DEF ShownInv
<1> QED BY <1>1, ShownInvHolds, PTL
-----------------------------------------------------------------------------
(***************************************************************************)
(* The batch: StopsReachAuthority.                                         *)
(*                                                                         *)
(* Between the look at a stop and the moment the authority can be reached, *)
(* the lock keeps every stop out but that of a handler.                    *)
(***************************************************************************)
BatchFields ==
  {"mode", "looks", "interrupts", "at", "trial", "stop", "expired", "active", "authority",
   "acted", "whole", "reason", "report", "returned"}

\* An authority that is on its way in, or working, knows of the stop.
Informed(b) ==
  ~b.interrupts \/ b.stop = "deadline" =>
    (b.stop # "none" /\ b.at \in {"publishing", "working"} => b.authority = "cancelled")

BatchInv ==
  /\ DOMAIN batch = BatchFields
  /\ batch.at = "working" => batch.active
  /\ Informed(batch)

\* Where nothing is being installed and nothing works, nothing is asked.
LEMMA ElsewhereIsInformed ==
  ASSUME DOMAIN batch' = BatchFields, batch'.at \notin {"publishing", "working"}
  PROVE  BatchInv'
BY DEF BatchInv, Informed

\* What a stop makes of a record that is a batch's.
LEMMA StoppedByKeeps ==
  ASSUME NEW b, DOMAIN b = BatchFields, NEW reason
  PROVE  /\ DOMAIN StoppedBy(b, reason) = BatchFields
         /\ \A f \in BatchFields \ {"stop", "authority"} : StoppedBy(b, reason)[f] = b[f]
         /\ StoppedBy(b, reason).stop = IF b.stop = "none" THEN reason ELSE b.stop
         /\ StoppedBy(b, reason).authority = IF b.active THEN "cancelled" ELSE b.authority
BY DEF StoppedBy, BatchFields

LEMMA LookedKeeps ==
  ASSUME NEW b, DOMAIN b = BatchFields
  PROVE  /\ DOMAIN Looked(b) = BatchFields
         /\ \A f \in BatchFields \ {"stop", "authority"} : Looked(b)[f] = b[f]
BY StoppedByKeeps DEF Looked, BatchFields

\* The stops: each finds the authority that is active, and none but a handler comes
\* while one is being installed.
LEMMA StopsKeepBatch ==
  ASSUME BatchInv, DeadlinePasses \/ TimerStops \/ CancelBatch
  PROVE  BatchInv'
<1>1. CASE DeadlinePasses
  BY <1>1 DEF BatchInv, Informed, DeadlinePasses, BatchFields
<1>2. CASE TimerStops
  BY <1>2, StoppedByKeeps DEF BatchInv, Informed, TimerStops, Locked, BatchFields
<1>3. CASE CancelBatch
  BY <1>3, StoppedByKeeps DEF BatchInv, Informed, CancelBatch, Locked, BatchFields
<1> QED BY <1>1, <1>2, <1>3

\* Whatever is saved, or is not, goes on to one of two places.
LEMMA SavesGoTo ==
  ASSUME NEW saved, NEW next, NEW failed, Saves(saved, next, failed)
  PROVE  batch' = next \/ batch' = failed
BY DEF Saves

LEMMA EmitGoesTo ==
  ASSUME NEW line, NEW next, NEW failed, EmitLine(line, next, failed)
  PROVE  batch' = next \/ batch' = failed
BY SavesGoTo DEF EmitLine

LEMMA ReportGoesTo ==
  ASSUME NEW name, NEW report, NEW next, NEW failed, SaveReportIn(name, report, next, failed)
  PROVE  batch' = next \/ batch' = failed
BY SavesGoTo DEF SaveReportIn

\* The steps of the batch outside a trial's work.
LEMMA BatchStepsElsewhere ==
  ASSUME BatchInv,
         \/ BeginBatch \/ SaveManifest \/ OpenJournal \/ Choose \/ ReserveTrial
         \/ OpenTrial \/ BuildAuthority \/ AuthorityEnds
         \/ RecordTrial \/ FinishTrial \/ TellTrial \/ Decide \/ CloseBatch
         \/ SaveReport \/ SaveSummary
  PROVE  BatchInv'
<1> USE DEF BatchInv, BatchFields
<1> SUFFICES /\ DOMAIN batch' = BatchFields
             /\ batch'.at \notin {"publishing", "working"}
  BY ElsewhereIsInformed
<1>1. CASE BeginBatch    BY <1>1 DEF BeginBatch, To
<1>2. CASE SaveManifest  BY <1>2, SavesGoTo DEF SaveManifest, To
<1>3. CASE OpenJournal   BY <1>3, SavesGoTo DEF OpenJournal, To
<1>4. CASE Choose
  BY <1>4, LookedKeeps DEF Choose, To
<1>5. CASE ReserveTrial
  <2>1. batch' = Admitted \/ batch' = To("over")
    BY <1>5, EmitGoesTo DEF ReserveTrial
  <2>2. CASE batch' = Admitted
    BY <2>2 DEF Admitted
  <2>3. CASE batch' = To("over")
    BY <2>3 DEF To
  <2> QED BY <2>1, <2>2, <2>3
<1>6. CASE OpenTrial
  <2>1. batch' = To("preparing") \/ batch' = TrialFails
    BY <1>6, SavesGoTo DEF OpenTrial
  <2>2. CASE batch' = To("preparing")
    BY <2>2 DEF To
  <2>3. CASE batch' = TrialFails
    BY <2>3 DEF TrialFails
  <2> QED BY <2>1, <2>2, <2>3
<1>7. CASE BuildAuthority
  BY <1>7, LookedKeeps DEF BuildAuthority, Built, To
<1>8. CASE AuthorityEnds
  <2> PICK whole : batch' = [batch EXCEPT !.at = "recording", !.whole = whole,
                                          !.active = FALSE, !.authority = "none"]
    BY <1>8 DEF AuthorityEnds
  <2> QED OBVIOUS
<1>9. CASE RecordTrial
  <2>1. batch' = To("grading") \/ batch' = TrialFails
    BY <1>9, SavesGoTo DEF RecordTrial
  <2>2. CASE batch' = To("grading")
    BY <2>2 DEF To
  <2>3. CASE batch' = TrialFails
    BY <2>3 DEF TrialFails
  <2> QED BY <2>1, <2>2, <2>3
<1>10. CASE FinishTrial  BY <1>10, EmitGoesTo DEF FinishTrial, To
<1>11. CASE TellTrial    BY <1>11 DEF TellTrial, To
<1>12. CASE Decide
  BY <1>12, LookedKeeps DEF Decide, To
<1>13. CASE CloseBatch   BY <1>13, EmitGoesTo DEF CloseBatch, To
<1>14. CASE SaveReport
  <2>1. batch' = [batch EXCEPT !.at = "summarizing", !.report = Recomputed] \/ batch' = To("over")
    BY <1>14, ReportGoesTo DEF SaveReport
  <2>2. CASE batch' = [batch EXCEPT !.at = "summarizing", !.report = Recomputed]
    BY <2>2
  <2>3. CASE batch' = To("over")
    BY <2>3 DEF To
  <2> QED BY <2>1, <2>2, <2>3
<1>15. CASE SaveSummary
  <2>1. batch' = [batch EXCEPT !.at = "over", !.returned = TRUE] \/ batch' = To("over")
    BY <1>15, ReportGoesTo DEF SaveSummary
  <2>2. CASE batch' = [batch EXCEPT !.at = "over", !.returned = TRUE]
    BY <2>2
  <2>3. CASE batch' = To("over")
    BY <2>3 DEF To
  <2> QED BY <2>1, <2>2, <2>3
<1> QED
  BY <1>1, <1>2, <1>3, <1>4, <1>5, <1>6, <1>7, <1>8, <1>9, <1>10, <1>11, <1>12, <1>13,
     <1>14, <1>15

\* The installation itself, and what the authority does.
LEMMA InstallationKeepsBatch ==
  ASSUME BatchInv, InstallLooks \/ InstallSets \/ Act
  PROVE  BatchInv'
<1> USE DEF BatchInv, Informed, BatchFields
<1>1. CASE InstallLooks
  BY <1>1, LookedKeeps DEF InstallLooks
<1>2. CASE InstallSets
  BY <1>2 DEF InstallSets
<1>3. CASE Act
  BY <1>3 DEF Act
<1> QED BY <1>1, <1>2, <1>3

\* However a batch is stopped, its timer and a cancellation from another thread are
\* known to every authority that works; a handler's signal alone need not be.
THEOREM StopsAreKnown == BatchSpec => []StopsReachAuthority
<1>1. BatchInit => BatchInv
  BY DEF BatchInit, ReadyBatch, BatchInv, Informed, BatchFields
<1>2. BatchInv /\ [BatchNext]_batching => BatchInv'
  <2> SUFFICES ASSUME BatchInv, [BatchNext]_batching PROVE BatchInv'
    OBVIOUS
  <2>1. CASE BatchNext
    BY <2>1, StopsKeepBatch, BatchStepsElsewhere, InstallationKeepsBatch DEF BatchNext
  <2>2. CASE UNCHANGED batching
    BY <2>2 DEF batching, BatchInv, Informed
  <2> QED BY <2>1, <2>2
<1>3. BatchInv => StopsReachAuthority
  BY DEF BatchInv, Informed, StopsReachAuthority, SignalsReachAuthority
<1> QED BY <1>1, <1>2, <1>3, PTL DEF BatchSpec
-----------------------------------------------------------------------------
(***************************************************************************)
(* The batch: BatchIsRecovered.                                            *)
(*                                                                         *)
(* An inspection folds the journal line by line, so what it tells after an *)
(* append is what it told before and one line more.  The runner writes only*)
(* lines the journal accepts where it then is: a trial is started when     *)
(* those before it are finished, graded by what its folder shows, and the  *)
(* end is told once.  A write that fails, or is torn, ends the runner.     *)
(***************************************************************************)
\* What a line of the journal, a folder or an end can say.
Marks ==
  {"none", "absent", "begun", "failed", "passed", "completed", "dry_run", "deadline",
   "cancelled", "trial_failed", "component_failed"}

\* The lines, and what they can have told.
BatchLines == [kind : {"started", "finished", "ended"}, trial : Nat, value : Marks]

BatchHistories == [starts : Nat, finishes : Seq(Marks), end : Marks, broken : BOOLEAN]

\* A line leads from one history to another.
LEMMA ToldIsHistory ==
  ASSUME NEW mode, NEW h \in BatchHistories, NEW e \in BatchLines
  PROVE  Told(mode, h, e) \in BatchHistories
<1>1. CASE h.broken \/ ~Accepts(mode, h, e)
  BY <1>1 DEF Told, BatchHistories
<1>2. CASE ~(h.broken \/ ~Accepts(mode, h, e))
  <2> HIDE DEF Accepts
  <2>1. CASE e.kind = "started"
    BY <1>2, <2>1 DEF Told, BatchHistories, BatchLines
  <2>2. CASE e.kind = "finished"
    <3>1. Append(h.finishes, e.value) \in Seq(Marks)
      BY DEF BatchHistories, BatchLines
    <3> QED BY <1>2, <2>2, <3>1 DEF Told, BatchHistories, BatchLines
  <2>3. CASE e.kind = "ended"
    BY <1>2, <2>3 DEF Told, BatchHistories, BatchLines
  <2> QED BY <2>1, <2>2, <2>3 DEF BatchLines
<1> QED BY <1>1, <1>2

LEMMA UntoldIsHistory == Untold \in BatchHistories
<1>1. <<>> \in Seq(Marks) /\ "none" \in Marks
  BY DEF Marks
<1> QED BY <1>1 DEF Untold, BatchHistories

\* Telling the lines of a journal, as the steps of a fold,
BatchSteps(mode, journal) ==
  [p \in (1 .. Len(journal)) \X BatchHistories |-> Told(mode, p[2], journal[p[1]])]

LEMMA StepsAreSteps ==
  ASSUME NEW mode, NEW journal \in Seq(BatchLines)
  PROVE  BatchSteps(mode, journal) \in [(1 .. Len(journal)) \X BatchHistories -> BatchHistories]
<1>1. \A p \in (1 .. Len(journal)) \X BatchHistories : Told(mode, p[2], journal[p[1]]) \in BatchHistories
  BY ToldIsHistory
<1> QED BY <1>1 DEF BatchSteps

\* and the function that folds them.
BatchSolution(mode, journal) ==
  CHOOSE iter : iter = [s \in SUBSET (1 .. Len(journal)) |->
    IF s = {} THEN Untold ELSE Told(mode, iter[s \ {Top(s)}], journal[Top(s)])]

\* That is what the fold of the community modules chooses,
LEMMA RecountedIsSolution ==
  ASSUME NEW mode, NEW journal \in Seq(BatchLines)
  PROVE  Recounted(mode, journal) = BatchSolution(mode, journal)[1 .. Len(journal)]
<1>1. DOMAIN journal = 1 .. Len(journal)
  OBVIOUS
<1> QED BY <1>1, Zenon DEF Recounted, BatchSolution, FoldLeft, MapThenFoldSet, Max, Top

\* and it does solve its recursion.
LEMMA BatchSolutionIterates ==
  ASSUME NEW mode, NEW journal \in Seq(BatchLines)
  PROVE  Iterates(BatchSolution(mode, journal), Len(journal), BatchHistories, Untold,
                  BatchSteps(mode, journal))
<1> DEFINE n == Len(journal)
           step == BatchSteps(mode, journal)
           Solves1(iter) ==
             iter = [s \in SUBSET (1 .. n) |->
               IF s = {} THEN Untold ELSE Told(mode, iter[s \ {Top(s)}], journal[Top(s)])]
<1>0. n \in Nat
  OBVIOUS
<1>1. step \in [(1 .. n) \X BatchHistories -> BatchHistories]
  BY StepsAreSteps
<1>2. PICK g : Iteration(g, n, BatchHistories, Untold, step)
  <2> HIDE DEF step, n
  <2> QED BY <1>0, <1>1, UntoldIsHistory, IterationExists
<1>3. ASSUME NEW s \in SUBSET (1 .. n), s # {}, NEW h \in BatchHistories
      PROVE  step[<<Top(s), h>>] = Told(mode, h, journal[Top(s)])
  <2>1. Top(s) \in 1 .. n
    <3> HIDE DEF n
    <3> QED BY <1>0, <1>3, TopIn
  <2>2. <<Top(s), h>> \in (1 .. n) \X BatchHistories
    BY <2>1
  <2> QED BY <2>2 DEF BatchSteps
<1>4. Solves1(g)
  <2>1. ASSUME NEW s \in SUBSET (1 .. n)
        PROVE  g[s] = IF s = {} THEN Untold ELSE Told(mode, g[s \ {Top(s)}], journal[Top(s)])
    <3>1. g[s \ {Top(s)}] \in BatchHistories
      BY <1>2 DEF Iteration
    <3>2. g[s] = IF s = {} THEN Untold ELSE step[<<Top(s), g[s \ {Top(s)}]>>]
      BY <1>2 DEF Iteration
    <3> HIDE DEF step
    <3> QED BY <1>3, <3>1, <3>2
  <2> QED BY <1>2, <2>1 DEF Iteration
<1>5. Solves1(BatchSolution(mode, journal))
  <2> QED BY <1>4, Zenon DEF BatchSolution
<1>6. ASSUME NEW s \in SUBSET (1 .. n)
      PROVE  LET iter == BatchSolution(mode, journal) IN
               IF s = {} THEN iter[s] = Untold
               ELSE iter[s \ {Top(s)}] \in BatchHistories =>
                      iter[s] = step[<<Top(s), iter[s \ {Top(s)}]>>]
  <2> DEFINE iter == BatchSolution(mode, journal)
  <2>1. iter[s] = IF s = {} THEN Untold ELSE Told(mode, iter[s \ {Top(s)}], journal[Top(s)])
    <3>1. iter = [t \in SUBSET (1 .. n) |->
                   IF t = {} THEN Untold ELSE Told(mode, iter[t \ {Top(t)}], journal[Top(t)])]
      BY <1>5, Zenon
    <3> HIDE DEF iter, n
    <3> QED BY <3>1
  <2> HIDE DEF iter, step
  <2>2. IF s = {} THEN iter[s] = Untold
        ELSE iter[s \ {Top(s)}] \in BatchHistories =>
               iter[s] = step[<<Top(s), iter[s \ {Top(s)}]>>]
    BY <1>3, <2>1
  <2> QED BY <2>2 DEF iter
<1> QED BY <1>6 DEF Iterates

\* Recounting a journal: nothing is told of an empty one, and a line appended is told
\* after all the others.
LEMMA Recounting ==
  ASSUME NEW mode, NEW journal \in Seq(BatchLines)
  PROVE  /\ Recounted(mode, journal) \in BatchHistories
         /\ journal = <<>> => Recounted(mode, journal) = Untold
         /\ \A e \in BatchLines :
              Recounted(mode, Append(journal, e)) = Told(mode, Recounted(mode, journal), e)
<1> DEFINE Along(j) == [k \in 0 .. Len(j) |-> BatchSolution(mode, j)[1 .. k]]
<1>1. ASSUME NEW j \in Seq(BatchLines)
      PROVE  /\ Trace(Along(j), Len(j), BatchHistories, Untold, BatchSteps(mode, j))
             /\ Recounted(mode, j) = Along(j)[Len(j)]
  <2>1. Trace(Along(j), Len(j), BatchHistories, Untold, BatchSteps(mode, j))
    <3>1. Len(j) \in Nat
      BY <1>1
    <3>2. BatchSteps(mode, j) \in [(1 .. Len(j)) \X BatchHistories -> BatchHistories]
      BY <1>1, StepsAreSteps, Zenon
    <3>3. Iterates(BatchSolution(mode, j), Len(j), BatchHistories, Untold, BatchSteps(mode, j))
      BY <1>1, BatchSolutionIterates, Zenon
    <3> QED BY <3>1, <3>2, <3>3, UntoldIsHistory, IterationTraces, Zenon
  <2>2. Recounted(mode, j) = Along(j)[Len(j)]
    BY RecountedIsSolution
  <2> QED BY <2>1, <2>2
<1> HIDE DEF Along
<1>2. Recounted(mode, journal) \in BatchHistories
  BY <1>1 DEF Trace
<1>3. journal = <<>> => Recounted(mode, journal) = Untold
  <2>1. journal = <<>> => Len(journal) = 0
    OBVIOUS
  <2> QED BY <1>1, <2>1 DEF Trace
<1>4. ASSUME NEW e \in BatchLines
      PROVE  Recounted(mode, Append(journal, e)) = Told(mode, Recounted(mode, journal), e)
  <2> DEFINE longer == Append(journal, e)
             n == Len(journal)
  <2>1. longer \in Seq(BatchLines) /\ Len(longer) = n + 1 /\ n \in Nat /\ longer[n + 1] = e
        /\ \A k \in 1 .. n : longer[k] = journal[k]
    OBVIOUS
  <2> HIDE DEF longer, n
  <2>2. SameSteps(n, BatchHistories, BatchSteps(mode, journal), BatchSteps(mode, longer))
    <3> SUFFICES ASSUME NEW k \in 1 .. n, NEW h \in BatchHistories
                 PROVE  BatchSteps(mode, longer)[<<k, h>>] = BatchSteps(mode, journal)[<<k, h>>]
      BY DEF SameSteps
    <3>1. /\ <<k, h>> \in (1 .. Len(longer)) \X BatchHistories
          /\ <<k, h>> \in (1 .. Len(journal)) \X BatchHistories
      BY <2>1 DEF n
    <3>2. longer[k] = journal[k]
      BY <2>1
    <3> QED BY <3>1, <3>2 DEF BatchSteps
  <2>3. Trace(Along(journal), n, BatchHistories, Untold, BatchSteps(mode, journal))
    BY <1>1 DEF n
  <2>4. Trace(Along(longer), n + 1, BatchHistories, Untold, BatchSteps(mode, longer))
    BY <1>1, <2>1
  <2>5. Along(longer)[n] = Along(journal)[n]
    <3>1. \A k \in 0 .. n : Along(longer)[k] = Along(journal)[k]
      <4>1. n + 1 \in Nat /\ n <= n + 1
        BY <2>1
      <4>2. n \in Nat
        BY <2>1
      <4> QED BY <2>2, <2>3, <2>4, <4>1, <4>2, TracesAgree
    <3> QED BY <2>1, <3>1
  <2>6. Along(longer)[n + 1] = BatchSteps(mode, longer)[<<n + 1, Along(longer)[n]>>]
    <3>1. n + 1 \in 1 .. (n + 1) /\ (n + 1) - 1 = n
      BY <2>1
    <3> QED BY <2>4, <3>1 DEF Trace
  <2>7. BatchSteps(mode, longer)[<<n + 1, Recounted(mode, journal)>>]
          = Told(mode, Recounted(mode, journal), e)
    <3>1. <<n + 1, Recounted(mode, journal)>> \in (1 .. Len(longer)) \X BatchHistories
      BY <1>2, <2>1
    <3> QED BY <2>1, <3>1 DEF BatchSteps
  <2>8. Recounted(mode, journal) = Along(journal)[n] /\ Recounted(mode, longer) = Along(longer)[n + 1]
    BY <1>1, <2>1 DEF n
  <2> QED BY <2>5, <2>6, <2>7, <2>8 DEF longer
<1> QED BY <1>2, <1>3, <1>4

\* Where the runner is: before its loop, in a trial, between two and after the last.
Before == {"idle", "manifest", "opening"}
Inside ==
  {"opening_trial", "preparing", "installing", "publishing", "working", "recording", "grading"}
Between == {"choosing", "reserving", "telling", "deciding"}
Reporting == {"reporting", "summarizing"}
Places == Before \cup Inside \cup Between \cup Reporting \cup {"closing", "over"}

FolderFields == {"manifest", "opened", "journal", "torn", "trials", "json", "md"}

\* The type of the records.
BatchTyped ==
  /\ DOMAIN batch = BatchFields /\ DOMAIN folder = FolderFields
  /\ batch.mode \in {"execute", "dry_run"} /\ batch.at \in Places
  /\ batch.trial \in Nat /\ batch.trial <= TRIALS
  /\ batch.stop \in {"none", "deadline", "cancelled"}
  /\ batch.reason \in Marks \ {"none"} /\ batch.returned \in BOOLEAN
  /\ folder.journal \in Seq(BatchLines) /\ folder.torn \in BOOLEAN
  /\ folder.trials \in [1 .. TRIALS -> Marks]

\* Where the runner is, and what it has come to.
BatchCourse ==
  /\ batch.at \in Before => batch.trial = 0 /\ folder.journal = <<>>
  /\ batch.at \in Inside => batch.trial # 0
  /\ batch.at \in Inside \cup Between => batch.mode = "execute"
  /\ batch.mode = "dry_run" <=> batch.reason = "dry_run"
  /\ batch.at = "reserving" => batch.trial # TRIALS
  /\ batch.at = "closing" /\ batch.reason = "completed" => batch.trial = TRIALS
  /\ batch.at \notin {"idle", "manifest", "over"} => folder.manifest
  /\ batch.at # "over" => ~folder.torn

\* What its journal tells of it.
TellsOf(h) ==
  /\ ~h.broken /\ batch.trial <= h.starts /\ h.starts <= TRIALS
  /\ Len(h.finishes) \in {h.starts - 1, h.starts}
  /\ batch.at \in Before \cup Inside \cup Between \cup {"closing"} => h.end = "none"
  /\ batch.at # "over" => h.starts = batch.trial
  /\ batch.at \in Inside => Len(h.finishes) = h.starts - 1
  /\ batch.at \notin Inside \cup {"over"} => Len(h.finishes) = h.starts
  /\ batch.at \in Reporting => h.end = batch.reason
  /\ h.end = "completed" => batch.trial = TRIALS /\ batch.reason = "completed"
  /\ \A n \in 1 .. Len(h.finishes) : h.finishes[n] = folder.trials[n]
  /\ \A n \in 1 .. TRIALS : n > h.starts => folder.trials[n] = "absent"

\* The reports that are saved whole are what an inspection recomputes; after part of one
\* the runner ends, and does not return.
ReportsSaved ==
  /\ folder.json \in {NoBatchReport, PartialReport, Recomputed}
  /\ folder.json # NoBatchReport => batch.at \in {"summarizing", "over"}
  /\ folder.md \in {NoBatchReport, PartialReport, Recomputed}
  /\ folder.md # NoBatchReport => batch.at = "over" /\ folder.json = Recomputed
  /\ batch.at = "summarizing" => folder.json = Recomputed /\ batch.report = Recomputed
  /\ batch.returned =>
       /\ batch.at = "over" /\ folder.manifest
       /\ folder.json = Recomputed /\ folder.md = Recomputed /\ batch.report = Recomputed

\* What every step keeps.
RecoveredInv == BatchTyped /\ BatchCourse /\ TellsOf(BatchHistory) /\ ReportsSaved

\* What is recounted is a history,
LEMMA HistoryIsTyped ==
  ASSUME BatchTyped
  PROVE  BatchHistory \in BatchHistories
BY Recounting DEF BatchHistory, BatchTyped

\* and what is recomputed of it a report.
LEMMA RecomputedIsReport ==
  Recomputed \notin {NoBatchReport, PartialReport} /\ PartialReport # NoBatchReport
<1>1. Recomputed.status \notin {"none", "partial"}
  BY DEF Recomputed, BatchReport, BatchStatus
<1>2. NoBatchReport.status = "none" /\ PartialReport.status = "partial"
  BY DEF NoBatchReport, PartialReport
<1> QED BY <1>1, <1>2

\* The property follows.
LEMMA RecoveredSuffices ==
  ASSUME RecoveredInv
  PROVE  BatchIsRecovered
<1> DEFINE h == BatchHistory
<1>1. h \in BatchHistories /\ TellsOf(h) /\ BatchTyped /\ ReportsSaved
  BY HistoryIsTyped DEF RecoveredInv
<1> HIDE DEF h
<1>2. BatchIssues(h) \subseteq
        {"evaluation_journal_torn", "evaluation_completion_unknown", "trial_completion_unknown"}
          \cup (IF folder.opened THEN {} ELSE {"evaluation_journal_invalid"})
  <2>1. ~h.broken
    BY <1>1 DEF TellsOf
  <2>2. ~(\E n \in 1 .. TRIALS : n > h.starts /\ folder.trials[n] # "absent")
    BY <1>1 DEF TellsOf
  <2>3. ~(\E n \in DOMAIN h.finishes : h.finishes[n] # folder.trials[n])
    <3>1. DOMAIN h.finishes = 1 .. Len(h.finishes)
      BY <1>1 DEF BatchHistories
    <3> QED BY <1>1, <3>1 DEF TellsOf
  <2> QED BY <2>1, <2>2, <2>3 DEF BatchIssues
<1>3. Recomputed = BatchReport(h, BatchIssues(h)) /\ Recomputed.issues = BatchIssues(h)
  BY DEF Recomputed, BatchReport, h
<1>4. ReportIssues(Recomputed) \subseteq {"aggregate_report_unavailable"}
        \cup (IF folder.md = PartialReport THEN {"aggregate_report_mismatch"} ELSE {})
  BY <1>1 DEF ReportsSaved, ReportIssues
<1>5. InspectedBatch = IF ~folder.manifest THEN NoBatchReport
                       ELSE BatchReport(h, BatchIssues(h) \cup ReportIssues(Recomputed))
  BY <1>3 DEF InspectedBatch, h
<1>6. batch.trial <= h.starts
  BY <1>1 DEF TellsOf
<1>7. ASSUME folder.opened
      PROVE  InspectedBatch.issues \subseteq
               {"evaluation_journal_torn", "evaluation_completion_unknown",
                "trial_completion_unknown", "aggregate_report_unavailable"}
                 \cup (IF folder.md = PartialReport THEN {"aggregate_report_mismatch"} ELSE {})
  BY <1>2, <1>4, <1>5, <1>7 DEF BatchReport, NoBatchReport
<1>8. ASSUME batch.returned
      PROVE  InspectedBatch = batch.report
  <2>1. folder.manifest /\ folder.json = Recomputed /\ folder.md = Recomputed
        /\ batch.report = Recomputed
    BY <1>1, <1>8 DEF ReportsSaved
  <2>2. ReportIssues(Recomputed) = {}
    BY <2>1, RecomputedIsReport DEF ReportIssues
  <2>3. BatchIssues(h) \cup ReportIssues(Recomputed) = BatchIssues(h)
    BY <2>2
  <2> QED BY <1>3, <1>5, <2>1, <2>3
<1>9. ASSUME InspectedBatch.status = "passed"
      PROVE  batch.at = "over" /\ batch.trial = TRIALS /\ batch.reason = "completed"
  <2>1. BatchStatus(h, BatchIssues(h) \cup ReportIssues(Recomputed)) = "passed"
    BY <1>5, <1>9 DEF BatchReport, NoBatchReport
  <2>2. BatchIssues(h) \cup ReportIssues(Recomputed) = {} /\ h.end = "completed"
    BY <2>1 DEF BatchStatus
  <2>3. folder.md # NoBatchReport
    BY <2>2 DEF ReportIssues
  <2> QED BY <1>1, <2>2, <2>3 DEF TellsOf, ReportsSaved
<1>10. folder.json \notin {NoBatchReport, PartialReport} => folder.json = Recomputed
  BY <1>1 DEF ReportsSaved
<1> QED BY <1>6, <1>7, <1>8, <1>9, <1>10 DEF BatchIsRecovered, h

\* The record of a batch that goes on, with the same trials.
GoesOn ==
  /\ DOMAIN batch' = BatchFields /\ batch'.at \in Places
  /\ batch'.mode = batch.mode /\ batch'.trial = batch.trial
  /\ batch'.returned = batch.returned /\ batch'.report = batch.report
  /\ batch'.stop \in {"none", "deadline", "cancelled"}
  /\ batch'.reason \in Marks \ {"none"}
  /\ batch'.mode = "dry_run" <=> batch'.reason = "dry_run"

\* A history is that of its journal,
LEMMA HistoryStays ==
  ASSUME batch'.mode = batch.mode, folder'.journal = folder.journal
  PROVE  BatchHistory' = BatchHistory
BY DEF BatchHistory

\* and a report that of the folder.
LEMMA RecomputedStays ==
  ASSUME BatchHistory' = BatchHistory, folder'.opened = folder.opened,
         folder'.torn = folder.torn, folder'.trials = folder.trials
  PROVE  Recomputed' = Recomputed
BY DEF Recomputed, BatchReport, BatchIssues, BatchStatus, Grades

\* Steps that write nothing.
LEMMA UnwrittenKeeps ==
  ASSUME RecoveredInv, GoesOn, folder' = folder, BatchCourse',
         \/ batch'.at = batch.at /\ batch'.reason = batch.reason
         \/ batch'.at = "over" /\ batch'.reason = batch.reason
         \/ batch.at \in Before /\ batch'.at \in Before
         \/ batch.at \in Inside /\ batch'.at \in Inside
         \/ batch.at \in Between /\ batch'.at \in Between \cup {"closing"}
  PROVE  RecoveredInv'
<1> USE DEF RecoveredInv, GoesOn
<1>1. BatchHistory' = BatchHistory /\ Recomputed' = Recomputed
  BY HistoryStays, RecomputedStays
<1>2. BatchTyped'
  BY DEF BatchTyped
<1>3. TellsOf(BatchHistory)'
  <2> DEFINE h == BatchHistory
  <2>1. TellsOf(h) /\ h' = h /\ BatchTyped
    BY <1>1
  <2> HIDE DEF h
  <2>2. TellsOf(h)'
    BY <2>1 DEF TellsOf, Before, Inside, Between, Reporting, BatchTyped
  <2> QED BY <2>2 DEF h
<1>4. ReportsSaved'
  BY <1>1 DEF ReportsSaved, Before, Inside, Between
<1> QED BY <1>2, <1>3, <1>4

\* The steps that only change the record of the runner.
LEMMA RunnerKeepsRecovery ==
  ASSUME RecoveredInv,
         \/ DeadlinePasses \/ TimerStops \/ CancelBatch \/ BeginBatch \/ Choose
         \/ BuildAuthority \/ InstallLooks \/ InstallSets \/ Act \/ AuthorityEnds
         \/ TellTrial \/ Decide
  PROVE  RecoveredInv'
<1> USE DEF BatchFields, Before, Inside, Between, Reporting, Places
<1>0. /\ BatchTyped /\ BatchCourse /\ DOMAIN batch = BatchFields
      /\ batch.stop \in {"none", "deadline", "cancelled"}
  BY DEF RecoveredInv, BatchTyped
<1>1. CASE DeadlinePasses \/ TimerStops \/ CancelBatch
  <2>1. folder' = folder /\ GoesOn /\ batch'.at = batch.at /\ batch'.reason = batch.reason
    <3>1. CASE DeadlinePasses
      BY <1>0, <3>1 DEF DeadlinePasses, GoesOn, BatchTyped, BatchCourse
    <3>2. CASE TimerStops
      BY <1>0, <3>2, StoppedByKeeps DEF TimerStops, GoesOn, BatchTyped, BatchCourse
    <3>3. CASE CancelBatch
      BY <1>0, <3>3, StoppedByKeeps DEF CancelBatch, GoesOn, BatchTyped, BatchCourse
    <3> QED BY <1>1, <3>1, <3>2, <3>3
  <2>2. BatchCourse'
    BY <1>0, <2>1 DEF BatchCourse, GoesOn
  <2> QED BY <2>1, <2>2, UnwrittenKeeps
<1>2. CASE BeginBatch \/ InstallSets \/ Act \/ AuthorityEnds \/ TellTrial
  <2>1. /\ folder' = folder /\ GoesOn /\ batch'.reason = batch.reason
        /\ \/ batch'.at = "over"
           \/ batch.at = "idle" /\ batch'.at = "manifest"
           \/ batch.at \in Inside /\ batch'.at \in Inside
           \/ batch.at = "telling" /\ batch'.at = "deciding"
    <3>1. CASE BeginBatch
      BY <1>0, <3>1 DEF BeginBatch, To, GoesOn, BatchTyped, BatchCourse
    <3>2. CASE InstallSets
      BY <1>0, <3>2 DEF InstallSets, GoesOn, BatchTyped, BatchCourse
    <3>3. CASE Act
      BY <1>0, <3>3 DEF Act, GoesOn, BatchTyped, BatchCourse
    <3>4. CASE AuthorityEnds
      <4> PICK whole : batch' = [batch EXCEPT !.at = "recording", !.whole = whole,
                                              !.active = FALSE, !.authority = "none"]
        BY <3>4 DEF AuthorityEnds
      <4> QED BY <1>0, <3>4 DEF AuthorityEnds, GoesOn, BatchTyped, BatchCourse
    <3>5. CASE TellTrial
      BY <1>0, <3>5 DEF TellTrial, To, GoesOn, BatchTyped, BatchCourse
    <3> QED BY <1>2, <3>1, <3>2, <3>3, <3>4, <3>5
  <2>2. BatchCourse'
    BY <1>0, <2>1 DEF BatchCourse, GoesOn
  <2> QED BY <2>1, <2>2, UnwrittenKeeps
<1>3. Looked(batch).stop \in {"none", "deadline", "cancelled"}
  BY <1>0, StoppedByKeeps DEF Looked
<1>4. CASE BuildAuthority \/ InstallLooks
  <2>1. /\ folder' = folder /\ GoesOn /\ batch'.reason = batch.reason
        /\ batch.at \in Inside /\ batch'.at \in Inside
    <3>1. CASE BuildAuthority
      <4> DEFINE b == IF batch.looks THEN Looked(batch) ELSE batch
      <4>1. /\ DOMAIN b = BatchFields /\ b.stop \in {"none", "deadline", "cancelled"}
            /\ b.mode = batch.mode /\ b.trial = batch.trial /\ b.returned = batch.returned
            /\ b.report = batch.report /\ b.reason = batch.reason
        BY <1>0, <1>3, LookedKeeps
      <4>2. /\ folder' = folder /\ batch.at = "preparing"
            /\ batch' \in {Built(b), [batch EXCEPT !.at = "recording"]}
        BY <3>1 DEF BuildAuthority, To
      <4> HIDE DEF b
      <4>3. CASE batch' = [batch EXCEPT !.at = "recording"]
        BY <1>0, <4>2, <4>3 DEF GoesOn, BatchTyped, BatchCourse
      <4>4. CASE batch' = [b EXCEPT !.at = "recording"]
                 \/ batch' = [b EXCEPT !.at = "installing", !.authority = "live"]
        <5>1. /\ DOMAIN batch' = BatchFields /\ batch'.at \in {"recording", "installing"}
              /\ \A f \in BatchFields \ {"at", "authority"} : batch'[f] = b[f]
          BY <4>1, <4>4
        <5> QED BY <1>0, <4>1, <4>2, <5>1 DEF GoesOn, BatchTyped, BatchCourse
      <4> QED BY <4>2, <4>3, <4>4 DEF Built
    <3>2. CASE InstallLooks
      BY <1>0, <1>3, <3>2, LookedKeeps DEF InstallLooks, GoesOn, BatchTyped, BatchCourse
    <3> QED BY <1>4, <3>1, <3>2
  <2>2. BatchCourse'
    BY <1>0, <2>1 DEF BatchCourse, GoesOn
  <2> QED BY <2>1, <2>2, UnwrittenKeeps
<1>5. CASE Choose \/ Decide
  <2>1. /\ folder' = folder /\ GoesOn
        /\ batch.at \in {"choosing", "deciding"}
        /\ batch'.at \in {"choosing", "reserving", "closing"}
        /\ batch'.at = "reserving" => batch.trial # TRIALS
        /\ batch'.at = "closing" => batch.trial = TRIALS \/ batch'.reason # "completed"
    <3>1. CASE Choose
      <4> DEFINE b == Looked(batch)
      <4>1. /\ DOMAIN b = BatchFields /\ b.stop \in {"none", "deadline", "cancelled"}
            /\ b.mode = batch.mode /\ b.trial = batch.trial /\ b.returned = batch.returned
            /\ b.report = batch.report /\ b.reason = batch.reason
        BY <1>0, <1>3, LookedKeeps
      <4>2. /\ folder' = folder /\ batch.at = "choosing"
            /\ \/ batch.trial = TRIALS /\ batch' = [batch EXCEPT !.at = "closing"]
               \/ b.stop # "none" /\ batch' = [b EXCEPT !.at = "closing", !.reason = b.stop]
               \/ batch.trial # TRIALS /\ batch' = [b EXCEPT !.at = "reserving"]
        BY <3>1 DEF Choose, To
      <4> HIDE DEF b
      <4>3. batch.mode = "execute" /\ batch.reason # "dry_run" /\ batch.reason \in Marks \ {"none"}
        BY <1>0, <4>2 DEF BatchTyped, BatchCourse
      <4>4. CASE batch.trial = TRIALS /\ batch' = [batch EXCEPT !.at = "closing"]
        BY <1>0, <4>1, <4>2, <4>3, <4>4 DEF GoesOn, Marks
      <4>5. CASE b.stop # "none" /\ batch' = [b EXCEPT !.at = "closing", !.reason = b.stop]
        BY <1>0, <4>1, <4>2, <4>3, <4>5 DEF GoesOn, Marks
      <4>6. CASE batch.trial # TRIALS /\ batch' = [b EXCEPT !.at = "reserving"]
        BY <1>0, <4>1, <4>2, <4>3, <4>6 DEF GoesOn, Marks
      <4> QED BY <4>2, <4>4, <4>5, <4>6
    <3>2. CASE Decide
      <4> DEFINE b == Looked(batch)
      <4>1. /\ DOMAIN b = BatchFields /\ b.stop \in {"none", "deadline", "cancelled"}
            /\ b.mode = batch.mode /\ b.trial = batch.trial /\ b.returned = batch.returned
            /\ b.report = batch.report /\ b.reason = batch.reason
        BY <1>0, <1>3, LookedKeeps
      <4>2. /\ folder' = folder /\ batch.at = "deciding"
            /\ \/ b.stop # "none" /\ batch' = [b EXCEPT !.at = "closing", !.reason = b.stop]
               \/ batch' = [b EXCEPT !.at = "closing",
                                     !.reason = IF @ = "completed" THEN "trial_failed" ELSE @]
               \/ batch' = [b EXCEPT !.at = "choosing"]
        BY <3>2 DEF Decide
      <4> HIDE DEF b
      <4>3. batch.mode = "execute" /\ batch.reason # "dry_run" /\ batch.reason \in Marks \ {"none"}
        BY <1>0, <4>2 DEF BatchTyped, BatchCourse
      <4>4. CASE b.stop # "none" /\ batch' = [b EXCEPT !.at = "closing", !.reason = b.stop]
        BY <1>0, <4>1, <4>2, <4>3, <4>4 DEF GoesOn, Marks
      <4>5. CASE batch' = [b EXCEPT !.at = "closing",
                                    !.reason = IF @ = "completed" THEN "trial_failed" ELSE @]
        BY <1>0, <4>1, <4>2, <4>3, <4>5 DEF GoesOn, Marks
      <4>6. CASE batch' = [b EXCEPT !.at = "choosing"]
        BY <1>0, <4>1, <4>2, <4>3, <4>6 DEF GoesOn, Marks
      <4> QED BY <4>2, <4>4, <4>5, <4>6
    <3> QED BY <1>5, <3>1, <3>2
  <2>2. BatchCourse'
    BY <1>0, <2>1 DEF BatchCourse, GoesOn
  <2> QED BY <2>1, <2>2, UnwrittenKeeps
<1> QED BY <1>1, <1>2, <1>4, <1>5

\* A runner that ends there leaves what there was.
LEMMA EndingKeepsRecovery ==
  ASSUME RecoveredInv, batch' = To("over"), folder' = folder
  PROVE  RecoveredInv'
<1> USE DEF BatchFields, Before, Inside, Between, Reporting, Places
<1>1. GoesOn /\ batch'.at = "over" /\ batch'.reason = batch.reason
  BY DEF RecoveredInv, BatchTyped, BatchCourse, To, GoesOn
<1>2. BatchCourse'
  BY <1>1 DEF RecoveredInv, BatchCourse, GoesOn
<1> QED BY <1>1, <1>2, UnwrittenKeeps

\* What is written before there is a report leaves the history alone.
LEMMA WrittenKeeps ==
  ASSUME RecoveredInv, GoesOn, BatchCourse', batch.at \in Before \cup Inside,
         DOMAIN folder' = FolderFields, folder'.journal = folder.journal,
         folder'.torn = folder.torn, folder'.trials \in [1 .. TRIALS -> Marks],
         folder'.json = folder.json, folder'.md = folder.md,
         \A n \in 1 .. TRIALS : n # batch.trial => folder'.trials[n] = folder.trials[n],
         \/ batch.at \in Before /\ batch'.at \in Before \cup {"choosing", "closing", "over"}
            /\ batch'.reason = batch.reason
         \/ batch.at \in Inside /\ batch'.at \in Inside
  PROVE  RecoveredInv'
<1> USE DEF RecoveredInv, GoesOn
<1>1. BatchHistory' = BatchHistory /\ BatchHistory \in BatchHistories
  BY HistoryStays, HistoryIsTyped
<1>2. BatchTyped'
  BY DEF BatchTyped
<1>3. TellsOf(BatchHistory)'
  <2> DEFINE h == BatchHistory
  <2>1. TellsOf(h) /\ h' = h /\ BatchTyped /\ h \in BatchHistories /\ BatchCourse
    BY <1>1
  <2> HIDE DEF h
  <2>2. h.starts = batch.trial /\ h.starts \in Nat /\ Len(h.finishes) \in Nat
    BY <2>1 DEF TellsOf, BatchHistories, Before, Inside
  <2>3. batch.at \in Before => Len(h.finishes) = 0
    BY <2>1, <2>2 DEF TellsOf, BatchCourse, Before, Inside
  <2>4. batch.at \in Inside => Len(h.finishes) = batch.trial - 1
    BY <2>1, <2>2 DEF TellsOf
  <2>5. \A n \in 1 .. Len(h.finishes) : h.finishes[n] = folder'.trials[n]
    <3> TAKE n \in 1 .. Len(h.finishes)
    <3>1. n \in 1 .. TRIALS /\ n # batch.trial
      BY <2>1, <2>2, <2>3, <2>4, BatchAssumption DEF TellsOf, BatchTyped, Before, Inside
    <3> QED BY <2>1, <3>1 DEF TellsOf
  <2>6. \A n \in 1 .. TRIALS : n > h.starts => folder'.trials[n] = "absent"
    <3> TAKE n \in 1 .. TRIALS
    <3>1. n > h.starts => n # batch.trial
      BY <2>2
    <3> QED BY <2>1, <3>1 DEF TellsOf
  <2>7. TellsOf(h)'
    BY <2>1, <2>2, <2>3, <2>4, <2>5, <2>6 DEF TellsOf, Before, Inside, Between, Reporting, BatchTyped
  <2> QED BY <2>7 DEF h
<1>4. ReportsSaved'
  BY <1>1 DEF ReportsSaved, Before, Inside, Between
<1> QED BY <1>2, <1>3, <1>4

\* The manifest and the journal.
LEMMA OpeningKeepsRecovery ==
  ASSUME RecoveredInv, SaveManifest \/ OpenJournal
  PROVE  RecoveredInv'
<1> USE DEF BatchFields, FolderFields, Before, Inside, Between, Reporting, Places
<1>0. BatchTyped /\ BatchCourse
  BY DEF RecoveredInv
<1>1. CASE SaveManifest
  <2>1. batch.at = "manifest" /\
          \/ folder' = [folder EXCEPT !.manifest = TRUE] /\ batch' \in {To("opening"), To("over")}
          \/ folder' = folder /\ batch' = To("over")
    BY <1>1 DEF SaveManifest, Saves
  <2>2. CASE folder' = folder /\ batch' = To("over")
    BY <2>2, EndingKeepsRecovery
  <2>3. CASE folder' = [folder EXCEPT !.manifest = TRUE] /\ batch' \in {To("opening"), To("over")}
    <3>1. GoesOn /\ batch'.reason = batch.reason /\ batch'.at \in {"opening", "over"}
      BY <1>0, <2>3 DEF To, GoesOn, BatchTyped, BatchCourse
    <3>2. /\ DOMAIN folder' = FolderFields /\ folder'.manifest
          /\ \A f \in FolderFields \ {"manifest"} : folder'[f] = folder[f]
      BY <1>0, <2>3 DEF BatchTyped
    <3>3. BatchCourse'
      BY <1>0, <2>1, <3>1, <3>2 DEF BatchCourse, GoesOn
    <3> QED BY <1>0, <2>1, <3>1, <3>2, <3>3, WrittenKeeps DEF BatchTyped
  <2> QED BY <2>1, <2>2, <2>3
<1>2. CASE OpenJournal
  <2> DEFINE next == To(IF batch.mode = "execute" THEN "choosing" ELSE "closing")
  <2>1. batch.at = "opening" /\
          \/ folder' = [folder EXCEPT !.opened = TRUE] /\ batch' \in {next, To("over")}
          \/ folder' = folder /\ batch' = To("over")
    BY <1>2 DEF OpenJournal, Saves
  <2>2. CASE folder' = folder /\ batch' = To("over")
    BY <2>2, EndingKeepsRecovery
  <2>3. CASE folder' = [folder EXCEPT !.opened = TRUE] /\ batch' \in {next, To("over")}
    <3>1. /\ GoesOn /\ batch'.reason = batch.reason
          /\ batch'.at \in {"choosing", "closing", "over"}
          /\ batch'.at = "choosing" => batch.mode = "execute"
          /\ batch'.at = "closing" => batch.mode = "dry_run"
      BY <1>0, <2>3 DEF To, GoesOn, BatchTyped, BatchCourse
    <3>2. /\ DOMAIN folder' = FolderFields
          /\ \A f \in FolderFields \ {"opened"} : folder'[f] = folder[f]
      BY <1>0, <2>3 DEF BatchTyped
    <3>3. BatchCourse'
      BY <1>0, <2>1, <3>1, <3>2 DEF BatchCourse, GoesOn
    <3> QED BY <1>0, <2>1, <3>1, <3>2, <3>3, WrittenKeeps DEF BatchTyped
  <2> QED BY <2>1, <2>2, <2>3
<1> QED BY <1>1, <1>2

\* The folder of a trial: it is not finished yet, and those before it stay as they are.
LEMMA TrialKeepsRecovery ==
  ASSUME RecoveredInv, OpenTrial \/ RecordTrial
  PROVE  RecoveredInv'
<1> USE DEF BatchFields, FolderFields, Before, Inside, Between, Reporting, Places
<1>0. BatchTyped /\ BatchCourse
  BY DEF RecoveredInv
<1>1. PICK grade \in {"begun", "passed", "failed"} :
        /\ batch.at \in {"opening_trial", "recording"}
        /\ batch' \in {To("preparing"), To("grading"), TrialFails}
        /\ folder' \in {folder, [folder EXCEPT !.trials[batch.trial] = grade]}
  <2>1. CASE OpenTrial
    BY <2>1 DEF OpenTrial, Saves
  <2>2. CASE RecordTrial
    BY <2>2 DEF RecordTrial, Saves
  <2> QED BY <2>1, <2>2
<1>2. GoesOn /\ batch'.at \in Inside /\ batch.at \in Inside
  <2>1. CASE batch' \in {To("preparing"), To("grading")}
    BY <1>0, <1>1, <2>1 DEF To, GoesOn, BatchTyped, BatchCourse
  <2>2. CASE batch' = TrialFails
    BY <1>0, <1>1, <2>2 DEF TrialFails, GoesOn, BatchTyped, BatchCourse, Marks
  <2> QED BY <1>1, <2>1, <2>2
<1>3. CASE folder' = folder
  <2>1. BatchCourse'
    BY <1>0, <1>2, <1>3 DEF BatchCourse, GoesOn
  <2> QED BY <1>2, <1>3, <2>1, UnwrittenKeeps
<1>4. CASE folder' = [folder EXCEPT !.trials[batch.trial] = grade]
  <2>1. /\ DOMAIN folder' = FolderFields
        /\ folder'.journal = folder.journal /\ folder'.torn = folder.torn
        /\ folder'.json = folder.json /\ folder'.md = folder.md
        /\ folder'.manifest = folder.manifest
        /\ folder'.trials = [folder.trials EXCEPT ![batch.trial] = grade]
    BY <1>0, <1>4 DEF BatchTyped
  <2>2. batch.trial \in 1 .. TRIALS /\ grade \in Marks
    BY <1>0, <1>2, BatchAssumption DEF BatchCourse, BatchTyped, Marks
  <2>3. /\ folder'.trials \in [1 .. TRIALS -> Marks]
        /\ \A n \in 1 .. TRIALS : n # batch.trial => folder'.trials[n] = folder.trials[n]
    BY <1>0, <2>1, <2>2 DEF BatchTyped
  <2>4. BatchCourse'
    BY <1>0, <1>2, <2>1 DEF BatchCourse, GoesOn
  <2> QED BY <1>2, <2>1, <2>3, <2>4, WrittenKeeps
<1> QED BY <1>1, <1>3, <1>4

\* A line the journal accepts adds to the history what it tells.
LEMMA LineIsTold ==
  ASSUME RecoveredInv, NEW line \in BatchLines, batch'.mode = batch.mode,
         folder' = [folder EXCEPT !.journal = Append(@, line)]
  PROVE  /\ BatchHistory' = Told(batch.mode, BatchHistory, line)
         /\ BatchHistory \in BatchHistories
         /\ DOMAIN folder' = FolderFields /\ folder'.journal \in Seq(BatchLines)
         /\ \A f \in FolderFields \ {"journal"} : folder'[f] = folder[f]
<1>1. BatchTyped
  BY DEF RecoveredInv
<1>2. folder'.journal = Append(folder.journal, line) /\ folder.journal \in Seq(BatchLines)
  BY <1>1 DEF BatchTyped, FolderFields
<1>3. Recounted(batch.mode, Append(folder.journal, line))
        = Told(batch.mode, Recounted(batch.mode, folder.journal), line)
  BY <1>2, Recounting
<1>4. BatchHistory' = Told(batch.mode, BatchHistory, line)
  BY <1>2, <1>3 DEF BatchHistory
<1>5. folder'.journal \in Seq(BatchLines)
  BY <1>2
<1>6. DOMAIN folder' = FolderFields /\ \A f \in FolderFields \ {"journal"} : folder'[f] = folder[f]
  BY <1>1 DEF BatchTyped, FolderFields
<1> QED BY <1>1, <1>4, <1>5, <1>6, HistoryIsTyped

\* A torn line tells nothing, and the runner ends.
LEMMA TearingKeepsRecovery ==
  ASSUME RecoveredInv, batch.at \in {"reserving", "grading", "closing"},
         batch' = To("over"), folder' = [folder EXCEPT !.torn = TRUE]
  PROVE  RecoveredInv'
<1> USE DEF BatchFields, FolderFields, Before, Inside, Between, Reporting, Places
<1>0. /\ BatchTyped /\ BatchCourse /\ TellsOf(BatchHistory) /\ ReportsSaved
      /\ BatchHistory \in BatchHistories
  BY HistoryIsTyped DEF RecoveredInv
<1>1. GoesOn /\ batch'.at = "over" /\ batch'.reason = batch.reason
  BY <1>0 DEF BatchTyped, BatchCourse, To, GoesOn
<1>2. /\ DOMAIN folder' = FolderFields /\ folder'.torn
      /\ \A f \in FolderFields \ {"torn"} : folder'[f] = folder[f]
  BY <1>0 DEF BatchTyped
<1>3. BatchTyped'
  BY <1>0, <1>1, <1>2 DEF BatchTyped, GoesOn
<1>4. BatchCourse'
  BY <1>0, <1>1, <1>2 DEF BatchCourse, GoesOn
<1>5. TellsOf(BatchHistory)'
  <2> DEFINE h == BatchHistory
  <2>1. TellsOf(h) /\ h' = h
    BY <1>0, <1>1, <1>2, HistoryStays DEF GoesOn
  <2> HIDE DEF h
  <2>2. TellsOf(h)'
    BY <1>1, <1>2, <2>1 DEF TellsOf, GoesOn
  <2> QED BY <2>2 DEF h
<1>6. ReportsSaved'
  BY <1>0, <1>1, <1>2 DEF ReportsSaved, GoesOn
<1> QED BY <1>3, <1>4, <1>5, <1>6 DEF RecoveredInv

\* A reservation is accepted, for every trial before it is finished.
LEMMA ReserveKeepsRecovery ==
  ASSUME RecoveredInv, ReserveTrial
  PROVE  RecoveredInv'
<1> USE DEF BatchFields, FolderFields, Before, Inside, Between, Reporting, Places
<1>0. BatchTyped /\ BatchCourse /\ TellsOf(BatchHistory) /\ ReportsSaved /\ batch.at = "reserving"
  BY DEF RecoveredInv, ReserveTrial
<1>1. CASE folder' = folder /\ batch' = To("over")
  BY <1>1, EndingKeepsRecovery
<1>2. CASE folder' = [folder EXCEPT !.torn = TRUE] /\ batch' = To("over")
  BY <1>0, <1>2, TearingKeepsRecovery
<1>3. CASE /\ folder' = [folder EXCEPT !.journal = Append(@, Started)]
           /\ batch' \in {Admitted, To("over")}
  <2> DEFINE h == BatchHistory
  <2>1. /\ DOMAIN batch' = BatchFields /\ batch'.mode = batch.mode /\ batch'.stop = batch.stop
        /\ batch'.reason = batch.reason /\ batch'.returned = batch.returned
        /\ \/ batch'.at = "opening_trial" /\ batch'.trial = batch.trial + 1
           \/ batch'.at = "over" /\ batch'.trial = batch.trial
    <3>1. CASE batch' = Admitted
      BY <1>0, <3>1 DEF Admitted, BatchTyped
    <3>2. CASE batch' = To("over")
      BY <1>0, <3>2 DEF To, BatchTyped
    <3> QED BY <1>3, <3>1, <3>2
  <2>2. Started \in BatchLines
    BY <1>0 DEF Started, BatchLines, Marks, BatchTyped
  <2>3. /\ h' = Told(batch.mode, h, Started) /\ h \in BatchHistories
        /\ DOMAIN folder' = FolderFields /\ folder'.journal \in Seq(BatchLines)
        /\ \A f \in FolderFields \ {"journal"} : folder'[f] = folder[f]
    BY <1>3, <2>1, <2>2, LineIsTold
  <2> HIDE DEF h
  <2>4. /\ batch.trial < TRIALS /\ batch.mode = "execute" /\ h.starts = batch.trial
        /\ Len(h.finishes) = h.starts /\ h.end = "none" /\ ~h.broken
    BY <1>0, BatchAssumption DEF BatchTyped, BatchCourse, TellsOf, h
  <2>5. Accepts(batch.mode, h, Started)
    BY <2>4 DEF Accepts, Started
  <2>6. h' = [h EXCEPT !.starts = @ + 1]
    BY <2>3, <2>4, <2>5 DEF Told, Started
  <2>7. /\ h'.starts = batch.trial + 1 /\ h'.finishes = h.finishes /\ h'.end = "none" /\ ~h'.broken
    BY <2>3, <2>4, <2>6 DEF BatchHistories
  <2>8. BatchTyped'
    BY <1>0, <2>1, <2>3, <2>4, BatchAssumption DEF BatchTyped
  <2>9. BatchCourse'
    BY <1>0, <2>1, <2>3, <2>4 DEF BatchCourse, BatchTyped
  <2>10. TellsOf(h)'
    <3>1. TellsOf(h)
      BY <1>0 DEF h
    <3>2. h'.starts \in {batch.trial, batch.trial + 1} /\ h'.starts <= TRIALS
          /\ batch'.trial <= h'.starts /\ (batch'.at # "over" => h'.starts = batch'.trial)
          /\ Len(h'.finishes) = h'.starts - 1
      BY <1>0, <2>1, <2>4, <2>7, BatchAssumption DEF BatchTyped
    <3>3. folder'.trials = folder.trials
      BY <2>3
    <3>4. \A n \in 1 .. Len(h'.finishes) : h'.finishes[n] = folder'.trials[n]
      BY <2>7, <3>1, <3>3 DEF TellsOf
    <3>5. \A n \in 1 .. TRIALS : n > h'.starts => folder'.trials[n] = "absent"
      <4> TAKE n \in 1 .. TRIALS
      <4>1. n > h'.starts => n > h.starts
        BY <1>0, <2>4, <2>7 DEF BatchTyped
      <4> QED BY <3>1, <3>3, <4>1 DEF TellsOf
    <3> QED BY <2>1, <2>7, <3>2, <3>4, <3>5 DEF TellsOf
  <2>11. ReportsSaved'
    BY <1>0, <2>1, <2>3 DEF ReportsSaved
  <2> QED BY <2>8, <2>9, <2>10, <2>11 DEF RecoveredInv, h
<1> QED BY <1>1, <1>2, <1>3 DEF ReserveTrial, EmitLine, Saves

\* A grade is accepted, for its trial is the last one started; it is what the folder shows.
LEMMA FinishKeepsRecovery ==
  ASSUME RecoveredInv, FinishTrial
  PROVE  RecoveredInv'
<1> USE DEF BatchFields, FolderFields, Before, Inside, Between, Reporting, Places
<1> DEFINE line == [kind |-> "finished", trial |-> batch.trial, value |-> Grade]
<1>0. BatchTyped /\ BatchCourse /\ TellsOf(BatchHistory) /\ ReportsSaved /\ batch.at = "grading"
  BY DEF RecoveredInv, FinishTrial
<1>1. CASE folder' = folder /\ batch' = To("over")
  BY <1>1, EndingKeepsRecovery
<1>2. CASE folder' = [folder EXCEPT !.torn = TRUE] /\ batch' = To("over")
  BY <1>0, <1>2, TearingKeepsRecovery
<1>3. CASE /\ folder' = [folder EXCEPT !.journal = Append(@, line)]
           /\ batch' \in {To("telling"), To("over")}
  <2> DEFINE h == BatchHistory
  <2>1. /\ DOMAIN batch' = BatchFields /\ batch'.mode = batch.mode /\ batch'.stop = batch.stop
        /\ batch'.reason = batch.reason /\ batch'.returned = batch.returned
        /\ batch'.trial = batch.trial /\ batch'.at \in {"telling", "over"}
    BY <1>0, <1>3 DEF To, BatchTyped
  <2>2. batch.trial \in 1 .. TRIALS /\ Grade \in Marks /\ line \in BatchLines
    <3>1. batch.trial \in 1 .. TRIALS
      BY <1>0, BatchAssumption DEF BatchTyped, BatchCourse
    <3>2. Grade \in Marks
      BY <1>0, <3>1 DEF Grade, BatchTyped
    <3> QED BY <3>1, <3>2 DEF BatchLines
  <2>3. /\ h' = Told(batch.mode, h, line) /\ h \in BatchHistories
        /\ DOMAIN folder' = FolderFields /\ folder'.journal \in Seq(BatchLines)
        /\ \A f \in FolderFields \ {"journal"} : folder'[f] = folder[f]
    BY <1>3, <2>1, <2>2, LineIsTold
  <2> HIDE DEF h
  <2>4. /\ h.starts = batch.trial /\ Len(h.finishes) = h.starts - 1 /\ h.end = "none" /\ ~h.broken
    BY <1>0 DEF TellsOf, h
  <2>5. Accepts(batch.mode, h, line)
    BY <2>2, <2>4 DEF Accepts
  <2>6. h' = [h EXCEPT !.finishes = Append(@, Grade)]
    BY <2>3, <2>4, <2>5 DEF Told
  <2>7. /\ h'.starts = h.starts /\ h'.finishes = Append(h.finishes, Grade)
        /\ h'.end = "none" /\ ~h'.broken
    BY <2>3, <2>4, <2>6 DEF BatchHistories
  <2>8. Len(h'.finishes) = h.starts /\ \A n \in 1 .. h.starts : h'.finishes[n] = folder.trials[n]
    <3>1. /\ h.finishes \in Seq(Marks) /\ Len(h.finishes) = batch.trial - 1
          /\ \A n \in 1 .. Len(h.finishes) : h.finishes[n] = folder.trials[n]
      BY <1>0, <2>3, <2>4 DEF TellsOf, BatchHistories, h
    <3>2. Grade = folder.trials[batch.trial]
      BY DEF Grade
    <3> QED BY <2>2, <2>4, <2>7, <3>1, <3>2
  <2>9. BatchTyped'
    BY <1>0, <2>1, <2>3 DEF BatchTyped
  <2>10. BatchCourse'
    BY <1>0, <2>1, <2>3 DEF BatchCourse
  <2>11. TellsOf(h)'
    <3>1. TellsOf(h)
      BY <1>0 DEF h
    <3>2. /\ h'.starts = batch'.trial /\ h'.starts <= TRIALS
          /\ Len(h'.finishes) = h'.starts /\ folder'.trials = folder.trials
      BY <2>1, <2>3, <2>4, <2>7, <2>8, <3>1 DEF TellsOf
    <3>3. \A n \in 1 .. Len(h'.finishes) : h'.finishes[n] = folder'.trials[n]
      BY <2>4, <2>8, <3>2, <2>7
    <3>4. \A n \in 1 .. TRIALS : n > h'.starts => folder'.trials[n] = "absent"
      BY <2>7, <3>1, <3>2 DEF TellsOf
    <3>5. batch'.trial <= h'.starts
      BY <1>0, <2>1, <2>4, <2>7 DEF BatchTyped
    <3> QED BY <2>1, <2>7, <3>2, <3>3, <3>4, <3>5 DEF TellsOf
  <2>12. ReportsSaved'
    BY <1>0, <2>1, <2>3 DEF ReportsSaved
  <2> QED BY <2>9, <2>10, <2>11, <2>12 DEF RecoveredInv, h
<1> QED BY <1>1, <1>2, <1>3 DEF FinishTrial, EmitLine, Saves

\* The end is accepted: it is the first, and only a whole plan is called completed.
LEMMA CloseKeepsRecovery ==
  ASSUME RecoveredInv, CloseBatch
  PROVE  RecoveredInv'
<1> USE DEF BatchFields, FolderFields, Before, Inside, Between, Reporting, Places
<1> DEFINE line == [kind |-> "ended", trial |-> 0, value |-> batch.reason]
<1>0. BatchTyped /\ BatchCourse /\ TellsOf(BatchHistory) /\ ReportsSaved /\ batch.at = "closing"
  BY DEF RecoveredInv, CloseBatch
<1>1. CASE folder' = folder /\ batch' = To("over")
  BY <1>1, EndingKeepsRecovery
<1>2. CASE folder' = [folder EXCEPT !.torn = TRUE] /\ batch' = To("over")
  BY <1>0, <1>2, TearingKeepsRecovery
<1>3. CASE /\ folder' = [folder EXCEPT !.journal = Append(@, line)]
           /\ batch' \in {To("reporting"), To("over")}
  <2> DEFINE h == BatchHistory
  <2>1. /\ DOMAIN batch' = BatchFields /\ batch'.mode = batch.mode /\ batch'.stop = batch.stop
        /\ batch'.reason = batch.reason /\ batch'.returned = batch.returned
        /\ batch'.trial = batch.trial /\ batch'.at \in {"reporting", "over"}
    BY <1>0, <1>3 DEF To, BatchTyped
  <2>2. line \in BatchLines
    BY <1>0 DEF BatchTyped, BatchLines
  <2>3. /\ h' = Told(batch.mode, h, line) /\ h \in BatchHistories
        /\ DOMAIN folder' = FolderFields /\ folder'.journal \in Seq(BatchLines)
        /\ \A f \in FolderFields \ {"journal"} : folder'[f] = folder[f]
    BY <1>3, <2>1, <2>2, LineIsTold
  <2> HIDE DEF h
  <2>4. /\ h.starts = batch.trial /\ Len(h.finishes) = h.starts /\ h.end = "none" /\ ~h.broken
        /\ batch.reason = "completed" => batch.trial = TRIALS
        /\ batch.reason = "dry_run" <=> batch.mode = "dry_run"
    BY <1>0 DEF TellsOf, BatchCourse, h
  <2>5. Accepts(batch.mode, h, line)
    BY <2>4 DEF Accepts
  <2>6. h' = [h EXCEPT !.end = batch.reason]
    BY <2>3, <2>4, <2>5 DEF Told
  <2>7. /\ h'.starts = h.starts /\ h'.finishes = h.finishes
        /\ h'.end = batch.reason /\ ~h'.broken
    BY <2>3, <2>4, <2>6 DEF BatchHistories
  <2>8. BatchTyped'
    BY <1>0, <2>1, <2>3 DEF BatchTyped
  <2>9. BatchCourse'
    BY <1>0, <2>1, <2>3 DEF BatchCourse
  <2>10. TellsOf(h)'
    <3>1. TellsOf(h)
      BY <1>0 DEF h
    <3> QED BY <1>0, <2>1, <2>3, <2>4, <2>7, <3>1 DEF TellsOf, BatchTyped
  <2>11. ReportsSaved'
    BY <1>0, <2>1, <2>3 DEF ReportsSaved
  <2> QED BY <2>8, <2>9, <2>10, <2>11 DEF RecoveredInv, h
<1> QED BY <1>1, <1>2, <1>3 DEF CloseBatch, EmitLine, Saves

\* The reports: nothing they are computed from changes any more.
LEMMA ReportKeepsRecovery ==
  ASSUME RecoveredInv, SaveReport \/ SaveSummary
  PROVE  RecoveredInv'
<1> USE DEF BatchFields, FolderFields, Before, Inside, Between, Reporting, Places
<1>0. BatchTyped /\ BatchCourse /\ TellsOf(BatchHistory) /\ ReportsSaved
  BY DEF RecoveredInv
<1>1. CASE folder' = folder /\ batch' = To("over")
  BY <1>1, EndingKeepsRecovery
<1>2. CASE ~(folder' = folder /\ batch' = To("over"))
  <2> DEFINE h == BatchHistory
             R == Recomputed
             reported == [batch EXCEPT !.at = "summarizing", !.report = Recomputed]
             returning == [batch EXCEPT !.at = "over", !.returned = TRUE]
  <2>0. batch.at = "summarizing" => batch.report = R
    BY <1>0 DEF ReportsSaved
  <2>1. PICK saved \in {R, PartialReport} :
          \/ /\ batch.at = "reporting" /\ folder' = [folder EXCEPT !.json = saved]
             /\ batch' = To("over") \/ (saved = R /\ batch' = reported)
          \/ /\ batch.at = "summarizing" /\ folder' = [folder EXCEPT !.md = saved]
             /\ batch' = To("over") \/ (saved = R /\ batch' = returning)
    <3>1. CASE SaveReport
      <4>1. batch.at = "reporting" /\ SaveReportIn("json", R, reported, To("over"))
        BY <3>1 DEF SaveReport
      <4> HIDE DEF R, reported
      <4>2. \/ Saves([folder EXCEPT !["json"] = R], reported, To("over"))
            \/ folder' = [folder EXCEPT !["json"] = PartialReport] /\ batch' = To("over")
        BY <4>1, Zenon DEF SaveReportIn
      <4>3. \/ folder' = [folder EXCEPT !["json"] = R] /\ (batch' = reported \/ batch' = To("over"))
            \/ folder' = [folder EXCEPT !["json"] = PartialReport] /\ batch' = To("over")
        BY <1>2, <4>2, Zenon DEF Saves
      <4> QED BY <4>1, <4>3
    <3>2. CASE SaveSummary
      <4>1. batch.at = "summarizing" /\ SaveReportIn("md", R, returning, To("over"))
        BY <2>0, <3>2 DEF SaveSummary
      <4> HIDE DEF R, returning
      <4>2. \/ Saves([folder EXCEPT !["md"] = R], returning, To("over"))
            \/ folder' = [folder EXCEPT !["md"] = PartialReport] /\ batch' = To("over")
        BY <4>1, Zenon DEF SaveReportIn
      <4>3. \/ folder' = [folder EXCEPT !["md"] = R] /\ (batch' = returning \/ batch' = To("over"))
            \/ folder' = [folder EXCEPT !["md"] = PartialReport] /\ batch' = To("over")
        BY <1>2, <4>2, Zenon DEF Saves
      <4> QED BY <4>1, <4>3
    <3> QED BY <3>1, <3>2
  <2>2. /\ DOMAIN folder' = FolderFields
        /\ \A f \in FolderFields \ {"json", "md"} : folder'[f] = folder[f]
        /\ batch.at = "reporting" => folder'.json = saved /\ folder'.md = folder.md
        /\ batch.at = "summarizing" => folder'.json = folder.json /\ folder'.md = saved
    <3> HIDE DEF R
    <3> QED BY <1>0, <2>1 DEF BatchTyped
  <2>3. /\ DOMAIN batch' = BatchFields
        /\ \A f \in BatchFields \ {"at", "report", "returned"} : batch'[f] = batch[f]
        /\ \/ batch.at = "reporting" /\ batch'.at = "summarizing" /\ batch'.report = R
              /\ batch'.returned = batch.returned
              /\ saved = R
           \/ batch'.at = "over" /\ batch'.returned = batch.returned
           \/ batch.at = "summarizing" /\ batch'.at = "over" /\ batch'.report = R
              /\ batch'.returned = TRUE /\ saved = R
    <3> HIDE DEF R
    <3>1. CASE batch' = reported
      <4>1. batch'.at = "summarizing" /\ batch'.report = R
            /\ \A f \in BatchFields \ {"at", "report"} : batch'[f] = batch[f]
            /\ DOMAIN batch' = BatchFields
        BY <1>0, <3>1 DEF BatchTyped, R
      <4>2. batch.at = "reporting" /\ saved = R
        <5>1. batch' # returning /\ batch' # To("over")
          <6>1. returning.at = "over" /\ To("over").at = "over"
            BY <1>0 DEF BatchTyped, To
          <6> QED BY <4>1, <6>1
        <5> QED BY <2>1, <5>1
      <4> QED BY <4>1, <4>2
    <3>2. CASE batch' = To("over")
      BY <1>0, <3>2 DEF BatchTyped, To
    <3>3. CASE batch' = returning /\ batch.at = "summarizing" /\ saved = R
      BY <1>0, <2>0, <3>3 DEF BatchTyped
    <3> QED BY <2>1, <3>1, <3>2, <3>3
  <2>4. h' = h /\ R' = R
    BY <2>2, <2>3, HistoryStays, RecomputedStays
  <2> HIDE DEF h, R
  <2>5. BatchTyped' /\ BatchCourse'
    <3>1. BatchTyped'
      <4>1. batch'.at \in Places /\ batch'.returned \in BOOLEAN
        BY <1>0, <2>3 DEF BatchTyped
      <4>2. /\ batch'.mode = batch.mode /\ batch'.trial = batch.trial /\ batch'.stop = batch.stop
            /\ batch'.reason = batch.reason /\ DOMAIN batch' = BatchFields
        BY <2>3
      <4>3. /\ folder'.journal = folder.journal /\ folder'.torn = folder.torn
            /\ folder'.trials = folder.trials /\ DOMAIN folder' = FolderFields
        BY <2>2
      <4> QED BY <1>0, <4>1, <4>2, <4>3 DEF BatchTyped
    <3>2. BatchCourse'
      BY <1>0, <2>1, <2>2, <2>3 DEF BatchCourse
    <3> QED BY <3>1, <3>2
  <2>6. TellsOf(h)'
    <3>1. TellsOf(h)
      BY <1>0 DEF h
    <3> QED BY <2>1, <2>2, <2>3, <2>4, <3>1 DEF TellsOf
  <2>7. ReportsSaved'
    <3>1. /\ folder.json \in {NoBatchReport, PartialReport, R}
          /\ folder.md \in {NoBatchReport, PartialReport, R}
          /\ folder.md # NoBatchReport => batch.at = "over"
          /\ batch.at = "summarizing" => folder.json = R
          /\ batch.returned => batch.at = "over"
          /\ folder.manifest /\ batch.at \in {"reporting", "summarizing"}
      BY <1>0, <2>1 DEF ReportsSaved, BatchCourse, R
    <3>2. /\ folder'.json \in {NoBatchReport, PartialReport, R'}
          /\ folder'.json # NoBatchReport => batch'.at \in {"summarizing", "over"}
          /\ folder'.md \in {NoBatchReport, PartialReport, R'}
          /\ folder'.md # NoBatchReport => batch'.at = "over" /\ folder'.json = R'
      BY <2>1, <2>2, <2>3, <2>4, <3>1
    <3>3. /\ batch'.at = "summarizing" => folder'.json = R' /\ batch'.report = R'
          /\ batch'.returned => /\ batch'.at = "over" /\ folder'.manifest
                                /\ folder'.json = R' /\ folder'.md = R' /\ batch'.report = R'
      BY <2>1, <2>2, <2>3, <2>4, <3>1
    <3> QED BY <3>2, <3>3 DEF ReportsSaved, R
  <2> QED BY <2>5, <2>6, <2>7 DEF RecoveredInv, h
<1> QED BY <1>1, <1>2

\* Whatever fails and wherever the process dies, an inspection of the folder accepts every
\* line and every grade the runner saved, and every report but a report.md whose write was
\* cut short; it knows every trial the runner went on to, recomputes a report.json that is
\* whole and the report that was returned, and calls a batch passed only when its whole
\* plan was run.
THEOREM BatchesAreRecovered == BatchSpec => []BatchIsRecovered
<1>1. BatchInit => RecoveredInv
  <2> SUFFICES ASSUME BatchInit PROVE RecoveredInv
    OBVIOUS
  <2> USE DEF BatchFields, FolderFields, Before, Inside, Between, Reporting, Places
  <2>1. PICK mode \in {"execute", "dry_run"}, looks \in BOOLEAN, interrupts \in BOOLEAN :
          batch = ReadyBatch(mode, looks, interrupts)
    BY DEF BatchInit
  <2>2. folder = EmptyFolder
    BY DEF BatchInit
  <2>3. BatchTyped
    <3>1. <<>> \in Seq(BatchLines) /\ "absent" \in Marks
      BY DEF Marks
    <3> QED BY <2>1, <2>2, <3>1, BatchAssumption DEF ReadyBatch, EmptyFolder, BatchTyped, Marks
  <2>4. BatchCourse
    BY <2>1, <2>2 DEF ReadyBatch, EmptyFolder, BatchCourse
  <2>5. BatchHistory = Untold
    <3>1. folder.journal = <<>> /\ folder.journal \in Seq(BatchLines)
      BY <2>2, <2>3 DEF EmptyFolder, BatchTyped
    <3> QED BY <3>1, Recounting DEF BatchHistory
  <2>6. TellsOf(BatchHistory)
    BY <2>1, <2>2, <2>5, BatchAssumption DEF ReadyBatch, EmptyFolder, TellsOf, Untold
  <2>7. ReportsSaved
    BY <2>1, <2>2 DEF ReadyBatch, EmptyFolder, ReportsSaved
  <2> QED BY <2>3, <2>4, <2>6, <2>7 DEF RecoveredInv
<1>2. RecoveredInv /\ [BatchNext]_batching => RecoveredInv'
  <2> SUFFICES ASSUME RecoveredInv, [BatchNext]_batching PROVE RecoveredInv'
    OBVIOUS
  <2>1. CASE BatchNext
    BY <2>1, RunnerKeepsRecovery, OpeningKeepsRecovery, TrialKeepsRecovery,
       ReserveKeepsRecovery, FinishKeepsRecovery, CloseKeepsRecovery, ReportKeepsRecovery
    DEF BatchNext
  <2>2. CASE UNCHANGED batching
    <3>1. GoesOn /\ BatchCourse' /\ folder' = folder /\ batch'.at = batch.at /\ batch'.reason = batch.reason
      BY <2>2 DEF batching, GoesOn, RecoveredInv, BatchTyped, BatchCourse
    <3> QED BY <3>1, UnwrittenKeeps
  <2> QED BY <2>1, <2>2
<1>3. RecoveredInv => BatchIsRecovered
  BY RecoveredSuffices
<1> QED BY <1>1, <1>2, <1>3, PTL DEF BatchSpec
-----------------------------------------------------------------------------
(***************************************************************************)
(* The broker: AttemptsAreAccounted.                                       *)
(*                                                                         *)
(* Only the last attempt can be under way, and the place of the call says  *)
(* what the trail still lacks of it: its reservation, or its ending.  All  *)
(* attempts before it have both, unless the audit has failed for good.     *)
(***************************************************************************)
BrokerFields ==
  {"calls", "bytes", "control", "failed", "holder", "at", "with", "size", "outcome", "turns"}

AuditEvents == [kind : {"rejected", "reserved"} \cup ENDINGS, number : Nat]

\* The attempt whose ending, and the one whose reservation, is not yet due on the trail.
OpenCalls == IF broker.at \in {"reserving", "entering", "exchanging", "ending"} THEN {broker.calls} ELSE {}

Unrecorded == IF broker.at = "reserving" THEN {broker.calls} ELSE {}

Attempts == 1 .. broker.calls

Counted ==
  /\ DOMAIN broker = BrokerFields
  /\ broker.calls \in Nat /\ broker.calls <= MaxCalls
  /\ broker.bytes \in Nat /\ broker.bytes <= MaxBytes
  /\ broker.size \in Nat
  /\ broker.holder = {} <=> broker.at = "free"
  /\ broker.failed => broker.at = "free"
  /\ broker.at \in {"reserving", "entering", "exchanging", "ending", "returning"} =>
       broker.calls # 0
  /\ broker.at = "ending" => broker.outcome \in ENDINGS

EndsOnce ==
  \A i, j \in DOMAIN trail :
    trail[i].kind \in ENDINGS /\ trail[j].kind \in ENDINGS /\ trail[i].number = trail[j].number
      => i = j

OnTrail ==
  /\ trail \in Seq(AuditEvents)
  /\ EndsOnce
  /\ Numbers({"reserved"}) \subseteq Attempts
  /\ Numbers(ENDINGS) \subseteq Attempts \ OpenCalls
  /\ ~broker.failed => Attempts \ Unrecorded \subseteq Numbers({"reserved"})
  /\ ~broker.failed => Attempts \ OpenCalls \subseteq Numbers(ENDINGS)

HasEntered ==
  \/ broker.at \in {"exchanging", "returning"}
  \/ broker.at = "ending" /\ broker.outcome = "succeeded"

Delivered ==
  /\ entered \subseteq Numbers({"reserved"})
  /\ HasEntered => broker.calls \in entered
  /\ broker.at = "returning" => broker.calls \in Numbers({"succeeded"})
  /\ returned \subseteq entered \cap Numbers({"succeeded"})

BrokerInv == Counted /\ OnTrail /\ Delivered

\* What an event adds to the trail.
LEMMA TrailGrows ==
  ASSUME trail \in Seq(AuditEvents),
         NEW kind \in {"rejected", "reserved"} \cup ENDINGS, NEW number \in Nat,
         trail' = Append(trail, AuditEvent(kind, number))
  PROVE  /\ trail' \in Seq(AuditEvents)
         /\ Len(trail') = Len(trail) + 1
         /\ \A k \in DOMAIN trail : k \in DOMAIN trail' /\ trail'[k] = trail[k]
         /\ DOMAIN trail' = DOMAIN trail \cup {Len(trail) + 1}
         /\ trail'[Len(trail) + 1] = AuditEvent(kind, number)
<1>1. AuditEvent(kind, number) \in AuditEvents
  BY DEF AuditEvent, AuditEvents
<1> QED BY <1>1

LEMMA NumbersGrow ==
  ASSUME trail \in Seq(AuditEvents), NEW kinds,
         NEW kind \in {"rejected", "reserved"} \cup ENDINGS, NEW number \in Nat,
         trail' = Append(trail, AuditEvent(kind, number))
  PROVE  Numbers(kinds)' = Numbers(kinds) \cup (IF kind \in kinds THEN {number} ELSE {})
<1>1. /\ \A k \in DOMAIN trail : k \in DOMAIN trail' /\ trail'[k] = trail[k]
      /\ DOMAIN trail' = DOMAIN trail \cup {Len(trail) + 1}
      /\ trail'[Len(trail) + 1] = [kind |-> kind, number |-> number]
  BY TrailGrows DEF AuditEvent
<1> QED BY <1>1 DEF Numbers

\* An ending that has no number on the trail yet leaves the endings distinct.
LEMMA EndsOnceGrows ==
  ASSUME trail \in Seq(AuditEvents), EndsOnce,
         NEW kind \in {"rejected", "reserved"} \cup ENDINGS, NEW number \in Nat,
         trail' = Append(trail, AuditEvent(kind, number)),
         kind \in ENDINGS => number \notin Numbers(ENDINGS)
  PROVE  EndsOnce'
<1>1. /\ \A k \in DOMAIN trail : trail'[k] = trail[k]
      /\ DOMAIN trail' = DOMAIN trail \cup {Len(trail) + 1}
      /\ trail'[Len(trail) + 1] = [kind |-> kind, number |-> number]
  BY TrailGrows DEF AuditEvent
<1>2. \A k \in DOMAIN trail : trail[k].kind \in ENDINGS => trail[k].number \in Numbers(ENDINGS)
  BY DEF Numbers
<1> QED BY <1>1, <1>2 DEF EndsOnce

\* A step that records nothing keeps the trail, if it leaves no attempt without its due.
LEMMA TrailStays ==
  ASSUME BrokerInv, UNCHANGED <<trail, entered, returned>>, Counted',
         broker'.calls = broker.calls,
         OpenCalls' \subseteq OpenCalls,
         broker'.failed \/ (~broker.failed /\ OpenCalls' = OpenCalls /\ Unrecorded' = Unrecorded),
         HasEntered' => broker.calls \in entered,
         broker'.at = "returning" => broker.at = "returning"
  PROVE  BrokerInv'
<1>1. \A kinds : Numbers(kinds)' = Numbers(kinds)
  BY DEF BrokerInv, Numbers
<1>2. EndsOnce'
  BY DEF BrokerInv, OnTrail, EndsOnce
<1>3. OnTrail'
  BY <1>1, <1>2 DEF BrokerInv, OnTrail, Attempts
<1>4. Delivered'
  BY <1>1 DEF BrokerInv, Delivered
<1> QED BY <1>3, <1>4 DEF BrokerInv

\* What is freed, and what an audit that failed leaves.
LEMMA FreedCounts ==
  ASSUME Counted, NEW failed \in BOOLEAN,
         broker' = [Free(broker) EXCEPT !.failed = failed] \/ broker' = Free(broker)
  PROVE  /\ Counted'
         /\ broker'.at = "free"
         /\ broker'.calls = broker.calls
         /\ OpenCalls' = {} /\ Unrecorded' = {} /\ ~HasEntered'
<1>1. DOMAIN broker' = BrokerFields /\ broker'.at = "free" /\ broker'.holder = {}
  BY DEF Counted, Free, BrokerFields
<1>2. broker'.calls = broker.calls /\ broker'.bytes = broker.bytes /\ broker'.size = 0
  BY DEF Counted, Free, BrokerFields
<1> QED BY <1>1, <1>2 DEF Counted, OpenCalls, Unrecorded, HasEntered

\* The audit fails: nothing is recorded, and the call is over.
LEMMA AuditFails ==
  ASSUME BrokerInv, broker' = [Free(broker) EXCEPT !.failed = TRUE],
         UNCHANGED <<trail, entered, returned>>
  PROVE  BrokerInv'
<1>1. broker'.failed
  BY DEF BrokerInv, Counted, Free, BrokerFields
<1> QED BY <1>1, FreedCounts, TrailStays DEF BrokerInv

\* The steps of a call before it has reserved anything, and those of a control.
LEMMA ChecksKeepBroker ==
  ASSUME BrokerInv,
         \/ \E caller \in Callers, control \in Controls, size \in RequestSizes :
              Acquire(caller, control, size)
         \/ Bind \/ CheckStops \/ ControlStops
  PROVE  BrokerInv'
<1> USE DEF BrokerInv
<1>1. ASSUME NEW caller \in Callers, NEW control \in Controls, NEW size \in RequestSizes,
             Acquire(caller, control, size)
      PROVE  BrokerInv'
  <2>1. size \in Nat
    BY BrokerAssumption
  <2>2. CASE broker' = TurnedAway
    BY <1>1, <2>2, TrailStays
       DEF Acquire, TurnedAway, Counted, BrokerFields, OpenCalls, Unrecorded, HasEntered, Delivered
  <2>3. CASE ~(broker.holder # {} \/ broker.failed)
    <3>1. broker' = [TurnedAway EXCEPT !.holder = {caller}, !.at = "checking",
                                       !.with = {control}, !.size = size]
      BY <1>1, <2>3 DEF Acquire
    <3>2. Counted' /\ broker'.calls = broker.calls /\ broker'.at = "checking" /\ ~broker'.failed
      BY <2>1, <2>3, <3>1 DEF TurnedAway, Counted, BrokerFields
    <3>3. broker.at = "free"
      BY <2>3 DEF Counted
    <3> QED BY <1>1, <2>3, <3>2, <3>3, TrailStays DEF Acquire, OpenCalls, Unrecorded, HasEntered
  <2> QED BY <1>1, <2>2, <2>3 DEF Acquire
<1>2. CASE Bind
  BY <1>2, TrailStays DEF Bind, Counted, BrokerFields, OpenCalls, Unrecorded, HasEntered
<1>3. CASE CheckStops
  <2>1. broker' = Free(broker) /\ broker.at \in {"checking", "checked"}
    BY <1>3 DEF CheckStops
  <2>2. OpenCalls = {} /\ Unrecorded = {} /\ ~broker.failed /\ ~broker'.failed
    BY <2>1 DEF OpenCalls, Unrecorded, Counted, Free, BrokerFields
  <2> QED BY <1>3, <2>1, <2>2, FreedCounts, TrailStays DEF CheckStops
<1>4. CASE ControlStops
  <2>1. UNCHANGED <<broker, trail, entered, returned>>
    BY <1>4 DEF ControlStops
  <2> QED BY <2>1 DEF Counted, OnTrail, EndsOnce, Numbers, Attempts, OpenCalls, Unrecorded,
                      Delivered, HasEntered
<1> QED BY <1>1, <1>2, <1>3, <1>4

\* A rejection is no attempt.
LEMMA RejectKeepsBroker ==
  ASSUME BrokerInv, Reject
  PROVE  BrokerInv'
<1> USE DEF BrokerInv
<1>1. broker.at \in {"checking", "checked"} /\ ~broker.failed /\ OpenCalls = {} /\ Unrecorded = {}
  BY DEF Reject, OpenCalls, Unrecorded, Counted
<1>2. CASE trail' = Append(trail, AuditEvent("rejected", 0)) /\ broker' = Free(broker)
  <2>1. /\ Counted' /\ broker'.at = "free" /\ broker'.calls = broker.calls
        /\ OpenCalls' = {} /\ Unrecorded' = {} /\ ~HasEntered'
    BY <1>2, FreedCounts
  <2>2. /\ Numbers({"reserved"})' = Numbers({"reserved"})
        /\ Numbers(ENDINGS)' = Numbers(ENDINGS)
        /\ Numbers({"succeeded"})' = Numbers({"succeeded"})
    <3>1. trail \in Seq(AuditEvents) /\ 0 \in Nat
      BY DEF OnTrail
    <3>2. \A kinds : Numbers(kinds)' = Numbers(kinds) \cup (IF "rejected" \in kinds THEN {0} ELSE {})
      BY <1>2, <3>1, NumbersGrow
    <3> QED BY <3>2 DEF ENDINGS
  <2>3. trail' \in Seq(AuditEvents) /\ EndsOnce'
    BY <1>2, TrailGrows, EndsOnceGrows DEF OnTrail, ENDINGS
  <2>4. OnTrail'
    BY <1>1, <2>1, <2>2, <2>3 DEF OnTrail, Attempts
  <2>5. Delivered'
    BY <2>1, <2>2 DEF Delivered, Reject
  <2> QED BY <2>1, <2>4, <2>5
<1>3. CASE UNCHANGED trail /\ broker' = [Free(broker) EXCEPT !.failed = TRUE]
  BY <1>3, AuditFails DEF Reject
<1> QED BY <1>2, <1>3 DEF Reject, Emits, EmitsOr

\* The counters move by one attempt, which nothing is yet due for.
LEMMA ReserveKeepsBroker ==
  ASSUME BrokerInv, Reserve
  PROVE  BrokerInv'
<1> USE DEF BrokerInv
<1>1. /\ broker.at = "checked" /\ ~broker.failed /\ WithinBudgets
      /\ OpenCalls = {} /\ UNCHANGED <<trail, entered, returned>>
  BY DEF Reserve, OpenCalls, Counted
<1>2. /\ Counted' /\ broker'.at = "reserving" /\ broker'.calls = broker.calls + 1
      /\ broker'.failed = broker.failed
  <2>1. MaxCalls \in Nat /\ MaxBytes \in Nat
    BY BrokerAssumption
  <2> QED BY <1>1, <2>1 DEF Reserve, WithinBudgets, Counted, BrokerFields
<1>3. OpenCalls' = {broker.calls + 1} /\ Unrecorded' = {broker.calls + 1} /\ ~HasEntered'
  BY <1>2 DEF OpenCalls, Unrecorded, HasEntered
<1>4. /\ Attempts \subseteq Attempts' \ {broker.calls + 1}
      /\ Attempts' \ {broker.calls + 1} \subseteq Attempts
  BY <1>2 DEF Attempts, Counted
<1>5. Unrecorded = {}
  BY <1>1 DEF Unrecorded
<1>6. \A kinds : Numbers(kinds)' = Numbers(kinds)
  BY <1>1 DEF Numbers
<1>7. trail' \in Seq(AuditEvents) /\ EndsOnce'
  BY <1>1 DEF OnTrail, EndsOnce
<1>8. OnTrail'
  BY <1>1, <1>2, <1>3, <1>4, <1>5, <1>6, <1>7 DEF OnTrail
<1>9. Delivered'
  BY <1>1, <1>2, <1>3, <1>6 DEF Delivered
<1> QED BY <1>2, <1>8, <1>9

\* The reservation is on the trail before the transport.
LEMMA RecordReservationKeepsBroker ==
  ASSUME BrokerInv, RecordReservation
  PROVE  BrokerInv'
<1> USE DEF BrokerInv
<1>1. /\ broker.at = "reserving" /\ ~broker.failed /\ UNCHANGED <<entered, returned>>
      /\ broker.calls \in Nat /\ broker.calls \in Attempts
      /\ OpenCalls = {broker.calls} /\ Unrecorded = {broker.calls}
  BY DEF RecordReservation, OpenCalls, Unrecorded, Counted, Attempts
<1>2. CASE /\ trail' = Append(trail, AuditEvent("reserved", broker.calls))
           /\ broker' = [broker EXCEPT !.at = "entering"]
  <2>1. /\ Counted' /\ broker'.at = "entering" /\ broker'.calls = broker.calls
        /\ broker'.failed = broker.failed
    BY <1>1, <1>2 DEF Counted, BrokerFields
  <2>2. /\ OpenCalls' = {broker.calls} /\ Unrecorded' = {} /\ ~HasEntered' /\ Attempts' = Attempts
    BY <2>1 DEF OpenCalls, Unrecorded, HasEntered, Attempts
  <2>3. /\ Numbers({"reserved"})' = Numbers({"reserved"}) \cup {broker.calls}
        /\ Numbers(ENDINGS)' = Numbers(ENDINGS)
        /\ Numbers({"succeeded"})' = Numbers({"succeeded"})
    <3>1. trail \in Seq(AuditEvents) /\ broker.calls \in Nat
      BY <1>1 DEF OnTrail
    <3>2. \A kinds : Numbers(kinds)' = Numbers(kinds) \cup (IF "reserved" \in kinds THEN {broker.calls} ELSE {})
      BY <1>2, <3>1, NumbersGrow
    <3> QED BY <3>2 DEF ENDINGS
  <2>4. trail' \in Seq(AuditEvents) /\ EndsOnce'
    BY <1>1, <1>2, TrailGrows, EndsOnceGrows DEF OnTrail, ENDINGS
  <2>5. OnTrail'
    BY <1>1, <2>1, <2>2, <2>3, <2>4 DEF OnTrail
  <2>6. Delivered'
    BY <1>1, <2>1, <2>2, <2>3 DEF Delivered
  <2> QED BY <2>1, <2>5, <2>6
<1>3. CASE UNCHANGED trail /\ broker' = [Free(broker) EXCEPT !.failed = TRUE]
  BY <1>1, <1>3, AuditFails
<1> QED BY <1>2, <1>3 DEF RecordReservation, Emits, EmitsOr

\* The transport is entered for the reservation that is on the trail.
LEMMA TransportKeepsBroker ==
  ASSUME BrokerInv, Enter \/ Exchanged
  PROVE  BrokerInv'
<1> USE DEF BrokerInv
<1>1. /\ broker.at \in {"entering", "exchanging"} /\ ~broker.failed /\ UNCHANGED <<trail, returned>>
      /\ broker.calls \in Attempts /\ OpenCalls = {broker.calls} /\ Unrecorded = {}
  BY DEF Enter, Exchanged, OpenCalls, Unrecorded, Counted, Attempts
<1>2. broker.calls \in Numbers({"reserved"})
  BY <1>1 DEF OnTrail
<1>3. \/ Goes("exchanging") /\ entered' = entered \cup {broker.calls}
      \/ broker.at = "exchanging" /\ Concludes("succeeded") /\ UNCHANGED entered
      \/ Concludes("stopped") /\ UNCHANGED entered
      \/ Concludes("failed") /\ UNCHANGED entered
  BY DEF Enter, Exchanged
<1>4. /\ Counted' /\ broker'.calls = broker.calls /\ broker'.failed = broker.failed
      /\ broker'.at \in {"exchanging", "ending"}
      /\ HasEntered' => broker.calls \in entered'
      /\ entered \subseteq entered' /\ entered' \subseteq entered \cup {broker.calls}
  <2>1. CASE Goes("exchanging") /\ entered' = entered \cup {broker.calls}
    BY <1>1, <2>1 DEF Goes, Counted, BrokerFields
  <2>2. CASE broker.at = "exchanging" /\ Concludes("succeeded") /\ UNCHANGED entered
    BY <1>1, <2>2 DEF Concludes, Counted, BrokerFields, Delivered, HasEntered, ENDINGS
  <2>3. CASE Concludes("stopped") /\ UNCHANGED entered
    BY <1>1, <2>3 DEF Concludes, Counted, BrokerFields, HasEntered, ENDINGS
  <2>4. CASE Concludes("failed") /\ UNCHANGED entered
    BY <1>1, <2>4 DEF Concludes, Counted, BrokerFields, HasEntered, ENDINGS
  <2> QED BY <1>3, <2>1, <2>2, <2>3, <2>4
<1>5. OpenCalls' = {broker.calls} /\ Unrecorded' = {} /\ Attempts' = Attempts
  BY <1>4 DEF OpenCalls, Unrecorded, Attempts
<1>6. \A kinds : Numbers(kinds)' = Numbers(kinds)
  BY <1>1 DEF Numbers
<1>7. trail' \in Seq(AuditEvents) /\ EndsOnce'
  BY <1>1 DEF OnTrail, EndsOnce
<1>8. OnTrail'
  BY <1>1, <1>4, <1>5, <1>6, <1>7 DEF OnTrail
<1>9. Delivered'
  BY <1>1, <1>2, <1>4, <1>6 DEF Delivered
<1> QED BY <1>4, <1>8, <1>9

\* The one ending of the last attempt.
LEMMA RecordEndKeepsBroker ==
  ASSUME BrokerInv, RecordEnd
  PROVE  BrokerInv'
<1> USE DEF BrokerInv
<1>1. /\ broker.at = "ending" /\ ~broker.failed /\ UNCHANGED <<entered, returned>>
      /\ broker.calls \in Nat /\ broker.calls \in Attempts /\ broker.outcome \in ENDINGS
      /\ OpenCalls = {broker.calls} /\ Unrecorded = {}
  BY DEF RecordEnd, OpenCalls, Unrecorded, Counted, Attempts
<1>2. CASE /\ trail' = Append(trail, AuditEvent(broker.outcome, broker.calls))
           /\ broker' = IF broker.outcome = "succeeded"
                        THEN [broker EXCEPT !.at = "returning"] ELSE Free(broker)
  <2>1. /\ Counted' /\ broker'.calls = broker.calls /\ ~broker'.failed
        /\ OpenCalls' = {} /\ Unrecorded' = {}
        /\ broker'.at = "returning" => broker.outcome = "succeeded"
        /\ HasEntered' => broker.calls \in entered
    <3>1. CASE broker.outcome = "succeeded"
      <4>1. /\ Counted' /\ broker'.at = "returning" /\ broker'.calls = broker.calls
            /\ ~broker'.failed
        BY <1>1, <1>2, <3>1 DEF Counted, BrokerFields
      <4> QED BY <1>1, <3>1, <4>1 DEF OpenCalls, Unrecorded, HasEntered, Delivered
    <3>2. CASE broker.outcome # "succeeded"
      <4>1. broker' = Free(broker)
        BY <1>2, <3>2
      <4>2. ~broker'.failed
        BY <1>1, <4>1 DEF Free, Counted, BrokerFields
      <4> QED BY <4>1, <4>2, FreedCounts
    <3> QED BY <3>1, <3>2
  <2>2. \A kinds : Numbers(kinds)' =
          Numbers(kinds) \cup (IF broker.outcome \in kinds THEN {broker.calls} ELSE {})
    <3>1. trail \in Seq(AuditEvents)
      BY DEF OnTrail
    <3> QED BY <1>1, <1>2, <3>1, NumbersGrow
  <2>3. /\ Numbers({"reserved"})' = Numbers({"reserved"})
        /\ Numbers(ENDINGS)' = Numbers(ENDINGS) \cup {broker.calls}
        /\ Numbers({"succeeded"}) \subseteq Numbers({"succeeded"})'
        /\ broker.outcome = "succeeded" => broker.calls \in Numbers({"succeeded"})'
    BY <1>1, <2>2 DEF ENDINGS
  <2>4. trail' \in Seq(AuditEvents) /\ EndsOnce'
    <3>1. broker.calls \notin Numbers(ENDINGS)
      BY <1>1 DEF OnTrail
    <3> QED BY <1>1, <1>2, <3>1, TrailGrows, EndsOnceGrows DEF OnTrail
  <2>5. OnTrail'
    <3>1. Attempts' = Attempts
      BY <2>1 DEF Attempts
    <3> QED BY <1>1, <2>1, <2>3, <2>4, <3>1 DEF OnTrail
  <2>6. Delivered'
    BY <1>1, <2>1, <2>3 DEF Delivered
  <2> QED BY <2>1, <2>5, <2>6
<1>3. CASE UNCHANGED trail /\ broker' = [Free(broker) EXCEPT !.failed = TRUE]
  BY <1>1, <1>3, AuditFails
<1> QED BY <1>2, <1>3 DEF RecordEnd, Emits, EmitsOr

\* A body is given for the success that is on the trail.
LEMMA ReturnKeepsBroker ==
  ASSUME BrokerInv, ReturnBody
  PROVE  BrokerInv'
<1> USE DEF BrokerInv
<1>1. /\ broker.at = "returning" /\ ~broker.failed /\ broker' = Free(broker)
      /\ UNCHANGED <<trail, entered>> /\ returned' \subseteq returned \cup {broker.calls}
      /\ OpenCalls = {} /\ Unrecorded = {}
  BY DEF ReturnBody, OpenCalls, Unrecorded, Counted
<1>2. /\ Counted' /\ broker'.at = "free" /\ broker'.calls = broker.calls
      /\ OpenCalls' = {} /\ Unrecorded' = {} /\ ~HasEntered' /\ Attempts' = Attempts
  BY <1>1, FreedCounts DEF Attempts
<1>3. \A kinds : Numbers(kinds)' = Numbers(kinds)
  BY <1>1 DEF Numbers
<1>4. trail' \in Seq(AuditEvents) /\ EndsOnce'
  BY <1>1 DEF OnTrail, EndsOnce
<1>5. OnTrail'
  BY <1>1, <1>2, <1>3, <1>4 DEF OnTrail
<1>6. Delivered'
  BY <1>1, <1>2, <1>3 DEF Delivered, HasEntered
<1> QED BY <1>2, <1>5, <1>6

\* A number has one ending where it is on the trail as ended, and none elsewhere.
LEMMA EndingsCounted ==
  ASSUME EndsOnce, NEW n
  PROVE  /\ Endings(n) \in Nat /\ Endings(n) <= 1
         /\ n \in Numbers(ENDINGS) => Endings(n) = 1
<1> DEFINE ends == {k \in DOMAIN trail : trail[k].kind \in ENDINGS /\ trail[k].number = n}
<1>1. Endings(n) = Cardinality(ends)
  BY DEF Endings
<1>2. CASE ends = {}
  <2>1. n \notin Numbers(ENDINGS)
    BY <1>2 DEF Numbers
  <2> QED BY <1>1, <1>2, <2>1, FS_EmptySet
<1>3. ASSUME NEW k \in ends PROVE ends = {k}
  BY DEF EndsOnce
<1>4. CASE ends # {}
  <2>1. PICK k \in ends : ends = {k}
    BY <1>3, <1>4
  <2>2. Cardinality(ends) = 1
    <3> HIDE DEF ends
    <3> QED BY <2>1, FS_Singleton
  <2> QED BY <1>1, <2>2
<1> QED BY <1>2, <1>4

\* However the calls contend, stop and fail: the transport is entered only for what is
\* on the trail as reserved, no attempt has two endings and none that is over lacks its
\* one unless the audit failed, a body is given only for a recorded success, and what
\* was counted stays counted, within the budgets.
THEOREM AttemptsAreKept == BrokerSpec => []AttemptsAreAccounted
<1>1. BrokerInit => BrokerInv
  <2> SUFFICES ASSUME BrokerInit PROVE BrokerInv
    OBVIOUS
  <2>1. Counted /\ OpenCalls = {} /\ ~HasEntered
    <3> MaxCalls \in Nat /\ MaxBytes \in Nat
      BY BrokerAssumption
    <3> QED BY DEF BrokerInit, Counted, BrokerFields, OpenCalls, HasEntered
  <2>2. \A kinds : Numbers(kinds) = {}
    BY DEF BrokerInit, Numbers
  <2>3. OnTrail
    BY <2>1, <2>2 DEF BrokerInit, OnTrail, EndsOnce, Attempts
  <2>4. Delivered
    BY <2>1 DEF BrokerInit, Delivered
  <2> QED BY <2>1, <2>3, <2>4 DEF BrokerInv
<1>2. BrokerInv /\ [BrokerNext]_brokerage => BrokerInv'
  <2> SUFFICES ASSUME BrokerInv, [BrokerNext]_brokerage PROVE BrokerInv'
    OBVIOUS
  <2>1. CASE BrokerNext
    BY <2>1, ChecksKeepBroker, RejectKeepsBroker, ReserveKeepsBroker,
       RecordReservationKeepsBroker, TransportKeepsBroker, RecordEndKeepsBroker,
       ReturnKeepsBroker
       DEF BrokerNext
  <2>2. CASE UNCHANGED brokerage
    BY <2>2 DEF brokerage, BrokerInv, Counted, OnTrail, EndsOnce, Numbers, Attempts, OpenCalls,
                Unrecorded, Delivered, HasEntered
  <2> QED BY <2>1, <2>2
<1>3. BrokerInv => AttemptsAreAccounted
  <2> SUFFICES ASSUME BrokerInv PROVE AttemptsAreAccounted
    OBVIOUS
  <2> USE DEF BrokerInv
  <2>1. ASSUME NEW n \in 1 .. broker.calls
        PROVE  /\ Endings(n) <= 1
               /\ broker.holder = {} /\ ~broker.failed =>
                    n \in Numbers({"reserved"}) /\ Endings(n) = 1
    <3>1. EndsOnce
      BY DEF OnTrail
    <3>2. broker.holder = {} /\ ~broker.failed =>
            n \in Numbers({"reserved"}) /\ n \in Numbers(ENDINGS)
      BY DEF Counted, OnTrail, Attempts, OpenCalls, Unrecorded
    <3> QED BY <3>1, <3>2, EndingsCounted
  <2>2. /\ broker.calls <= MaxCalls /\ broker.bytes <= MaxBytes
        /\ Numbers({"reserved"}) \subseteq 1 .. broker.calls
    BY DEF Counted, OnTrail, Attempts
  <2> QED BY <2>1, <2>2 DEF Delivered, AttemptsAreAccounted
<1> QED BY <1>1, <1>2, <1>3, PTL DEF BrokerSpec
-----------------------------------------------------------------------------
(***************************************************************************)
(* The engagement records: AnswersAreTrue.                                 *)
(*                                                                         *)
(* What a caller was told rests on a history that is only ever appended to *)
(* and that always replays to the tables.  The replay is a fold over the   *)
(* events, whose length has no bound: its value follows a trace of plays,  *)
(* and appending an event adds one play to the trace.                      *)
(***************************************************************************)
\* The questions, the rows of the table of events and what they come to.
Questions ==
  [event : EventIds, operation : {"create", "revise", "revoke", "lookup"},
   expected_revision : Nat, expected_generation : Nat, roe : Declared \cup {NoRoe}]

Rows ==
  [event : EventIds, operation : {"create", "revise", "revoke", "lookup"},
   expected_revision : Nat, expected_generation : Nat, revision : Nat, generation : Nat,
   status : {"recorded", "revoked"}, request : Questions]

Plays ==
  [valid : BOOLEAN, seen : SUBSET EventIds, revision : Nat, generation : Nat,
   status : {"recorded", "revoked"}]

\* An event leads from one outcome to another.
LEMMA PlayedIsPlay ==
  ASSUME NEW e, NEW s \in Plays, NEW row \in Rows
  PROVE  Played(e, s, row) \in Plays
<1>1. Agrees(e, s, row) \in BOOLEAN
  BY DEF Agrees
<1> HIDE DEF Agrees
<1> QED BY <1>1 DEF Played, Plays, Rows

LEMMA UnplayedIsPlay == Unplayed \in Plays
BY DEF Unplayed, Plays

\* Playing events under the revisions of e, as the steps of a fold,
PlaySteps(e, rows) ==
  [p \in (1 .. Len(rows)) \X Plays |-> Played(e, p[2], rows[p[1]])]

LEMMA PlayStepsAreSteps ==
  ASSUME NEW e, NEW rows \in Seq(Rows)
  PROVE  PlaySteps(e, rows) \in [(1 .. Len(rows)) \X Plays -> Plays]
<1>1. \A p \in (1 .. Len(rows)) \X Plays : Played(e, p[2], rows[p[1]]) \in Plays
  BY PlayedIsPlay
<1> QED BY <1>1 DEF PlaySteps

\* and the function that folds them.
PlaySolution(e, rows) ==
  CHOOSE iter : iter = [s \in SUBSET (1 .. Len(rows)) |->
    IF s = {} THEN Unplayed ELSE Played(e, iter[s \ {Top(s)}], rows[Top(s)])]

\* That is what the fold of the community modules chooses,
LEMMA ReplayIsSolution ==
  ASSUME NEW e, NEW rows \in Seq(Rows)
  PROVE  ReplayOf(e, rows) = PlaySolution(e, rows)[1 .. Len(rows)]
<1>1. DOMAIN rows = 1 .. Len(rows)
  OBVIOUS
<1> QED BY <1>1, Zenon DEF ReplayOf, PlaySolution, FoldLeft, MapThenFoldSet, Max, Top

\* and it does solve its recursion.
LEMMA PlaySolutionIterates ==
  ASSUME NEW e, NEW rows \in Seq(Rows)
  PROVE  Iterates(PlaySolution(e, rows), Len(rows), Plays, Unplayed, PlaySteps(e, rows))
<1> DEFINE n == Len(rows)
           step == PlaySteps(e, rows)
           Solving(iter) ==
             iter = [s \in SUBSET (1 .. n) |->
               IF s = {} THEN Unplayed ELSE Played(e, iter[s \ {Top(s)}], rows[Top(s)])]
<1>0. n \in Nat
  OBVIOUS
<1>1. step \in [(1 .. n) \X Plays -> Plays]
  BY PlayStepsAreSteps
<1>2. PICK g : Iteration(g, n, Plays, Unplayed, step)
  <2> HIDE DEF step, n
  <2> QED BY <1>0, <1>1, UnplayedIsPlay, IterationExists
<1>3. ASSUME NEW s \in SUBSET (1 .. n), s # {}, NEW h \in Plays
      PROVE  step[<<Top(s), h>>] = Played(e, h, rows[Top(s)])
  <2>1. Top(s) \in 1 .. n
    <3> HIDE DEF n
    <3> QED BY <1>0, <1>3, TopIn
  <2>2. <<Top(s), h>> \in (1 .. n) \X Plays
    BY <2>1
  <2> QED BY <2>2 DEF PlaySteps
<1>4. Solving(g)
  <2>1. ASSUME NEW s \in SUBSET (1 .. n)
        PROVE  g[s] = IF s = {} THEN Unplayed ELSE Played(e, g[s \ {Top(s)}], rows[Top(s)])
    <3>1. g[s \ {Top(s)}] \in Plays
      BY <1>2 DEF Iteration
    <3>2. g[s] = IF s = {} THEN Unplayed ELSE step[<<Top(s), g[s \ {Top(s)}]>>]
      BY <1>2 DEF Iteration
    <3> HIDE DEF step
    <3> QED BY <1>3, <3>1, <3>2
  <2> QED BY <1>2, <2>1 DEF Iteration
<1>5. Solving(PlaySolution(e, rows))
  BY <1>4, Zenon DEF PlaySolution
<1>6. ASSUME NEW s \in SUBSET (1 .. n)
      PROVE  LET iter == PlaySolution(e, rows) IN
               IF s = {} THEN iter[s] = Unplayed
               ELSE iter[s \ {Top(s)}] \in Plays =>
                      iter[s] = step[<<Top(s), iter[s \ {Top(s)}]>>]
  <2> DEFINE iter == PlaySolution(e, rows)
  <2>1. iter[s] = IF s = {} THEN Unplayed ELSE Played(e, iter[s \ {Top(s)}], rows[Top(s)])
    <3>1. iter = [t \in SUBSET (1 .. n) |->
                   IF t = {} THEN Unplayed ELSE Played(e, iter[t \ {Top(t)}], rows[Top(t)])]
      BY <1>5, Zenon
    <3> HIDE DEF iter, n
    <3> QED BY <3>1
  <2> HIDE DEF iter, step
  <2>2. IF s = {} THEN iter[s] = Unplayed
        ELSE iter[s \ {Top(s)}] \in Plays =>
               iter[s] = step[<<Top(s), iter[s \ {Top(s)}]>>]
    BY <1>3, <2>1
  <2> QED BY <2>2 DEF iter
<1> QED BY <1>6 DEF Iterates

\* Where the first events are, and how far they have come.
PlayTrace(e, rows) == [k \in 0 .. Len(rows) |-> PlaySolution(e, rows)[1 .. k]]

LEMMA ReplayTraces ==
  ASSUME NEW e, NEW rows \in Seq(Rows)
  PROVE  /\ Len(rows) \in Nat
         /\ Trace(PlayTrace(e, rows), Len(rows), Plays, Unplayed, PlaySteps(e, rows))
         /\ ReplayOf(e, rows) = PlayTrace(e, rows)[Len(rows)]
<1>1. Len(rows) \in Nat
  OBVIOUS
<1>2. PlaySteps(e, rows) \in [(1 .. Len(rows)) \X Plays -> Plays]
  BY PlayStepsAreSteps, Zenon
<1>3. Iterates(PlaySolution(e, rows), Len(rows), Plays, Unplayed, PlaySteps(e, rows))
  BY PlaySolutionIterates, Zenon
<1>4. Trace(PlayTrace(e, rows), Len(rows), Plays, Unplayed, PlaySteps(e, rows))
  BY <1>1, <1>2, <1>3, UnplayedIsPlay, IterationTraces, Zenon DEF PlayTrace
<1>5. ReplayOf(e, rows) = PlayTrace(e, rows)[Len(rows)]
  BY <1>1, ReplayIsSolution DEF PlayTrace
<1> QED BY <1>1, <1>4, <1>5

\* Rows that two histories begin with come to the same under either's revisions, if each
\* agrees with either alike.
LEMMA ReplayGrows ==
  ASSUME NEW e, NEW f, NEW rows \in Seq(Rows), NEW row \in Rows,
         \A n \in 1 .. Len(rows) : \A s \in Plays : Agrees(f, s, rows[n]) = Agrees(e, s, rows[n])
  PROVE  ReplayOf(f, Append(rows, row)) = Played(f, ReplayOf(e, rows), row)
<1> DEFINE longer == Append(rows, row)
           n == Len(rows)
<1>1. longer \in Seq(Rows) /\ Len(longer) = n + 1 /\ n \in Nat /\ longer[n + 1] = row
      /\ \A k \in 1 .. n : longer[k] = rows[k]
  OBVIOUS
<1> HIDE DEF longer, n
<1>2. SameSteps(n, Plays, PlaySteps(e, rows), PlaySteps(f, longer))
  <2> SUFFICES ASSUME NEW k \in 1 .. n, NEW s \in Plays
               PROVE  PlaySteps(f, longer)[<<k, s>>] = PlaySteps(e, rows)[<<k, s>>]
    BY DEF SameSteps
  <2>1. <<k, s>> \in (1 .. Len(longer)) \X Plays /\ <<k, s>> \in (1 .. Len(rows)) \X Plays
    BY <1>1 DEF n
  <2>2. longer[k] = rows[k] /\ Agrees(f, s, rows[k]) = Agrees(e, s, rows[k])
    BY <1>1 DEF n
  <2> QED BY <2>1, <2>2 DEF PlaySteps, Played
<1>3. Trace(PlayTrace(e, rows), n, Plays, Unplayed, PlaySteps(e, rows))
  BY ReplayTraces DEF n
<1>4. Trace(PlayTrace(f, longer), n + 1, Plays, Unplayed, PlaySteps(f, longer))
  BY <1>1, ReplayTraces
<1>5. PlayTrace(f, longer)[n] = PlayTrace(e, rows)[n]
  <2>1. \A k \in 0 .. n : PlayTrace(f, longer)[k] = PlayTrace(e, rows)[k]
    <3>1. n + 1 \in Nat /\ n <= n + 1 /\ n \in Nat
      BY <1>1
    <3> QED BY <1>2, <1>3, <1>4, <3>1, TracesAgree
  <2> QED BY <1>1, <2>1
<1>6. PlayTrace(f, longer)[n + 1] = PlaySteps(f, longer)[<<n + 1, PlayTrace(f, longer)[n]>>]
  <2>1. n + 1 \in 1 .. (n + 1) /\ (n + 1) - 1 = n
    BY <1>1
  <2> QED BY <1>4, <2>1 DEF Trace
<1>7. PlayTrace(e, rows)[n] \in Plays
  BY <1>1, <1>3 DEF Trace
<1>8. PlaySteps(f, longer)[<<n + 1, PlayTrace(e, rows)[n]>>] = Played(f, PlayTrace(e, rows)[n], row)
  <2>1. <<n + 1, PlayTrace(e, rows)[n]>> \in (1 .. Len(longer)) \X Plays
    BY <1>1, <1>7
  <2> QED BY <1>1, <2>1 DEF PlaySteps
<1>9. ReplayOf(e, rows) = PlayTrace(e, rows)[n] /\ ReplayOf(f, longer) = PlayTrace(f, longer)[n + 1]
  BY <1>1, ReplayTraces DEF n
<1> QED BY <1>5, <1>6, <1>8, <1>9 DEF longer

\* Nothing comes of no events.
LEMMA ReplayBegins ==
  ASSUME NEW e
  PROVE  ReplayOf(e, <<>>) = Unplayed
<1>1. <<>> \in Seq(Rows) /\ Len(<<>>) = 0
  OBVIOUS
<1> QED BY <1>1, ReplayTraces DEF Trace

\* The tables of an honest history.
Sound(e) ==
  /\ DOMAIN e = {"revision", "generation", "status", "revisions", "events"}
  /\ e.revision \in 1 .. MAX_REVISIONS /\ e.generation \in Nat
  /\ e.status \in {"recorded", "revoked"}
  /\ e.revisions \in Seq(Declared) /\ Len(e.revisions) = e.revision
  /\ e.events \in Seq(Rows) /\ Len(e.events) = e.generation + 1
  /\ e.generation = e.revision - (IF e.status = "revoked" THEN 0 ELSE 1)
  /\ \A n \in 1 .. Len(e.events) :
       /\ e.events[n].revision \in 1 .. e.revision
       /\ e.events[n].request = Rebuilt(e, e.events[n])
  /\ \A n, m \in 1 .. Len(e.events) : e.events[n].event = e.events[m].event => n = m
  /\ Replay(e) = [valid |-> TRUE, seen |-> {e.events[n].event : n \in 1 .. Len(e.events)},
                  revision |-> e.revision, generation |-> e.generation, status |-> e.status]

LEMMA SoundIsValid ==
  ASSUME NEW e, Sound(e)
  PROVE  ValidExport(e)
<1>1. /\ Replay(e).valid /\ Replay(e).revision = e.revision
      /\ Replay(e).generation = e.generation /\ Replay(e).status = e.status
  BY DEF Sound
<1>2. Len(e.events) <= MAX_REVISIONS + 1 /\ Len(e.revisions) = e.revision
  BY EngagementAssumption DEF Sound
<1> QED BY <1>1, <1>2 DEF ValidExport

\* Where no event bears the identifier and the state is as expected, the tables after a
\* request are those of an honest history again.
LEMMA RecordingIsSound ==
  ASSUME Sound(engagement), NEW request \in Amendments, Bearing(request.event) = {},
         Accepted(request)
  PROVE  /\ Sound(After(request))
         /\ Len(After(request).events) = Len(engagement.events) + 1
         /\ After(request).events[Len(engagement.events) + 1].request = request
         /\ After(request).events[Len(engagement.events) + 1].event = request.event
<1> DEFINE e == engagement
           f == After(request)
           revises == request.operation = "revise"
           status == IF revises THEN "recorded" ELSE "revoked"
           number == e.revision + (IF revises THEN 1 ELSE 0)
           row == Receipt(request, number, e.generation + 1, status)
           size == Len(e.events)
<1>1. /\ request.event \in EventIds /\ request.operation \in {"revise", "revoke"}
      /\ request.expected_revision \in Nat /\ request.expected_generation \in Nat
      /\ request.operation = "revise" => request.roe \in Declared
      /\ request.operation = "revoke" => request.roe = NoRoe
      /\ request \in Questions
      /\ request = Question(request.event, request.operation, request.expected_revision,
                            request.expected_generation, request.roe)
  BY DEF Amendments, Question, Questions
<1>2. /\ e.status = "recorded" /\ request.expected_revision = e.revision
      /\ request.expected_generation = e.generation
      /\ revises => e.revision < MAX_REVISIONS
  BY DEF Accepted, Expects
<1>3. Answer(request) = Says("receipt", size + 1)
  BY DEF Answer
<1>4. f = [e EXCEPT !.revision = number, !.generation = @ + 1, !.status = status,
                    !.revisions = IF revises THEN Append(@, request.roe) ELSE @,
                    !.events = Append(@, row)]
  BY <1>3 DEF After
<1>5. /\ DOMAIN f = {"revision", "generation", "status", "revisions", "events"}
      /\ f.revision = number /\ f.generation = e.generation + 1 /\ f.status = status
      /\ f.revisions = (IF revises THEN Append(e.revisions, request.roe) ELSE e.revisions)
      /\ f.events = Append(e.events, row)
  BY <1>4 DEF Sound
<1>6. /\ row.event = request.event /\ row.operation = request.operation
      /\ row.expected_revision = e.revision /\ row.expected_generation = e.generation
      /\ row.revision = number /\ row.generation = e.generation + 1 /\ row.status = status
      /\ row.request = request
  BY <1>2 DEF Receipt
<1>7. /\ e.revision \in 1 .. MAX_REVISIONS /\ e.generation \in Nat /\ e.events \in Seq(Rows)
      /\ e.revisions \in Seq(Declared) /\ Len(e.revisions) = e.revision
      /\ size = e.generation + 1 /\ e.generation = e.revision - 1
  BY <1>2 DEF Sound
<1>8. number \in 1 .. MAX_REVISIONS /\ number \in {e.revision, e.revision + 1}
      /\ number = e.revision + (IF revises THEN 1 ELSE 0)
  BY <1>2, <1>7, EngagementAssumption
<1>9. row \in Rows
  BY <1>1, <1>2, <1>7, <1>8 DEF Receipt, Rows
<1> HIDE DEF f, row, number, size
<1>10. /\ f.revisions \in Seq(Declared) /\ Len(f.revisions) = number
       /\ \A k \in 1 .. e.revision : f.revisions[k] = e.revisions[k]
       /\ revises => f.revisions[number] = request.roe
  <2>1. CASE revises
    BY <1>1, <1>5, <1>7, <1>8, <2>1
  <2>2. CASE ~revises
    BY <1>5, <1>7, <1>8, <2>2
  <2> QED BY <2>1, <2>2
<1>11. /\ f.events \in Seq(Rows) /\ Len(f.events) = size + 1 /\ size \in Nat
       /\ f.events[size + 1] = row
       /\ \A k \in 1 .. size : f.events[k] = e.events[k]
  BY <1>5, <1>7, <1>9 DEF size
<1>12. \A k \in 1 .. size :
         /\ e.events[k].revision \in 1 .. e.revision
         /\ e.events[k].request = Rebuilt(e, e.events[k])
         /\ e.events[k].event # request.event
  <2> TAKE k \in 1 .. size
  <2>1. k \in DOMAIN e.events
    BY <1>7 DEF size
  <2> QED BY <2>1 DEF Sound, Bearing, size
<1>13. \A k \in 1 .. size : Rebuilt(f, e.events[k]) = Rebuilt(e, e.events[k])
  BY <1>10, <1>12 DEF Rebuilt
<1>14. Rebuilt(f, row) = request
  <2>1. CASE revises
    BY <1>1, <1>2, <1>6, <1>10, <2>1 DEF Rebuilt
  <2>2. CASE ~revises
    BY <1>1, <1>2, <1>6, <2>2 DEF Rebuilt
  <2> QED BY <2>1, <2>2
<1>15. Replay(f) = Played(f, Replay(e), row)
  <2>1. ASSUME NEW k \in 1 .. Len(e.events), NEW s \in Plays
        PROVE  Agrees(f, s, e.events[k]) = Agrees(e, s, e.events[k])
    <3>1. k \in 1 .. size
      BY DEF size
    <3>2. DOMAIN f.revisions = 1 .. number /\ DOMAIN e.revisions = 1 .. e.revision
      BY <1>7, <1>8, <1>10
    <3>3. e.events[k].revision \in DOMAIN f.revisions /\ e.events[k].revision \in DOMAIN e.revisions
      <4>1. e.events[k].revision \in 1 .. e.revision
        BY <1>12, <3>1
      <4>2. 1 .. e.revision \subseteq 1 .. number
        BY <1>7, <1>8
      <4> HIDE DEF e
      <4> QED BY <3>2, <4>1, <4>2
    <3>4. Rebuilt(f, e.events[k]) = Rebuilt(e, e.events[k])
      BY <1>13, <3>1
    <3> HIDE DEF e
    <3> QED BY <3>3, <3>4 DEF Agrees
  <2>2. ReplayOf(f, Append(e.events, row)) = Played(f, ReplayOf(e, e.events), row)
    BY <1>7, <1>9, <2>1, ReplayGrows
  <2> QED BY <1>5, <2>2 DEF Replay
<1>16. Replay(f) = [valid |-> TRUE, seen |-> {f.events[n].event : n \in 1 .. Len(f.events)},
                    revision |-> f.revision, generation |-> f.generation, status |-> f.status]
  <2> DEFINE s == Replay(e)
             E == {e.events[n].event : n \in 1 .. size}
  <2>1. s = [valid |-> TRUE, seen |-> E,
             revision |-> e.revision, generation |-> e.generation, status |-> "recorded"]
    BY <1>2 DEF Sound, size
  <2>2. row.event \notin E
    BY <1>6, <1>12
  <2>3. E \cup {row.event} = {f.events[n].event : n \in 1 .. Len(f.events)}
    <3>1. 1 .. Len(f.events) = (1 .. size) \cup {size + 1}
      BY <1>11
    <3> QED BY <1>11, <3>1
  <2> HIDE DEF s, E
  <2>4. Agrees(f, s, row)
    <3>1. s.valid /\ row.event \notin s.seen /\ s.status = "recorded" /\ s.revision = e.revision
          /\ s.generation = e.generation
      BY <2>1, <2>2
    <3>2. row.revision \in DOMAIN f.revisions
      BY <1>6, <1>8, <1>10
    <3>3. row.request = Rebuilt(f, row)
      BY <1>6, <1>14
    <3>4. s.revision # 0 /\ row.operation \in {"revise", "revoke"} /\ Expects(s, row)
          /\ row.generation = s.generation + 1
      BY <1>1, <1>6, <1>7, <3>1 DEF Expects
    <3>5. IF row.operation = "revise" THEN s.revision < MAX_REVISIONS /\ row.revision = s.revision + 1
                                      ELSE row.revision = s.revision
      BY <1>1, <1>2, <1>6, <1>7, <1>8, <3>1
    <3>6. row.status = IF row.operation = "revoke" THEN "revoked" ELSE "recorded"
      BY <1>1, <1>6
    <3> QED BY <3>1, <3>2, <3>3, <3>4, <3>5, <3>6 DEF Agrees
  <2>5. s.seen = E
    BY <2>1
  <2> QED BY <1>5, <1>6, <1>15, <2>3, <2>4, <2>5 DEF Played, s
<1>17. \A n, m \in 1 .. Len(f.events) : f.events[n].event = f.events[m].event => n = m
  <2> TAKE n, m \in 1 .. Len(f.events)
  <2>1. \A i, j \in 1 .. size : e.events[i].event = e.events[j].event => i = j
    BY DEF Sound, size
  <2>2. n \in 1 .. size \/ n = size + 1
    BY <1>11
  <2>3. m \in 1 .. size \/ m = size + 1
    BY <1>11
  <2> HIDE DEF e
  <2> QED BY <1>6, <1>11, <1>12, <2>1, <2>2, <2>3
<1>18. \A n \in 1 .. Len(f.events) :
         /\ f.events[n].revision \in 1 .. f.revision
         /\ f.events[n].request = Rebuilt(f, f.events[n])
  <2> TAKE n \in 1 .. Len(f.events)
  <2>1. n \in 1 .. size \/ n = size + 1
    BY <1>11
  <2>2. CASE n \in 1 .. size
    <3>1. f.events[n] = e.events[n] /\ f.revision = number
      BY <1>5, <1>11, <2>2
    <3> QED BY <1>7, <1>8, <1>12, <1>13, <2>2, <3>1
  <2>3. CASE n = size + 1
    <3>1. f.events[n] = row /\ f.revision = number
      BY <1>5, <1>11, <2>3
    <3> QED BY <1>6, <1>8, <1>14, <3>1
  <2> QED BY <2>1, <2>2, <2>3
<1>19. f.generation = f.revision - (IF f.status = "revoked" THEN 0 ELSE 1)
  BY <1>1, <1>5, <1>7, <1>8
<1>20. f.generation \in Nat /\ Len(f.events) = f.generation + 1 /\ f.status \in {"recorded", "revoked"}
  BY <1>5, <1>7, <1>11
<1>21. Sound(f)
  BY <1>5, <1>8, <1>10, <1>11, <1>16, <1>17, <1>18, <1>19, <1>20 DEF Sound
<1> QED BY <1>6, <1>11, <1>21 DEF f, size

\* What a caller is told of a request.
LEMMA AmendIsTrue ==
  ASSUME Sound(engagement), NEW h, NEW request \in Amendments, Amend(h, request)
  PROVE  Sound(engagement') /\ AnswersAreTrue'
<1> DEFINE size == Len(engagement.events)
<1>1. request.operation # "lookup"
  BY DEF Amendments, Question
<1>2. size \in Nat /\ engagement.events \in Seq(Rows) /\ DOMAIN engagement.events = 1 .. size
  BY DEF Sound
<1>3. CASE Bearing(request.event) = {} /\ Accepted(request)
  <2>1. /\ Sound(After(request)) /\ Len(After(request).events) = size + 1
        /\ After(request).events[size + 1].request = request
        /\ After(request).events[size + 1].event = request.event
    BY <1>3, RecordingIsSound
  <2>2. Answer(request) = Says("receipt", size + 1)
    BY <1>3 DEF Answer
  <2>3. engagement' = After(request) /\ told' = [question |-> request, code |-> "receipt",
                                                sequence |-> size + 1]
    BY <2>1, <2>2, SoundIsValid DEF Amend, Tells, Says
  <2>4. size + 1 \in DOMAIN engagement'.events
    <3>1. DOMAIN engagement'.events = 1 .. (size + 1)
      BY <2>1, <2>3 DEF Sound
    <3> QED BY <1>2, <3>1
  <2>5. engagement'.events[size + 1] \in ToSet(engagement'.events)
    BY <2>4 DEF ToSet
  <2> HIDE DEF size
  <2> QED BY <2>1, <2>3, <2>4, <2>5 DEF AnswersAreTrue, Recorded
<1>4. CASE ~(Bearing(request.event) = {} /\ Accepted(request))
  <2>1. /\ Answer(request).code \in {"receipt", "conflict", "revoked", "limit_exceeded"}
        /\ Answer(request).code = "receipt" =>
             /\ Answer(request).sequence \in 1 .. size
             /\ engagement.events[Answer(request).sequence].event = request.event
             /\ engagement.events[Answer(request).sequence].request = request
        /\ Answer(request).code # "receipt" =>
             \A n \in 1 .. size : ~(engagement.events[n].event = request.event
                                     /\ engagement.events[n].request = request)
    <3>1. CASE Bearing(request.event) = {}
      <4>1. Answer(request) = Refused(request)
        BY <1>4, <3>1 DEF Answer
      <4>2. Refused(request).code \in {"conflict", "revoked", "limit_exceeded"}
        BY DEF Refused, Says
      <4>3. \A n \in 1 .. size : engagement.events[n].event # request.event
        BY <1>2, <3>1 DEF Bearing
      <4> QED BY <4>1, <4>2, <4>3
    <3>2. CASE Bearing(request.event) # {}
      <4> DEFINE n == CHOOSE k \in Bearing(request.event) : TRUE
      <4>1. n \in Bearing(request.event)
        BY <3>2
      <4>2. n \in 1 .. size /\ engagement.events[n].event = request.event
        BY <1>2, <4>1 DEF Bearing
      <4>3. engagement.events[n].request = Rebuilt(engagement, engagement.events[n])
        BY <4>2 DEF Sound
      <4>4. \A m \in 1 .. size : engagement.events[m].event = request.event => m = n
        BY <4>2 DEF Sound
      <4>5. Answer(request) = IF Rebuilt(engagement, engagement.events[n]) = request
                              THEN Says("receipt", n) ELSE Says("conflict", 0)
        BY <3>2 DEF Answer, Repeated
      <4> HIDE DEF n, size
      <4> QED BY <4>2, <4>3, <4>4, <4>5 DEF Says
    <3> QED BY <3>1, <3>2
  <2>2. Answer(request) # Says("receipt", size + 1)
    BY <1>2, <2>1 DEF Says
  <2>3. After(request) = engagement
    BY <2>2 DEF After
  <2>4. engagement' = engagement /\ told' = [question |-> request, code |-> Answer(request).code,
                                             sequence |-> Answer(request).sequence]
    BY <2>3, SoundIsValid DEF Amend, Tells
  <2>5. ToSet(engagement.events) = {engagement.events[n] : n \in 1 .. size}
    BY <1>2 DEF ToSet
  <2> HIDE DEF size
  <2>6. Recorded(request) <=> \E n \in 1 .. size : engagement.events[n].event = request.event
                                                  /\ engagement.events[n].request = request
    BY <1>1, <2>5 DEF Recorded
  <2>7. Recorded(told.question)' <=> Recorded(request)
    BY <2>4 DEF Recorded
  <2>8. DOMAIN engagement'.events = 1 .. size
    BY <1>2, <2>4
  <2> QED BY <2>1, <2>4, <2>6, <2>7, <2>8 DEF AnswersAreTrue
<1> QED BY <1>3, <1>4

\* A caller can rely on what it is told, under every schedule of handles, failures and
\* retries: a receipt stands for its request, and what was refused was never recorded.
THEOREM AnswersStayTrue == EngagementSpec => []AnswersAreTrue
<1> DEFINE Inv == Sound(engagement) /\ AnswersAreTrue
<1>1. EngagementInit => Inv
  <2> SUFFICES ASSUME EngagementInit PROVE Inv
    OBVIOUS
  <2>1. PICK event \in EventIds, roe \in Declared :
          /\ engagement = [revision |-> 1, generation |-> 0, status |-> "recorded",
                           revisions |-> <<roe>>,
                           events |-> <<Receipt(Create(event, roe), 1, 0, "recorded")>>]
          /\ told = [question |-> Create(event, roe), code |-> "receipt", sequence |-> 1]
    BY DEF EngagementInit
  <2> DEFINE row == Receipt(Create(event, roe), 1, 0, "recorded")
             e == engagement
  <2>2. /\ row.event = event /\ row.operation = "create" /\ row.expected_revision = 0
        /\ row.expected_generation = 0 /\ row.revision = 1 /\ row.generation = 0
        /\ row.status = "recorded" /\ row.request = Create(event, roe)
    BY DEF Receipt, Create, Question
  <2>3. Create(event, roe) \in Questions
    BY DEF Create, Question, Questions
  <2>4. row \in Rows
    BY <2>3 DEF Receipt, Create, Question, Rows
  <2>5. /\ e.revision = 1 /\ e.generation = 0 /\ e.status = "recorded"
        /\ e.revisions = <<roe>> /\ e.events = <<row>>
        /\ DOMAIN e = {"revision", "generation", "status", "revisions", "events"}
    BY <2>1
  <2> HIDE DEF row, e
  <2>6. /\ e.revisions \in Seq(Declared) /\ Len(e.revisions) = 1 /\ e.revisions[1] = roe
        /\ e.events \in Seq(Rows) /\ Len(e.events) = 1 /\ e.events[1] = row
    BY <2>4, <2>5
  <2>7. Rebuilt(e, row) = Create(event, roe)
    BY <2>2, <2>6 DEF Rebuilt, Create, Question
  <2>8. Replay(e) = Played(e, Unplayed, row)
    <3>1. <<>> \in Seq(Rows) /\ Len(<<>>) = 0 /\ e.events = Append(<<>>, row)
      BY <2>5
    <3>2. ReplayOf(e, Append(<<>>, row)) = Played(e, ReplayOf(e, <<>>), row)
      BY <2>4, <3>1, ReplayGrows
    <3> QED BY <3>1, <3>2, ReplayBegins DEF Replay
  <2>9. Agrees(e, Unplayed, row)
    <3>1. row.revision \in DOMAIN e.revisions
      BY <2>2, <2>6
    <3> QED BY <2>2, <2>7, <3>1 DEF Agrees, Unplayed
  <2>10. Replay(e) = [valid |-> TRUE, seen |-> {e.events[n].event : n \in 1 .. Len(e.events)},
                      revision |-> e.revision, generation |-> e.generation, status |-> e.status]
    <3>1. {e.events[n].event : n \in 1 .. Len(e.events)} = {event}
      BY <2>2, <2>6
    <3> QED BY <2>2, <2>5, <2>8, <2>9, <3>1 DEF Played, Unplayed
  <2>11. Sound(e)
    <3>1. 1 \in 1 .. MAX_REVISIONS
      BY EngagementAssumption
    <3>2. \A n \in 1 .. Len(e.events) : n = 1
      BY <2>6
    <3> QED BY <2>2, <2>5, <2>6, <2>7, <2>10, <3>1, <3>2 DEF Sound
  <2>12. AnswersAreTrue
    <3>1. 1 \in DOMAIN e.events /\ row \in ToSet(e.events)
      <4>1. DOMAIN e.events = {1}
        BY <2>6
      <4> QED BY <2>6, <4>1 DEF ToSet
    <3>2. /\ told.code = "receipt" /\ told.sequence = 1 /\ told.question = Create(event, roe)
          /\ told.question.event = event
      BY <2>1 DEF Create, Question
    <3> QED BY <2>2, <2>6, <3>1, <3>2 DEF AnswersAreTrue, Recorded, e
  <2> QED BY <2>11, <2>12 DEF e
<1>2. Inv /\ [EngagementNext]_engaged => Inv'
  <2> SUFFICES ASSUME Inv, [EngagementNext]_engaged PROVE Inv'
    OBVIOUS
  <2>1. ASSUME NEW h \in Handles, NEW request \in Amendments, Amend(h, request)
        PROVE  Inv'
    BY <2>1, AmendIsTrue
  <2>2. ASSUME NEW h \in Handles, NEW request \in Amendments, AmendLost(h, request)
        PROVE  Inv'
    <3>1. told'.code = "uncertain" /\ engagement' \in {engagement, After(request)}
      BY <2>2 DEF AmendLost, Tells, Says
    <3>2. Sound(After(request))
      <4>1. CASE Bearing(request.event) = {} /\ Accepted(request)
        BY <4>1, RecordingIsSound
      <4>2. CASE ~(Bearing(request.event) = {} /\ Accepted(request))
        <5>1. Answer(request) # Says("receipt", Len(engagement.events) + 1)
          <6>1. CASE Bearing(request.event) = {}
            BY <4>2, <6>1 DEF Answer, Refused, Says
          <6>2. CASE Bearing(request.event) # {}
            <7> DEFINE n == CHOOSE k \in Bearing(request.event) : TRUE
            <7>1. n \in Bearing(request.event)
              BY <6>2
            <7>2. n # Len(engagement.events) + 1
              BY <7>1 DEF Bearing, Sound
            <7> HIDE DEF n
            <7> QED BY <6>2, <7>2 DEF Answer, Repeated, Says, n
          <6> QED BY <6>1, <6>2
        <5> QED BY <5>1 DEF After
      <4> QED BY <4>1, <4>2
    <3> QED BY <3>1, <3>2 DEF AnswersAreTrue
  <2>3. ASSUME NEW h \in Handles, NEW event \in EventIds, EventReceipt(h, event)
        PROVE  Inv'
    <3>1. engagement' = engagement
      BY <2>3 DEF EventReceipt
    <3> DEFINE size == Len(engagement.events)
    <3>2. DOMAIN engagement.events = 1 .. size /\ DOMAIN engagement'.events = 1 .. size
          /\ ToSet(engagement'.events) = {engagement.events[n] : n \in 1 .. size}
      <4>1. engagement.events \in Seq(Rows)
        BY DEF Sound
      <4>2. DOMAIN engagement.events = 1 .. size
        BY <4>1
      <4> HIDE DEF size
      <4> QED BY <3>1, <4>2 DEF ToSet
    <3> HIDE DEF size
    <3>3. CASE Bearing(event) = {}
      <4>1. told' = [question |-> Lookup(event), code |-> "event_unknown", sequence |-> 0]
        BY <2>3, <3>3 DEF EventReceipt, Tells, Says
      <4>2. told'.question.event = event /\ told'.code = "event_unknown"
        BY <4>1 DEF Lookup, Question
      <4>3. \A n \in 1 .. size : engagement.events[n].event # event
        BY <3>2, <3>3 DEF Bearing
      <4> QED BY <3>1, <3>2, <4>2, <4>3 DEF AnswersAreTrue, Recorded
    <3>4. CASE Bearing(event) # {}
      <4> DEFINE n == CHOOSE k \in Bearing(event) : TRUE
      <4>1. n \in 1 .. size /\ engagement.events[n].event = event
        BY <3>2, <3>4 DEF Bearing
      <4>2. told' = [question |-> Lookup(event), code |-> "receipt", sequence |-> n]
        BY <2>3, <3>4 DEF EventReceipt, Tells, Says
      <4> HIDE DEF n
      <4>3. told'.question.event = event /\ told'.code = "receipt" /\ told'.sequence = n
            /\ told'.question.operation = "lookup"
        BY <4>2 DEF Lookup, Question
      <4>4. engagement'.events[n] \in ToSet(engagement'.events)
        BY <3>1, <3>2, <4>1
      <4> QED BY <3>1, <3>2, <4>1, <4>3, <4>4 DEF AnswersAreTrue, Recorded
    <3> QED BY <3>3, <3>4
  <2>4. ASSUME UNCHANGED <<engagement, told>>
        PROVE  Inv'
    BY <2>4 DEF AnswersAreTrue, Recorded
  <2> HIDE DEF Inv
  <2> QED BY <2>1, <2>2, <2>3, <2>4 DEF EngagementNext, Reopen, engaged
<1>3. Inv => AnswersAreTrue
  OBVIOUS
<1> QED BY <1>1, <1>2, <1>3, PTL DEF EngagementSpec

-----------------------------------------------------------------------------
(***************************************************************************)
(* The evidence: InspectionRecovers and PublishedReportReplays.            *)
(*                                                                         *)
(* The invariant says of the journal on disk that it reads, line after     *)
(* line, as a history s that breaks no rule and took as many lines as it   *)
(* tells, and of the store that it is at a stage of which s is the reading:*)
(* at rest, stopped by a failure, or with the writes of one operation left *)
(* to do.  A line that is still to be written follows s, so that whatever  *)
(* of it a failure leaves is read or is torn, and the number of lines of   *)
(* an honest reading is bounded by the workflow.                           *)
(***************************************************************************)
Values ==
  STATUSES \cup {"started", "propose", "stop", "closed", "done", "dry_run", "session_stopped",
                 "evidence_missing", "concluded"}

Summaries ==
  [mode : {"none", "execute", "dry_run"}, completed : BOOLEAN, attempted : Nat, succeeded : Nat]

Names == [file : {"result", "json", "md"}, step : Nat]

Events ==
  [kind : {"decision", "started", "finished", "closed", "terminal", "done"}, step : Nat,
   value : Values, summary : Summaries]

Reads ==
  [records : Seq(Values), decisions : Seq(Values), closed : BOOLEAN, terminal : Summaries,
   summary : Summaries, named : SUBSET Names, broken : BOOLEAN]

\* A sequence with one element changed.
LEMMA ExceptKeeps ==
  ASSUME NEW S, NEW r \in Seq(S), NEW k, NEW v \in S
  PROVE  /\ [r EXCEPT ![k] = v] \in Seq(S) /\ Len([r EXCEPT ![k] = v]) = Len(r)
         /\ \A n \in 1 .. Len(r) : [r EXCEPT ![k] = v][n] = IF n = k THEN v ELSE r[n]
<1> DEFINE q == [r EXCEPT ![k] = v]
<1>1. Len(r) \in Nat /\ DOMAIN r = 1 .. Len(r) /\ \A n \in 1 .. Len(r) : r[n] \in S
  OBVIOUS
<1>2. q = [n \in 1 .. Len(r) |-> IF n = k THEN v ELSE r[n]]
  BY <1>1
<1>3. q \in [1 .. Len(r) -> S]
  BY <1>1, <1>2
<1>4. q \in Seq(S) /\ Len(q) = Len(r)
  BY <1>1, <1>3
<1>5. \A n \in 1 .. Len(r) : q[n] = IF n = k THEN v ELSE r[n]
  BY <1>2
<1> QED BY <1>4, <1>5

LEMMA ReadIsRead ==
  \A s \in Reads, e \in Events : Read(s, e) \in Reads
<1> SUFFICES ASSUME NEW s \in Reads, NEW e \in Events PROVE Read(s, e) \in Reads
  OBVIOUS
<1>0. /\ s.records \in Seq(Values) /\ s.decisions \in Seq(Values) /\ s.named \in SUBSET Names
      /\ e.value \in Values /\ e.summary \in Summaries /\ e.step \in Nat
      /\ e.kind \in {"decision", "started", "finished", "closed", "terminal", "done"}
  BY DEF Reads, Events
<1>1. CASE s.broken \/ ~Follows(s, e)
  BY <1>1 DEF Read, Reads
<1>2. CASE ~(s.broken \/ ~Follows(s, e))
  <2>1. CASE e.kind = "decision"
    <3>1. Append(s.decisions, e.value) \in Seq(Values)
      BY <1>0
    <3> HIDE DEF Follows
    <3> QED BY <1>2, <2>1, <3>1 DEF Read, Reads
  <2>2. CASE e.kind = "started"
    <3>1. Append(s.records, "started") \in Seq(Values)
      BY <1>0 DEF Values
    <3> QED BY <1>2, <2>2, <3>1 DEF Read, Reads
  <2>3. CASE e.kind = "finished"
    <3>1. [s.records EXCEPT ![e.step] = e.value] \in Seq(Values)
      BY <1>0, ExceptKeeps
    <3>2. s.named \cup {Result(e.step)} \in SUBSET Names
      BY <1>0 DEF Result, Names
    <3> QED BY <1>2, <2>3, <3>1, <3>2 DEF Read, Reads
  <2>4. CASE e.kind = "closed"
    BY <1>2, <2>4 DEF Read, Reads
  <2>5. CASE e.kind = "terminal"
    BY <1>0, <1>2, <2>5 DEF Read, Reads
  <2>6. CASE e.kind = "done"
    BY <1>0, <1>2, <2>6 DEF Read, Reads
  <2> QED BY <1>0, <2>1, <2>2, <2>3, <2>4, <2>5, <2>6
<1> QED BY <1>1, <1>2

LEMMA UnreadIsRead == Unread \in Reads
<1>1. NoSummary \in Summaries
  BY DEF NoSummary, Summaries
<1> QED BY <1>1 DEF Unread, Reads

\* Reading the lines of a journal, as the steps of a fold,
ReadSteps(journal) ==
  [p \in (1 .. Len(journal)) \X Reads |-> Read(p[2], journal[p[1]])]

LEMMA ReadStepsAreSteps ==
  ASSUME NEW journal \in Seq(Events)
  PROVE  ReadSteps(journal) \in [(1 .. Len(journal)) \X Reads -> Reads]
<1>1. \A p \in (1 .. Len(journal)) \X Reads : Read(p[2], journal[p[1]]) \in Reads
  BY ReadIsRead
<1> QED BY <1>1 DEF ReadSteps

\* and the function that folds them.
ReadSolution(journal) ==
  CHOOSE iter : iter = [s \in SUBSET (1 .. Len(journal)) |->
    IF s = {} THEN Unread ELSE Read(iter[s \ {Top(s)}], journal[Top(s)])]

\* That is what the fold of the community modules chooses,
LEMMA ReadAllIsSolution ==
  ASSUME NEW journal \in Seq(Events)
  PROVE  ReadAll(journal) = ReadSolution(journal)[1 .. Len(journal)]
<1>1. DOMAIN journal = 1 .. Len(journal)
  OBVIOUS
<1> QED BY <1>1, Zenon DEF ReadAll, ReadSolution, FoldLeft, MapThenFoldSet, Max, Top

\* and it does solve its recursion.
LEMMA ReadSolutionIterates ==
  ASSUME NEW journal \in Seq(Events)
  PROVE  Iterates(ReadSolution(journal), Len(journal), Reads, Unread, ReadSteps(journal))
<1> DEFINE n == Len(journal)
           step == ReadSteps(journal)
           Solving(iter) ==
             iter = [s \in SUBSET (1 .. n) |->
               IF s = {} THEN Unread ELSE Read(iter[s \ {Top(s)}], journal[Top(s)])]
<1>0. n \in Nat
  OBVIOUS
<1>1. step \in [(1 .. n) \X Reads -> Reads]
  BY ReadStepsAreSteps
<1>2. PICK g : Iteration(g, n, Reads, Unread, step)
  <2> HIDE DEF step, n
  <2> QED BY <1>0, <1>1, UnreadIsRead, IterationExists
<1>3. ASSUME NEW s \in SUBSET (1 .. n), s # {}, NEW h \in Reads
      PROVE  step[<<Top(s), h>>] = Read(h, journal[Top(s)])
  <2>1. Top(s) \in 1 .. n
    <3> HIDE DEF n
    <3> QED BY <1>0, <1>3, TopIn
  <2>2. <<Top(s), h>> \in (1 .. n) \X Reads
    BY <2>1
  <2> QED BY <2>2 DEF ReadSteps
<1>4. Solving(g)
  <2>1. ASSUME NEW s \in SUBSET (1 .. n)
        PROVE  g[s] = IF s = {} THEN Unread ELSE Read(g[s \ {Top(s)}], journal[Top(s)])
    <3>1. g[s \ {Top(s)}] \in Reads
      BY <1>2 DEF Iteration
    <3>2. g[s] = IF s = {} THEN Unread ELSE step[<<Top(s), g[s \ {Top(s)}]>>]
      BY <1>2 DEF Iteration
    <3> HIDE DEF step
    <3> QED BY <1>3, <3>1, <3>2
  <2> QED BY <1>2, <2>1 DEF Iteration
<1>5. Solving(ReadSolution(journal))
  BY <1>4, Zenon DEF ReadSolution
<1>6. ASSUME NEW s \in SUBSET (1 .. n)
      PROVE  LET iter == ReadSolution(journal) IN
               IF s = {} THEN iter[s] = Unread
               ELSE iter[s \ {Top(s)}] \in Reads =>
                      iter[s] = step[<<Top(s), iter[s \ {Top(s)}]>>]
  <2> DEFINE iter == ReadSolution(journal)
  <2>1. iter[s] = IF s = {} THEN Unread ELSE Read(iter[s \ {Top(s)}], journal[Top(s)])
    <3>1. iter = [t \in SUBSET (1 .. n) |->
                   IF t = {} THEN Unread ELSE Read(iter[t \ {Top(t)}], journal[Top(t)])]
      BY <1>5, Zenon
    <3> HIDE DEF iter, n
    <3> QED BY <3>1
  <2> HIDE DEF iter, step
  <2>2. IF s = {} THEN iter[s] = Unread
        ELSE iter[s \ {Top(s)}] \in Reads =>
               iter[s] = step[<<Top(s), iter[s \ {Top(s)}]>>]
    BY <1>3, <2>1
  <2> QED BY <2>2 DEF iter
<1> QED BY <1>6 DEF Iterates

\* Every reading follows the lines, one by one, to what it returns:
Follow(trace, journal, outcome, step) ==
  Trace(trace, Len(journal), Reads, Unread, step) /\ outcome = trace[Len(journal)]

LEMMA ReadingFollows ==
  \A journal \in Seq(Events) :
    \E trace : Follow(trace, journal, ReadAll(journal), ReadSteps(journal))
<1> SUFFICES ASSUME NEW journal \in Seq(Events)
             PROVE  \E trace : Follow(trace, journal, ReadAll(journal), ReadSteps(journal))
  OBVIOUS
<1> DEFINE trace == [k \in 0 .. Len(journal) |-> ReadSolution(journal)[1 .. k]]
<1>1. Len(journal) \in Nat
  OBVIOUS
<1>2. ReadSteps(journal) \in [(1 .. Len(journal)) \X Reads -> Reads]
  BY ReadStepsAreSteps, Zenon
<1>3. Iterates(ReadSolution(journal), Len(journal), Reads, Unread, ReadSteps(journal))
  BY ReadSolutionIterates, Zenon
<1>4. Trace(trace, Len(journal), Reads, Unread, ReadSteps(journal))
  BY <1>1, <1>2, <1>3, UnreadIsRead, IterationTraces, Zenon
<1>5. ReadAll(journal) = trace[Len(journal)]
  BY <1>1, ReadAllIsSolution
<1> HIDE DEF trace
<1>6. Follow(trace, journal, ReadAll(journal), ReadSteps(journal))
  BY <1>4, <1>5 DEF Follow
<1> QED BY <1>6

\* so does the next.
LEMMA NextReadingFollows ==
  (\A journal \in Seq(Events) :
     \E trace : Follow(trace, journal, ReadAll(journal), ReadSteps(journal)))'
BY ReadingFollows, PTL

\* What a reading comes to, and that it goes on where it was when lines read the same.
LEMMA ReadingIsRead ==
  ASSUME NEW journal \in Seq(Events)
  PROVE  ReadAll(journal) \in Reads
<1>1. Len(journal) \in 0 .. Len(journal)
  OBVIOUS
<1> QED BY <1>1, ReadingFollows DEF Follow, Trace

LEMMA ReadingBegins == ReadAll(<<>>) = Unread
<1>1. <<>> \in Seq(Events) /\ Len(<<>>) = 0
  OBVIOUS
<1> QED BY <1>1, ReadingFollows DEF Follow, Trace

LEMMA ReadingGoesOn ==
  ASSUME NEW journal \in Seq(Events), NEW e \in Events,
         \A n \in 1 .. Len(journal) : \A s \in Reads : Read(s, journal[n])' = Read(s, journal[n])
  PROVE  /\ ReadAll(journal)' = ReadAll(journal)
         /\ ReadAll(Append(journal, e))' = Read(ReadAll(journal), e)'
<1> DEFINE longer == Append(journal, e)
           n == Len(journal)
<1>1. longer \in Seq(Events) /\ Len(longer) = n + 1 /\ n \in Nat /\ longer[n + 1] = e
      /\ \A k \in 1 .. n : longer[k] = journal[k]
  OBVIOUS
<1> HIDE DEF longer, n
<1>2. PICK old : Follow(old, journal, ReadAll(journal), ReadSteps(journal))
  BY ReadingFollows
<1>3. PICK same : Follow(same, journal, ReadAll(journal)', ReadSteps(journal)')
  BY NextReadingFollows
<1>4. PICK new : Follow(new, longer, ReadAll(longer)', ReadSteps(longer)')
  BY <1>1, NextReadingFollows
<1>5. SameSteps(n, Reads, ReadSteps(journal), ReadSteps(journal)')
  <2> SUFFICES ASSUME NEW k \in 1 .. n, NEW s \in Reads
               PROVE  ReadSteps(journal)'[<<k, s>>] = ReadSteps(journal)[<<k, s>>]
    BY DEF SameSteps
  <2>1. <<k, s>> \in (1 .. Len(journal)) \X Reads /\ Read(s, journal[k])' = Read(s, journal[k])
    BY DEF n
  <2> HIDE DEF Read
  <2> QED BY <2>1 DEF ReadSteps
<1>6. SameSteps(n, Reads, ReadSteps(journal), ReadSteps(longer)')
  <2> SUFFICES ASSUME NEW k \in 1 .. n, NEW s \in Reads
               PROVE  ReadSteps(longer)'[<<k, s>>] = ReadSteps(journal)[<<k, s>>]
    BY DEF SameSteps
  <2>1. <<k, s>> \in (1 .. Len(journal)) \X Reads /\ Read(s, journal[k])' = Read(s, journal[k])
    BY DEF n
  <2>2. <<k, s>> \in (1 .. Len(longer)) \X Reads /\ longer[k] = journal[k]
    BY <1>1
  <2>3. ReadSteps(longer)'[<<k, s>>] = Read(s, longer[k])'
    BY <2>2 DEF ReadSteps
  <2>4. Read(s, longer[k])' = Read(s, journal[k])'
    BY <2>2
  <2> QED BY <2>1, <2>3, <2>4 DEF ReadSteps
<1>7. Trace(old, n, Reads, Unread, ReadSteps(journal)) /\ ReadAll(journal) = old[n]
  BY <1>2 DEF Follow, n
<1>8. Trace(same, n, Reads, Unread, ReadSteps(journal)') /\ ReadAll(journal)' = same[n]
  BY <1>3 DEF Follow, n
<1>9. Trace(new, n + 1, Reads, Unread, ReadSteps(longer)') /\ ReadAll(longer)' = new[n + 1]
  BY <1>1, <1>4 DEF Follow
<1>10. n \in Nat /\ n + 1 \in Nat /\ n <= n /\ n <= n + 1 /\ n \in 0 .. n
  BY <1>1
<1>11. same[n] = old[n]
  <2>1. \A k \in 0 .. n : same[k] = old[k]
    BY <1>5, <1>7, <1>8, <1>10, TracesAgree
  <2> QED BY <1>10, <2>1
<1>12. new[n] = old[n]
  <2>1. \A k \in 0 .. n : new[k] = old[k]
    BY <1>6, <1>7, <1>9, <1>10, TracesAgree
  <2> QED BY <1>10, <2>1
<1>13. new[n + 1] = ReadSteps(longer)'[<<n + 1, new[n]>>]
  <2>1. n + 1 \in 1 .. (n + 1) /\ (n + 1) - 1 = n
    BY <1>1
  <2> QED BY <1>9, <2>1 DEF Trace
<1>14. ReadSteps(longer)'[<<n + 1, old[n]>>] = Read(old[n], e)'
  <2>1. <<n + 1, old[n]>> \in (1 .. Len(longer)) \X Reads
    BY <1>1, <1>7, <1>10 DEF Trace
  <2>2. ReadSteps(longer)'[<<n + 1, old[n]>>] = Read(old[n], longer[n + 1])'
    BY <2>1 DEF ReadSteps
  <2> QED BY <1>1, <2>2
<1> QED BY <1>7, <1>8, <1>9, <1>11, <1>12, <1>13, <1>14 DEF longer

\* The rules are those of the workflow,
LEMMA RulesStay ==
  ASSUME workflow' = workflow, NEW h, NEW m
  PROVE  /\ Versioned' = Versioned /\ MaxEvents' = MaxEvents /\ MaxExecutions' = MaxExecutions
         /\ MayDecide(h)' = MayDecide(h) /\ MayStart(h)' = MayStart(h)
         /\ MayClose(h)' = MayClose(h) /\ MayConclude(h, m)' = MayConclude(h, m)
         /\ Reason(h, m)' = Reason(h, m) /\ Complete(h)' = Complete(h)
         /\ Proposal(h)' = Proposal(h) /\ Pending(h)' = Pending(h)
<1>1. Versioned' = Versioned /\ MaxEvents' = MaxEvents /\ MaxExecutions' = MaxExecutions
  BY DEF Versioned, MaxEvents, MaxExecutions
<1>2. Pending(h)' = Pending(h) /\ Proposal(h)' = Proposal(h)
  BY DEF Pending, Proposal
<1>3. MayDecide(h)' = MayDecide(h) /\ MayStart(h)' = MayStart(h) /\ MayClose(h)' = MayClose(h)
  BY <1>1, <1>2 DEF MayDecide, MayStart, MayClose
<1>4. Successes(h)' = Successes(h)
  BY DEF Successes
<1>5. MayConclude(h, m)' = MayConclude(h, m)
  BY <1>1, <1>4 DEF MayConclude, Reconciles
<1>6. Complete(h)' = Complete(h)
  BY <1>1 DEF Complete
<1>7. Reason(h, m)' = Reason(h, m)
  BY <1>6 DEF Reason
<1> QED BY <1>1, <1>2, <1>3, <1>5, <1>6, <1>7

\* and a line is read the same for as long as its artifact is there.
LEMMA LinesReadTheSame ==
  ASSUME workflow' = workflow, disk.whole \subseteq disk'.whole, NEW s, NEW e,
         e.kind = "finished" => Result(e.step) \in disk.whole
  PROVE  Read(s, e)' = Read(s, e) /\ Follows(s, e)' = Follows(s, e)
<1>1. /\ Versioned' = Versioned /\ MayDecide(s)' = MayDecide(s) /\ MayStart(s)' = MayStart(s)
      /\ MayClose(s)' = MayClose(s) /\ MayConclude(s, e.summary)' = MayConclude(s, e.summary)
      /\ Reason(s, e.summary)' = Reason(s, e.summary) /\ Proposal(s)' = Proposal(s)
      /\ Pending(s)' = Pending(s)
  BY RulesStay
<1>2. e.kind = "finished" => Result(e.step) \in disk.whole /\ Result(e.step) \in disk'.whole
  OBVIOUS
<1>3. Follows(s, e)' = Follows(s, e)
  BY <1>1, <1>2 DEF Follows
<1> HIDE DEF Follows
<1> QED BY <1>3 DEF Read

\* What a store, or a reading, has of the executions.
SameRecords(s, h) == s.records = h.records /\ s.decisions = h.decisions /\ s.closed = h.closed

FinishedOf(s) == {Result(n) : n \in {k \in 1 .. Len(s.records) : s.records[k] # "started"}}

\* Only the last execution may be open, and the workflow bounds them all.
OrderedReading(s) ==
  /\ \A n \in 1 .. Len(s.records) : s.records[n] = "started" => n = Len(s.records)
  /\ Len(s.records) <= MaxExecutions /\ Len(s.decisions) <= 3
  /\ ~Versioned => s.decisions = <<>> /\ s.terminal = NoSummary
  /\ s.closed => workflow = "owned_lab" /\ ~Pending(s)

\* The lines it took to come there.
OneIf(set) == IF set THEN 1 ELSE 0

EndLines(s) ==
  OneIf(s.closed) + OneIf(s.terminal # NoSummary) + OneIf(s.summary # NoSummary)

Tally(s) ==
  Len(s.decisions) + Len(s.records) + Len(s.records) - OneIf(Pending(s)) + EndLines(s)

HonestReading(s) ==
  /\ s \in Reads /\ ~s.broken /\ OrderedReading(s) /\ s.named = FinishedOf(s)

JournalKept(s) ==
  /\ workflow \in {"plain", "discovery", "versioned", "owned_lab"}
  /\ DOMAIN disk = {"journal", "torn", "whole", "partial"}
  /\ DOMAIN job = {"todo", "leaves", "works"} /\ DOMAIN memory = DOMAIN Blank
  /\ disk.journal \in Seq(Events) /\ disk.torn \in BOOLEAN /\ job.works \in BOOLEAN
  /\ HonestReading(s) /\ s.named \subseteq disk.whole
  /\ Len(disk.journal) = Tally(s) /\ (disk.torn => Len(disk.journal) < MaxEvents)
  /\ \A n \in 1 .. Len(disk.journal) :
       disk.journal[n].kind = "finished" => Result(disk.journal[n].step) \in disk.whole

Results == {f \in disk.whole : f.file = "result"}

\* As long as nothing has failed.
Unharmed(s, more) ==
  /\ job.works /\ ~disk.torn /\ disk.partial = {} /\ Results = s.named \cup more
  /\ SameRecords(s, memory)

NotEnded(s) ==
  s.terminal = NoSummary /\ s.summary = NoSummary /\ memory.report = NoReport

StoreRests(s) == job.todo = <<>> /\ Unharmed(s, {}) /\ NotEnded(s)

StoreStopped(s) ==
  /\ job.todo = <<>> /\ ~job.works /\ memory.report = NoReport
  /\ SameRecords(s, memory) \/ SameRecords(s, job.leaves)

\* What a line that is still to be written makes of it.
Awaits(s, e, leaves) ==
  /\ e \in Events /\ Follows(s, e) /\ e.kind \in {"decision", "started", "finished", "closed"}
  /\ e.kind = "finished" => e.value \in STATUSES
  /\ SameRecords(Read(s, e), leaves) /\ DOMAIN leaves = DOMAIN Blank
  /\ leaves.report = NoReport

LineUnderway(s) ==
  \E e \in Events :
    /\ job.todo = <<Line(e)>> /\ NotEnded(s) /\ Awaits(s, e, job.leaves)
    /\ Unharmed(s, IF e.kind = "finished" THEN {Result(e.step)} ELSE {})

ResultUnderway(s) ==
  /\ Pending(memory) /\ NotEnded(s) /\ Unharmed(s, {})
  /\ \E status \in STATUSES :
       job.todo = FinishedBy(status).writes /\ job.leaves = FinishedBy(status).leaves

\* The end, with what is left to write of it.
EndTold(s, m, terminal, done) ==
  /\ s.terminal = IF terminal /\ Versioned THEN m ELSE NoSummary
  /\ s.summary = IF done THEN m ELSE NoSummary

\* The lines that an end has.
ToldTerminal(m) == Event("terminal", 0, Reason(memory, m), m)

ToldDone(m) == Event("done", 0, "done", m)

Reports == <<File(Published("json")), File(Published("md"))>>

EndWrites(s, m) ==
  \/ /\ Versioned /\ EndTold(s, m, FALSE, FALSE)
     /\ job.todo = <<Line(ToldTerminal(m)), Line(ToldDone(m)), Reports[1], Reports[2]>>
  \/ EndTold(s, m, TRUE, FALSE) /\ job.todo = <<Line(ToldDone(m)), Reports[1], Reports[2]>>
  \/ EndTold(s, m, TRUE, TRUE) /\ job.todo = Reports
  \/ EndTold(s, m, TRUE, TRUE) /\ job.todo = <<Reports[2]>> /\ Published("json") \in disk.whole

ReportUnderway(s, m) ==
  /\ m \in Summaries /\ MayConclude(memory, m) /\ Unharmed(s, {})
  /\ job.leaves = [memory EXCEPT !.terminal = Versioned, !.report = FinalReport(m)]
  /\ memory.report = NoReport /\ EndWrites(s, m)

StoreConcluded(s, m) ==
  /\ job.todo = <<>> /\ m \in Summaries /\ MayConclude(memory, m) /\ Unharmed(s, {})
  /\ EndTold(s, m, TRUE, TRUE) /\ memory.report = Report(memory, m, Open(memory))
  /\ job.leaves.report = memory.report
  /\ {Published("json"), Published("md")} \subseteq disk.whole

\* Where the store is, given a reading s of its journal.
StoreStage(s) ==
  \/ StoreRests(s) \/ StoreStopped(s) \/ LineUnderway(s) \/ ResultUnderway(s)
  \/ \E m \in Summaries : ReportUnderway(s, m) \/ StoreConcluded(s, m)

KnownWorkflow == workflow \in {"plain", "discovery", "versioned", "owned_lab"}

LEMMA RulesAreKnown ==
  ASSUME KnownWorkflow
  PROVE  /\ MaxExecutions \in Nat /\ MaxEvents \in Nat
         /\ workflow = "plain" => ~Versioned /\ MaxExecutions = 2 /\ MaxEvents = 5
         /\ workflow = "discovery" => ~Versioned /\ MaxExecutions = 3 /\ MaxEvents = 7
         /\ workflow = "versioned" => Versioned /\ MaxExecutions = 3 /\ MaxEvents = 11
         /\ workflow = "owned_lab" => Versioned /\ MaxExecutions = 3 /\ MaxEvents = 12
BY DEF KnownWorkflow, MaxExecutions, MaxEvents, Versioned

LEMMA ReadFields ==
  ASSUME NEW s \in Reads
  PROVE  /\ s.records \in Seq(Values) /\ Len(s.records) \in Nat /\ DOMAIN s.records = 1 .. Len(s.records)
         /\ s.decisions \in Seq(Values) /\ Len(s.decisions) \in Nat
         /\ s.closed \in BOOLEAN /\ s.broken \in BOOLEAN
         /\ s.terminal \in Summaries /\ s.summary \in Summaries /\ s.named \subseteq Names
         /\ DOMAIN s = {"records", "decisions", "closed", "terminal", "summary", "named", "broken"}
BY DEF Reads

\* No workflow allows more lines than the inspection reads.
LEMMA TallyIsBounded ==
  ASSUME NEW s, HonestReading(s), KnownWorkflow
  PROVE  Tally(s) \in Nat /\ Tally(s) <= MaxEvents
<1>1. /\ Len(s.records) \in Nat /\ Len(s.decisions) \in Nat /\ Len(s.records) <= MaxExecutions
      /\ Len(s.decisions) <= 3 /\ (~Versioned => Len(s.decisions) = 0 /\ s.terminal = NoSummary)
      /\ s.closed => workflow = "owned_lab"
  BY ReadFields DEF HonestReading, OrderedReading
<1>2. /\ OneIf(Pending(s)) \in {0, 1} /\ OneIf(s.closed) \in {0, 1}
      /\ OneIf(s.terminal # NoSummary) \in {0, 1} /\ OneIf(s.summary # NoSummary) \in {0, 1}
      /\ (~s.closed => OneIf(s.closed) = 0)
      /\ (s.terminal = NoSummary => OneIf(s.terminal # NoSummary) = 0)
  BY DEF OneIf
<1>3. OneIf(Pending(s)) <= Len(s.records)
  <2>1. CASE Len(s.records) = 0
    <3>1. ~Pending(s)
      BY <2>1, ReadFields DEF Pending, HonestReading
    <3> QED BY <3>1, <2>1 DEF OneIf
  <2> QED BY <1>1, <1>2, <2>1
<1> DEFINE a == Len(s.decisions)
           b == Len(s.records)
           p == OneIf(Pending(s))
           c == OneIf(s.closed)
           d == OneIf(s.terminal # NoSummary)
           f == OneIf(s.summary # NoSummary)
<1>4. a \in Nat /\ b \in Nat /\ p \in {0, 1} /\ c \in {0, 1} /\ d \in {0, 1} /\ f \in {0, 1}
      /\ p <= b /\ b <= MaxExecutions /\ a <= 3 /\ (~Versioned => a = 0 /\ d = 0)
      /\ (workflow # "owned_lab" => c = 0)
  BY <1>1, <1>2, <1>3
<1>5. Tally(s) = a + b + b - p + (c + d + f)
  BY DEF Tally, EndLines
<1> HIDE DEF a, b, p, c, d, f
<1>6. CASE workflow = "plain"
  BY <1>4, <1>5, <1>6, RulesAreKnown
<1>7. CASE workflow = "discovery"
  BY <1>4, <1>5, <1>7, RulesAreKnown
<1>8. CASE workflow = "versioned"
  BY <1>4, <1>5, <1>8, RulesAreKnown
<1>9. CASE workflow = "owned_lab"
  BY <1>4, <1>5, <1>9, RulesAreKnown
<1> QED BY <1>6, <1>7, <1>8, <1>9 DEF KnownWorkflow

\* Only the last execution is open, if any is.
LEMMA OpenIsLast ==
  ASSUME NEW s, s \in Reads, OrderedReading(s)
  PROVE  /\ Pending(s) <=> Len(s.records) > 0 /\ s.records[Len(s.records)] = "started"
         /\ Pending(s) => \A n \in 1 .. Len(s.records) :
                            s.records[n] = "started" <=> n = Len(s.records)
BY ReadFields DEF Pending, OrderedReading

\* A line that follows is read, and leaves an honest reading that is one line longer.
Honestly(s, e) ==
  /\ e \in Events /\ Follows(s, e)
  /\ e.kind = "finished" => e.value \in STATUSES

ReadHonestly(s, e) ==
  /\ HonestReading(Read(s, e)) /\ Tally(Read(s, e)) = Tally(s) + 1
  /\ Read(s, e).named = s.named \cup (IF e.kind = "finished" THEN {Result(e.step)} ELSE {})

LEMMA ReadWhatFollows ==
  ASSUME NEW s, HonestReading(s), NEW e, Honestly(s, e)
  PROVE  Read(s, e) =
           CASE e.kind = "decision" -> [s EXCEPT !.decisions = Append(@, e.value)]
             [] e.kind = "started"  -> [s EXCEPT !.records = Append(@, "started")]
             [] e.kind = "finished" -> [s EXCEPT !.records[e.step] = e.value,
                                                 !.named = @ \cup {Result(e.step)}]
             [] e.kind = "closed"   -> [s EXCEPT !.closed = TRUE]
             [] e.kind = "terminal" -> [s EXCEPT !.terminal = e.summary]
             [] e.kind = "done"     -> [s EXCEPT !.summary = e.summary]
<1> HIDE DEF Follows
<1> QED BY DEF Read, HonestReading, Honestly

LEMMA TallyParts ==
  ASSUME NEW s, s \in Reads
  PROVE  /\ Len(s.records) \in Nat /\ Len(s.decisions) \in Nat
         /\ OneIf(Pending(s)) \in {0, 1} /\ EndLines(s) \in Nat
<1>2. EndLines(s) \in Nat
  <2>1. OneIf(s.closed) \in {0, 1} /\ OneIf(s.terminal # NoSummary) \in {0, 1}
        /\ OneIf(s.summary # NoSummary) \in {0, 1}
    BY DEF OneIf
  <2> QED BY <2>1 DEF EndLines
<1>3. OneIf(Pending(s)) \in {0, 1}
  BY DEF OneIf
<1> QED BY <1>2, <1>3, ReadFields

LEMMA SameEndLines ==
  ASSUME NEW s, NEW t, t.closed = s.closed, t.terminal = s.terminal, t.summary = s.summary
  PROVE  EndLines(t) = EndLines(s)
BY DEF EndLines

\* The sum, from its parts.
LEMMA TallyIsOneMore ==
  ASSUME NEW s \in Reads, NEW t \in Reads,
         \/ /\ Len(t.decisions) = Len(s.decisions) + 1 /\ Len(t.records) = Len(s.records)
            /\ OneIf(Pending(t)) = OneIf(Pending(s)) /\ EndLines(t) = EndLines(s)
         \/ /\ Len(t.decisions) = Len(s.decisions) /\ Len(t.records) = Len(s.records) + 1
            /\ OneIf(Pending(t)) = 1 /\ OneIf(Pending(s)) = 0 /\ EndLines(t) = EndLines(s)
         \/ /\ Len(t.decisions) = Len(s.decisions) /\ Len(t.records) = Len(s.records)
            /\ OneIf(Pending(t)) = 0 /\ OneIf(Pending(s)) = 1 /\ EndLines(t) = EndLines(s)
         \/ /\ Len(t.decisions) = Len(s.decisions) /\ Len(t.records) = Len(s.records)
            /\ OneIf(Pending(t)) = OneIf(Pending(s)) /\ EndLines(t) = EndLines(s) + 1
  PROVE  Tally(t) = Tally(s) + 1
<1> DEFINE x == Len(s.decisions)
           y == Len(s.records)
           z == EndLines(s)
           p == OneIf(Pending(s))
<1>1. x \in Nat /\ y \in Nat /\ z \in Nat /\ p \in {0, 1}
  BY TallyParts
<1>2. Tally(s) = x + y + y - p + z
  BY DEF Tally
<1>3. \/ Tally(t) = (x + 1) + y + y - p + z
      \/ Tally(t) = x + (y + 1) + (y + 1) - 1 + z /\ p = 0
      \/ Tally(t) = x + y + y - 0 + z /\ p = 1
      \/ Tally(t) = x + y + y - p + (z + 1)
  BY DEF Tally
<1> HIDE DEF x, y, z, p
<1> QED BY <1>1, <1>2, <1>3

LEMMA DecisionIsHonest ==
  ASSUME NEW s, HonestReading(s), KnownWorkflow, NEW e, Honestly(s, e), e.kind = "decision"
  PROVE  ReadHonestly(s, e)
<1> DEFINE t == Read(s, e)
<1>1. t = [s EXCEPT !.decisions = Append(@, e.value)]
  BY ReadWhatFollows
<1>2. s \in Reads /\ t \in Reads /\ OrderedReading(s) /\ ~s.broken /\ s.named = FinishedOf(s)
  BY ReadIsRead DEF HonestReading, Honestly
<1>3. /\ t.records = s.records /\ t.closed = s.closed /\ t.terminal = s.terminal
      /\ t.summary = s.summary /\ t.named = s.named /\ t.broken = s.broken
      /\ t.decisions = Append(s.decisions, e.value)
  BY <1>1, <1>2, ReadFields
<1>4. Len(t.decisions) = Len(s.decisions) + 1
  BY <1>2, <1>3, ReadFields DEF Honestly, Events
<1>5. Versioned /\ Len(s.decisions) < 3 /\ ~s.closed
  BY DEF Honestly, Follows, MayDecide
<1> HIDE DEF t
<1>6. Pending(t) = Pending(s) /\ FinishedOf(t) = FinishedOf(s)
  BY <1>3 DEF Pending, FinishedOf
<1>7. OrderedReading(t)
  BY <1>2, <1>3, <1>4, <1>5, <1>6, ReadFields DEF OrderedReading
<1>8. Tally(t) = Tally(s) + 1
  <2>1. EndLines(t) = EndLines(s) /\ OneIf(Pending(t)) = OneIf(Pending(s))
    BY <1>3, <1>6, SameEndLines
  <2>2. Len(t.records) = Len(s.records)
    BY <1>3
  <2> QED BY <1>2, <1>4, <2>1, <2>2, TallyIsOneMore
<1>9. HonestReading(t) /\ t.named = s.named \cup {}
  BY <1>2, <1>3, <1>6, <1>7 DEF HonestReading
<1> QED BY <1>8, <1>9 DEF ReadHonestly, t

LEMMA StartIsHonest ==
  ASSUME NEW s, HonestReading(s), KnownWorkflow, NEW e, Honestly(s, e), e.kind = "started"
  PROVE  ReadHonestly(s, e)
<1> DEFINE t == Read(s, e)
           L == Len(s.records)
<1>1. t = [s EXCEPT !.records = Append(@, "started")]
  BY ReadWhatFollows
<1>2. s \in Reads /\ t \in Reads /\ OrderedReading(s) /\ ~s.broken /\ s.named = FinishedOf(s)
  BY ReadIsRead DEF HonestReading, Honestly
<1>3. /\ t.decisions = s.decisions /\ t.closed = s.closed /\ t.terminal = s.terminal
      /\ t.summary = s.summary /\ t.named = s.named /\ t.broken = s.broken
      /\ t.records = Append(s.records, "started")
  BY <1>1, <1>2, ReadFields
<1>4. /\ Len(t.records) = L + 1 /\ L \in Nat /\ t.records[L + 1] = "started"
      /\ \A n \in 1 .. L : t.records[n] = s.records[n]
      /\ DOMAIN t.records = 1 .. (L + 1) /\ DOMAIN s.records = 1 .. L
  BY <1>2, <1>3, ReadFields DEF Values
<1>5. L < MaxExecutions /\ ~s.closed /\ ~Pending(s)
  BY DEF Honestly, Follows, MayStart
<1> HIDE DEF t, L
<1>6. \A n \in 1 .. L : s.records[n] # "started"
  BY <1>4, <1>5 DEF Pending
<1>7. Pending(t)
  BY <1>4 DEF Pending
<1>8. FinishedOf(t) = FinishedOf(s)
  <2>1. {k \in 1 .. (L + 1) : t.records[k] # "started"} = {k \in 1 .. L : s.records[k] # "started"}
    BY <1>4
  <2> QED BY <1>4, <2>1 DEF FinishedOf, L
<1>9. OrderedReading(t)
  <2>1. \A n \in 1 .. (L + 1) : t.records[n] = "started" => n = L + 1
    BY <1>4, <1>6
  <2>2. L + 1 <= MaxExecutions
    BY <1>4, <1>5, RulesAreKnown
  <2> QED BY <1>2, <1>3, <1>4, <1>5, <2>1, <2>2 DEF OrderedReading
<1>10. Tally(t) = Tally(s) + 1
  <2>1. OneIf(Pending(t)) = 1 /\ OneIf(Pending(s)) = 0
    BY <1>5, <1>7 DEF OneIf
  <2>2. EndLines(t) = EndLines(s)
    BY <1>3, SameEndLines
  <2>3. Len(t.decisions) = Len(s.decisions) /\ Len(t.records) = Len(s.records) + 1
    BY <1>3, <1>4 DEF L
  <2> QED BY <1>2, <2>1, <2>2, <2>3, TallyIsOneMore
<1>11. HonestReading(t) /\ t.named = s.named \cup {}
  BY <1>2, <1>3, <1>8, <1>9 DEF HonestReading
<1> QED BY <1>10, <1>11 DEF ReadHonestly, t

LEMMA FinishIsHonest ==
  ASSUME NEW s, HonestReading(s), KnownWorkflow, NEW e, Honestly(s, e), e.kind = "finished"
  PROVE  ReadHonestly(s, e)
<1> DEFINE t == Read(s, e)
           L == Len(s.records)
<1>1. t = [s EXCEPT !.records = [s.records EXCEPT ![e.step] = e.value],
                    !.named = @ \cup {Result(e.step)}]
  <2> HIDE DEF Follows
  <2>1. ~(s.broken \/ ~Follows(s, e))
    BY DEF HonestReading, Honestly
  <2> QED BY <2>1 DEF Read
<1>2. s \in Reads /\ t \in Reads /\ OrderedReading(s) /\ ~s.broken /\ s.named = FinishedOf(s)
  BY ReadIsRead DEF HonestReading, Honestly
<1>3. /\ t.decisions = s.decisions /\ t.closed = s.closed /\ t.terminal = s.terminal
      /\ t.summary = s.summary /\ t.named = s.named \cup {Result(e.step)} /\ t.broken = s.broken
      /\ t.records = [s.records EXCEPT ![e.step] = e.value]
  BY <1>1, <1>2, ReadFields
<1>4. Pending(s) /\ e.step = L /\ L \in Nat /\ e.value \in STATUSES /\ e.value \in Values
  BY <1>2, ReadFields DEF Honestly, Follows, Values
<1>5. /\ Len(t.records) = L
      /\ \A n \in 1 .. L : t.records[n] = IF n = L THEN e.value ELSE s.records[n]
  BY <1>2, <1>3, <1>4, ReadFields, ExceptKeeps
<1>6. L > 0 /\ \A n \in 1 .. L : s.records[n] = "started" <=> n = L
  BY <1>2, <1>4, OpenIsLast
<1>7. DOMAIN t.records = 1 .. L
  BY <1>2, <1>5, ReadFields
<1> HIDE DEF t, L
<1>8. "started" \notin STATUSES
  BY DEF STATUSES
<1>9. \A n \in 1 .. L : t.records[n] # "started"
  BY <1>4, <1>5, <1>6, <1>8
<1>10. ~Pending(t)
  BY <1>7, <1>9 DEF Pending
<1>11. FinishedOf(t) = FinishedOf(s) \cup {Result(e.step)}
  <2>1. {k \in 1 .. L : t.records[k] # "started"} = {k \in 1 .. L : s.records[k] # "started"} \cup {L}
    BY <1>4, <1>5, <1>6, <1>9
  <2>2. FinishedOf(t) = {Result(n) : n \in {k \in 1 .. L : s.records[k] # "started"} \cup {L}}
    BY <1>5, <2>1 DEF FinishedOf
  <2>3. FinishedOf(s) = {Result(n) : n \in {k \in 1 .. L : s.records[k] # "started"}}
    BY DEF FinishedOf, L
  <2> QED BY <1>4, <2>2, <2>3
<1>12. OrderedReading(t)
  BY <1>2, <1>3, <1>5, <1>9, <1>10 DEF OrderedReading, L
<1>13. Tally(t) = Tally(s) + 1
  <2>1. OneIf(Pending(t)) = 0 /\ OneIf(Pending(s)) = 1
    BY <1>4, <1>10 DEF OneIf
  <2>2. EndLines(t) = EndLines(s)
    BY <1>3, SameEndLines
  <2>3. Len(t.decisions) = Len(s.decisions) /\ Len(t.records) = Len(s.records)
    BY <1>3, <1>5 DEF L
  <2> QED BY <1>2, <2>1, <2>2, <2>3, TallyIsOneMore
<1>14. HonestReading(t)
  BY <1>2, <1>3, <1>11, <1>12 DEF HonestReading
<1> QED BY <1>3, <1>13, <1>14 DEF ReadHonestly, t

LEMMA SameExecutions ==
  ASSUME NEW s, NEW t, t.records = s.records
  PROVE  /\ Pending(t) = Pending(s) /\ FinishedOf(t) = FinishedOf(s)
         /\ OneIf(Pending(t)) = OneIf(Pending(s)) /\ Len(t.records) = Len(s.records)
<1>1. Pending(t) = Pending(s)
  BY DEF Pending
<1> QED BY <1>1 DEF FinishedOf

LEMMA EndIsHonest ==
  ASSUME NEW s, HonestReading(s), KnownWorkflow, NEW e, Honestly(s, e),
         e.kind \in {"closed", "terminal", "done"}
  PROVE  ReadHonestly(s, e)
<1> DEFINE t == Read(s, e)
<1>1. t = CASE e.kind = "closed"   -> [s EXCEPT !.closed = TRUE]
            [] e.kind = "terminal" -> [s EXCEPT !.terminal = e.summary]
            [] e.kind = "done"     -> [s EXCEPT !.summary = e.summary]
  <2> HIDE DEF Follows
  <2>1. ~(s.broken \/ ~Follows(s, e))
    BY DEF HonestReading, Honestly
  <2> QED BY <2>1 DEF Read
<1>2. s \in Reads /\ t \in Reads /\ OrderedReading(s) /\ ~s.broken /\ s.named = FinishedOf(s)
  BY ReadIsRead DEF HonestReading, Honestly
<1>3. /\ t.records = s.records /\ t.decisions = s.decisions /\ t.named = s.named
      /\ t.broken = s.broken
      /\ t.closed = IF e.kind = "closed" THEN TRUE ELSE s.closed
      /\ t.terminal = IF e.kind = "terminal" THEN e.summary ELSE s.terminal
      /\ t.summary = IF e.kind = "done" THEN e.summary ELSE s.summary
  BY <1>1, <1>2, ReadFields
<1>4. /\ s.summary = NoSummary
      /\ e.kind = "closed" => workflow = "owned_lab" /\ ~s.closed /\ ~Pending(s)
      /\ e.kind = "terminal" => Versioned /\ s.terminal = NoSummary /\ e.summary # NoSummary
      /\ e.kind = "done" => e.summary # NoSummary
  <2>1. Follows(s, e)
    BY DEF Honestly
  <2>2. s.summary = NoSummary /\ (s.terminal # NoSummary => e.kind = "done")
    BY <2>1 DEF Follows
  <2>3. e.kind = "closed" => MayClose(s)
    BY <2>1 DEF Follows
  <2>4. e.kind = "terminal" => Versioned /\ MayConclude(s, e.summary)
    BY <2>1 DEF Follows
  <2>5. e.kind = "done" => MayConclude(s, e.summary)
    BY <2>1 DEF Follows
  <2>6. MayConclude(s, e.summary) => e.summary # NoSummary
    BY DEF MayConclude, Reconciles, NoSummary
  <2>7. e.kind = "closed" => workflow = "owned_lab" /\ ~s.closed /\ ~Pending(s)
    BY <2>3 DEF MayClose
  <2> HIDE DEF MayConclude, NoSummary
  <2> QED BY <2>2, <2>4, <2>5, <2>6, <2>7
<1>5. /\ Pending(t) = Pending(s) /\ FinishedOf(t) = FinishedOf(s)
      /\ OneIf(Pending(t)) = OneIf(Pending(s)) /\ Len(t.records) = Len(s.records)
  BY <1>3, SameExecutions
<1> HIDE DEF t
<1>6. OrderedReading(t)
  BY <1>2, <1>3, <1>4, <1>5, RulesAreKnown DEF OrderedReading
<1>7. EndLines(t) = EndLines(s) + 1
  <2>1. s.closed \in BOOLEAN
    BY <1>2, ReadFields
  <2> DEFINE a(u) == OneIf(u.closed)
             b(u) == OneIf(u.terminal # NoSummary)
             c(u) == OneIf(u.summary # NoSummary)
  <2>2. a(s) \in {0, 1} /\ b(s) \in {0, 1} /\ c(s) = 0
    BY <1>4 DEF OneIf
  <2>3. CASE e.kind = "closed"
    <3>1. a(s) = 0 /\ a(t) = 1 /\ b(t) = b(s) /\ c(t) = c(s)
      BY <1>3, <1>4, <2>1, <2>3 DEF OneIf
    <3> HIDE DEF a, b, c
    <3> QED BY <2>2, <3>1 DEF EndLines, a, b, c
  <2>4. CASE e.kind = "terminal"
    <3>1. a(t) = a(s) /\ b(s) = 0 /\ b(t) = 1 /\ c(t) = c(s)
      BY <1>3, <1>4, <2>4 DEF OneIf
    <3> QED BY <2>2, <3>1 DEF EndLines
  <2>5. CASE e.kind = "done"
    <3>1. a(t) = a(s) /\ b(t) = b(s) /\ c(t) = 1
      BY <1>3, <1>4, <2>5 DEF OneIf
    <3> QED BY <2>2, <3>1 DEF EndLines
  <2> QED BY <2>3, <2>4, <2>5
<1>8. Tally(t) = Tally(s) + 1
  <2>1. Len(t.decisions) = Len(s.decisions)
    BY <1>3
  <2> QED BY <1>2, <1>5, <1>7, <2>1, TallyIsOneMore
<1>9. HonestReading(t) /\ t.named = s.named \cup {}
  BY <1>2, <1>3, <1>5, <1>6 DEF HonestReading
<1> QED BY <1>8, <1>9 DEF ReadHonestly, t

LEMMA ReadingStaysHonest ==
  ASSUME NEW s, HonestReading(s), KnownWorkflow, NEW e, Honestly(s, e)
  PROVE  ReadHonestly(s, e)
<1>1. e.kind \in {"decision", "started", "finished", "closed", "terminal", "done"}
  BY DEF Honestly, Events
<1> QED BY <1>1, DecisionIsHonest, StartIsHonest, FinishIsHonest, EndIsHonest

\* What is written, and what was read of it.
LEMMA HistoryIsRead ==
  ASSUME NEW s, s = ReadAll(disk.journal), JournalKept(s)
  PROVE  /\ History = s /\ Lines <= MaxEvents /\ KnownWorkflow
         /\ Len(disk.journal) \in Nat /\ Len(disk.journal) <= MaxEvents
<1>1. /\ KnownWorkflow /\ disk.journal \in Seq(Events) /\ disk.torn \in BOOLEAN
      /\ HonestReading(s) /\ Len(disk.journal) = Tally(s)
      /\ (disk.torn => Len(disk.journal) < MaxEvents)
  BY DEF JournalKept, KnownWorkflow
<1> DEFINE n == Len(disk.journal)
           read == {k \in DOMAIN disk.journal : k <= MaxEvents}
<1>2. n \in Nat /\ n <= MaxEvents /\ MaxEvents \in Nat
  BY <1>1, TallyIsBounded, RulesAreKnown
<1>3. Lines <= MaxEvents
  BY <1>1, <1>2 DEF Lines
<1>4. read = 1 .. n
  BY <1>1, <1>2
<1>5. Cardinality(read) = n
  <2> HIDE DEF n, read
  <2>1. Cardinality(1 .. n) = IF 1 > n THEN 0 ELSE n - 1 + 1
    BY <1>2, FS_Interval
  <2> QED BY <1>2, <1>4, <2>1
<1>6. SubSeq(disk.journal, 1, n) = disk.journal
  <2> DEFINE j == disk.journal
  <2>1. j \in Seq(Events) /\ n = Len(j)
    BY <1>1
  <2> HIDE DEF j
  <2>2. SubSeq(j, 1, Len(j)) = j
    BY <2>1
  <2> QED BY <2>1, <2>2 DEF j
<1>7. History = s
  BY <1>5, <1>6 DEF History
<1> QED BY <1>1, <1>2, <1>3, <1>7

\* The inductive invariant: the journal reads as something the store is a stage of.
Recovers(s) == s = ReadAll(disk.journal) /\ JournalKept(s) /\ StoreStage(s)

RecordsRecover == \E s \in Reads : Recovers(s)

\* What every stage tells of the reading and of the report.
LEMMA StagesTell ==
  ASSUME NEW s, StoreStage(s)
  PROVE  /\ SameRecords(s, memory) \/ SameRecords(s, job.leaves)
         /\ Usable => SameRecords(s, memory)
         /\ memory.report # NoReport => \E m \in Summaries : StoreConcluded(s, m)
<1>1. CASE StoreRests(s)
  BY <1>1 DEF StoreRests, Unharmed, NotEnded
<1>2. CASE StoreStopped(s)
  BY <1>2 DEF StoreStopped, Usable
<1>3. CASE LineUnderway(s)
  BY <1>3 DEF LineUnderway, Unharmed, NotEnded
<1>4. CASE ResultUnderway(s)
  BY <1>4 DEF ResultUnderway, Unharmed, NotEnded
<1>5. CASE \E m \in Summaries : ReportUnderway(s, m)
  BY <1>5 DEF ReportUnderway, Unharmed
<1>6. CASE \E m \in Summaries : StoreConcluded(s, m)
  BY <1>6 DEF StoreConcluded, Unharmed
<1> QED BY <1>1, <1>2, <1>3, <1>4, <1>5, <1>6 DEF StoreStage

LEMMA OrphansAreReported ==
  ASSUME NEW f \in Files, f.file = "result", f \notin History.named
  PROVE  "orphan_artifacts_present" \in Inspection.issues
<1> DEFINE s == History
<1>1. "orphan_artifacts_present" \in IssuesOf(s)
  BY DEF IssuesOf
<1> HIDE DEF s
<1>2. \A issues : Report(s, s.summary, issues).issues = issues
  BY DEF Report
<1>3. \E issues : Inspection = Report(s, s.summary, issues) /\ IssuesOf(s) \subseteq issues
  BY DEF Inspection, s
<1> QED BY <1>1, <1>2, <1>3

LEMMA RecoveryIsWhatIsAsked ==
  ASSUME RecordsRecover
  PROVE  InspectionRecovers
<1>1. PICK s \in Reads : Recovers(s)
  BY DEF RecordsRecover
<1>2. History = s /\ Lines <= MaxEvents
  BY <1>1, HistoryIsRead DEF Recovers
<1>3. ~s.broken
  BY <1>1 DEF Recovers, JournalKept, HonestReading
<1>4. /\ SameRecords(s, memory) \/ SameRecords(s, job.leaves)
      /\ Usable => SameRecords(s, memory)
  BY <1>1, StagesTell DEF Recovers
<1> HIDE DEF History, Inspection, Files, Usable, Lines
<1>5. \A f \in Files : f.file = "result" /\ f \notin s.named =>
        "orphan_artifacts_present" \in Inspection.issues
  BY <1>2, OrphansAreReported
<1> QED BY <1>2, <1>3, <1>4, <1>5 DEF InspectionRecovers, SameRecords

LEMMA ConclusiveIsWhole ==
  ASSUME NEW s \in Reads, Recovers(s), Inspection.conclusive
  PROVE  /\ {Published("json"), Published("md")} \subseteq disk.whole
         /\ \A n \in 1 .. MaxExecutions : Result(n) \in disk.whole
<1> DEFINE report == Report(s, s.summary, IssuesOf(s))
<1>1. History = s /\ HonestReading(s) /\ s.named \subseteq disk.whole
  BY HistoryIsRead DEF Recovers, JournalKept
<1>2. Inspection = IF s.summary = NoSummary \/ Matches(report) THEN report
                   ELSE Report(s, s.summary, IssuesOf(s) \cup {"report_missing_or_mismatched"})
  BY <1>1 DEF Inspection
<1> HIDE DEF Inspection
<1>3. \A issues : Report(s, s.summary, issues).conclusive =>
        issues = {} /\ s.summary # NoSummary /\ Reason(s, s.summary) = "concluded"
  BY DEF Report
<1>4. s.summary # NoSummary /\ Reason(s, s.summary) = "concluded"
  <2> HIDE DEF report
  <2>1. \E issues : Inspection = Report(s, s.summary, issues)
    BY <1>2 DEF report
  <2> HIDE DEF Report, Reason
  <2> QED BY <1>3, <2>1
<1>5. Matches(report)
  <2>1. CASE ~Matches(report)
    <3> HIDE DEF report
    <3>1. Inspection = Report(s, s.summary, IssuesOf(s) \cup {"report_missing_or_mismatched"})
      BY <1>2, <1>4, <2>1
    <3> HIDE DEF Report, IssuesOf
    <3>2. IssuesOf(s) \cup {"report_missing_or_mismatched"} = {}
      BY <1>3, <3>1
    <3> QED BY <3>2
  <2> QED BY <2>1
<1>6. {Published("json"), Published("md")} \subseteq disk.whole
  BY <1>5 DEF Matches
<1>7. Complete(s)
  BY <1>4 DEF Reason
<1>8. ASSUME NEW n \in 1 .. MaxExecutions PROVE Result(n) \in disk.whole
  <2>1. Len(s.records) = MaxExecutions /\ DOMAIN s.records = 1 .. Len(s.records)
    BY <1>7, ReadFields DEF Complete
  <2>2. s.records[n] = "expected"
    BY <1>7, <2>1 DEF Complete
  <2>3. Result(n) \in FinishedOf(s)
    BY <2>1, <2>2 DEF FinishedOf
  <2> QED BY <1>1, <2>3 DEF HonestReading
<1> QED BY <1>6, <1>8

LEMMA ReportsReplay ==
  ASSUME NEW s \in Reads, Recovers(s), memory.report # NoReport
  PROVE  Inspection = memory.report
<1>1. PICK m \in Summaries : StoreConcluded(s, m)
  BY StagesTell DEF Recovers
<1>2. /\ History = s /\ Lines <= MaxEvents /\ KnownWorkflow /\ ~s.broken /\ OrderedReading(s)
      /\ MayConclude(memory, m) /\ ~disk.torn /\ disk.partial = {} /\ Results = s.named
      /\ SameRecords(s, memory) /\ EndTold(s, m, TRUE, TRUE)
      /\ memory.report = Report(memory, m, Open(memory)) /\ job.leaves.report = memory.report
      /\ {Published("json"), Published("md")} \subseteq disk.whole
  BY <1>1, HistoryIsRead DEF Recovers, JournalKept, HonestReading, StoreConcluded, Unharmed
<1>3. m # NoSummary
  BY <1>2 DEF MayConclude, Reconciles, NoSummary
<1>4. s.summary = m /\ (Versioned => s.terminal = m) /\ (workflow = "owned_lab" => s.closed)
  BY <1>2 DEF EndTold, MayConclude, SameRecords
<1>5. IssuesOf(s) = Open(memory)
  <2>1. Open(s) = Open(memory)
    BY <1>2, SameExecutions DEF Open, SameRecords
  <2>2. ~(Lines > MaxEvents)
    <3>1. MaxEvents \in Nat /\ Lines \in Nat
      BY <1>2, RulesAreKnown, HistoryIsRead DEF Lines, Recovers
    <3> QED BY <1>2, <3>1
  <2>3. ~Broken
    BY <1>2 DEF Broken
  <2>4. ~\E f \in Files : f.file = "result" /\ f \notin s.named
    BY <1>2 DEF Files, Results
  <2> HIDE DEF Open
  <2> QED BY <1>3, <1>4, <2>1, <2>2, <2>3, <2>4 DEF IssuesOf
<1>6. Report(s, s.summary, IssuesOf(s)) = memory.report
  <2>1. Complete(s) = Complete(memory)
    BY <1>2 DEF Complete, SameRecords
  <2>2. Reason(s, m) = Reason(memory, m)
    BY <2>1 DEF Reason
  <2> QED BY <1>2, <1>4, <1>5, <2>2 DEF Report, SameRecords
<1>7. Matches(memory.report)
  BY <1>2 DEF Matches
<1> HIDE DEF Report
<1> QED BY <1>2, <1>6, <1>7 DEF Inspection

LEMMA ReplayIsWhatIsAsked ==
  ASSUME RecordsRecover
  PROVE  PublishedReportReplays
<1>1. PICK s \in Reads : Recovers(s)
  BY DEF RecordsRecover
<1> HIDE DEF Inspection
<1> QED BY <1>1, ConclusiveIsWhole, ReportsReplay DEF PublishedReportReplays

\* The reading after a step.
LEMMA NothingMoreIsRead ==
  ASSUME NEW s, s = ReadAll(disk.journal), JournalKept(s), workflow' = workflow,
         disk'.journal = disk.journal, disk.whole \subseteq disk'.whole
  PROVE  s = ReadAll(disk.journal)'
<1>1. PICK j : j = disk.journal
  OBVIOUS
<1>2. j \in Seq(Events) /\ \A n \in 1 .. Len(j) : j[n].kind = "finished" => Result(j[n].step) \in disk.whole
  BY <1>1 DEF JournalKept
<1>3. PICK e : e \in Events
  <2>1. Event("done", 0, "done", NoSummary) \in Events
    BY DEF Event, Events, Values, Summaries, NoSummary
  <2> QED BY <2>1
<1>4. \A n \in 1 .. Len(j) : \A h \in Reads : Read(h, j[n])' = Read(h, j[n])
  BY <1>2, LinesReadTheSame
<1>5. ReadAll(j)' = ReadAll(j)
  <2> HIDE DEF Read, ReadAll
  <2> QED BY <1>2, <1>3, <1>4, ReadingGoesOn
<1>6. j = disk'.journal
  BY <1>1
<1>7. ReadAll(j)' = ReadAll(disk.journal)'
  BY <1>6
<1>8. ReadAll(j) = ReadAll(disk.journal)
  BY <1>1
<1> HIDE DEF ReadAll
<1> QED BY <1>5, <1>7, <1>8

LEMMA OneMoreIsRead ==
  ASSUME NEW s, s = ReadAll(disk.journal), JournalKept(s), workflow' = workflow,
         NEW e \in Events, e.kind = "finished" => Result(e.step) \in disk.whole,
         disk'.journal = Append(disk.journal, e), disk.whole \subseteq disk'.whole
  PROVE  Read(s, e) = ReadAll(disk.journal)'
<1>1. PICK j : j = disk.journal
  OBVIOUS
<1>2. j \in Seq(Events) /\ \A n \in 1 .. Len(j) : j[n].kind = "finished" => Result(j[n].step) \in disk.whole
  BY <1>1 DEF JournalKept
<1>3. \A n \in 1 .. Len(j) : \A h \in Reads : Read(h, j[n])' = Read(h, j[n])
  BY <1>2, LinesReadTheSame
<1>4. ReadAll(Append(j, e))' = Read(ReadAll(j), e)'
  <2> HIDE DEF Read, ReadAll
  <2> QED BY <1>2, <1>3, ReadingGoesOn
<1>5. s = ReadAll(j)
  BY <1>1
<1>6. Read(ReadAll(j), e)' = Read(s, e)'
  <2>1. PICK k : k = Append(j, e)
    OBVIOUS
  <2>2. ReadAll(j)' = ReadAll(j)
    <3> HIDE DEF Read, ReadAll
    <3> QED BY <1>2, <1>3, ReadingGoesOn
  <2>3. ReadAll(j)' = s
    BY <1>5, <2>2
  <2> QED BY <2>3
<1>7. Read(s, e)' = Read(s, e)
  BY LinesReadTheSame
<1>8. PICK k : k = Append(j, e)
  OBVIOUS
<1>9. ReadAll(k)' = ReadAll(disk.journal)'
  <2>1. k = disk'.journal
    BY <1>1, <1>8
  <2> QED BY <2>1
<1>10. ReadAll(k)' = ReadAll(Append(j, e))'
  BY <1>8
<1> HIDE DEF ReadAll, Read
<1> QED BY <1>4, <1>6, <1>7, <1>9, <1>10

\* Whether a reading is honest depends on nothing but the workflow.
LEMMA HonestyStays ==
  ASSUME workflow' = workflow, NEW s
  PROVE  /\ HonestReading(s)' = HonestReading(s) /\ Tally(s)' = Tally(s) /\ MaxEvents' = MaxEvents
         /\ KnownWorkflow' = KnownWorkflow
<1>1. Versioned' = Versioned /\ MaxEvents' = MaxEvents /\ MaxExecutions' = MaxExecutions
  BY RulesStay
<1>2. OrderedReading(s)' = OrderedReading(s)
  BY <1>1 DEF OrderedReading, Pending
<1>3. HonestReading(s)' = HonestReading(s)
  BY <1>2 DEF HonestReading, FinishedOf, Reads, Values, Summaries, Names, STATUSES
<1> QED BY <1>1, <1>3 DEF KnownWorkflow, Tally, EndLines, OneIf, Pending

KeptShape ==
  /\ DOMAIN disk = {"journal", "torn", "whole", "partial"}
  /\ DOMAIN job = {"todo", "leaves", "works"} /\ DOMAIN memory = DOMAIN Blank
  /\ disk.torn \in BOOLEAN /\ job.works \in BOOLEAN

\* The journal stays as it must be, or grows by a line.
LEMMA JournalStaysKept ==
  ASSUME NEW s, NEW t, JournalKept(s), HonestReading(t), t.named \subseteq disk'.whole,
         workflow' = workflow, KeptShape', disk.whole \subseteq disk'.whole,
         \/ disk'.journal = disk.journal /\ t = s
         \/ \E e \in Events :
              /\ disk'.journal = Append(disk.journal, e) /\ Tally(t) = Tally(s) + 1
              /\ e.kind = "finished" => Result(e.step) \in disk'.whole,
         disk'.torn => Len(disk'.journal) < MaxEvents
  PROVE  JournalKept(t)'
<1>1. PICK j, k : j = disk.journal /\ k = disk'.journal
  OBVIOUS
<1>2. /\ HonestReading(t)' = HonestReading(t) /\ Tally(t)' = Tally(t) /\ MaxEvents' = MaxEvents
      /\ KnownWorkflow' = KnownWorkflow
  BY HonestyStays
<1>3. /\ j \in Seq(Events) /\ Len(j) = Tally(s) /\ KnownWorkflow
      /\ \A n \in 1 .. Len(j) : j[n].kind = "finished" => Result(j[n].step) \in disk.whole
  BY <1>1 DEF JournalKept, KnownWorkflow
<1>4. /\ k \in Seq(Events) /\ Len(k) = Tally(t)
      /\ \A n \in 1 .. Len(k) : k[n].kind = "finished" => Result(k[n].step) \in disk'.whole
  <2>1. CASE disk'.journal = disk.journal /\ t = s
    BY <1>1, <1>3, <2>1
  <2>2. CASE ~(disk'.journal = disk.journal /\ t = s)
    <3>1. PICK e \in Events :
            /\ disk'.journal = Append(disk.journal, e) /\ Tally(t) = Tally(s) + 1
            /\ e.kind = "finished" => Result(e.step) \in disk'.whole
      BY <2>2
    <3>2. k = Append(j, e)
      BY <1>1, <3>1
    <3>3. k \in Seq(Events) /\ Len(k) = Len(j) + 1 /\ k[Len(j) + 1] = e
          /\ \A n \in 1 .. Len(j) : k[n] = j[n]
      BY <1>3, <3>2
    <3>4. ASSUME NEW n \in 1 .. Len(k), k[n].kind = "finished" PROVE Result(k[n].step) \in disk'.whole
      <4>1. n \in 1 .. Len(j) \/ n = Len(j) + 1
        BY <1>3, <3>3
      <4> QED BY <1>3, <3>1, <3>3, <3>4, <4>1
    <3> HIDE DEF Tally
    <3> QED BY <1>3, <3>1, <3>3, <3>4
  <2> QED BY <2>1, <2>2
<1> HIDE DEF HonestReading, Tally, Events, Result
<1> QED BY <1>1, <1>2, <1>3, <1>4 DEF JournalKept, KeptShape, KnownWorkflow

\* The rules ask a reading and the store the same, when they have the same records.
LEMMA SameRules ==
  ASSUME NEW s, NEW h, SameRecords(s, h), NEW m
  PROVE  /\ Pending(s) = Pending(h) /\ MayDecide(s) = MayDecide(h) /\ MayStart(s) = MayStart(h)
         /\ MayClose(s) = MayClose(h) /\ MayConclude(s, m) = MayConclude(h, m)
         /\ Reason(s, m) = Reason(h, m) /\ Proposal(s) = Proposal(h)
<1>1. s.records = h.records /\ s.decisions = h.decisions /\ s.closed = h.closed
  BY DEF SameRecords
<1>2. Pending(s) = Pending(h)
  BY <1>1 DEF Pending
<1>3. MayDecide(s) = MayDecide(h) /\ MayStart(s) = MayStart(h) /\ MayClose(s) = MayClose(h)
  BY <1>1, <1>2 DEF MayDecide, MayStart, MayClose
<1>4. MayConclude(s, m) = MayConclude(h, m)
  BY <1>1 DEF MayConclude, Reconciles, Successes
<1>5. Reason(s, m) = Reason(h, m) /\ Proposal(s) = Proposal(h)
  BY <1>1 DEF Reason, Complete, Proposal
<1> QED BY <1>2, <1>3, <1>4, <1>5

LEMMA RulesStayWithMemory ==
  ASSUME workflow' = workflow, memory' = memory, NEW m
  PROVE  /\ MayConclude(memory, m)' = MayConclude(memory, m) /\ Ending(m)' = Ending(m)
         /\ FinalReport(m)' = FinalReport(m) /\ Versioned' = Versioned
         /\ \A status : FinishedBy(status)' = FinishedBy(status)
         /\ Pending(memory)' = Pending(memory)
<1>1. Versioned' = Versioned /\ MaxExecutions' = MaxExecutions
  BY DEF Versioned, MaxExecutions
<1>2. Reason(memory, m)' = Reason(memory, m)
  BY <1>1 DEF Reason, Complete
<1>3. Ending(m)' = Ending(m)
  BY <1>1, <1>2 DEF Ending
<1>4. FinalReport(m)' = FinalReport(m)
  BY <1>2 DEF FinalReport, Report, Open, Pending
<1>5. MayConclude(memory, m)' = MayConclude(memory, m)
  BY <1>1 DEF MayConclude, Reconciles, Successes
<1>6. \A status : FinishedBy(status)' = FinishedBy(status)
  BY DEF FinishedBy
<1> QED BY <1>1, <1>3, <1>4, <1>5, <1>6 DEF Pending

\* Short lists of writes.
LEMMA Tuples ==
  ASSUME NEW a, NEW b, NEW c, NEW d
  PROVE  /\ <<a>> # <<>> /\ Head(<<a>>) = a /\ Tail(<<a>>) = <<>> /\ Len(<<a>>) = 1
         /\ <<a, b>> # <<>> /\ Head(<<a, b>>) = a /\ Tail(<<a, b>>) = <<b>> /\ Len(<<a, b>>) = 2
         /\ <<a, b, c>> # <<>> /\ Head(<<a, b, c>>) = a /\ Tail(<<a, b, c>>) = <<b, c>>
         /\ Len(<<a, b, c>>) = 3
         /\ <<a, b, c, d>> # <<>> /\ Head(<<a, b, c, d>>) = a
         /\ Tail(<<a, b, c, d>>) = <<b, c, d>> /\ Len(<<a, b, c, d>>) = 4
<1>1. Len(<<a>>) = 1 /\ Len(<<a, b>>) = 2 /\ Len(<<a, b, c>>) = 3 /\ Len(<<a, b, c, d>>) = 4
      /\ Len(<<>>) = 0
  OBVIOUS
<1>2. <<a>> # <<>> /\ <<a, b>> # <<>> /\ <<a, b, c>> # <<>> /\ <<a, b, c, d>> # <<>>
  BY <1>1
<1>3. Head(<<a>>) = a /\ Head(<<a, b>>) = a /\ Head(<<a, b, c>>) = a /\ Head(<<a, b, c, d>>) = a
  OBVIOUS
<1>4. /\ Tail(<<a, b, c, d>>) = <<b, c, d>> /\ Tail(<<a, b, c>>) = <<b, c>>
      /\ Tail(<<a, b>>) = <<b>> /\ Tail(<<a>>) = <<>>
  OBVIOUS
<1> QED BY <1>1, <1>2, <1>3, <1>4

LEMMA EndingIs ==
  ASSUME NEW m
  PROVE  /\ Versioned => Ending(m) = <<Line(ToldTerminal(m)), Line(ToldDone(m)), Reports[1], Reports[2]>>
         /\ ~Versioned => Ending(m) = <<Line(ToldDone(m)), Reports[1], Reports[2]>>
<1>1. ASSUME NEW a, NEW b, NEW c, NEW d PROVE <<a>> \o <<b, c, d>> = <<a, b, c, d>>
  <2> DEFINE S == {a, b, c, d}
             q == <<a>> \o <<b, c, d>>
  <2>1. <<a>> \in Seq(S) /\ <<b, c, d>> \in Seq(S)
    OBVIOUS
  <2>2. q \in Seq(S) /\ Len(q) = 4
        /\ \A i \in 1 .. 4 : q[i] = IF i <= 1 THEN <<a>>[i] ELSE <<b, c, d>>[i - 1]
    <3> HIDE DEF S
    <3> QED BY <2>1, ConcatProperties
  <2> HIDE DEF q
  <2>3. q[1] = a /\ q[2] = b /\ q[3] = c /\ q[4] = d
    BY <2>2
  <2>4. q = <<a, b, c, d>>
    BY <2>2, <2>3
  <2> QED BY <2>4 DEF q
<1>2. \A b, c, d : << >> \o <<b, c, d>> = <<b, c, d>>
  OBVIOUS
<1>3. Reports[1] = File(Published("json")) /\ Reports[2] = File(Published("md"))
  BY DEF Reports
<1>4. Ending(m) = (IF Versioned THEN <<Line(ToldTerminal(m))>> ELSE <<>>)
                    \o <<Line(ToldDone(m)), Reports[1], Reports[2]>>
  <2> HIDE DEF Versioned, Reason, File, Line, Published
  <2> QED BY <1>3 DEF Ending, ToldTerminal, ToldDone
<1> HIDE DEF Ending, ToldTerminal, ToldDone, Line, Reports, Versioned
<1>5. CASE Versioned
  BY <1>1, <1>4, <1>5
<1>6. CASE ~Versioned
  BY <1>2, <1>4, <1>6
<1> QED BY <1>5, <1>6

\* A store that takes an operation is at rest.
LEMMA UsableRests ==
  ASSUME NEW s, StoreStage(s), Usable
  PROVE  StoreRests(s)
<1>1. job.works /\ job.todo = <<>> /\ memory.report = NoReport
  BY DEF Usable
<1>2. ~StoreStopped(s)
  BY <1>1 DEF StoreStopped
<1>3. ~LineUnderway(s)
  BY <1>1 DEF LineUnderway
<1>4. ~ResultUnderway(s)
  <2>1. \A status : FinishedBy(status).writes # <<>>
    BY Tuples DEF FinishedBy
  <2> QED BY <1>1, <2>1 DEF ResultUnderway
<1>5. ASSUME NEW m \in Summaries PROVE ~ReportUnderway(s, m) /\ ~StoreConcluded(s, m)
  <2>1. ~ReportUnderway(s, m)
    <3>1. ASSUME NEW a, NEW b, NEW c, NEW d
          PROVE  <<a>> # <<>> /\ <<a, b>> # <<>> /\ <<a, b, c>> # <<>> /\ <<a, b, c, d>> # <<>>
      BY Tuples
    <3> QED BY <1>1, <3>1 DEF ReportUnderway, EndWrites, Reports
  <2>2. ~StoreConcluded(s, m)
    <3>1. MayConclude(memory, m) => m # NoSummary
      BY DEF MayConclude, Reconciles, NoSummary
    <3>2. Report(memory, m, Open(memory)).summary = m /\ NoReport.summary = NoSummary
      BY DEF Report, NoReport
    <3> HIDE DEF MayConclude, Report, NoReport
    <3> QED BY <1>1, <3>1, <3>2 DEF StoreConcluded
  <2> QED BY <2>1, <2>2
<1> QED BY <1>2, <1>3, <1>4, <1>5 DEF StoreStage

LEMMA RecordsBegin ==
  ASSUME EvidenceInit
  PROVE  RecordsRecover
<1>1. disk.journal = <<>> /\ ReadAll(disk.journal) = Unread
  BY ReadingBegins DEF EvidenceInit
<1>2. workflow \in {"plain", "discovery", "versioned", "owned_lab"} /\ KnownWorkflow
  BY EvidenceAssumption DEF EvidenceInit, KnownWorkflow
<1>3. OrderedReading(Unread)
  BY <1>2, RulesAreKnown DEF OrderedReading, Unread
<1>4. FinishedOf(Unread) = {}
  BY DEF FinishedOf, Unread
<1>5. ~Pending(Unread)
  BY DEF Pending, Unread
<1>6. Tally(Unread) = 0
  <2>1. EndLines(Unread) = 0
    BY DEF EndLines, Unread, OneIf
  <2> QED BY <1>5, <2>1 DEF Tally, Unread, OneIf
<1>7. HonestReading(Unread)
  BY <1>3, <1>4, UnreadIsRead DEF HonestReading, Unread
<1>8. JournalKept(Unread)
  <2>1. Unread.named = {}
    BY DEF Unread
  <2> QED BY <1>1, <1>2, <1>6, <1>7, <2>1 DEF JournalKept, EvidenceInit
<1>9. StoreRests(Unread)
  BY DEF StoreRests, Unharmed, NotEnded, Results, SameRecords, EvidenceInit, Unread, Blank
<1> HIDE DEF StoreRests, JournalKept, ReadAll
<1> QED BY <1>1, <1>8, <1>9, UnreadIsRead DEF RecordsRecover, Recovers, StoreStage

\* An operation that begins has read nothing more, and leaves the files alone.
LEMMA OperationBegins ==
  ASSUME NEW s \in Reads, Recovers(s), workflow' = workflow, disk' = disk, memory' = memory,
         DOMAIN job' = DOMAIN job, job'.works \in BOOLEAN, StoreStage(s)'
  PROVE  RecordsRecover'
<1>1. JournalKept(s) /\ s = ReadAll(disk.journal)
  BY DEF Recovers
<1>2. s = ReadAll(disk.journal)'
  BY <1>1, NothingMoreIsRead
<1>3. KeptShape'
  BY <1>1 DEF JournalKept, KeptShape
<1>4. HonestReading(s) /\ s.named \subseteq disk'.whole
  BY <1>1 DEF JournalKept
<1>5. disk'.torn => Len(disk'.journal) < MaxEvents
  BY <1>1 DEF JournalKept
<1> HIDE DEF ReadAll, KeptShape
<1>6. JournalKept(s)'
  BY <1>1, <1>3, <1>4, <1>5, JournalStaysKept
<1>7. Reads' = Reads
  BY DEF Reads, Values, Summaries, Names, STATUSES
<1> HIDE DEF JournalKept, StoreStage, Reads
<1> QED BY <1>2, <1>6, <1>7 DEF RecordsRecover, Recovers

LEMMA RefusalRecovers ==
  ASSUME NEW s \in Reads, Recovers(s), RefuseOperation
  PROVE  RecordsRecover'
<1>1. StoreRests(s)
  BY UsableRests DEF Recovers, RefuseOperation
<1>2. DOMAIN job = {"todo", "leaves", "works"}
  BY DEF Recovers, JournalKept
<1>3. /\ workflow' = workflow /\ disk' = disk /\ memory' = memory /\ DOMAIN job' = DOMAIN job
      /\ job'.works = FALSE /\ job'.todo = job.todo
  BY <1>2 DEF RefuseOperation
<1>4. StoreStopped(s)'
  BY <1>1, <1>3 DEF StoreStopped, StoreRests, Unharmed, NotEnded, SameRecords
<1>5. StoreStage(s)'
  BY <1>4 DEF StoreStage
<1> HIDE DEF StoreStage, Recovers
<1> QED BY <1>3, <1>5, OperationBegins

LEMMA AwaitsStay ==
  ASSUME NEW s, NEW e, NEW leaves, Awaits(s, e, leaves), workflow' = workflow,
         disk.whole \subseteq disk'.whole
  PROVE  Awaits(s, e, leaves)'
<1>1. e.kind = "finished" => Result(e.step) \in disk.whole
  BY DEF Awaits, Follows
<1>2. Follows(s, e)' = Follows(s, e) /\ Read(s, e)' = Read(s, e)
  BY <1>1, LinesReadTheSame
<1>3. SameRecords(Read(s, e), leaves)' = SameRecords(Read(s, e), leaves)
  BY <1>2 DEF SameRecords
<1>4. (e \in Events)' = (e \in Events) /\ STATUSES' = STATUSES
  BY DEF Events, Values, Summaries, STATUSES
<1>5. (DOMAIN leaves = DOMAIN Blank)' = (DOMAIN leaves = DOMAIN Blank)
      /\ (leaves.report = NoReport)' = (leaves.report = NoReport)
  BY DEF Blank, NoReport, NoSummary
<1> HIDE DEF Follows, Read, SameRecords, Events, STATUSES, Blank, NoReport
<1> QED BY <1>2, <1>3, <1>4, <1>5 DEF Awaits

LEMMA LineBegins ==
  ASSUME NEW s \in Reads, Recovers(s), NEW e, NEW leaves, Awaits(s, e, leaves),
         e.kind # "finished", Writes(<<Line(e)>>, leaves)
  PROVE  RecordsRecover'
<1>1. StoreRests(s)
  BY UsableRests DEF Recovers, Writes
<1>2. DOMAIN job = {"todo", "leaves", "works"} /\ job.works \in BOOLEAN
  BY DEF Recovers, JournalKept
<1>3. /\ workflow' = workflow /\ disk' = disk /\ memory' = memory /\ DOMAIN job' = DOMAIN job
      /\ job'.works = job.works /\ job'.todo = <<Line(e)>> /\ job'.leaves = leaves
  BY <1>2 DEF Writes
<1>4. Awaits(s, e, job.leaves)'
  <2>1. Awaits(s, e, leaves)'
    BY <1>3, AwaitsStay
  <2> HIDE DEF Awaits
  <2> QED BY <1>3, <2>1
<1>5. NotEnded(s)' /\ Unharmed(s, {})'
  BY <1>1, <1>3 DEF StoreRests, NotEnded, Unharmed, Results, SameRecords
<1>6. e \in Events
  BY DEF Awaits
<1>7. LineUnderway(s)'
  <2>1. (e \in Events)' = (e \in Events)
    BY DEF Events, Values, Summaries, STATUSES
  <2> HIDE DEF Awaits, NotEnded, Unharmed, Events
  <2> QED BY <1>3, <1>4, <1>5, <1>6, <2>1 DEF LineUnderway, Line
<1>8. StoreStage(s)'
  <2> HIDE DEF LineUnderway
  <2> QED BY <1>7 DEF StoreStage
<1> HIDE DEF StoreStage, Recovers
<1> QED BY <1>2, <1>3, <1>8, OperationBegins

\* What an operation of a store at rest is measured by, in the reading.
LEMMA RestIsRead ==
  ASSUME NEW s \in Reads, Recovers(s), Usable
  PROVE  /\ SameRecords(s, memory) /\ NotEnded(s) /\ ~s.broken /\ KnownWorkflow /\ OrderedReading(s)
         /\ DOMAIN memory = DOMAIN Blank /\ memory.report = NoReport
BY UsableRests DEF Recovers, JournalKept, HonestReading, StoreRests, Unharmed, NotEnded, KnownWorkflow

LEMMA DecisionRecovers ==
  ASSUME NEW s \in Reads, Recovers(s), RecordDecision
  PROVE  RecordsRecover'
<1>0. Usable
  BY DEF RecordDecision, Writes
<1>1. /\ SameRecords(s, memory) /\ NotEnded(s) /\ ~s.broken /\ KnownWorkflow
      /\ DOMAIN memory = DOMAIN Blank /\ memory.report = NoReport
  BY <1>0, RestIsRead
<1>2. PICK e, leaves :
        /\ e = Event("decision", Len(memory.decisions) + 1, Proposal(memory), NoSummary)
        /\ leaves = [memory EXCEPT !.decisions = Append(@, Proposal(memory))]
  OBVIOUS
<1>3. MayDecide(memory) /\ Writes(<<Line(e)>>, leaves)
  <2> HIDE DEF Writes, Line, Proposal, Event
  <2> QED BY <1>2 DEF RecordDecision
<1>4. e.kind = "decision" /\ e.step = Len(s.decisions) + 1 /\ e.value = Proposal(s)
      /\ e.summary = NoSummary /\ e.value \in {"propose", "stop"}
  BY <1>1, <1>2, SameRules DEF Event, SameRecords, Proposal
<1>5. e \in Events
  <2>1. NoSummary \in Summaries
    BY DEF NoSummary, Summaries
  <2>2. Len(s.decisions) + 1 \in Nat
    BY ReadFields
  <2> QED BY <1>2, <1>4, <2>1, <2>2 DEF Event, Events, Values
<1>6. MayDecide(s) /\ ~s.closed
  <2>1. MayDecide(s)
    BY <1>1, <1>3, SameRules
  <2> QED BY <2>1 DEF MayDecide
<1>7. Follows(s, e)
  BY <1>1, <1>4, <1>6 DEF Follows, NotEnded
<1>8. Read(s, e) = [s EXCEPT !.decisions = Append(@, e.value)]
  <2> HIDE DEF Follows
  <2> QED BY <1>1, <1>4, <1>7 DEF Read
<1>9. SameRecords(Read(s, e), leaves) /\ DOMAIN leaves = DOMAIN Blank /\ leaves.report = NoReport
  <2>1. leaves.decisions = Append(memory.decisions, e.value) /\ leaves.records = memory.records
        /\ leaves.closed = memory.closed /\ leaves.report = NoReport /\ DOMAIN leaves = DOMAIN memory
    BY <1>1, <1>2 DEF Blank, Event
  <2>2. Read(s, e).decisions = Append(s.decisions, e.value) /\ Read(s, e).records = s.records
        /\ Read(s, e).closed = s.closed
    BY <1>8, ReadFields
  <2> QED BY <1>1, <2>1, <2>2 DEF SameRecords
<1>10. Awaits(s, e, leaves)
  BY <1>4, <1>5, <1>7, <1>9 DEF Awaits
<1> HIDE DEF Recovers, Awaits, Writes
<1> QED BY <1>3, <1>4, <1>10, LineBegins

LEMMA StartRecovers ==
  ASSUME NEW s \in Reads, Recovers(s), StartExecution
  PROVE  RecordsRecover'
<1>0. Usable
  BY DEF StartExecution, Writes
<1>1. /\ SameRecords(s, memory) /\ NotEnded(s) /\ ~s.broken /\ KnownWorkflow
      /\ DOMAIN memory = DOMAIN Blank /\ memory.report = NoReport
  BY <1>0, RestIsRead
<1>2. PICK e, leaves :
        /\ e = Event("started", Len(memory.records) + 1, "started", NoSummary)
        /\ leaves = [memory EXCEPT !.records = Append(@, "started")]
  OBVIOUS
<1>3. MayStart(memory) /\ Writes(<<Line(e)>>, leaves)
  <2> HIDE DEF Writes, Line, Event
  <2> QED BY <1>2 DEF StartExecution
<1>4. e.kind = "started" /\ e.step = Len(s.records) + 1 /\ e.summary = NoSummary
  BY <1>1, <1>2 DEF Event, SameRecords
<1>5. e \in Events
  <2>1. NoSummary \in Summaries
    BY DEF NoSummary, Summaries
  <2>2. Len(s.records) + 1 \in Nat
    BY ReadFields
  <2> QED BY <1>1, <1>2, <2>1, <2>2 DEF Event, Events, Values, SameRecords
<1>6. MayStart(s) /\ ~s.closed
  <2>1. MayStart(s)
    BY <1>1, <1>3, SameRules
  <2> QED BY <2>1 DEF MayStart
<1>7. Follows(s, e)
  BY <1>1, <1>4, <1>6 DEF Follows, NotEnded
<1>8. Read(s, e) = [s EXCEPT !.records = Append(@, "started")]
  <2> HIDE DEF Follows
  <2> QED BY <1>1, <1>4, <1>7 DEF Read
<1>9. SameRecords(Read(s, e), leaves) /\ DOMAIN leaves = DOMAIN Blank /\ leaves.report = NoReport
  <2>1. leaves.records = Append(memory.records, "started") /\ leaves.decisions = memory.decisions
        /\ leaves.closed = memory.closed /\ leaves.report = NoReport /\ DOMAIN leaves = DOMAIN memory
    BY <1>1, <1>2 DEF Blank
  <2>2. Read(s, e).records = Append(s.records, "started") /\ Read(s, e).decisions = s.decisions
        /\ Read(s, e).closed = s.closed
    BY <1>8, ReadFields
  <2> QED BY <1>1, <2>1, <2>2 DEF SameRecords
<1>10. Awaits(s, e, leaves)
  BY <1>4, <1>5, <1>7, <1>9 DEF Awaits
<1> HIDE DEF Recovers, Awaits, Writes
<1> QED BY <1>3, <1>4, <1>10, LineBegins

LEMMA ClosureRecovers ==
  ASSUME NEW s \in Reads, Recovers(s), RecordLabClosed
  PROVE  RecordsRecover'
<1>0. Usable
  BY DEF RecordLabClosed, Writes
<1>1. /\ SameRecords(s, memory) /\ NotEnded(s) /\ ~s.broken /\ KnownWorkflow
      /\ DOMAIN memory = DOMAIN Blank /\ memory.report = NoReport
  BY <1>0, RestIsRead
<1>2. PICK e, leaves :
        /\ e = Event("closed", 0, "closed", NoSummary)
        /\ leaves = [memory EXCEPT !.closed = TRUE]
  OBVIOUS
<1>3. MayClose(memory) /\ Writes(<<Line(e)>>, leaves)
  <2> HIDE DEF Writes, Line, Event
  <2> QED BY <1>2 DEF RecordLabClosed
<1>4. e.kind = "closed" /\ e.summary = NoSummary
  BY <1>2 DEF Event
<1>5. e \in Events
  <2>1. NoSummary \in Summaries
    BY DEF NoSummary, Summaries
  <2> QED BY <1>2, <2>1 DEF Event, Events, Values
<1>6. MayClose(s) /\ ~s.closed
  <2>1. MayClose(s)
    BY <1>1, <1>3, SameRules
  <2> QED BY <2>1 DEF MayClose
<1>7. Follows(s, e)
  BY <1>1, <1>4, <1>6 DEF Follows, NotEnded
<1>8. Read(s, e) = [s EXCEPT !.closed = TRUE]
  <2> HIDE DEF Follows
  <2> QED BY <1>1, <1>4, <1>7 DEF Read
<1>9. SameRecords(Read(s, e), leaves) /\ DOMAIN leaves = DOMAIN Blank /\ leaves.report = NoReport
  <2>1. leaves.records = memory.records /\ leaves.decisions = memory.decisions
        /\ leaves.closed = TRUE /\ leaves.report = NoReport /\ DOMAIN leaves = DOMAIN memory
    BY <1>1, <1>2 DEF Blank
  <2>2. Read(s, e).records = s.records /\ Read(s, e).decisions = s.decisions
        /\ Read(s, e).closed = TRUE
    BY <1>8, ReadFields
  <2> QED BY <1>1, <2>1, <2>2 DEF SameRecords
<1>10. Awaits(s, e, leaves)
  BY <1>4, <1>5, <1>7, <1>9 DEF Awaits
<1> HIDE DEF Recovers, Awaits, Writes
<1> QED BY <1>3, <1>4, <1>10, LineBegins

LEMMA FinishRecovers ==
  ASSUME NEW s \in Reads, Recovers(s), NEW status \in STATUSES, FinishExecution(status)
  PROVE  RecordsRecover'
<1>0. Usable /\ Pending(memory)
  BY DEF FinishExecution, Writes
<1>1. StoreRests(s)
  BY <1>0, UsableRests DEF Recovers
<1>2. DOMAIN job = {"todo", "leaves", "works"} /\ job.works \in BOOLEAN
  BY DEF Recovers, JournalKept
<1>3. /\ workflow' = workflow /\ disk' = disk /\ memory' = memory /\ DOMAIN job' = DOMAIN job
      /\ job'.works = job.works /\ job'.todo = FinishedBy(status).writes
      /\ job'.leaves = FinishedBy(status).leaves
  <2> HIDE DEF FinishedBy
  <2> QED BY <1>2 DEF FinishExecution, Writes
<1>4. FinishedBy(status)' = FinishedBy(status) /\ Pending(memory)' = Pending(memory)
  BY <1>3, RulesStayWithMemory
<1>5. NotEnded(s)' /\ Unharmed(s, {})'
  BY <1>1, <1>3 DEF StoreRests, NotEnded, Unharmed, Results, SameRecords
<1>6. ResultUnderway(s)'
  <2>1. (status \in STATUSES)'
    BY DEF STATUSES
  <2> HIDE DEF FinishedBy, NotEnded, Unharmed, Pending, STATUSES
  <2> QED BY <1>0, <1>3, <1>4, <1>5, <2>1 DEF ResultUnderway
<1>7. StoreStage(s)'
  <2> HIDE DEF ResultUnderway
  <2> QED BY <1>6 DEF StoreStage
<1> HIDE DEF StoreStage, Recovers
<1> QED BY <1>2, <1>3, <1>7, OperationBegins

LEMMA FinalizeRecovers ==
  ASSUME NEW s \in Reads, Recovers(s), NEW m \in Summaries, Finalize(m)
  PROVE  RecordsRecover'
<1>0. Usable /\ MayConclude(memory, m)
  BY DEF Finalize, Writes
<1>1. StoreRests(s)
  BY <1>0, UsableRests DEF Recovers
<1>2. DOMAIN job = {"todo", "leaves", "works"} /\ job.works \in BOOLEAN
  BY DEF Recovers, JournalKept
<1>3. /\ workflow' = workflow /\ disk' = disk /\ memory' = memory /\ DOMAIN job' = DOMAIN job
      /\ job'.works = job.works /\ job'.todo = Ending(m)
      /\ job'.leaves = [memory EXCEPT !.terminal = Versioned, !.report = FinalReport(m)]
  <2> HIDE DEF Ending, FinalReport, Versioned
  <2> QED BY <1>2 DEF Finalize, Writes
<1>4. /\ MayConclude(memory, m)' = MayConclude(memory, m) /\ Ending(m)' = Ending(m)
      /\ FinalReport(m)' = FinalReport(m) /\ Versioned' = Versioned
  BY <1>3, RulesStayWithMemory
<1>5. NotEnded(s)' /\ Unharmed(s, {})' /\ EndTold(s, m, FALSE, FALSE)'
  BY <1>1, <1>3 DEF StoreRests, NotEnded, Unharmed, Results, SameRecords, EndTold, Versioned
<1>6. memory'.report = NoReport'
  BY <1>5 DEF NotEnded
<1>7. ReportUnderway(s, m)'
  <2>1. (m \in Summaries)'
    BY DEF Summaries
  <2>2. job'.leaves = [memory EXCEPT !.terminal = Versioned, !.report = FinalReport(m)]'
    <3> HIDE DEF FinalReport, Versioned
    <3> QED BY <1>3, <1>4
  <2>3. EndWrites(s, m)'
    <3>1. /\ ToldTerminal(m)' = ToldTerminal(m) /\ ToldDone(m)' = ToldDone(m)
      BY <1>3, RulesStay, RulesStayWithMemory DEF ToldTerminal, ToldDone, Event
    <3>2. CASE Versioned
      <4>1. job'.todo = <<Line(ToldTerminal(m)), Line(ToldDone(m)), Reports[1], Reports[2]>>
        BY <1>3, <3>2, EndingIs
      <4>2. Versioned'
        BY <1>4, <3>2
      <4> HIDE DEF EndTold, ToldTerminal, ToldDone, Versioned
      <4> QED BY <1>5, <3>1, <4>1, <4>2 DEF EndWrites, Line, Reports, File, Published
    <3>3. CASE ~Versioned
      <4>1. job'.todo = <<Line(ToldDone(m)), Reports[1], Reports[2]>>
        BY <1>3, <3>3, EndingIs
      <4>2. EndTold(s, m, TRUE, FALSE)'
        BY <1>4, <1>5, <3>3 DEF EndTold
      <4> HIDE DEF EndTold, ToldTerminal, ToldDone, Versioned
      <4> QED BY <3>1, <4>1, <4>2 DEF EndWrites, Line, Reports, File, Published
    <3> QED BY <3>2, <3>3
  <2> HIDE DEF FinalReport, Unharmed, EndWrites, MayConclude, EndTold, Summaries, NoReport, Versioned
  <2> QED BY <1>0, <1>4, <1>5, <1>6, <2>1, <2>2, <2>3 DEF ReportUnderway
<1>8. StoreStage(s)'
  <2>1. (m \in Summaries)'
    BY DEF Summaries
  <2> HIDE DEF ReportUnderway
  <2> QED BY <1>7, <2>1 DEF StoreStage
<1> HIDE DEF StoreStage, Recovers
<1> QED BY <1>2, <1>3, <1>8, OperationBegins

LEMMA OperateRecovers ==
  ASSUME NEW s \in Reads, Recovers(s), Operate
  PROVE  RecordsRecover'
<1>1. CASE RecordDecision
  BY <1>1, DecisionRecovers
<1>2. CASE StartExecution
  BY <1>2, StartRecovers
<1>3. CASE RecordLabClosed
  BY <1>3, ClosureRecovers
<1>4. CASE RefuseOperation
  BY <1>4, RefusalRecovers
<1>5. CASE \E status \in STATUSES : FinishExecution(status)
  BY <1>5, FinishRecovers
<1>6. ASSUME NEW mode \in {"execute", "dry_run"}, NEW completed \in BOOLEAN,
             NEW attempted \in 0 .. 3, NEW succeeded \in 0 .. 3,
             Finalize([mode |-> mode, completed |-> completed, attempted |-> attempted,
                       succeeded |-> succeeded])
      PROVE  RecordsRecover'
  <2>1. PICK m : m = [mode |-> mode, completed |-> completed, attempted |-> attempted,
                      succeeded |-> succeeded]
    OBVIOUS
  <2>2. m \in Summaries
    BY <2>1 DEF Summaries
  <2>3. Finalize(m)
    BY <1>6, <2>1
  <2> HIDE DEF Finalize
  <2> QED BY <2>2, <2>3, FinalizeRecovers
<1> QED BY <1>1, <1>2, <1>3, <1>4, <1>5, <1>6 DEF Operate

\* A write that is not a line leaves the reading as it was,
LEMMA FileRecovers ==
  ASSUME NEW s \in Reads, Recovers(s), workflow' = workflow, disk'.journal = disk.journal,
         disk.whole \subseteq disk'.whole, disk'.torn => Len(disk.journal) < MaxEvents,
         KeptShape', StoreStage(s)'
  PROVE  RecordsRecover'
<1>1. JournalKept(s) /\ s = ReadAll(disk.journal)
  BY DEF Recovers
<1>2. s = ReadAll(disk.journal)'
  BY <1>1, NothingMoreIsRead
<1>3. HonestReading(s) /\ s.named \subseteq disk'.whole
  BY <1>1 DEF JournalKept
<1>4. disk'.torn => Len(disk'.journal) < MaxEvents
  OBVIOUS
<1> HIDE DEF ReadAll, KeptShape
<1>5. JournalKept(s)'
  BY <1>1, <1>3, <1>4, JournalStaysKept
<1>6. Reads' = Reads
  BY DEF Reads, Values, Summaries, Names, STATUSES
<1> HIDE DEF JournalKept, StoreStage, Reads
<1> QED BY <1>2, <1>5, <1>6 DEF RecordsRecover, Recovers

\* and a line that follows is read.
LEMMA LineRecovers ==
  ASSUME NEW s \in Reads, Recovers(s), NEW e, Honestly(s, e), NEW t, t = Read(s, e),
         workflow' = workflow, disk' = [disk EXCEPT !.journal = Append(@, e)], ~disk.torn,
         KeptShape', StoreStage(t)'
  PROVE  RecordsRecover'
<1>1. JournalKept(s) /\ s = ReadAll(disk.journal) /\ HonestReading(s) /\ KnownWorkflow
      /\ DOMAIN disk = {"journal", "torn", "whole", "partial"} /\ s.named \subseteq disk.whole
  BY DEF Recovers, JournalKept, KnownWorkflow
<1>2. /\ disk'.journal = Append(disk.journal, e) /\ disk'.whole = disk.whole
      /\ disk'.torn = disk.torn
  BY <1>1
<1>3. e \in Events /\ (e.kind = "finished" => Result(e.step) \in disk.whole)
  BY DEF Honestly, Follows
<1>4. Read(s, e) = ReadAll(disk.journal)'
  BY <1>1, <1>2, <1>3, OneMoreIsRead
<1>5. t = ReadAll(disk.journal)'
  <2> HIDE DEF Read, ReadAll
  <2> QED BY <1>4
<1>6. HonestReading(t) /\ Tally(t) = Tally(s) + 1 /\ t.named \subseteq disk'.whole
  <2>1. ReadHonestly(s, e)
    BY <1>1, ReadingStaysHonest
  <2> QED BY <1>1, <1>2, <1>3, <2>1 DEF ReadHonestly
<1>7. JournalKept(t)'
  <2>1. ~disk'.torn /\ disk.whole \subseteq disk'.whole
    BY <1>2
  <2> HIDE DEF KeptShape, Tally
  <2> QED BY <1>1, <1>2, <1>3, <1>6, <2>1, JournalStaysKept
<1>8. Reads' = Reads
  BY DEF Reads, Values, Summaries, Names, STATUSES
<1>9. t \in Reads
  BY <1>6 DEF HonestReading
<1> HIDE DEF JournalKept, StoreStage, Reads, ReadAll
<1> QED BY <1>5, <1>7, <1>8, <1>9 DEF RecordsRecover, Recovers

\* The lines of an end follow, each after what was written before it.
LEMMA TerminalFollows ==
  ASSUME NEW s \in Reads, Recovers(s), NEW m \in Summaries, MayConclude(memory, m), Versioned,
         SameRecords(s, memory), s.summary = NoSummary, s.terminal = NoSummary
  PROVE  /\ Honestly(s, ToldTerminal(m))
         /\ Read(s, ToldTerminal(m)) = [s EXCEPT !.terminal = m]
<1> DEFINE e == ToldTerminal(m)
<1>1. e.kind = "terminal" /\ e.summary = m /\ e.value = Reason(memory, m) /\ e.step = 0
  BY DEF ToldTerminal, Event
<1>2. Reason(memory, m) \in {"dry_run", "session_stopped", "evidence_missing", "concluded"}
  BY DEF Reason
<1>3. e \in Events
  <2> HIDE DEF Reason
  <2> QED BY <1>2 DEF ToldTerminal, Event, Events, Values
<1>4. MayConclude(s, m) /\ Reason(s, m) = Reason(memory, m)
  BY SameRules
<1>5. Follows(s, e)
  <2> HIDE DEF e, MayConclude, Reason
  <2> QED BY <1>1, <1>4 DEF Follows
<1>6. ~s.broken
  BY DEF Recovers, JournalKept, HonestReading
<1>7. Read(s, e) = [s EXCEPT !.terminal = m]
  <2> HIDE DEF e, Follows
  <2> QED BY <1>1, <1>5, <1>6 DEF Read
<1>8. Honestly(s, e)
  <2> HIDE DEF e
  <2> QED BY <1>1, <1>3, <1>5 DEF Honestly
<1> QED BY <1>7, <1>8

LEMMA DoneFollows ==
  ASSUME NEW s \in Reads, Recovers(s), NEW m \in Summaries, MayConclude(memory, m),
         SameRecords(s, memory), s.summary = NoSummary, Versioned => s.terminal = m
  PROVE  /\ Honestly(s, ToldDone(m))
         /\ Read(s, ToldDone(m)) = [s EXCEPT !.summary = m]
<1> DEFINE e == ToldDone(m)
<1>1. e.kind = "done" /\ e.summary = m
  BY DEF ToldDone, Event
<1>2. e \in Events
  BY DEF ToldDone, Event, Events, Values
<1>3. MayConclude(s, m)
  BY SameRules
<1>4. Follows(s, e)
  <2> HIDE DEF e, MayConclude
  <2> QED BY <1>1, <1>3 DEF Follows
<1>5. ~s.broken
  BY DEF Recovers, JournalKept, HonestReading
<1>6. Read(s, e) = [s EXCEPT !.summary = m]
  <2> HIDE DEF e, Follows
  <2> QED BY <1>1, <1>4, <1>5 DEF Read
<1>7. Honestly(s, e)
  <2> HIDE DEF e
  <2> QED BY <1>1, <1>2, <1>4 DEF Honestly
<1> QED BY <1>6, <1>7

\* The next write of an operation is a file, or a line that follows.
LEMMA NextWriteIsKnown ==
  ASSUME NEW s \in Reads, Recovers(s), job.todo # <<>>
  PROVE  /\ memory.report = NoReport /\ SameRecords(s, memory) /\ ~disk.torn
         /\ \/ \E f : Head(job.todo) = File(f)
            \/ \E e \in Events :
                 /\ Head(job.todo) = Line(e) /\ Honestly(s, e)
                 /\ SameRecords(Read(s, e), memory) \/ SameRecords(Read(s, e), job.leaves)
<1>1. LineUnderway(s) \/ ResultUnderway(s) \/ \E m \in Summaries : ReportUnderway(s, m)
  BY DEF Recovers, StoreStage, StoreRests, StoreStopped, StoreConcluded
<1>2. CASE LineUnderway(s)
  <2>1. PICK e \in Events :
          /\ job.todo = <<Line(e)>> /\ NotEnded(s) /\ Awaits(s, e, job.leaves)
          /\ Unharmed(s, IF e.kind = "finished" THEN {Result(e.step)} ELSE {})
    BY <1>2 DEF LineUnderway
  <2>2. Head(job.todo) = Line(e)
    BY <2>1, Tuples
  <2>3. Honestly(s, e) /\ SameRecords(Read(s, e), job.leaves)
    BY <2>1 DEF Awaits, Honestly
  <2> HIDE DEF Read, SameRecords, Honestly
  <2> QED BY <2>1, <2>2, <2>3 DEF NotEnded, Unharmed
<1>3. CASE ResultUnderway(s)
  <2>1. PICK status \in STATUSES : job.todo = FinishedBy(status).writes
    BY <1>3 DEF ResultUnderway
  <2>2. Head(job.todo) = File(Result(Len(memory.records)))
    BY <2>1, Tuples DEF FinishedBy
  <2> HIDE DEF SameRecords
  <2> QED BY <1>3, <2>2 DEF ResultUnderway, Unharmed, NotEnded
<1>4. ASSUME NEW m \in Summaries, ReportUnderway(s, m)
      PROVE  /\ memory.report = NoReport /\ SameRecords(s, memory) /\ ~disk.torn
             /\ \/ \E f : Head(job.todo) = File(f)
                \/ \E e \in Events :
                     /\ Head(job.todo) = Line(e) /\ Honestly(s, e)
                     /\ SameRecords(Read(s, e), memory) \/ SameRecords(Read(s, e), job.leaves)
  <2>1. /\ MayConclude(memory, m) /\ memory.report = NoReport /\ SameRecords(s, memory) /\ ~disk.torn
        /\ EndWrites(s, m)
    BY <1>4 DEF ReportUnderway, Unharmed
  <2>2. /\ DOMAIN s = {"records", "decisions", "closed", "terminal", "summary", "named", "broken"}
    BY ReadFields
  <2>3. CASE /\ Versioned /\ EndTold(s, m, FALSE, FALSE)
             /\ job.todo = <<Line(ToldTerminal(m)), Line(ToldDone(m)), Reports[1], Reports[2]>>
    <3>1. s.summary = NoSummary /\ s.terminal = NoSummary
      BY <2>3 DEF EndTold
    <3>2. Honestly(s, ToldTerminal(m)) /\ Read(s, ToldTerminal(m)) = [s EXCEPT !.terminal = m]
      BY <2>1, <2>3, <3>1, TerminalFollows
    <3>3. SameRecords([s EXCEPT !.terminal = m], memory)
      BY <2>1, <2>2 DEF SameRecords
    <3>4. Head(job.todo) = Line(ToldTerminal(m))
      BY <2>3, Tuples
    <3>5. ToldTerminal(m) \in Events
      BY <3>2 DEF Honestly
    <3> HIDE DEF Honestly, SameRecords, Read, Events, ToldTerminal
    <3> QED BY <2>1, <3>2, <3>3, <3>4, <3>5
  <2>4. CASE EndTold(s, m, TRUE, FALSE) /\ job.todo = <<Line(ToldDone(m)), Reports[1], Reports[2]>>
    <3>1. s.summary = NoSummary /\ (Versioned => s.terminal = m)
      BY <2>4 DEF EndTold
    <3>2. Honestly(s, ToldDone(m)) /\ Read(s, ToldDone(m)) = [s EXCEPT !.summary = m]
      BY <2>1, <3>1, DoneFollows
    <3>3. SameRecords([s EXCEPT !.summary = m], memory)
      BY <2>1, <2>2 DEF SameRecords
    <3>4. Head(job.todo) = Line(ToldDone(m))
      BY <2>4, Tuples
    <3>5. ToldDone(m) \in Events
      BY <3>2 DEF Honestly
    <3> HIDE DEF Honestly, SameRecords, Read, Events, ToldDone
    <3> QED BY <2>1, <3>2, <3>3, <3>4, <3>5
  <2>5. CASE job.todo = Reports \/ job.todo = <<Reports[2]>>
    <3>1. Head(job.todo) = File(Published("json")) \/ Head(job.todo) = File(Published("md"))
      BY <2>5, Tuples DEF Reports
    <3> HIDE DEF SameRecords
    <3> QED BY <2>1, <3>1
  <2> HIDE DEF SameRecords, Honestly
  <2> QED BY <2>1, <2>3, <2>4, <2>5 DEF EndWrites
<1> QED BY <1>1, <1>2, <1>3, <1>4

LEMMA WrittenIs ==
  ASSUME DOMAIN disk = {"journal", "torn", "whole", "partial"}
  PROVE  /\ \A f : /\ Written(File(f)) = [disk EXCEPT !.whole = @ \cup {f}]
                   /\ Partly(File(f)) = [disk EXCEPT !.partial = @ \cup {f}]
         /\ \A e : /\ Written(Line(e)) = [disk EXCEPT !.journal = Append(@, e)]
                   /\ Partly(Line(e)) = [disk EXCEPT !.torn = TRUE]
BY DEF Written, Partly, File, Line

\* A write that fails may leave nothing, a part or all of it, and ends the store.
LEMMA FailureRecovers ==
  ASSUME NEW s \in Reads, Recovers(s), WriteFails
  PROVE  RecordsRecover'
<1>1. /\ DOMAIN disk = {"journal", "torn", "whole", "partial"} /\ disk.torn \in BOOLEAN
      /\ DOMAIN job = {"todo", "leaves", "works"} /\ DOMAIN memory = DOMAIN Blank
      /\ KnownWorkflow /\ HonestReading(s) /\ Len(disk.journal) = Tally(s)
  BY DEF Recovers, JournalKept, KnownWorkflow
<1>2. /\ workflow' = workflow /\ memory' = memory /\ job.todo # <<>>
      /\ DOMAIN job' = DOMAIN job /\ job'.todo = <<>> /\ job'.works = FALSE
      /\ job'.leaves = job.leaves
  BY <1>1 DEF WriteFails
<1>3. /\ memory.report = NoReport /\ SameRecords(s, memory) /\ ~disk.torn
      /\ \/ \E f : Head(job.todo) = File(f)
         \/ \E e \in Events :
              /\ Head(job.todo) = Line(e) /\ Honestly(s, e)
              /\ SameRecords(Read(s, e), memory) \/ SameRecords(Read(s, e), job.leaves)
  BY <1>2, NextWriteIsKnown
<1>4. KeptShape' /\ (disk' = disk \/ disk' = Partly(Head(job.todo)) \/ disk' = Written(Head(job.todo)))
  <2>1. disk' = disk \/ disk' = Partly(Head(job.todo)) \/ disk' = Written(Head(job.todo))
    BY DEF WriteFails
  <2>2. DOMAIN disk' = DOMAIN disk /\ disk'.torn \in BOOLEAN
    BY <1>1, <1>3, <2>1 DEF Partly, Written
  <2> QED BY <1>1, <1>2, <2>1, <2>2 DEF KeptShape
<1>5. ASSUME NEW t, SameRecords(t, memory) \/ SameRecords(t, job.leaves)
      PROVE  StoreStage(t)'
  <2>1. StoreStopped(t)'
    BY <1>2, <1>3, <1>5 DEF StoreStopped, SameRecords
  <2> QED BY <2>1 DEF StoreStage
<1>6. ASSUME disk'.journal = disk.journal, disk.whole \subseteq disk'.whole,
             disk'.torn => Len(disk.journal) < MaxEvents
      PROVE  RecordsRecover'
  <2>1. StoreStage(s)'
    BY <1>3, <1>5
  <2> HIDE DEF Recovers, StoreStage, KeptShape
  <2> QED BY <1>2, <1>4, <1>6, <2>1, FileRecovers
<1>7. CASE disk' = disk
  BY <1>3, <1>6, <1>7
<1>8. CASE \E f : Head(job.todo) = File(f)
  <2>1. PICK f : Head(job.todo) = File(f)
    BY <1>8
  <2>2. disk' = disk \/ disk' = [disk EXCEPT !.partial = @ \cup {f}]
          \/ disk' = [disk EXCEPT !.whole = @ \cup {f}]
    BY <1>1, <1>4, <2>1, WrittenIs
  <2>3. disk'.journal = disk.journal /\ disk.whole \subseteq disk'.whole /\ ~disk'.torn
    BY <1>1, <1>3, <2>2
  <2> QED BY <1>6, <2>3
<1>9. ASSUME NEW e \in Events, Head(job.todo) = Line(e), Honestly(s, e),
             SameRecords(Read(s, e), memory) \/ SameRecords(Read(s, e), job.leaves)
      PROVE  RecordsRecover'
  <2>1. disk' = disk \/ disk' = [disk EXCEPT !.torn = TRUE]
          \/ disk' = [disk EXCEPT !.journal = Append(@, e)]
    BY <1>1, <1>4, <1>9, WrittenIs
  <2>2. CASE disk' = [disk EXCEPT !.torn = TRUE]
    <3>1. Tally(Read(s, e)) = Tally(s) + 1 /\ HonestReading(Read(s, e))
      BY <1>1, <1>9, ReadingStaysHonest DEF ReadHonestly
    <3>2. Tally(Read(s, e)) <= MaxEvents /\ Tally(s) \in Nat /\ MaxEvents \in Nat
      BY <1>1, <3>1, TallyIsBounded, RulesAreKnown
    <3>3. Len(disk.journal) < MaxEvents
      <4> HIDE DEF Tally, MaxEvents
      <4> QED BY <1>1, <3>1, <3>2
    <3>4. disk'.journal = disk.journal /\ disk.whole \subseteq disk'.whole
      BY <1>1, <2>2
    <3> QED BY <1>6, <3>3, <3>4
  <2>3. CASE disk' = [disk EXCEPT !.journal = Append(@, e)]
    <3>1. PICK t : t = Read(s, e)
      OBVIOUS
    <3>2. StoreStage(t)'
      <4> HIDE DEF StoreStage, SameRecords
      <4> QED BY <1>5, <1>9, <3>1
    <3> HIDE DEF Recovers, StoreStage, KeptShape, Read, Honestly
    <3> QED BY <1>2, <1>3, <1>4, <1>9, <2>3, <3>1, <3>2, LineRecovers
  <2> QED BY <1>7, <2>1, <2>2, <2>3
<1> QED BY <1>3, <1>8, <1>9

LEMMA WrittenLineRecovers ==
  ASSUME NEW s \in Reads, Recovers(s), LineUnderway(s), WriteNext
  PROVE  RecordsRecover'
<1>1. /\ DOMAIN disk = {"journal", "torn", "whole", "partial"} /\ disk.torn \in BOOLEAN
      /\ DOMAIN job = {"todo", "leaves", "works"} /\ KnownWorkflow /\ HonestReading(s)
      /\ job.works \in BOOLEAN
  BY DEF Recovers, JournalKept, KnownWorkflow
<1>2. PICK e \in Events :
        /\ job.todo = <<Line(e)>> /\ NotEnded(s) /\ Awaits(s, e, job.leaves)
        /\ Unharmed(s, IF e.kind = "finished" THEN {Result(e.step)} ELSE {})
  BY DEF LineUnderway
<1>3. Head(job.todo) = Line(e) /\ Tail(job.todo) = <<>> /\ Len(job.todo) = 1
  BY <1>2, Tuples
<1>4. /\ workflow' = workflow /\ disk' = [disk EXCEPT !.journal = Append(@, e)]
      /\ DOMAIN job' = DOMAIN job /\ job'.todo = <<>> /\ job'.works = job.works
      /\ job'.leaves = job.leaves /\ memory' = job.leaves
  BY <1>1, <1>3, WrittenIs DEF WriteNext
<1>5. PICK t : t = Read(s, e)
  OBVIOUS
<1>6. Honestly(s, e) /\ e.kind \in {"decision", "started", "finished", "closed"}
  BY <1>2 DEF Awaits, Honestly
<1>7. t = CASE e.kind = "decision" -> [s EXCEPT !.decisions = Append(@, e.value)]
             [] e.kind = "started"  -> [s EXCEPT !.records = Append(@, "started")]
             [] e.kind = "finished" -> [s EXCEPT !.records = [s.records EXCEPT ![e.step] = e.value],
                                                 !.named = @ \cup {Result(e.step)}]
             [] e.kind = "closed"   -> [s EXCEPT !.closed = TRUE]
  <2> HIDE DEF Follows
  <2>1. ~(s.broken \/ ~Follows(s, e))
    BY <1>1, <1>6 DEF HonestReading, Honestly
  <2> QED BY <1>5, <1>6, <2>1 DEF Read
<1>8. t.terminal = s.terminal /\ t.summary = s.summary
  BY <1>6, <1>7, ReadFields
<1>9. t.named = s.named \cup (IF e.kind = "finished" THEN {Result(e.step)} ELSE {})
  BY <1>1, <1>5, <1>6, ReadingStaysHonest DEF ReadHonestly
<1>10. SameRecords(t, memory') /\ memory'.report = NoReport /\ DOMAIN memory' = DOMAIN Blank
  BY <1>2, <1>4, <1>5 DEF Awaits
<1>11. disk'.whole = disk.whole /\ disk'.torn = disk.torn /\ disk'.partial = disk.partial
       /\ DOMAIN disk' = DOMAIN disk
  BY <1>1, <1>4
<1>12. StoreRests(t)'
  <2>1. NotEnded(t)'
    BY <1>2, <1>8, <1>10 DEF NotEnded, NoSummary, NoReport
  <2>2. Unharmed(t, {})'
    <3>1. Results' = t.named \cup {}
      BY <1>2, <1>9, <1>11 DEF Unharmed, Results
    <3>2. job'.works /\ ~disk'.torn /\ disk'.partial = {}
      BY <1>2, <1>4, <1>11 DEF Unharmed
    <3>3. SameRecords(t, memory)'
      BY <1>10 DEF SameRecords
    <3> QED BY <3>1, <3>2, <3>3 DEF Unharmed
  <2> HIDE DEF NotEnded, Unharmed
  <2> QED BY <1>4, <2>1, <2>2 DEF StoreRests
<1>13. StoreStage(t)'
  <2> HIDE DEF StoreRests
  <2> QED BY <1>12 DEF StoreStage
<1>14. KeptShape'
  BY <1>1, <1>4, <1>10, <1>11 DEF KeptShape, Blank
<1>15. ~disk.torn
  BY <1>2 DEF Unharmed
<1> HIDE DEF Recovers, StoreStage, KeptShape, Read, Honestly
<1> QED BY <1>4, <1>5, <1>6, <1>13, <1>14, <1>15, LineRecovers

LEMMA WrittenResultRecovers ==
  ASSUME NEW s \in Reads, Recovers(s), ResultUnderway(s), WriteNext
  PROVE  RecordsRecover'
<1>1. /\ DOMAIN disk = {"journal", "torn", "whole", "partial"} /\ disk.torn \in BOOLEAN
      /\ DOMAIN job = {"todo", "leaves", "works"} /\ KnownWorkflow /\ HonestReading(s)
      /\ job.works \in BOOLEAN /\ DOMAIN memory = DOMAIN Blank
  BY DEF Recovers, JournalKept, KnownWorkflow
<1>2. PICK status \in STATUSES :
        job.todo = FinishedBy(status).writes /\ job.leaves = FinishedBy(status).leaves
  BY DEF ResultUnderway
<1>3. Pending(memory) /\ NotEnded(s) /\ Unharmed(s, {})
  BY DEF ResultUnderway
<1>4. PICK step, e : step = Len(memory.records) /\ e = Event("finished", step, status, NoSummary)
  OBVIOUS
<1>5. job.todo = <<File(Result(step)), Line(e)>>
  BY <1>2, <1>4 DEF FinishedBy
<1>6. Head(job.todo) = File(Result(step)) /\ Tail(job.todo) = <<Line(e)>> /\ Len(job.todo) = 2
  BY <1>5, Tuples
<1>7. /\ workflow' = workflow /\ disk' = [disk EXCEPT !.whole = @ \cup {Result(step)}]
      /\ DOMAIN job' = DOMAIN job /\ job'.todo = <<Line(e)>> /\ job'.works = job.works
      /\ job'.leaves = job.leaves /\ memory' = memory
  <2>1. Written(Head(job.todo)) = [disk EXCEPT !.whole = @ \cup {Result(step)}]
    BY <1>1, <1>6, WrittenIs
  <2>2. memory' = memory /\ workflow' = workflow
    BY <1>6 DEF WriteNext
  <2>3. job' = [job EXCEPT !.todo = <<Line(e)>>]
    BY <1>6 DEF WriteNext
  <2>4. disk' = Written(Head(job.todo))
    BY DEF WriteNext
  <2> HIDE DEF Line, Result, Written
  <2> QED BY <1>1, <2>1, <2>2, <2>3, <2>4
<1>8. disk'.whole = disk.whole \cup {Result(step)} /\ disk'.torn = disk.torn
      /\ disk'.partial = disk.partial /\ DOMAIN disk' = DOMAIN disk /\ disk'.journal = disk.journal
  BY <1>1, <1>7
<1>9. SameRecords(s, memory) /\ Pending(s) /\ step = Len(s.records) /\ step \in Nat
  <2>1. SameRecords(s, memory)
    BY <1>3 DEF Unharmed
  <2> QED BY <1>3, <1>4, <2>1, SameRules, ReadFields DEF SameRecords
<1>10. /\ e.kind = "finished" /\ e.step = step /\ e.value = status /\ e.summary = NoSummary
       /\ e \in Events
  BY <1>4, <1>9 DEF Event, Events, Values, STATUSES, Summaries, NoSummary
<1>11. ~s.closed /\ ~s.broken /\ s.terminal = NoSummary /\ s.summary = NoSummary
  BY <1>1, <1>3, <1>9 DEF HonestReading, OrderedReading, NotEnded
<1>12. Follows(s, e)'
  <2>1. Result(e.step) \in disk'.whole
    BY <1>8, <1>10
  <2>2. Pending(s)'
    BY <1>9 DEF Pending
  <2> HIDE DEF Pending, Result
  <2> QED BY <1>9, <1>10, <1>11, <2>1, <2>2 DEF Follows, NoSummary, Result
<1>13. Read(s, e)' = [s EXCEPT !.records = [s.records EXCEPT ![step] = status],
                               !.named = @ \cup {Result(step)}]
  <2> HIDE DEF Follows
  <2> QED BY <1>10, <1>11, <1>12 DEF Read, Result
<1>14. SameRecords(Read(s, e), job.leaves)' /\ DOMAIN job'.leaves = DOMAIN Blank
       /\ job'.leaves.report = NoReport
  <2>1. job'.leaves = [memory EXCEPT !.records = [memory.records EXCEPT ![step] = status]]
    BY <1>2, <1>4, <1>7 DEF FinishedBy
  <2>2. /\ job'.leaves.records = [s.records EXCEPT ![step] = status]
        /\ job'.leaves.decisions = s.decisions /\ job'.leaves.closed = s.closed
        /\ job'.leaves.report = memory.report /\ DOMAIN job'.leaves = DOMAIN memory
    BY <1>1, <1>9, <2>1 DEF Blank, SameRecords
  <2>3. /\ Read(s, e)'.records = [s.records EXCEPT ![step] = status]
        /\ Read(s, e)'.decisions = s.decisions /\ Read(s, e)'.closed = s.closed
    BY <1>13, ReadFields
  <2> HIDE DEF Read
  <2> QED BY <1>1, <1>3, <2>2, <2>3 DEF SameRecords, NotEnded
<1>15. Awaits(s, e, job.leaves)'
  <2>1. (e \in Events)' /\ (e.value \in STATUSES)'
    BY <1>10 DEF Events, Values, Summaries, STATUSES
  <2>2. DOMAIN job'.leaves = DOMAIN Blank' /\ job'.leaves.report = NoReport'
    BY <1>14 DEF Blank, NoReport, NoSummary
  <2> HIDE DEF Follows, Read, Events, STATUSES, SameRecords, Blank, NoReport
  <2> QED BY <1>10, <1>12, <1>14, <2>1, <2>2 DEF Awaits
<1>16. NotEnded(s)'
  BY <1>3, <1>7 DEF NotEnded
<1>17. Unharmed(s, {Result(step)})'
  <2>1. Result(step).file = "result"
    BY DEF Result
  <2>2. Results' = s.named \cup {Result(step)}
    BY <1>3, <1>8, <2>1 DEF Unharmed, Results
  <2> QED BY <1>3, <1>7, <1>8, <2>2 DEF Unharmed, SameRecords, Result
<1>18. LineUnderway(s)'
  <2>1. (e \in Events)'
    BY <1>10 DEF Events, Values, Summaries, STATUSES
  <2>2. Unharmed(s, IF e.kind = "finished" THEN {Result(e.step)} ELSE {})'
    BY <1>10, <1>17
  <2>3. job'.todo = <<Line(e)>>'
    BY <1>7 DEF Line
  <2> HIDE DEF Awaits, NotEnded, Unharmed, Events, Line
  <2> QED BY <1>15, <1>16, <2>1, <2>2, <2>3 DEF LineUnderway
<1>19. StoreStage(s)'
  <2> HIDE DEF LineUnderway
  <2> QED BY <1>18 DEF StoreStage
<1>20. KeptShape'
  BY <1>1, <1>7, <1>8 DEF KeptShape, Blank
<1>21. disk'.torn => Len(disk.journal) < MaxEvents
  BY <1>3, <1>8 DEF Unharmed
<1> HIDE DEF Recovers, StoreStage, KeptShape
<1> QED BY <1>7, <1>8, <1>19, <1>20, <1>21, FileRecovers

\* The writes of an end, one after another.
LEMMA WrittenEndRecovers ==
  ASSUME NEW s \in Reads, Recovers(s), NEW m \in Summaries, ReportUnderway(s, m), WriteNext
  PROVE  RecordsRecover'
<1>1. /\ DOMAIN disk = {"journal", "torn", "whole", "partial"} /\ disk.torn \in BOOLEAN
      /\ DOMAIN job = {"todo", "leaves", "works"} /\ job.works \in BOOLEAN
      /\ DOMAIN memory = DOMAIN Blank
      /\ DOMAIN s = {"records", "decisions", "closed", "terminal", "summary", "named", "broken"}
  BY ReadFields DEF Recovers, JournalKept
<1>2. /\ MayConclude(memory, m) /\ Unharmed(s, {}) /\ memory.report = NoReport /\ EndWrites(s, m)
      /\ job.leaves = [memory EXCEPT !.terminal = Versioned, !.report = FinalReport(m)]
  BY DEF ReportUnderway
<1>3. /\ workflow' = workflow /\ job' = [job EXCEPT !.todo = Tail(@)]
      /\ disk' = Written(Head(job.todo))
      /\ memory' = IF Len(job.todo) = 1 THEN job.leaves ELSE memory
  BY DEF WriteNext
<1>4. /\ DOMAIN job' = DOMAIN job /\ job'.todo = Tail(job.todo) /\ job'.works = job.works
      /\ job'.leaves = job.leaves
  BY <1>1, <1>3
<1>5. job.works /\ ~disk.torn /\ disk.partial = {} /\ Results = s.named /\ SameRecords(s, memory)
  BY <1>2 DEF Unharmed
<1>6. Versioned' = Versioned /\ (m \in Summaries)' /\ NoSummary' = NoSummary
  BY <1>3 DEF Versioned, Summaries, NoSummary
\* As long as the operation is under way.
<1>7. ASSUME NEW t, memory' = memory, Unharmed(t, {})', EndWrites(t, m)'
      PROVE  StoreStage(t)'
  <2>1. /\ MayConclude(memory, m)' = MayConclude(memory, m) /\ FinalReport(m)' = FinalReport(m)
    BY <1>3, <1>7, RulesStayWithMemory
  <2>2. job'.leaves = [memory EXCEPT !.terminal = Versioned, !.report = FinalReport(m)]'
    <3> HIDE DEF FinalReport, Versioned
    <3> QED BY <1>2, <1>4, <1>6, <1>7, <2>1
  <2>3. memory'.report = NoReport'
    BY <1>2, <1>7 DEF NoReport, NoSummary
  <2>4. ReportUnderway(t, m)'
    <3> HIDE DEF FinalReport, Unharmed, EndWrites, MayConclude, Summaries, NoReport, Versioned
    <3> QED BY <1>2, <1>6, <1>7, <2>1, <2>2, <2>3 DEF ReportUnderway
  <2> HIDE DEF ReportUnderway, Summaries
  <2> QED BY <1>6, <2>4 DEF StoreStage
<1>8. ASSUME memory' = memory
      PROVE  /\ Line(ToldDone(m))' = Line(ToldDone(m)) /\ Reports' = Reports
             /\ ToldDone(m)' = ToldDone(m)
  BY DEF Line, ToldDone, Event, Reports, File, Published
<1>9. CASE /\ Versioned /\ EndTold(s, m, FALSE, FALSE)
           /\ job.todo = <<Line(ToldTerminal(m)), Line(ToldDone(m)), Reports[1], Reports[2]>>
  <2>1. /\ Head(job.todo) = Line(ToldTerminal(m)) /\ Len(job.todo) = 4
        /\ Tail(job.todo) = <<Line(ToldDone(m)), Reports[1], Reports[2]>>
    BY <1>9, Tuples
  <2>2. s.summary = NoSummary /\ s.terminal = NoSummary
    BY <1>9 DEF EndTold
  <2>3. Honestly(s, ToldTerminal(m)) /\ Read(s, ToldTerminal(m)) = [s EXCEPT !.terminal = m]
    BY <1>2, <1>5, <1>9, <2>2, TerminalFollows
  <2>4. PICK e, t : e = ToldTerminal(m) /\ t = [s EXCEPT !.terminal = m]
    OBVIOUS
  <2>5. disk' = [disk EXCEPT !.journal = Append(@, e)] /\ memory' = memory
    <3>1. Head(job.todo) = Line(e) /\ Len(job.todo) # 1
      BY <2>1, <2>4
    <3>2. Written(Line(e)) = [disk EXCEPT !.journal = Append(@, e)]
      BY <1>1, WrittenIs
    <3> HIDE DEF Line, Written
    <3> QED BY <1>3, <3>1, <3>2
  <2>6. /\ disk'.whole = disk.whole /\ disk'.torn = disk.torn /\ disk'.partial = disk.partial
        /\ DOMAIN disk' = DOMAIN disk
    BY <1>1, <2>5
  <2>7. /\ t.records = s.records /\ t.decisions = s.decisions /\ t.closed = s.closed
        /\ t.named = s.named /\ t.terminal = m /\ t.summary = NoSummary
    BY <1>1, <2>2, <2>4
  <2>8. Unharmed(t, {})'
    BY <1>4, <1>5, <2>5, <2>6, <2>7 DEF Unharmed, Results, SameRecords
  <2>9. EndWrites(t, m)'
    <3>1. EndTold(t, m, TRUE, FALSE)'
      BY <1>6, <1>9, <2>7 DEF EndTold
    <3>2. job'.todo = <<Line(ToldDone(m)), Reports[1], Reports[2]>>'
      <4> HIDE DEF Line, ToldDone, Reports
      <4> QED BY <1>4, <1>8, <2>1, <2>5
    <3> HIDE DEF EndTold, Line, ToldDone, Reports
    <3> QED BY <3>1, <3>2 DEF EndWrites
  <2>10. StoreStage(t)'
    <3> HIDE DEF StoreStage, EndWrites, Unharmed
    <3> QED BY <1>7, <2>5, <2>8, <2>9
  <2>11. KeptShape'
    BY <1>1, <1>4, <2>5, <2>6 DEF KeptShape, Blank
  <2>12. Honestly(s, e) /\ t = Read(s, e)
    <3> HIDE DEF Honestly, Read
    <3> QED BY <2>3, <2>4
  <2> HIDE DEF Recovers, StoreStage, KeptShape, Read, Honestly
  <2> QED BY <1>3, <1>5, <2>5, <2>10, <2>11, <2>12, LineRecovers
<1>10. CASE EndTold(s, m, TRUE, FALSE) /\ job.todo = <<Line(ToldDone(m)), Reports[1], Reports[2]>>
  <2>1. /\ Head(job.todo) = Line(ToldDone(m)) /\ Len(job.todo) = 3
        /\ Tail(job.todo) = <<Reports[1], Reports[2]>>
    BY <1>10, Tuples
  <2>2. s.summary = NoSummary /\ s.terminal = IF Versioned THEN m ELSE NoSummary
    BY <1>10 DEF EndTold
  <2>3. Honestly(s, ToldDone(m)) /\ Read(s, ToldDone(m)) = [s EXCEPT !.summary = m]
    BY <1>2, <1>5, <2>2, DoneFollows
  <2>4. PICK e, t : e = ToldDone(m) /\ t = [s EXCEPT !.summary = m]
    OBVIOUS
  <2>5. disk' = [disk EXCEPT !.journal = Append(@, e)] /\ memory' = memory
    <3>1. Head(job.todo) = Line(e) /\ Len(job.todo) # 1
      BY <2>1, <2>4
    <3>2. Written(Line(e)) = [disk EXCEPT !.journal = Append(@, e)]
      BY <1>1, WrittenIs
    <3> HIDE DEF Line, Written
    <3> QED BY <1>3, <3>1, <3>2
  <2>6. /\ disk'.whole = disk.whole /\ disk'.torn = disk.torn /\ disk'.partial = disk.partial
        /\ DOMAIN disk' = DOMAIN disk
    BY <1>1, <2>5
  <2>7. /\ t.records = s.records /\ t.decisions = s.decisions /\ t.closed = s.closed
        /\ t.named = s.named /\ t.terminal = s.terminal /\ t.summary = m
    BY <1>1, <2>4
  <2>8. Unharmed(t, {})'
    BY <1>4, <1>5, <2>5, <2>6, <2>7 DEF Unharmed, Results, SameRecords
  <2>9. EndWrites(t, m)'
    <3>1. EndTold(t, m, TRUE, TRUE)'
      BY <1>6, <2>2, <2>7 DEF EndTold
    <3>2. job'.todo = Reports'
      BY <1>4, <1>8, <2>1, <2>5 DEF Reports
    <3> HIDE DEF EndTold, Line, ToldDone, Reports
    <3> QED BY <3>1, <3>2 DEF EndWrites
  <2>10. StoreStage(t)'
    <3> HIDE DEF StoreStage, EndWrites, Unharmed
    <3> QED BY <1>7, <2>5, <2>8, <2>9
  <2>11. KeptShape'
    BY <1>1, <1>4, <2>5, <2>6 DEF KeptShape, Blank
  <2>12. Honestly(s, e) /\ t = Read(s, e)
    <3> HIDE DEF Honestly, Read
    <3> QED BY <2>3, <2>4
  <2> HIDE DEF Recovers, StoreStage, KeptShape, Read, Honestly
  <2> QED BY <1>3, <1>5, <2>5, <2>10, <2>11, <2>12, LineRecovers
<1>11. CASE EndTold(s, m, TRUE, TRUE) /\ job.todo = Reports
  <2>1. /\ Head(job.todo) = File(Published("json")) /\ Len(job.todo) = 2
        /\ Tail(job.todo) = <<Reports[2]>>
    BY <1>11, Tuples DEF Reports
  <2>2. disk' = [disk EXCEPT !.whole = @ \cup {Published("json")}] /\ memory' = memory
    <3>1. Written(File(Published("json"))) = [disk EXCEPT !.whole = @ \cup {Published("json")}]
      BY <1>1, WrittenIs
    <3>2. disk' = Written(Head(job.todo)) /\ Head(job.todo) = File(Published("json"))
      BY <1>3, <2>1
    <3>3. memory' = memory
      BY <1>3, <2>1
    <3> HIDE DEF File, Published, Written
    <3> QED BY <3>1, <3>2, <3>3
  <2>3. /\ disk'.whole = disk.whole \cup {Published("json")} /\ disk'.torn = disk.torn
        /\ disk'.partial = disk.partial /\ DOMAIN disk' = DOMAIN disk /\ disk'.journal = disk.journal
    BY <1>1, <2>2
  <2>4. Unharmed(s, {})'
    <3>1. Published("json").file # "result"
      BY DEF Published
    <3>2. Results' = s.named \cup {}
      BY <1>5, <2>3, <3>1 DEF Results
    <3> QED BY <1>4, <1>5, <2>2, <2>3, <3>2 DEF Unharmed, SameRecords
  <2>5. EndWrites(s, m)'
    <3>1. EndTold(s, m, TRUE, TRUE)'
      BY <1>6, <1>11 DEF EndTold
    <3>2. job'.todo = <<Reports[2]>>'
      BY <1>4, <1>8, <2>1, <2>2 DEF Reports
    <3>3. Published("json")' \in disk'.whole
      BY <2>3 DEF Published
    <3> HIDE DEF EndTold, Line, ToldDone, Reports, Published
    <3> QED BY <3>1, <3>2, <3>3 DEF EndWrites
  <2>6. StoreStage(s)'
    <3> HIDE DEF StoreStage, EndWrites, Unharmed
    <3> QED BY <1>7, <2>2, <2>4, <2>5
  <2>7. KeptShape'
    BY <1>1, <1>4, <2>2, <2>3 DEF KeptShape, Blank
  <2>8. ~disk'.torn
    BY <1>5, <2>3
  <2> HIDE DEF Recovers, StoreStage, KeptShape
  <2> QED BY <1>3, <2>3, <2>6, <2>7, <2>8, FileRecovers
<1>12. CASE /\ EndTold(s, m, TRUE, TRUE) /\ job.todo = <<Reports[2]>>
            /\ Published("json") \in disk.whole
  <2>1. /\ Head(job.todo) = File(Published("md")) /\ Len(job.todo) = 1 /\ Tail(job.todo) = <<>>
    BY <1>12, Tuples DEF Reports
  <2>2. disk' = [disk EXCEPT !.whole = @ \cup {Published("md")}] /\ memory' = job.leaves
    <3>1. Written(File(Published("md"))) = [disk EXCEPT !.whole = @ \cup {Published("md")}]
      BY <1>1, WrittenIs
    <3> HIDE DEF File, Published, Written
    <3> QED BY <1>3, <2>1, <3>1
  <2>3. /\ disk'.whole = disk.whole \cup {Published("md")} /\ disk'.torn = disk.torn
        /\ disk'.partial = disk.partial /\ DOMAIN disk' = DOMAIN disk /\ disk'.journal = disk.journal
    BY <1>1, <2>2
  <2>4. /\ memory'.records = memory.records /\ memory'.decisions = memory.decisions
        /\ memory'.closed = memory.closed /\ memory'.report = FinalReport(m)
        /\ DOMAIN memory' = DOMAIN memory
    <3> HIDE DEF FinalReport
    <3> QED BY <1>1, <1>2, <2>2 DEF Blank
  <2>5. PICK h : h = memory'
    OBVIOUS
  <2>6. SameRecords(h, memory)
    BY <2>4, <2>5 DEF SameRecords
  <2>7. Unharmed(s, {})'
    <3>1. Published("md").file # "result"
      BY DEF Published
    <3>2. Results' = s.named \cup {}
      BY <1>5, <2>3, <3>1 DEF Results
    <3> QED BY <1>4, <1>5, <2>3, <2>4, <3>2 DEF Unharmed, SameRecords
  <2>8. MayConclude(memory, m)'
    <3>1. MayConclude(h, m)
      BY <1>2, <2>6, SameRules
    <3>2. MayConclude(h, m)'
      BY <1>3, <3>1, RulesStay
    <3>3. MayConclude(memory, m)' = MayConclude(h, m)'
      BY <2>5
    <3> QED BY <3>2, <3>3
  <2>9. memory'.report = Report(memory, m, Open(memory))'
    <3>1. Reason(h, m) = Reason(memory, m) /\ Pending(h) = Pending(memory)
      BY <2>6, SameRules
    <3>2. Reason(h, m)' = Reason(h, m)
      BY <1>3, RulesStay
    <3>3. Open(h) = Open(memory)
      BY <3>1 DEF Open
    <3>4. Report(h, m, Open(h)) = Report(memory, m, Open(memory))
      BY <2>6, <3>1, <3>3 DEF Report, SameRecords
    <3>5. Report(h, m, Open(h))' = Report(h, m, Open(h))
      BY <3>2 DEF Report, Open, Pending, NoSummary
    <3>6. Report(memory, m, Open(memory))' = Report(h, m, Open(h))'
      BY <2>5
    <3>7. memory'.report = Report(memory, m, Open(memory))
      BY <2>4 DEF FinalReport
    <3> HIDE DEF Report, Open
    <3> QED BY <3>4, <3>5, <3>6, <3>7
  <2>10. StoreConcluded(s, m)'
    <3>1. EndTold(s, m, TRUE, TRUE)'
      BY <1>6, <1>12 DEF EndTold
    <3>2. {Published("json"), Published("md")}' \subseteq disk'.whole
      BY <1>12, <2>3 DEF Published
    <3>3. job'.leaves.report = memory'.report /\ job'.todo = <<>>
      BY <1>4, <2>1, <2>2
    <3> HIDE DEF EndTold, Unharmed, MayConclude, Report, Open, Summaries, Published
    <3> QED BY <1>6, <2>7, <2>8, <2>9, <3>1, <3>2, <3>3 DEF StoreConcluded
  <2>11. StoreStage(s)'
    <3> HIDE DEF StoreConcluded, Summaries
    <3> QED BY <1>6, <2>10 DEF StoreStage
  <2>12. KeptShape'
    BY <1>1, <1>4, <2>3, <2>4 DEF KeptShape, Blank
  <2>13. ~disk'.torn
    BY <1>5, <2>3
  <2> HIDE DEF Recovers, StoreStage, KeptShape
  <2> QED BY <1>3, <2>3, <2>11, <2>12, <2>13, FileRecovers
<1> QED BY <1>2, <1>9, <1>10, <1>11, <1>12 DEF EndWrites

LEMMA WritingRecovers ==
  ASSUME NEW s \in Reads, Recovers(s), WriteNext
  PROVE  RecordsRecover'
<1>1. job.todo # <<>>
  BY DEF WriteNext
<1>2. LineUnderway(s) \/ ResultUnderway(s) \/ \E m \in Summaries : ReportUnderway(s, m)
  BY <1>1 DEF Recovers, StoreStage, StoreRests, StoreStopped, StoreConcluded
<1> HIDE DEF RecordsRecover
<1> QED BY <1>2, WrittenLineRecovers, WrittenResultRecovers, WrittenEndRecovers

LEMMA IdleRecovers ==
  ASSUME RecordsRecover, UNCHANGED evidence
  PROVE  RecordsRecover'
<1>1. workflow' = workflow /\ disk' = disk /\ memory' = memory /\ job' = job
  BY DEF evidence
<1>2. PICK s \in Reads : Recovers(s)
  BY DEF RecordsRecover
<1>3. DOMAIN job = {"todo", "leaves", "works"} /\ job.works \in BOOLEAN
  BY <1>2 DEF Recovers, JournalKept
<1> SUFFICES StoreStage(s)'
  <2> HIDE DEF StoreStage, Recovers
  <2> QED BY <1>1, <1>2, <1>3, OperationBegins
<1>4. \A more : Unharmed(s, more)' = Unharmed(s, more)
  BY <1>1 DEF Unharmed, Results, SameRecords
<1>5. NotEnded(s)' = NotEnded(s)
  BY <1>1 DEF NotEnded, NoSummary, NoReport
<1>6. CASE StoreRests(s)
  <2>1. StoreRests(s)'
    BY <1>1, <1>4, <1>5, <1>6 DEF StoreRests
  <2> QED BY <2>1 DEF StoreStage
<1>7. CASE StoreStopped(s)
  <2>1. StoreStopped(s)'
    BY <1>1, <1>7 DEF StoreStopped, SameRecords, NoReport, NoSummary
  <2> QED BY <2>1 DEF StoreStage
<1>8. CASE LineUnderway(s)
  <2>1. PICK e \in Events :
          /\ job.todo = <<Line(e)>> /\ NotEnded(s) /\ Awaits(s, e, job.leaves)
          /\ Unharmed(s, IF e.kind = "finished" THEN {Result(e.step)} ELSE {})
    BY <1>8 DEF LineUnderway
  <2>2. PICK leaves : leaves = job.leaves
    OBVIOUS
  <2>3. Awaits(s, e, leaves)'
    <3>1. Awaits(s, e, leaves)
      BY <2>1, <2>2
    <3> QED BY <1>1, <3>1, AwaitsStay
  <2>4. Awaits(s, e, job.leaves)'
    <3>1. leaves = job'.leaves
      BY <1>1, <2>2
    <3> HIDE DEF Awaits
    <3> QED BY <2>3, <3>1
  <2>5. (e \in Events)'
    BY DEF Events, Values, Summaries, STATUSES
  <2>6. Unharmed(s, IF e.kind = "finished" THEN {Result(e.step)} ELSE {})'
    <3> HIDE DEF Unharmed
    <3> QED BY <1>4, <2>1 DEF Result
  <2>7. job'.todo = <<Line(e)>>'
    BY <1>1, <2>1 DEF Line
  <2> HIDE DEF Awaits, Unharmed, NotEnded, Events, Line
  <2>8. LineUnderway(s)'
    BY <1>5, <2>1, <2>4, <2>5, <2>6, <2>7 DEF LineUnderway
  <2> HIDE DEF LineUnderway
  <2> QED BY <2>8 DEF StoreStage
<1>9. CASE ResultUnderway(s)
  <2>1. \A status : FinishedBy(status)' = FinishedBy(status)
    BY <1>1, RulesStayWithMemory
  <2>2. Pending(memory)' = Pending(memory) /\ STATUSES' = STATUSES
    BY <1>1 DEF Pending, STATUSES
  <2> HIDE DEF Unharmed, NotEnded, FinishedBy, Pending, STATUSES
  <2>3. ResultUnderway(s)'
    BY <1>1, <1>4, <1>5, <1>9, <2>1, <2>2 DEF ResultUnderway
  <2> HIDE DEF ResultUnderway
  <2> QED BY <2>3 DEF StoreStage
<1>10. ASSUME NEW m \in Summaries, ReportUnderway(s, m) \/ StoreConcluded(s, m)
       PROVE  StoreStage(s)'
  <2>1. /\ MayConclude(memory, m)' = MayConclude(memory, m) /\ FinalReport(m)' = FinalReport(m)
        /\ Versioned' = Versioned
    BY <1>1, RulesStayWithMemory
  <2>2. (m \in Summaries)' /\ NoReport' = NoReport /\ NoSummary' = NoSummary
    BY DEF Summaries, NoReport, NoSummary
  <2>3. \A a, b \in BOOLEAN : EndTold(s, m, a, b)' = EndTold(s, m, a, b)
    BY <2>1, <2>2 DEF EndTold
  <2>4. /\ Line(ToldTerminal(m))' = Line(ToldTerminal(m)) /\ Line(ToldDone(m))' = Line(ToldDone(m))
        /\ Reports' = Reports /\ Published("json")' = Published("json")
        /\ Published("md")' = Published("md")
    <3>1. Reason(memory, m)' = Reason(memory, m)
      BY <1>1, RulesStay DEF Reason, Complete
    <3> QED BY <3>1 DEF Line, ToldTerminal, ToldDone, Event, Reports, File, Published
  <2>5. CASE ReportUnderway(s, m)
    <3>1. EndWrites(s, m)'
      <4>1. EndWrites(s, m)
        BY <2>5 DEF ReportUnderway
      <4> HIDE DEF EndTold, Line, Reports, Versioned, Published
      <4> QED BY <1>1, <2>1, <2>3, <2>4, <4>1 DEF EndWrites
    <3> HIDE DEF EndWrites, Unharmed, MayConclude, FinalReport, Versioned, Summaries, NoReport
    <3>2. ReportUnderway(s, m)'
      BY <1>1, <1>4, <2>1, <2>2, <2>5, <3>1 DEF ReportUnderway
    <3> HIDE DEF ReportUnderway
    <3> QED BY <2>2, <3>2 DEF StoreStage
  <2>6. CASE StoreConcluded(s, m)
    <3>1. Report(memory, m, Open(memory))' = Report(memory, m, Open(memory))
      <4> QED BY <2>1 DEF FinalReport
    <3> HIDE DEF EndTold, Unharmed, MayConclude, Report, Summaries, Published
    <3>2. StoreConcluded(s, m)'
      BY <1>1, <1>4, <2>1, <2>2, <2>3, <2>4, <2>6, <3>1 DEF StoreConcluded
    <3> HIDE DEF StoreConcluded
    <3> QED BY <2>2, <3>2 DEF StoreStage
  <2> QED BY <1>10, <2>5, <2>6
<1>11. StoreRests(s) \/ StoreStopped(s) \/ LineUnderway(s) \/ ResultUnderway(s)
         \/ \E m \in Summaries : ReportUnderway(s, m) \/ StoreConcluded(s, m)
  BY <1>2 DEF Recovers, StoreStage
<1> HIDE DEF StoreStage
<1> QED BY <1>6, <1>7, <1>8, <1>9, <1>10, <1>11

LEMMA RecordsAlwaysRecover == EvidenceSpec => []RecordsRecover
<1>1. EvidenceInit => RecordsRecover
  BY RecordsBegin
<1>2. RecordsRecover /\ [EvidenceNext]_evidence => RecordsRecover'
  <2> SUFFICES ASSUME RecordsRecover, [EvidenceNext]_evidence PROVE RecordsRecover'
    OBVIOUS
  <2>1. PICK s \in Reads : Recovers(s)
    BY DEF RecordsRecover
  <2>2. CASE Operate
    BY <2>1, <2>2, OperateRecovers
  <2>3. CASE WriteNext
    BY <2>1, <2>3, WritingRecovers
  <2>4. CASE WriteFails
    BY <2>1, <2>4, FailureRecovers
  <2>5. CASE UNCHANGED evidence
    BY <2>5, IdleRecovers
  <2> QED BY <2>2, <2>3, <2>4, <2>5 DEF EvidenceNext
<1> QED BY <1>1, <1>2, PTL DEF EvidenceSpec

\* Whatever fails and whenever the process dies, in any write of any workflow, the
\* inspection recovers all that the store acknowledged and at most the operation that was
\* under way, and rejects no line the store wrote: _load_journal and inspect_assessment.
THEOREM InspectionsRecover == EvidenceSpec => []InspectionRecovers
<1>1. RecordsRecover => InspectionRecovers
  BY RecoveryIsWhatIsAsked
<1> QED BY <1>1, RecordsAlwaysRecover, PTL

\* The report of a finalized store is the one an inspection recomputes, and none is
\* conclusive before the journal is closed, both reports are written and every execution
\* has its artifact: finalize and inspect_assessment.
THEOREM ReportsOutliveTheStore == EvidenceSpec => []PublishedReportReplays
<1>1. RecordsRecover => PublishedReportReplays
  BY ReplayIsWhatIsAsked
<1> QED BY <1>1, RecordsAlwaysRecover, PTL
===============================================================================
