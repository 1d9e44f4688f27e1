--------------------------- MODULE WitnessedLauncher --------------------------
(***************************************************************************)
(* The confined worker that starts the tools, from launcher_worker.py, and *)
(* the two one-way channels it reads: witnesses of durable intents from    *)
(* the audit worker (audit_witness.py) and of consumed approvals from the  *)
(* approval worker (approval_witness.py).  Its nested admission worker is  *)
(* LaunchAdmission.                                                        *)
(*                                                                         *)
(* The worker is serial and ends for good at the first refusal.  It knows  *)
(* the deadline of the session, not its cancellation: the host kills it.   *)
(***************************************************************************)
EXTENDS ApprovalGrants, LaunchAdmission

CONSTANTS
  MaxAge,               \* how old a witness may be
  MaxLaunches,          \* how many intents the audit worker attests
  MaxReviews            \* how many reviews the approval worker holds

ASSUME LauncherAssumption ==
  MaxAge \in Nat \ {0} /\ MaxLaunches \in Nat /\ MaxReviews \in Nat

VARIABLES
  auditing,             \* the audit worker lives
  proofs,               \* witnesses of intents under way
  approving,            \* the approval worker: unstarted, up or down
  consents,             \* witnesses of consumed approvals under way
  launcher,             \* the launcher worker: unstarted, up or down
  stage,                \* how far the request in hand is
  job,                  \* the action of the request in hand
  intentRead,           \* the last witness of an intent: sequence and audit sequence
  consentRead,          \* the last witness of an approval: sequence and request sequence
  fresh,                \* until when the launch in hand may begin
  checked,              \* when that was last checked
  launches              \* every tool started

channels == <<auditing, proofs, approving, consents>>

worker == <<launcher, stage, job, intentRead, consentRead, fresh, checked, launches>>

Stages == {"idle", "asked", "intended", "consented", "admitted", "redeemed", "fresh",
           "executed", "answered", "refused"}

Proof == [seq : Nat, at : Nat, action : Actions, issued : Nat]

Consent == [seq : Nat, request : Nat, action : Actions, issued : Nat, expires : Nat]

Launch == [action : Actions, intent : Nat, consent : Nat, permit : Nat, checked : Nat]

Status == {"unstarted", "up", "down"}

LauncherInit ==
  /\ auditing = TRUE /\ approving = "unstarted"
  /\ proofs = <<>> /\ consents = <<>>
  /\ launcher = "unstarted" /\ stage = "idle" /\ job \in Actions
  /\ intentRead = [seq |-> 0, at |-> 0] /\ consentRead = [seq |-> 0, request |-> 0]
  /\ fresh = 0 /\ checked = 0 /\ launches = <<>>

LauncherType ==
  /\ auditing \in BOOLEAN /\ approving \in Status /\ launcher \in Status
  /\ proofs \in Seq(Proof) /\ consents \in Seq(Consent)
  /\ stage \in Stages /\ job \in Actions
  /\ intentRead \in [seq : Nat, at : Nat] /\ consentRead \in [seq : Nat, request : Nat]
  /\ fresh \in Nat /\ checked \in Nat /\ launches \in Seq(Launch)

Asks == AsksConsent[Policy]
-----------------------------------------------------------------------------
(***************************************************************************)
(* A request, from its arrival to its answer.                              *)
(***************************************************************************)
\* The worker goes on from one stage to the next, before the deadline.
Step(from, to) ==
  /\ launcher = "up" /\ stage = from /\ now < Deadline
  /\ stage' = to
  /\ UNCHANGED <<launcher, job>>

IntentFits(w) ==
  /\ w.seq = intentRead.seq + 1 /\ w.seq <= MaxLaunches
  /\ w.at > intentRead.at
  /\ w.action = job /\ Verdict(Policy, job) # "deny"
  /\ now - w.issued <= MaxAge

\* Exactly the next witness, and the channel is open and empty behind it.
TakeIntent ==
  /\ Step("asked", "intended")
  /\ auditing /\ Len(proofs) = 1 /\ IntentFits(Head(proofs))
  /\ proofs' = <<>>
  /\ intentRead' = [seq |-> Head(proofs).seq, at |-> Head(proofs).at]
  /\ UNCHANGED <<auditing, approving, consents, consentRead, fresh, checked, launches>>

Quiet == consents = <<>> /\ approving # "down"

ConsentFits(w) ==
  /\ w.seq = consentRead.seq + 1 /\ w.seq <= MaxReviews
  /\ w.request > consentRead.request
  /\ w.action = job
  /\ now - w.issued < MaxAge
  /\ now < w.expires /\ w.expires <= Deadline /\ w.expires - w.issued <= Ttl

\* A policy that asks for no approval needs no witness, but the channel must be quiet.
\* A launch without consent may begin until the deadline.
TakeConsent ==
  /\ Step("intended", "consented")
  /\ IF Asks
     THEN /\ approving = "up" /\ Len(consents) = 1 /\ ConsentFits(Head(consents))
          /\ consentRead' = [seq |-> Head(consents).seq, request |-> Head(consents).request]
          /\ fresh' = Sooner(Head(consents).expires, Head(consents).issued + MaxAge)
     ELSE Quiet /\ fresh' = Deadline /\ UNCHANGED consentRead
  /\ consents' = <<>>
  /\ UNCHANGED <<auditing, proofs, approving, intentRead, checked, launches>>

AdmitLaunch ==
  /\ Step("consented", IF AdmitReason(Policy, job) = "none" THEN "admitted" ELSE "refused")
  /\ Admit(Policy, job)
  /\ UNCHANGED <<channels, intentRead, consentRead, fresh, checked, launches>>

RedeemPermit ==
  /\ Step("admitted",
          IF RedeemReason(Len(admitted), Policy, job) = "none" THEN "redeemed" ELSE "refused")
  /\ Redeem(Len(admitted), Policy, job)
  /\ UNCHANGED <<channels, intentRead, consentRead, fresh, checked, launches>>

\* As if the first check of the consent would do.
CheckNothing ==
  /\ Step("redeemed", "fresh")
  /\ checked' = now
  /\ UNCHANGED <<channels, intentRead, consentRead, fresh, launches>>

\* Just before the tool: the consent may have expired during the admission.
CheckFresh ==
  /\ Step("redeemed", "fresh")
  /\ now < fresh /\ Quiet
  /\ checked' = now
  /\ UNCHANGED <<channels, intentRead, consentRead, fresh, launches>>

\* As if a tool that failed were started again for the same request.
ExecuteTwice ==
  /\ launcher = "up" /\ stage \in {"fresh", "executed"} /\ now < Deadline /\ Len(launches) < MaxSteps
  /\ stage' = "executed"
  /\ launches' = Append(launches,
       [action |-> job, intent |-> intentRead.seq,
        consent |-> IF Asks THEN consentRead.seq ELSE 0,
        permit |-> Len(admitted), checked |-> checked])
  /\ UNCHANGED <<launcher, job, channels, intentRead, consentRead, fresh, checked>>

Execute ==
  /\ Step("fresh", "executed")
  /\ launches' = Append(launches,
       [action |-> job, intent |-> intentRead.seq,
        consent |-> IF Asks THEN consentRead.seq ELSE 0,
        permit |-> Len(admitted), checked |-> checked])
  /\ UNCHANGED <<channels, intentRead, consentRead, fresh, checked>>

\* The answer leaves, and the locals of the request with it.
Answer ==
  /\ Step("executed", "answered")
  /\ fresh' = 0 /\ checked' = 0
  /\ UNCHANGED <<channels, intentRead, consentRead, launches>>

\* Any refusal, fault or expired wait: the worker ends and answers nothing.
Refuse ==
  /\ launcher = "up" /\ stage \notin {"idle", "answered"}
  /\ launcher' = "down" /\ stage' = "refused"
  /\ UNCHANGED <<channels, job, intentRead, consentRead, fresh, checked, launches>>

WorkerStep ==
  \/ \/ TakeIntent \/ TakeConsent \/ CheckFresh \/ Execute \/ Answer \/ Refuse
     /\ UNCHANGED admission
  \/ AdmitLaunch \/ RedeemPermit
=============================================================================
