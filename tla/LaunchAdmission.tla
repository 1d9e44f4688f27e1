---------------------------- MODULE LaunchAdmission ---------------------------
(***************************************************************************)
(* The worker that admits launches, from launch_admission.py and           *)
(* admission_worker.py: it owns the budgets of executions and of output,   *)
(* reserves both before it hands out a permit, and burns a permit when it  *)
(* is redeemed.                                                            *)
(*                                                                         *)
(* A permit is a fresh random token: here the number of the admission.  0  *)
(* is the missing permit.  The session executes: a dry run starts no       *)
(* worker.                                                                 *)
(***************************************************************************)
EXTENDS SessionContext, Sequences, FiniteSets, Functions

CONSTANTS
  Allowance,            \* per action: max_output_bytes of its parameters
  Profile,              \* per number of admitted steps: the actions the profile allows next
  MaxSteps,             \* the limits of the session
  MaxOutput,
  PermitSeconds,        \* the lifetime of a permit
  MaxExchanges          \* how many requests the worker answers

ASSUME AdmissionAssumption ==
  /\ Allowance \in [Actions -> Nat \ {0}]
  /\ MaxSteps \in Nat /\ MaxOutput \in Nat
  /\ Profile \in [0 .. MaxSteps -> SUBSET Actions]
  /\ PermitSeconds \in Nat \ {0} /\ MaxExchanges \in Nat

VARIABLES
  serving,              \* the worker answers
  exchanges,            \* requests it has answered
  executions,           \* executions_reserved
  outputs,              \* output_bytes_reserved
  admitted,             \* every permit ever handed out, by its number
  permits,              \* the permits not yet redeemed
  redeemed              \* history: permits redeemed successfully, with the action

admission == <<serving, exchanges, executions, outputs, admitted, permits, redeemed>>

Permit == [action : Actions, policy : Policies, expires : Nat]

Redemption == [permit : Nat \ {0}, action : Actions]

AdmissionInit ==
  /\ serving = TRUE /\ exchanges = 0
  /\ executions = 0 /\ outputs = 0
  /\ admitted = <<>> /\ permits = {} /\ redeemed = <<>>

AdmissionType ==
  /\ serving \in BOOLEAN /\ exchanges \in 0 .. MaxExchanges
  /\ executions \in 0 .. MaxSteps /\ outputs \in 0 .. MaxOutput
  /\ admitted \in Seq(Permit) /\ permits \subseteq 1 .. Len(admitted)
  /\ redeemed \in Seq(Redemption)
-----------------------------------------------------------------------------
Sooner(x, y) == IF x < y THEN x ELSE y

\* A request in sequence, before the deadline.
Exchange ==
  /\ serving /\ exchanges < MaxExchanges /\ now < Deadline
  /\ exchanges' = exchanges + 1
  /\ UNCHANGED serving

AdmitReason(p, a) ==
  IF p # Policy THEN "admission_policy_changed"
  ELSE IF Verdict(Policy, a) = "deny" THEN "admission_policy_denied"
  ELSE IF a \notin Profile[executions] THEN "admission_profile_denied"
  ELSE IF executions >= MaxSteps THEN "admission_step_limit"
  ELSE IF outputs + Allowance[a] > MaxOutput THEN "admission_output_limit"
  ELSE "none"

\* As if only the launch were counted, and its output when it is known.
AdmitStepOnly(p, a) ==
  /\ Exchange
  /\ IF AdmitReason(p, a) = "none"
     THEN /\ executions' = executions + 1
          /\ admitted' = Append(admitted,
               [action |-> a, policy |-> Policy, expires |-> Sooner(now + PermitSeconds, Deadline)])
          /\ permits' = permits \cup {Len(admitted) + 1}
     ELSE UNCHANGED <<executions, admitted, permits>>
  /\ UNCHANGED <<outputs, redeemed>>

\* The whole allowance is reserved and never given back.
Admit(p, a) ==
  /\ Exchange
  /\ IF AdmitReason(p, a) = "none"
     THEN /\ executions' = executions + 1
          /\ outputs' = outputs + Allowance[a]
          /\ admitted' = Append(admitted,
               [action |-> a, policy |-> Policy, expires |-> Sooner(now + PermitSeconds, Deadline)])
          /\ permits' = permits \cup {Len(admitted) + 1}
     ELSE UNCHANGED <<executions, outputs, admitted, permits>>
  /\ UNCHANGED redeemed

RedeemReason(k, p, a) ==
  IF k = 0 THEN "admission_missing"
  ELSE IF k \notin permits THEN "admission_unknown_or_replayed"
  ELSE IF now >= admitted[k].expires THEN "admission_expired"
  ELSE IF admitted[k].action # a THEN "admission_action_changed"
  ELSE IF admitted[k].policy # p THEN "admission_policy_changed"
  ELSE "none"

\* Any attempt that names a permit burns it.
Redeem(k, p, a) ==
  /\ Exchange
  /\ permits' = permits \ {k}
  /\ redeemed' = IF RedeemReason(k, p, a) = "none"
                 THEN Append(redeemed, [permit |-> k, action |-> a]) ELSE redeemed
  /\ UNCHANGED <<executions, outputs, admitted>>

\* The deadline, a request out of sequence or any other fault ends the worker.
StopServing ==
  /\ serving
  /\ serving' = FALSE
  /\ UNCHANGED <<exchanges, executions, outputs, admitted, permits, redeemed>>
-----------------------------------------------------------------------------
AdmissionNext ==
  \/ /\ \/ \E p \in Policies, a \in Actions :
             Admit(p, a) \/ \E k \in 0 .. Len(admitted) : Redeem(k, p, a)
        \/ StopServing
     /\ UNCHANGED control
  \/ Tick /\ UNCHANGED admission

admissionVars == <<control, admission>>

AdmissionStart == ControlInit /\ AdmissionInit

AdmissionSpec == AdmissionStart /\ [][AdmissionNext]_admissionVars
-----------------------------------------------------------------------------
(***************************************************************************)
(* Properties.                                                             *)
(***************************************************************************)
\* The types of the state; the reservations stay within the limits of the session.
AdmissionTypeOK == ControlType /\ AdmissionType

\* A permit opens at most one launch, and what it opens is what it was admitted for.
PermitsOpenOneLaunch ==
  /\ \A i, j \in DOMAIN redeemed : redeemed[i].permit = redeemed[j].permit => i = j
  /\ \A i \in DOMAIN redeemed :
       /\ admitted[redeemed[i].permit].action = redeemed[i].action
       /\ redeemed[i].permit \notin permits
=============================================================================
