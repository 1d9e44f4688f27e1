----------------------------- MODULE SessionContext ---------------------------
(***************************************************************************)
(* What every part of an execution session shares: the policy and its      *)
(* decisions (models.py), and the control of the session, one absolute     *)
(* deadline and a cancellation (execution.py).                             *)
(*                                                                         *)
(* An action stands for its digest.  The clock stops at the deadline: the  *)
(* code compares nothing with a later time once the deadline has passed.   *)
(***************************************************************************)
EXTENDS Naturals

CONSTANTS
  Actions,              \* actions a caller may propose
  Policies,             \* policies a caller may name
  Policy,               \* the policy the session was started with
  Denied,               \* per policy: the actions outside its scope
  AsksConsent,          \* per policy: require_approval
  Deadline              \* the deadline of the session

ASSUME ContextAssumption ==
  /\ Policy \in Policies
  /\ Denied \in [Policies -> SUBSET Actions]
  /\ AsksConsent \in [Policies -> BOOLEAN]
  /\ Deadline \in Nat \ {0}

VARIABLES now, cancelled

control == <<now, cancelled>>

Verdict(p, a) ==
  IF a \in Denied[p] THEN "deny"
  ELSE IF AsksConsent[p] THEN "approval_required" ELSE "allow"

ControlInit == now = 0 /\ cancelled = FALSE

ControlType == now \in 0 .. Deadline /\ cancelled \in BOOLEAN

\* ExecutionControl.check raises.
Stopped == cancelled \/ now >= Deadline

Tick ==
  /\ now < Deadline
  /\ now' = now + 1
  /\ UNCHANGED cancelled

Cancel ==
  /\ ~cancelled
  /\ cancelled' = TRUE
  /\ UNCHANGED now
=============================================================================
