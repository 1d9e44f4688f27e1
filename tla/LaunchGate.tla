------------------------------- MODULE LaunchGate -----------------------------
(***************************************************************************)
(* What the chain in front of a tool promises.  Launches keep in step with *)
(* the durable intents and, where the policy asks for them, with the       *)
(* consumed consents: the n-th launch uses the n-th intent and the n-th    *)
(* consent, and both name its action.  Once an intent or a consent is not  *)
(* used before the next one comes, there is never another launch.          *)
(***************************************************************************)
EXTENDS Naturals, Sequences

CONSTANTS
  Actions,
  NeedsConsent,         \* the policy of the session asks for approval
  MaxSteps

VARIABLES
  intended,             \* the actions of the durable intents, in order
  consented,            \* the actions of the consumed consents, in order
  launched              \* the actions of the launches, in order

gate == <<intended, consented, launched>>

Init == intended = <<>> /\ consented = <<>> /\ launched = <<>>

Intend(a) ==
  /\ intended' = Append(intended, a)
  /\ UNCHANGED <<consented, launched>>

Consent(a) ==
  /\ consented' = Append(consented, a)
  /\ UNCHANGED <<intended, launched>>

IsNext(s, a) == Len(s) = Len(launched) + 1 /\ s[Len(s)] = a

Launch(a) ==
  /\ Len(launched) < MaxSteps
  /\ IsNext(intended, a)
  /\ NeedsConsent => IsNext(consented, a)
  /\ launched' = Append(launched, a)
  /\ UNCHANGED <<intended, consented>>

Next == \E a \in Actions : Intend(a) \/ Consent(a) \/ Launch(a)

Spec == Init /\ [][Next]_gate
=============================================================================
