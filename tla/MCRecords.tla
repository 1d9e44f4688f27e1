------------------------------- MODULE MCRecords ------------------------------
(***************************************************************************)
(* Four components that keep a credential or a record: approval grants,    *)
(* the reservations of a provider broker, the rules of an engagement and   *)
(* the evidence of an assessment.  They share nothing, so one behaviour    *)
(* exercises one of them and leaves the others idle.                       *)
(*                                                                         *)
(* There are two policies: a third action is outside both of them, and the *)
(* large one outside the second.                                           *)
(***************************************************************************)
EXTENDS ApprovalGrants, ProviderBroker, EngagementRecords, EvidenceJournal

CONSTANTS small, large, alien, p1, p2, e1

VARIABLE exercised

DeniedIn == [p \in Policies |-> IF p = p1 THEN {alien} ELSE {alien, large}]

AskingIn == [p \in Policies |-> TRUE]

Few == Len(minted) <= 3

Init ==
  /\ exercised \in {"grants", "broker", "engagement", "evidence"}
  /\ GrantsStart /\ BrokerInit
  /\ EngagementInit /\ (exercised # "engagement" => told.question.event = e1
                                                  /\ engagement.revisions[1].roe = "ssh")
  /\ EvidenceInit /\ (exercised # "evidence" => workflow = "plain")

Next ==
  /\ UNCHANGED exercised
  /\ \/ exercised = "grants" /\ GrantsNext
        /\ UNCHANGED <<brokerage, engaged, evidence>>
     \/ exercised = "broker" /\ BrokerNext
        /\ UNCHANGED <<control, approvals, engaged, evidence>>
     \/ exercised = "engagement" /\ EngagementNext
        /\ UNCHANGED <<control, approvals, brokerage, evidence>>
     \/ exercised = "evidence" /\ EvidenceNext
        /\ UNCHANGED <<control, approvals, brokerage, engaged>>

vars == <<exercised, control, approvals, brokerage, engaged, evidence>>

Spec == Init /\ [][Next]_vars
=============================================================================
