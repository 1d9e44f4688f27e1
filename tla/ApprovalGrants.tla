---------------------------- MODULE ApprovalGrants ----------------------------
(***************************************************************************)
(* The store of single-use approval grants, from approvals.py.             *)
(*                                                                         *)
(* A reference is a fresh random token: here the number of the grant.  0   *)
(* is the missing reference.  Every operation holds the lock of the store, *)
(* so callers on several threads interleave whole operations.              *)
(***************************************************************************)
EXTENDS SessionContext, Sequences, FiniteSets

CONSTANTS
  Ttl,                  \* approval_ttl_seconds
  MaxGrants             \* how many grants are kept

ASSUME GrantsAssumption == Ttl \in Nat \ {0} /\ MaxGrants \in Nat \ {0}

VARIABLES
  minted,               \* every grant ever issued, by reference
  grants,               \* the references the store holds
  consumed,             \* history: successful consumptions, in order
  spoiled               \* history: references burned by a failed attempt

approvals == <<minted, grants, consumed, spoiled>>

Grant == [action : Actions, policy : Policies, expires : Nat]

Consumption == [ref : Nat \ {0}, action : Actions, policy : Policies, at : Nat]

GrantsInit == minted = <<>> /\ grants = {} /\ consumed = <<>> /\ spoiled = {}

GrantsType ==
  /\ minted \in Seq(Grant)
  /\ grants \subseteq 1 .. Len(minted)
  /\ consumed \in Seq(Consumption)
  /\ spoiled \subseteq 1 .. Len(minted)
-----------------------------------------------------------------------------
Unexpired == {r \in grants : minted[r].expires > now}

Issue(p, a) ==
  /\ Verdict(p, a) = "approval_required"
  /\ Cardinality(Unexpired) < MaxGrants
  /\ minted' = Append(minted, [action |-> a, policy |-> p, expires |-> now + Ttl])
  /\ grants' = Unexpired \cup {Len(minted) + 1}
  /\ UNCHANGED <<consumed, spoiled>>

\* A full store drops what has expired and issues nothing.
IssueOverCapacity(p, a) ==
  /\ Verdict(p, a) = "approval_required"
  /\ Cardinality(Unexpired) >= MaxGrants
  /\ grants' = Unexpired
  /\ UNCHANGED <<minted, consumed, spoiled>>

ConsumeReason(r, p, a) ==
  IF r = 0 THEN "approval_missing"
  ELSE IF r \notin grants THEN "approval_unknown_or_replayed"
  ELSE IF now >= minted[r].expires THEN "approval_expired"
  ELSE IF minted[r].action # a THEN "approval_action_changed"
  ELSE IF minted[r].policy # p THEN "approval_policy_changed"
  ELSE "none"

\* As if only a successful attempt used the grant up.
ConsumeWithoutBurning(r, p, a) ==
  IF ConsumeReason(r, p, a) = "none"
  THEN /\ consumed' = Append(consumed, [ref |-> r, action |-> a, policy |-> p, at |-> now])
       /\ grants' = grants \ {r}
       /\ UNCHANGED <<minted, spoiled>>
  ELSE /\ spoiled' = spoiled \cup {r}
       /\ UNCHANGED <<minted, grants, consumed>>

\* Any attempt that names a grant takes it out of the store.
Consume(r, p, a) ==
  /\ grants' = grants \ {r}
  /\ IF ConsumeReason(r, p, a) = "none"
     THEN /\ consumed' = Append(consumed, [ref |-> r, action |-> a, policy |-> p, at |-> now])
          /\ UNCHANGED spoiled
     ELSE /\ spoiled' = spoiled \cup ({r} \cap grants)
          /\ UNCHANGED consumed
  /\ UNCHANGED minted
-----------------------------------------------------------------------------
GrantsNext ==
  \/ /\ \E p \in Policies, a \in Actions :
          \/ Issue(p, a) \/ IssueOverCapacity(p, a)
          \/ \E r \in 0 .. Len(minted) : Consume(r, p, a)
     /\ UNCHANGED control
  \/ Tick /\ UNCHANGED approvals

grantsVars == <<control, approvals>>

GrantsStart == ControlInit /\ GrantsInit

GrantsSpec == GrantsStart /\ [][GrantsNext]_grantsVars
-----------------------------------------------------------------------------
(***************************************************************************)
(* Properties.                                                             *)
(***************************************************************************)

\* The first attempt on a grant decides: a grant authorizes at most one consumption,
\* and none at all once an attempt with another action, another policy or after its
\* expiry has named it.  ("consume() burns a grant on any attempt".)
FirstAttemptDecides ==
  /\ \A i, j \in DOMAIN consumed : consumed[i].ref = consumed[j].ref => i = j
  /\ \A i \in DOMAIN consumed : consumed[i].ref \notin spoiled
  /\ \A i \in DOMAIN consumed : consumed[i].ref \notin grants

\* What was consumed is what was reviewed: the same action under the same policy,
\* within the lifetime the policy gave the grant, whatever was attempted before.
ConsumedAsReviewed ==
  \A i \in DOMAIN consumed :
    LET g == minted[consumed[i].ref]
    IN /\ g.action = consumed[i].action /\ g.policy = consumed[i].policy
       /\ consumed[i].at < g.expires
       /\ Verdict(g.policy, g.action) = "approval_required"
=============================================================================
