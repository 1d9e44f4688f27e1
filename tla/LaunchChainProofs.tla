--------------------------- MODULE LaunchChainProofs --------------------------
(***************************************************************************)
(* What holds for any actions, policies, limits, lifetimes and faults: a   *)
(* grant and a permit are good for one use, and the chain from a proposal  *)
(* to a running tool keeps the promise of LaunchGate.                      *)
(***************************************************************************)
EXTENDS LaunchChain, SequenceTheorems, FoldTheorems, TLAPS

USE ContextAssumption, GrantsAssumption, AdmissionAssumption, LauncherAssumption,
    ChainAssumption

LEMMA AppendFacts ==
  ASSUME NEW S, NEW s \in Seq(S), NEW e \in S
  PROVE  /\ Append(s, e) \in Seq(S)
         /\ Len(s) \in Nat
         /\ Len(Append(s, e)) = Len(s) + 1
         /\ DOMAIN Append(s, e) = 1 .. Len(s) + 1
         /\ DOMAIN s = 1 .. Len(s)
         /\ \A i \in 1 .. Len(s) : Append(s, e)[i] = s[i]
         /\ Append(s, e)[Len(s) + 1] = e
OBVIOUS
-----------------------------------------------------------------------------
(***************************************************************************)
(* Grants.                                                                 *)
(***************************************************************************)
\* Grants were issued where the policy asks, and those the store still holds have
\* neither been consumed nor spoiled.
GrantsInv ==
  /\ GrantsType
  /\ \A i \in DOMAIN minted : Verdict(minted[i].policy, minted[i].action) = "approval_required"
  /\ \A i \in DOMAIN consumed : consumed[i].ref \in 1 .. Len(minted)
  /\ grants \cap spoiled = {}
  /\ FirstAttemptDecides
  /\ ConsumedAsReviewed

LEMMA IssueKeepsGrants ==
  ASSUME GrantsInv, now \in Nat, NEW p \in Policies, NEW a \in Actions,
         Issue(p, a) \/ IssueOverCapacity(p, a)
  PROVE  GrantsInv'
<1>1. CASE Issue(p, a)
  <2> DEFINE g == [action |-> a, policy |-> p, expires |-> now + Ttl]
  <2>1. g \in Grant
    BY DEF Grant
  <2>2. /\ minted \in Seq(Grant) /\ minted' = Append(minted, g)
        /\ grants' = Unexpired \cup {Len(minted) + 1} /\ Unexpired \subseteq grants
        /\ UNCHANGED <<consumed, spoiled>>
    BY <1>1 DEF Issue, Unexpired, GrantsInv, GrantsType
  <2> HIDE DEF g
  <2>3. /\ minted' \in Seq(Grant) /\ Len(minted') = Len(minted) + 1 /\ Len(minted) \in Nat
        /\ \A i \in 1 .. Len(minted) : minted'[i] = minted[i]
    BY <2>1, <2>2, AppendFacts
  <2>. /\ consumed \in Seq(Consumption) /\ spoiled \subseteq 1 .. Len(minted)
       /\ grants \subseteq 1 .. Len(minted)
    BY DEF GrantsInv, GrantsType
  <2>4. GrantsType'
    <3>1. grants' \subseteq 1 .. Len(minted') /\ spoiled' \subseteq 1 .. Len(minted')
      <4> HIDE DEF Unexpired
      <4>1. ASSUME NEW x \in grants' PROVE x \in 1 .. Len(minted')
        <5>1. x \in 1 .. Len(minted) \/ x = Len(minted) + 1
          BY <2>2, <4>1
        <5> QED
          BY <2>3, <5>1
      <4>2. ASSUME NEW x \in spoiled' PROVE x \in 1 .. Len(minted')
        BY <2>2, <2>3, <4>2
      <4> QED
        BY <4>1, <4>2
    <3> QED
      BY <2>2, <2>3, <3>1 DEF GrantsType
  <2>5. \A i \in DOMAIN consumed' : /\ consumed'[i].ref \in 1 .. Len(minted')
                                    /\ minted'[consumed'[i].ref] = minted[consumed[i].ref]
    BY <2>2, <2>3 DEF GrantsInv
  <2>6. (grants \cap spoiled)' = {}
    <3>1. grants \cap spoiled = {} /\ Len(minted) + 1 \notin spoiled
      BY <2>3 DEF GrantsInv
    <3> QED
      BY <2>2, <3>1
  <2>7. FirstAttemptDecides'
    BY <2>2, <2>3 DEF GrantsInv, FirstAttemptDecides
  <2>8. ConsumedAsReviewed'
    BY <2>2, <2>5 DEF GrantsInv, ConsumedAsReviewed, Verdict
  <2>9. \A i \in DOMAIN minted' :
          Verdict(minted'[i].policy, minted'[i].action) = "approval_required"
    <3>1. Verdict(g.policy, g.action) = "approval_required"
      BY <1>1 DEF Issue, g
    <3>2. minted'[Len(minted) + 1] = g /\ DOMAIN minted' = 1 .. Len(minted) + 1
      BY <2>1, <2>2, AppendFacts
    <3> QED
      BY <2>3, <3>1, <3>2, AppendFacts DEF GrantsInv, GrantsType
  <2> QED
    BY <2>4, <2>5, <2>6, <2>7, <2>8, <2>9 DEF GrantsInv, Verdict
<1>2. CASE IssueOverCapacity(p, a)
  <2>1. UNCHANGED <<minted, consumed, spoiled>> /\ grants' \subseteq grants
    BY <1>2 DEF IssueOverCapacity, Unexpired
  <2> QED
    BY <2>1 DEF GrantsInv, GrantsType, FirstAttemptDecides, ConsumedAsReviewed, Verdict
<1> QED
  BY <1>1, <1>2

LEMMA ConsumeKeepsGrants ==
  ASSUME GrantsInv, now \in Nat, NEW p \in Policies, NEW a \in Actions,
         NEW r \in 0 .. Len(minted), Consume(r, p, a)
  PROVE  GrantsInv'
<1>1. CASE ConsumeReason(r, p, a) # "none"
  <2>1. /\ UNCHANGED <<minted, consumed>> /\ grants' = grants \ {r}
        /\ spoiled' = spoiled \cup ({r} \cap grants)
    BY <1>1 DEF Consume
  <2> QED
    BY <2>1 DEF GrantsInv, GrantsType, FirstAttemptDecides, ConsumedAsReviewed, Verdict
<1>2. CASE ConsumeReason(r, p, a) = "none"
  <2> DEFINE c == [ref |-> r, action |-> a, policy |-> p, at |-> now]
  <2>1. /\ UNCHANGED <<minted, spoiled>> /\ grants' = grants \ {r}
        /\ consumed' = Append(consumed, c)
    BY <1>2 DEF Consume
  <2>2. /\ r # 0 /\ r \in grants /\ now < minted[r].expires
        /\ minted[r].action = a /\ minted[r].policy = p
    <3>1. r # 0 /\ r \in grants /\ ~(now >= minted[r].expires)
          /\ minted[r].action = a /\ minted[r].policy = p
      BY <1>2 DEF ConsumeReason
    <3>2. r \in 1 .. Len(minted) /\ minted \in Seq(Grant)
      BY <3>1 DEF GrantsInv, GrantsType
    <3>3. minted[r] \in Grant
      BY <3>2
    <3>4. minted[r].expires \in Nat
      BY <3>3 DEF Grant
    <3> QED
      BY <3>1, <3>4
  <2>3. c \in Consumption /\ consumed \in Seq(Consumption)
    BY <2>2 DEF Consumption, GrantsInv, GrantsType
  <2>4. c.ref = r /\ c.action = a /\ c.policy = p /\ c.at = now
    OBVIOUS
  <2> HIDE DEF c
  <2>5. /\ consumed' \in Seq(Consumption) /\ DOMAIN consumed' = DOMAIN consumed \cup {Len(consumed) + 1}
        /\ Len(consumed) + 1 \notin DOMAIN consumed
        /\ \A i \in DOMAIN consumed : consumed'[i] = consumed[i]
        /\ consumed'[Len(consumed) + 1] = c
    BY <2>1, <2>3, AppendFacts
  <2>6. GrantsType' /\ (grants \cap spoiled)' = {}
    BY <2>1, <2>5 DEF GrantsInv, GrantsType
  <2>7. \A i \in DOMAIN consumed' : consumed'[i].ref \in 1 .. Len(minted')
    BY <2>1, <2>2, <2>4, <2>5 DEF GrantsInv
  <2>8. FirstAttemptDecides'
    BY <2>1, <2>2, <2>4, <2>5 DEF GrantsInv, FirstAttemptDecides
  <2>9. Verdict(p, a) = "approval_required"
    BY <2>2 DEF GrantsInv, GrantsType
  <2>10. ConsumedAsReviewed'
    BY <2>1, <2>2, <2>4, <2>5, <2>9 DEF GrantsInv, ConsumedAsReviewed, Verdict
  <2> QED
    BY <2>1, <2>6, <2>7, <2>8, <2>10 DEF GrantsInv, Verdict
<1> QED
  BY <1>1, <1>2

LEMMA GrantsInductive == GrantsSpec => [](ControlType /\ GrantsInv)
<1>1. GrantsStart => ControlType /\ GrantsInv
  <2> SUFFICES ASSUME GrantsStart
               PROVE  ControlType /\ GrantsInv
    OBVIOUS
  <2>1. ControlType
    <3>1. now = 0 /\ cancelled = FALSE
      BY DEF GrantsStart, ControlInit
    <3>2. 0 \in 0 .. Deadline
      OBVIOUS
    <3> QED
      BY <3>1, <3>2 DEF ControlType
  <2>2. minted = <<>> /\ consumed = <<>> /\ grants = {} /\ spoiled = {}
    BY DEF GrantsStart, GrantsInit
  <2> QED
    BY <2>1, <2>2 DEF GrantsInv, GrantsType, FirstAttemptDecides, ConsumedAsReviewed
<1>2. ControlType /\ GrantsInv /\ [GrantsNext]_grantsVars => (ControlType /\ GrantsInv)'
  <2> SUFFICES ASSUME ControlType, GrantsInv, [GrantsNext]_grantsVars
               PROVE  (ControlType /\ GrantsInv)'
    OBVIOUS
  <2>1. CASE (Tick /\ UNCHANGED approvals) \/ UNCHANGED grantsVars
    <3>1. ControlType' /\ UNCHANGED approvals
      BY <2>1 DEF Tick, ControlType, grantsVars, control
    <3> QED
      BY <3>1 DEF approvals, GrantsInv, GrantsType, FirstAttemptDecides, ConsumedAsReviewed,
                  Verdict
  <2>2. ASSUME NEW p \in Policies, NEW a \in Actions, UNCHANGED control,
               \/ Issue(p, a) \/ IssueOverCapacity(p, a)
               \/ \E r \in 0 .. Len(minted) : Consume(r, p, a)
        PROVE  (ControlType /\ GrantsInv)'
    <3>1. ControlType' /\ now \in Nat
      BY <2>2 DEF ControlType, control
    <3> QED
      BY <2>2, <3>1, IssueKeepsGrants, ConsumeKeepsGrants
  <2> QED
    BY <2>1, <2>2 DEF GrantsNext
<1> QED
  BY <1>1, <1>2, PTL DEF GrantsSpec

\* For any policies, lifetimes and capacities: the first attempt on a grant decides.
THEOREM GrantsAreSingleUse == GrantsSpec => []FirstAttemptDecides
BY GrantsInductive, PTL DEF GrantsInv

\* For any policies, lifetimes and capacities: what is consumed is what was reviewed.
THEOREM GrantsBindReview == GrantsSpec => []ConsumedAsReviewed
BY GrantsInductive, PTL DEF GrantsInv
-----------------------------------------------------------------------------
(***************************************************************************)
(* Permits.                                                                *)
(***************************************************************************)
\* Every permit redeemed was handed out, and stands for a launch that was counted.
AdmissionInv ==
  /\ AdmissionType
  /\ Len(admitted) = executions
  /\ \A i \in DOMAIN redeemed : redeemed[i].permit \in 1 .. Len(admitted)
  /\ PermitsOpenOneLaunch

LEMMA AdmitKeepsPermits ==
  ASSUME AdmissionInv, ControlType, NEW p \in Policies, NEW a \in Actions, Admit(p, a)
  PROVE  AdmissionInv'
<1> serving' \in BOOLEAN /\ exchanges' \in 0 .. MaxExchanges /\ redeemed' = redeemed
  BY DEF Admit, Exchange, AdmissionInv, AdmissionType
<1>1. CASE AdmitReason(p, a) # "none"
  BY <1>1 DEF Admit, AdmissionInv, AdmissionType, PermitsOpenOneLaunch
<1>2. CASE AdmitReason(p, a) = "none"
  <2> DEFINE k == [action |-> a, policy |-> Policy,
                   expires |-> Sooner(now + PermitSeconds, Deadline)]
  <2>1. /\ executions' = executions + 1 /\ outputs' = outputs + Allowance[a]
        /\ admitted' = Append(admitted, k) /\ permits' = permits \cup {Len(admitted) + 1}
    BY <1>2 DEF Admit
  <2>2. executions < MaxSteps /\ outputs + Allowance[a] <= MaxOutput
    BY <1>2 DEF AdmitReason, AdmissionInv, AdmissionType
  <2>3. k \in Permit
    BY DEF Permit, Sooner, ControlType
  <2> HIDE DEF k
  <2>4. /\ admitted' \in Seq(Permit) /\ Len(admitted') = Len(admitted) + 1
        /\ Len(admitted) \in Nat
        /\ \A i \in 1 .. Len(admitted) : admitted'[i] = admitted[i]
    BY <2>1, <2>3, AppendFacts DEF AdmissionInv, AdmissionType
  <2>5. executions' \in 0 .. MaxSteps /\ outputs' \in 0 .. MaxOutput
    BY <2>1, <2>2 DEF AdmissionInv, AdmissionType
  <2>6. permits' \subseteq 1 .. Len(admitted')
    <3>1. permits \subseteq 1 .. Len(admitted)
      BY DEF AdmissionInv, AdmissionType
    <3>2. ASSUME NEW x \in permits' PROVE x \in 1 .. Len(admitted')
      <4>1. x \in 1 .. Len(admitted) \/ x = Len(admitted) + 1
        BY <2>1, <3>1, <3>2
      <4> QED
        BY <2>4, <4>1
    <3> QED
      BY <3>2
  <2>7. AdmissionType'
    BY <2>4, <2>5, <2>6 DEF AdmissionInv, AdmissionType
  <2>8. \A i \in DOMAIN redeemed' : /\ redeemed'[i].permit \in 1 .. Len(admitted')
                                    /\ redeemed'[i].permit # Len(admitted) + 1
                                    /\ admitted'[redeemed'[i].permit] = admitted[redeemed[i].permit]
    BY <2>4 DEF AdmissionInv
  <2>9. PermitsOpenOneLaunch'
    BY <2>1, <2>8 DEF AdmissionInv, PermitsOpenOneLaunch
  <2>10. Len(admitted') = executions'
    BY <2>1, <2>4 DEF AdmissionInv
  <2> QED
    BY <2>7, <2>8, <2>9, <2>10 DEF AdmissionInv
<1> QED
  BY <1>1, <1>2

LEMMA RedeemKeepsPermits ==
  ASSUME AdmissionInv, NEW k \in 0 .. Len(admitted), NEW p \in Policies, NEW a \in Actions,
         Redeem(k, p, a)
  PROVE  AdmissionInv'
<1> /\ serving' \in BOOLEAN /\ exchanges' \in 0 .. MaxExchanges
    /\ UNCHANGED <<executions, outputs, admitted>> /\ permits' = permits \ {k}
  BY DEF Redeem, Exchange, AdmissionInv, AdmissionType
<1>1. CASE RedeemReason(k, p, a) # "none"
  <2>1. redeemed' = redeemed
    BY <1>1 DEF Redeem
  <2> QED
    BY <2>1 DEF AdmissionInv, AdmissionType, PermitsOpenOneLaunch
<1>2. CASE RedeemReason(k, p, a) = "none"
  <2> DEFINE d == [permit |-> k, action |-> a]
  <2>1. redeemed' = Append(redeemed, d)
    BY <1>2 DEF Redeem
  <2>2. k # 0 /\ k \in permits /\ admitted[k].action = a
    BY <1>2 DEF RedeemReason
  <2>3. k \in 1 .. Len(admitted)
    BY <2>2 DEF AdmissionInv, AdmissionType
  <2>4. d \in Redemption /\ redeemed \in Seq(Redemption)
    BY <2>3 DEF Redemption, AdmissionInv, AdmissionType
  <2>5. d.permit = k /\ d.action = a
    OBVIOUS
  <2> HIDE DEF d
  <2>6. /\ redeemed' \in Seq(Redemption)
        /\ DOMAIN redeemed' = DOMAIN redeemed \cup {Len(redeemed) + 1}
        /\ Len(redeemed) + 1 \notin DOMAIN redeemed
        /\ \A i \in DOMAIN redeemed : redeemed'[i] = redeemed[i]
        /\ redeemed'[Len(redeemed) + 1] = d
    BY <2>1, <2>4, AppendFacts
  <2>7. AdmissionType'
    BY <2>6 DEF AdmissionInv, AdmissionType
  <2>8. PermitsOpenOneLaunch'
    BY <2>2, <2>5, <2>6 DEF AdmissionInv, PermitsOpenOneLaunch
  <2> QED
    BY <2>3, <2>5, <2>6, <2>7, <2>8 DEF AdmissionInv
<1> QED
  BY <1>1, <1>2

LEMMA AdmissionInductive == AdmissionSpec => [](ControlType /\ AdmissionInv)
<1>1. AdmissionStart => ControlType /\ AdmissionInv
  <2> SUFFICES ASSUME AdmissionStart
               PROVE  ControlType /\ AdmissionInv
    OBVIOUS
  <2>1. ControlType
    <3>1. now = 0 /\ cancelled = FALSE
      BY DEF AdmissionStart, ControlInit
    <3>2. 0 \in 0 .. Deadline
      OBVIOUS
    <3> QED
      BY <3>1, <3>2 DEF ControlType
  <2>2. AdmissionType
    BY DEF AdmissionStart, AdmissionInit, AdmissionType
  <2>3. Len(admitted) = executions /\ redeemed = <<>>
    BY DEF AdmissionStart, AdmissionInit
  <2> QED
    BY <2>1, <2>2, <2>3 DEF AdmissionInv, PermitsOpenOneLaunch
<1>2. ControlType /\ AdmissionInv /\ [AdmissionNext]_admissionVars
      => (ControlType /\ AdmissionInv)'
  <2> SUFFICES ASSUME ControlType, AdmissionInv, [AdmissionNext]_admissionVars
               PROVE  (ControlType /\ AdmissionInv)'
    OBVIOUS
  <2>1. CASE (Tick /\ UNCHANGED admission) \/ UNCHANGED admissionVars
    <3>1. ControlType' /\ UNCHANGED admission
      BY <2>1 DEF Tick, ControlType, admissionVars, control
    <3> QED
      BY <3>1 DEF admission, AdmissionInv, AdmissionType, PermitsOpenOneLaunch
  <2>2. ASSUME NEW p \in Policies, NEW a \in Actions, UNCHANGED control,
               Admit(p, a) \/ \E k \in 0 .. Len(admitted) : Redeem(k, p, a)
        PROVE  (ControlType /\ AdmissionInv)'
    <3>1. ControlType'
      BY <2>2 DEF ControlType, control
    <3> QED
      BY <2>2, <3>1, AdmitKeepsPermits, RedeemKeepsPermits
  <2>3. CASE StopServing /\ UNCHANGED control
    BY <2>3 DEF StopServing, ControlType, control, AdmissionInv, AdmissionType,
                PermitsOpenOneLaunch
  <2> QED
    BY <2>1, <2>2, <2>3 DEF AdmissionNext
<1> QED
  BY <1>1, <1>2, PTL DEF AdmissionSpec

\* For any profile and limits: the reservations stay within the limits of the session.
THEOREM AdmissionTypeCorrect == AdmissionSpec => []AdmissionTypeOK
BY AdmissionInductive, PTL DEF AdmissionInv, AdmissionTypeOK

\* For any profile and limits: a permit opens at most one launch, the one it was admitted for.
THEOREM PermitsAreSingleUse == AdmissionSpec => []PermitsOpenOneLaunch
BY AdmissionInductive, PTL DEF AdmissionInv
-----------------------------------------------------------------------------
(***************************************************************************)
(* The chain.  The invariant says how far the host, the two channels and   *)
(* the launcher have come with one launch: intents, consumed approvals,    *)
(* what the launcher has read of them, and launches, count up in step.     *)
(***************************************************************************)
\* The launch in hand has used its intent, its approval, its reservation.
WithIntent == {"intended", "consented", "admitted", "redeemed", "fresh"}

WithConsent == WithIntent \ {"intended"}

Reserved == WithConsent \ {"consented"}

\* The intent of the call is durable, and its witness has left.
Intended ==
  \/ pc = "execution_started" /\ wire \in {"stored", "done"}
  \/ pc \in {"launching", "running"}

Proved ==
  \/ pc = "execution_started" /\ wire = "done"
  \/ pc = "launching"
  \/ pc = "running" /\ launcher = "up" /\ stage = "asked"

\* The approval of the call is consumed, and its witness has left.
Burned == pc = "consuming" /\ wire \in {"burned", "done"}

Approved ==
  \/ pc = "consuming" /\ wire = "done"
  \/ pc \in {"approval_consumed", "available", "recording", "execution_started", "launching"}
  \/ pc = "running" /\ launcher = "up" /\ stage \in {"asked", "intended"}

ThreadInv ==
  /\ pc \notin {"idle", "reviewing"} => poisoned = {}
  /\ launcher = "up" /\ stage # "idle" => pc = "running" /\ job = act
  /\ launcher = "unstarted" => stage = "idle"

IntentInv ==
  /\ \A n \in DOMAIN intents :
       intents[n].at \in DOMAIN trail /\ trail[intents[n].at] = "execution_started"
  /\ \A i \in DOMAIN proofs :
       proofs[i].seq \in DOMAIN intents /\ intents[proofs[i].seq].action = proofs[i].action
  /\ Intended => Len(intents) > 0 /\ intents[Len(intents)].action = act
  /\ Proved => Len(proofs) > 0 /\ proofs[Len(proofs)].seq = Len(intents)

ConsentInv ==
  /\ \A n \in DOMAIN consumed : minted[consumed[n].ref].action = consumed[n].action
  /\ \A i \in DOMAIN consents :
       /\ consents[i].seq \in DOMAIN consumed
       /\ consumed[consents[i].seq].action = consents[i].action
       /\ consents[i].expires <= minted[consumed[consents[i].seq].ref].expires
  /\ Burned => Len(consumed) > 0 /\ consumed[Len(consumed)].action = act
  /\ Asks /\ Approved => Len(consents) > 0 /\ consents[Len(consents)].seq = Len(consumed)

\* What the launcher has read and what it has launched differ by the launch in hand.
LockstepInv ==
  launcher # "down" /\ stage # "refused" =>
    /\ intentRead.seq = IF stage \in WithIntent THEN Len(launches) + 1 ELSE Len(launches)
    /\ stage \in WithIntent => /\ intentRead.seq = Len(intents)
                               /\ intents[Len(intents)].action = job
    /\ stage \in Reserved => Len(launches) + 1 <= executions
    /\ Asks =>
         /\ consentRead.seq = IF stage \in WithConsent THEN Len(launches) + 1 ELSE Len(launches)
         /\ stage \in WithConsent =>
              /\ consentRead.seq = Len(consumed) /\ consumed[Len(consumed)].action = job
              /\ fresh <= minted[consumed[Len(consumed)].ref].expires
         /\ stage = "fresh" => checked < minted[consumed[Len(consumed)].ref].expires

ChainInv ==
  /\ TypeOK /\ GrantsInv /\ AdmissionInv
  /\ ThreadInv /\ IntentInv /\ ConsentInv /\ LockstepInv
  /\ Len(launches) <= executions
  /\ LaunchesAreBacked

LEMMA ChainStarts == Init => ChainInv
<1> SUFFICES ASSUME Init PROVE ChainInv
  OBVIOUS
<1>1. TypeOK
  <2>1. ControlType /\ GrantsType /\ AdmissionType
    BY DEF Init, ControlInit, GrantsInit, AdmissionInit, ControlType, GrantsType, AdmissionType
  <2>2. LauncherType
    BY DEF Init, LauncherInit, LauncherType, Status, Stages
  <2>3. act \in Actions /\ pc \in Places /\ wire \in Wires
    BY DEF Init, LauncherInit, Places, Wires
  <2>4. trail \in Seq(Events) /\ intents \in Seq([action : Actions, at : Nat \ {0}])
        /\ evidence \in Seq({"open", "done"})
    BY DEF Init
  <2>5. told \in [executions : Nat, outputs : Nat] /\ stopped \in BOOLEAN
        /\ poisoned \subseteq {"audit", "approval"} /\ reviews \in Nat /\ requests \in Nat
    BY DEF Init
  <2> QED
    BY <2>1, <2>2, <2>3, <2>4, <2>5 DEF TypeOK
<1>2. GrantsInv /\ AdmissionInv
  BY DEF Init, GrantsInit, AdmissionInit, GrantsInv, GrantsType, FirstAttemptDecides,
         ConsumedAsReviewed, AdmissionInv, AdmissionType, PermitsOpenOneLaunch
<1>3. ThreadInv /\ IntentInv /\ ConsentInv
  BY DEF Init, GrantsInit, LauncherInit, ThreadInv, IntentInv, ConsentInv, Intended, Proved,
         Burned, Approved
<1>4. LockstepInv
  BY DEF Init, LauncherInit, LockstepInv, WithIntent, WithConsent, Reserved
<1>5. Len(launches) <= executions /\ LaunchesAreBacked
  BY DEF Init, LauncherInit, AdmissionInit, LaunchesAreBacked
<1> QED
  BY <1>1, <1>2, <1>3, <1>4, <1>5 DEF ChainInv
-----------------------------------------------------------------------------
(***************************************************************************)
(* Steps that leave intents, consents and launches alone.                  *)
(***************************************************************************)
\* Nothing is written, sent, read or launched; grants may be issued.
Still ==
  /\ UNCHANGED <<trail, intents, proofs, consumed, consents, stage, job, intentRead,
                 consentRead, fresh, checked, launches, executions>>
  /\ \A i \in DOMAIN minted : i \in DOMAIN minted' /\ minted'[i] = minted[i]
  /\ launcher' \in {launcher, "down"}

\* The thread claims no more than before.
Modest ==
  /\ pc' \notin {"idle", "reviewing"} => poisoned' = {}
  /\ launcher' = "up" /\ stage # "idle" => pc' = "running" /\ job = act'
  /\ Intended' => Intended /\ act' = act
  /\ Proved' => Proved
  /\ Burned' => Burned /\ act' = act
  /\ Asks /\ Approved' => Approved

LEMMA StillKeepsChain ==
  ASSUME ChainInv, TypeOK', GrantsInv', AdmissionInv', Still, Modest
  PROVE  ChainInv'
<1> /\ \A n \in DOMAIN consumed : consumed[n].ref \in DOMAIN minted
    /\ \A n \in DOMAIN consumed : minted'[consumed[n].ref] = minted[consumed[n].ref]
  BY DEF ChainInv, GrantsInv, GrantsType, Still
<1>1. ThreadInv'
  BY DEF ChainInv, ThreadInv, Still, Modest
<1>2. IntentInv'
  BY DEF ChainInv, IntentInv, Still, Modest
<1>3. ConsentInv'
  BY DEF ChainInv, ConsentInv, Still, Modest, Asks
<1>4. LockstepInv'
  <2>1. CASE launcher' = "down"
    BY <2>1 DEF LockstepInv
  <2>2. CASE launcher' = launcher /\ stage \in WithConsent /\ Asks /\ launcher # "down"
    <3>1. Len(consumed) \in DOMAIN consumed
      <4>1. stage # "refused" /\ stage \in WithConsent
        BY <2>2 DEF WithConsent, WithIntent
      <4>2. Len(launches) + 1 = Len(consumed)
        BY <2>2, <4>1 DEF ChainInv, LockstepInv
      <4>3. launches \in Seq(Launch) /\ consumed \in Seq(Consumption)
        BY DEF ChainInv, TypeOK, LauncherType, GrantsType
      <4> QED
        BY <4>2, <4>3
    <3> QED
      BY <2>2, <3>1 DEF ChainInv, LockstepInv, Still, Asks, WithConsent, WithIntent
  <2>3. CASE launcher' = launcher /\ ~(stage \in WithConsent /\ Asks /\ launcher # "down")
    BY <2>3 DEF ChainInv, LockstepInv, Still, Asks, WithConsent, WithIntent
  <2> QED
    BY <2>1, <2>2, <2>3 DEF Still
<1>5. Len(launches') <= executions' /\ LaunchesAreBacked'
  BY DEF ChainInv, LaunchesAreBacked, Still, Asks
<1> QED
  BY <1>1, <1>2, <1>3, <1>4, <1>5 DEF ChainInv

LEMMA GrantsUnchanged ==
  ASSUME GrantsInv, UNCHANGED approvals
  PROVE  GrantsInv'
BY DEF approvals, GrantsInv, GrantsType, FirstAttemptDecides, ConsumedAsReviewed, Verdict

LEMMA AdmissionUnchanged ==
  ASSUME AdmissionInv, UNCHANGED admission
  PROVE  AdmissionInv'
BY DEF admission, AdmissionInv, AdmissionType, PermitsOpenOneLaunch

LEMMA QuietStill ==
  ASSUME ChainInv, Quietly, pc' \in Places, wire' \in Wires
  PROVE  TypeOK' /\ GrantsInv' /\ AdmissionInv' /\ Still
<1>1. GrantsInv' /\ AdmissionInv'
  BY GrantsUnchanged, AdmissionUnchanged DEF ChainInv, Quietly
<1>2. TypeOK'
  BY DEF ChainInv, Quietly, TypeOK, control, approvals, admission, channels, worker, records,
         counters, ControlType, GrantsType, AdmissionType, LauncherType
<1>3. Still
  BY DEF Quietly, Still, approvals, admission, channels, worker, records
<1> QED
  BY <1>1, <1>2, <1>3

LEMMA QuietSteps ==
  ASSUME ChainInv,
         \/ Decided \/ ConsumeUnstarted \/ ApprovalRecorded \/ CheckAvailable
         \/ IntentRecorded \/ Ended \/ LaunchHalted
  PROVE  ChainInv'
<1>1. /\ Quietly /\ pc' \in Places /\ wire' \in Wires
      /\ pc \notin {"idle", "reviewing", "running"}
  BY DEF Decided, ConsumeUnstarted, ApprovalRecorded, CheckAvailable, IntentRecorded, Ended,
         LaunchHalted, Acknowledged, Goto, Ask, Places, Events, Wires
<1>2. TypeOK' /\ GrantsInv' /\ AdmissionInv' /\ Still
  BY <1>1, QuietStill
<1>3. /\ poisoned' = {} /\ act' = act /\ launcher' = launcher
      /\ ~(launcher = "up" /\ stage # "idle")
  BY <1>1 DEF ChainInv, ThreadInv, Quietly, worker
<1>4. Modest
  <2>1. CASE Decided
    BY <2>1, <1>3 DEF Decided, Acknowledged, Goto, Ask, Modest, Intended, Proved, Burned,
                      Approved, Verdict, Asks
  <2>2. CASE ConsumeUnstarted \/ Ended \/ LaunchHalted
    BY <2>2, <1>3 DEF ConsumeUnstarted, Ended, LaunchHalted, Acknowledged, Goto, Ask, Modest,
                      Intended, Proved, Burned, Approved
  <2>3. CASE ApprovalRecorded \/ CheckAvailable \/ IntentRecorded
    BY <2>3, <1>3 DEF ApprovalRecorded, CheckAvailable, IntentRecorded, Acknowledged, Goto,
                      Ask, Modest, Intended, Proved, Burned, Approved
  <2> QED
    BY <2>1, <2>2, <2>3
<1> QED
  BY <1>2, <1>4, StillKeepsChain

\* A step of the thread that leaves grants, permits and what the launcher does alone.
HostOnly ==
  /\ UNCHANGED <<control, approvals, admission, auditing, proofs, consents, worker, trail,
                 intents>>
  /\ act' \in Actions /\ pc' \in Places /\ wire' \in Wires /\ approving' \in Status
  /\ poisoned' \subseteq {"audit", "approval"}
  /\ evidence' \in Seq({"open", "done"}) /\ requests' \in Nat
  /\ UNCHANGED <<reviews, told, stopped>>

LEMMA HostOnlyKeeps ==
  ASSUME ChainInv, HostOnly, Modest
  PROVE  ChainInv'
<1>1. GrantsInv' /\ AdmissionInv'
  BY GrantsUnchanged, AdmissionUnchanged DEF ChainInv, HostOnly
<1>2. TypeOK'
  BY DEF ChainInv, HostOnly, TypeOK, control, approvals, admission, worker,
         ControlType, GrantsType, AdmissionType, LauncherType
<1>3. Still
  BY DEF HostOnly, Still, approvals, admission, worker
<1> QED
  BY <1>1, <1>2, <1>3, StillKeepsChain

LEMMA HostSteps ==
  ASSUME ChainInv,
         \/ \E a \in Actions : Review(a) \/ Submit(a)
         \/ ReviewReturns \/ ApprovalFails \/ Consumed \/ EvidenceStarts \/ EvidenceFails
         \/ EvidenceFinishes
  PROVE  ChainInv'
<1> /\ TypeOK /\ ThreadInv
  BY DEF ChainInv
<1> USE DEF channels, records, counters, Goto, Ask
<1>1. ASSUME NEW a \in Actions, Review(a) \/ Submit(a) PROVE ChainInv'
  <2>1. HostOnly
    BY <1>1 DEF Review, Submit, HostOnly, TypeOK, LauncherType, Places, Events, Wires, Status
  <2>2. Modest
    BY <1>1 DEF Review, Submit, Modest, ThreadInv, Intended, Proved, Burned, Approved, worker
  <2> QED
    BY <2>1, <2>2, HostOnlyKeeps
<1>2. CASE ReviewReturns \/ Consumed
  <2>1. requests' \in Nat
    BY <1>2 DEF ReviewReturns, Consumed, TypeOK
  <2>2. HostOnly
    BY <1>2, <2>1 DEF ReviewReturns, Consumed, HostOnly, TypeOK, LauncherType, Places, Events,
                      Wires, Status
  <2>3. Modest
    BY <1>2 DEF ReviewReturns, Consumed, Modest, ThreadInv, Intended, Proved, Burned, Approved,
                worker
  <2> QED
    BY <2>2, <2>3, HostOnlyKeeps
<1>3. CASE ApprovalFails
  <2>1. HostOnly
    BY <1>3 DEF ApprovalFails, HostOnly, TypeOK, LauncherType, Places, Events, Wires, Status
  <2>2. Modest
    BY <1>3 DEF ApprovalFails, Modest, ThreadInv, Intended, Proved, Burned, Approved, worker
  <2> QED
    BY <2>1, <2>2, HostOnlyKeeps
<1>4. CASE EvidenceStarts \/ EvidenceFails \/ EvidenceFinishes
  <2>1. evidence' \in Seq({"open", "done"})
    <3>1. evidence \in Seq({"open", "done"}) /\ "open" \in {"open", "done"}
      BY DEF TypeOK
    <3>2. CASE EvidenceStarts
      BY <3>1, <3>2, AppendFacts DEF EvidenceStarts
    <3>3. CASE EvidenceFinishes
      <4>1. CASE evidence = <<>>
        <5>1. evidence' = evidence
          BY <3>3, <4>1 DEF EvidenceFinishes
        <5> QED
          BY <3>1, <5>1
      <4>2. CASE evidence # <<>>
        <5>1. Len(evidence) \in 1 .. Len(evidence)
          BY <3>1, <4>2
        <5> QED
          BY <3>1, <3>3, <5>1, ExceptSeq DEF EvidenceFinishes
      <4> QED
        BY <4>1, <4>2
    <3> QED
      BY <1>4, <3>1, <3>2, <3>3 DEF EvidenceFails
  <2>2. HostOnly
    BY <1>4, <2>1 DEF EvidenceStarts, EvidenceFails, EvidenceFinishes, HostOnly, TypeOK,
                LauncherType, Places, Events, Wires, Status
  <2>3. Modest
    BY <1>4 DEF EvidenceStarts, EvidenceFails, EvidenceFinishes, Modest, ThreadInv, Intended,
                Proved, Burned, Approved, worker
  <2> QED
    BY <2>2, <2>3, HostOnlyKeeps
<1> QED
  BY <1>1, <1>2, <1>3, <1>4

\* The clock, a cancellation, a closed launcher, dead workers, a failed record, a review.
LEMMA SurroundingSteps ==
  ASSUME ChainInv,
         \/ Surroundings \/ CloseLauncher \/ AuditFails \/ ReviewAnswered \/ UNCHANGED vars
  PROVE  ChainInv'
<1> /\ TypeOK /\ ThreadInv /\ GrantsInv /\ AdmissionInv
  BY DEF ChainInv
<1> USE DEF channels, records, counters, host
<1>1. CASE Surroundings \/ CloseLauncher \/ UNCHANGED vars
  <2>1. /\ UNCHANGED <<approvals, admission, proofs, consents, stage, job, intentRead,
                       consentRead, fresh, checked, launches, host, records, reviews,
                       requests, told>>
        /\ launcher' \in {launcher, "down"} /\ approving' \in {approving, "down"}
        /\ auditing' \in {auditing, FALSE} /\ stopped' \in BOOLEAN
        /\ ControlType'
    <3> USE DEF worker, control, TypeOK, ControlType
    <3>1. CASE AuditCrash \/ ApprovalCrash \/ LauncherCrash
      BY <3>1 DEF AuditCrash, ApprovalCrash, LauncherCrash
    <3>2. CASE CloseLauncher
      BY <3>2 DEF CloseLauncher
    <3>3. CASE (Tick \/ Cancel)
               /\ UNCHANGED <<approvals, admission, channels, worker, host, records, counters>>
      <4>1. ControlType'
        <5>1. ControlType
          OBVIOUS
        <5>2. CASE Tick
          BY <5>1, <5>2 DEF Tick
        <5>3. CASE Cancel
          BY <5>1, <5>3 DEF Cancel
        <5> QED
          BY <3>3, <5>2, <5>3
      <4> QED
        BY <3>3, <4>1
    <3>4. CASE UNCHANGED vars
      BY <3>4 DEF vars
    <3> QED
      BY <1>1, <3>1, <3>2, <3>3, <3>4 DEF Surroundings
  <2>2. GrantsInv' /\ AdmissionInv'
    BY <2>1, GrantsUnchanged, AdmissionUnchanged
  <2>3. TypeOK'
    BY <2>1 DEF TypeOK, approvals, admission, GrantsType, AdmissionType, LauncherType, Status
  <2>4. Still
    BY <2>1 DEF Still, approvals, admission
  <2>5. Modest
    BY <2>1 DEF Modest, ThreadInv, Intended, Proved, Burned, Approved
  <2> QED
    BY <2>2, <2>3, <2>4, <2>5, StillKeepsChain
<1>2. CASE AuditFails
  <2>1. /\ UNCHANGED <<control, approvals, admission, proofs, approving, consents, worker,
                       act, records, counters>>
        /\ pc \in Events /\ pc' = "idle" /\ wire' = "none" /\ auditing' = FALSE
        /\ poisoned' \subseteq {"audit", "approval"}
    BY <1>2 DEF AuditFails, Goto, TypeOK
  <2>2. GrantsInv' /\ AdmissionInv'
    BY <2>1, GrantsUnchanged, AdmissionUnchanged
  <2>3. TypeOK'
    BY <2>1 DEF TypeOK, control, approvals, admission, worker, ControlType, GrantsType,
                AdmissionType, LauncherType, Places, Wires
  <2>4. Still
    BY <2>1 DEF Still, approvals, admission, worker
  <2>5. Modest
    BY <2>1 DEF Modest, ThreadInv, Intended, Proved, Burned, Approved, worker, Events
  <2> QED
    BY <2>2, <2>3, <2>4, <2>5, StillKeepsChain
<1>3. CASE ReviewAnswered
  <2>1. /\ UNCHANGED <<control, admission, channels, worker, pc, act, poisoned, records,
                       requests, told, stopped>>
        /\ pc = "reviewing" /\ wire' = "done" /\ reviews' = reviews + 1
        /\ UNCHANGED <<consumed, spoiled>>
        /\ Issue(Policy, act) \/ IssueOverCapacity(Policy, act) \/ UNCHANGED approvals
    BY <1>3 DEF ReviewAnswered, Issue, IssueOverCapacity, approvals
  <2>2. GrantsInv'
    BY <2>1, IssueKeepsGrants, GrantsUnchanged DEF TypeOK, ControlType
  <2>3. \A i \in DOMAIN minted : i \in DOMAIN minted' /\ minted'[i] = minted[i]
    <3>1. CASE Issue(Policy, act)
      <4> DEFINE g == [action |-> act, policy |-> Policy, expires |-> now + Ttl]
      <4>1. minted' = Append(minted, g) /\ minted \in Seq(Grant) /\ g \in Grant
        BY <3>1 DEF Issue, TypeOK, ControlType, GrantsType, Grant
      <4> HIDE DEF g
      <4> QED
        BY <4>1, AppendFacts
    <3> QED
      BY <2>1, <3>1 DEF IssueOverCapacity, approvals
  <2>4. TypeOK'
    <3>1. GrantsType'
      BY <2>2 DEF GrantsInv
    <3> QED
      BY <2>1, <3>1 DEF TypeOK, control, admission, worker, ControlType, AdmissionType,
                        LauncherType, Wires
  <2>5. AdmissionInv' /\ Still
    BY <2>1, <2>3, AdmissionUnchanged DEF Still, admission, worker
  <2>6. Modest
    BY <2>1 DEF Modest, ThreadInv, Intended, Proved, Burned, Approved, worker
  <2> QED
    BY <2>2, <2>4, <2>5, <2>6, StillKeepsChain
<1> QED
  BY <1>1, <1>2, <1>3
-----------------------------------------------------------------------------
(***************************************************************************)
(* Steps that write records and send witnesses.                            *)
(***************************************************************************)
LEMMA AuditStoresKeeps ==
  ASSUME ChainInv, AuditStores
  PROVE  ChainInv'
<1> /\ TypeOK /\ ThreadInv /\ IntentInv /\ ConsentInv /\ LockstepInv /\ LaunchesAreBacked
    /\ GrantsInv /\ AdmissionInv /\ Len(launches) <= executions
  BY DEF ChainInv
<1> DEFINE r == [action |-> act, at |-> Len(trail) + 1]
           R == [action : Actions, at : Nat \ {0}]
<1>1. /\ UNCHANGED <<control, approvals, admission, channels, worker, pc, act, poisoned,
                     evidence, counters>>
      /\ pc \in Events /\ wire = "sent" /\ trail' = Append(trail, pc)
      /\ \/ pc = "execution_started" /\ wire' = "stored" /\ intents' = Append(intents, r)
         \/ pc # "execution_started" /\ wire' = "done" /\ intents' = intents
  BY DEF AuditStores
<1>2. /\ r.action = act /\ r.at = Len(trail) + 1 /\ r \in R
      /\ trail \in Seq(Events) /\ intents \in Seq(R)
  BY DEF TypeOK
<1> HIDE DEF r, R
<1>3. /\ trail' \in Seq(Events) /\ DOMAIN trail' = DOMAIN trail \cup {Len(trail) + 1}
      /\ \A i \in DOMAIN trail : trail'[i] = trail[i]
      /\ trail'[Len(trail) + 1] = pc
  BY <1>1, <1>2, AppendFacts
<1>4. /\ intents' \in Seq(R)
      /\ \A n \in DOMAIN intents : n \in DOMAIN intents' /\ intents'[n] = intents[n]
      /\ \A n \in DOMAIN intents' :
           n \in DOMAIN intents \/ (intents'[n] = r /\ pc = "execution_started")
      /\ pc = "execution_started" => Len(intents') > 0 /\ intents'[Len(intents')] = r
  <2>1. CASE pc = "execution_started"
    <3>0. intents' = Append(intents, r) /\ intents \in Seq(R) /\ r \in R
      BY <1>1, <1>2, <2>1
    <3>1. /\ Len(intents) \in Nat
          /\ intents' \in Seq(R) /\ Len(intents') = Len(intents) + 1
          /\ DOMAIN intents = 1 .. Len(intents) /\ DOMAIN intents' = 1 .. Len(intents) + 1
          /\ \A n \in 1 .. Len(intents) : intents'[n] = intents[n]
          /\ intents'[Len(intents) + 1] = r
      BY <3>0, AppendFacts
    <3>2. \A n \in DOMAIN intents' : n \in DOMAIN intents \/ n = Len(intents) + 1
      BY <3>1
    <3> QED
      BY <2>1, <3>1, <3>2
  <2>2. CASE pc # "execution_started"
    BY <1>1, <1>2, <2>2
  <2> QED
    BY <2>1, <2>2
<1>5. GrantsInv' /\ AdmissionInv'
  BY <1>1, GrantsUnchanged, AdmissionUnchanged
<1>6. TypeOK'
  BY <1>1, <1>3, <1>4 DEF TypeOK, control, approvals, admission, channels, worker, counters,
     ControlType, GrantsType, AdmissionType, LauncherType, Wires, R
<1>7. launcher # "down" => stage = "idle"
  <2>1. launcher \in {"unstarted", "up", "down"} /\ pc # "running"
    BY <1>1 DEF TypeOK, LauncherType, Status, Events
  <2> QED
    BY <2>1 DEF ThreadInv
<1>8. ThreadInv'
  BY <1>1 DEF ThreadInv, worker
<1>9. IntentInv'
  <2>1. \A n \in DOMAIN intents' :
          intents'[n].at \in DOMAIN trail' /\ trail'[intents'[n].at] = "execution_started"
    BY <1>2, <1>3, <1>4 DEF IntentInv
  <2>2. \A i \in DOMAIN proofs' :
          proofs'[i].seq \in DOMAIN intents' /\ intents'[proofs'[i].seq].action = proofs'[i].action
    BY <1>1, <1>4 DEF IntentInv, channels
  <2>3. Intended' => Len(intents') > 0 /\ intents'[Len(intents')].action = act'
    BY <1>1, <1>2, <1>4 DEF Intended, Events
  <2>4. ~Proved'
    BY <1>1 DEF Proved, Events
  <2> QED
    BY <2>1, <2>2, <2>3, <2>4 DEF IntentInv
<1>10. ConsentInv'
  BY <1>1 DEF ConsentInv, Burned, Approved, Asks, approvals, channels, worker, Events
<1>11. LockstepInv'
  BY <1>1, <1>7 DEF LockstepInv, WithIntent, WithConsent, Reserved, Asks, worker, admission
<1>12. Len(launches') <= executions' /\ LaunchesAreBacked'
  <2>1. \A n \in DOMAIN launches' :
          n \in DOMAIN intents' /\ intents'[n] = intents[n] /\ trail'[intents[n].at] = trail[intents[n].at]
    BY <1>1, <1>3, <1>4 DEF LaunchesAreBacked, IntentInv, worker
  <2>2. UNCHANGED <<launches, executions, consumed, minted, Asks>>
    BY <1>1 DEF Asks, worker, admission, approvals
  <2> QED
    BY <2>1, <2>2 DEF LaunchesAreBacked
<1> QED
  BY <1>5, <1>6, <1>8, <1>9, <1>10, <1>11, <1>12 DEF ChainInv

LEMMA AuditProvesKeeps ==
  ASSUME ChainInv, AuditProves
  PROVE  ChainInv'
<1> /\ TypeOK /\ ThreadInv /\ IntentInv /\ ConsentInv /\ LockstepInv /\ LaunchesAreBacked
    /\ GrantsInv /\ AdmissionInv /\ Len(launches) <= executions
  BY DEF ChainInv
<1> DEFINE w == [seq |-> Len(intents), at |-> Len(trail), action |-> act, issued |-> now]
<1>1. /\ UNCHANGED <<control, approvals, admission, auditing, approving, consents, worker,
                     pc, act, poisoned, records, counters>>
      /\ pc = "execution_started" /\ wire = "stored" /\ wire' = "done"
      /\ proofs' = Append(proofs, w)
  BY DEF AuditProves
<1>2. /\ w.seq = Len(intents) /\ w.action = act /\ w \in Proof /\ proofs \in Seq(Proof)
      /\ Len(intents) \in DOMAIN intents /\ intents[Len(intents)].action = act
  <2>1. Len(intents) > 0 /\ intents[Len(intents)].action = act
    BY <1>1 DEF IntentInv, Intended
  <2>2. Len(intents) \in DOMAIN intents /\ Len(intents) \in Nat /\ Len(trail) \in Nat
    BY <2>1 DEF TypeOK
  <2> QED
    BY <2>1, <2>2 DEF TypeOK, ControlType, LauncherType, Proof
<1> HIDE DEF w
<1>3. /\ proofs' \in Seq(Proof) /\ DOMAIN proofs' = DOMAIN proofs \cup {Len(proofs) + 1}
      /\ \A i \in DOMAIN proofs : proofs'[i] = proofs[i]
      /\ proofs'[Len(proofs) + 1] = w /\ Len(proofs') = Len(proofs) + 1 /\ Len(proofs') > 0
  BY <1>1, <1>2, AppendFacts
<1>4. GrantsInv' /\ AdmissionInv'
  BY <1>1, GrantsUnchanged, AdmissionUnchanged
<1>5. TypeOK'
  BY <1>1, <1>3 DEF TypeOK, control, approvals, admission, worker, records, counters,
     ControlType, GrantsType, AdmissionType, LauncherType, Wires
<1>6. ThreadInv'
  BY <1>1 DEF ThreadInv, worker
<1>7. IntentInv'
  <2>1. UNCHANGED <<intents, trail, act, pc>> /\ Intended
    BY <1>1 DEF records, Intended
  <2> QED
    BY <1>2, <1>3, <2>1 DEF IntentInv
<1>8. ConsentInv'
  BY <1>1 DEF ConsentInv, Burned, Approved, Asks, approvals, worker
<1>9. LockstepInv' /\ LaunchesAreBacked' /\ Len(launches') <= executions'
  BY <1>1 DEF LockstepInv, LaunchesAreBacked, Asks, worker, admission, approvals, records
<1> QED
  BY <1>4, <1>5, <1>6, <1>7, <1>8, <1>9 DEF ChainInv

LEMMA ApprovalBurnsKeeps ==
  ASSUME ChainInv, NEW q \in 0 .. Len(minted), ApprovalBurns(q)
  PROVE  ChainInv'
<1> /\ TypeOK /\ ThreadInv /\ IntentInv /\ ConsentInv /\ LockstepInv /\ LaunchesAreBacked
    /\ GrantsInv /\ AdmissionInv /\ Len(launches) <= executions
  BY DEF ChainInv
<1>1. /\ UNCHANGED <<control, admission, channels, worker, pc, act, poisoned, records, counters>>
      /\ pc = "consuming" /\ wire = "sent" /\ wire' \in {"burned", "rejected"}
      /\ Consume(q, Policy, act) /\ minted' = minted
      /\ wire' = IF ConsumeReason(q, Policy, act) = "none" THEN "burned" ELSE "rejected"
  BY DEF ApprovalBurns, Consume
<1>2. GrantsInv'
  BY <1>1, ConsumeKeepsGrants DEF TypeOK, ControlType
<1>3. consumed' = consumed \/
        (/\ Len(consumed') = Len(consumed) + 1 /\ Len(consumed) \in Nat
         /\ consumed'[Len(consumed')].action = act
         /\ \A n \in DOMAIN consumed : n \in DOMAIN consumed' /\ consumed'[n] = consumed[n])
  <2> DEFINE c == [ref |-> q, action |-> act, policy |-> Policy, at |-> now]
  <2>1. CASE ConsumeReason(q, Policy, act) # "none"
    BY <1>1, <2>1 DEF Consume
  <2>2. CASE ConsumeReason(q, Policy, act) = "none"
    <3>1. consumed' = Append(consumed, c) /\ consumed \in Seq(Consumption) /\ c.action = act
      BY <1>1, <2>2 DEF Consume, TypeOK, GrantsType
    <3>2. c \in Consumption
      BY <2>2 DEF ConsumeReason, Consumption, TypeOK, ControlType
    <3> HIDE DEF c
    <3> QED
      BY <3>1, <3>2, AppendFacts
  <2> QED
    BY <2>1, <2>2
<1>4. wire' = "burned" => Len(consumed') > 0 /\ consumed'[Len(consumed')].action = act
  <2>1. CASE ConsumeReason(q, Policy, act) = "none"
    <3>1. consumed' = Append(consumed, [ref |-> q, action |-> act, policy |-> Policy, at |-> now])
          /\ consumed \in Seq(Consumption)
      BY <1>1, <2>1 DEF Consume, TypeOK, GrantsType
    <3>2. consumed' # consumed
      BY <3>1
    <3> QED
      BY <1>3, <3>2
  <2> QED
    BY <1>1, <2>1
<1>5. \A n \in DOMAIN consumed : n \in DOMAIN consumed' /\ consumed'[n] = consumed[n]
  BY <1>3
<1>6. AdmissionInv'
  BY <1>1, AdmissionUnchanged
<1>7. TypeOK'
  BY <1>1, <1>2 DEF GrantsInv, TypeOK, control, admission, channels, worker, records, counters,
     ControlType, AdmissionType, LauncherType, Wires
<1>8. ThreadInv'
  BY <1>1 DEF ThreadInv, worker
<1>9. IntentInv'
  BY <1>1 DEF IntentInv, Intended, Proved, channels, worker, records
<1>10. ConsentInv'
  <2>1. \A n \in DOMAIN consumed' : minted'[consumed'[n].ref].action = consumed'[n].action
    BY <1>2 DEF GrantsInv, ConsumedAsReviewed
  <2>2. \A i \in DOMAIN consents' :
          /\ consents'[i].seq \in DOMAIN consumed'
          /\ consumed'[consents'[i].seq].action = consents'[i].action
          /\ consents'[i].expires <= minted'[consumed'[consents'[i].seq].ref].expires
    BY <1>1, <1>5 DEF ConsentInv, channels
  <2>3. ~Approved' /\ (Burned' => Len(consumed') > 0 /\ consumed'[Len(consumed')].action = act')
    BY <1>1, <1>4 DEF Approved, Burned
  <2> QED
    BY <2>1, <2>2, <2>3 DEF ConsentInv
<1>11. LockstepInv'
  <2>1. launcher # "down" => stage = "idle"
    BY <1>1 DEF ThreadInv, TypeOK, LauncherType, Status
  <2> QED
    BY <1>1, <2>1 DEF LockstepInv, WithIntent, WithConsent, Reserved, Asks, worker, admission
<1>12. Len(launches') <= executions' /\ LaunchesAreBacked'
  BY <1>1, <1>5 DEF LaunchesAreBacked, Asks, worker, admission, records
<1> QED
  BY <1>2, <1>6, <1>7, <1>8, <1>9, <1>10, <1>11, <1>12 DEF ChainInv

LEMMA ApprovalProvesKeeps ==
  ASSUME ChainInv, ApprovalProves
  PROVE  ChainInv'
<1> /\ TypeOK /\ ThreadInv /\ IntentInv /\ ConsentInv /\ LockstepInv /\ LaunchesAreBacked
    /\ GrantsInv /\ AdmissionInv /\ Len(launches) <= executions
  BY DEF ChainInv
<1> DEFINE g == minted[consumed[Len(consumed)].ref]
           w == [seq |-> Len(consumed), request |-> requests + 1, action |-> act, issued |-> now,
                 expires |-> Sooner(g.expires, Deadline)]
<1>1. /\ UNCHANGED <<control, approvals, admission, auditing, proofs, approving, worker,
                     pc, act, poisoned, records, counters>>
      /\ pc = "consuming" /\ wire = "burned" /\ wire' = "done"
      /\ consents' = Append(consents, w)
  BY DEF ApprovalProves
<1>2. /\ Len(consumed) \in DOMAIN consumed /\ consumed[Len(consumed)].action = act
      /\ g \in Grant
  <2>1. Len(consumed) > 0 /\ consumed[Len(consumed)].action = act
    BY <1>1 DEF ConsentInv, Burned
  <2>2. Len(consumed) \in DOMAIN consumed
    BY <2>1 DEF TypeOK, GrantsType
  <2>3. consumed[Len(consumed)].ref \in 1 .. Len(minted) /\ minted \in Seq(Grant)
    BY <2>2 DEF GrantsInv, GrantsType
  <2> QED
    BY <2>1, <2>2, <2>3
<1>3. /\ w.seq = Len(consumed) /\ w.action = act /\ w.expires <= g.expires
      /\ w \in Consent /\ consents \in Seq(Consent)
  <2>1. Len(consumed) \in Nat /\ requests + 1 \in Nat /\ act \in Actions /\ now \in Nat
        /\ consents \in Seq(Consent)
    BY DEF TypeOK, ControlType, LauncherType, GrantsType
  <2>2. g.expires \in Nat
    BY <1>2 DEF Grant
  <2>3. Sooner(g.expires, Deadline) \in Nat /\ Sooner(g.expires, Deadline) <= g.expires
    BY <2>2 DEF Sooner
  <2> HIDE DEF g
  <2> QED
    BY <2>1, <2>3 DEF Consent
<1> HIDE DEF w
<1>4. /\ consents' \in Seq(Consent) /\ DOMAIN consents' = DOMAIN consents \cup {Len(consents) + 1}
      /\ \A i \in DOMAIN consents : consents'[i] = consents[i]
      /\ consents'[Len(consents) + 1] = w /\ Len(consents') = Len(consents) + 1
      /\ Len(consents') > 0
  BY <1>1, <1>3, AppendFacts
<1>5. GrantsInv' /\ AdmissionInv'
  BY <1>1, GrantsUnchanged, AdmissionUnchanged
<1>6. TypeOK'
  BY <1>1, <1>4 DEF TypeOK, control, approvals, admission, worker, records, counters,
     ControlType, GrantsType, AdmissionType, LauncherType, Wires
<1>7. ThreadInv' /\ IntentInv'
  BY <1>1 DEF ThreadInv, IntentInv, Intended, Proved, worker, records
<1>8. ConsentInv'
  <2>1. UNCHANGED <<minted, consumed, act>> /\ Burned
    BY <1>1 DEF approvals, Burned
  <2> QED
    BY <1>2, <1>3, <1>4, <2>1 DEF ConsentInv
<1>9. LockstepInv' /\ LaunchesAreBacked' /\ Len(launches') <= executions'
  BY <1>1 DEF LockstepInv, LaunchesAreBacked, Asks, worker, admission, approvals, records
<1> QED
  BY <1>5, <1>6, <1>7, <1>8, <1>9 DEF ChainInv
-----------------------------------------------------------------------------
(***************************************************************************)
(* Steps of the launch.                                                    *)
(***************************************************************************)
LEMMA RunsKeep ==
  ASSUME ChainInv, Send \/ RunReturns \/ RunFails
  PROVE  ChainInv'
<1> /\ TypeOK /\ ThreadInv /\ IntentInv /\ ConsentInv /\ LockstepInv /\ LaunchesAreBacked
    /\ GrantsInv /\ AdmissionInv /\ Len(launches) <= executions
  BY DEF ChainInv
<1>1. /\ UNCHANGED <<control, approvals, admission, channels, intentRead, consentRead, fresh,
                     checked, launches, act, poisoned, records, reviews, requests>>
      /\ \/ /\ pc = "launching" /\ pc' = "running" /\ launcher # "down" /\ launcher' = "up"
            /\ stage' = "asked" /\ job' = act /\ UNCHANGED <<told, stopped>>
         \/ /\ pc = "running" /\ pc' = "closing" /\ stage = "answered" /\ stage' = "idle"
            /\ launcher = "up" /\ UNCHANGED <<launcher, job, stopped>>
            /\ told' = [executions |-> executions, outputs |-> outputs]
         \/ /\ pc \in {"launching", "running"} /\ pc' = "closing" /\ launcher' = "down"
            /\ stage' = "refused" /\ stopped' = TRUE /\ UNCHANGED <<job, told>>
      /\ wire' = "none"
  BY DEF Send, RunReturns, RunFails, Goto, counters
<1>2. GrantsInv' /\ AdmissionInv'
  BY <1>1, GrantsUnchanged, AdmissionUnchanged
<1>3. TypeOK'
  <2>0. executions \in Nat /\ outputs \in Nat
    BY DEF TypeOK, AdmissionType
  <2>1. told' \in [executions : Nat, outputs : Nat] /\ stopped' \in BOOLEAN
    <3>1. told' = told \/ told' = [executions |-> executions, outputs |-> outputs]
      BY <1>1
    <3>2. stopped' = stopped \/ stopped' = TRUE
      BY <1>1
    <3>3. told \in [executions : Nat, outputs : Nat] /\ stopped \in BOOLEAN
      BY DEF TypeOK
    <3>4. [executions |-> executions, outputs |-> outputs] \in [executions : Nat, outputs : Nat]
      BY <2>0
    <3>5. told' \in [executions : Nat, outputs : Nat]
      BY <3>1, <3>3, <3>4
    <3>6. stopped' \in BOOLEAN
      BY <3>2, <3>3
    <3> QED
      BY <3>5, <3>6
  <2>2. LauncherType'
    BY <1>1 DEF TypeOK, LauncherType, channels, Stages, Status
  <2> QED
    BY <1>1, <2>1, <2>2 DEF TypeOK, control, approvals, admission, records, ControlType,
       GrantsType, AdmissionType, Places, Wires
<1>4. pc = "launching" /\ launcher # "down" => stage = "idle"
  BY DEF ThreadInv, TypeOK, LauncherType, Status
<1>5. ThreadInv'
  BY <1>1 DEF ThreadInv
<1>6. IntentInv'
  BY <1>1 DEF IntentInv, Intended, Proved, channels, records
<1>7. ConsentInv'
  BY <1>1 DEF ConsentInv, Burned, Approved, Asks, channels, approvals
<1>8. LockstepInv'
  BY <1>1, <1>4 DEF LockstepInv, WithIntent, WithConsent, Reserved, Asks, admission, approvals,
     records
<1>9. LaunchesAreBacked' /\ Len(launches') <= executions'
  BY <1>1 DEF LaunchesAreBacked, Asks, admission, approvals, records
<1> QED
  BY <1>2, <1>3, <1>5, <1>6, <1>7, <1>8, <1>9 DEF ChainInv

LEMMA TakeIntentKeeps ==
  ASSUME ChainInv, TakeIntent, UNCHANGED <<admission, control, approvals, host, records, counters>>
  PROVE  ChainInv'
<1> /\ TypeOK /\ ThreadInv /\ IntentInv /\ ConsentInv /\ LockstepInv /\ LaunchesAreBacked
    /\ GrantsInv /\ AdmissionInv /\ Len(launches) <= executions
  BY DEF ChainInv
<1>1. /\ launcher = "up" /\ stage = "asked" /\ stage' = "intended"
      /\ Len(proofs) = 1 /\ proofs' = <<>>
      /\ intentRead' = [seq |-> proofs[1].seq, at |-> proofs[1].at]
      /\ proofs[1].seq = intentRead.seq + 1 /\ proofs[1].action = job
      /\ UNCHANGED <<launcher, job, auditing, approving, consents, consentRead, fresh, checked,
                     launches>>
  BY DEF TakeIntent, Step, IntentFits
<1>2. pc = "running" /\ job = act
  BY <1>1 DEF ThreadInv
<1>3. /\ proofs[1].seq = Len(intents) /\ proofs[1] \in Proof
      /\ intents[Len(intents)].action = job
  <2>1. proofs[1].seq = Len(intents) /\ intents[Len(intents)].action = act
    BY <1>1, <1>2 DEF IntentInv, Proved, Intended
  <2>2. proofs[1] \in Proof
    <3>1. proofs \in Seq(Proof) /\ 1 \in 1 .. Len(proofs)
      BY <1>1 DEF TypeOK, LauncherType
    <3> QED
      BY <3>1
  <2> QED
    BY <1>2, <2>1, <2>2
<1>4. GrantsInv' /\ AdmissionInv'
  BY GrantsUnchanged, AdmissionUnchanged
<1>5. TypeOK'
  <2>1. intentRead' \in [seq : Nat, at : Nat]
    BY <1>1, <1>3 DEF Proof
  <2>2. <<>> \in Seq(Proof) /\ <<>> \in Seq(Consent)
    OBVIOUS
  <2>3. LauncherType'
    BY <1>1, <2>1, <2>2 DEF TypeOK, LauncherType, Stages
  <2> QED
    BY <2>3 DEF TypeOK, control, approvals, admission, host, records, counters, ControlType,
       GrantsType, AdmissionType
<1>6. ThreadInv'
  BY <1>1 DEF ThreadInv, host
<1>7. IntentInv'
  BY <1>1, <1>2 DEF IntentInv, Intended, Proved, host, records
<1>8. ConsentInv'
  BY <1>1, <1>2 DEF ConsentInv, Burned, Approved, Asks, host, approvals
<1>9. LockstepInv'
  <2>1. intentRead.seq = Len(launches)
    BY <1>1 DEF LockstepInv, WithIntent
  <2>2. intentRead'.seq = Len(launches) + 1 /\ intentRead'.seq = Len(intents)
    BY <1>1, <1>3, <2>1
  <2> QED
    BY <1>1, <1>3, <2>2 DEF LockstepInv, WithIntent, WithConsent, Reserved, Asks, records
<1>10. LaunchesAreBacked' /\ Len(launches') <= executions'
  BY <1>1 DEF LaunchesAreBacked, Asks, admission, approvals, records
<1> QED
  BY <1>4, <1>5, <1>6, <1>7, <1>8, <1>9, <1>10 DEF ChainInv

LEMMA TakeConsentKeeps ==
  ASSUME ChainInv, TakeConsent, UNCHANGED <<admission, control, approvals, host, records, counters>>
  PROVE  ChainInv'
<1> /\ TypeOK /\ ThreadInv /\ IntentInv /\ ConsentInv /\ LockstepInv /\ LaunchesAreBacked
    /\ GrantsInv /\ AdmissionInv /\ Len(launches) <= executions
  BY DEF ChainInv
<1>1. /\ launcher = "up" /\ stage = "intended" /\ stage' = "consented" /\ consents' = <<>>
      /\ UNCHANGED <<launcher, job, auditing, proofs, approving, intentRead, checked, launches>>
      /\ Asks => /\ Len(consents) = 1 /\ ConsentFits(consents[1])
                 /\ consentRead' = [seq |-> consents[1].seq, request |-> consents[1].request]
                 /\ fresh' = Sooner(consents[1].expires, consents[1].issued + MaxAge)
      /\ ~Asks => fresh' = Deadline /\ UNCHANGED consentRead
  BY DEF TakeConsent, Step
<1>2. pc = "running" /\ job = act
  BY <1>1 DEF ThreadInv
<1>3. ASSUME Asks
      PROVE  /\ consents[1] \in Consent /\ consents[1].seq = Len(consumed)
             /\ consents[1].seq = Len(launches) + 1 /\ consumed[Len(consumed)].action = job
             /\ fresh' \in Nat /\ fresh' <= minted[consumed[Len(consumed)].ref].expires
  <2>1. consents[1] \in Consent /\ 1 \in DOMAIN consents
    <3>1. Len(consents) = 1
      BY <1>1, <1>3
    <3>2. consents \in Seq(Consent)
      BY DEF TypeOK, LauncherType
    <3>3. 1 \in 1 .. Len(consents) /\ DOMAIN consents = 1 .. Len(consents)
      BY <3>1, <3>2
    <3>4. consents[1] \in Consent
      BY <3>2, <3>3
    <3> QED
      BY <3>3, <3>4
  <2>2. consents[1].seq = Len(consumed)
    BY <1>1, <1>2, <1>3 DEF ConsentInv, Approved
  <2>3. /\ consumed[Len(consumed)].action = consents[1].action
        /\ consents[1].expires <= minted[consumed[Len(consumed)].ref].expires
        /\ Len(consumed) \in DOMAIN consumed
    BY <2>1, <2>2 DEF ConsentInv
  <2>4. consents[1].seq = consentRead.seq + 1 /\ consents[1].action = job
    BY <1>1, <1>3 DEF ConsentFits
  <2>5. consentRead.seq = Len(launches)
    BY <1>1, <1>3 DEF LockstepInv, WithConsent
  <2>6. /\ consents[1].expires \in Nat /\ consents[1].issued + MaxAge \in Nat
        /\ minted[consumed[Len(consumed)].ref].expires \in Nat
    <3>1. consumed[Len(consumed)].ref \in 1 .. Len(minted) /\ minted \in Seq(Grant)
      BY <2>3 DEF GrantsInv, GrantsType
    <3>2. minted[consumed[Len(consumed)].ref] \in Grant
      BY <3>1
    <3> QED
      BY <2>1, <3>2 DEF Consent, Grant
  <2>7. fresh' \in Nat /\ fresh' <= consents[1].expires
    BY <1>1, <1>3, <2>6 DEF Sooner
  <2> QED
    BY <2>1, <2>2, <2>3, <2>4, <2>5, <2>6, <2>7
<1>4. GrantsInv' /\ AdmissionInv'
  BY GrantsUnchanged, AdmissionUnchanged
<1>5. TypeOK'
  <2>1. consentRead' \in [seq : Nat, request : Nat] /\ fresh' \in Nat
    <3>1. CASE Asks
      BY <1>1, <1>3, <3>1 DEF Consent
    <3>2. CASE ~Asks
      BY <1>1, <3>2 DEF TypeOK, LauncherType
    <3> QED
      BY <3>1, <3>2
  <2>2. <<>> \in Seq(Proof) /\ <<>> \in Seq(Consent)
    OBVIOUS
  <2>3. LauncherType'
    BY <1>1, <2>1, <2>2 DEF TypeOK, LauncherType, Stages
  <2> QED
    BY <2>3 DEF TypeOK, control, approvals, admission, host, records, counters, ControlType,
       GrantsType, AdmissionType
<1>6. ThreadInv'
  BY <1>1 DEF ThreadInv, host
<1>7. IntentInv'
  BY <1>1, <1>2 DEF IntentInv, Intended, Proved, host, records
<1>8. ConsentInv'
  BY <1>1, <1>2 DEF ConsentInv, Burned, Approved, Asks, host, approvals
<1>9. LockstepInv'
  <2>1. Asks' = Asks
    BY DEF Asks
  <2>2. Asks => consentRead'.seq = Len(launches) + 1 /\ consentRead'.seq = Len(consumed)
    BY <1>1, <1>3
  <2>3. /\ intentRead.seq = Len(launches) + 1 /\ intentRead.seq = Len(intents)
        /\ intents[Len(intents)].action = job
    BY <1>1 DEF LockstepInv, WithIntent
  <2> QED
    BY <1>1, <1>3, <2>1, <2>2, <2>3 DEF LockstepInv, WithIntent, WithConsent, Reserved, records,
       approvals
<1>10. LaunchesAreBacked' /\ Len(launches') <= executions'
  BY <1>1 DEF LaunchesAreBacked, Asks, admission, approvals, records
<1> QED
  BY <1>4, <1>5, <1>6, <1>7, <1>8, <1>9, <1>10 DEF ChainInv

LEMMA AdmitLaunchKeeps ==
  ASSUME ChainInv, AdmitLaunch \/ RedeemPermit,
         UNCHANGED <<control, approvals, host, records, counters>>
  PROVE  ChainInv'
<1> /\ TypeOK /\ ThreadInv /\ IntentInv /\ ConsentInv /\ LockstepInv /\ LaunchesAreBacked
    /\ GrantsInv /\ AdmissionInv /\ Len(launches) <= executions
  BY DEF ChainInv
<1>1. /\ launcher = "up"
      /\ \/ stage = "consented" /\ stage' \in {"admitted", "refused"}
         \/ stage = "admitted" /\ stage' \in {"redeemed", "refused"}
      /\ UNCHANGED <<launcher, job, channels, intentRead, consentRead, fresh, checked, launches>>
  BY DEF AdmitLaunch, RedeemPermit, Step
<1>2. AdmissionInv'
  <2>1. CASE AdmitLaunch
    BY <2>1, AdmitKeepsPermits DEF AdmitLaunch, TypeOK, LauncherType
  <2>2. CASE RedeemPermit
    <3>1. Len(admitted) \in 0 .. Len(admitted)
      BY DEF AdmissionInv, AdmissionType
    <3> QED
      BY <2>2, <3>1, RedeemKeepsPermits DEF RedeemPermit, TypeOK, LauncherType
  <2> QED
    BY <2>1, <2>2
<1>3. executions \in Nat /\ Len(launches) \in Nat
  BY DEF TypeOK, AdmissionType, LauncherType
<1>4. executions <= executions' /\ (stage' \in Reserved => Len(launches) + 1 <= executions')
  <2>1. CASE AdmitLaunch
    BY <1>3, <2>1 DEF AdmitLaunch, Admit, Step, Reserved, WithConsent, WithIntent
  <2>2. CASE RedeemPermit
    <3>1. stage \in Reserved /\ stage # "refused" /\ executions' = executions
      BY <2>2 DEF RedeemPermit, Redeem, Step, Reserved, WithConsent, WithIntent
    <3> QED
      BY <1>1, <1>3, <3>1 DEF LockstepInv
  <2> QED
    BY <2>1, <2>2
<1>5. GrantsInv'
  BY GrantsUnchanged
<1>6. TypeOK'
  <2>1. LauncherType'
    BY <1>1 DEF TypeOK, LauncherType, Stages, channels
  <2> QED
    BY <1>2, <2>1 DEF TypeOK, control, approvals, host, records, counters, ControlType,
       GrantsType, AdmissionInv
<1>7. ThreadInv'
  BY <1>1 DEF ThreadInv, host
<1>8. IntentInv' /\ ConsentInv'
  BY <1>1 DEF IntentInv, ConsentInv, Intended, Proved, Burned, Approved, Asks, channels, host,
     records, approvals
<1>9. LockstepInv'
  BY <1>1, <1>4 DEF LockstepInv, WithIntent, WithConsent, Reserved, Asks, records, approvals
<1>10. LaunchesAreBacked' /\ Len(launches') <= executions'
  <2>1. executions' \in Nat
    BY <1>2 DEF AdmissionInv, AdmissionType
  <2>2. Len(launches') <= executions'
    BY <1>1, <1>3, <1>4, <2>1
  <2> QED
    BY <1>1, <2>2 DEF LaunchesAreBacked, Asks, approvals, records
<1> QED
  BY <1>2, <1>5, <1>6, <1>7, <1>8, <1>9, <1>10 DEF ChainInv

LEMMA SmallStepsKeep ==
  ASSUME ChainInv, CheckFresh \/ Answer \/ Refuse,
         UNCHANGED <<admission, control, approvals, host, records, counters>>
  PROVE  ChainInv'
<1> /\ TypeOK /\ ThreadInv /\ IntentInv /\ ConsentInv /\ LockstepInv /\ LaunchesAreBacked
    /\ GrantsInv /\ AdmissionInv /\ Len(launches) <= executions
  BY DEF ChainInv
<1>1. /\ launcher = "up"
      /\ \/ /\ stage = "redeemed" /\ stage' = "fresh" /\ now < fresh /\ checked' = now
            /\ UNCHANGED <<launcher, fresh>>
         \/ /\ stage = "executed" /\ stage' = "answered" /\ fresh' = 0 /\ checked' = 0
            /\ UNCHANGED launcher
         \/ /\ stage # "idle" /\ stage' = "refused" /\ launcher' = "down"
            /\ UNCHANGED <<fresh, checked>>
      /\ UNCHANGED <<job, channels, intentRead, consentRead, launches>>
  BY DEF CheckFresh, Answer, Refuse, Step
<1>2. GrantsInv' /\ AdmissionInv'
  BY GrantsUnchanged, AdmissionUnchanged
<1>3. TypeOK'
  <2>1. fresh' \in Nat /\ checked' \in Nat
    <3>1. now \in Nat /\ fresh \in Nat /\ checked \in Nat
      BY DEF TypeOK, ControlType, LauncherType
    <3>2. fresh' \in {fresh, 0} /\ checked' \in {checked, now, 0}
      BY <1>1
    <3> QED
      BY <3>1, <3>2
  <2>2. LauncherType'
    BY <1>1, <2>1 DEF TypeOK, LauncherType, Stages, Status, channels
  <2> QED
    BY <2>2 DEF TypeOK, control, approvals, admission, host, records, counters, ControlType,
       GrantsType, AdmissionType
<1>4. ThreadInv'
  BY <1>1 DEF ThreadInv, host
<1>5. IntentInv' /\ ConsentInv'
  BY <1>1 DEF IntentInv, ConsentInv, Intended, Proved, Burned, Approved, Asks, channels, host,
     records, approvals
<1>6. LockstepInv'
  <2>1. CASE stage' = "fresh"
    <3>1. stage = "redeemed" /\ checked' = now /\ now < fresh /\ fresh' = fresh
      BY <1>1, <2>1
    <3>2. ASSUME Asks PROVE checked' < minted[consumed[Len(consumed)].ref].expires
      <4>1. /\ fresh <= minted[consumed[Len(consumed)].ref].expires
            /\ consentRead.seq = Len(consumed) /\ consentRead.seq = Len(launches) + 1
        BY <1>1, <3>1, <3>2 DEF LockstepInv, WithConsent, WithIntent
      <4>2. Len(consumed) \in DOMAIN consumed
        <5>1. Len(launches) \in Nat /\ Len(consumed) = Len(launches) + 1
          BY <4>1 DEF TypeOK, LauncherType
        <5>2. consumed \in Seq(Consumption)
          BY DEF TypeOK, GrantsType
        <5> QED
          BY <5>1, <5>2
      <4>3. consumed[Len(consumed)].ref \in 1 .. Len(minted) /\ minted \in Seq(Grant)
        BY <4>2 DEF GrantsInv, GrantsType
      <4>4. minted[consumed[Len(consumed)].ref] \in Grant
        BY <4>3
      <4>5. /\ minted[consumed[Len(consumed)].ref].expires \in Nat
            /\ fresh \in Nat /\ now \in Nat
        <5>1. minted[consumed[Len(consumed)].ref].expires \in Nat
          BY <4>4 DEF Grant
        <5>2. fresh \in Nat /\ now \in Nat
          BY DEF TypeOK, ControlType, LauncherType
        <5> QED
          BY <5>1, <5>2
      <4> QED
        BY <3>1, <4>1, <4>5
    <3>3. Asks' = Asks /\ UNCHANGED <<intents, consumed, minted, executions>>
      BY DEF Asks, approvals, records, admission
    <3> QED
      BY <1>1, <3>1, <3>2, <3>3 DEF LockstepInv, WithIntent, WithConsent, Reserved
  <2>2. CASE stage' # "fresh"
    BY <1>1, <2>2 DEF LockstepInv, WithIntent, WithConsent, Reserved, Asks, records, approvals,
       admission
  <2> QED
    BY <2>1, <2>2
<1>7. LaunchesAreBacked' /\ Len(launches') <= executions'
  BY <1>1 DEF LaunchesAreBacked, Asks, admission, approvals, records
<1> QED
  BY <1>2, <1>3, <1>4, <1>5, <1>6, <1>7 DEF ChainInv

\* What a launch finds.
LEMMA LaunchIsNext ==
  ASSUME ChainInv, Execute
  PROVE  /\ launcher = "up" /\ stage = "fresh" /\ pc = "running" /\ job = act /\ poisoned = {}
         /\ Len(launches) \in Nat /\ Len(launches) + 1 <= executions /\ executions <= MaxSteps
         /\ intentRead.seq = Len(launches) + 1 /\ Len(intents) = Len(launches) + 1
         /\ Len(launches) + 1 \in DOMAIN intents
         /\ intents[Len(launches) + 1].action = job
         /\ Asks => /\ consentRead.seq = Len(launches) + 1 /\ Len(consumed) = Len(launches) + 1
                    /\ Len(launches) + 1 \in DOMAIN consumed
                    /\ consumed[Len(launches) + 1].action = job
                    /\ checked < minted[consumed[Len(launches) + 1].ref].expires
<1> /\ TypeOK /\ ThreadInv /\ LockstepInv
  BY DEF ChainInv
<1>1. launcher = "up" /\ stage = "fresh"
  BY DEF Execute, Step
<1>2. pc = "running" /\ job = act /\ poisoned = {}
  BY <1>1 DEF ThreadInv
<1>3. /\ Len(launches) \in Nat /\ executions <= MaxSteps
      /\ intents \in Seq([action : Actions, at : Nat \ {0}]) /\ consumed \in Seq(Consumption)
  BY DEF TypeOK, LauncherType, AdmissionType, GrantsType
<1>4. /\ intentRead.seq = Len(launches) + 1 /\ Len(intents) = Len(launches) + 1
      /\ Len(launches) + 1 <= executions /\ intents[Len(intents)].action = job
      /\ Asks => /\ consentRead.seq = Len(launches) + 1 /\ Len(consumed) = Len(launches) + 1
                 /\ consumed[Len(consumed)].action = job
                 /\ checked < minted[consumed[Len(consumed)].ref].expires
  BY <1>1 DEF LockstepInv, WithIntent, WithConsent, Reserved
<1>5. Len(launches) + 1 \in DOMAIN intents /\ (Asks => Len(launches) + 1 \in DOMAIN consumed)
  BY <1>3, <1>4
<1> QED
  BY <1>1, <1>2, <1>3, <1>4, <1>5

LEMMA ExecuteKeeps ==
  ASSUME ChainInv, Execute, UNCHANGED <<admission, control, approvals, host, records, counters>>
  PROVE  ChainInv'
<1> /\ TypeOK /\ ThreadInv /\ IntentInv /\ ConsentInv /\ LockstepInv /\ LaunchesAreBacked
    /\ GrantsInv /\ AdmissionInv
  BY DEF ChainInv
<1> DEFINE l == [action |-> job, intent |-> intentRead.seq,
                 consent |-> IF Asks THEN consentRead.seq ELSE 0,
                 permit |-> Len(admitted), checked |-> checked]
<1>1. /\ stage = "fresh" /\ stage' = "executed" /\ launches' = Append(launches, l)
      /\ UNCHANGED <<launcher, job, channels, intentRead, consentRead, fresh, checked>>
  BY DEF Execute, Step
<1>2. /\ l \in Launch /\ launches \in Seq(Launch)
  <2>1. intentRead.seq \in Nat /\ consentRead.seq \in Nat /\ Len(admitted) \in Nat
        /\ job \in Actions /\ checked \in Nat /\ launches \in Seq(Launch)
    BY DEF TypeOK, LauncherType, AdmissionType
  <2> QED
    BY <2>1 DEF Launch
<1>3. l.action = job /\ l.intent = intentRead.seq /\ l.checked = checked
      /\ (Asks => l.consent = consentRead.seq)
  OBVIOUS
<1> HIDE DEF l
<1>4. /\ launches' \in Seq(Launch) /\ Len(launches') = Len(launches) + 1
      /\ DOMAIN launches' = DOMAIN launches \cup {Len(launches) + 1}
      /\ \A n \in DOMAIN launches : launches'[n] = launches[n]
      /\ launches'[Len(launches) + 1] = l
  BY <1>1, <1>2, AppendFacts
<1>5. GrantsInv' /\ AdmissionInv'
  BY GrantsUnchanged, AdmissionUnchanged
<1>6. TypeOK'
  <2>1. LauncherType'
    BY <1>1, <1>4 DEF TypeOK, LauncherType, Stages, channels
  <2> QED
    BY <2>1 DEF TypeOK, control, approvals, admission, host, records, counters, ControlType,
       GrantsType, AdmissionType
<1>7. ThreadInv'
  BY <1>1 DEF ThreadInv, host
<1>8. IntentInv' /\ ConsentInv'
  BY <1>1 DEF IntentInv, ConsentInv, Intended, Proved, Burned, Approved, Asks, channels, host,
     records, approvals
<1>9. LockstepInv' /\ Len(launches') <= executions'
  BY <1>1, <1>4, LaunchIsNext DEF LockstepInv, WithIntent, WithConsent, Reserved, Asks, admission
<1>10. LaunchesAreBacked'
  <2>1. UNCHANGED <<intents, trail, minted, consumed>> /\ Asks' = Asks
    BY DEF records, approvals, Asks
  <2> DEFINE m == Len(launches) + 1
  <2>2. /\ m \in DOMAIN intents /\ l.intent = m
        /\ trail[intents[m].at] = "execution_started" /\ intents[m].action = l.action
    BY <1>3, LaunchIsNext DEF IntentInv
  <2>3. ASSUME Asks
        PROVE  /\ m \in DOMAIN consumed /\ l.consent = m /\ consumed[m].action = l.action
               /\ minted[consumed[m].ref].action = l.action
               /\ l.checked < minted[consumed[m].ref].expires
    <3>1. m \in DOMAIN consumed /\ consumed[m].action = job /\ consentRead.seq = m
          /\ checked < minted[consumed[m].ref].expires
      BY <2>3, LaunchIsNext
    <3> QED
      BY <1>3, <2>3, <3>1 DEF ConsentInv
  <2> HIDE DEF m
  <2>4. \A n \in DOMAIN launches' : n \in DOMAIN launches \/ n = m
    BY <1>4 DEF m
  <2>5. launches'[m] = l
    BY <1>4 DEF m
  <2> QED
    BY <1>4, <2>1, <2>2, <2>3, <2>4, <2>5 DEF LaunchesAreBacked
<1> QED
  BY <1>5, <1>6, <1>7, <1>8, <1>9, <1>10 DEF ChainInv

LEMMA ChainSteps == ChainInv /\ [Next]_vars => ChainInv'
<1> SUFFICES ASSUME ChainInv, [Next]_vars PROVE ChainInv'
  OBVIOUS
<1>1. CASE Reviews
  BY <1>1, HostSteps, SurroundingSteps DEF Reviews
<1>2. CASE Audits
  BY <1>2, AuditStoresKeeps, AuditProvesKeeps, SurroundingSteps DEF Audits
<1>3. CASE Proposes
  BY <1>3, HostSteps, QuietSteps, ApprovalBurnsKeeps, ApprovalProvesKeeps DEF Proposes
<1>4. CASE Runs
  BY <1>4, QuietSteps, RunsKeep, HostSteps, SurroundingSteps DEF Runs
<1>5. CASE Works
  <2>1. /\ UNCHANGED <<control, approvals, host, records, counters>>
        /\ \/ (TakeIntent \/ TakeConsent \/ CheckFresh \/ Execute \/ Answer \/ Refuse)
              /\ UNCHANGED admission
           \/ AdmitLaunch \/ RedeemPermit
    BY <1>5 DEF Works, WorkerStep
  <2> QED
    BY <2>1, TakeIntentKeeps, TakeConsentKeeps, SmallStepsKeep, ExecuteKeeps, AdmitLaunchKeeps
<1>6. CASE Surroundings \/ UNCHANGED vars
  BY <1>6, SurroundingSteps
<1> QED
  BY <1>1, <1>2, <1>3, <1>4, <1>5, <1>6 DEF Next

LEMMA ChainInductive == Spec => []ChainInv
BY ChainStarts, ChainSteps, PTL DEF Spec

\* For any instance the state of the chain keeps its types.
THEOREM ChainTypeCorrect == Spec => []TypeOK
BY ChainInductive, PTL DEF ChainInv

\* For any instance every launch has its own durable intent and, where the policy asks,
\* its own consumed and unexpired grant, for the same action.
THEOREM LaunchesBacked == Spec => []LaunchesAreBacked
BY ChainInductive, PTL DEF ChainInv

LEMMA OnlyExecuteLaunches ==
  ASSUME [Next]_vars, launches' # launches
  PROVE  Execute /\ UNCHANGED <<intents, consumed>>
<1> USE DEF worker
<1>1. ~UNCHANGED worker
  OBVIOUS
<1>2. ~(Reviews \/ Audits \/ Surroundings \/ UNCHANGED vars)
  BY <1>1 DEF Reviews, Review, ReviewAnswered, ReviewReturns, ApprovalFails, Audits, AuditStores,
     AuditProves, AuditFails, Surroundings, AuditCrash, ApprovalCrash, LauncherCrash, vars
<1>3. ~Proposes
  BY <1>1 DEF Proposes, Submit, Decided, ConsumeUnstarted, ApprovalBurns, ApprovalProves,
     Consumed, ApprovalRecorded, CheckAvailable, EvidenceStarts, EvidenceFails, IntentRecorded,
     Ended, Quietly
<1>4. ~Runs
  BY DEF Runs, LaunchHalted, Send, RunReturns, RunFails, EvidenceFinishes, CloseLauncher, Quietly
<1>5. Works
  BY <1>2, <1>3, <1>4 DEF Next
<1>6. Execute
  BY <1>5 DEF Works, WorkerStep, TakeIntent, TakeConsent, CheckFresh, Answer, Refuse, AdmitLaunch,
     RedeemPermit
<1>7. UNCHANGED <<approvals, records>>
  BY <1>5 DEF Works
<1> QED
  BY <1>6, <1>7 DEF approvals, records

\* For any instance a tool only ever starts while the session waits for it.
THEOREM LaunchesAwaited == Spec => StartsOnlyAwaited
<1>1. ChainInv /\ [Next]_vars
      => [launches' # launches => pc = "running" /\ act = job /\ poisoned = {}]_vars
  BY OnlyExecuteLaunches, LaunchIsNext
<1> QED
  BY <1>1, ChainInductive, PTL DEF Spec, StartsOnlyAwaited
-----------------------------------------------------------------------------
(***************************************************************************)
(* The chain implements LaunchGate.                                        *)
(***************************************************************************)
LEMMA ActionsOfSeq ==
  ASSUME NEW S, \A x \in S : x.action \in Actions, NEW s \in Seq(S)
  PROVE  ActionsOf(s) \in Seq(Actions) /\ Len(ActionsOf(s)) = Len(s)
<1>1. Len(s) \in Nat /\ DOMAIN s = 1 .. Len(s) /\ \A n \in DOMAIN s : s[n] \in S
  OBVIOUS
<1>2. /\ ActionsOf(s) \in [1 .. Len(s) -> Actions]
      /\ DOMAIN ActionsOf(s) = 1 .. Len(s)
  BY <1>1 DEF ActionsOf
<1> QED
  BY <1>1, <1>2

LEMMA ActionsAt ==
  ASSUME NEW s, NEW n \in DOMAIN s
  PROVE  ActionsOf(s)[n] = s[n].action
BY DEF ActionsOf

LEMMA ActionsAppend ==
  ASSUME NEW S, \A x \in S : x.action \in Actions, NEW s \in Seq(S), NEW e \in S
  PROVE  ActionsOf(Append(s, e)) = Append(ActionsOf(s), e.action)
<1>1. /\ Append(s, e) \in Seq(S) /\ Len(s) \in Nat /\ Len(Append(s, e)) = Len(s) + 1
      /\ DOMAIN Append(s, e) = 1 .. Len(s) + 1 /\ DOMAIN s = 1 .. Len(s)
      /\ \A i \in 1 .. Len(s) : Append(s, e)[i] = s[i]
      /\ Append(s, e)[Len(s) + 1] = e
  BY AppendFacts
<1>2. /\ ActionsOf(s) \in Seq(Actions) /\ Len(ActionsOf(s)) = Len(s)
      /\ ActionsOf(Append(s, e)) \in Seq(Actions)
      /\ Len(ActionsOf(Append(s, e))) = Len(s) + 1
  BY <1>1, ActionsOfSeq
<1>3. /\ Append(ActionsOf(s), e.action) \in Seq(Actions)
      /\ Len(Append(ActionsOf(s), e.action)) = Len(s) + 1
      /\ \A i \in 1 .. Len(s) : Append(ActionsOf(s), e.action)[i] = ActionsOf(s)[i]
      /\ Append(ActionsOf(s), e.action)[Len(s) + 1] = e.action
  <2>1. e.action \in Actions
    OBVIOUS
  <2> QED
    BY <1>2, <2>1, AppendFacts
<1>4. ASSUME NEW i \in 1 .. Len(s) + 1
      PROVE  ActionsOf(Append(s, e))[i] = Append(ActionsOf(s), e.action)[i]
  <2>5. ActionsOf(Append(s, e))[i] = Append(s, e)[i].action
    BY <1>1, <1>4, ActionsAt
  <2>1. CASE i \in 1 .. Len(s)
    <3>1. ActionsOf(s)[i] = s[i].action
      BY <1>1, <2>1, ActionsAt
    <3> QED
      BY <1>1, <1>3, <2>1, <2>5, <3>1
  <2>2. CASE i = Len(s) + 1
    BY <1>1, <1>3, <2>2, <2>5
  <2>3. Len(s) \in Nat
    OBVIOUS
  <2>4. i \in 1 .. Len(s) \/ i = Len(s) + 1
    BY <1>4, <2>3
  <2> QED
    BY <2>1, <2>2, <2>4
<1> QED
  BY <1>2, <1>3, <1>4, SeqEqual

Intents == [action : Actions, at : Nat \ {0}]

LEMMA OnlyAuditRecords ==
  ASSUME [Next]_vars, intents' # intents
  PROVE  AuditStores
<1> USE DEF records
<1>1. ~UNCHANGED records
  OBVIOUS
<1>2. ~(Reviews \/ Works \/ Surroundings \/ UNCHANGED vars)
  BY <1>1 DEF Reviews, Review, ReviewAnswered, ReviewReturns, ApprovalFails, Works,
     Surroundings, AuditCrash, ApprovalCrash, LauncherCrash, vars
<1>3. ~Proposes
  BY DEF Proposes, Submit, Decided, ConsumeUnstarted, ApprovalBurns, ApprovalProves,
     Consumed, ApprovalRecorded, CheckAvailable, EvidenceStarts, EvidenceFails, IntentRecorded,
     Ended, Quietly
<1>4. ~Runs
  BY DEF Runs, LaunchHalted, Send, RunReturns, RunFails, EvidenceFinishes, CloseLauncher, Quietly
<1> QED
  BY <1>1, <1>2, <1>3, <1>4 DEF Next, Audits, AuditProves, AuditFails

LEMMA OnlyApprovalConsumes ==
  ASSUME [Next]_vars, consumed' # consumed
  PROVE  \E q \in 0 .. Len(minted) : ApprovalBurns(q)
<1> USE DEF approvals
<1>1. ~UNCHANGED approvals
  OBVIOUS
<1>2. ~Reviews
  BY DEF Reviews, Review, ReviewAnswered, ReviewReturns, ApprovalFails, Issue, IssueOverCapacity
<1>3. ~(Audits \/ Works \/ Surroundings \/ UNCHANGED vars)
  BY <1>1 DEF Audits, AuditStores, AuditProves, AuditFails, Works, Surroundings, AuditCrash,
     ApprovalCrash, LauncherCrash, vars
<1>4. ~Runs
  BY <1>1 DEF Runs, LaunchHalted, Send, RunReturns, RunFails, EvidenceFinishes, CloseLauncher,
     Quietly
<1>5. Proposes
  BY <1>2, <1>3, <1>4 DEF Next
<1> QED
  BY <1>1, <1>5 DEF Proposes, Submit, Decided, ConsumeUnstarted, ApprovalProves,
     Consumed, ApprovalRecorded, CheckAvailable, EvidenceStarts, EvidenceFails, IntentRecorded,
     Ended, Quietly

LEMMA GateStarts == Init => Gate!Init
<1> SUFFICES ASSUME Init PROVE Gate!Init
  OBVIOUS
<1>1. intents = <<>> /\ consumed = <<>> /\ launches = <<>>
  BY DEF Init, GrantsInit, LauncherInit
<1>2. ActionsOf(<<>>) = <<>>
  BY DEF ActionsOf
<1> QED
  BY <1>1, <1>2 DEF Gate!Init

LEMMA GateSteps == ChainInv /\ [Next]_vars => [Gate!Next]_(Gate!gate)
<1> SUFFICES ASSUME ChainInv, [Next]_vars PROVE Gate!Next \/ UNCHANGED Gate!gate
  OBVIOUS
<1> /\ TypeOK
  BY DEF ChainInv
<1>1. /\ intents \in Seq(Intents) /\ consumed \in Seq(Consumption) /\ launches \in Seq(Launch)
      /\ act \in Actions /\ job \in Actions
  BY DEF TypeOK, GrantsType, LauncherType, Intents
<1>2. /\ \A x \in Intents : x.action \in Actions
      /\ \A x \in Consumption : x.action \in Actions
      /\ \A x \in Launch : x.action \in Actions
  BY DEF Intents, Consumption, Launch
<1>3. CASE launches' # launches
  <2> DEFINE l == [action |-> job, intent |-> intentRead.seq,
                   consent |-> IF Asks THEN consentRead.seq ELSE 0,
                   permit |-> Len(admitted), checked |-> checked]
  <2>1. Execute /\ UNCHANGED <<intents, consumed>>
    BY <1>3, OnlyExecuteLaunches
  <2>2. launches' = Append(launches, l) /\ l.action = job
    BY <2>1 DEF Execute
  <2>3. l \in Launch
    BY DEF Launch, TypeOK, LauncherType, AdmissionType
  <2> HIDE DEF l
  <2>4. ActionsOf(launches') = Append(ActionsOf(launches), job)
    BY <1>1, <1>2, <2>2, <2>3, ActionsAppend
  <2>5. /\ Len(ActionsOf(launches)) = Len(launches) /\ Len(ActionsOf(intents)) = Len(intents)
        /\ Len(ActionsOf(consumed)) = Len(consumed)
    BY <1>1, <1>2, ActionsOfSeq
  <2>6. /\ Len(launches) \in Nat /\ Len(launches) < MaxSteps
        /\ Len(intents) = Len(launches) + 1 /\ ActionsOf(intents)[Len(intents)] = job
        /\ Asks => Len(consumed) = Len(launches) + 1 /\ ActionsOf(consumed)[Len(consumed)] = job
    <3>1. Len(launches) < MaxSteps
      BY <2>1, LaunchIsNext DEF TypeOK, AdmissionType
    <3> QED
      BY <2>1, <3>1, LaunchIsNext DEF ActionsOf
  <2>7. Gate!Launch(job)
    BY <2>1, <2>4, <2>5, <2>6 DEF Gate!Launch, Gate!IsNext, ActionsOf
  <2> QED
    BY <1>1, <2>7 DEF Gate!Next
<1>4. CASE intents' # intents
  <2> DEFINE r == [action |-> act, at |-> Len(trail) + 1]
  <2>1. /\ intents' = Append(intents, r) /\ UNCHANGED <<consumed, launches>>
        /\ r \in Intents /\ r.action = act
    <3>1. AuditStores
      BY <1>4, OnlyAuditRecords
    <3> QED
      BY <1>4, <3>1 DEF AuditStores, approvals, worker, TypeOK, Intents
  <2> HIDE DEF r
  <2>2. ActionsOf(intents') = Append(ActionsOf(intents), act)
    BY <1>1, <1>2, <2>1, ActionsAppend
  <2>3. Gate!Intend(act)
    BY <2>1, <2>2 DEF Gate!Intend, ActionsOf
  <2> QED
    BY <1>1, <2>3 DEF Gate!Next
<1>5. CASE consumed' # consumed
  <2>1. PICK q \in 0 .. Len(minted) : ApprovalBurns(q)
    BY <1>5, OnlyApprovalConsumes
  <2> DEFINE c == [ref |-> q, action |-> act, policy |-> Policy, at |-> now]
  <2>2. /\ consumed' = Append(consumed, c) /\ UNCHANGED <<intents, launches>>
        /\ ConsumeReason(q, Policy, act) = "none"
    BY <1>5, <2>1 DEF ApprovalBurns, Consume, records, worker
  <2>3. c \in Consumption /\ c.action = act
    BY <2>2 DEF ConsumeReason, Consumption, TypeOK, ControlType
  <2> HIDE DEF c
  <2>4. ActionsOf(consumed') = Append(ActionsOf(consumed), act)
    BY <1>1, <1>2, <2>2, <2>3, ActionsAppend
  <2>5. Gate!Consent(act)
    BY <2>2, <2>4 DEF Gate!Consent, ActionsOf
  <2> QED
    BY <1>1, <2>5 DEF Gate!Next
<1>6. CASE UNCHANGED <<intents, consumed, launches>>
  BY <1>6 DEF Gate!gate, ActionsOf
<1> QED
  BY <1>3, <1>4, <1>5, <1>6

\* For any instance the chain implements the launch gate.
THEOREM ChainImplementsGate == Spec => ImplementsLaunchGate
BY ChainInductive, GateStarts, GateSteps, PTL DEF Spec, ImplementsLaunchGate, Gate!Spec
-----------------------------------------------------------------------------
(***************************************************************************)
(* What the audit trail tells.                                             *)
(***************************************************************************)
\* The last record is an intent whose completion is not yet recorded.
Begun ==
  \/ pc = "execution_started" /\ wire \in {"stored", "done"}
  \/ pc \in {"launching", "running", "closing"}
  \/ pc = "execution_finished" /\ wire = "sent"

\* The evidence of the call in progress is open.
Opened == pc \in {"execution_started", "launching", "running", "closing"}

\* The controller records nothing any more.
Silenced == pc \in {"idle", "reviewing"} /\ "audit" \in poisoned

Closed == {i \in DOMAIN evidence : evidence[i] = "done"}

Awaited(e) == IF pc = e /\ wire = "sent" THEN 1 ELSE 0

TrailInv ==
  /\ \A i \in Started : i = Len(trail) \/ i + 1 \in Finished
  /\ \A i \in Finished : i - 1 \in Started
  /\ Begun => Len(trail) \in Started
  /\ Len(trail) \in Started => Begun \/ Silenced
  /\ Opened => Len(evidence) \in DOMAIN evidence /\ evidence[Len(evidence)] = "open"
  /\ Cardinality(Started) + Awaited("execution_started") <= Len(evidence)
  /\ Cardinality(Finished) + Awaited("execution_finished") <= Cardinality(Closed)

LEMMA TrailNumbers ==
  ASSUME TypeOK
  PROVE  /\ trail \in Seq(Events) /\ Len(trail) \in Nat /\ DOMAIN trail = 1 .. Len(trail)
         /\ evidence \in Seq({"open", "done"}) /\ Len(evidence) \in Nat
         /\ DOMAIN evidence = 1 .. Len(evidence)
         /\ IsFiniteSet(Started) /\ Cardinality(Started) \in Nat
         /\ IsFiniteSet(Finished) /\ Cardinality(Finished) \in Nat
         /\ IsFiniteSet(Closed) /\ Cardinality(Closed) \in Nat
<1>1. trail \in Seq(Events) /\ evidence \in Seq({"open", "done"})
  BY DEF TypeOK
<1>2. /\ Len(trail) \in Nat /\ DOMAIN trail = 1 .. Len(trail)
      /\ Len(evidence) \in Nat /\ DOMAIN evidence = 1 .. Len(evidence)
  BY <1>1
<1>3. IsFiniteSet(DOMAIN trail) /\ IsFiniteSet(DOMAIN evidence)
  <2>1. 1 \in Int /\ Len(trail) \in Int /\ Len(evidence) \in Int
    BY <1>2
  <2> QED
    BY <1>2, <2>1, FS_Interval
<1>4. Started \subseteq DOMAIN trail /\ Finished \subseteq DOMAIN trail
        /\ Closed \subseteq DOMAIN evidence
  BY DEF Started, Finished, Closed
<1> QED
  BY <1>1, <1>2, <1>3, <1>4, FS_Subset, FS_CardinalityType

\* A step that records nothing and neither begins nor forgets an execution.
Calm ==
  /\ UNCHANGED <<trail, evidence>>
  /\ Begun' => Begun
  /\ Begun => Begun' \/ Silenced'
  /\ Silenced => Silenced'
  /\ Opened' => Opened
  /\ \A e \in {"execution_started", "execution_finished"} :
       pc' = e /\ wire' = "sent" => pc = e /\ wire = "sent"

LEMMA CalmKeepsTrail ==
  ASSUME TypeOK, TrailInv, Calm
  PROVE  TrailInv'
<1>1. UNCHANGED <<Started, Finished, Closed, trail, evidence>>
  BY DEF Calm, Started, Finished, Closed
<1>2. /\ Awaited("execution_started")' <= Awaited("execution_started")
      /\ Awaited("execution_finished")' <= Awaited("execution_finished")
      /\ Awaited("execution_started")' \in {0, 1} /\ Awaited("execution_finished")' \in {0, 1}
      /\ Awaited("execution_started") \in {0, 1} /\ Awaited("execution_finished") \in {0, 1}
  BY DEF Calm, Awaited
<1>3. /\ Cardinality(Started) + Awaited("execution_started")' <= Len(evidence)
      /\ Cardinality(Finished) + Awaited("execution_finished")' <= Cardinality(Closed)
  <2>1. /\ Cardinality(Started) + Awaited("execution_started") <= Len(evidence)
        /\ Cardinality(Finished) + Awaited("execution_finished") <= Cardinality(Closed)
    BY DEF TrailInv
  <2>2. /\ Cardinality(Started) \in Nat /\ Cardinality(Finished) \in Nat
        /\ Cardinality(Closed) \in Nat /\ Len(evidence) \in Nat
    BY TrailNumbers
  <2> QED
    BY <1>2, <2>1, <2>2
<1>4. /\ Begun' => Len(trail) \in Started
      /\ Len(trail) \in Started => Begun' \/ Silenced'
      /\ Opened' => Len(evidence) \in DOMAIN evidence /\ evidence[Len(evidence)] = "open"
  BY DEF Calm, TrailInv
<1> QED
  BY <1>1, <1>3, <1>4 DEF TrailInv, Awaited

LEMMA EvidenceStartsKeepsTrail ==
  ASSUME TypeOK, TrailInv, EvidenceStarts
  PROVE  TrailInv'
<1>1. /\ pc = "recording" /\ pc' = "execution_started" /\ wire' = "sent"
      /\ evidence' = Append(evidence, "open") /\ trail' = trail
  BY DEF EvidenceStarts, Ask
<1>2. UNCHANGED <<Started, Finished>>
  BY <1>1 DEF Started, Finished
<1>3. /\ Len(evidence') = Len(evidence) + 1 /\ DOMAIN evidence' = 1 .. Len(evidence) + 1
      /\ evidence'[Len(evidence) + 1] = "open"
      /\ \A i \in 1 .. Len(evidence) : evidence'[i] = evidence[i]
  BY <1>1, TrailNumbers, AppendFacts
<1>4. Closed' = Closed
  <2>1. \A i : i \in DOMAIN evidence' <=> i \in DOMAIN evidence \/ i = Len(evidence) + 1
    BY <1>3, TrailNumbers
  <2> QED
    BY <1>3, <2>1, TrailNumbers DEF Closed
<1>5. ~Begun /\ ~Begun' /\ ~Silenced /\ Len(trail) \notin Started
  BY <1>1 DEF Begun, Silenced, TrailInv
<1>6. Awaited("execution_started")' = 1 /\ Awaited("execution_finished")' = 0
      /\ Awaited("execution_started") = 0 /\ Awaited("execution_finished") = 0
  BY <1>1 DEF Awaited
<1>7. Len(evidence') \in DOMAIN evidence' /\ evidence'[Len(evidence')] = "open"
  BY <1>3, TrailNumbers
<1>8. /\ Cardinality(Started) + 1 <= Len(evidence')
      /\ Cardinality(Finished) + 0 <= Cardinality(Closed)
  BY <1>3, <1>6, TrailNumbers DEF TrailInv
<1> QED
  BY <1>1, <1>2, <1>4, <1>5, <1>6, <1>7, <1>8 DEF TrailInv

LEMMA EvidenceFinishesKeepsTrail ==
  ASSUME TypeOK, TrailInv, EvidenceFinishes
  PROVE  TrailInv'
<1> DEFINE m == Len(evidence)
<1>1. /\ pc = "closing" /\ pc' = "execution_finished" /\ wire' = "sent"
      /\ evidence' = [evidence EXCEPT ![m] = "done"] /\ trail' = trail
  BY DEF EvidenceFinishes, Ask
<1>2. UNCHANGED <<Started, Finished>>
  BY <1>1 DEF Started, Finished
<1>3. m \in DOMAIN evidence /\ evidence[m] = "open" /\ Len(trail) \in Started
  BY <1>1 DEF TrailInv, Opened, Begun
<1>4. Len(evidence') = m /\ DOMAIN evidence' = DOMAIN evidence
  BY <1>1, <1>3, TrailNumbers
<1>5. m \notin Closed /\ Closed' = Closed \cup {m}
  BY <1>1, <1>3 DEF Closed
<1>6. Cardinality(Closed') = Cardinality(Closed) + 1
  BY <1>5, TrailNumbers, FS_AddElement
<1>7. /\ Awaited("execution_started")' = 0 /\ Awaited("execution_finished")' = 1
      /\ Awaited("execution_started") = 0 /\ Awaited("execution_finished") = 0
      /\ Begun' /\ ~Opened'
  BY <1>1 DEF Awaited, Begun, Opened
<1>8. /\ Cardinality(Started) + 0 <= Len(evidence')
      /\ Cardinality(Finished) + 1 <= Cardinality(Closed')
  BY <1>4, <1>6, <1>7, TrailNumbers DEF TrailInv
<1> QED
  BY <1>1, <1>2, <1>3, <1>7, <1>8 DEF TrailInv

LEMMA AuditStoresKeepsTrail ==
  ASSUME TypeOK, ThreadInv, TrailInv, AuditStores
  PROVE  TrailInv'
<1>0. PICK m : m = Len(trail) + 1
  OBVIOUS
<1>1. /\ pc \in Events /\ wire = "sent" /\ trail' = Append(trail, pc)
      /\ UNCHANGED <<pc, evidence, poisoned>>
      /\ wire' = IF pc = "execution_started" THEN "stored" ELSE "done"
  BY DEF AuditStores, host
<1>2. /\ Len(trail') = m /\ m \in Nat /\ DOMAIN trail' = 1 .. m /\ trail'[m] = pc
      /\ \A i \in 1 .. Len(trail) : trail'[i] = trail[i]
  BY <1>0, <1>1, TrailNumbers, AppendFacts
<1>3. \A i : i \in DOMAIN trail' <=> i \in DOMAIN trail \/ i = m
  BY <1>0, <1>2, TrailNumbers
<1>4. m \notin DOMAIN trail
  BY <1>0, TrailNumbers
<1>5. Started' = Started \cup {i \in {m} : pc = "execution_started"}
  BY <1>2, <1>3, <1>4, TrailNumbers DEF Started
<1>6. Finished' = Finished \cup {i \in {m} : pc = "execution_finished"}
  BY <1>2, <1>3, <1>4, TrailNumbers DEF Finished
<1>7. m \notin Started /\ m \notin Finished /\ Closed' = Closed
  BY <1>1, <1>4 DEF Started, Finished, Closed
<1>8. /\ ~Silenced /\ (Opened' <=> Opened)
      /\ Awaited("execution_started")' = 0 /\ Awaited("execution_finished")' = 0
  BY <1>1 DEF Silenced, Opened, Awaited, Events
<1>9. CASE pc = "execution_started"
  <2>1. ~Begun /\ Begun' /\ Awaited("execution_started") = 1 /\ Awaited("execution_finished") = 0
    BY <1>1, <1>9 DEF Begun, Awaited
  <2>2. Len(trail) \notin Started
    BY <1>8, <2>1 DEF TrailInv
  <2>3. Started' = Started \cup {m} /\ Finished' = Finished
    BY <1>5, <1>6, <1>9
  <2>4. Cardinality(Started') = Cardinality(Started) + 1
    BY <1>7, <2>3, TrailNumbers, FS_AddElement
  <2>5. /\ Cardinality(Started') + 0 <= Len(evidence)
        /\ Cardinality(Finished') + 0 <= Cardinality(Closed)
    BY <2>1, <2>3, <2>4, TrailNumbers DEF TrailInv
  <2>6. \A i \in Started' : i = m \/ i + 1 \in Finished'
    BY <2>2, <2>3 DEF TrailInv
  <2>7. \A i \in Finished' : i - 1 \in Started'
    BY <2>3 DEF TrailInv
  <2> QED
    BY <1>1, <1>2, <1>7, <1>8, <2>1, <2>3, <2>5, <2>6, <2>7 DEF TrailInv
<1>10. CASE pc = "execution_finished"
  <2>1. Begun /\ ~Begun' /\ Awaited("execution_started") = 0 /\ Awaited("execution_finished") = 1
    BY <1>1, <1>10 DEF Begun, Awaited
  <2>2. Len(trail) \in Started
    BY <2>1 DEF TrailInv
  <2>3. Started' = Started /\ Finished' = Finished \cup {m}
    BY <1>5, <1>6, <1>10
  <2>4. Cardinality(Finished') = Cardinality(Finished) + 1
    BY <1>7, <2>3, TrailNumbers, FS_AddElement
  <2>5. /\ Cardinality(Started') + 0 <= Len(evidence)
        /\ Cardinality(Finished') + 0 <= Cardinality(Closed)
    BY <2>1, <2>3, <2>4, TrailNumbers DEF TrailInv
  <2>6. \A i \in Started' : i + 1 \in Finished'
    BY <1>0, <2>3 DEF TrailInv
  <2>7. \A i \in Finished' : i - 1 \in Started'
    <3>1. m - 1 = Len(trail)
      BY <1>0, TrailNumbers
    <3> QED
      BY <2>2, <2>3, <3>1 DEF TrailInv
  <2> QED
    BY <1>1, <1>2, <1>7, <1>8, <2>1, <2>3, <2>5, <2>6, <2>7 DEF TrailInv
<1>11. CASE pc \notin {"execution_started", "execution_finished"}
  <2>1. ~Begun /\ ~Begun' /\ Awaited("execution_started") = 0 /\ Awaited("execution_finished") = 0
    BY <1>1, <1>11 DEF Begun, Awaited, Events
  <2>2. Len(trail) \notin Started
    BY <1>8, <2>1 DEF TrailInv
  <2>3. Started' = Started /\ Finished' = Finished
    BY <1>5, <1>6, <1>11
  <2>4. \A i \in Started' : i + 1 \in Finished'
    BY <2>2, <2>3 DEF TrailInv
  <2> QED
    BY <1>1, <1>2, <1>7, <1>8, <2>1, <2>3, <2>4 DEF TrailInv
<1> QED
  BY <1>9, <1>10, <1>11

LEMMA OthersAreCalm ==
  ASSUME ChainInv, [Next]_vars
  PROVE  Calm \/ AuditStores \/ EvidenceStarts \/ EvidenceFinishes
<1> USE DEF Calm, Begun, Opened, Silenced, Events
<1>1. ThreadInv
  BY DEF ChainInv
<1>2. CASE UNCHANGED <<host, records>>
  BY <1>2 DEF host, records
<1>3. CASE Reviews
  BY <1>3 DEF Reviews, Review, ReviewAnswered, ReviewReturns, ApprovalFails, Goto, Ask, records
<1>4. CASE Audits
  BY <1>1, <1>4 DEF Audits, AuditProves, AuditFails, Goto, records, ThreadInv
<1>5. ASSUME NEW a \in Actions, Submit(a)
      PROVE  Calm
  BY <1>5 DEF Submit, Ask, records
<1>6. CASE Decided \/ ConsumeUnstarted \/ Consumed \/ ApprovalRecorded \/ CheckAvailable
  BY <1>6 DEF Decided, ConsumeUnstarted, Consumed, ApprovalRecorded, CheckAvailable,
     Acknowledged, Quietly, Goto, Ask, records
<1>7. ASSUME NEW r \in 0 .. Len(minted), ApprovalBurns(r)
      PROVE  Calm
  BY <1>7 DEF ApprovalBurns, records
<1>8. CASE ApprovalProves
  BY <1>8 DEF ApprovalProves, records
<1>9. CASE EvidenceFails \/ IntentRecorded \/ Ended
  BY <1>9 DEF EvidenceFails, IntentRecorded, Ended, Acknowledged, Quietly, Goto, records
<1>10. CASE Runs
  BY <1>1, <1>10 DEF Runs, LaunchHalted, Send, RunReturns, RunFails, CloseLauncher, Quietly, Goto,
     host, records
<1>11. CASE Works \/ Surroundings \/ UNCHANGED vars
  <2>1. UNCHANGED <<host, records>>
    BY <1>11 DEF Works, Surroundings, AuditCrash, ApprovalCrash, LauncherCrash, vars
  <2> QED
    BY <1>2, <2>1
<1> QED
  BY <1>3, <1>4, <1>5, <1>6, <1>7, <1>8, <1>9, <1>10, <1>11 DEF Next, Proposes

LEMMA TrailHolds == Spec => [](ChainInv /\ TrailInv)
<1>1. Init => TrailInv
  <2> SUFFICES ASSUME Init PROVE TrailInv
    OBVIOUS
  <2>1. trail = <<>> /\ evidence = <<>> /\ pc = "idle"
    BY DEF Init
  <2>2. Started = {} /\ Finished = {} /\ Closed = {}
    BY <2>1 DEF Started, Finished, Closed
  <2>3. Cardinality({}) = 0 /\ Len(evidence) = 0
    BY <2>1, FS_EmptySet
  <2>4. Awaited("execution_started") = 0 /\ Awaited("execution_finished") = 0
    BY <2>1 DEF Awaited
  <2> QED
    BY <2>1, <2>2, <2>3, <2>4 DEF TrailInv, Begun, Opened
<1>2. ChainInv /\ TrailInv /\ [Next]_vars => TrailInv'
  <2> SUFFICES ASSUME ChainInv, TrailInv, [Next]_vars PROVE TrailInv'
    OBVIOUS
  <2> TypeOK /\ ThreadInv
    BY DEF ChainInv
  <2> QED
    BY OthersAreCalm, CalmKeepsTrail, AuditStoresKeepsTrail, EvidenceStartsKeepsTrail,
       EvidenceFinishesKeepsTrail
<1> QED
  BY <1>1, <1>2, ChainInductive, PTL DEF Spec

\* For any instance the trail tells executions one after the other: an intent is followed
\* at once by its completion or by nothing at all, and no completion is told before the
\* evidence of its execution is closed.
THEOREM TrailTells == Spec => []TrailTellsExecutions
<1>1. ChainInv /\ TrailInv => TrailTellsExecutions
  <2> SUFFICES ASSUME ChainInv, TrailInv PROVE TrailTellsExecutions
    OBVIOUS
  <2>1. /\ Cardinality(Started) \in Nat /\ Cardinality(Finished) \in Nat
        /\ Cardinality(Closed) \in Nat /\ Len(evidence) \in Nat
    BY TrailNumbers DEF ChainInv
  <2>2. Awaited("execution_started") \in {0, 1} /\ Awaited("execution_finished") \in {0, 1}
    BY DEF Awaited
  <2>3. /\ Cardinality(Started) <= Len(evidence)
        /\ Cardinality(Finished) <= Cardinality(Closed)
    BY <2>1, <2>2 DEF TrailInv
  <2> QED
    BY <2>3 DEF TrailInv, TrailTellsExecutions, Closed
<1> QED
  BY <1>1, TrailHolds, PTL
-----------------------------------------------------------------------------
(***************************************************************************)
(* Reservations.                                                           *)
(***************************************************************************)
AllowanceAt == [n \in DOMAIN launches |-> Allowance[launches[n].action]]

Launched == SumFunction(AllowanceAt)

\* From its admission to its start the output of the launch in hand is reserved too.
InHand == IF stage \in Reserved THEN Allowance[job] ELSE 0

ReservedInv ==
  /\ Launched \in Nat /\ Launched + InHand <= outputs
  /\ told.executions <= executions /\ told.outputs <= outputs
  /\ launcher = "up" /\ pc # "running" =>
       told = [executions |-> executions, outputs |-> outputs]

\* A step that neither reserves, launches nor tells.
Idle ==
  /\ UNCHANGED <<launches, executions, outputs, told>>
  /\ stage' \in Reserved => stage \in Reserved /\ job' = job
  /\ launcher' = "up" /\ pc' # "running" => launcher = "up" /\ pc # "running"

LEMMA ReservedNumbers ==
  ASSUME TypeOK
  PROVE  /\ executions \in Nat /\ outputs \in Nat /\ Len(launches) \in Nat
         /\ DOMAIN launches = 1 .. Len(launches)
         /\ DOMAIN AllowanceAt = 1 .. Len(launches)
         /\ \A n \in 1 .. Len(launches) : AllowanceAt[n] = Allowance[launches[n].action]
         /\ \A n \in 1 .. Len(launches) : AllowanceAt[n] \in Nat
         /\ job \in Actions /\ Allowance[job] \in Nat /\ InHand \in Nat
         /\ told.executions \in Nat /\ told.outputs \in Nat
<1>1. executions \in Nat /\ outputs \in Nat
  BY DEF TypeOK, AdmissionType
<1>2. launches \in Seq(Launch) /\ job \in Actions
  BY DEF TypeOK, LauncherType
<1>3. Len(launches) \in Nat /\ DOMAIN launches = 1 .. Len(launches)
        /\ \A n \in 1 .. Len(launches) : launches[n] \in Launch
  BY <1>2
<1>4. \A n \in 1 .. Len(launches) : launches[n].action \in Actions
  BY <1>3 DEF Launch
<1>5. \A a \in Actions : Allowance[a] \in Nat
  OBVIOUS
<1>6. told \in [executions : Nat, outputs : Nat]
  BY DEF TypeOK
<1>7. told.executions \in Nat /\ told.outputs \in Nat
  BY <1>6
<1>8. /\ DOMAIN AllowanceAt = 1 .. Len(launches)
      /\ \A n \in 1 .. Len(launches) : AllowanceAt[n] = Allowance[launches[n].action]
  BY <1>3 DEF AllowanceAt
<1> QED
  BY <1>1, <1>2, <1>3, <1>4, <1>5, <1>7, <1>8 DEF InHand

LEMMA IdleKeepsReserved ==
  ASSUME TypeOK, ReservedInv, Idle
  PROVE  ReservedInv'
<1>1. AllowanceAt' = AllowanceAt
  BY DEF Idle, AllowanceAt
<1>2. Launched' = Launched
  BY <1>1 DEF Launched
<1>3. InHand' = InHand \/ InHand' = 0
  BY DEF Idle, InHand
<1>4. Launched + InHand' <= outputs
  <2>1. Launched + InHand <= outputs /\ Launched \in Nat
    BY DEF ReservedInv
  <2> QED
    BY <1>3, <2>1, ReservedNumbers
<1> QED
  BY <1>2, <1>4 DEF ReservedInv, Idle

LEMMA ExecuteKeepsReserved ==
  ASSUME ChainInv, TypeOK', ReservedInv, Execute, UNCHANGED <<admission, host, told>>
  PROVE  ReservedInv'
<1> TypeOK
  BY DEF ChainInv
<1> DEFINE l == [action |-> job, intent |-> intentRead.seq,
                 consent |-> IF Asks THEN consentRead.seq ELSE 0,
                 permit |-> Len(admitted), checked |-> checked]
<1>1. /\ stage = "fresh" /\ stage' = "executed" /\ launcher' = launcher
      /\ launches' = Append(launches, l) /\ l.action = job
      /\ UNCHANGED <<executions, outputs, pc, told>>
  BY DEF Execute, Step, admission, host
<1>2. l \in Launch /\ launches \in Seq(Launch)
  BY DEF Launch, TypeOK, LauncherType, AdmissionType
<1> HIDE DEF l
<1>0. PICK n : n = Len(launches)
  OBVIOUS
<1>3. /\ n \in Nat /\ DOMAIN launches' = 1 .. n + 1 /\ launches'[n + 1] = l
      /\ \A i \in 1 .. n : launches'[i] = launches[i]
  BY <1>0, <1>1, <1>2, AppendFacts
<1>4. /\ DOMAIN AllowanceAt' = 1 .. (n + 1)
      /\ \A i \in 1 .. (n + 1) : AllowanceAt'[i] = Allowance[launches'[i].action]
  BY <1>3 DEF AllowanceAt
<1>5. /\ DOMAIN AllowanceAt = 1 .. n
      /\ \A i \in 1 .. n : AllowanceAt[i] = Allowance[launches[i].action] /\ AllowanceAt[i] \in Nat
  BY <1>0, ReservedNumbers
<1>6. \A i \in 1 .. n : AllowanceAt[i] = AllowanceAt'[i]
  BY <1>3, <1>4, <1>5
<1>7. AllowanceAt'[n + 1] = Allowance[job] /\ Allowance[job] \in Nat
  BY <1>1, <1>3, <1>4, ReservedNumbers
<1>8. \A i \in 1 .. (n + 1) : AllowanceAt'[i] \in Nat
  <2> SUFFICES ASSUME NEW i \in 1 .. (n + 1) PROVE AllowanceAt'[i] \in Nat
    OBVIOUS
  <2>1. i \in 1 .. n \/ i = n + 1
    BY <1>3
  <2> QED
    BY <1>5, <1>6, <1>7, <2>1
<1>9. Launched' = Launched + Allowance[job]
  <2>1. SumFunction(AllowanceAt') = SumFunction(AllowanceAt) + AllowanceAt'[n + 1]
    <3>1. DOMAIN AllowanceAt = 1 .. n /\ DOMAIN AllowanceAt' = 1 .. (n + 1)
      BY <1>4, <1>5
    <3> HIDE DEF AllowanceAt
    <3> QED
      BY <1>3, <1>6, <1>8, <3>1, SumAppends
  <2> QED
    BY <1>7, <2>1 DEF Launched
<1>10. InHand = Allowance[job] /\ InHand' = 0
  BY <1>1 DEF InHand, Reserved, WithConsent, WithIntent
<1>11. Launched' \in Nat /\ Launched' + InHand' <= outputs
  BY <1>7, <1>9, <1>10, ReservedNumbers DEF ReservedInv
<1> QED
  BY <1>1, <1>11 DEF ReservedInv

LEMMA AdmitKeepsReserved ==
  ASSUME ChainInv, ReservedInv, AdmitLaunch, UNCHANGED <<host, told>>
  PROVE  ReservedInv'
<1> TypeOK
  BY DEF ChainInv
<1>1. /\ launcher = "up" /\ stage = "consented" /\ UNCHANGED <<job, launcher, launches, pc, told>>
      /\ stage' = IF AdmitReason(Policy, job) = "none" THEN "admitted" ELSE "refused"
      /\ Admit(Policy, job)
  BY DEF AdmitLaunch, Step, host
<1>2. pc = "running"
  BY <1>1 DEF ChainInv, ThreadInv
<1>3. Launched' = Launched /\ InHand = 0
  BY <1>1 DEF Launched, AllowanceAt, InHand, Reserved, WithConsent, WithIntent
<1>4. CASE AdmitReason(Policy, job) = "none"
  <2>1. executions' = executions + 1 /\ outputs' = outputs + Allowance[job]
    BY <1>1, <1>4 DEF Admit
  <2>2. InHand' = Allowance[job]
    BY <1>1, <1>4 DEF InHand, Reserved, WithConsent, WithIntent
  <2> QED
    BY <1>1, <1>2, <1>3, <2>1, <2>2, ReservedNumbers DEF ReservedInv
<1>5. CASE AdmitReason(Policy, job) # "none"
  <2>1. UNCHANGED <<executions, outputs>>
    BY <1>1, <1>5 DEF Admit
  <2>2. InHand' = 0
    BY <1>1, <1>5 DEF InHand, Reserved, WithConsent, WithIntent
  <2> QED
    BY <1>1, <1>2, <1>3, <2>1, <2>2, ReservedNumbers DEF ReservedInv
<1> QED
  BY <1>4, <1>5

LEMMA RunReturnsKeepsReserved ==
  ASSUME ChainInv, ReservedInv, RunReturns
  PROVE  ReservedInv'
<1> TypeOK
  BY DEF ChainInv
<1>1. /\ UNCHANGED <<launches, executions, outputs, job>> /\ stage' = "idle"
      /\ told' = [executions |-> executions, outputs |-> outputs]
  BY DEF RunReturns, admission
<1>2. Launched' = Launched /\ InHand' = 0
  BY <1>1 DEF Launched, AllowanceAt, InHand, Reserved, WithConsent, WithIntent
<1>3. Launched + 0 <= outputs
  BY ReservedNumbers DEF ReservedInv
<1>4. told'.executions = executions /\ told'.outputs = outputs
  BY <1>1
<1> QED
  BY <1>1, <1>2, <1>3, <1>4, ReservedNumbers DEF ReservedInv

LEMMA OthersAreIdle ==
  ASSUME ChainInv, [Next]_vars
  PROVE  \/ Idle \/ RunReturns
         \/ Execute /\ UNCHANGED <<admission, host, told>>
         \/ AdmitLaunch /\ UNCHANGED <<host, told>>
<1> USE DEF Idle, admission, worker, counters
<1>1. ThreadInv
  BY DEF ChainInv
<1>2. CASE UNCHANGED <<admission, worker, told>> /\ (launcher = "up" /\ pc' # "running" => pc # "running")
  BY <1>2
<1>3. CASE Reviews
  BY <1>3 DEF Reviews, Review, ReviewAnswered, ReviewReturns, ApprovalFails, Goto, Ask
<1>4. CASE Audits
  BY <1>4 DEF Audits, AuditStores, AuditProves, AuditFails, Goto, Events
<1>5. CASE Proposes
  <2>1. ASSUME NEW a \in Actions, Submit(a)
        PROVE  Idle
    BY <2>1 DEF Submit, Ask
  <2>2. CASE Decided \/ ConsumeUnstarted \/ Consumed \/ ApprovalRecorded \/ CheckAvailable
    BY <2>2 DEF Decided, ConsumeUnstarted, Consumed, ApprovalRecorded, CheckAvailable,
       Acknowledged, Quietly, Goto, Ask
  <2>3. ASSUME NEW r \in 0 .. Len(minted), ApprovalBurns(r)
        PROVE  Idle
    BY <2>3 DEF ApprovalBurns
  <2>4. CASE ApprovalProves
    BY <2>4 DEF ApprovalProves
  <2>5. CASE EvidenceStarts \/ EvidenceFails \/ IntentRecorded \/ Ended
    BY <2>5 DEF EvidenceStarts, EvidenceFails, IntentRecorded, Ended, Acknowledged, Quietly, Goto, Ask
  <2> QED
    BY <1>5, <2>1, <2>2, <2>3, <2>4, <2>5 DEF Proposes
<1>6. CASE Runs
  <2>1. CASE LaunchHalted \/ EvidenceFinishes
    BY <2>1 DEF LaunchHalted, EvidenceFinishes, Quietly, Goto, Ask
  <2>2. CASE Send \/ RunFails \/ CloseLauncher
    BY <2>2 DEF Send, RunFails, CloseLauncher, Goto, host, Reserved, WithConsent, WithIntent
  <2> QED
    BY <1>6, <2>1, <2>2 DEF Runs
<1>7. CASE Works
  <2>1. UNCHANGED <<host, told>>
    BY <1>7 DEF Works
  <2>2. CASE TakeIntent \/ TakeConsent \/ CheckFresh \/ Answer \/ Refuse
    <3>1. UNCHANGED admission
      BY <1>7, <2>2 DEF Works, WorkerStep, AdmitLaunch, RedeemPermit, TakeIntent, TakeConsent,
         CheckFresh, Answer, Refuse, Step
    <3> QED
      BY <2>1, <2>2, <3>1 DEF TakeIntent, TakeConsent, CheckFresh, Answer, Refuse, Step, Reserved,
         WithConsent, WithIntent, host
  <2>3. CASE RedeemPermit
    BY <2>1, <2>3 DEF RedeemPermit, Redeem, Step, Reserved, WithConsent, WithIntent, host
  <2>4. CASE Execute
    <3>1. UNCHANGED admission
      BY <1>7, <2>4 DEF Works, WorkerStep, AdmitLaunch, RedeemPermit, Execute, Step
    <3> QED
      BY <2>1, <2>4, <3>1
  <2> QED
    BY <1>7, <2>1, <2>2, <2>3, <2>4 DEF Works, WorkerStep
<1>8. CASE Surroundings
  BY <1>8 DEF Surroundings, AuditCrash, ApprovalCrash, LauncherCrash, host
<1>9. CASE UNCHANGED vars
  BY <1>9 DEF vars, host
<1> QED
  BY <1>3, <1>4, <1>5, <1>6, <1>7, <1>8, <1>9 DEF Next

LEMMA ReservedHolds == Spec => [](ChainInv /\ ReservedInv)
<1>1. Init => ReservedInv
  <2> SUFFICES ASSUME Init PROVE ReservedInv
    OBVIOUS
  <2>1. /\ launches = <<>> /\ executions = 0 /\ outputs = 0 /\ stage = "idle"
        /\ told = [executions |-> 0, outputs |-> 0]
    BY DEF Init, AdmissionInit, LauncherInit
  <2>2. DOMAIN AllowanceAt = {}
    BY <2>1 DEF AllowanceAt
  <2>3. Launched = 0
    BY <2>2, SumOfNone DEF Launched, SumFunction
  <2>4. InHand = 0
    BY <2>1 DEF InHand, Reserved, WithConsent, WithIntent
  <2>5. told.executions = 0 /\ told.outputs = 0
    BY <2>1
  <2> QED
    BY <2>1, <2>3, <2>4, <2>5 DEF ReservedInv
<1>2. ChainInv /\ ReservedInv /\ [Next]_vars => ReservedInv'
  <2> SUFFICES ASSUME ChainInv, ReservedInv, [Next]_vars PROVE ReservedInv'
    OBVIOUS
  <2>1. TypeOK /\ TypeOK'
    BY ChainSteps DEF ChainInv
  <2> QED
    BY <2>1, OthersAreIdle, IdleKeepsReserved, RunReturnsKeepsReserved, ExecuteKeepsReserved,
       AdmitKeepsReserved
<1> QED
  BY <1>1, <1>2, ChainInductive, PTL DEF Spec

\* For any instance what was reserved covers every launch, and what the host was last
\* told never exceeds it; both agree while the launcher lives and no run is in progress.
THEOREM ReservationsCover == Spec => []ReservationsCoverLaunches
<1>1. ChainInv /\ ReservedInv => ReservationsCoverLaunches
  <2> SUFFICES ASSUME ChainInv, ReservedInv PROVE ReservationsCoverLaunches
    OBVIOUS
  <2>1. Launched <= outputs
    BY ReservedNumbers DEF ChainInv, ReservedInv
  <2> QED
    BY <2>1 DEF ChainInv, ReservedInv, ReservationsCoverLaunches, Launched, AllowanceAt
<1> QED
  BY <1>1, ReservedHolds, PTL
=============================================================================
