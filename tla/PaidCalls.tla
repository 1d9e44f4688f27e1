------------------------------- MODULE PaidCalls ------------------------------
(***************************************************************************)
(* Calls to a provider that are paid through the cost ledger, from         *)
(* assessment_planning.py, web_model_provider.py and provider_pilot.py.    *)
(*                                                                         *)
(* Several calls of one process share a ledger handle; the operator works  *)
(* on the same ledger from another process.  A call is one attempt.  An    *)
(* exception may strike between any two steps, a commit may succeed        *)
(* although its acknowledgement is lost, and the process may die.          *)
(*                                                                         *)
(* The calls of planning and of the web model clean up by the durable      *)
(* state of their attempt.  Pilot calls clean up by their local flags.     *)
(***************************************************************************)
EXTENDS CostLedger

CONSTANTS
  Pilots,               \* the calls of provider_pilot.py
  UsageEvent            \* per call: the event identifier of its settlement

ASSUME PaidCallsAssumption == Pilots \subseteq Attempts /\ UsageEvent \in [Attempts -> EventIds]

VARIABLES
  pc,                   \* per call: how far it is
  known,                \* per call: the last ledger change it was told of
  sent,                 \* per call: how often its request has left the host
  failed                \* the ledger handle of the process: _failed

calls == <<pc, known, sent, failed>>
vars  == <<ledger, calls>>

PaidInit ==
  /\ Init
  /\ pc = [a \in Attempts |-> "start"]
  /\ known = [a \in Attempts |-> "nothing"]
  /\ sent = [a \in Attempts |-> 0] /\ failed = FALSE

Active == {"start", "estimated", "reserved", "claimed", "sent", "settled", "overrun"}

Stopping == {"cleanup", "cancelling", "marking"}

Places == Active \cup Stopping \cup {"delivered", "ended", "abandoned", "crashed"}
-----------------------------------------------------------------------------
(***************************************************************************)
(* Steps of a call.                                                        *)
(***************************************************************************)
Goto(a, place) == pc' = [pc EXCEPT ![a] = place]

\* After a change of the ledger: the call goes on, or its acknowledgement is lost in
\* an exception, with or without a failure of the handle.
Acknowledged(a, place, news) ==
  \/ /\ Goto(a, place)
     /\ known' = [known EXCEPT ![a] = news]
     /\ UNCHANGED <<sent, failed>>
  \/ /\ Goto(a, "cleanup")
     /\ failed' \in BOOLEAN
     /\ UNCHANGED <<known, sent>>

CallEstimate(a, s, digest, quote) ==
  /\ pc[a] = "start" /\ ~failed
  /\ Estimate(a, s, digest, quote)
  /\ Acknowledged(a, "estimated", "estimated")

CallReserve(a) ==
  /\ pc[a] = "estimated" /\ ~failed
  /\ \/ Reserve(a) /\ Acknowledged(a, "reserved", known[a])
     \/ DenyReserve(a) /\ Goto(a, "cleanup") /\ UNCHANGED <<known, sent, failed>>

\* After the audit record of the reservation and a check of the control.
CallDispatch(a) ==
  /\ pc[a] = "reserved" /\ ~failed
  /\ \/ BeginDispatch(a, attempts[a].digest) /\ Acknowledged(a, "claimed", "dispatched")
     \/ DenyDispatch(a, attempts[a].digest) /\ Goto(a, "cleanup") /\ UNCHANGED <<known, sent, failed>>

SendUnclaimed(a) ==
  /\ pc[a] \in {"reserved", "claimed"}
  /\ sent' = [sent EXCEPT ![a] = @ + 1]
  /\ Goto(a, "sent")
  /\ UNCHANGED <<ledger, known, failed>>

SendAgain(a) ==
  /\ pc[a] \in {"claimed", "sent"}
  /\ sent' = [sent EXCEPT ![a] = @ + 1]
  /\ Goto(a, "sent")
  /\ UNCHANGED <<ledger, known, failed>>

\* After the audit record of the dispatch and another check the request leaves.
Send(a) ==
  /\ pc[a] = "claimed"
  /\ sent' = [sent EXCEPT ![a] = @ + 1]
  /\ Goto(a, "sent")
  /\ UNCHANGED <<ledger, known, failed>>

\* A complete usage has come.  A usage beyond the token limits, which alone may cost
\* more than the ceiling, is settled like any other, but its reply is not accepted.
CallSettle(a, charge, reference) ==
  /\ pc[a] = "sent" /\ ~failed
  /\ Settle(a, charge, "usage_derived", reference, UsageEvent[a])
  /\ \/ charge <= attempts[a].quote.ceiling /\ Acknowledged(a, "settled", "settled")
     \/ Acknowledged(a, "overrun", "settled")

\* The reply is handed on after the audit record of the settlement and a check.
Deliver(a) ==
  /\ pc[a] = "settled"
  /\ Goto(a, "delivered")
  /\ UNCHANGED <<ledger, known, sent, failed>>

\* Any exception: a refusal of the ledger, a failure of its handle, of the audit, the
\* transport or the reply, a stopped control, an overrun.
Stop(a) ==
  /\ pc[a] \in Active
  /\ Goto(a, "cleanup")
  /\ failed' \in {failed, TRUE}
  /\ UNCHANGED <<ledger, known, sent>>
-----------------------------------------------------------------------------
(***************************************************************************)
(* Clean-up.                                                               *)
(***************************************************************************)
LookAtFlags(a) ==
  CASE known[a] = "estimated"  -> "cancelling"
    [] known[a] = "dispatched" -> "marking"
    [] OTHER -> "ended"

\* ledger.attempt(attempt_id)["state"]
LookAtLedger(a) ==
  CASE InState(a, {"estimated", "reserved"}) -> "cancelling"
    [] InState(a, {"dispatched"}) -> "marking"
    [] OTHER -> "ended"

Look(a) ==
  /\ pc[a] = "cleanup" /\ (a \notin Pilots => ~failed)
  /\ Goto(a, IF a \in Pilots THEN LookAtFlags(a) ELSE LookAtLedger(a))
  /\ UNCHANGED <<ledger, known, sent, failed>>

CleanUp(a) ==
  /\ ~failed
  /\ \/ pc[a] = "cancelling" /\ Cancel(a)
     \/ pc[a] = "marking" /\ MarkUncertain(a)
  /\ Goto(a, "ended")
  /\ UNCHANGED <<known, sent, failed>>

\* Somebody else has changed the attempt after the call looked at it.
AlreadyClean(a) ==
  /\ ~failed
  /\ \/ pc[a] = "cancelling" /\ InState(a, {"cancelled"})
     \/ pc[a] = "marking" /\ InState(a, {"uncertain", "settled"})
  /\ Goto(a, "ended")
  /\ UNCHANGED <<ledger, known, sent, failed>>

\* The clean-up itself ends in an exception.
Abandon(a) ==
  /\ pc[a] \in Stopping
  /\ Goto(a, "abandoned")
  /\ failed' \in {failed, TRUE}
  /\ UNCHANGED <<ledger, known, sent>>

\* The process dies, with all its calls; the next one opens a handle of its own.
Crash ==
  /\ \E a \in Attempts : pc[a] \in Active \cup Stopping
  /\ pc' = [a \in Attempts |-> IF pc[a] \in (Active \ {"start"}) \cup Stopping
                               THEN "crashed" ELSE pc[a]]
  /\ failed' = FALSE
  /\ UNCHANGED <<ledger, known, sent>>
-----------------------------------------------------------------------------
OperatorEvents == EventIds \ {UsageEvent[a] : a \in Attempts}

Operate ==
  /\ \/ AddScopes
     \/ \E s \in ScopeIds, limit \in Limits \cup {Unlimited}, event \in OperatorEvents :
          SetLimit(s, limit, event)
     \/ Cancels
     \/ \E a \in Attempts, charge \in Charges, reference \in References,
           event \in OperatorEvents :
          Settle(a, charge, "billing_confirmed", reference, event)
  /\ UNCHANGED calls

CallsEstimate == \E a \in Attempts, s \in Scopes, digest \in Digests, quote \in Quotes :
                   CallEstimate(a, s, digest, quote)
CallsReserve  == \E a \in Attempts : CallReserve(a)
CallsDispatch == \E a \in Attempts : CallDispatch(a)
CallsSettle   == \E a \in Attempts, charge \in Charges, reference \in References :
                   CallSettle(a, charge, reference)
Exchanges     == \E a \in Attempts : Send(a) \/ Deliver(a)
Stops         == \E a \in Attempts : Stop(a) \/ Look(a) \/ AlreadyClean(a) \/ Abandon(a)
CleanUps      == \E a \in Attempts : CleanUp(a)

PaidNext ==
  \/ /\ Len(journal) < MaxJournal
     /\ Operate \/ CallsEstimate \/ CallsReserve \/ CallsDispatch \/ CallsSettle \/ CleanUps
  \/ Exchanges \/ Stops \/ Crash

PaidSpec == PaidInit /\ [][PaidNext]_vars
-----------------------------------------------------------------------------
(***************************************************************************)
(* Properties.                                                             *)
(***************************************************************************)
\* The types of the calls, on top of the ledger's own.
CallsTypeOK ==
  /\ TypeOK
  /\ pc \in [Attempts -> Places]
  /\ known \in [Attempts -> {"nothing", "estimated", "dispatched", "settled"}]
  /\ sent \in [Attempts -> Nat] /\ failed \in BOOLEAN

\* A request that has left the host is paid or its whole ceiling is still held: no
\* lost acknowledgement, exception, crash, clean-up or cancel of the operator makes
\* money that may be owed available again.
SentIsHeldOrPaid ==
  \A a \in Attempts : sent[a] > 0 =>
    \/ InState(a, {"settled"})
    \/ /\ InState(a, {"dispatched", "uncertain"})
       /\ attempts[a].reserved = attempts[a].quote.ceiling

\* A clean-up by the durable state that is not itself disturbed leaves nothing open,
\* even when the acknowledgement of the last change was lost: unsent work is released
\* and an unanswered request is marked uncertain.
CleanEndingsResolve ==
  \A a \in Attempts \ Pilots : pc[a] = "ended" =>
    ~InState(a, {"estimated", "reserved", "dispatched"})

AccountOf(a) ==
  CASE InState(a, {"reserved"}) -> "held"
    [] InState(a, {"dispatched", "uncertain"}) -> "claimed"
    [] InState(a, {"settled"}) -> "paid"
    [] InState(a, {"cancelled"}) -> "released"
    [] OTHER -> "none"

Accounts == [a \in Attempts |-> AccountOf(a)]

\* Whatever happens to calls, ledger, operator and process, requests are metered: each
\* leaves at most once, after its claim, and no claim is released as unsent.
Metered == INSTANCE MeteredSends WITH
  Calls <- Attempts, account <- Accounts

ImplementsMeteredSends == Metered!Spec
=============================================================================
