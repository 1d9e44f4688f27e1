---------------------------- MODULE ProviderBroker -----------------------------
(***************************************************************************)
(* The broker of the owned TLS fixture, from provider_broker.py: a call    *)
(* takes the lock or is turned away, reserves its whole allowance, records *)
(* the reservation and only then enters the transport, and records one     *)
(* terminal event whatever the transport, the receipt, the deadline or the *)
(* cancellation makes of it.                                               *)
(*                                                                         *)
(* The four budgets follow from the calls and the bytes of their requests. *)
(* A control is one deadline with one cancellation; the first that is used *)
(* is the only one for the life of the broker.                             *)
(***************************************************************************)
EXTENDS Naturals, Sequences, FiniteSets

CONSTANTS
  Callers,              \* threads
  Controls,             \* the controls they present
  RequestSizes,             \* sizes of the requests they send
  MaxCalls, MaxBytes,   \* the limits of the broker
  MaxTurns              \* bound: attempts to take the lock

ASSUME BrokerAssumption ==
  RequestSizes \subseteq Nat \ {0} /\ {MaxCalls, MaxBytes, MaxTurns} \subseteq Nat

VARIABLES
  broker,               \* the counters, the control, the audit's state, the lock and its holder;
                        \* a control or a holder is a set of at most one
  stopped,              \* the controls whose deadline has passed or that were cancelled
  trail,                \* the events the audit has recorded
  entered,              \* history: the attempts the transport was entered for
  returned              \* history: the attempts whose body a caller was given

brokerage == <<broker, stopped, trail, entered, returned>>

BrokerInit ==
  /\ broker = [calls |-> 0, bytes |-> 0, control |-> {}, failed |-> FALSE,
               holder |-> {}, at |-> "free", with |-> {}, size |-> 0, outcome |-> "none",
               turns |-> 0]
  /\ stopped = {} /\ trail = <<>> /\ entered = {} /\ returned = {}

Free(b) == [b EXCEPT !.holder = {}, !.at = "free", !.with = {}, !.size = 0,
                     !.outcome = "none"]

Goes(at) == broker' = [broker EXCEPT !.at = at]

Concludes(outcome) == broker' = [broker EXCEPT !.at = "ending", !.outcome = outcome]

TurnedAway == [broker EXCEPT !.turns = @ + 1]

\* exchange, up to the checks: a second caller is told provider_already_running.
Acquire(caller, control, size) ==
  /\ broker.turns < MaxTurns
  /\ IF broker.holder # {} \/ broker.failed THEN broker' = TurnedAway
     ELSE broker' = [TurnedAway EXCEPT !.holder = {caller}, !.at = "checking",
                                       !.with = {control}, !.size = size]
  /\ UNCHANGED <<stopped, trail, entered, returned>>

Fits == broker.control \subseteq broker.with

Runs == broker.with \cap stopped = {}

AuditEvent(kind, number) == [kind |-> kind, number |-> number]

\* _emit records the event, or the audit has failed for good and so has the call.
EmitsOr(event, next) ==
  \/ /\ trail' = Append(trail, event)
     /\ broker' = next
  \/ /\ UNCHANGED trail
     /\ broker' = [Free(broker) EXCEPT !.failed = TRUE]

\* As if a record could be lost without a word.
EmitsOrGoesOn(event, next) ==
  /\ \/ trail' = Append(trail, event)
     \/ UNCHANGED trail
  /\ broker' = next

Emits(event, next) == EmitsOr(event, next)

WithinBudgets == broker.calls < MaxCalls /\ broker.bytes + broker.size <= MaxBytes

\* _check_control: the first control that has not stopped is kept for good.
Bind ==
  /\ broker.at = "checking" /\ Fits /\ Runs
  /\ broker' = [broker EXCEPT !.at = "checked", !.control = broker.with]
  /\ UNCHANGED <<stopped, trail, entered, returned>>

\* _reject: another control; a request that is not the one the broker would build,
\* of whatever size; or a budget that it would exceed.
Reject ==
  /\ (broker.at = "checking" /\ ~Fits) \/ broker.at = "checked"
  /\ Emits(AuditEvent("rejected", 0), Free(broker))
  /\ UNCHANGED <<stopped, entered, returned>>

\* The deadline or a cancellation leaves without an event: nothing was reserved.
CheckStops ==
  /\ broker.at \in {"checking", "checked"} /\ Fits /\ ~Runs
  /\ broker' = Free(broker)
  /\ UNCHANGED <<stopped, trail, entered, returned>>

\* The counters move before there is a record, and never back.
Reserve ==
  /\ broker.at = "checked" /\ Runs /\ WithinBudgets
  /\ broker' = [broker EXCEPT !.calls = @ + 1, !.bytes = @ + broker.size, !.at = "reserving"]
  /\ UNCHANGED <<stopped, trail, entered, returned>>

RecordReservation ==
  /\ broker.at = "reserving"
  /\ Emits(AuditEvent("reserved", broker.calls), [broker EXCEPT !.at = "entering"])
  /\ UNCHANGED <<stopped, entered, returned>>

\* The control is looked at once more before the transport.
Enter ==
  /\ broker.at = "entering"
  /\ IF Runs THEN Goes("exchanging") /\ entered' = entered \cup {broker.calls}
             ELSE Concludes("stopped") /\ UNCHANGED entered
  /\ UNCHANGED <<stopped, trail, returned>>

\* What the transport and its receipt come to: a body with a receipt that shows the
\* boundary held and all was reaped, a failure, or a stop that the control explains.
Exchanged ==
  /\ broker.at = "exchanging"
  /\ \/ Runs /\ Concludes("succeeded")
     \/ Concludes("failed")
     \/ ~Runs /\ Concludes("stopped")
  /\ UNCHANGED <<stopped, trail, entered, returned>>

\* The one terminal event of the attempt.
RecordEnd ==
  /\ broker.at = "ending"
  /\ Emits(AuditEvent(broker.outcome, broker.calls),
           IF broker.outcome = "succeeded" THEN [broker EXCEPT !.at = "returning"] ELSE Free(broker))
  /\ UNCHANGED <<stopped, entered, returned>>

\* The control decides last whether the caller gets the body.
ReturnBody ==
  /\ broker.at = "returning"
  /\ returned' = IF Runs THEN returned \cup {broker.calls} ELSE returned
  /\ broker' = Free(broker)
  /\ UNCHANGED <<stopped, trail, entered>>

ControlStops ==
  /\ \E control \in Controls \ stopped : stopped' = stopped \cup {control}
  /\ UNCHANGED <<broker, trail, entered, returned>>

BrokerNext ==
  \/ \E caller \in Callers, control \in Controls, size \in RequestSizes : Acquire(caller, control, size)
  \/ Bind \/ Reject \/ CheckStops \/ Reserve \/ RecordReservation \/ Enter \/ Exchanged \/ RecordEnd
  \/ ReturnBody \/ ControlStops
-----------------------------------------------------------------------------
(***************************************************************************)
(* Property.                                                               *)
(***************************************************************************)
Numbers(kinds) == {trail[n].number : n \in {k \in DOMAIN trail : trail[k].kind \in kinds}}

ENDINGS == {"succeeded", "failed", "stopped"}

Endings(number) ==
  Cardinality({n \in DOMAIN trail : trail[n].kind \in ENDINGS /\ trail[n].number = number})

\* However calls contend, stop and fail, and whenever the audit fails: the transport
\* is entered for a reservation on record and once for each number; an attempt never
\* has two endings, and one that is over has one unless the audit has failed; a body
\* was given only for a success on record; and the counters stay within the budgets
\* and cover every attempt on record, which no failure gives back.
AttemptsAreAccounted ==
  /\ broker.calls <= MaxCalls /\ broker.bytes <= MaxBytes
  /\ entered \subseteq Numbers({"reserved"})
  /\ Numbers({"reserved"}) \subseteq 1 .. broker.calls
  /\ returned \subseteq entered \cap Numbers({"succeeded"})
  /\ \A n \in 1 .. broker.calls :
       /\ Endings(n) <= 1
       /\ broker.holder = {} /\ ~broker.failed => n \in Numbers({"reserved"}) /\ Endings(n) = 1
=============================================================================
