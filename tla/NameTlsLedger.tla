----------------------------- MODULE NameTlsLedger ----------------------------
(***************************************************************************)
(* The budget of a disconnected owner of one name and its services, from   *)
(* name_tls_ledger.py: it runs the plan of its case, in which a DNS action *)
(* binds the name to the address that was observed on the wire, delivered  *)
(* and reported, and the HTTP and TLS actions reserve under that binding   *)
(* until it expires.  Beside the live ledger, the one that a replay of its *)
(* saved events and messages has arrived at.                               *)
(*                                                                         *)
(* An answer is the expected one of the case or another; a delivery is the *)
(* whole of what was observed or a part; digests are what they are of.     *)
(***************************************************************************)
EXTENDS OwnerLedger

CONSTANTS
  Cases,                \* the cases an owner may be prepared for
  Plan,                 \* operation_plan
  NegativeSlot,         \* the slot whose end is the declared negative, or "none"
  Probes,               \* PROBE_CASES: the plan is not all there is to do
  Ttl,                  \* of the expected answer, cut at a minute
  OPERATIONS,           \* "dns", "http" and "tls"; the last may be left out
  Timeout               \* hard_action_seconds, per operation

Operation(slot) == IF slot \in {"dns_1", "dns_2"} THEN "dns" ELSE slot

ASSUME NameTlsAssumption ==
  /\ Plan \in [Cases -> Seq({"dns_1", "dns_2", "http", "tls"})]
  /\ \A c \in Cases : Len(Plan[c]) <= MaxActions
  /\ Probes \subseteq Cases /\ {"dns", "http"} \subseteq OPERATIONS
  /\ Ttl \in [Cases -> Nat \ {0}] /\ Timeout \in [OPERATIONS -> Nat \ {0}]

VARIABLES
  owner,                \* the ledger of the owner
  retold,               \* the one a replay of its saved events arrives at
  agrees,               \* the replay has accepted every event
  steady                \* no message has met a fault of the clock

nameVars == <<owner, retold, agrees, steady>>

NAME_ROLES == {"launcher"} \cup OPERATIONS

\* selector_role is the operation; every action has one connection, one request and
\* a few bytes, and the budgets of the owner cover the plan.  The bytes of the two
\* directions are kept together, for they are reserved and delivered alike.
NAME_COUNTERS == {"connections", "operations", "bytes"}

UNBOUND == [generation |-> 0, observed_at |-> 0, expires_at |-> 0]

UNSEEN == [answer |-> "none", observed_at |-> -1, bytes |-> 0]

Fresh(case) ==
  Joined(NewLedger("name_tls", NAME_ROLES, NAME_COUNTERS),
         [case |-> case, binding |-> UNBOUND, generation |-> 0])

OnWire(l, m) == l.active # 0 /\ BoundAction(l, m, Operation(Action(l).slot))

Leased(l, m) == OnWire(l, m) /\ l.connection # 0 /\ m.lease = Held(l)

Remaining(l, counter, amount) == Action(l).counters[counter] + amount <= 1

\* _binding_check, which a DNS action does without.
Bound(l, now) == l.binding.generation # 0 /\ now < l.binding.expires_at

Covered(l, now) ==
  \/ Operation(Action(l).slot) = "dns"
  \/ Bound(l, now) /\ Action(l).bound = l.binding.generation
-----------------------------------------------------------------------------
(***************************************************************************)
(* The operations: when each is permitted, and what it does.               *)
(***************************************************************************)
Planned(l, slot) == Len(l.actions) < Len(Plan[l.case]) /\ slot = Plan[l.case][Len(l.actions) + 1]

NameMayArm(l, m, now) ==
  /\ m.role = "launcher" /\ ~Unsettled(l)
  /\ Operation(m.slot) # "dns" => Bound(l, now)
  /\ \A n \in DOMAIN l.actions : l.actions[n].slot # m.slot
  /\ Planned(l, m.slot) /\ m.number = Len(l.actions) + 1

\* A new question ends the binding of the last one before there is an answer.
NameArmed(l, m, now) ==
  LET asks    == Operation(m.slot) = "dns"
      binding == IF asks THEN UNBOUND ELSE l.binding
  IN  [l EXCEPT
        !.generation = IF asks THEN @ + 1 ELSE @,
        !.binding = binding,
        !.active = m.number,
        !.actions = Append(@,
          [slot |-> m.slot, bound |-> binding.generation,
           deadline |-> Earlier(SESSION_US, now + Timeout[Operation(m.slot)]),
           status |-> "active", connections_finished |-> 0, success |-> FALSE,
           observation |-> UNSEEN, delivered |-> 0,
           counters |-> [c \in NAME_COUNTERS |-> 0]])]

NameMayConnect(l, m, now) == OnWire(l, m) /\ l.connection = 0 /\ Covered(l, now)

NameConnected(l, m, now) ==
  [Reserved(l, "connections", 1) EXCEPT
     !.connection = m.local_id, !.requested = FALSE, !.admitted = now]

MayOperate(l, m, now) ==
  Leased(l, m) /\ Covered(l, now) /\ ~l.requested /\ Remaining(l, "operations", 1)

Operated(l) == [Reserved(l, "operations", 1) EXCEPT !.requested = TRUE]

NameMayTransfer(l, m, now) ==
  Leased(l, m) /\ Covered(l, now) /\ l.requested /\ Remaining(l, "bytes", m.bytes)

\* _observe: what the recorder has seen of the answer, once.
MayObserve(l, m) ==
  /\ Leased(l, m) /\ m.role = "dns"
  /\ Action(l).observation = UNSEEN /\ l.requested
  /\ m.bytes \in 1 .. Action(l).counters["bytes"]

Observed(l, m, now) ==
  [l EXCEPT !.actions[l.active].observation =
              [answer |-> m.answer, observed_at |-> now, bytes |-> m.bytes]]

MayDisconnect(l, m) ==
  Leased(l, m) /\ m.delivered <= Action(l).counters["bytes"]

NameDisconnected(l, m) ==
  LET row == [Action(l) EXCEPT !.delivered = m.delivered, !.connections_finished = @ + 1]
  IN  [l EXCEPT !.connection = 0, !.requested = FALSE, !.actions[l.active] = row]

\* As if the time to live began with the report.
ExpiryOfReport(l, now) == Earlier(SESSION_US, now + Ttl[l.case])

\* The time to live begins with the observation.
Expiry(l, now) == Earlier(SESSION_US, Action(l).observation.observed_at + Ttl[l.case])

Delivered(row) ==
  row.connections_finished > 0 /\ row.delivered = row.observation.bytes

\* The report of a DNS action that would bind the name.
Binds(l, m) ==
  /\ Operation(Action(l).slot) = "dns" /\ ~l.terminal
  /\ m.success /\ m.answer = "expected"

\* A report agrees with the wire, and a binding needs the whole answer, in time.
NameMayFinish(l, m, now) ==
  /\ BoundAction(l, m, "launcher") /\ l.connection = 0
  /\ Action(l).connections_finished = Action(l).counters["connections"]
  /\ IF Operation(Action(l).slot) # "dns" THEN m.answer = "none"
     ELSE /\ m.answer # "none" => m.answer = Action(l).observation.answer
          /\ m.success /\ m.answer # "none" /\ ~l.terminal => Delivered(Action(l))
          /\ Binds(l, m) => now < Expiry(l, now)

\* What the end of an action makes of the owner.
Verdict(l, m) ==
  IF Action(l).slot = NegativeSlot[l.case] THEN "declared_negative_completed"
  ELSE IF ~m.success \/ (Operation(Action(l).slot) = "dns" /\ ~Binds(l, m))
    THEN "native_execution_failed"
  ELSE IF Len(l.actions) = Len(Plan[l.case]) /\ l.case \notin Probes THEN "completed"
  ELSE "none"

NameFinished(l, m, now) ==
  LET finished == [l EXCEPT !.active = 0,
         !.actions[l.active] = [@ EXCEPT !.status = "finished", !.success = m.success],
         !.binding = IF Binds(l, m)
           THEN [generation  |-> l.generation,
                 observed_at |-> Action(l).observation.observed_at,
                 expires_at  |-> Expiry(l, now)]
           ELSE @]
  IN  IF Verdict(l, m) = "none" THEN finished ELSE Stop(finished, Verdict(l, m))

NamePermitted(l, m, now) ==
  CASE m.operation = "ARM"                -> NameMayArm(l, m, now)
    [] m.operation = "RESERVE_CONNECTION" -> NameMayConnect(l, m, now)
                                               /\ (TooSoon(l, now) \/ Remaining(l, "connections", 1))
    [] m.operation = "RESERVE_OPERATION"  -> MayOperate(l, m, now)
    [] m.operation = "RESERVE_BYTES"      -> NameMayTransfer(l, m, now)
    [] m.operation = "OBSERVE_DNS"        -> MayObserve(l, m)
    [] m.operation = "FINISH_CONNECTION"  -> MayDisconnect(l, m)
    [] m.operation = "FINISH_ACTION"      -> NameMayFinish(l, m, now)
    [] m.operation = "STOP"               -> StopAllowed(l, m)

NamePerformed(l, m, now) ==
  CASE m.operation = "ARM"                -> NameArmed(l, m, now)
    [] m.operation = "RESERVE_CONNECTION" -> NameConnected(l, m, now)
    [] m.operation = "RESERVE_OPERATION"  -> Operated(l)
    [] m.operation = "RESERVE_BYTES"      -> Reserved(l, "bytes", m.bytes)
    [] m.operation = "OBSERVE_DNS"        -> Observed(l, m, now)
    [] m.operation = "FINISH_CONNECTION"  -> NameDisconnected(l, m)
    [] m.operation = "FINISH_ACTION"      -> NameFinished(l, m, now)
    [] m.operation = "STOP"               -> Stop(l, m.reason)
-----------------------------------------------------------------------------
(***************************************************************************)
(* apply, live and replayed.                                               *)
(***************************************************************************)
\* A deadline that a settlement meets stops the owner without an event of its own.
NameAnswer(l, m, now) ==
  LET seen  == [l EXCEPT !.elapsed = now]
      taken == [seen EXCEPT !.sequences[m.role] = m.sequence]
      late  == IF l.terminal THEN "none" ELSE Late(l, now)
      ready == IF late = "none" THEN taken ELSE Stop(taken, late)
  IN  IF ~InOrder(l, m) THEN Denied(Quiet(seen), m, "refused")
      ELSE IF late # "none" /\ m.operation \notin CLEANUP_OPERATIONS
        THEN Denied(Quiet(taken), m, late)
      ELSE IF NamePermitted(ready, m, now)
        THEN Granted(Quiet(ready), m, NamePerformed(ready, m, now))
      ELSE Denied(Quiet(ready), m, "refused")

\* As if a deadline were looked at before the time is recorded.
NameApplyUnseen(l, m, reading) ==
  IF AtCapacity(l) THEN CapacityStop(l)
  ELSE IF ClockFault(l, reading) # "none" THEN Denied(Quiet(l), m, ClockFault(l, reading))
  ELSE IF Late(l, reading) # "none" THEN Denied(Quiet(l), m, Late(l, reading))
  ELSE NameAnswer(l, m, reading)

\* A fault of the clock is one more refusal of the message.
NameApply(l, m, reading) ==
  IF AtCapacity(l) THEN CapacityStop(l)
  ELSE IF ClockFault(l, reading) # "none" THEN Denied(Quiet(l), m, ClockFault(l, reading))
  ELSE NameAnswer(l, m, reading)

\* _replay: what the fresh ledger appends on one saved event.
Retell(l, event) ==
  CASE event.kind = "message" ->
         IF Raises(l, event.message) THEN Quiet(l) ELSE NameApply(l, event.message, event.at)
    [] event.kind = "owner_stop" -> Terminate(l, event.reason, event.at)
    [] event.kind = "capacity_stop" ->
         IF l.events < MAX_EVENTS[l.kind] - RESERVE THEN Quiet(l) ELSE CapacityStop(l)
    [] event.kind = "clock_stop" ->
         IF event.reason \in {"session_deadline", "action_deadline"}
         THEN CheckDeadline(l, event.at) ELSE Stopped(l, "clock_stop", event.reason)

\* The reply also holds the digest of the ledger, which is compared at once; a call
\* appends one event at most.
NameAdvance(outcome) ==
  LET again == IF outcome.log = <<>> THEN Quiet(retold)
               ELSE Retell([retold EXCEPT !.elapsed = outcome.log[1].at], outcome.log[1])
      timely == outcome.log # <<>> => outcome.log[1].at >= retold.elapsed
  IN  /\ owner' = outcome.ledger /\ retold' = again.ledger
      /\ agrees' = (agrees /\ timely /\ again.log = outcome.log)
-----------------------------------------------------------------------------
ANSWERS == {"expected", "other"}

NameBodies(l) ==
  [ARM                |-> [slot : {"dns_1", "dns_2", "http"}],
   RESERVE_CONNECTION |-> [local_id : {1}],
   RESERVE_OPERATION  |-> [lease : {Held(l), <<0, 0>>}],
   RESERVE_BYTES      |-> [lease : {Held(l)}, bytes : Sizes],
   OBSERVE_DNS        |-> [lease : {Held(l)}, bytes : Sizes, answer : ANSWERS],
   FINISH_CONNECTION  |-> [lease : {Held(l)}, delivered : {0} \cup Sizes],
   FINISH_ACTION      |-> [success : BOOLEAN, answer : {"none"} \cup ANSWERS],
   STOP               |-> [reason : {"completed"} \cup STOP_REASONS]]

NameMessages(l) ==
  UNION {With(Header(l, operation, role), NameBodies(l)[operation]) :
           operation \in DOMAIN NameBodies(l), role \in NAME_ROLES}

NameReceive ==
  \E m \in NameMessages(owner), reading \in Readings(owner) :
    /\ ~Raises(owner, m)
    /\ NameAdvance(NameApply(owner, m, reading))
    /\ steady' = (steady /\ (AtCapacity(owner) \/ ClockFault(owner, reading) = "none"))

NamePoll ==
  \E reading \in Readings(owner) :
    ~owner.terminal /\ NameAdvance(CheckDeadline(owner, reading)) /\ UNCHANGED steady

NameEnd ==
  \E reading \in Readings(owner), reason \in {"completed"} \cup STOP_REASONS :
    ~owner.terminal /\ NameAdvance(Terminate(owner, reason, reading)) /\ UNCHANGED steady

NameInit ==
  /\ owner \in {Fresh(case) : case \in Cases}
  /\ retold = owner /\ agrees = TRUE /\ steady = TRUE

NameNext == NameReceive \/ NamePoll \/ NameEnd

NameSpec == NameInit /\ [][NameNext]_nameVars
-----------------------------------------------------------------------------
(***************************************************************************)
(* Properties.                                                             *)
(***************************************************************************)
\* The saved ledger and its messages replay to the same ledger, whatever happened.
SavedLedgersReplay ==
  /\ agrees
  /\ IF owner.terminal THEN owner.elapsed = retold.elapsed
                       ELSE Late(retold, owner.elapsed) = "none"
  /\ owner = [retold EXCEPT !.elapsed = owner.elapsed]

\* They do as long as no message has met a fault of the clock: a settlement after a
\* deadline, a refusal and a full log are all told again as they happened.
SteadyLedgersReplay == steady => SavedLedgersReplay

\* The last question of the owner was answered on the wire as its case expects, the
\* whole answer was delivered to a client that reported it, and it has not expired.
Known(l) ==
  \E n \in DOMAIN l.actions :
    LET row == l.actions[n]
    IN  /\ \A later \in DOMAIN l.actions :
             later > n => Operation(l.actions[later].slot) # "dns"
        /\ Operation(row.slot) = "dns" /\ row.status = "finished" /\ row.success
        /\ row.observation.answer = "expected" /\ Delivered(row)
        /\ l.elapsed < row.observation.observed_at + Ttl[l.case]

Services(l) ==
  [c \in NAME_COUNTERS |->
     {<<n, l.actions[n].counters[c]>> :
        n \in {k \in DOMAIN l.actions : Operation(l.actions[k].slot) # "dns"}}]

\* A service is armed and reserves, and a name is bound, only while it is known from
\* the wire, counted from the observation and not from the report of a client.
ServicesKnowTheName ==
  [][Services(owner') # Services(owner) \/ (owner'.binding # owner.binding /\ owner'.binding # UNBOUND)
       => Known(owner')]_nameVars
=============================================================================
