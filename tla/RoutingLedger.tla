----------------------------- MODULE RoutingLedger ----------------------------
(***************************************************************************)
(* The budget of a disconnected routing owner, from routing_ledger.py: a   *)
(* launcher and two frontends reserve actions, connections, requests and   *)
(* bytes on channels of their own, each with its sequence; nothing is ever *)
(* refunded.  Beside the live ledger, the one that a replay of its saved   *)
(* events has arrived at.                                                  *)
(*                                                                         *)
(* A digest is what it is the digest of, so an action is named by its      *)
(* number and a lease by its action and connection; every refusal of a     *)
(* message has one reason, except those of the clock.                      *)
(***************************************************************************)
EXTENDS OwnerLedger

CONSTANTS
  Selectors,            \* the actions an owner can run, each once
  RoleOf,               \* selector_role
  Bounds,               \* action_bounds, per selector and counter, and its timeout
  Caps,                 \* budgets, per counter
  Negative              \* selectors whose case is declared negative

ROLES == {"launcher", "http_frontend", "ssh_frontend"}

COUNTERS == {"connections", "http_requests", "kex_exchanges",
             "request_bytes", "response_bytes", "output_bytes"}

ASSUME RoutingAssumption ==
  /\ RoleOf \in [Selectors -> ROLES \ {"launcher"}]
  /\ Bounds \in [Selectors -> [COUNTERS \cup {"timeout"} -> Nat]]
  /\ \A s \in Selectors : Bounds[s].timeout > 0
  /\ Caps \in [COUNTERS -> Nat]
  /\ Negative \subseteq Selectors

VARIABLES
  live,                 \* the ledger of the owner
  rebuilt,              \* the one a replay of its saved events arrives at
  valid                 \* the replay has accepted every event

vars == <<live, rebuilt, valid>>

Requests(role) == IF role = "http_frontend" THEN "http_requests" ELSE "kex_exchanges"

\* _reserve: within what is left of the owner's budget and of the action's.
Fits(l, counter, amount) ==
  /\ l.counters[counter] + amount <= Caps[counter]
  /\ Action(l).counters[counter] + amount <= Bounds[Action(l).selector][counter]

BoundFrontend(l, m) == l.active # 0 /\ BoundAction(l, m, RoleOf[Action(l).selector])

BoundConnection(l, m) ==
  BoundFrontend(l, m) /\ l.connection # 0 /\ m.lease = Held(l)
-----------------------------------------------------------------------------
(***************************************************************************)
(* The operations, once the clock, the sequence and the deadlines have     *)
(* been looked at: when each is permitted, and what it does at what time.  *)
(***************************************************************************)
MayArm(l, m) ==
  /\ m.role = "launcher" /\ ~Unsettled(l)
  /\ \A n \in DOMAIN l.actions : l.actions[n].selector # m.selector
  /\ m.number = Len(l.actions) + 1 /\ Len(l.actions) < MaxActions
  /\ l.counters["output_bytes"] + Bounds[m.selector]["output_bytes"] <= Caps["output_bytes"]

\* The whole output of the action is reserved at once.
Armed(l, m, now) ==
  LET bound == Bounds[m.selector]
  IN  [l EXCEPT
        !.counters["output_bytes"] = @ + bound["output_bytes"],
        !.active = m.number,
        !.actions = Append(@,
          [selector |-> m.selector, deadline |-> Earlier(SESSION_US, now + bound.timeout),
           status |-> "active", connections_finished |-> 0, retained |-> 0,
           counters |-> [c \in COUNTERS |-> IF c = "output_bytes" THEN bound[c] ELSE 0]])]

MayFinishAction(l, m) ==
  /\ BoundAction(l, m, "launcher") /\ l.connection = 0
  /\ Action(l).connections_finished = Action(l).counters["connections"]
  /\ m.output <= Action(l).counters["output_bytes"]

\* A declared negative ends the owner, whatever its client reported.
FinishedAction(l, m) ==
  LET finished == [l EXCEPT !.active = 0,
         !.actions[l.active] = [@ EXCEPT !.status = "finished", !.retained = m.output]]
  IN  IF Action(l).selector \in Negative THEN Stop(finished, "declared_negative_completed")
      ELSE finished

MayConnect(l, m) ==
  /\ BoundFrontend(l, m) /\ l.connection = 0
  /\ m.local_id = Action(l).counters["connections"] + 1

Connected(l, m, now) ==
  [Reserved(l, "connections", 1) EXCEPT
     !.connection = m.local_id, !.requested = FALSE, !.admitted = now]

MayRequest(l, m) ==
  BoundConnection(l, m) /\ ~l.requested /\ Fits(l, Requests(m.role), 1)

\* A server may speak first, except over HTTP.
MayTransfer(l, m) ==
  /\ BoundConnection(l, m)
  /\ m.direction = "request_bytes" \/ m.role = "http_frontend" => l.requested
  /\ Fits(l, m.direction, m.bytes)

Disconnected(l) ==
  [l EXCEPT !.connection = 0, !.requested = FALSE,
            !.actions[l.active].connections_finished = @ + 1]

Permitted(l, m, now) ==
  CASE m.operation = "ARM"                -> MayArm(l, m)
    [] m.operation = "RESERVE_CONNECTION" -> MayConnect(l, m)
                                               /\ (TooSoon(l, now) \/ Fits(l, "connections", 1))
    [] m.operation = "RESERVE_REQUEST"    -> MayRequest(l, m)
    [] m.operation = "RESERVE_BYTES"      -> MayTransfer(l, m)
    [] m.operation = "FINISH_CONNECTION"  -> BoundConnection(l, m)
    [] m.operation = "FINISH_ACTION"      -> MayFinishAction(l, m)
    [] m.operation = "STOP"               -> StopAllowed(l, m)

Performed(l, m, now) ==
  CASE m.operation = "ARM"                -> Armed(l, m, now)
    [] m.operation = "RESERVE_CONNECTION" -> Connected(l, m, now)
    [] m.operation = "RESERVE_REQUEST"    -> [Reserved(l, Requests(m.role), 1) EXCEPT !.requested = TRUE]
    [] m.operation = "RESERVE_BYTES"      -> Reserved(l, m.direction, m.bytes)
    [] m.operation = "FINISH_CONNECTION"  -> Disconnected(l)
    [] m.operation = "FINISH_ACTION"      -> FinishedAction(l, m)
    [] m.operation = "STOP"               -> Stop(l, m.reason)
-----------------------------------------------------------------------------
(***************************************************************************)
(* apply, live and replayed.                                               *)
(***************************************************************************)
\* A message at a known time.  A sequence is consumed although its deadline has
\* passed; a deadline stops the owner, but not the settlement of what is open.
Answer(l, m, now) ==
  LET seen  == [l EXCEPT !.elapsed = now]
      taken == [seen EXCEPT !.sequences[m.role] = m.sequence]
      late  == IF l.terminal THEN "none" ELSE Late(l, now)
      ready == IF late = "none" THEN Quiet(taken) ELSE Stopped(taken, "clock_stop", late)
  IN  IF ~InOrder(l, m) THEN Denied(Quiet(seen), m, "refused")
      ELSE IF late # "none" /\ m.operation \notin CLEANUP_OPERATIONS
        THEN Denied(Quiet(taken), m, late)
      ELSE IF Permitted(ready.ledger, m, now)
        THEN Granted(ready, m, Performed(ready.ledger, m, now))
      ELSE Denied(ready, m, "refused")

\* As if a fault of the clock were one more refusal of the message.
ApplyFaultAsDenial(l, m, reading) ==
  IF AtCapacity(l) THEN CapacityStop(l)
  ELSE IF ClockFault(l, reading) # "none" THEN Denied(Quiet(l), m, ClockFault(l, reading))
  ELSE Answer(l, m, reading)

Apply(l, m, reading) ==
  IF AtCapacity(l) THEN CapacityStop(l)
  ELSE IF ClockFault(l, reading) # "none" THEN Stopped(l, "clock_stop", ClockFault(l, reading))
  ELSE Answer(l, m, reading)

\* _replay_snapshot: what the fresh ledger appends on one saved event.
Again(l, event) ==
  CASE event.kind = "message" ->
         IF Raises(l, event.message) THEN Quiet(l) ELSE Apply(l, event.message, event.at)
    [] event.kind = "owner_stop" -> Terminate(l, event.reason, event.at)
    [] event.kind = "capacity_stop" ->
         IF l.events < MAX_EVENTS[l.kind] - RESERVE THEN Quiet(l) ELSE CapacityStop(l)
    [] event.kind = "clock_stop" ->
         IF event.reason \in {"session_deadline", "action_deadline"}
         THEN CheckDeadline(l, event.at) ELSE Stopped(l, "clock_stop", event.reason)

Acceptable(l, event) ==
  /\ event.at >= l.elapsed
  /\ l.terminal => \/ event.kind = "clock_stop"
                   \/ event.kind = "message" /\ event.message.operation \in CLEANUP_OPERATIONS

Replayed(saved, event) ==
  LET outcome == Again([saved.ledger EXCEPT !.elapsed = event.at], event)
  IN  [ledger |-> outcome.ledger,
       valid  |-> saved.valid /\ Acceptable(saved.ledger, event) /\ outcome.log = <<event>>]

\* A call appends two events at most.
Replay(saved, log) ==
  IF log = <<>> THEN saved
  ELSE IF Len(log) = 1 THEN Replayed(saved, log[1])
  ELSE Replayed(Replayed(saved, log[1]), log[2])

Advance(outcome) ==
  LET saved == Replay([ledger |-> rebuilt, valid |-> valid], outcome.log)
  IN  live' = outcome.ledger /\ rebuilt' = saved.ledger /\ valid' = saved.valid
-----------------------------------------------------------------------------
(***************************************************************************)
(* Messages in their sequence, and the repetition of an old one.           *)
(***************************************************************************)
Bodies(l) ==
  [ARM                |-> [selector : Selectors],
   RESERVE_CONNECTION |-> [local_id : {1, 2}],
   RESERVE_REQUEST    |-> [lease : {Held(l), <<0, 0>>}],
   RESERVE_BYTES      |-> [lease : {Held(l)}, bytes : Sizes,
                           direction : {"request_bytes", "response_bytes"}],
   FINISH_CONNECTION  |-> [lease : {Held(l)}],
   FINISH_ACTION      |-> [output : {1, 2}],
   STOP               |-> [reason : {"completed"} \cup STOP_REASONS]]

Messages(l) ==
  UNION {With(Header(l, operation, role), Bodies(l)[operation]) :
           operation \in DOMAIN Bodies(l), role \in ROLES}

Repeated(l) ==
  {[m EXCEPT !.sequence = @ - 1] :
     m \in {n \in Messages(l) : n.operation \in {"STOP", "RESERVE_REQUEST"}}}

Receive ==
  \E m \in Messages(live) \cup Repeated(live), reading \in Readings(live) :
    ~Raises(live, m) /\ Advance(Apply(live, m, reading))

Poll == \E reading \in Readings(live) : ~live.terminal /\ Advance(CheckDeadline(live, reading))

\* An invalid packet terminates the owner too.
End ==
  \E reading \in Readings(live), reason \in {"completed"} \cup STOP_REASONS :
    ~live.terminal /\ Advance(Terminate(live, reason, reading))

Init ==
  /\ live = NewLedger("routing", ROLES, COUNTERS)
  /\ rebuilt = live /\ valid = TRUE

Next == Receive \/ Poll \/ End

Spec == Init /\ [][Next]_vars
-----------------------------------------------------------------------------
(***************************************************************************)
(* Property.                                                               *)
(***************************************************************************)
\* Whatever was received, refused or timed out, and whenever the snapshot is taken,
\* its replay accepts it: every event is reproduced, the observed time is before
\* every deadline of a live owner and is that of the last event of a stopped one,
\* and the rebuilt ledger is the saved one.
SnapshotsReplay ==
  /\ valid
  /\ IF live.terminal THEN live.elapsed = rebuilt.elapsed
                      ELSE Late(rebuilt, live.elapsed) = "none"
  /\ live = [rebuilt EXCEPT !.elapsed = live.elapsed]
=============================================================================
