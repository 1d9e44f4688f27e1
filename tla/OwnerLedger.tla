------------------------------ MODULE OwnerLedger -----------------------------
(***************************************************************************)
(* What the two accounting owners share (routing_ledger.py and             *)
(* name_tls_ledger.py): an elapsed time that only grows, a first reason to *)
(* stop that sticks, the deadlines of the session and of the action, and a *)
(* bounded log of events.                                                  *)
(*                                                                         *)
(* A ledger is a record, because a replay of the saved events rebuilds one *)
(* beside the live one.  Its log is kept as the number of its events; what *)
(* a call appends is part of the outcome of the call.                      *)
(***************************************************************************)
EXTENDS Integers, Sequences

CONSTANTS
  SESSION_US,           \* the deadline of the session
  RATE_US,              \* the time between two admissions
  MAX_EVENTS,           \* the length of the log, per kind of owner
  RESERVE,              \* CLEANUP_EVENT_RESERVE
  MaxActions,           \* the actions an owner may arm: 4, or 3
  Sizes,                \* how many bytes a message may reserve
  STOP_REASONS          \* EXTERNAL_STOP_REASONS without "completed"

ASSUME OwnerAssumption ==
  /\ SESSION_US \in Nat \ {0} /\ RATE_US \in Nat
  /\ MAX_EVENTS \in [{"routing", "name_tls"} -> Nat] /\ RESERVE \in Nat \ {0}
  /\ MaxActions \in Nat /\ Sizes \subseteq Nat \ {0}
  /\ STOP_REASONS \subseteq STRING

CLEANUP_OPERATIONS == {"FINISH_CONNECTION", "FINISH_ACTION", "STOP"}

\* Nothing happened yet to an owner of this kind, on the given roles and counters.
NewLedger(kind, roles, counters) ==
  [kind       |-> kind,
   elapsed    |-> 0,                               \* last observed time
   sequences  |-> [r \in roles |-> 0],             \* last sequence, per channel
   counters   |-> [c \in counters |-> 0],          \* everything reserved so far
   actions    |-> <<>>,                            \* every action ever armed
   active     |-> 0,                               \* the armed one, or 0
   connection |-> 0,                               \* local_id of the open one, or 0
   requested  |-> FALSE,                           \* its request is reserved
   admitted   |-> -1,                              \* time of the last admission, or -1
   events     |-> 0,
   terminal   |-> FALSE,
   reason     |-> "none"]

Action(l) == l.actions[l.active]

Unsettled(l) == l.active # 0 \/ l.connection # 0

Quiet(l) == [ledger |-> l, log |-> <<>>]

Put(outcome, event) ==
  [ledger |-> [outcome.ledger EXCEPT !.events = @ + 1], log |-> Append(outcome.log, event)]

\* _stop: the first reason stays.
Stop(l, reason) ==
  IF l.terminal THEN l ELSE [l EXCEPT !.terminal = TRUE, !.reason = reason]

Stopped(l, kind, reason) ==
  Put(Quiet(Stop(l, reason)), [kind |-> kind, at |-> l.elapsed, reason |-> reason])

\* Readings of the owner's clock, which is cut at the deadline of the session: one
\* before the last is refused, and one before the start is invalid.
Readings(l) == (l.elapsed - 1) .. SESSION_US

\* _now: why a reading of the clock is refused.
ClockFault(l, reading) ==
  IF reading < 0 THEN "owner_clock_invalid"
  ELSE IF reading < l.elapsed THEN "owner_clock_reversed" ELSE "none"

\* _time_check
Late(l, now) ==
  IF now >= SESSION_US THEN "session_deadline"
  ELSE IF l.active # 0 /\ now >= Action(l).deadline THEN "action_deadline" ELSE "none"

\* check_deadline: an idle owner polls it, and observes the time without an event.
CheckDeadline(l, reading) ==
  LET fault == ClockFault(l, reading)
      seen  == [l EXCEPT !.elapsed = reading]
  IN  IF l.terminal THEN Quiet(l)
      ELSE IF fault # "none" THEN Stopped(l, "clock_stop", fault)
      ELSE IF Late(l, reading) # "none" THEN Stopped(seen, "clock_stop", Late(l, reading))
      ELSE Quiet(seen)

\* Nothing that is unsettled is called completed.
MayStop(l, reason) == reason = "completed" => ~Unsettled(l)

\* terminate: after its own look at the clock.
Terminate(l, reason, reading) ==
  LET checked == CheckDeadline(l, reading)
  IN  IF checked.ledger.terminal \/ ~MayStop(l, reason) THEN checked
      ELSE Stopped(checked.ledger, "owner_stop", reason)

\* Apart from the settlement of what is open, the last events of the log are kept
\* free; and a log that is full takes no settlement either.
AtCapacity(l) == ~l.terminal /\ l.events >= MAX_EVENTS[l.kind] - RESERVE

CapacityStop(l) == Stopped(l, "capacity_stop", "ledger_limit")

Raises(l, message) ==
  /\ l.terminal
  /\ message.operation \notin CLEANUP_OPERATIONS \/ l.events >= MAX_EVENTS[l.kind]
-----------------------------------------------------------------------------
(***************************************************************************)
(* What the operations of both have in common.                             *)
(***************************************************************************)
Earlier(s, t) == IF s < t THEN s ELSE t

\* _message: what has no place in its channel does not consume a sequence.
InOrder(l, m) ==
  /\ m.sequence = l.sequences[m.role] + 1
  /\ m.number \in (IF m.operation = "STOP" THEN 0 ELSE 1) .. MaxActions

\* _bound_action
BoundAction(l, m, role) == l.active # 0 /\ m.number = l.active /\ m.role = role

Reserved(l, counter, amount) ==
  [l EXCEPT !.counters[counter] = @ + amount,
            !.actions[l.active].counters[counter] = @ + amount]

TooSoon(l, now) == l.admitted >= 0 /\ now - l.admitted < RATE_US

\* STOP names the last action.
StopAllowed(l, m) ==
  m.role = "launcher" /\ m.number = Len(l.actions) /\ MayStop(l, m.reason)

Reply(status, reason, retry) == [status |-> status, reason |-> reason, retry |-> retry]

Replied(outcome, m, reply) ==
  Put(outcome, [kind |-> "message", at |-> outcome.ledger.elapsed, message |-> m, reply |-> reply])

Denied(outcome, m, reason) ==
  Replied([outcome EXCEPT !.ledger = Stop(@, reason)], m, Reply("denied", reason, 0))

\* What was permitted has led to another ledger, or has to wait.
Granted(outcome, m, performed) ==
  LET l == outcome.ledger
  IN  IF m.operation = "RESERVE_CONNECTION" /\ TooSoon(l, l.elapsed)
      THEN Replied(outcome, m, Reply("wait", "admission_rate", RATE_US - (l.elapsed - l.admitted)))
      ELSE Replied([outcome EXCEPT !.ledger = performed], m, Reply("ok", "none", 0))

\* Who sends what; a settlement and a stop also come from the wrong side.
Sends(role, operation) ==
  \/ operation \in {"FINISH_CONNECTION", "STOP"}
  \/ role = "launcher" <=> operation \in {"ARM", "FINISH_ACTION"}

\* Messages in their sequence, about the present action, or the next one.
Header(l, operation, role) ==
  [operation : {operation}, role : {r \in {role} : Sends(r, operation)}, sequence : {l.sequences[role] + 1},
   number : {Len(l.actions)} \cup IF role = "launcher" THEN {Len(l.actions) + 1} ELSE {}]

\* A record with the fields of both.
Joined(r, s) ==
  [field \in DOMAIN r \cup DOMAIN s |-> IF field \in DOMAIN r THEN r[field] ELSE s[field]]

With(headers, fields) == {Joined(h, f) : h \in headers, f \in fields}

Held(l) == <<l.active, l.connection>>
=============================================================================
