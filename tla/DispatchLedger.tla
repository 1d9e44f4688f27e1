--------------------------- MODULE DispatchLedger ---------------------------
(***************************************************************************)
(* The durable dispatch ledger of one engagement: the transition engine    *)
(* `_Engine` of engagement_dispatch_contract.py.                           *)
(*                                                                         *)
(* An engagement has numbered rules of engagement (ROE revisions).  A      *)
(* client declares a session under the rules in force, reserves at most    *)
(* one dispatch for each of the two slots of the session's plan, and later *)
(* reports what became of it.  A reservation charges its full fixed cost   *)
(* to the engagement for ever.                                             *)
(*                                                                         *)
(* A request that the engine refuses raises an error and changes nothing,  *)
(* so an action is enabled exactly when the request it stands for is       *)
(* recorded.  Times are numbers of one unit: a nanosecond and a            *)
(* millisecond count alike.  Digests, field formats and byte limits are    *)
(* left out: none of them changes which request is recorded.               *)
(***************************************************************************)
EXTENDS Integers, Sequences, FiniteSets, FiniteSetsExt

CONSTANTS
  EventIds, SessionIds, DispatchIds, Owners,  \* identifiers
  Approvals,        \* pairs of a broker and its consume sequence
  Audits,           \* pairs of an audit writer and its audit sequence
  Roes,             \* rules of engagement a request may carry
  Clocks,           \* clock observations a request may carry
  Deadlines,        \* deadlines a session may ask for
  Outcomes,         \* outcomes a completion may report
  Observations,     \* observations it may carry
  None              \* Python's None

CONSTANTS
  CLOCK_TOLERANCE, SESSION_NS, SLOT_RUNTIME, INTEGER_MAX,
  MAX_REVISIONS, MAX_SESSIONS, MAX_RESERVATIONS, MAX_COMPLETIONS, MAX_EVENTS

Caps == {"actions", "connections", "request_bytes", "response_bytes", "runtime_ms"}

ObservedCaps == {"connections", "request_bytes", "response_bytes"}

Slots == {"http_identify", "http_headers"}

\* What validate_roe and validate_clock let through, and the module's bounds.
ASSUME RoesAssumption ==
  \A roe \in Roes :
    /\ roe.start \in Nat /\ roe.end \in Nat /\ roe.start < roe.end
    /\ roe.supported \in BOOLEAN
    /\ roe.max_action_ms \in Nat \ {0}
    /\ roe.limits \in [Caps -> Nat]

ASSUME ClocksAssumption ==
  \A clock \in Clocks :
    /\ clock.utc \in Nat /\ clock.before \in Nat /\ clock.after \in Nat
    /\ clock.before <= clock.after
    /\ clock.after - clock.before <= CLOCK_TOLERANCE

ASSUME BoundsAssumption ==
  /\ Deadlines \subseteq Nat
  /\ CLOCK_TOLERANCE \in Nat /\ SESSION_NS \in Nat /\ INTEGER_MAX \in Nat
  /\ SLOT_RUNTIME \in Nat
  /\ MAX_REVISIONS \in Nat \ {0} /\ MAX_SESSIONS \in Nat /\ MAX_RESERVATIONS \in Nat
  /\ MAX_COMPLETIONS \in Nat /\ MAX_EVENTS \in Nat

ASSUME ReportsAssumption ==
  /\ Outcomes \subseteq {"reported_success", "reported_failure", "cancelled", "unresolved"}
  /\ None \notin Observations
  /\ None \notin Clocks
  /\ Observations \subseteq [ObservedCaps -> Nat]

\* Every completion has a reservation, and one create and one revoke exist.
ASSUME CapacityAssumption ==
  /\ MAX_COMPLETIONS >= MAX_RESERVATIONS
  /\ MAX_EVENTS >= MAX_REVISIONS + 1 + MAX_SESSIONS + MAX_RESERVATIONS + MAX_COMPLETIONS

VARIABLES
  revision, generation, status,   \* the rules in force and whether they were revoked
  usage,                          \* lifetime total charged, per cap
  utc_high_water,                 \* largest UTC ever recorded, -1 before the first
  revisions,                      \* the sequence of recorded ROEs
  sessions, reservations, completions,  \* immutable rows
  clocks,                         \* the last clock recorded for each session
  events                          \* the recorded requests with their sequence numbers

state == <<revision, generation, status, usage, utc_high_water>>
rows  == <<revisions, sessions, reservations, completions>>
vars  == <<state, rows, clocks, events>>
-----------------------------------------------------------------------------
(***************************************************************************)
(* Costs and clocks.                                                       *)
(***************************************************************************)
MaxOf(a, b) == IF a >= b THEN a ELSE b
MinOf(a, b) == IF a <= b THEN a ELSE b

\* _add refuses a sum that leaves the 63-bit range.
Fits(n) == n \in 0 .. INTEGER_MAX

SlotCost(slot, cap) ==
  CASE cap = "actions"        -> 1
    [] cap = "connections"    -> IF slot = "http_identify" THEN 3 ELSE 1
    [] cap = "request_bytes"  -> IF slot = "http_identify" THEN 4096 ELSE 256
    [] cap = "response_bytes" -> IF slot = "http_identify" THEN 4096 ELSE 2048

Reservation(roe, slot) ==
  [cap \in Caps |-> IF cap = "runtime_ms"
                    THEN MinOf(SLOT_RUNTIME, roe.max_action_ms)
                    ELSE SlotCost(slot, cap)]

WindowOpen(roe, clock) ==
  /\ roe.start <= clock.utc
  /\ clock.utc + (clock.after - clock.before) < roe.end

\* The monotonic instant at which the window certainly ends.
WindowEnd(roe, clock) == clock.before + (roe.end - clock.utc)

\* The clock is behind what the ledger has already seen.
Rewound(clock) == clock.utc + CLOCK_TOLERANCE < utc_high_water

\* UTC moved by an amount that the monotonic clock does not explain.
Drifted(clock, previous) ==
  LET delta == clock.utc - previous.utc
  IN  \/ delta < clock.before - previous.after - CLOCK_TOLERANCE
      \/ delta > clock.after - previous.before + CLOCK_TOLERANCE

ClockStatus(roe, clock, previous, deadline) ==
  IF clock.before < previous.after THEN "nonmonotonic"
  ELSE IF ~WindowOpen(roe, clock) THEN "window_closed"
  ELSE IF Rewound(clock) \/ Drifted(clock, previous) THEN "clock_changed"
  ELSE IF clock.after >= deadline THEN "deadline_elapsed"
  ELSE "valid"
-----------------------------------------------------------------------------
(***************************************************************************)
(* Steps that every recorded request shares.                               *)
(***************************************************************************)
Absent == revisions = <<>>

\* The request is new and its event fits.
Fresh(event) == /\ event \notin {e.event_id : e \in events}
                /\ Cardinality(events) < MAX_EVENTS

ExpectsWithoutStatus(pair) == pair = <<revision, generation>>

\* Nothing was revoked, and the compare-and-swap pair is the current one.
Expects(pair) == status = "recorded" /\ pair = <<revision, generation>>

\* Append the request as the next event; its receipt is the state it leaves.
Record(event, request) ==
  events' = events \cup
    {[event_id |-> event, sequence |-> Cardinality(events) + 1, request |-> request,
      receipt |-> [revision |-> revision', generation |-> generation',
                   status |-> status', usage |-> usage']]}

\* The tail of push for a request that carries a clock.
Observe(session, clock) ==
  /\ utc_high_water' = MaxOf(utc_high_water, clock.utc)
  /\ clocks' = [clocks EXCEPT ![session] = clock]

Init ==
  /\ revision = 0 /\ generation = 0 /\ status = "absent"
  /\ usage = [cap \in Caps |-> 0]
  /\ utc_high_water = -1
  /\ revisions = <<>> /\ sessions = {} /\ reservations = {} /\ completions = {}
  /\ clocks = [s \in SessionIds |-> None]
  /\ events = {}

\* push, first request.
Create(event, roe) ==
  /\ Absent
  /\ revision' = 1 /\ generation' = 0 /\ status' = "recorded"
  /\ revisions' = <<roe>>
  /\ UNCHANGED <<usage, utc_high_water, sessions, reservations, completions, clocks>>
  /\ Record(event, [operation |-> "create", roe |-> roe])

\* push, operation revise.
Revise(event, expected, roe) ==
  /\ ~Absent /\ Fresh(event) /\ Expects(expected)
  /\ Len(revisions) < MAX_REVISIONS
  /\ revision' = revision + 1 /\ generation' = generation + 1
  /\ revisions' = Append(revisions, roe)
  /\ UNCHANGED <<status, usage, utc_high_water, sessions, reservations, completions, clocks>>
  /\ Record(event, [operation |-> "revise", expected |-> expected, roe |-> roe])

\* push, operation revoke.
Revoke(event, expected) ==
  /\ ~Absent /\ Fresh(event) /\ Expects(expected)
  /\ generation' = generation + 1 /\ status' = "revoked"
  /\ UNCHANGED <<revision, usage, utc_high_water, rows, clocks>>
  /\ Record(event, [operation |-> "revoke", expected |-> expected])
-----------------------------------------------------------------------------
\* _session: declare a session under the rules in force.
Session(event, expected, id, owner, clock, original) ==
  LET roe == revisions[revision]
  IN  /\ ~Absent /\ Fresh(event) /\ Expects(expected)
      /\ id \notin {s.session_id : s \in sessions}
      /\ Cardinality(sessions) < MAX_SESSIONS
      /\ roe.supported
      /\ WindowOpen(roe, clock) /\ Fits(WindowEnd(roe, clock))
      /\ ~Rewound(clock)
      /\ clock.after < original
      /\ Fits(clock.after + SESSION_NS) /\ original <= clock.after + SESSION_NS
      /\ sessions' = sessions \cup
           {[session_id |-> id, owner_id |-> owner, revision |-> revision,
             generation |-> generation, clock |-> clock, original |-> original,
             deadline |-> MinOf(original, WindowEnd(roe, clock))]}
      /\ Observe(id, clock)
      /\ UNCHANGED <<revision, generation, status, usage,
                     revisions, reservations, completions>>
      /\ Record(event, [operation |-> "session", expected |-> expected, session_id |-> id,
                        owner_id |-> owner, clock |-> clock, original |-> original])

\* _owned_session: the session rows that a request of `owner` for `id` may use.
OwnedSession(id, owner) == {s \in sessions : s.session_id = id /\ s.owner_id = owner}

PredecessorsOfAnyOutcome(id) ==
  {c \in completions : \E r \in reservations : /\ r.session_id = id
                                               /\ r.slot = "http_identify"
                                               /\ r.dispatch_id = c.dispatch_id}

\* The eligible completions of the session's identify slot.
Predecessors(id) ==
  {c \in completions : /\ c.continuation_eligible
                       /\ \E r \in reservations : /\ r.session_id = id
                                                  /\ r.slot = "http_identify"
                                                  /\ r.dispatch_id = c.dispatch_id}

\* When the slot became ready: at registration, or when its predecessor ended.
ReadyTimes(session, slot) ==
  IF slot = "http_identify" THEN {session.clock.after}
  ELSE {c.clock.after : c \in Predecessors(session.session_id)}

\* The dispatch, the slot, the approval and the audit record are all unused.
Unspent(dispatch, id, slot, approval, audit) ==
  \A r \in reservations :
    /\ r.dispatch_id # dispatch
    /\ ~(r.session_id = id /\ r.slot = slot)
    /\ r.approval # approval
    /\ r.audit # audit

Charged(cost) == [cap \in Caps |-> usage[cap] + cost[cap]]

WithinLimits(total, roe) == \A cap \in Caps : total[cap] <= roe.limits[cap]

\* The session was registered under the rules in force.
CurrentSession(session) == <<session.revision, session.generation>> = <<revision, generation>>

\* _reserve: charge the slot's full cost and spend one approval and one audit.
Reserve(event, expected, id, owner, clock, dispatch, slot, approval, audit) ==
  /\ ~Absent /\ Fresh(event) /\ Expects(expected)
  /\ Cardinality(reservations) < MAX_RESERVATIONS
  /\ Unspent(dispatch, id, slot, approval, audit)
  /\ \E session \in OwnedSession(id, owner) :
     \E ready \in ReadyTimes(session, slot) :
       LET roe      == revisions[session.revision]
           cost     == Reservation(roe, slot)
           deadline == MinOf(session.deadline,
                             MinOf(ready + cost["runtime_ms"], WindowEnd(roe, clock)))
       IN  /\ CurrentSession(session)
           /\ ClockStatus(roe, clock, clocks[id], session.deadline) = "valid"
           /\ Fits(ready + cost["runtime_ms"]) /\ Fits(WindowEnd(roe, clock))
           /\ clock.after < deadline
           /\ WithinLimits(Charged(cost), roe)
           /\ reservations' = reservations \cup
                {[dispatch_id |-> dispatch, session_id |-> id, owner_id |-> owner,
                  revision |-> session.revision, generation |-> session.generation,
                  slot |-> slot, approval |-> approval, audit |-> audit, clock |-> clock,
                  ready |-> ready, deadline |-> deadline, cost |-> cost]}
           /\ usage' = Charged(cost)
  /\ Observe(id, clock)
  /\ UNCHANGED <<revision, generation, status, revisions, sessions, completions>>
  /\ Record(event, [operation |-> "reserve", expected |-> expected, session_id |-> id,
                    owner_id |-> owner, clock |-> clock, dispatch_id |-> dispatch,
                    slot |-> slot, approval |-> approval, audit |-> audit])

\* What validate_request asks of a reported outcome.
WellReported(outcome, observation) ==
  outcome = "reported_success" =>
    observation # None /\ \A cap \in ObservedCaps : observation[cap] > 0

MaybeCompleted(dispatch) == TRUE

Uncompleted(dispatch) == dispatch \notin {c.dispatch_id : c \in completions}

\* _complete: record a report.  It needs neither current rules nor room to spend.
Complete(event, id, owner, clock, dispatch, outcome, observation) ==
  /\ ~Absent /\ Fresh(event)
  /\ WellReported(outcome, observation)
  /\ Uncompleted(dispatch)
  /\ Cardinality(completions) < MAX_COMPLETIONS
  /\ \E session \in OwnedSession(id, owner) :
     \E reserved \in {r \in reservations : r.dispatch_id = dispatch /\ r.session_id = id} :
       LET clock_status == ClockStatus(revisions[reserved.revision], clock, clocks[id],
                                       MinOf(reserved.deadline, session.deadline))
       IN  /\ observation # None =>
                \A cap \in ObservedCaps : observation[cap] <= reserved.cost[cap]
           /\ completions' = completions \cup
                {[dispatch_id |-> dispatch, session_id |-> id, outcome |-> outcome,
                  observation |-> observation, clock |-> clock, clock_status |-> clock_status,
                  continuation_eligible |->
                    /\ reserved.slot = "http_identify"
                    /\ outcome = "reported_success"
                    /\ status = "recorded"
                    /\ clock_status = "valid"
                    /\ CurrentSession(reserved)]}
  /\ Observe(id, clock)
  /\ UNCHANGED <<revision, generation, status, usage, revisions, sessions, reservations>>
  /\ Record(event, [operation |-> "complete", session_id |-> id, owner_id |-> owner,
                    clock |-> clock, dispatch_id |-> dispatch, outcome |-> outcome,
                    observation |-> observation])
-----------------------------------------------------------------------------
\* A request with any other pair is refused.
Pairs == {<<revision, generation>>}

Creates == \E event \in EventIds, roe \in Roes : Create(event, roe)

Revises == \E event \in EventIds, expected \in Pairs, roe \in Roes : Revise(event, expected, roe)

Revokes == \E event \in EventIds, expected \in Pairs : Revoke(event, expected)

Registers ==
  \E event \in EventIds, expected \in Pairs, id \in SessionIds, owner \in Owners,
     clock \in Clocks, original \in Deadlines :
    Session(event, expected, id, owner, clock, original)

Reserves ==
  \E event \in EventIds, expected \in Pairs, id \in SessionIds, owner \in Owners,
     clock \in Clocks, dispatch \in DispatchIds, slot \in Slots,
     approval \in Approvals, audit \in Audits :
    Reserve(event, expected, id, owner, clock, dispatch, slot, approval, audit)

Completes ==
  \E event \in EventIds, id \in SessionIds, owner \in Owners, clock \in Clocks,
     dispatch \in DispatchIds, outcome \in Outcomes, observation \in Observations \cup {None} :
    Complete(event, id, owner, clock, dispatch, outcome, observation)

Next == Creates \/ Revises \/ Revokes \/ Registers \/ Reserves \/ Completes

Spec == Init /\ [][Next]_vars
-----------------------------------------------------------------------------
(***************************************************************************)
(* Properties.                                                             *)
(***************************************************************************)

StateOK ==
  /\ revision \in 0 .. MAX_REVISIONS
  /\ generation \in 0 .. MAX_REVISIONS
  /\ status \in {"absent", "recorded", "revoked"}
  /\ usage \in [Caps -> Nat]
  /\ utc_high_water \in Nat \cup {-1}
  /\ revisions \in Seq(Roes)
  /\ clocks \in [SessionIds -> Clocks \cup {None}]

SessionsOK ==
  /\ IsFiniteSet(sessions)
  /\ \A s \in sessions :
       /\ s.session_id \in SessionIds /\ s.owner_id \in Owners
       /\ s.revision \in 1 .. revision /\ s.generation \in Nat
       /\ s.clock \in Clocks /\ s.original \in Deadlines /\ s.deadline \in Int

ReservationsOK ==
  /\ IsFiniteSet(reservations)
  /\ \A r \in reservations :
       /\ r.dispatch_id \in DispatchIds /\ r.session_id \in SessionIds
       /\ r.owner_id \in Owners /\ r.slot \in Slots
       /\ r.revision \in 1 .. revision /\ r.generation \in Nat
       /\ r.approval \in Approvals /\ r.audit \in Audits /\ r.clock \in Clocks
       /\ r.ready \in Nat /\ r.deadline \in Int /\ r.cost \in [Caps -> Nat]

CompletionsOK ==
  /\ IsFiniteSet(completions)
  /\ \A c \in completions :
       /\ c.dispatch_id \in DispatchIds /\ c.session_id \in SessionIds
       /\ c.outcome \in Outcomes /\ c.observation \in Observations \cup {None}
       /\ c.clock \in Clocks /\ c.continuation_eligible \in BOOLEAN

EventsOK ==
  /\ IsFiniteSet(events)
  /\ \A e \in events : e.event_id \in EventIds /\ e.sequence \in Nat

\* The ledger's state and rows keep their types; a row names a recorded revision,
\* and no generation exceeds the number of revisions that the schema allows.
TypeOK == StateOK /\ SessionsOK /\ ReservationsOK /\ CompletionsOK /\ EventsOK

\* One approval, one audit record and one slot of a session are spent by one
\* dispatch at most, over all sessions, revisions and owners.
SpentOnce ==
  \A r, q \in reservations :
    \/ r.dispatch_id = q.dispatch_id
    \/ r.approval = q.approval
    \/ r.audit = q.audit
    \/ r.session_id = q.session_id /\ r.slot = q.slot
    => r = q

\* The follow-up slot is reserved only after its session's identify dispatch was
\* reported a success, in time, under the very rules the follow-up runs under.
HeadersFollowEligibleIdentify ==
  \A h \in reservations : h.slot = "http_headers" =>
    \E i \in reservations, c \in completions :
      /\ i.slot = "http_identify" /\ i.session_id = h.session_id
      /\ c.dispatch_id = i.dispatch_id
      /\ c.outcome = "reported_success" /\ c.clock_status = "valid"
      /\ <<i.revision, i.generation, i.owner_id>> = <<h.revision, h.generation, h.owner_id>>
      /\ h.ready = c.clock.after
      /\ i.clock.after <= c.clock.before /\ c.clock.after <= h.clock.before

\* No session or reservation is recorded with a UTC that is behind any clock
\* recorded before it, in whatever session, by more than the tolerance.
Timed == {e \in events : e.request.operation \in {"session", "reserve", "complete"}}

UtcNeverRollsBack ==
  \A e, f \in Timed :
    (e.sequence < f.sequence /\ f.request.operation # "complete")
      => e.request.clock.utc <= f.request.clock.utc + CLOCK_TOLERANCE

\* Every event is accounted for by a row, so the event bound of the code is never
\* what stops a report: a reservation can always be completed.
EventsAccountForRows ==
  /\ Cardinality(events) =
       Len(revisions) + (IF status = "revoked" THEN 1 ELSE 0) + Cardinality(sessions)
         + Cardinality(reservations) + Cardinality(completions)
  /\ (\E r \in reservations : Uncompleted(r.dispatch_id)) =>
       /\ Cardinality(events) < MAX_EVENTS
       /\ Cardinality(completions) < MAX_COMPLETIONS

\* After a revocation only reports are recorded: nothing is spent, no session
\* opens and the rules stay as they are.
RevokedOnlyReports ==
  [][status = "revoked" =>
       /\ UNCHANGED <<revision, generation, status, usage>>
       /\ UNCHANGED <<revisions, sessions, reservations>>]_vars

\* A reservation is only ever added under the rules in force, for a session
\* registered under them: a revision in between voids the session.
NoSpendUnderOldRules ==
  [][\A r \in reservations' \ reservations :
       /\ <<r.revision, r.generation>> = <<revision, generation>>
       /\ \E s \in sessions : /\ s.session_id = r.session_id
                              /\ <<s.revision, s.generation>> = <<revision, generation>>]_vars

\* The ledger is a spending authority: status, the limits of the revision in
\* force and the usage are its phase, limits and spending.
Authority == INSTANCE SpendingAuthority WITH
  Resources <- Caps,
  Limits <- {roe.limits : roe \in Roes},
  phase <- CASE status = "absent"   -> "unset"
             [] status = "recorded" -> "open"
             [] status = "revoked"  -> "closed",
  limit <- IF Absent THEN [cap \in Caps |-> 0] ELSE revisions[revision].limits,
  spent <- usage

ImplementsAuthority == Authority!Spec
=============================================================================
