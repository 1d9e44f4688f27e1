------------------------ MODULE DispatchLedgerProofs ------------------------
(***************************************************************************)
(* Theorems about DispatchLedger, for every value of its constants.        *)
(***************************************************************************)
EXTENDS DispatchLedger, FiniteSetTheorems, TLAPS

(***************************************************************************)
(* The rules in force are the last recorded ones, and the generation       *)
(* counts the revisions and the revocation.  TypeOK alone is not inductive *)
(* because the bound of the generation needs this.                         *)
(***************************************************************************)
RulesInForce ==
  /\ revision = Len(revisions) /\ Len(revisions) <= MAX_REVISIONS
  /\ status = "absent" <=> revision = 0
  /\ status = "absent" => /\ generation = 0 /\ sessions = {} /\ reservations = {}
                          /\ completions = {} /\ events = {}
  /\ status = "recorded" => generation = revision - 1
  /\ status = "revoked" => generation = revision

TypeInv == TypeOK /\ RulesInForce

\* The types that each action's proof expands.
LEMMA ReservationType ==
  ASSUME NEW roe \in Roes, NEW slot \in Slots
  PROVE  Reservation(roe, slot) \in [Caps -> Nat]
  BY RoesAssumption, BoundsAssumption DEF Reservation, SlotCost, MinOf, Caps, Slots

\* Appending an event keeps the events finite and typed.
LEMMA RecordType ==
  ASSUME EventsOK, NEW event \in EventIds, NEW request, Record(event, request)
  PROVE  EventsOK'
<1>1. Cardinality(events) \in Nat
  BY FS_CardinalityType DEF EventsOK
<1>2. IsFiniteSet(events')
  BY FS_AddElement DEF EventsOK, Record
<1> QED BY <1>1, <1>2 DEF EventsOK, Record

LEMMA InitTypeInv == Init => TypeInv
  BY FS_EmptySet, BoundsAssumption
  DEF Init, TypeInv, TypeOK, StateOK, SessionsOK, ReservationsOK, CompletionsOK, EventsOK,
      RulesInForce, Caps

LEMMA CreateTypeInv ==
  ASSUME TypeInv, NEW event \in EventIds, NEW roe \in Roes, Create(event, roe)
  PROVE  TypeInv'
<1>1. EventsOK'
  BY RecordType DEF Create, TypeInv, TypeOK
<1>2. StateOK' /\ RulesInForce'
  BY BoundsAssumption DEF TypeInv, TypeOK, StateOK, RulesInForce, Create, Absent
<1>3. SessionsOK' /\ ReservationsOK' /\ CompletionsOK'
  BY FS_EmptySet, <1>2
  DEF TypeInv, TypeOK, StateOK, SessionsOK, ReservationsOK, CompletionsOK,
      RulesInForce, Create, Absent
<1> QED BY <1>1, <1>2, <1>3 DEF TypeInv, TypeOK

LEMMA ReviseTypeInv ==
  ASSUME TypeInv, NEW event \in EventIds, NEW expected, NEW roe \in Roes,
         Revise(event, expected, roe)
  PROVE  TypeInv'
<1>1. EventsOK'
  BY RecordType DEF Revise, TypeInv, TypeOK
<1>2. StateOK' /\ RulesInForce'
  BY BoundsAssumption DEF TypeInv, TypeOK, StateOK, RulesInForce, Revise, Absent, Expects
<1>3. SessionsOK' /\ ReservationsOK' /\ CompletionsOK'
  BY DEF TypeInv, TypeOK, StateOK, SessionsOK, ReservationsOK, CompletionsOK, Revise
<1> QED BY <1>1, <1>2, <1>3 DEF TypeInv, TypeOK

LEMMA RevokeTypeInv ==
  ASSUME TypeInv, NEW event \in EventIds, NEW expected, Revoke(event, expected)
  PROVE  TypeInv'
<1>1. EventsOK'
  BY RecordType DEF Revoke, TypeInv, TypeOK
<1>2. StateOK' /\ RulesInForce'
  BY BoundsAssumption
  DEF TypeInv, TypeOK, StateOK, RulesInForce, Revoke, Absent, Expects, rows
<1>3. SessionsOK' /\ ReservationsOK' /\ CompletionsOK'
  BY DEF TypeInv, TypeOK, SessionsOK, ReservationsOK, CompletionsOK, Revoke, rows
<1> QED BY <1>1, <1>2, <1>3 DEF TypeInv, TypeOK

\* A request that carries a clock keeps the ledger's clocks typed.
LEMMA ObserveType ==
  ASSUME StateOK, NEW id \in SessionIds, NEW clock \in Clocks, Observe(id, clock)
  PROVE  /\ utc_high_water' \in Nat \cup {-1}
         /\ clocks' \in [SessionIds -> Clocks \cup {None}]
  BY ClocksAssumption DEF StateOK, Observe, MaxOf

LEMMA SessionTypeInv ==
  ASSUME TypeInv, NEW event \in EventIds, NEW expected, NEW id \in SessionIds,
         NEW owner \in Owners, NEW clock \in Clocks, NEW original \in Deadlines,
         Session(event, expected, id, owner, clock, original)
  PROVE  TypeInv'
<1>1. EventsOK'
  BY RecordType DEF Session, TypeInv, TypeOK
<1>2. StateOK' /\ RulesInForce'
  BY ObserveType
  DEF TypeInv, TypeOK, StateOK, RulesInForce, Session, Absent, Expects
<1>3. SessionsOK'
  <2>1. revision \in 1 .. revision /\ revisions[revision] \in Roes
    BY DEF TypeInv, TypeOK, StateOK, RulesInForce, Session, Absent
  <2>2. MinOf(original, WindowEnd(revisions[revision], clock)) \in Int
    BY <2>1, RoesAssumption, ClocksAssumption, BoundsAssumption DEF MinOf, WindowEnd
  <2>3. IsFiniteSet(sessions')
    BY FS_AddElement DEF Session, TypeInv, TypeOK, SessionsOK
  <2> QED
    BY <2>1, <2>2, <2>3 DEF Session, TypeInv, TypeOK, StateOK, SessionsOK
<1>4. ReservationsOK' /\ CompletionsOK'
  BY DEF TypeInv, TypeOK, ReservationsOK, CompletionsOK, Session
<1> QED BY <1>1, <1>2, <1>3, <1>4 DEF TypeInv, TypeOK

LEMMA ReserveTypeInv ==
  ASSUME TypeInv, NEW event \in EventIds, NEW expected, NEW id \in SessionIds,
         NEW owner \in Owners, NEW clock \in Clocks, NEW dispatch \in DispatchIds,
         NEW slot \in Slots, NEW approval \in Approvals, NEW audit \in Audits,
         Reserve(event, expected, id, owner, clock, dispatch, slot, approval, audit)
  PROVE  TypeInv'
<1> DEFINE Cost(session)   == Reservation(revisions[session.revision], slot)
           Until(session, ready) ==
             MinOf(session.deadline, MinOf(ready + Cost(session)["runtime_ms"],
                                           WindowEnd(revisions[session.revision], clock)))
<1> DEFINE Reserved(session, ready) ==
        /\ reservations' = reservations \cup
             {[dispatch_id |-> dispatch, session_id |-> id, owner_id |-> owner,
               revision |-> session.revision, generation |-> session.generation,
               slot |-> slot, approval |-> approval, audit |-> audit, clock |-> clock,
               ready |-> ready, deadline |-> Until(session, ready), cost |-> Cost(session)]}
        /\ usage' = Charged(Cost(session))
<1>0. PICK session \in OwnedSession(id, owner) :
        \E ready \in ReadyTimes(session, slot) : Reserved(session, ready)
  BY DEF Reserve
<1>1. PICK ready \in ReadyTimes(session, slot) : Reserved(session, ready)
  BY <1>0
<1>2. session \in sessions /\ revisions[session.revision] \in Roes
      /\ session.revision \in 1 .. revision
  BY DEF OwnedSession, TypeInv, TypeOK, StateOK, SessionsOK, RulesInForce
<1>3. Cost(session) \in [Caps -> Nat]
  BY <1>2, ReservationType
<1>4. ready \in Nat
  BY <1>2, ClocksAssumption
  DEF ReadyTimes, Predecessors, TypeInv, TypeOK, SessionsOK, CompletionsOK
<1>5. Until(session, ready) \in Int
  <2>1. Cost(session)["runtime_ms"] \in Nat
    BY <1>3 DEF Caps
  <2>2. WindowEnd(revisions[session.revision], clock) \in Int
    BY <1>2, RoesAssumption, ClocksAssumption DEF WindowEnd
  <2>3. session.deadline \in Int
    BY <1>2 DEF TypeInv, TypeOK, SessionsOK
  <2> QED BY <1>4, <2>1, <2>2, <2>3 DEF MinOf
<1>6. EventsOK'
  BY RecordType DEF Reserve, TypeInv, TypeOK
<1>7. usage' \in [Caps -> Nat]
  BY <1>1, <1>3 DEF Charged, TypeInv, TypeOK, StateOK
<1>8. StateOK' /\ RulesInForce'
  BY <1>7, ObserveType
  DEF TypeInv, TypeOK, StateOK, RulesInForce, Reserve, Absent, Expects
<1>9. ReservationsOK'
  <2> HIDE DEF Until, Cost
  <2>1. IsFiniteSet(reservations')
    BY <1>1, FS_AddElement DEF TypeInv, TypeOK, ReservationsOK
  <2>2. revision' = revision
    BY DEF Reserve
  <2>3. session.generation \in Nat
    BY <1>2 DEF TypeInv, TypeOK, SessionsOK
  <2> QED
    BY <1>1, <1>2, <1>3, <1>4, <1>5, <2>1, <2>2, <2>3 DEF TypeInv, TypeOK, ReservationsOK
<1>10. SessionsOK' /\ CompletionsOK'
  BY DEF TypeInv, TypeOK, SessionsOK, CompletionsOK, Reserve
<1> QED BY <1>6, <1>8, <1>9, <1>10 DEF TypeInv, TypeOK

LEMMA CompleteTypeInv ==
  ASSUME TypeInv, NEW event \in EventIds, NEW id \in SessionIds, NEW owner \in Owners,
         NEW clock \in Clocks, NEW dispatch \in DispatchIds, NEW outcome \in Outcomes,
         NEW observation \in Observations \cup {None},
         Complete(event, id, owner, clock, dispatch, outcome, observation)
  PROVE  TypeInv'
<1> DEFINE Row(clock_status, eligible) ==
             [dispatch_id |-> dispatch, session_id |-> id, outcome |-> outcome,
              observation |-> observation, clock |-> clock, clock_status |-> clock_status,
              continuation_eligible |-> eligible]
<1>0. PICK clock_status :
        \E eligible \in BOOLEAN : completions' = completions \cup {Row(clock_status, eligible)}
  BY DEF Complete
<1>1. PICK eligible \in BOOLEAN : completions' = completions \cup {Row(clock_status, eligible)}
  BY <1>0
<1>2. EventsOK'
  BY RecordType DEF Complete, TypeInv, TypeOK
<1>3. StateOK' /\ RulesInForce'
  BY ObserveType
  DEF TypeInv, TypeOK, StateOK, RulesInForce, Complete, Absent
<1>4. CompletionsOK'
  <2>1. IsFiniteSet(completions')
    <3> HIDE DEF Row
    <3> QED BY <1>1, FS_AddElement DEF TypeInv, TypeOK, CompletionsOK
  <2> QED BY <1>1, <2>1 DEF TypeInv, TypeOK, CompletionsOK
<1>5. SessionsOK' /\ ReservationsOK'
  BY DEF TypeInv, TypeOK, SessionsOK, ReservationsOK, Complete
<1> QED BY <1>2, <1>3, <1>4, <1>5 DEF TypeInv, TypeOK

LEMMA NextTypeInv == TypeInv /\ [Next]_vars => TypeInv'
<1> SUFFICES ASSUME TypeInv, [Next]_vars PROVE TypeInv'
  OBVIOUS
<1>1. CASE Creates
  BY <1>1, CreateTypeInv DEF Creates
<1>2. CASE Revises
  BY <1>2, ReviseTypeInv DEF Revises
<1>3. CASE Revokes
  BY <1>3, RevokeTypeInv DEF Revokes
<1>4. CASE Registers
  BY <1>4, SessionTypeInv DEF Registers
<1>5. CASE Reserves
  BY <1>5, ReserveTypeInv DEF Reserves
<1>6. CASE Completes
  BY <1>6, CompleteTypeInv DEF Completes
<1>7. CASE UNCHANGED vars
  BY <1>7 DEF vars, state, rows, TypeInv, TypeOK, StateOK, SessionsOK, ReservationsOK,
              CompletionsOK, EventsOK, RulesInForce
<1> QED BY <1>1, <1>2, <1>3, <1>4, <1>5, <1>6, <1>7 DEF Next

\* The ledger is well typed in every reachable state; a session or reservation
\* names a revision that was recorded, and the generation stays within the bound
\* of the database schema.
THEOREM TypeCorrect == Spec => []TypeOK
<1>1. Spec => []TypeInv
  BY InitTypeInv, NextTypeInv, PTL DEF Spec
<1> QED BY <1>1, PTL DEF TypeInv
-----------------------------------------------------------------------------
(***************************************************************************)
(* Spending.                                                               *)
(***************************************************************************)

\* What a recorded reservation adds, and what it was checked against.
LEMMA ReserveEffect ==
  ASSUME NEW event, NEW expected, NEW id, NEW owner, NEW clock, NEW dispatch, NEW slot,
         NEW approval, NEW audit,
         Reserve(event, expected, id, owner, clock, dispatch, slot, approval, audit)
  PROVE  \E row : \E session \in OwnedSession(id, owner) :
           /\ reservations' = reservations \cup {row}
           /\ row.dispatch_id = dispatch /\ row.session_id = id /\ row.owner_id = owner
           /\ row.slot = slot /\ row.approval = approval /\ row.audit = audit
           /\ row.revision = session.revision /\ row.generation = session.generation
           /\ row.clock = clock /\ row.ready \in ReadyTimes(session, slot)
           /\ row.cost = Reservation(revisions[session.revision], slot)
           /\ CurrentSession(session)
           /\ ClockStatus(revisions[session.revision], clock, clocks[id], session.deadline)
                = "valid"
           /\ WithinLimits(usage', revisions[session.revision])
           /\ usage' = Charged(row.cost)
<1> DEFINE Cost(session) == Reservation(revisions[session.revision], slot)
           Row(session, ready) ==
             [dispatch_id |-> dispatch, session_id |-> id, owner_id |-> owner,
              revision |-> session.revision, generation |-> session.generation,
              slot |-> slot, approval |-> approval, audit |-> audit, clock |-> clock,
              ready |-> ready,
              deadline |-> MinOf(session.deadline,
                             MinOf(ready + Cost(session)["runtime_ms"],
                                   WindowEnd(revisions[session.revision], clock))),
              cost |-> Cost(session)]
           Checked(session) ==
             /\ CurrentSession(session)
             /\ ClockStatus(revisions[session.revision], clock, clocks[id], session.deadline)
                  = "valid"
             /\ WithinLimits(Charged(Cost(session)), revisions[session.revision])
             /\ usage' = Charged(Cost(session))
<1>1. PICK session \in OwnedSession(id, owner) :
        \E ready \in ReadyTimes(session, slot) :
          Checked(session) /\ reservations' = reservations \cup {Row(session, ready)}
  BY DEF Reserve
<1>2. PICK ready \in ReadyTimes(session, slot) :
        Checked(session) /\ reservations' = reservations \cup {Row(session, ready)}
  BY <1>1
<1>3. WITNESS Row(session, ready)
<1>4. WITNESS session \in OwnedSession(id, owner)
<1> QED BY <1>2

\* What a recorded session adds.
LEMMA SessionEffect ==
  ASSUME NEW event, NEW expected, NEW id, NEW owner, NEW clock, NEW original,
         Session(event, expected, id, owner, clock, original)
  PROVE  \E row : /\ sessions' = sessions \cup {row}
                  /\ row.session_id = id /\ row.owner_id = owner /\ row.clock = clock
                  /\ row.revision = revision /\ row.generation = generation
<1> DEFINE Row == [session_id |-> id, owner_id |-> owner, revision |-> revision,
                   generation |-> generation, clock |-> clock, original |-> original,
                   deadline |-> MinOf(original, WindowEnd(revisions[revision], clock))]
<1>1. WITNESS Row
<1> QED BY DEF Session

\* What a recorded report adds, and the dispatch it reports on.
LEMMA CompleteEffect ==
  ASSUME NEW event, NEW id, NEW owner, NEW clock, NEW dispatch, NEW outcome, NEW observation,
         Complete(event, id, owner, clock, dispatch, outcome, observation)
  PROVE  \E row : \E session \in OwnedSession(id, owner) : \E reserved \in reservations :
           /\ completions' = completions \cup {row}
           /\ row.dispatch_id = dispatch /\ row.session_id = id
           /\ row.outcome = outcome /\ row.clock = clock
           /\ reserved.dispatch_id = dispatch /\ reserved.session_id = id
           /\ row.clock_status = ClockStatus(revisions[reserved.revision], clock, clocks[id],
                                             MinOf(reserved.deadline, session.deadline))
           /\ row.continuation_eligible =>
                /\ reserved.slot = "http_identify"
                /\ outcome = "reported_success"
                /\ row.clock_status = "valid"
<1> DEFINE Status(session, reserved) ==
             ClockStatus(revisions[reserved.revision], clock, clocks[id],
                         MinOf(reserved.deadline, session.deadline))
           Row(session, reserved) ==
             [dispatch_id |-> dispatch, session_id |-> id, outcome |-> outcome,
              observation |-> observation, clock |-> clock,
              clock_status |-> Status(session, reserved),
              continuation_eligible |->
                /\ reserved.slot = "http_identify"
                /\ outcome = "reported_success"
                /\ status = "recorded"
                /\ Status(session, reserved) = "valid"
                /\ CurrentSession(reserved)]
<1>1. PICK session \in OwnedSession(id, owner) :
        \E reserved \in {r \in reservations : r.dispatch_id = dispatch /\ r.session_id = id} :
          completions' = completions \cup {Row(session, reserved)}
  BY DEF Complete
<1>2. PICK reserved \in {r \in reservations : r.dispatch_id = dispatch /\ r.session_id = id} :
        completions' = completions \cup {Row(session, reserved)}
  BY <1>1
<1>3. WITNESS Row(session, reserved)
<1>4. WITNESS session \in OwnedSession(id, owner)
<1>5. WITNESS reserved \in reservations
<1> QED BY <1>2

\* Only a reservation changes the reservations.
LEMMA ReservationsChange == [Next]_vars => UNCHANGED reservations \/ Reserves
<1> SUFFICES ASSUME [Next]_vars PROVE UNCHANGED reservations \/ Reserves
  OBVIOUS
<1>1. Creates => UNCHANGED reservations
  BY DEF Creates, Create
<1>2. Revises => UNCHANGED reservations
  BY DEF Revises, Revise
<1>3. Revokes => UNCHANGED reservations
  BY DEF Revokes, Revoke, rows
<1>4. Registers => UNCHANGED reservations
  BY DEF Registers, Session
<1>5. Completes => UNCHANGED reservations
  BY DEF Completes, Complete
<1>6. UNCHANGED vars => UNCHANGED reservations
  BY DEF vars, rows
<1> QED BY <1>1, <1>2, <1>3, <1>4, <1>5, <1>6 DEF Next

LEMMA SpentOnceStep == SpentOnce /\ [Next]_vars => SpentOnce'
<1> SUFFICES ASSUME SpentOnce, [Next]_vars PROVE SpentOnce'
  OBVIOUS
<1>1. CASE UNCHANGED reservations
  BY <1>1 DEF SpentOnce
<1>2. ASSUME NEW event, NEW expected, NEW id, NEW owner, NEW clock, NEW dispatch, NEW slot,
             NEW approval, NEW audit,
             Reserve(event, expected, id, owner, clock, dispatch, slot, approval, audit)
      PROVE  SpentOnce'
  <2>1. PICK row : /\ reservations' = reservations \cup {row}
                   /\ row.dispatch_id = dispatch /\ row.session_id = id /\ row.slot = slot
                   /\ row.approval = approval /\ row.audit = audit
    BY <1>2, ReserveEffect
  <2>2. Unspent(dispatch, id, slot, approval, audit)
    BY <1>2 DEF Reserve
  <2> QED BY <2>1, <2>2 DEF SpentOnce, Unspent
<1> QED BY <1>1, <1>2, ReservationsChange DEF Reserves

\* Over any number of sessions, revisions and owners, an approval, an audit record
\* and a slot of a session are spent by one dispatch at most.
THEOREM NothingSpentTwice == Spec => []SpentOnce
<1>1. Init => SpentOnce
  BY DEF Init, SpentOnce
<1> QED BY <1>1, SpentOnceStep, PTL DEF Spec

\* A revocation leaves only reports possible.
THEOREM RevocationIsFinal == Spec => RevokedOnlyReports
<1> DEFINE Frozen == /\ UNCHANGED <<revision, generation, status, usage>>
                     /\ UNCHANGED <<revisions, sessions, reservations>>
           Only == status = "revoked" => Frozen
<1>1. TypeInv /\ [Next]_vars => [Only]_vars
  <2> SUFFICES ASSUME TypeInv, Next, status = "revoked" PROVE Frozen
    OBVIOUS
  <2>1. ~Creates
    BY DEF Creates, Create, Absent, TypeInv, TypeOK, StateOK, RulesInForce
  <2>2. ~Revises /\ ~Revokes
    BY DEF Revises, Revise, Revokes, Revoke, Expects
  <2>3. ~Registers
    BY DEF Registers, Session, Expects
  <2>4. ~Reserves
    BY DEF Reserves, Reserve, Expects
  <2>5. Completes => Frozen
    BY DEF Completes, Complete
  <2> QED BY <2>1, <2>2, <2>3, <2>4, <2>5 DEF Next
<1>2. Spec => []TypeInv
  BY InitTypeInv, NextTypeInv, PTL DEF Spec
<1> QED BY <1>1, <1>2, PTL DEF Spec, RevokedOnlyReports

\* What is reserved is reserved under the rules in force, in a session of theirs.
THEOREM SpendingFollowsRules == Spec => NoSpendUnderOldRules
<1> DEFINE Ruled == \A r \in reservations' \ reservations :
             /\ <<r.revision, r.generation>> = <<revision, generation>>
             /\ \E s \in sessions : /\ s.session_id = r.session_id
                                    /\ <<s.revision, s.generation>> = <<revision, generation>>
<1>1. [Next]_vars => [Ruled]_vars
  <2> SUFFICES ASSUME Next PROVE Ruled
    OBVIOUS
  <2>1. CASE UNCHANGED reservations
    BY <2>1
  <2>2. ASSUME NEW event, NEW expected, NEW id, NEW owner, NEW clock, NEW dispatch, NEW slot,
               NEW approval, NEW audit,
               Reserve(event, expected, id, owner, clock, dispatch, slot, approval, audit)
        PROVE  Ruled
    BY <2>2, ReserveEffect DEF OwnedSession, CurrentSession
  <2> QED BY <2>1, <2>2, ReservationsChange DEF Reserves
<1> QED BY <1>1, PTL DEF Spec, NoSpendUnderOldRules
-----------------------------------------------------------------------------
(***************************************************************************)
(* Room for every report.  The set of uncompleted reservations is as large *)
(* as the difference of the two tables, and each event belongs to a row:   *)
(* with the bounds of the code, a report always finds room.                *)
(***************************************************************************)
Outstanding == {r \in reservations : Uncompleted(r.dispatch_id)}

OneRevocation == IF status = "revoked" THEN 1 ELSE 0

Balanced ==
  Cardinality(events) = Len(revisions) + OneRevocation + Cardinality(sessions)
                          + Cardinality(reservations) + Cardinality(completions)

Counted ==
  /\ Balanced
  /\ Cardinality(sessions) <= MAX_SESSIONS
  /\ Cardinality(reservations) <= MAX_RESERVATIONS
  /\ Cardinality(completions) + Cardinality(Outstanding) = Cardinality(reservations)
  /\ \A c \in completions : \E r \in reservations : r.dispatch_id = c.dispatch_id

CountInv == TypeInv /\ SpentOnce /\ Counted

LEMMA OutstandingFinite ==
  ASSUME TypeInv
  PROVE  IsFiniteSet(Outstanding) /\ Cardinality(Outstanding) \in Nat
  BY FS_Subset, FS_CardinalityType DEF TypeInv, TypeOK, ReservationsOK, Outstanding

\* Every recorded request adds exactly one event.
LEMMA RecordCounts ==
  ASSUME TypeInv, NEW event, NEW request, Fresh(event) \/ events = {}, Record(event, request)
  PROVE  Cardinality(events') = Cardinality(events) + 1
<1> DEFINE Row == [event_id |-> event, sequence |-> Cardinality(events) + 1,
                   request |-> request,
                   receipt |-> [revision |-> revision', generation |-> generation',
                                status |-> status', usage |-> usage']]
<1>1. events' = events \cup {Row} /\ Row.event_id = event
  BY DEF Record
<1>2. Row \notin events
  BY <1>1 DEF Fresh
<1>3. IsFiniteSet(events)
  BY DEF TypeInv, TypeOK, EventsOK
<1> HIDE DEF Row
<1> QED BY <1>1, <1>2, <1>3, FS_AddElement

LEMMA InitCounted == Init => Counted
  BY FS_EmptySet, BoundsAssumption DEF Init, Counted, Balanced, OneRevocation, Outstanding

\* The sizes that the count adds up are natural numbers.
LEMMA SizesAreNat ==
  ASSUME TypeInv
  PROVE  /\ Cardinality(events) \in Nat /\ Len(revisions) \in Nat
         /\ Cardinality(sessions) \in Nat /\ Cardinality(reservations) \in Nat
         /\ Cardinality(completions) \in Nat
  BY FS_CardinalityType
  DEF TypeInv, TypeOK, StateOK, SessionsOK, ReservationsOK, CompletionsOK, EventsOK

LEMMA OneRevocationIsNat == OneRevocation \in Nat
  BY DEF OneRevocation

\* One event more, and one row more of one kind.
LEMMA Balancing ==
  ASSUME TypeInv, Balanced, Cardinality(events') = Cardinality(events) + 1,
         Len(revisions') + OneRevocation' + Cardinality(sessions')
           + Cardinality(reservations') + Cardinality(completions')
         = Len(revisions) + OneRevocation + Cardinality(sessions)
           + Cardinality(reservations) + Cardinality(completions) + 1
  PROVE  Balanced'
BY DEF Balanced

LEMMA CountedStep == CountInv /\ [Next]_vars => Counted'
<1> SUFFICES ASSUME CountInv, [Next]_vars PROVE Counted'
  OBVIOUS
<1> USE OutstandingFinite, SizesAreNat DEF CountInv
<1> Balanced /\ OneRevocation \in Nat
  BY OneRevocationIsNat DEF Counted
<1>1. CASE Creates
  <2>1. PICK event \in EventIds, roe \in Roes : Create(event, roe)
    BY <1>1 DEF Creates
  <2>2. Cardinality(events') = Cardinality(events) + 1
    BY <2>1, RecordCounts DEF Create, Absent, TypeInv, RulesInForce, TypeOK, StateOK
  <2>3. Len(revisions') = Len(revisions) + 1 /\ OneRevocation' = 0 /\ OneRevocation = 0
    BY <2>1 DEF Create, Absent, OneRevocation, TypeInv, RulesInForce, TypeOK, StateOK
  <2>4. UNCHANGED Outstanding
    BY <2>1 DEF Create, Outstanding, Uncompleted
  <2>5. UNCHANGED <<sessions, reservations, completions>>
    BY <2>1 DEF Create
  <2>6. Balanced'
    BY <2>2, <2>3, <2>5, Balancing
  <2> QED BY <2>4, <2>5, <2>6 DEF Counted
<1>2. CASE Revises
  <2>1. PICK event \in EventIds, expected \in Pairs, roe \in Roes : Revise(event, expected, roe)
    BY <1>2 DEF Revises
  <2>2. Cardinality(events') = Cardinality(events) + 1
    BY <2>1, RecordCounts DEF Revise
  <2>3. Len(revisions') = Len(revisions) + 1 /\ OneRevocation' = OneRevocation
    BY <2>1 DEF Revise, OneRevocation, TypeInv, TypeOK, StateOK
  <2>4. UNCHANGED Outstanding
    BY <2>1 DEF Revise, Outstanding, Uncompleted
  <2>5. UNCHANGED <<sessions, reservations, completions>>
    BY <2>1 DEF Revise
  <2>6. Balanced'
    BY <2>2, <2>3, <2>5, Balancing
  <2> QED BY <2>4, <2>5, <2>6 DEF Counted
<1>3. CASE Revokes
  <2>1. PICK event \in EventIds, expected \in Pairs : Revoke(event, expected)
    BY <1>3 DEF Revokes
  <2>2. Cardinality(events') = Cardinality(events) + 1
    BY <2>1, RecordCounts DEF Revoke
  <2>3. OneRevocation' = 1 /\ OneRevocation = 0
    BY <2>1 DEF Revoke, Expects, OneRevocation
  <2>4. UNCHANGED Outstanding
    BY <2>1 DEF Revoke, Outstanding, Uncompleted, rows
  <2>5. UNCHANGED <<revisions, sessions, reservations, completions>>
    BY <2>1 DEF Revoke, rows
  <2>6. Balanced'
    BY <2>2, <2>3, <2>5 DEF Counted, Balanced
  <2> QED BY <2>4, <2>5, <2>6 DEF Counted
<1>4. CASE Registers
  <2>1. PICK event \in EventIds, expected \in Pairs, id \in SessionIds, owner \in Owners,
             clock \in Clocks, original \in Deadlines :
          Session(event, expected, id, owner, clock, original)
    BY <1>4 DEF Registers
  <2>2. Cardinality(events') = Cardinality(events) + 1
    BY <2>1, RecordCounts DEF Session
  <2>3. Cardinality(sessions') = Cardinality(sessions) + 1
    <3>1. PICK row : sessions' = sessions \cup {row} /\ row.session_id = id
      BY <2>1, SessionEffect
    <3>2. row \notin sessions
      BY <2>1, <3>1 DEF Session
    <3> QED BY <3>1, <3>2, FS_AddElement DEF TypeInv, TypeOK, SessionsOK
  <2>4. Cardinality(sessions) < MAX_SESSIONS
    BY <2>1 DEF Session
  <2>5. UNCHANGED <<Outstanding, OneRevocation>>
    BY <2>1 DEF Session, Outstanding, Uncompleted, OneRevocation
  <2>6. Cardinality(sessions') <= MAX_SESSIONS
    BY <2>3, <2>4, BoundsAssumption
  <2>7. UNCHANGED <<revisions, reservations, completions>>
    BY <2>1 DEF Session
  <2>8. Balanced'
    BY <2>2, <2>3, <2>5, <2>7, OneRevocationIsNat DEF Counted, Balanced
  <2> QED BY <2>5, <2>6, <2>7, <2>8 DEF Counted
<1>5. CASE Reserves
  <2>1. PICK event \in EventIds, expected \in Pairs, id \in SessionIds, owner \in Owners,
             clock \in Clocks, dispatch \in DispatchIds, slot \in Slots,
             approval \in Approvals, audit \in Audits :
          Reserve(event, expected, id, owner, clock, dispatch, slot, approval, audit)
    BY <1>5 DEF Reserves
  <2>2. Cardinality(events') = Cardinality(events) + 1
    BY <2>1, RecordCounts DEF Reserve
  <2>3. PICK row : reservations' = reservations \cup {row} /\ row.dispatch_id = dispatch
    BY <2>1, ReserveEffect
  <2>4. \A r \in reservations : r.dispatch_id # dispatch
    BY <2>1 DEF Reserve, Unspent
  <2>5. row \notin reservations /\ UNCHANGED completions
    BY <2>1, <2>3, <2>4 DEF Reserve
  <2>6. Cardinality(reservations') = Cardinality(reservations) + 1
    BY <2>3, <2>5, FS_AddElement DEF TypeInv, TypeOK, ReservationsOK
  <2>7. Outstanding' = Outstanding \cup {row} /\ row \notin Outstanding
    BY <2>3, <2>4, <2>5 DEF Outstanding, Uncompleted, Counted
  <2>8. Cardinality(Outstanding') = Cardinality(Outstanding) + 1
    BY <2>7, FS_AddElement
  <2>9. Cardinality(reservations') <= MAX_RESERVATIONS
    BY <2>1, <2>6, BoundsAssumption DEF Reserve
  <2>10. UNCHANGED <<OneRevocation, revisions, sessions>>
    BY <2>1 DEF Reserve, OneRevocation
  <2>11. Cardinality(completions) + Cardinality(Outstanding') = Cardinality(reservations')
    BY <2>6, <2>8 DEF Counted
  <2>12. \A c \in completions' : \E r \in reservations' : r.dispatch_id = c.dispatch_id
    BY <2>3, <2>5 DEF Counted
  <2>13. Balanced'
    BY <2>2, <2>5, <2>6, <2>10, Balancing
  <2> QED BY <2>9, <2>10, <2>11, <2>12, <2>5, <2>13 DEF Counted
<1>6. CASE Completes
  <2>1. PICK event \in EventIds, id \in SessionIds, owner \in Owners, clock \in Clocks,
             dispatch \in DispatchIds, outcome \in Outcomes,
             observation \in Observations \cup {None} :
          Complete(event, id, owner, clock, dispatch, outcome, observation)
    BY <1>6 DEF Completes
  <2>2. Cardinality(events') = Cardinality(events) + 1
    BY <2>1, RecordCounts DEF Complete
  <2>3. PICK reserved \in reservations : reserved.dispatch_id = dispatch
    BY <2>1 DEF Complete
  <2>4. PICK row : completions' = completions \cup {row} /\ row.dispatch_id = dispatch
    BY <2>1, CompleteEffect
  <2>5. row \notin completions /\ UNCHANGED reservations /\ Uncompleted(dispatch)
    BY <2>1, <2>4 DEF Complete, Uncompleted
  <2>6. Cardinality(completions') = Cardinality(completions) + 1
    BY <2>4, <2>5, FS_AddElement DEF TypeInv, TypeOK, CompletionsOK
  <2>7. Outstanding' = Outstanding \ {reserved} /\ reserved \in Outstanding
    BY <2>3, <2>4, <2>5 DEF Outstanding, Uncompleted, SpentOnce
  <2>8. Cardinality(Outstanding') = Cardinality(Outstanding) - 1
    BY <2>7, FS_RemoveElement
  <2>9. UNCHANGED <<OneRevocation, revisions, sessions>>
    BY <2>1 DEF Complete, OneRevocation
  <2>10. Cardinality(completions') + Cardinality(Outstanding') = Cardinality(reservations')
    BY <2>5, <2>6, <2>8 DEF Counted
  <2>11. \A c \in completions' : \E r \in reservations' : r.dispatch_id = c.dispatch_id
    BY <2>3, <2>4, <2>5 DEF Counted
  <2>12. Balanced'
    BY <2>2, <2>5, <2>6, <2>9, OneRevocationIsNat DEF Counted, Balanced
  <2> QED BY <2>5, <2>9, <2>10, <2>11, <2>12 DEF Counted
<1>7. CASE UNCHANGED vars
  BY <1>7 DEF vars, state, rows, Counted, Balanced, Outstanding, Uncompleted, OneRevocation
<1> QED BY <1>1, <1>2, <1>3, <1>4, <1>5, <1>6, <1>7 DEF Next

LEMMA CountsLeaveRoom == CountInv => EventsAccountForRows
<1> SUFFICES ASSUME CountInv, NEW r \in reservations, Uncompleted(r.dispatch_id)
             PROVE  /\ Cardinality(events) < MAX_EVENTS
                    /\ Cardinality(completions) < MAX_COMPLETIONS
  BY DEF EventsAccountForRows, CountInv, Counted, Balanced, OneRevocation
<1>1. Cardinality(Outstanding) # 0
  BY OutstandingFinite, FS_EmptySet DEF CountInv, Outstanding
<1>2. Cardinality(completions) < Cardinality(reservations)
  BY <1>1, OutstandingFinite, SizesAreNat DEF CountInv, Counted
<1>3. /\ TypeInv /\ Balanced
      /\ Cardinality(sessions) <= MAX_SESSIONS /\ Cardinality(reservations) <= MAX_RESERVATIONS
  BY DEF CountInv, Counted
<1>4. OneRevocation \in {0, 1} /\ Len(revisions) <= MAX_REVISIONS
  BY <1>3 DEF OneRevocation, TypeInv, RulesInForce
<1> QED
  BY <1>2, <1>3, <1>4, SizesAreNat, BoundsAssumption, CapacityAssumption DEF Balanced

\* Every event belongs to a row, and an uncompleted reservation always finds room
\* for its report: neither the completion table nor the event table is full.
THEOREM ReportsAlwaysFit == Spec => []EventsAccountForRows
<1>1. Init => CountInv
  BY InitTypeInv, InitCounted DEF CountInv, Init, SpentOnce
<1>2. CountInv /\ [Next]_vars => CountInv'
  BY NextTypeInv, SpentOnceStep, CountedStep DEF CountInv
<1> QED BY <1>1, <1>2, CountsLeaveRoom, PTL DEF Spec
-----------------------------------------------------------------------------
(***************************************************************************)
(* The follow-up slot.  A session's clock may run backwards in a late      *)
(* report, so what orders the follow-up after its predecessor is the last  *)
(* observed clock: until the identify dispatch is completed it is the      *)
(* clock of its reservation, and from its eligible completion until the    *)
(* follow-up is reserved it is the clock of that completion.               *)
(***************************************************************************)
SessionsUnique == \A s, t \in sessions : s.session_id = t.session_id => s = t

OfSession(r, s) ==
  /\ s.session_id = r.session_id /\ s.owner_id = r.owner_id
  /\ s.revision = r.revision /\ s.generation = r.generation

Registered == \A r \in reservations : \E s \in sessions : OfSession(r, s)

ReportOf(c, r) ==
  /\ r.dispatch_id = c.dispatch_id /\ r.session_id = c.session_id
  /\ c.continuation_eligible =>
       /\ r.slot = "http_identify"
       /\ c.outcome = "reported_success" /\ c.clock_status = "valid"
       /\ r.clock.after <= c.clock.before

Reported == \A c \in completions : \E r \in reservations : ReportOf(c, r)

Alone(id) == \A h \in reservations : h.session_id = id => h.slot = "http_identify"

IdentifyLast ==
  \A i \in reservations :
    i.slot = "http_identify" /\ Uncompleted(i.dispatch_id) => clocks[i.session_id] = i.clock

ReportLast ==
  \A c \in completions :
    c.continuation_eligible /\ Alone(c.session_id) => clocks[c.session_id] = c.clock

\* h follows the identify reservation i, which c reports on.
Follows(h, i, c) ==
  /\ i.slot = "http_identify" /\ i.session_id = h.session_id
  /\ c.dispatch_id = i.dispatch_id
  /\ c.outcome = "reported_success" /\ c.clock_status = "valid"
  /\ <<i.revision, i.generation, i.owner_id>> = <<h.revision, h.generation, h.owner_id>>
  /\ h.ready = c.clock.after
  /\ i.clock.after <= c.clock.before /\ c.clock.after <= h.clock.before

FollowUps ==
  \A h \in reservations : h.slot = "http_headers" =>
    \E i \in reservations, c \in completions : Follows(h, i, c)

SlotInv ==
  /\ SessionsUnique /\ Registered /\ Reported /\ IdentifyLast /\ ReportLast /\ FollowUps
  /\ SpentOnce

\* A follow-up in a session means that the session's identify dispatch is completed.
LEMMA FollowUpsAreLate ==
  ASSUME SlotInv, NEW h \in reservations, NEW i \in reservations,
         h.slot = "http_headers", i.slot = "http_identify", h.session_id = i.session_id
  PROVE  ~Uncompleted(i.dispatch_id)
<1>1. PICK j \in reservations, c \in completions : Follows(h, j, c)
  BY DEF SlotInv, FollowUps
<1>2. j = i
  BY <1>1 DEF Follows, SlotInv, SpentOnce
<1> QED
  BY <1>1, <1>2 DEF Follows, Uncompleted

LEMMA SameRowsKeepSlots ==
  ASSUME SlotInv, UNCHANGED <<sessions, reservations, completions, clocks>>
  PROVE  SlotInv'
BY DEF SlotInv, SessionsUnique, Registered, OfSession, Reported, ReportOf, Alone, IdentifyLast,
       ReportLast, Uncompleted, FollowUps, Follows, SpentOnce

\* A new session has no rows yet.
LEMMA RegisterKeepsSlots ==
  ASSUME TypeInv, SlotInv, NEW event, NEW expected, NEW id \in SessionIds, NEW owner, NEW clock,
         NEW original, Session(event, expected, id, owner, clock, original)
  PROVE  SlotInv'
<1>1. PICK row : sessions' = sessions \cup {row} /\ row.session_id = id
  BY SessionEffect
<1>2. /\ \A s \in sessions : s.session_id # id
      /\ reservations' = reservations /\ completions' = completions
      /\ clocks' = [clocks EXCEPT ![id] = clock]
  BY DEF Session, Observe
<1>3. clocks \in [SessionIds -> Clocks \cup {None}]
  BY DEF TypeInv, TypeOK, StateOK
<1>4. \A r \in reservations : r.session_id # id
  BY <1>2 DEF SlotInv, Registered, OfSession
<1>5. \A c \in completions : c.session_id # id
  BY <1>4 DEF SlotInv, Reported, ReportOf
<1>6. \A s \in SessionIds \ {id} : clocks'[s] = clocks[s]
  BY <1>2, <1>3
<1>7. /\ \A r \in reservations : r.session_id \in SessionIds
      /\ \A c \in completions : c.session_id \in SessionIds
  BY DEF TypeInv, TypeOK, ReservationsOK, CompletionsOK
<1>8. SessionsUnique'
  BY <1>1, <1>2 DEF SlotInv, SessionsUnique
<1>9. Registered'
  BY <1>1, <1>2 DEF SlotInv, Registered, OfSession
<1>10. Reported' /\ FollowUps' /\ SpentOnce'
  BY <1>2 DEF SlotInv, Reported, ReportOf, FollowUps, Follows, SpentOnce
<1>11. IdentifyLast'
  BY <1>2, <1>4, <1>6, <1>7 DEF SlotInv, IdentifyLast, Uncompleted
<1>12. ReportLast'
  BY <1>2, <1>5, <1>6, <1>7 DEF SlotInv, ReportLast, Alone
<1> QED
  BY <1>8, <1>9, <1>10, <1>11, <1>12 DEF SlotInv

LEMMA ReserveKeepsSlots ==
  ASSUME TypeInv, SlotInv, NEW event, NEW expected, NEW id \in SessionIds, NEW owner,
         NEW clock \in Clocks, NEW dispatch, NEW slot \in Slots, NEW approval, NEW audit,
         Reserve(event, expected, id, owner, clock, dispatch, slot, approval, audit)
  PROVE  SlotInv'
<1>1. PICK row : \E session \in OwnedSession(id, owner) :
           /\ reservations' = reservations \cup {row}
           /\ row.dispatch_id = dispatch /\ row.session_id = id /\ row.owner_id = owner
           /\ row.slot = slot /\ row.approval = approval /\ row.audit = audit
           /\ row.revision = session.revision /\ row.generation = session.generation
           /\ row.clock = clock /\ row.ready \in ReadyTimes(session, slot)
           /\ ClockStatus(revisions[session.revision], clock, clocks[id], session.deadline)
                = "valid"
  BY ReserveEffect
<1>2. PICK session \in OwnedSession(id, owner) :
           /\ reservations' = reservations \cup {row}
           /\ row.dispatch_id = dispatch /\ row.session_id = id /\ row.owner_id = owner
           /\ row.slot = slot /\ row.approval = approval /\ row.audit = audit
           /\ row.revision = session.revision /\ row.generation = session.generation
           /\ row.clock = clock /\ row.ready \in ReadyTimes(session, slot)
           /\ ClockStatus(revisions[session.revision], clock, clocks[id], session.deadline)
                = "valid"
  BY <1>1
<1>3. /\ session \in sessions /\ session.session_id = id /\ session.owner_id = owner
      /\ sessions' = sessions /\ completions' = completions
      /\ clocks' = [clocks EXCEPT ![id] = clock]
      /\ Unspent(dispatch, id, slot, approval, audit)
  BY <1>2 DEF OwnedSession, Reserve, Observe
<1>4. clocks'[id] = clock /\ \A s \in SessionIds \ {id} : clocks'[s] = clocks[s]
  BY <1>3 DEF TypeInv, TypeOK, StateOK
<1>5. /\ \A r \in reservations : r.session_id \in SessionIds /\ r.slot \in Slots
      /\ \A c \in completions : c.session_id \in SessionIds
  BY DEF TypeInv, TypeOK, ReservationsOK, CompletionsOK
<1>6. \A r \in reservations : r.dispatch_id # dispatch /\ ~(r.session_id = id /\ r.slot = slot)
  BY <1>3 DEF Unspent
<1>7. SessionsUnique' /\ SpentOnce'
  BY <1>2, <1>3 DEF SlotInv, SessionsUnique, SpentOnce, Unspent
<1>8. Registered'
  BY <1>2, <1>3 DEF SlotInv, Registered, OfSession
<1>9. Reported'
  BY <1>2, <1>3 DEF SlotInv, Reported
\* A follow-up's ready time comes from the eligible report on its session's identify.
<1>10. ASSUME slot = "http_headers"
       PROVE  /\ \E i \in reservations, c \in completions : Follows(row, i, c)
              /\ \A i \in reservations : i.session_id = id => ~Uncompleted(i.dispatch_id)
  <2>1. PICK c \in Predecessors(id) : row.ready = c.clock.after
    BY <1>2, <1>3, <1>10 DEF ReadyTimes
  <2>2. c \in completions /\ c.continuation_eligible
    BY <2>1 DEF Predecessors
  <2>3. PICK i \in reservations :
          i.session_id = id /\ i.slot = "http_identify" /\ i.dispatch_id = c.dispatch_id
    BY <2>1 DEF Predecessors
  <2>4. ReportOf(c, i)
    <3>1. PICK j \in reservations : ReportOf(c, j)
      BY <2>2 DEF SlotInv, Reported
    <3>2. j = i
      BY <2>3, <3>1 DEF SlotInv, SpentOnce, ReportOf
    <3> QED
      BY <3>1, <3>2
  <2>5. Alone(id)
    BY <1>5, <1>6, <1>10 DEF Alone, Slots
  <2>6. clocks[id] = c.clock
    BY <2>2, <2>3, <2>4, <2>5 DEF SlotInv, ReportLast, ReportOf
  <2>7. c.clock.after <= clock.before
    <3>1. ~(clock.before < c.clock.after)
      BY <1>2, <2>6 DEF ClockStatus
    <3>2. c.clock \in Clocks
      BY <2>2 DEF TypeInv, TypeOK, CompletionsOK
    <3> QED
      BY <3>1, <3>2, ClocksAssumption
  <2>8. <<i.revision, i.generation, i.owner_id>> = <<row.revision, row.generation, row.owner_id>>
    <3>1. PICK s \in sessions : OfSession(i, s)
      BY DEF SlotInv, Registered
    <3>2. s = session
      BY <1>3, <2>3, <3>1 DEF OfSession, SlotInv, SessionsUnique
    <3> QED
      BY <1>2, <1>3, <3>1, <3>2 DEF OfSession
  <2>9. Follows(row, i, c)
    BY <1>2, <2>1, <2>2, <2>3, <2>4, <2>7, <2>8 DEF Follows, ReportOf
  <2>10. \A j \in reservations : j.session_id = id => j = i
    BY <1>5, <1>6, <1>10, <2>3 DEF SlotInv, SpentOnce, Slots
  <2> QED
    BY <2>2, <2>3, <2>9, <2>10 DEF Uncompleted
<1>11. FollowUps'
  <2>1. \A h \in reservations' : h.slot = "http_headers" =>
          \E i \in reservations, c \in completions : Follows(h, i, c)
    BY <1>2, <1>10 DEF SlotInv, FollowUps
  <2> QED
    BY <1>2, <1>3, <2>1 DEF FollowUps
<1>12. \A i \in reservations : i.slot = "http_identify" /\ Uncompleted(i.dispatch_id) =>
         i.session_id # id
  BY <1>5, <1>6, <1>10 DEF Slots
<1>13. IdentifyLast'
  <2>1. \A i \in reservations : i.slot = "http_identify" /\ Uncompleted(i.dispatch_id) =>
          clocks'[i.session_id] = i.clock
    BY <1>4, <1>5, <1>12 DEF SlotInv, IdentifyLast
  <2>2. clocks'[row.session_id] = row.clock
    BY <1>2, <1>4
  <2> QED
    BY <1>2, <1>3, <2>1, <2>2 DEF IdentifyLast, Uncompleted
<1>14. ReportLast'
  <2> SUFFICES ASSUME NEW c \in completions, c.continuation_eligible, Alone(c.session_id)'
               PROVE  clocks'[c.session_id] = c.clock
    BY <1>3 DEF ReportLast
  <2>1. Alone(c.session_id) /\ clocks[c.session_id] = c.clock
    BY <1>2 DEF Alone, SlotInv, ReportLast
  <2>2. PICK r \in reservations : ReportOf(c, r)
    BY DEF SlotInv, Reported
  <2>3. c.session_id # id
    <3> SUFFICES ASSUME c.session_id = id PROVE FALSE
      OBVIOUS
    <3>1. r.session_id = id /\ r.slot = "http_identify"
      BY <2>2 DEF ReportOf
    <3>2. slot = "http_identify"
      BY <1>2 DEF Alone
    <3> QED
      BY <1>6, <3>1, <3>2
  <2> QED
    BY <1>4, <1>5, <2>1, <2>3
<1> QED
  BY <1>7, <1>8, <1>9, <1>11, <1>13, <1>14 DEF SlotInv

LEMMA CompleteKeepsSlots ==
  ASSUME TypeInv, SlotInv, NEW event, NEW id \in SessionIds, NEW owner, NEW clock \in Clocks,
         NEW dispatch, NEW outcome, NEW observation,
         Complete(event, id, owner, clock, dispatch, outcome, observation)
  PROVE  SlotInv'
<1> DEFINE Status(s, r) == ClockStatus(revisions[r.revision], clock, clocks[id],
                                       MinOf(r.deadline, s.deadline))
<1>1. PICK row : \E session \in OwnedSession(id, owner) : \E reserved \in reservations :
           /\ completions' = completions \cup {row}
           /\ row.dispatch_id = dispatch /\ row.session_id = id
           /\ row.outcome = outcome /\ row.clock = clock
           /\ reserved.dispatch_id = dispatch /\ reserved.session_id = id
           /\ row.clock_status = Status(session, reserved)
           /\ row.continuation_eligible =>
                /\ reserved.slot = "http_identify"
                /\ outcome = "reported_success"
                /\ row.clock_status = "valid"
  BY CompleteEffect
<1>2. PICK session \in OwnedSession(id, owner), reserved \in reservations :
           /\ completions' = completions \cup {row}
           /\ row.dispatch_id = dispatch /\ row.session_id = id
           /\ row.outcome = outcome /\ row.clock = clock
           /\ reserved.dispatch_id = dispatch /\ reserved.session_id = id
           /\ row.clock_status = Status(session, reserved)
           /\ row.continuation_eligible =>
                /\ reserved.slot = "http_identify"
                /\ outcome = "reported_success"
                /\ row.clock_status = "valid"
  BY <1>1
<1>3. /\ sessions' = sessions /\ reservations' = reservations
      /\ clocks' = [clocks EXCEPT ![id] = clock]
      /\ Uncompleted(dispatch)
  BY DEF Complete, Observe
<1>4. clocks'[id] = clock /\ \A s \in SessionIds \ {id} : clocks'[s] = clocks[s]
  BY <1>3 DEF TypeInv, TypeOK, StateOK
<1>5. /\ \A r \in reservations : r.session_id \in SessionIds /\ r.slot \in Slots /\ r.clock \in Clocks
      /\ \A c \in completions : c.session_id \in SessionIds
  BY DEF TypeInv, TypeOK, ReservationsOK, CompletionsOK
<1>6. SessionsUnique' /\ SpentOnce' /\ Registered'
  BY <1>3 DEF SlotInv, SessionsUnique, SpentOnce, Registered, OfSession
<1>7. FollowUps'
  <2>1. completions \subseteq completions'
    BY <1>2
  <2> QED
    BY <1>3, <2>1 DEF SlotInv, FollowUps
<1>8. ReportOf(row, reserved)
  <2>1. ASSUME row.continuation_eligible PROVE reserved.clock.after <= row.clock.before
    <3>1. clocks[id] = reserved.clock
      BY <1>2, <1>3, <2>1 DEF SlotInv, IdentifyLast
    <3>2. ~(clock.before < reserved.clock.after)
      BY <1>2, <2>1, <3>1 DEF ClockStatus
    <3> QED
      BY <1>2, <1>5, <3>2, ClocksAssumption
  <2> QED
    BY <1>2, <2>1 DEF ReportOf
<1>9. Reported'
  BY <1>2, <1>3, <1>8 DEF SlotInv, Reported
<1>10. IdentifyLast'
  <2> SUFFICES ASSUME NEW i \in reservations, i.slot = "http_identify",
                      Uncompleted(i.dispatch_id)'
               PROVE  clocks'[i.session_id] = i.clock
    BY <1>3 DEF IdentifyLast
  <2>1. Uncompleted(i.dispatch_id) /\ i.dispatch_id # dispatch
    BY <1>2 DEF Uncompleted
  <2>2. clocks[i.session_id] = i.clock
    BY <2>1 DEF SlotInv, IdentifyLast
  <2>3. i.session_id # id
    <3> SUFFICES ASSUME i.session_id = id PROVE FALSE
      OBVIOUS
    <3>1. CASE reserved.slot = "http_identify"
      BY <1>2, <2>1, <3>1 DEF SlotInv, SpentOnce
    <3>2. CASE reserved.slot = "http_headers"
      BY <1>2, <2>1, <3>2, FollowUpsAreLate
    <3> QED
      BY <1>5, <3>1, <3>2 DEF Slots
  <2> QED
    BY <1>4, <1>5, <2>2, <2>3
<1>11. ReportLast'
  <2>1. clocks'[row.session_id] = row.clock
    BY <1>2, <1>4
  <2>2. ASSUME NEW c \in completions, c.continuation_eligible, Alone(c.session_id)
        PROVE  clocks'[c.session_id] = c.clock
    <3>1. clocks[c.session_id] = c.clock
      BY <2>2 DEF SlotInv, ReportLast
    <3>2. PICK r \in reservations : ReportOf(c, r)
      BY DEF SlotInv, Reported
    <3>3. c.session_id # id
      <4> SUFFICES ASSUME c.session_id = id PROVE FALSE
        OBVIOUS
      <4>1. reserved.slot = "http_identify" /\ r.slot = "http_identify" /\ r.session_id = id
        BY <1>2, <2>2, <3>2 DEF Alone, ReportOf
      <4>2. r = reserved
        BY <1>2, <4>1 DEF SlotInv, SpentOnce
      <4> QED
        BY <1>2, <1>3, <3>2, <4>2 DEF ReportOf, Uncompleted
    <3> QED
      BY <1>4, <1>5, <3>1, <3>3
  <2> QED
    BY <1>2, <1>3, <2>1, <2>2 DEF ReportLast, Alone
<1> QED
  BY <1>6, <1>7, <1>9, <1>10, <1>11 DEF SlotInv

LEMMA SlotInvKept ==
  ASSUME TypeInv, SlotInv, [Next]_vars
  PROVE  SlotInv'
<1>1. CASE Creates \/ Revises \/ Revokes \/ UNCHANGED vars
  <2>1. UNCHANGED <<sessions, reservations, completions, clocks>>
    BY <1>1 DEF Creates, Create, Revises, Revise, Revokes, Revoke, vars, rows
  <2> QED
    BY <2>1, SameRowsKeepSlots
<1>2. CASE Registers
  BY <1>2, RegisterKeepsSlots DEF Registers
<1>3. CASE Reserves
  BY <1>3, ReserveKeepsSlots DEF Reserves
<1>4. CASE Completes
  BY <1>4, CompleteKeepsSlots DEF Completes
<1> QED
  BY <1>1, <1>2, <1>3, <1>4 DEF Next

\* However clocks run and reports interleave, a follow-up is reserved only after a timely
\* successful report on its session's identify dispatch, under the same rules and owner.
THEOREM FollowUpsAreEarned == Spec => []HeadersFollowEligibleIdentify
<1>1. Init => TypeInv /\ SlotInv
  <2>1. Init => SlotInv
    BY DEF Init, SlotInv, SessionsUnique, Registered, Reported, IdentifyLast, ReportLast,
           FollowUps, SpentOnce
  <2> QED
    BY <2>1, InitTypeInv
<1>2. TypeInv /\ SlotInv /\ [Next]_vars => (TypeInv /\ SlotInv)'
  BY NextTypeInv, SlotInvKept
<1>3. SlotInv => HeadersFollowEligibleIdentify
  BY DEF SlotInv, FollowUps, Follows, HeadersFollowEligibleIdentify
<1> QED
  BY <1>1, <1>2, <1>3, PTL DEF Spec
-----------------------------------------------------------------------------
(***************************************************************************)
(* Time.  Events are numbered without gaps by their count, and the high    *)
(* water mark is above the clock of every event that carries one, so what  *)
(* a new event is compared with stands for all earlier events.             *)
(***************************************************************************)
TimedOperations == {"session", "reserve", "complete"}

Numbered == \A e \in events : e.sequence \in 1 .. Cardinality(events)

HighWater ==
  \A e \in Timed : /\ e.request.clock \in Clocks
                   /\ e.request.clock.utc <= utc_high_water

TimeInv == Numbered /\ HighWater /\ UtcNeverRollsBack

\* What an appended event says.
LEMMA RecordEffect ==
  ASSUME TypeInv, NEW event, NEW request, Fresh(event) \/ events = {}, Record(event, request)
  PROVE  \E e : /\ events' = events \cup {e} /\ e.request = request
                /\ e.sequence = Cardinality(events) + 1
                /\ Cardinality(events') = Cardinality(events) + 1
                /\ Cardinality(events) \in Nat
<1>1. Cardinality(events') = Cardinality(events) + 1 /\ Cardinality(events) \in Nat
  BY RecordCounts, SizesAreNat
<1> DEFINE Row == [event_id |-> event, sequence |-> Cardinality(events) + 1,
                   request |-> request,
                   receipt |-> [revision |-> revision', generation |-> generation',
                                status |-> status', usage |-> usage']]
<1>2. events' = events \cup {Row} /\ Row.request = request
        /\ Row.sequence = Cardinality(events) + 1
  BY DEF Record
<1> HIDE DEF Row
<1> QED
  BY <1>1, <1>2

\* A request without a clock.
LEMMA UntimedKeepsTime ==
  ASSUME TypeInv, TimeInv, NEW event, NEW request, Fresh(event) \/ events = {},
         Record(event, request), request.operation \notin TimedOperations,
         utc_high_water' = utc_high_water
  PROVE  TimeInv'
<1>1. PICK e : /\ events' = events \cup {e} /\ e.request = request
               /\ e.sequence = Cardinality(events) + 1
               /\ Cardinality(events') = Cardinality(events) + 1
               /\ Cardinality(events) \in Nat
  BY RecordEffect
<1>2. Timed' = Timed
  BY <1>1 DEF Timed, TimedOperations
<1>3. Numbered'
  BY <1>1 DEF TimeInv, Numbered
<1> QED
  BY <1>2, <1>3 DEF TimeInv, HighWater, UtcNeverRollsBack

\* A request with a clock; only a report may be behind the high water mark.
LEMMA TimedKeepsTime ==
  ASSUME TypeInv, TimeInv, NEW event, NEW request, Fresh(event), Record(event, request),
         request.operation \in TimedOperations, request.clock \in Clocks,
         request.operation # "complete" => ~Rewound(request.clock),
         utc_high_water' = MaxOf(utc_high_water, request.clock.utc)
  PROVE  TimeInv'
<1>1. PICK e : /\ events' = events \cup {e} /\ e.request = request
               /\ e.sequence = Cardinality(events) + 1
               /\ Cardinality(events') = Cardinality(events) + 1
               /\ Cardinality(events) \in Nat
  BY RecordEffect
<1>2. Timed' = Timed \cup {e}
  BY <1>1 DEF Timed, TimedOperations
<1>3. /\ request.clock.utc \in Nat /\ utc_high_water \in Int /\ CLOCK_TOLERANCE \in Nat
      /\ \A f \in Timed : f.request.clock \in Clocks /\ f.request.clock.utc \in Nat
  BY ClocksAssumption, BoundsAssumption DEF TypeInv, TypeOK, StateOK, TimeInv, HighWater
<1>4. /\ utc_high_water' \in Int
      /\ utc_high_water <= utc_high_water' /\ request.clock.utc <= utc_high_water'
  BY <1>3 DEF MaxOf
<1>5. Numbered'
  BY <1>1 DEF TimeInv, Numbered
<1>6. HighWater'
  <2>1. \A f \in Timed : f.request.clock.utc <= utc_high_water'
    BY <1>3, <1>4 DEF TimeInv, HighWater
  <2> QED
    BY <1>1, <1>2, <1>3, <1>4, <2>1 DEF HighWater
<1>7. \A f \in Timed : f.sequence < e.sequence
  <2>1. \A f \in Timed : f.sequence \in 1 .. Cardinality(events)
    BY DEF Timed, TimeInv, Numbered
  <2> QED
    BY <1>1, <2>1
<1>8. request.operation # "complete" =>
        \A f \in Timed : f.request.clock.utc <= request.clock.utc + CLOCK_TOLERANCE
  BY <1>3 DEF Rewound, TimeInv, HighWater
<1>9. ~(e.sequence < e.sequence) /\ \A f \in Timed : ~(e.sequence < f.sequence)
  <2>1. \A f \in Timed : f.sequence \in 1 .. Cardinality(events)
    BY DEF Timed, TimeInv, Numbered
  <2> QED
    BY <1>1, <2>1
<1>10. UtcNeverRollsBack'
  <2> SUFFICES ASSUME NEW f \in Timed', NEW g \in Timed',
                      f.sequence < g.sequence, g.request.operation # "complete"
               PROVE  f.request.clock.utc <= g.request.clock.utc + CLOCK_TOLERANCE
    BY DEF UtcNeverRollsBack
  <2>1. f \in Timed
    BY <1>2, <1>9
  <2>2. CASE g = e
    BY <1>1, <1>8, <2>1, <2>2
  <2>3. CASE g \in Timed
    BY <2>1, <2>3 DEF TimeInv, UtcNeverRollsBack
  <2> QED
    BY <1>2, <2>2, <2>3
<1> QED
  BY <1>5, <1>6, <1>10 DEF TimeInv

LEMMA TimeInvKept ==
  ASSUME TypeInv, TimeInv, [Next]_vars
  PROVE  TimeInv'
<1>1. CASE Creates
  <2>1. PICK event \in EventIds, roe \in Roes : Create(event, roe)
    BY <1>1 DEF Creates
  <2>2. events = {}
    BY <2>1 DEF Create, Absent, TypeInv, TypeOK, StateOK, RulesInForce
  <2>3. Record(event, [operation |-> "create", roe |-> roe]) /\ utc_high_water' = utc_high_water
    BY <2>1 DEF Create
  <2> QED
    BY <2>2, <2>3, UntimedKeepsTime DEF TimedOperations
<1>2. CASE Revises
  <2>1. PICK event \in EventIds, expected \in Pairs, roe \in Roes : Revise(event, expected, roe)
    BY <1>2 DEF Revises
  <2>2. /\ Fresh(event) /\ utc_high_water' = utc_high_water
        /\ Record(event, [operation |-> "revise", expected |-> expected, roe |-> roe])
    BY <2>1 DEF Revise
  <2> QED
    BY <2>2, UntimedKeepsTime DEF TimedOperations
<1>3. CASE Revokes
  <2>1. PICK event \in EventIds, expected \in Pairs : Revoke(event, expected)
    BY <1>3 DEF Revokes
  <2>2. /\ Fresh(event) /\ utc_high_water' = utc_high_water
        /\ Record(event, [operation |-> "revoke", expected |-> expected])
    BY <2>1 DEF Revoke
  <2> QED
    BY <2>2, UntimedKeepsTime DEF TimedOperations
<1>4. CASE Registers
  <2>1. PICK event \in EventIds, expected \in Pairs, id \in SessionIds, owner \in Owners,
             clock \in Clocks, original \in Deadlines :
          Session(event, expected, id, owner, clock, original)
    BY <1>4 DEF Registers
  <2> DEFINE request == [operation |-> "session", expected |-> expected, session_id |-> id,
                         owner_id |-> owner, clock |-> clock, original |-> original]
  <2>2. /\ Fresh(event) /\ ~Rewound(clock) /\ Record(event, request)
        /\ utc_high_water' = MaxOf(utc_high_water, clock.utc)
    BY <2>1 DEF Session, Observe
  <2>3. request.operation = "session" /\ request.clock = clock
    OBVIOUS
  <2> HIDE DEF request
  <2> QED
    BY <2>2, <2>3, TimedKeepsTime DEF TimedOperations
<1>5. CASE Reserves
  <2>1. PICK event \in EventIds, expected \in Pairs, id \in SessionIds, owner \in Owners,
             clock \in Clocks, dispatch \in DispatchIds, slot \in Slots,
             approval \in Approvals, audit \in Audits :
          Reserve(event, expected, id, owner, clock, dispatch, slot, approval, audit)
    BY <1>5 DEF Reserves
  <2> DEFINE request == [operation |-> "reserve", expected |-> expected, session_id |-> id,
                         owner_id |-> owner, clock |-> clock, dispatch_id |-> dispatch,
                         slot |-> slot, approval |-> approval, audit |-> audit]
  <2>2. Fresh(event) /\ Record(event, request) /\ utc_high_water' = MaxOf(utc_high_water, clock.utc)
    BY <2>1 DEF Reserve, Observe
  <2>3. ~Rewound(clock)
    <3>1. \E session \in OwnedSession(id, owner) :
            ClockStatus(revisions[session.revision], clock, clocks[id], session.deadline) = "valid"
      BY <2>1, ReserveEffect
    <3> QED
      BY <3>1 DEF ClockStatus
  <2>4. request.operation = "reserve" /\ request.clock = clock
    OBVIOUS
  <2> HIDE DEF request
  <2> QED
    BY <2>2, <2>3, <2>4, TimedKeepsTime DEF TimedOperations
<1>6. CASE Completes
  <2>1. PICK event \in EventIds, id \in SessionIds, owner \in Owners, clock \in Clocks,
             dispatch \in DispatchIds, outcome \in Outcomes, observation \in Observations \cup {None} :
          Complete(event, id, owner, clock, dispatch, outcome, observation)
    BY <1>6 DEF Completes
  <2> DEFINE request == [operation |-> "complete", session_id |-> id, owner_id |-> owner,
                         clock |-> clock, dispatch_id |-> dispatch, outcome |-> outcome,
                         observation |-> observation]
  <2>2. Fresh(event) /\ Record(event, request) /\ utc_high_water' = MaxOf(utc_high_water, clock.utc)
    BY <2>1 DEF Complete, Observe
  <2>3. request.operation = "complete" /\ request.clock = clock
    OBVIOUS
  <2> HIDE DEF request
  <2> QED
    BY <2>2, <2>3, TimedKeepsTime DEF TimedOperations
<1>7. CASE UNCHANGED vars
  BY <1>7 DEF vars, state, TimeInv, Numbered, HighWater, UtcNeverRollsBack, Timed
<1> QED
  BY <1>1, <1>2, <1>3, <1>4, <1>5, <1>6, <1>7 DEF Next

\* Over all sessions together, no session and no reservation is recorded at a UTC that
\* is behind an earlier event by more than the tolerance.
THEOREM TimeMovesOn == Spec => []UtcNeverRollsBack
<1>1. Init => TypeInv /\ TimeInv
  <2>1. Init => TimeInv
    BY DEF Init, TimeInv, Numbered, HighWater, UtcNeverRollsBack, Timed
  <2> QED
    BY <2>1, InitTypeInv
<1>2. TypeInv /\ TimeInv /\ [Next]_vars => (TypeInv /\ TimeInv)'
  BY NextTypeInv, TimeInvKept
<1> QED
  BY <1>1, <1>2, PTL DEF Spec, TimeInv
-----------------------------------------------------------------------------
(***************************************************************************)
(* The ledger is a spending authority.                                     *)
(***************************************************************************)
\* Whether rules exist at all, in terms of the status.
LEMMA RulesExist ==
  ASSUME TypeInv
  PROVE  /\ Absent <=> status = "absent"
         /\ ~Absent => revision = Len(revisions) /\ revision \in 1 .. Len(revisions)
  BY DEF TypeInv, TypeOK, StateOK, RulesInForce, Absent

LEMMA InitAuthority == Init => Authority!Init
  BY DEF Init, Authority!Init, Absent

LEMMA StepAuthority ==
  TypeInv /\ TypeInv' /\ [Next]_vars => [Authority!Next]_(Authority!authority)
<1> SUFFICES ASSUME TypeInv, TypeInv', [Next]_vars
             PROVE  [Authority!Next]_(Authority!authority)
  OBVIOUS
<1>1. CASE Creates
  <2>1. PICK event \in EventIds, roe \in Roes : Create(event, roe)
    BY <1>1 DEF Creates
  <2>2. /\ status = "absent" /\ status' = "recorded" /\ usage' = usage
        /\ ~Absent' /\ revisions'[revision'] = roe
    BY <2>1, RulesExist DEF Create, Absent
  <2> QED BY <2>2 DEF Authority!Next, Authority!Grant
<1>2. CASE Revises
  <2>1. PICK event \in EventIds, expected \in Pairs, roe \in Roes : Revise(event, expected, roe)
    BY <1>2 DEF Revises
  <2>2. /\ status = "recorded" /\ status' = "recorded" /\ usage' = usage
        /\ ~Absent' /\ revisions'[revision'] = roe
    BY <2>1, RulesExist DEF Revise, Expects, Absent, TypeInv, TypeOK, StateOK, RulesInForce
  <2> QED BY <2>2 DEF Authority!Next, Authority!Grant
<1>3. CASE Revokes
  <2>1. PICK event \in EventIds, expected \in Pairs : Revoke(event, expected)
    BY <1>3 DEF Revokes
  <2>2. /\ status = "recorded" /\ status' = "revoked"
        /\ UNCHANGED <<usage, revisions, revision>>
    BY <2>1 DEF Revoke, Expects, rows
  <2> QED BY <2>2 DEF Authority!Next, Authority!Close, Absent
<1>4. CASE Registers
  <2>1. UNCHANGED <<status, usage, revisions, revision>>
    BY <1>4 DEF Registers, Session
  <2> QED BY <2>1 DEF Authority!authority, Absent
<1>5. CASE Reserves
  <2>1. PICK event \in EventIds, expected \in Pairs, id \in SessionIds, owner \in Owners,
             clock \in Clocks, dispatch \in DispatchIds, slot \in Slots,
             approval \in Approvals, audit \in Audits :
          Reserve(event, expected, id, owner, clock, dispatch, slot, approval, audit)
    BY <1>5 DEF Reserves
  <2>2. PICK row : \E session \in OwnedSession(id, owner) :
           /\ CurrentSession(session)
           /\ row.cost = Reservation(revisions[session.revision], slot)
           /\ WithinLimits(usage', revisions[session.revision])
           /\ usage' = Charged(row.cost)
    BY <2>1, ReserveEffect
  <2>3. PICK session \in OwnedSession(id, owner) :
           /\ CurrentSession(session)
           /\ row.cost = Reservation(revisions[session.revision], slot)
           /\ WithinLimits(usage', revisions[session.revision])
           /\ usage' = Charged(row.cost)
    BY <2>2
  <2>4. ~Absent /\ status = "recorded" /\ UNCHANGED <<status, revisions, revision>>
    BY <2>1 DEF Reserve, Expects
  <2>5. revisions[revision] \in Roes /\ session.revision = revision
    BY <2>3, <2>4, RulesExist DEF TypeInv, TypeOK, StateOK, CurrentSession
  <2>6. row.cost \in [Caps -> Nat]
    BY <2>3, <2>5, ReservationType
  <2>7. usage \in [Caps -> Nat] /\ usage' \in [Caps -> Nat]
    BY DEF TypeInv, TypeOK, StateOK
  <2>8. \A cap \in Caps : usage[cap] <= usage'[cap]
                          /\ usage'[cap] <= revisions[revision].limits[cap]
    BY <2>3, <2>5, <2>6, <2>7 DEF WithinLimits, Charged
  <2> QED
    BY <2>4, <2>7, <2>8 DEF Authority!Next, Authority!Spend, Authority!Amounts, Absent
<1>6. CASE Completes
  <2>1. UNCHANGED <<status, usage, revisions, revision>>
    BY <1>6 DEF Completes, Complete
  <2> QED BY <2>1 DEF Authority!authority, Absent
<1>7. CASE UNCHANGED vars
  BY <1>7 DEF vars, state, rows, Authority!authority, Absent
<1> QED BY <1>1, <1>2, <1>3, <1>4, <1>5, <1>6, <1>7 DEF Next

\* The ledger implements the spending authority: whatever the sequence of legal
\* requests, it spends within the limits in force and only while rules stand.
THEOREM LedgerIsAuthority == Spec => ImplementsAuthority
<1>1. Spec => []TypeInv
  BY InitTypeInv, NextTypeInv, PTL DEF Spec
<1> QED BY <1>1, InitAuthority, StepAuthority, PTL DEF Spec, ImplementsAuthority, Authority!Spec
=============================================================================
