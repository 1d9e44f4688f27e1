----------------------------- MODULE OwnersProofs -----------------------------
(***************************************************************************)
(* What holds of the two accounting owners for any budgets, deadlines and  *)
(* lengths of their logs: a replay of the saved events arrives at the saved*)
(* ledger, and the services of a name know its answer.                     *)
(***************************************************************************)
EXTENDS RoutingLedger, NameTlsLedger, SequenceTheorems, TLAPS

(***************************************************************************)
(* What both owners share.                                                 *)
(***************************************************************************)
LedgerFields ==
  {"kind", "elapsed", "sequences", "counters", "actions", "active", "connection", "requested",
   "admitted", "events", "terminal", "reason"}

\* The ledger as it would be with another observed time.
At(l, time) == [l EXCEPT !.elapsed = time]

\* What the arguments below need of a ledger of either kind.
Ledger(l) ==
  /\ LedgerFields \subseteq DOMAIN l
  /\ l = [f \in DOMAIN l |-> l[f]]
  /\ l.kind \in {"routing", "name_tls"}
  /\ l.elapsed \in Nat /\ l.events \in Nat /\ l.terminal \in BOOLEAN

LEMMA AtLedger ==
  ASSUME NEW l, Ledger(l), NEW time \in Nat
  PROVE  /\ Ledger(At(l, time))
         /\ DOMAIN At(l, time) = DOMAIN l
         /\ At(l, time).elapsed = time
         /\ \A f \in DOMAIN l \ {"elapsed"} : At(l, time)[f] = l[f]
BY DEF Ledger, At, LedgerFields

LEMMA AtAt ==
  ASSUME NEW l, Ledger(l), NEW s \in Nat, NEW t \in Nat
  PROVE  At(At(l, s), t) = At(l, t)
BY DEF Ledger, At, LedgerFields

LEMMA AtElapsed ==
  ASSUME NEW l, Ledger(l)
  PROVE  At(l, l.elapsed) = l
BY DEF Ledger, At, LedgerFields

\* The deadlines do not ask for the time that was observed before.
LEMMA LateAt ==
  ASSUME NEW l, Ledger(l), NEW time \in Nat, NEW now
  PROVE  Late(At(l, time), now) = Late(l, now)
BY AtLedger DEF Late, Action, LedgerFields, Ledger

LEMMA StopLedger ==
  ASSUME NEW l, Ledger(l), NEW reason
  PROVE  /\ Ledger(Stop(l, reason))
         /\ DOMAIN Stop(l, reason) = DOMAIN l
         /\ Stop(l, reason).terminal
         /\ \A f \in DOMAIN l \ {"terminal", "reason"} : Stop(l, reason)[f] = l[f]
BY DEF Ledger, Stop, LedgerFields

\* An event counts, and moves nothing else.
LEMMA PutLedger ==
  ASSUME NEW l, Ledger(l), NEW log, NEW event
  PROVE  LET put == Put([ledger |-> l, log |-> log], event)
         IN  /\ Ledger(put.ledger)
             /\ DOMAIN put.ledger = DOMAIN l
             /\ put.ledger.events = l.events + 1
             /\ \A f \in DOMAIN l \ {"events"} : put.ledger[f] = l[f]
             /\ put.log = Append(log, event)
<1> DEFINE after == [l EXCEPT !.events = @ + 1]
<1>1. Put([ledger |-> l, log |-> log], event) = [ledger |-> after, log |-> Append(log, event)]
  BY DEF Put
<1>2. /\ DOMAIN after = DOMAIN l
      /\ after = [f \in DOMAIN after |-> after[f]]
      /\ after.events = l.events + 1
      /\ \A f \in DOMAIN l \ {"events"} : after[f] = l[f]
  BY DEF Ledger, LedgerFields
<1> HIDE DEF after
<1>3. Ledger(after)
  BY <1>2 DEF Ledger, LedgerFields
<1> QED BY <1>1, <1>2, <1>3

\* A stop appends one event, at the time that was last observed.
LEMMA StoppedLog ==
  ASSUME NEW l, Ledger(l), NEW kind, NEW reason
  PROVE  /\ Stopped(l, kind, reason).log = <<[kind |-> kind, at |-> l.elapsed, reason |-> reason]>>
         /\ Ledger(Stopped(l, kind, reason).ledger)
         /\ Stopped(l, kind, reason).ledger.terminal
         /\ Stopped(l, kind, reason).ledger.elapsed = l.elapsed
         /\ Stopped(l, kind, reason).ledger.events = l.events + 1
<1> DEFINE stop  == Stop(l, reason)
           event == [kind |-> kind, at |-> l.elapsed, reason |-> reason]
<1>1. Ledger(stop) /\ stop.terminal /\ stop.elapsed = l.elapsed /\ stop.events = l.events
      /\ {"terminal", "elapsed"} \subseteq DOMAIN stop
  BY StopLedger DEF Ledger, LedgerFields
<1>2. Stopped(l, kind, reason) = Put([ledger |-> stop, log |-> << >>], event)
  BY DEF Stopped, Quiet
<1>3. Append(<< >>, event) = <<event>>
  OBVIOUS
<1> HIDE DEF stop, event
<1>4. LET put == Put([ledger |-> stop, log |-> << >>], event)
      IN  /\ Ledger(put.ledger)
          /\ put.ledger.events = stop.events + 1
          /\ \A f \in DOMAIN stop \ {"events"} : put.ledger[f] = stop[f]
          /\ put.log = Append(<< >>, event)
  BY <1>1, PutLedger
<1>5. Stopped(l, kind, reason).log = <<event>>
  BY <1>2, <1>3, <1>4
<1> QED BY <1>1, <1>2, <1>4, <1>5 DEF event

COROLLARY StoppedState ==
  ASSUME NEW l, Ledger(l), NEW kind, NEW reason
  PROVE  \E u : /\ Stopped(l, kind, reason)
                    = [ledger |-> u, log |-> <<[kind |-> kind, at |-> l.elapsed, reason |-> reason]>>]
                /\ Ledger(u) /\ u.terminal /\ u.elapsed = l.elapsed /\ u.events = l.events + 1
                /\ DOMAIN u = DOMAIN l
                /\ \A f \in DOMAIN l \ {"terminal", "reason", "events"} : u[f] = l[f]
<1> DEFINE u    == Stopped(l, kind, reason).ledger
           stop == Stop(l, reason)
<1>1. /\ Stopped(l, kind, reason).log = <<[kind |-> kind, at |-> l.elapsed, reason |-> reason]>>
      /\ Ledger(u) /\ u.terminal /\ u.elapsed = l.elapsed /\ u.events = l.events + 1
  BY StoppedLog
<1>2. Stopped(l, kind, reason) = [ledger |-> u, log |-> Stopped(l, kind, reason).log]
  BY DEF Stopped, Put, Quiet
<1>3. u = [stop EXCEPT !.events = @ + 1]
  BY DEF Stopped, Put, Quiet
<1>4. /\ DOMAIN stop = DOMAIN l /\ Ledger(stop)
      /\ \A f \in DOMAIN l \ {"terminal", "reason"} : stop[f] = l[f]
  BY StopLedger
<1> HIDE DEF u, stop
<1>5. /\ DOMAIN u = DOMAIN l
      /\ \A f \in DOMAIN l \ {"terminal", "reason", "events"} : u[f] = l[f]
  BY <1>3, <1>4
<1> QED BY <1>1, <1>2, <1>5

\* The armed action is one of those that were ever armed, and it has its deadline.
Listed(l) ==
  /\ \E S : l.actions \in Seq(S)
  /\ l.active # 0 => l.active \in 1 .. Len(l.actions) /\ "deadline" \in DOMAIN Action(l)

\* A live owner was not late when the time was last observed.
Timely(l) == l.terminal \/ Late(l, l.elapsed) = "none"

\* A ledger as a call leaves it.
Accounted(l) == Ledger(l) /\ Listed(l) /\ Timely(l)

LEMMA ListedSame ==
  ASSUME NEW l, Listed(l), NEW k, k.actions = l.actions, k.active = l.active
  PROVE  /\ Listed(k)
         /\ \A now : Late(k, now) = Late(l, now)
BY DEF Listed, Late, Action

\* What changes about the row of the armed action leaves its deadline, or disarms it.
LEMMA ListedRow ==
  ASSUME NEW l, Listed(l), l.active # 0, NEW r, "deadline" \in DOMAIN r,
         r.deadline = Action(l).deadline,
         NEW k, k.actions = [l.actions EXCEPT ![l.active] = r], k.active \in {0, l.active}
  PROVE  /\ Listed(k)
         /\ \A now : Late(l, now) = "none" => Late(k, now) = "none"
<1>1. PICK S : l.actions \in Seq(S)
  BY DEF Listed
<1>2. l.active \in 1 .. Len(l.actions)
  BY DEF Listed
<1> DEFINE T == S \cup {r}
<1>3. l.actions \in Seq(T) /\ r \in T
  <2>1. \A i \in 1 .. Len(l.actions) : l.actions[i] \in T
    BY <1>1
  <2>2. Len(l.actions) \in Nat /\ l.actions = [i \in 1 .. Len(l.actions) |-> l.actions[i]]
    BY <1>1
  <2> HIDE DEF T
  <2>3. l.actions \in Seq(T)
    BY <2>1, <2>2, IsASeq
  <2> QED BY <2>3 DEF T
<1> HIDE DEF T
<1>4. k.actions \in Seq(T) /\ Len(k.actions) = Len(l.actions) /\ k.actions[l.active] = r
  BY <1>2, <1>3, ExceptSeq
<1>5. Listed(k)
  BY <1>2, <1>4 DEF Listed, Action
<1>6. ASSUME NEW now, Late(l, now) = "none"
      PROVE  Late(k, now) = "none"
  BY <1>4, <1>6 DEF Late, Action
<1> QED BY <1>5, <1>6

\* A row with a deadline is appended and armed.
LEMMA ListedArm ==
  ASSUME NEW l, Listed(l), NEW row, "deadline" \in DOMAIN row,
         NEW k, k.actions = Append(l.actions, row), k.active = Len(l.actions) + 1
  PROVE  /\ Listed(k) /\ Action(k) = row /\ k.active # 0
<1>1. PICK S : l.actions \in Seq(S)
  BY DEF Listed
<1> DEFINE T == S \cup {row}
<1>2. l.actions \in Seq(T) /\ row \in T /\ Len(l.actions) \in Nat
  <2>1. \A i \in 1 .. Len(l.actions) : l.actions[i] \in T
    BY <1>1
  <2>2. Len(l.actions) \in Nat /\ l.actions = [i \in 1 .. Len(l.actions) |-> l.actions[i]]
    BY <1>1
  <2> HIDE DEF T
  <2>3. l.actions \in Seq(T)
    BY <2>1, <2>2, IsASeq
  <2> QED BY <2>2, <2>3 DEF T
<1> HIDE DEF T
<1>3. k.actions \in Seq(T) /\ Len(k.actions) = Len(l.actions) + 1
      /\ k.actions[Len(l.actions) + 1] = row
  BY <1>2, AppendProperties
<1> QED BY <1>2, <1>3 DEF Listed, Action

\* A stop, or a time before every deadline, keeps the account.
LEMMA StoppedAccounted ==
  ASSUME NEW l, Ledger(l), Listed(l), NEW kind, NEW reason
  PROVE  Accounted(Stopped(l, kind, reason).ledger)
<1>1. PICK u : /\ Stopped(l, kind, reason)
                    = [ledger |-> u, log |-> <<[kind |-> kind, at |-> l.elapsed, reason |-> reason]>>]
               /\ Ledger(u) /\ u.terminal /\ DOMAIN u = DOMAIN l
               /\ \A f \in DOMAIN l \ {"terminal", "reason", "events"} : u[f] = l[f]
  BY StoppedState
<1>2. u.actions = l.actions /\ u.active = l.active
  BY <1>1 DEF Ledger, LedgerFields
<1>3. Accounted(u)
  BY <1>1, <1>2, ListedSame DEF Accounted, Timely
<1> QED BY <1>1, <1>3

LEMMA AtAccounted ==
  ASSUME NEW l, Ledger(l), Listed(l), NEW time \in Nat
  PROVE  /\ Ledger(At(l, time)) /\ Listed(At(l, time))
         /\ Late(l, time) = "none" => Accounted(At(l, time))
<1> DEFINE k == At(l, time)
<1>1. /\ Ledger(k) /\ k.elapsed = time /\ k.actions = l.actions /\ k.active = l.active
  BY AtLedger DEF Ledger, LedgerFields
<1> HIDE DEF k
<1>2. Listed(k) /\ (Late(l, time) = "none" => Accounted(k))
  BY <1>1, ListedSame DEF Accounted, Timely
<1> QED BY <1>1, <1>2 DEF k

FAULTS == {"owner_clock_invalid", "owner_clock_reversed"}

DEADLINES == {"session_deadline", "action_deadline"}

\* A reading of the clock is refused, or is not before the last.
LEMMA ReadingCases ==
  ASSUME NEW l, Ledger(l), NEW reading \in Int
  PROVE  \/ ClockFault(l, reading) \in FAULTS
         \/ ClockFault(l, reading) = "none" /\ reading \in Nat /\ reading >= l.elapsed
BY DEF ClockFault, FAULTS, Ledger

LEMMA LateCases ==
  ASSUME NEW l, NEW now
  PROVE  Late(l, now) \in DEADLINES \cup {"none"}
BY DEF Late, DEADLINES

\* The three ways a look at the clock of a live owner ends; the last two end alike when
\* the clock is looked at again.
LEMMA CheckCases ==
  ASSUME NEW l, Ledger(l), ~l.terminal, NEW reading \in Int
  PROVE  \/ /\ ClockFault(l, reading) \in FAULTS
            /\ CheckDeadline(l, reading) = Stopped(l, "clock_stop", ClockFault(l, reading))
         \/ /\ reading \in Nat /\ reading >= l.elapsed /\ Late(l, reading) \in DEADLINES
            /\ CheckDeadline(l, reading) = Stopped(At(l, reading), "clock_stop", Late(l, reading))
            /\ CheckDeadline(At(l, reading), reading) = CheckDeadline(l, reading)
         \/ /\ reading \in Nat /\ reading >= l.elapsed /\ Late(l, reading) = "none"
            /\ CheckDeadline(l, reading) = Quiet(At(l, reading))
            /\ CheckDeadline(At(l, reading), reading) = CheckDeadline(l, reading)
<1>1. CASE ClockFault(l, reading) \in FAULTS
  <2>1. ClockFault(l, reading) # "none"
    BY <1>1 DEF FAULTS
  <2> QED BY <1>1, <2>1 DEF CheckDeadline
<1>2. CASE ClockFault(l, reading) = "none" /\ reading \in Nat /\ reading >= l.elapsed
  <2> DEFINE seen == At(l, reading)
  <2>1. /\ Ledger(seen) /\ seen.elapsed = reading /\ ~seen.terminal
        /\ At(seen, reading) = seen /\ Late(seen, reading) = Late(l, reading)
    <3>1. "terminal" \in DOMAIN l \ {"elapsed"}
      BY DEF Ledger, LedgerFields
    <3> QED BY <1>2, <3>1, AtLedger, AtAt, LateAt
  <2>2. CheckDeadline(l, reading) =
          IF Late(l, reading) # "none" THEN Stopped(seen, "clock_stop", Late(l, reading))
                                       ELSE Quiet(seen)
    BY <1>2 DEF CheckDeadline, At
  <2>3. CheckDeadline(seen, reading) =
          IF Late(seen, reading) # "none" THEN Stopped(At(seen, reading), "clock_stop", Late(seen, reading))
                                          ELSE Quiet(At(seen, reading))
    <3>1. ClockFault(seen, reading) = "none"
      BY <1>2, <2>1 DEF ClockFault
    <3> HIDE DEF seen
    <3> QED BY <2>1, <3>1 DEF CheckDeadline, At
  <2>4. Late(l, reading) \in DEADLINES \cup {"none"}
    BY LateCases
  <2> HIDE DEF seen
  <2>5. CheckDeadline(seen, reading) = CheckDeadline(l, reading)
    BY <2>1, <2>2, <2>3
  <2> QED BY <1>2, <2>2, <2>4, <2>5 DEF seen, DEADLINES
<1> QED BY <1>1, <1>2, ReadingCases
LEMMA CheckAccounted ==
  ASSUME NEW l, Ledger(l), Listed(l), ~l.terminal, NEW reading \in Int
  PROVE  Accounted(CheckDeadline(l, reading).ledger)
<1>1. ASSUME reading \in Nat
      PROVE  Accounted(Stopped(At(l, reading), "clock_stop", Late(l, reading)).ledger)
  BY <1>1, AtAccounted, StoppedAccounted
<1>2. Accounted(Stopped(l, "clock_stop", ClockFault(l, reading)).ledger)
  BY StoppedAccounted
<1>3. ASSUME reading \in Nat, Late(l, reading) = "none"
      PROVE  Accounted(Quiet(At(l, reading)).ledger)
  BY <1>3, AtAccounted DEF Quiet
<1> QED BY <1>1, <1>2, <1>3, CheckCases

LEMMA TerminateAccounted ==
  ASSUME NEW l, Ledger(l), Listed(l), ~l.terminal, NEW reading \in Int, NEW reason
  PROVE  Accounted(Terminate(l, reason, reading).ledger)
<1> DEFINE checked == CheckDeadline(l, reading).ledger
<1>1. Accounted(checked)
  BY CheckAccounted
<1>2. Accounted(Stopped(checked, "owner_stop", reason).ledger)
  BY <1>1, StoppedAccounted DEF Accounted
<1> QED BY <1>1, <1>2 DEF Terminate
-----------------------------------------------------------------------------
(***************************************************************************)
(* The routing owner: SnapshotsReplay.                                     *)
(*                                                                         *)
(* The rebuilt ledger is the live one but for a time that was observed     *)
(* without an event.  A call sees the old time only to refuse an earlier   *)
(* one, so at the time of the event the rebuilt ledger answers as the live *)
(* one did.  The exception are the two events of a settlement after a      *)
(* deadline, which a replay takes one by one.                              *)
(***************************************************************************)
\* The replay takes the event e on a ledger l, and it has come to this outcome.
Reproduces(l, e, outcome) ==
  /\ outcome.log = <<e>>
  /\ e.at \in Nat /\ e.at >= l.elapsed /\ outcome.ledger.elapsed = e.at
  /\ l.terminal => \/ e.kind = "clock_stop"
                   \/ e.kind = "message" /\ e.message.operation \in CLEANUP_OPERATIONS
  /\ Again(At(l, e.at), e) = outcome

\* A call whose one event is a stop and is reproduced, or that only saw the time.
STOPS == {"clock_stop", "owner_stop", "capacity_stop"}

Unseen(l, outcome) ==
  /\ outcome.log = <<>> /\ ~l.terminal
  /\ \E time \in Nat : /\ time >= l.elapsed /\ Late(l, time) = "none"
                       /\ outcome.ledger = At(l, time)

Restopped(l, outcome) ==
  Unseen(l, outcome) \/ \E e : e.kind \in STOPS /\ Reproduces(l, e, outcome)

\* A call whose events a replay reproduces, or that only saw the time.
Replayable(l, outcome) ==
  \/ Unseen(l, outcome)
  \/ \E e : Reproduces(l, e, outcome)
  \/ \E first, second, u :
       /\ outcome.log = <<first, second>> /\ Ledger(u)
       /\ Reproduces(l, first, [ledger |-> u, log |-> <<first>>])
       /\ Reproduces(u, second, [ledger |-> outcome.ledger, log |-> <<second>>])

\* A fault of the clock, and a full log, whatever the ledger is at.
LEMMA FaultRestops ==
  ASSUME NEW l, Ledger(l), NEW reason \in FAULTS
  PROVE  Restopped(l, Stopped(l, "clock_stop", reason))
<1> DEFINE e == [kind |-> "clock_stop", at |-> l.elapsed, reason |-> reason]
<1>1. /\ Stopped(l, "clock_stop", reason).log = <<e>>
      /\ Stopped(l, "clock_stop", reason).ledger.elapsed = e.at
  BY StoppedLog
<1>2. e.at \in Nat /\ e.at >= l.elapsed /\ At(l, e.at) = l
  BY AtElapsed DEF Ledger
<1>3. e.kind = "clock_stop" /\ e.reason \notin {"session_deadline", "action_deadline"}
      /\ e.reason = reason
  BY DEF FAULTS
<1> HIDE DEF e
<1>4. Again(l, e) = Stopped(l, "clock_stop", reason)
  BY <1>3 DEF Again
<1> QED BY <1>1, <1>2, <1>3, <1>4 DEF Reproduces, Restopped, STOPS

LEMMA CapacityRestops ==
  ASSUME NEW l, Ledger(l), AtCapacity(l)
  PROVE  Restopped(l, CapacityStop(l))
<1> DEFINE e == [kind |-> "capacity_stop", at |-> l.elapsed, reason |-> "ledger_limit"]
<1>1. CapacityStop(l).log = <<e>> /\ CapacityStop(l).ledger.elapsed = e.at
  BY StoppedLog DEF CapacityStop
<1>2. e.at \in Nat /\ e.at >= l.elapsed /\ At(l, e.at) = l
  BY AtElapsed DEF Ledger
<1>3. e.kind = "capacity_stop" /\ ~l.terminal
  BY DEF AtCapacity
<1> HIDE DEF e
<1>4. ~(l.events < MAX_EVENTS[l.kind] - RESERVE)
  BY OwnerAssumption DEF AtCapacity, Ledger
<1>5. Again(l, e) = CapacityStop(l)
  BY <1>3, <1>4 DEF Again
<1> QED BY <1>1, <1>2, <1>3, <1>5 DEF Reproduces, Restopped, STOPS

\* A poll stops the owner at a time that the replay looks at again, or sees the time.
LEMMA CheckRestops ==
  ASSUME NEW l, Ledger(l), ~l.terminal, NEW reading \in Int
  PROVE  Restopped(l, CheckDeadline(l, reading))
<1>1. CASE /\ ClockFault(l, reading) \in FAULTS
           /\ CheckDeadline(l, reading) = Stopped(l, "clock_stop", ClockFault(l, reading))
  BY <1>1, FaultRestops
<1>2. CASE /\ reading \in Nat /\ reading >= l.elapsed /\ Late(l, reading) \in DEADLINES
           /\ CheckDeadline(l, reading) = Stopped(At(l, reading), "clock_stop", Late(l, reading))
           /\ CheckDeadline(At(l, reading), reading) = CheckDeadline(l, reading)
  <2> DEFINE e == [kind |-> "clock_stop", at |-> reading, reason |-> Late(l, reading)]
  <2>1. Ledger(At(l, reading)) /\ At(l, reading).elapsed = reading
    BY <1>2, AtLedger
  <2>2. CheckDeadline(l, reading).log = <<e>> /\ CheckDeadline(l, reading).ledger.elapsed = reading
    BY <1>2, <2>1, StoppedLog
  <2>3. e.kind = "clock_stop" /\ e.at = reading /\ e.reason \in DEADLINES
    BY <1>2
  <2> HIDE DEF e
  <2>4. Again(At(l, reading), e) = CheckDeadline(l, reading)
    BY <1>2, <2>3 DEF Again, DEADLINES
  <2>5. Reproduces(l, e, CheckDeadline(l, reading))
    BY <1>2, <2>2, <2>3, <2>4 DEF Reproduces
  <2> QED BY <2>3, <2>5 DEF Restopped, STOPS
<1>3. CASE /\ reading \in Nat /\ reading >= l.elapsed /\ Late(l, reading) = "none"
           /\ CheckDeadline(l, reading) = Quiet(At(l, reading))
  BY <1>3 DEF Restopped, Unseen, Quiet
<1> QED BY <1>1, <1>2, <1>3, CheckCases

\* An end is told again as an end, or as the stop that came before it.
LEMMA TerminateRestops ==
  ASSUME NEW l, Ledger(l), ~l.terminal, NEW reading \in Int, NEW reason
  PROVE  Restopped(l, Terminate(l, reason, reading))
<1> DEFINE checked == CheckDeadline(l, reading)
<1>1. CASE checked.ledger.terminal \/ ~MayStop(l, reason)
  BY <1>1, CheckRestops DEF Terminate
<1>2. CASE ~checked.ledger.terminal /\ MayStop(l, reason)
  <2>1. /\ reading \in Nat /\ reading >= l.elapsed
        /\ checked = Quiet(At(l, reading))
        /\ CheckDeadline(At(l, reading), reading) = checked
    <3>1. Stopped(l, "clock_stop", ClockFault(l, reading)).ledger.terminal
      BY StoppedLog
    <3>2. ASSUME reading \in Nat
          PROVE  Stopped(At(l, reading), "clock_stop", Late(l, reading)).ledger.terminal
      BY <3>2, AtLedger, StoppedLog
    <3>3. checked # Stopped(l, "clock_stop", ClockFault(l, reading))
      <4> HIDE DEF checked
      <4> QED BY <1>2, <3>1
    <3>4. reading \in Nat => checked # Stopped(At(l, reading), "clock_stop", Late(l, reading))
      <4> HIDE DEF checked
      <4> QED BY <1>2, <3>2
    <3> QED BY <3>3, <3>4, CheckCases
  <2> DEFINE seen == At(l, reading)
             e    == [kind |-> "owner_stop", at |-> reading, reason |-> reason]
  <2>2. Ledger(seen) /\ seen.elapsed = reading /\ ~seen.terminal /\ Unsettled(seen) = Unsettled(l)
    BY <2>1, AtLedger DEF Unsettled, Ledger, LedgerFields
  <2>3. Terminate(l, reason, reading) = Stopped(seen, "owner_stop", reason)
    BY <1>2, <2>1 DEF Terminate, Quiet
  <2>4. Terminate(seen, reason, reading) = Stopped(seen, "owner_stop", reason)
    <3>1. CheckDeadline(seen, reading).ledger = seen
      BY <2>1 DEF Quiet
    <3>2. MayStop(seen, reason)
      BY <1>2, <2>2 DEF MayStop
    <3> HIDE DEF seen
    <3> QED BY <2>2, <3>1, <3>2 DEF Terminate
  <2>5. Stopped(seen, "owner_stop", reason).log = <<e>>
        /\ Stopped(seen, "owner_stop", reason).ledger.elapsed = reading
    <3> HIDE DEF seen
    <3> QED BY <2>2, StoppedLog
  <2>6. e.kind = "owner_stop" /\ e.at = reading /\ e.reason = reason
    OBVIOUS
  <2> HIDE DEF e, seen
  <2>7. Again(seen, e) = Terminate(seen, reason, reading)
    BY <2>6 DEF Again
  <2>8. Reproduces(l, e, Terminate(l, reason, reading))
    BY <1>2, <2>1, <2>3, <2>4, <2>5, <2>6, <2>7 DEF Reproduces, seen
  <2> QED BY <2>6, <2>8 DEF Restopped, STOPS
<1> QED BY <1>1, <1>2

\* The event that a message leaves behind.
MessageEvent(l, m, reply) ==
  [kind |-> "message", at |-> l.elapsed, message |-> m, reply |-> reply]

\* One event more.
Counted(l) == [l EXCEPT !.events = @ + 1]

LEMMA RepliedLog ==
  ASSUME NEW l, Ledger(l), NEW log, NEW m, NEW reply
  PROVE  /\ Replied([ledger |-> l, log |-> log], m, reply)
              = [ledger |-> Counted(l), log |-> Append(log, MessageEvent(l, m, reply))]
         /\ Ledger(Counted(l)) /\ DOMAIN Counted(l) = DOMAIN l
         /\ Counted(l).events = l.events + 1
         /\ \A f \in DOMAIN l \ {"events"} : Counted(l)[f] = l[f]
<1>1. Replied([ledger |-> l, log |-> log], m, reply)
        = Put([ledger |-> l, log |-> log], MessageEvent(l, m, reply))
  BY DEF Replied, MessageEvent
<1>2. Put([ledger |-> l, log |-> log], MessageEvent(l, m, reply))
        = [ledger |-> Counted(l), log |-> Append(log, MessageEvent(l, m, reply))]
  BY DEF Put, Counted
<1>3. /\ DOMAIN Counted(l) = DOMAIN l
      /\ Counted(l) = [f \in DOMAIN Counted(l) |-> Counted(l)[f]]
      /\ Counted(l).events = l.events + 1
      /\ \A f \in DOMAIN l \ {"events"} : Counted(l)[f] = l[f]
  BY DEF Ledger, LedgerFields, Counted
<1>4. Ledger(Counted(l))
  BY <1>3 DEF Ledger, LedgerFields
<1> QED BY <1>1, <1>2, <1>3, <1>4

LEMMA CountedAccounted ==
  ASSUME NEW l, Accounted(l)
  PROVE  Accounted(Counted(l))
<1> DEFINE k == Counted(l)
<1>1. Ledger(l) /\ Listed(l) /\ Timely(l)
  BY DEF Accounted
<1>2. /\ Ledger(k) /\ k.elapsed = l.elapsed /\ k.terminal = l.terminal
      /\ k.actions = l.actions /\ k.active = l.active
  <2>1. {"elapsed", "terminal", "actions", "active"} \subseteq DOMAIN l \ {"events"}
    BY <1>1 DEF Ledger, LedgerFields
  <2>2. Ledger(k) /\ \A f \in DOMAIN l \ {"events"} : k[f] = l[f]
    BY <1>1, RepliedLog
  <2> HIDE DEF k
  <2> QED BY <2>1, <2>2
<1> HIDE DEF k
<1>3. Accounted(k)
  BY <1>1, <1>2, ListedSame DEF Accounted, Timely
<1> QED BY <1>3 DEF k

LEMMA AppendToOne ==
  ASSUME NEW a, NEW b
  PROVE  Append(<<a>>, b) = <<a, b>>
<1> DEFINE S == {a, b}
<1>1. <<a>> \in Seq(S) /\ <<a, b>> \in Seq(S) /\ b \in S
  OBVIOUS
<1> HIDE DEF S
<1>2. /\ Append(<<a>>, b) \in Seq(S) /\ Len(Append(<<a>>, b)) = Len(<<a>>) + 1
      /\ Append(<<a>>, b)[Len(<<a>>) + 1] = b
      /\ \A i \in 1 .. Len(<<a>>) : Append(<<a>>, b)[i] = <<a>>[i]
  BY <1>1, AppendProperties
<1>3. Len(<<a>>) = 1 /\ Len(<<a, b>>) = 2
  OBVIOUS
<1>4. /\ Append(<<a>>, b)[1] = <<a, b>>[1]
      /\ Append(<<a>>, b)[2] = <<a, b>>[2]
  BY <1>2, <1>3
<1>5. \A i \in 1 .. 2 : i = 1 \/ i = 2
  OBVIOUS
<1> DEFINE long  == Append(<<a>>, b)
           short == <<a, b>>
<1>6. \A i \in 1 .. Len(long) : long[i] = short[i]
  BY <1>2, <1>3, <1>4, <1>5
<1>7. long \in Seq(S) /\ short \in Seq(S) /\ Len(long) = Len(short)
  BY <1>1, <1>2, <1>3
<1> HIDE DEF long, short
<1>8. long = short
  BY <1>6, <1>7, SeqEqual
<1> QED BY <1>8 DEF long, short

\* As the only event, or as the second.
LEMMA RepliedOnce ==
  ASSUME NEW l, Ledger(l), NEW m, NEW reply
  PROVE  Replied(Quiet(l), m, reply)
           = [ledger |-> Counted(l), log |-> <<MessageEvent(l, m, reply)>>]
<1> DEFINE e == MessageEvent(l, m, reply)
<1>1. Replied(Quiet(l), m, reply) = [ledger |-> Counted(l), log |-> Append(<< >>, e)]
  BY DEF Quiet, Replied, Put, MessageEvent, Counted
<1>2. Append(<< >>, e) = <<e>>
  <2> HIDE DEF e
  <2> QED OBVIOUS
<1> QED BY <1>1, <1>2

LEMMA RepliedTwice ==
  ASSUME NEW l, Ledger(l), NEW first, NEW m, NEW reply
  PROVE  Replied([ledger |-> l, log |-> <<first>>], m, reply)
           = [ledger |-> Counted(l), log |-> <<first, MessageEvent(l, m, reply)>>]
<1> DEFINE e == MessageEvent(l, m, reply)
<1>1. Replied([ledger |-> l, log |-> <<first>>], m, reply)
        = [ledger |-> Counted(l), log |-> Append(<<first>>, e)]
  BY DEF Replied, Put, MessageEvent, Counted
<1>2. Append(<<first>>, e) = <<first, e>>
  BY AppendToOne
<1> QED BY <1>1, <1>2

\* A refusal is one reply to one ledger, whatever was appended before.
LEMMA DeniedReplies ==
  ASSUME NEW l, Ledger(l), NEW m, NEW reason
  PROVE  /\ Ledger(Stop(l, reason)) /\ Stop(l, reason).elapsed = l.elapsed
         /\ \A log : Denied([ledger |-> l, log |-> log], m, reason)
                       = Replied([ledger |-> Stop(l, reason), log |-> log], m,
                                 Reply("denied", reason, 0))
<1>1. Ledger(Stop(l, reason)) /\ Stop(l, reason).elapsed = l.elapsed
  BY StopLedger DEF Ledger, LedgerFields
<1>2. ASSUME NEW log
      PROVE  [[ledger |-> l, log |-> log] EXCEPT !.ledger = Stop(@, reason)]
               = [ledger |-> Stop(l, reason), log |-> log]
  OBVIOUS
<1> QED BY <1>1, <1>2 DEF Denied

\* So is a grant: the rate answers for the ledger as it is, and all else for what the
\* operation makes of it.
Waits(l, m) == m.operation = "RESERVE_CONNECTION" /\ TooSoon(l, l.elapsed)

GrantedReply(l, m) ==
  IF Waits(l, m) THEN Reply("wait", "admission_rate", RATE_US - (l.elapsed - l.admitted))
                 ELSE Reply("ok", "none", 0)

LEMMA GrantedReplies ==
  ASSUME NEW l, NEW m, NEW performed, NEW log
  PROVE  Granted([ledger |-> l, log |-> log], m, performed) =
           Replied([ledger |-> IF Waits(l, m) THEN l ELSE performed, log |-> log], m,
                   GrantedReply(l, m))
<1>1. [[ledger |-> l, log |-> log] EXCEPT !.ledger = performed]
        = [ledger |-> performed, log |-> log]
  OBVIOUS
<1> QED BY <1>1 DEF Granted, Waits, GrantedReply

ROUTING_OPERATIONS ==
  {"ARM", "RESERVE_CONNECTION", "RESERVE_REQUEST", "RESERVE_BYTES", "FINISH_CONNECTION",
   "FINISH_ACTION", "STOP"}

\* The counters of the owner and of the action move, and nothing of the log.
LEMMA ReservedLedger ==
  ASSUME NEW l, Ledger(l), NEW counter, NEW amount
  PROVE  /\ Ledger(Reserved(l, counter, amount))
         /\ Reserved(l, counter, amount).elapsed = l.elapsed
         /\ Reserved(l, counter, amount).terminal = l.terminal
<1>1. Reserved(l, counter, amount) =
        [l EXCEPT !.counters = [l.counters EXCEPT ![counter] = @ + amount],
                  !.actions = [l.actions EXCEPT ![l.active] =
                    [l.actions[l.active] EXCEPT !.counters =
                      [l.actions[l.active].counters EXCEPT ![counter] = @ + amount]]]]
  BY DEF Reserved
<1> QED BY <1>1 DEF Ledger, LedgerFields

\* No operation moves the time or the log.
LEMMA PerformedLedger ==
  ASSUME NEW l, Ledger(l), NEW m, m.operation \in ROUTING_OPERATIONS, NEW now
  PROVE  Ledger(Performed(l, m, now)) /\ Performed(l, m, now).elapsed = l.elapsed
<1>1. CASE m.operation = "ARM"
  <2>1. Performed(l, m, now) = Armed(l, m, now)
    BY <1>1 DEF Performed
  <2> QED BY <2>1 DEF Armed, Ledger, LedgerFields
<1>2. CASE m.operation = "RESERVE_CONNECTION"
  <2>1. Performed(l, m, now) = Connected(l, m, now)
    BY <1>2 DEF Performed
  <2> DEFINE reserved == Reserved(l, "connections", 1)
  <2>2. Ledger(reserved) /\ reserved.elapsed = l.elapsed
    BY ReservedLedger
  <2>3. Performed(l, m, now) =
          [reserved EXCEPT !.connection = m.local_id, !.requested = FALSE, !.admitted = now]
    BY <2>1 DEF Connected
  <2> HIDE DEF reserved
  <2> QED BY <2>2, <2>3 DEF Ledger, LedgerFields
<1>3. CASE m.operation = "RESERVE_REQUEST"
  <2> DEFINE reserved == Reserved(l, Requests(m.role), 1)
  <2>1. Performed(l, m, now) = [reserved EXCEPT !.requested = TRUE]
    BY <1>3 DEF Performed
  <2>2. Ledger(reserved) /\ reserved.elapsed = l.elapsed
    BY ReservedLedger
  <2> DEFINE asked == [reserved EXCEPT !.requested = TRUE]
  <2> HIDE DEF reserved
  <2>3. /\ DOMAIN asked = DOMAIN reserved /\ asked = [f \in DOMAIN asked |-> asked[f]]
        /\ \A f \in DOMAIN reserved \ {"requested"} : asked[f] = reserved[f]
    OBVIOUS
  <2> HIDE DEF asked
  <2>4. Ledger(asked) /\ asked.elapsed = reserved.elapsed
    BY <2>2, <2>3 DEF Ledger, LedgerFields
  <2> QED BY <2>1, <2>2, <2>4 DEF asked
<1>4. CASE m.operation = "RESERVE_BYTES"
  <2>1. Performed(l, m, now) = Reserved(l, m.direction, m.bytes)
    BY <1>4 DEF Performed
  <2> QED BY <2>1, ReservedLedger
<1>5. CASE m.operation = "FINISH_CONNECTION"
  <2>1. Performed(l, m, now) = Disconnected(l)
    BY <1>5 DEF Performed
  <2> QED BY <2>1 DEF Disconnected, Ledger, LedgerFields
<1>6. CASE m.operation = "FINISH_ACTION"
  <2>1. Performed(l, m, now) = FinishedAction(l, m)
    BY <1>6 DEF Performed
  <2> DEFINE row      == [l.actions[l.active] EXCEPT !.status = "finished", !.retained = m.output]
             finished == [l EXCEPT !.active = 0, !.actions = [l.actions EXCEPT ![l.active] = row]]
  <2>2. Ledger(finished) /\ finished.elapsed = l.elapsed
    <3> HIDE DEF row
    <3> QED BY DEF Ledger, LedgerFields
  <2>3. Performed(l, m, now) \in {finished, Stop(finished, "declared_negative_completed")}
    BY <2>1 DEF FinishedAction
  <2> HIDE DEF finished
  <2>4. Ledger(Stop(finished, "declared_negative_completed"))
        /\ Stop(finished, "declared_negative_completed").elapsed = l.elapsed
    BY <2>2, StopLedger DEF Ledger, LedgerFields
  <2> QED BY <2>2, <2>3, <2>4
<1>7. CASE m.operation = "STOP"
  <2>1. Performed(l, m, now) = Stop(l, m.reason)
    BY <1>7 DEF Performed
  <2> QED BY <2>1, StopLedger DEF Ledger, LedgerFields
<1> QED BY <1>1, <1>2, <1>3, <1>4, <1>5, <1>6, <1>7 DEF ROUTING_OPERATIONS

\* The row of the armed action is another one, with the deadline it had.
Rewritten(l, actions) ==
  \E r : /\ "deadline" \in DOMAIN r /\ r.deadline = Action(l).deadline
        /\ actions = [l.actions EXCEPT ![l.active] = r]

LEMMA RewrittenListed ==
  ASSUME NEW l, Listed(l), l.active # 0, NEW k, k.active \in {0, l.active}, Rewritten(l, k.actions)
  PROVE  Listed(k) /\ \A now : Late(l, now) = "none" => Late(k, now) = "none"
<1>1. PICK r : /\ "deadline" \in DOMAIN r /\ r.deadline = Action(l).deadline
               /\ k.actions = [l.actions EXCEPT ![l.active] = r]
  BY DEF Rewritten
<1> QED BY <1>1, ListedRow

\* A reservation is written into the row of the armed action.
LEMMA ReservedRow ==
  ASSUME NEW l, Ledger(l), Listed(l), l.active # 0, NEW counter, NEW amount
  PROVE  /\ Reserved(l, counter, amount).active = l.active
         /\ Rewritten(l, Reserved(l, counter, amount).actions)
<1> DEFINE row == l.actions[l.active]
           sum == [row.counters EXCEPT ![counter] = @ + amount]
           r   == [row EXCEPT !.counters = sum]
<1>1. /\ Reserved(l, counter, amount).active = l.active
      /\ Reserved(l, counter, amount).actions = [l.actions EXCEPT ![l.active] = r]
  <2>1. Reserved(l, counter, amount) =
          [l EXCEPT !.counters = [l.counters EXCEPT ![counter] = @ + amount],
                    !.actions = [l.actions EXCEPT ![l.active] = r]]
    BY DEF Reserved
  <2> HIDE DEF r
  <2> QED BY <2>1 DEF Ledger, LedgerFields
<1>2. "deadline" \in DOMAIN r /\ r.deadline = Action(l).deadline
  <2>1. "deadline" \in DOMAIN row
    BY DEF Listed, Action
  <2> HIDE DEF sum
  <2> QED BY <2>1 DEF Action
<1> HIDE DEF r
<1> QED BY <1>1, <1>2 DEF Rewritten

\* A stopped owner stays stopped.
LEMMA PerformedStopped ==
  ASSUME NEW l, Ledger(l), l.terminal, NEW m, m.operation \in ROUTING_OPERATIONS, NEW now
  PROVE  Performed(l, m, now).terminal
<1>1. CASE m.operation = "ARM"
  BY <1>1 DEF Performed, Armed, Ledger, LedgerFields
<1>2. CASE m.operation = "RESERVE_CONNECTION"
  <2>1. Performed(l, m, now) = [Reserved(l, "connections", 1) EXCEPT
                                  !.connection = m.local_id, !.requested = FALSE, !.admitted = now]
    BY <1>2 DEF Performed, Connected
  <2>2. Ledger(Reserved(l, "connections", 1)) /\ Reserved(l, "connections", 1).terminal
    BY ReservedLedger
  <2> QED BY <2>1, <2>2 DEF Ledger, LedgerFields
<1>3. CASE m.operation = "RESERVE_REQUEST"
  <2>1. Performed(l, m, now) = [Reserved(l, Requests(m.role), 1) EXCEPT !.requested = TRUE]
    BY <1>3 DEF Performed
  <2>2. Ledger(Reserved(l, Requests(m.role), 1)) /\ Reserved(l, Requests(m.role), 1).terminal
    BY ReservedLedger
  <2> QED BY <2>1, <2>2 DEF Ledger, LedgerFields
<1>4. CASE m.operation = "RESERVE_BYTES"
  BY <1>4, ReservedLedger DEF Performed
<1>5. CASE m.operation = "FINISH_CONNECTION"
  BY <1>5 DEF Performed, Disconnected, Ledger, LedgerFields
<1>6. CASE m.operation = "FINISH_ACTION"
  <2> DEFINE row      == [l.actions[l.active] EXCEPT !.status = "finished", !.retained = m.output]
             finished == [l EXCEPT !.active = 0, !.actions = [l.actions EXCEPT ![l.active] = row]]
  <2>1. finished.terminal
    BY DEF Ledger, LedgerFields
  <2>2. Performed(l, m, now) = IF Action(l).selector \in Negative
                               THEN Stop(finished, "declared_negative_completed") ELSE finished
    BY <1>6 DEF Performed, FinishedAction
  <2> HIDE DEF finished
  <2> QED BY <2>1, <2>2 DEF Stop
<1>7. CASE m.operation = "STOP"
  BY <1>7 DEF Performed, Stop
<1> QED BY <1>1, <1>2, <1>3, <1>4, <1>5, <1>6, <1>7 DEF ROUTING_OPERATIONS

\* An operation that is permitted keeps the armed action and its deadline, or arms the
\* next one with a deadline to come.
LEMMA PerformedListed ==
  ASSUME NEW l, Ledger(l), Listed(l), NEW m, m.operation \in ROUTING_OPERATIONS,
         m.operation = "ARM" => m.selector \in Selectors,
         NEW now \in Nat, Permitted(l, m, now)
  PROVE  /\ Listed(Performed(l, m, now))
         /\ Late(l, now) = "none" /\ ~l.terminal =>
              \/ Performed(l, m, now).terminal
              \/ Late(Performed(l, m, now), now) = "none"
<1>1. CASE m.operation = "ARM"
  <2> DEFINE k   == Armed(l, m, now)
  <2>1. Performed(l, m, now) = k /\ MayArm(l, m)
    BY <1>1 DEF Performed, Permitted
  <2> DEFINE new == [selector |-> m.selector,
                     deadline |-> Earlier(SESSION_US, now + Bounds[m.selector].timeout),
                     status |-> "active", connections_finished |-> 0, retained |-> 0,
                     counters |-> [c \in COUNTERS |-> IF c = "output_bytes"
                                                      THEN Bounds[m.selector][c] ELSE 0]]
  <2>2. k.actions = Append(l.actions, new) /\ k.active = m.number
    BY DEF Armed, Ledger, LedgerFields
  <2>3. m.number = Len(l.actions) + 1
    BY <2>1 DEF MayArm
  <2>4. "deadline" \in DOMAIN new /\ new.deadline = Earlier(SESSION_US, now + Bounds[m.selector].timeout)
    OBVIOUS
  <2>5. now < SESSION_US => new.deadline > now /\ new.deadline \in Nat
    <3>1. Bounds[m.selector].timeout \in Nat \ {0}
      BY <1>1, RoutingAssumption
    <3> HIDE DEF new
    <3> QED BY <2>4, <3>1, OwnerAssumption DEF Earlier
  <2> HIDE DEF k, new
  <2>6. Listed(k) /\ Action(k) = new /\ k.active # 0
    BY <2>2, <2>3, <2>4, ListedArm
  <2>7. Late(l, now) = "none" => Late(k, now) = "none"
    BY <2>5, <2>6, OwnerAssumption DEF Late
  <2> QED BY <2>1, <2>6, <2>7
<1>2. ASSUME m.operation \notin {"ARM", "STOP"}
      PROVE  /\ l.active # 0 /\ Performed(l, m, now).active \in {0, l.active}
             /\ Rewritten(l, Performed(l, m, now).actions)
  <2>1. CASE m.operation = "RESERVE_CONNECTION"
    <3>1. l.active # 0
      BY <2>1 DEF Permitted, MayConnect, BoundFrontend
    <3> DEFINE reserved == Reserved(l, "connections", 1)
    <3>2. Performed(l, m, now) = [reserved EXCEPT !.connection = m.local_id,
                                                  !.requested = FALSE, !.admitted = now]
      BY <2>1 DEF Performed, Connected
    <3>3. Ledger(reserved)
      BY ReservedLedger
    <3>4. reserved.active = l.active /\ Rewritten(l, reserved.actions)
      BY <3>1, ReservedRow
    <3> HIDE DEF reserved
    <3>5. Performed(l, m, now).active = reserved.active
          /\ Performed(l, m, now).actions = reserved.actions
      BY <3>2, <3>3 DEF Ledger, LedgerFields
    <3> QED BY <3>1, <3>4, <3>5
  <2>2. CASE m.operation = "RESERVE_REQUEST"
    <3>1. l.active # 0
      BY <2>2 DEF Permitted, MayRequest, BoundConnection, BoundFrontend
    <3> DEFINE reserved == Reserved(l, Requests(m.role), 1)
    <3>2. Performed(l, m, now) = [reserved EXCEPT !.requested = TRUE]
      BY <2>2 DEF Performed
    <3>3. Ledger(reserved)
      BY ReservedLedger
    <3>4. reserved.active = l.active /\ Rewritten(l, reserved.actions)
      BY <3>1, ReservedRow
    <3> HIDE DEF reserved
    <3>5. Performed(l, m, now).active = reserved.active
          /\ Performed(l, m, now).actions = reserved.actions
      BY <3>2, <3>3 DEF Ledger, LedgerFields
    <3> QED BY <3>1, <3>4, <3>5
  <2>3. CASE m.operation = "RESERVE_BYTES"
    <3>1. l.active # 0
      BY <2>3 DEF Permitted, MayTransfer, BoundConnection, BoundFrontend
    <3>2. Performed(l, m, now) = Reserved(l, m.direction, m.bytes)
      BY <2>3 DEF Performed
    <3> QED BY <3>1, <3>2, ReservedRow
  <2>4. CASE m.operation = "FINISH_CONNECTION"
    <3>1. l.active # 0
      BY <2>4 DEF Permitted, BoundConnection, BoundFrontend
    <3> DEFINE row   == l.actions[l.active]
               count == row.connections_finished + 1
               r     == [row EXCEPT !.connections_finished = count]
    <3>2. Performed(l, m, now) = [l EXCEPT !.connection = 0, !.requested = FALSE,
                                           !.actions = [l.actions EXCEPT ![l.active] = r]]
      BY <2>4 DEF Performed, Disconnected
    <3>3. "deadline" \in DOMAIN r /\ r.deadline = Action(l).deadline
      BY <3>1 DEF Listed, Action
    <3> HIDE DEF r
    <3>4. Performed(l, m, now).active = l.active
          /\ Performed(l, m, now).actions = [l.actions EXCEPT ![l.active] = r]
      BY <3>2 DEF Ledger, LedgerFields
    <3> QED BY <3>1, <3>3, <3>4 DEF Rewritten
  <2>5. CASE m.operation = "FINISH_ACTION"
    <3>1. l.active # 0
      BY <2>5 DEF Permitted, MayFinishAction, BoundAction
    <3> DEFINE row      == l.actions[l.active]
               r        == [row EXCEPT !.status = "finished", !.retained = m.output]
               finished == [l EXCEPT !.active = 0, !.actions = [l.actions EXCEPT ![l.active] = r]]
    <3>2. Performed(l, m, now) = IF Action(l).selector \in Negative
                                 THEN Stop(finished, "declared_negative_completed") ELSE finished
      <4>1. [l EXCEPT !.active = 0, !.actions[l.active] =
              [@ EXCEPT !.status = "finished", !.retained = m.output]] = finished
        OBVIOUS
      <4> QED BY <2>5, <4>1 DEF Performed, FinishedAction
    <3>3. "deadline" \in DOMAIN r /\ r.deadline = Action(l).deadline
      BY <3>1 DEF Listed, Action
    <3> HIDE DEF r
    <3>4. finished.active = 0 /\ finished.actions = [l.actions EXCEPT ![l.active] = r]
          /\ Ledger(finished)
      BY DEF Ledger, LedgerFields
    <3> HIDE DEF finished
    <3>5. Stop(finished, "declared_negative_completed").active = finished.active
          /\ Stop(finished, "declared_negative_completed").actions = finished.actions
      BY <3>4, StopLedger DEF Ledger, LedgerFields
    <3>6. Performed(l, m, now).active = finished.active
          /\ Performed(l, m, now).actions = finished.actions
      BY <3>2, <3>5
    <3>7. Rewritten(l, finished.actions)
      BY <3>3, <3>4 DEF Rewritten
    <3> QED BY <3>1, <3>4, <3>6, <3>7
  <2> QED BY <1>2, <2>1, <2>2, <2>3, <2>4, <2>5 DEF ROUTING_OPERATIONS
<1>3. CASE m.operation = "STOP"
  <2>1. Performed(l, m, now) = Stop(l, m.reason)
    BY <1>3 DEF Performed
  <2>2. Stop(l, m.reason).terminal /\ Stop(l, m.reason).actions = l.actions
        /\ Stop(l, m.reason).active = l.active
    BY StopLedger DEF Ledger, LedgerFields
  <2> QED BY <2>1, <2>2, ListedSame
<1>4. CASE m.operation \notin {"ARM", "STOP"}
  <2> DEFINE k == Performed(l, m, now)
  <2>1. Rewritten(l, k.actions)
    BY <1>2, <1>4
  <2>2. l.active # 0 /\ k.active \in {0, l.active}
    BY <1>2, <1>4
  <2> HIDE DEF k
  <2>3. Listed(k) /\ (Late(l, now) = "none" => Late(k, now) = "none")
    BY <2>1, <2>2, RewrittenListed
  <2> QED BY <2>3 DEF k
<1> QED BY <1>1, <1>3, <1>4

\* What a permitted or refused message comes to, in one place.
Decided(outcome, m, now) ==
  IF Permitted(outcome.ledger, m, now)
  THEN Granted(outcome, m, Performed(outcome.ledger, m, now))
  ELSE Denied(outcome, m, "refused")

DecidedLedger(l, m, now) ==
  IF ~Permitted(l, m, now) THEN Stop(l, "refused")
  ELSE IF Waits(l, m) THEN l ELSE Performed(l, m, now)

DecidedReply(l, m, now) ==
  IF Permitted(l, m, now) THEN GrantedReply(l, m) ELSE Reply("denied", "refused", 0)

LEMMA DecidedReplies ==
  ASSUME NEW l, Ledger(l), NEW m, m.operation \in ROUTING_OPERATIONS, NEW now
  PROVE  /\ Ledger(DecidedLedger(l, m, now)) /\ DecidedLedger(l, m, now).elapsed = l.elapsed
         /\ \A log : Decided([ledger |-> l, log |-> log], m, now) =
              Replied([ledger |-> DecidedLedger(l, m, now), log |-> log], m, DecidedReply(l, m, now))
<1>1. Ledger(DecidedLedger(l, m, now)) /\ DecidedLedger(l, m, now).elapsed = l.elapsed
  BY PerformedLedger, DeniedReplies DEF DecidedLedger
<1>2. ASSUME NEW log
      PROVE  Decided([ledger |-> l, log |-> log], m, now) =
               Replied([ledger |-> DecidedLedger(l, m, now), log |-> log], m, DecidedReply(l, m, now))
  BY GrantedReplies, DeniedReplies DEF Decided, DecidedLedger, DecidedReply
<1> QED BY <1>1, <1>2

LEMMA DecidedListed ==
  ASSUME NEW l, Ledger(l), Listed(l), Timely(l), NEW m, m.operation \in ROUTING_OPERATIONS,
         m.operation = "ARM" => m.selector \in Selectors, NEW now \in Nat, l.elapsed = now
  PROVE  /\ Listed(DecidedLedger(l, m, now)) /\ Timely(DecidedLedger(l, m, now))
         /\ l.terminal => DecidedLedger(l, m, now).terminal
<1> DEFINE y == DecidedLedger(l, m, now)
<1>1. y.elapsed = now
  BY DecidedReplies
<1>2. CASE ~Permitted(l, m, now)
  <2>1. y = Stop(l, "refused")
    BY <1>2 DEF DecidedLedger
  <2>2. y.terminal /\ y.actions = l.actions /\ y.active = l.active
    BY <2>1, StopLedger DEF Ledger, LedgerFields
  <2> HIDE DEF y
  <2>3. Listed(y) /\ Timely(y)
    BY <2>2, ListedSame DEF Timely
  <2> QED BY <2>2, <2>3 DEF y
<1>3. CASE Permitted(l, m, now) /\ Waits(l, m)
  BY <1>3 DEF DecidedLedger
<1>4. CASE Permitted(l, m, now) /\ ~Waits(l, m)
  <2>1. y = Performed(l, m, now)
    BY <1>4 DEF DecidedLedger
  <2>2. Listed(y)
    BY <1>4, <2>1, PerformedListed
  <2>3. l.terminal => y.terminal
    BY <2>1, PerformedStopped
  <2>4. ~l.terminal => y.terminal \/ Late(y, now) = "none"
    BY <1>4, <2>1, PerformedListed DEF Timely
  <2> HIDE DEF y
  <2>5. Timely(y)
    BY <1>1, <2>3, <2>4 DEF Timely
  <2> QED BY <2>2, <2>3, <2>5 DEF y
<1> QED BY <1>2, <1>3, <1>4

\* The sequence of a message is consumed.
Taken(l, m) == [l EXCEPT !.sequences[m.role] = m.sequence]

LEMMA TakenLedger ==
  ASSUME NEW l, Ledger(l), NEW m
  PROVE  /\ Ledger(Taken(l, m)) /\ DOMAIN Taken(l, m) = DOMAIN l
         /\ \A f \in DOMAIN l \ {"sequences"} : Taken(l, m)[f] = l[f]
<1>1. Taken(l, m) = [l EXCEPT !.sequences = [l.sequences EXCEPT ![m.role] = m.sequence]]
  BY DEF Taken
<1> QED BY <1>1 DEF Ledger, LedgerFields

\* It does not matter whether it is consumed before or after a stop.
LEMMA TakenStopped ==
  ASSUME NEW l, Ledger(l), ~l.terminal, NEW m, NEW kind, NEW reason, NEW u, NEW log,
         Stopped(l, kind, reason) = [ledger |-> u, log |-> log]
  PROVE  Stopped(Taken(l, m), kind, reason) = [ledger |-> Taken(u, m), log |-> log]
<1> DEFINE taken == [l.sequences EXCEPT ![m.role] = m.sequence]
           event == [kind |-> kind, at |-> l.elapsed, reason |-> reason]
<1>1. Taken(l, m) = [l EXCEPT !.sequences = taken]
  BY DEF Taken
<1>2. u = [l EXCEPT !.terminal = TRUE, !.reason = reason, !.events = l.events + 1]
      /\ log = Append(<< >>, event)
  BY DEF Stopped, Stop, Put, Quiet, Ledger, LedgerFields
<1>3. Ledger(Taken(l, m)) /\ ~Taken(l, m).terminal /\ Taken(l, m).elapsed = l.elapsed
      /\ Taken(l, m).events = l.events
  BY TakenLedger DEF Ledger, LedgerFields
<1>4. Stopped(Taken(l, m), kind, reason)
        = [ledger |-> [Taken(l, m) EXCEPT !.terminal = TRUE, !.reason = reason, !.events = l.events + 1],
           log |-> Append(<< >>, event)]
  <2> DEFINE k == Taken(l, m)
  <2>1. Stop(k, reason) = [k EXCEPT !.terminal = TRUE, !.reason = reason]
    BY <1>3 DEF Stop
  <2>2. k.elapsed = l.elapsed /\ k.events = l.events /\ Ledger(k)
    BY <1>3
  <2> HIDE DEF k
  <2>3. [[k EXCEPT !.terminal = TRUE, !.reason = reason] EXCEPT !.events = @ + 1]
          = [k EXCEPT !.terminal = TRUE, !.reason = reason, !.events = l.events + 1]
    BY <2>2 DEF Ledger, LedgerFields
  <2>4. Stopped(k, kind, reason)
          = [ledger |-> [[k EXCEPT !.terminal = TRUE, !.reason = reason] EXCEPT !.events = @ + 1],
             log |-> Append(<< >>, event)]
    BY <2>1, <2>2 DEF Stopped, Put, Quiet
  <2> QED BY <2>3, <2>4 DEF k
<1>5. u.sequences = l.sequences /\ Taken(u, m) = [u EXCEPT !.sequences = taken]
  BY <1>2 DEF Taken, Ledger, LedgerFields
<1> HIDE DEF taken, event
<1>6. Taken(u, m)
        = [Taken(l, m) EXCEPT !.terminal = TRUE, !.reason = reason, !.events = l.events + 1]
  BY <1>1, <1>2, <1>5 DEF Ledger, LedgerFields
<1> QED BY <1>2, <1>4, <1>6

\* How a message is answered at a known time.
Overdue(l, now) == ~l.terminal /\ Late(l, now) # "none"

LEMMA AnswerCases ==
  ASSUME NEW l, NEW m, NEW now
  PROVE  LET seen  == At(l, now)
             taken == Taken(seen, m)
         IN  Answer(l, m, now) =
               IF ~InOrder(l, m) THEN Denied(Quiet(seen), m, "refused")
               ELSE IF Overdue(l, now) /\ m.operation \notin CLEANUP_OPERATIONS
                 THEN Denied(Quiet(taken), m, Late(l, now))
               ELSE IF Overdue(l, now) THEN Decided(Stopped(taken, "clock_stop", Late(l, now)), m, now)
               ELSE Decided(Quiet(taken), m, now)
BY DEF Answer, At, Taken, Decided, Overdue, Quiet

\* At the time of the message, a ledger answers as at any time before.
LEMMA AnswerAt ==
  ASSUME NEW l, Ledger(l), NEW time \in Nat, NEW m, NEW now \in Nat
  PROVE  Answer(At(l, time), m, now) = Answer(l, m, now)
<1> DEFINE k == At(l, time)
<1>1. /\ At(k, now) = At(l, now) /\ Late(k, now) = Late(l, now)
      /\ k.terminal = l.terminal /\ InOrder(k, m) = InOrder(l, m)
  BY AtLedger, AtAt, LateAt DEF Ledger, LedgerFields, InOrder
<1>2. Overdue(k, now) = Overdue(l, now)
  BY <1>1 DEF Overdue
<1> HIDE DEF k
<1>3. Answer(k, m, now) = Answer(l, m, now)
  BY <1>1, <1>2, AnswerCases
<1> QED BY <1>3 DEF k

\* An answer of one event.
LEMMA AnswerOfOne ==
  ASSUME NEW l, Ledger(l), Listed(l), NEW m, m.operation \in ROUTING_OPERATIONS,
         m.operation = "ARM" => m.selector \in Selectors,
         NEW now \in Nat, ~ (InOrder(l, m) /\ Overdue(l, now) /\ m.operation \in CLEANUP_OPERATIONS)
  PROVE  \E y, reply : /\ Ledger(y) /\ y.elapsed = now /\ Listed(y) /\ Timely(y)
                       /\ Answer(l, m, now) = Replied(Quiet(y), m, reply)
<1> DEFINE seen  == At(l, now)
           taken == Taken(seen, m)
<1>1. /\ Ledger(seen) /\ seen.elapsed = now /\ Listed(seen) /\ seen.terminal = l.terminal
      /\ \A time : Late(seen, time) = Late(l, time)
  <2>1. Ledger(seen) /\ seen.elapsed = now
    BY AtLedger
  <2>2. seen.terminal = l.terminal /\ seen.actions = l.actions /\ seen.active = l.active
    BY AtLedger DEF Ledger, LedgerFields
  <2> HIDE DEF seen
  <2> QED BY <2>1, <2>2, ListedSame
<1>2. /\ Ledger(taken) /\ taken.elapsed = now /\ Listed(taken) /\ taken.terminal = l.terminal
      /\ \A time : Late(taken, time) = Late(l, time)
  <2> HIDE DEF seen
  <2>1. /\ Ledger(taken) /\ taken.elapsed = now /\ taken.terminal = l.terminal
        /\ taken.actions = seen.actions /\ taken.active = seen.active
    BY <1>1, TakenLedger DEF Ledger, LedgerFields
  <2> HIDE DEF taken
  <2> QED BY <1>1, <2>1, ListedSame
<1>3. Answer(l, m, now) =
        IF ~InOrder(l, m) THEN Denied(Quiet(seen), m, "refused")
        ELSE IF Overdue(l, now) THEN Denied(Quiet(taken), m, Late(l, now))
        ELSE Decided(Quiet(taken), m, now)
  BY AnswerCases
<1> HIDE DEF seen, taken
<1>4. ASSUME NEW k, Ledger(k), k.elapsed = now, Listed(k), NEW reason
      PROVE  /\ Ledger(Stop(k, reason)) /\ Stop(k, reason).elapsed = now
             /\ Listed(Stop(k, reason)) /\ Timely(Stop(k, reason))
             /\ Denied(Quiet(k), m, reason) = Replied(Quiet(Stop(k, reason)), m, Reply("denied", reason, 0))
  <2> DEFINE stop == Stop(k, reason)
  <2>1. Ledger(stop) /\ stop.elapsed = now /\ stop.terminal
        /\ stop.actions = k.actions /\ stop.active = k.active
    BY <1>4, StopLedger DEF Ledger, LedgerFields
  <2>2. Denied(Quiet(k), m, reason) = Replied(Quiet(stop), m, Reply("denied", reason, 0))
    BY <1>4, DeniedReplies DEF Quiet
  <2> HIDE DEF stop
  <2>3. Listed(stop) /\ Timely(stop)
    BY <1>4, <2>1, ListedSame DEF Timely
  <2> QED BY <2>1, <2>2, <2>3 DEF stop
<1>5. CASE ~InOrder(l, m)
  <2> WITNESS Stop(seen, "refused"), Reply("denied", "refused", 0)
  <2> QED BY <1>1, <1>3, <1>4, <1>5
<1>6. CASE InOrder(l, m) /\ Overdue(l, now)
  <2> WITNESS Stop(taken, Late(l, now)), Reply("denied", Late(l, now), 0)
  <2> QED BY <1>2, <1>3, <1>4, <1>6
<1>7. CASE InOrder(l, m) /\ ~Overdue(l, now)
  <2>1. Timely(taken)
    BY <1>2, <1>7 DEF Timely, Overdue
  <2> WITNESS DecidedLedger(taken, m, now), DecidedReply(taken, m, now)
  <2>2. Decided(Quiet(taken), m, now)
          = Replied(Quiet(DecidedLedger(taken, m, now)), m, DecidedReply(taken, m, now))
    BY <1>2, DecidedReplies DEF Quiet
  <2> QED BY <1>2, <1>3, <1>7, <2>1, <2>2, DecidedReplies, DecidedListed
<1> QED BY <1>5, <1>6, <1>7

\* It is told again at its own time.
LEMMA OneReproduces ==
  ASSUME NEW l, Ledger(l), Listed(l), NEW m, m.operation \in ROUTING_OPERATIONS,
         m.operation = "ARM" => m.selector \in Selectors,
         ~Raises(l, m), ~AtCapacity(l), NEW now \in Nat, now >= l.elapsed,
         ~ (InOrder(l, m) /\ Overdue(l, now) /\ m.operation \in CLEANUP_OPERATIONS)
  PROVE  /\ \E e : Reproduces(l, e, Answer(l, m, now))
         /\ Accounted(Answer(l, m, now).ledger)
<1>1. PICK y, reply : /\ Ledger(y) /\ y.elapsed = now /\ Listed(y) /\ Timely(y)
                      /\ Answer(l, m, now) = Replied(Quiet(y), m, reply)
  BY AnswerOfOne
<1> DEFINE e    == MessageEvent(y, m, reply)
           seen == At(l, now)
<1>2. Answer(l, m, now).log = <<e>> /\ Answer(l, m, now).ledger.elapsed = now
  <2>1. Answer(l, m, now) = [ledger |-> Counted(y), log |-> <<e>>]
    BY <1>1, RepliedOnce
  <2>2. Counted(y).elapsed = y.elapsed
    BY <1>1, RepliedLog DEF Ledger, LedgerFields
  <2> HIDE DEF e
  <2> QED BY <1>1, <2>1, <2>2
<1>3. e.kind = "message" /\ e.at = now /\ e.message = m
  BY <1>1 DEF MessageEvent
<1>4. /\ Ledger(seen) /\ seen.elapsed = now
      /\ Raises(seen, m) = Raises(l, m) /\ AtCapacity(seen) = AtCapacity(l)
  BY AtLedger DEF Raises, AtCapacity, Ledger, LedgerFields
<1> HIDE DEF e, seen
<1>5. Apply(seen, m, now) = Answer(l, m, now)
  <2>1. ClockFault(seen, now) = "none"
    BY <1>4 DEF ClockFault
  <2>2. Answer(seen, m, now) = Answer(l, m, now)
    BY AnswerAt DEF seen
  <2> QED BY <1>4, <2>1, <2>2 DEF Apply
<1>6. Again(seen, e) = Answer(l, m, now)
  BY <1>3, <1>4, <1>5 DEF Again
<1>7. l.terminal => m.operation \in CLEANUP_OPERATIONS
  BY DEF Raises
<1>8. Accounted(Answer(l, m, now).ledger)
  <2>1. Answer(l, m, now).ledger = Counted(y)
    BY <1>1, RepliedOnce
  <2>2. Accounted(Counted(y))
    BY <1>1, CountedAccounted DEF Accounted
  <2> QED BY <2>1, <2>2
<1> QED BY <1>8, <1>2, <1>3, <1>6, <1>7 DEF Reproduces, seen

\* The settlement after a deadline stops the owner first, then is answered.
LEMMA SettlementReproduces ==
  ASSUME NEW l, Ledger(l), Listed(l), NEW m, m.operation \in ROUTING_OPERATIONS,
         m.operation = "ARM" => m.selector \in Selectors,
         ~AtCapacity(l), NEW now \in Nat, now >= l.elapsed,
         InOrder(l, m), Overdue(l, now), m.operation \in CLEANUP_OPERATIONS
  PROVE  /\ \E first, second, u :
              /\ Answer(l, m, now).log = <<first, second>> /\ Ledger(u)
              /\ Reproduces(l, first, [ledger |-> u, log |-> <<first>>])
              /\ Reproduces(u, second, [ledger |-> Answer(l, m, now).ledger, log |-> <<second>>])
         /\ Accounted(Answer(l, m, now).ledger)
<1> DEFINE late  == Late(l, now)
           seen  == At(l, now)
           first == [kind |-> "clock_stop", at |-> now, reason |-> late]
<1>1. late \in DEADLINES /\ ~l.terminal
  BY LateCases DEF Overdue
<1>2. Ledger(seen) /\ seen.elapsed = now /\ ~seen.terminal /\ seen.events = l.events
      /\ seen.kind = l.kind /\ seen.sequences = l.sequences /\ seen.actions = l.actions
      /\ seen.active = l.active
  BY <1>1, AtLedger DEF Ledger, LedgerFields
<1>3. PICK u :
      /\ Ledger(u) /\ u.terminal /\ u.elapsed = now /\ u.events = l.events + 1
      /\ u.kind = l.kind /\ u.sequences = l.sequences /\ u.actions = l.actions
      /\ u.active = l.active
      /\ Stopped(seen, "clock_stop", late) = [ledger |-> u, log |-> <<first>>]
  <2> HIDE DEF seen, late
  <2>1. {"kind", "sequences", "actions", "active"} \subseteq DOMAIN seen \ {"terminal", "reason", "events"}
    BY <1>2 DEF Ledger, LedgerFields
  <2> QED BY <1>2, <2>1, StoppedState
<1>4. Reproduces(l, first, [ledger |-> u, log |-> <<first>>])
  <2>1. CheckDeadline(seen, now) = Stopped(seen, "clock_stop", late)
    <3>1. Late(seen, now) = late /\ At(seen, now) = seen /\ ClockFault(seen, now) = "none"
      BY <1>2, LateAt, AtAt DEF ClockFault
    <3>2. late # "none"
      BY DEF Overdue
    <3> HIDE DEF seen, late
    <3> QED BY <1>2, <3>1, <3>2 DEF CheckDeadline, At
  <2>2. first.kind = "clock_stop" /\ first.at = now /\ first.reason = late
    OBVIOUS
  <2> HIDE DEF first, late
  <2>3. Again(seen, first) = CheckDeadline(seen, now)
    BY <1>1, <2>2 DEF Again, DEADLINES
  <2> QED BY <1>1, <1>3, <2>1, <2>2, <2>3 DEF Reproduces
<1> DEFINE taken  == Taken(u, m)
           y      == DecidedLedger(taken, m, now)
           reply  == DecidedReply(taken, m, now)
           second == MessageEvent(y, m, reply)
<1>5. Ledger(taken) /\ taken.elapsed = now /\ taken.terminal /\ Listed(taken)
  <2>1. {"elapsed", "terminal", "actions", "active"} \subseteq DOMAIN u \ {"sequences"}
    BY <1>3 DEF Ledger, LedgerFields
  <2>2. Ledger(taken) /\ taken.elapsed = now /\ taken.terminal
        /\ taken.actions = l.actions /\ taken.active = l.active
    BY <1>3, <2>1, TakenLedger
  <2> HIDE DEF taken
  <2> QED BY <2>2, ListedSame
<1>6. Ledger(y) /\ y.elapsed = now
  BY <1>5, DecidedReplies
<1>7. /\ Decided(Quiet(taken), m, now) = Replied(Quiet(y), m, reply)
      /\ Decided([ledger |-> taken, log |-> <<first>>], m, now)
           = Replied([ledger |-> y, log |-> <<first>>], m, reply)
  BY <1>5, DecidedReplies DEF Quiet
<1>8. Stopped(Taken(seen, m), "clock_stop", late) = [ledger |-> taken, log |-> <<first>>]
  <2> HIDE DEF seen, late, first
  <2> QED BY <1>2, <1>3, TakenStopped
<1>9. Answer(l, m, now) = [ledger |-> Counted(y), log |-> <<first, second>>]
  <2>1. Answer(l, m, now) = Decided([ledger |-> taken, log |-> <<first>>], m, now)
    <3>1. Answer(l, m, now) = Decided(Stopped(Taken(seen, m), "clock_stop", late), m, now)
      BY AnswerCases
    <3> QED BY <1>8, <3>1
  <2> HIDE DEF first, y, reply, taken
  <2> QED BY <1>6, <1>7, <2>1, RepliedTwice DEF second
<1>10. Reproduces(u, second, [ledger |-> Counted(y), log |-> <<second>>])
  <2>1. second.kind = "message" /\ second.at = now /\ second.message = m
    BY <1>6 DEF MessageEvent
  <2>2. At(u, now) = u
    BY <1>3, AtElapsed
  <2>3. /\ ~Raises(u, m) /\ ~AtCapacity(u) /\ ClockFault(u, now) = "none"
        /\ InOrder(u, m) /\ ~Overdue(u, now)
    <3>1. l.events + 1 < MAX_EVENTS[l.kind]
      BY <1>1, OwnerAssumption DEF AtCapacity, Ledger
    <3> QED BY <1>3, <3>1, OwnerAssumption
            DEF Raises, AtCapacity, ClockFault, InOrder, Overdue, Ledger
  <2>4. Answer(u, m, now) = Decided(Quiet(taken), m, now)
    BY <2>2, <2>3, AnswerCases
  <2>5. Decided(Quiet(taken), m, now) = [ledger |-> Counted(y), log |-> <<second>>]
    <3> HIDE DEF y, reply, taken
    <3> QED BY <1>6, <1>7, RepliedOnce DEF second
  <2> HIDE DEF second
  <2>6. Again(u, second) = [ledger |-> Counted(y), log |-> <<second>>]
    BY <2>1, <2>3, <2>4, <2>5 DEF Again, Apply
  <2>7. Counted(y).elapsed = now
    <3> HIDE DEF y
    <3>1. "elapsed" \in DOMAIN y \ {"events"}
      BY <1>6 DEF Ledger, LedgerFields
    <3> QED BY <1>6, <3>1, RepliedLog
  <2> QED BY <1>3, <2>1, <2>2, <2>6, <2>7 DEF Reproduces
<1>11. Accounted(Counted(y))
  <2>1. Timely(taken)
    BY <1>5 DEF Timely
  <2>2. Listed(y) /\ Timely(y)
    BY <1>5, <2>1, DecidedListed
  <2> HIDE DEF y
  <2> QED BY <1>6, <2>2, CountedAccounted DEF Accounted
<1> HIDE DEF first, second, y
<1> QED BY <1>3, <1>4, <1>9, <1>10, <1>11

\* What is used of a message: it is about one of the operations, and an action that is
\* armed is one that the owner can run.
LEMMA MessageOperations ==
  ASSUME NEW l, NEW m \in Messages(l) \cup Repeated(l)
  PROVE  /\ m.operation \in ROUTING_OPERATIONS
         /\ m.operation = "ARM" => m.selector \in Selectors
<1>1. ASSUME NEW n \in Messages(l)
      PROVE  /\ n.operation \in ROUTING_OPERATIONS
             /\ n.operation = "ARM" => n.selector \in Selectors
  <2>1. PICK operation \in DOMAIN Bodies(l), role \in ROLES :
          n \in With(Header(l, operation, role), Bodies(l)[operation])
    BY <1>1 DEF Messages
  <2>2. PICK h \in Header(l, operation, role), f \in Bodies(l)[operation] : n = Joined(h, f)
    BY <2>1 DEF With
  <2>3. DOMAIN h = {"operation", "role", "sequence", "number"} /\ h.operation = operation
    BY <2>2 DEF Header
  <2>4. n.operation = operation
    BY <2>2, <2>3 DEF Joined
  <2>5. operation \in ROUTING_OPERATIONS
    BY <2>1 DEF Bodies, ROUTING_OPERATIONS
  <2>6. ASSUME operation = "ARM"
        PROVE  n.selector \in Selectors
    <3>1. f \in [selector : Selectors]
      BY <2>2, <2>6 DEF Bodies
    <3>2. n.selector = f.selector
      BY <2>2, <2>3, <3>1 DEF Joined
    <3> QED BY <3>1, <3>2
  <2> QED BY <2>4, <2>5, <2>6
<1>2. ASSUME m \in Repeated(l)
      PROVE  m.operation \in ROUTING_OPERATIONS \ {"ARM"}
  <2>1. PICK n \in Messages(l) : /\ n.operation \in {"STOP", "RESERVE_REQUEST"}
                                 /\ m = [n EXCEPT !.sequence = @ - 1]
    BY <1>2 DEF Repeated
  <2>2. m.operation = n.operation
    BY <2>1
  <2> QED BY <2>1, <2>2 DEF ROUTING_OPERATIONS
<1> QED BY <1>1, <1>2

LEMMA MessageReplayable ==
  ASSUME NEW l, Ledger(l), Listed(l), NEW m, m.operation \in ROUTING_OPERATIONS,
         m.operation = "ARM" => m.selector \in Selectors,
         ~Raises(l, m), NEW reading \in Int
  PROVE  Replayable(l, Apply(l, m, reading)) /\ Accounted(Apply(l, m, reading).ledger)
<1>1. CASE AtCapacity(l)
  <2>1. Apply(l, m, reading) = CapacityStop(l)
    BY <1>1 DEF Apply
  <2>2. Accounted(CapacityStop(l).ledger)
    BY StoppedAccounted DEF CapacityStop
  <2> QED BY <1>1, <2>1, <2>2, CapacityRestops DEF Replayable, Restopped
<1>2. CASE ~AtCapacity(l) /\ ClockFault(l, reading) \in FAULTS
  <2>1. Apply(l, m, reading) = Stopped(l, "clock_stop", ClockFault(l, reading))
    BY <1>2 DEF Apply, FAULTS
  <2> QED BY <1>2, <2>1, FaultRestops, StoppedAccounted DEF Replayable, Restopped
<1>3. CASE ~AtCapacity(l) /\ ClockFault(l, reading) = "none" /\ reading \in Nat /\ reading >= l.elapsed
  <2>1. Apply(l, m, reading) = Answer(l, m, reading)
    BY <1>3 DEF Apply
  <2>2. CASE InOrder(l, m) /\ Overdue(l, reading) /\ m.operation \in CLEANUP_OPERATIONS
    BY <1>3, <2>1, <2>2, SettlementReproduces DEF Replayable
  <2>3. CASE ~(InOrder(l, m) /\ Overdue(l, reading) /\ m.operation \in CLEANUP_OPERATIONS)
    BY <1>3, <2>1, <2>3, OneReproduces DEF Replayable
  <2> QED BY <2>2, <2>3
<1> QED BY <1>1, <1>2, <1>3, ReadingCases

\* The inductive invariant: the two ledgers differ in the observed time alone, and a
\* stopped owner has observed none since its last event.
ReplayInv ==
  /\ valid = TRUE
  /\ Accounted(live)
  /\ Ledger(rebuilt) /\ rebuilt.elapsed <= live.elapsed
  /\ live = At(rebuilt, live.elapsed)
  /\ live.terminal => live.elapsed = rebuilt.elapsed

\* The replay of an event that was just saved.
LEMMA ReplayedEvent ==
  ASSUME NEW l, Ledger(l), NEW r, Ledger(r), r.elapsed <= l.elapsed, l = At(r, l.elapsed),
         NEW e, NEW outcome, Reproduces(l, e, outcome)
  PROVE  Replayed([ledger |-> r, valid |-> TRUE], e) = [ledger |-> outcome.ledger, valid |-> TRUE]
<1>1. r.terminal = l.terminal /\ At(r, e.at) = At(l, e.at)
  <2>1. l.elapsed \in Nat /\ e.at \in Nat
    BY DEF Ledger, Reproduces
  <2>2. r.terminal = l.terminal
    BY <2>1, AtLedger DEF Ledger, LedgerFields
  <2>3. At(At(r, l.elapsed), e.at) = At(r, e.at)
    BY <2>1, AtAt
  <2> QED BY <2>2, <2>3
<1>2. Acceptable(r, e)
  BY <1>1 DEF Acceptable, Reproduces, Ledger
<1>3. Again([r EXCEPT !.elapsed = e.at], e) = outcome /\ outcome.log = <<e>>
  BY <1>1 DEF Reproduces, At
<1> QED BY <1>2, <1>3 DEF Replayed

LEMMA AdvanceKeeps ==
  ASSUME ReplayInv, NEW outcome, Replayable(live, outcome), Accounted(outcome.ledger),
         Advance(outcome)
  PROVE  ReplayInv'
<1> DEFINE saved == [ledger |-> rebuilt, valid |-> TRUE]
<1>1. /\ live' = outcome.ledger
      /\ rebuilt' = Replay(saved, outcome.log).ledger
      /\ valid' = Replay(saved, outcome.log).valid
  BY DEF Advance, ReplayInv
<1>2. Ledger(live) /\ Ledger(rebuilt) /\ Ledger(live') /\ Accounted(live')
  BY <1>1 DEF ReplayInv, Accounted
<1>3. ASSUME Replay(saved, outcome.log) = [ledger |-> outcome.ledger, valid |-> TRUE]
      PROVE  ReplayInv'
  <2>1. rebuilt' = live' /\ valid' = TRUE
    BY <1>1, <1>3
  <2>2. At(live', live'.elapsed) = live' /\ live'.elapsed \in Nat
    BY <1>2, AtElapsed DEF Ledger
  <2> QED BY <1>2, <2>1, <2>2 DEF ReplayInv, Accounted
<1>4. CASE Unseen(live, outcome)
  <2>1. PICK time \in Nat : time >= live.elapsed /\ outcome.ledger = At(live, time)
    BY <1>4 DEF Unseen
  <2>2. rebuilt' = rebuilt /\ valid' = TRUE /\ ~live.terminal
    BY <1>1, <1>4 DEF Replay, Unseen
  <2>3. live'.elapsed = time /\ live'.terminal = live.terminal
    BY <1>1, <1>2, <2>1, AtLedger DEF Ledger, LedgerFields
  <2>4. live' = At(rebuilt, time)
    <3>1. live.elapsed \in Nat /\ live = At(rebuilt, live.elapsed)
      BY <1>2 DEF ReplayInv, Ledger
    <3>2. At(At(rebuilt, live.elapsed), time) = At(rebuilt, time)
      BY <1>2, <3>1, AtAt
    <3> QED BY <1>1, <2>1, <3>1, <3>2
  <2>5. rebuilt.elapsed <= time
    BY <1>2, <2>1 DEF ReplayInv, Ledger
  <2> QED BY <1>2, <1>4, <2>2, <2>3, <2>4, <2>5 DEF ReplayInv
<1>5. CASE \E e : Reproduces(live, e, outcome)
  <2>1. PICK e : Reproduces(live, e, outcome)
    BY <1>5
  <2>2. outcome.log = <<e>>
    BY <2>1 DEF Reproduces
  <2>3. Replay(saved, <<e>>) = Replayed(saved, e)
    BY DEF Replay
  <2>4. Replayed(saved, e) = [ledger |-> outcome.ledger, valid |-> TRUE]
    BY <1>2, <2>1, ReplayedEvent DEF ReplayInv
  <2> QED BY <1>3, <2>2, <2>3, <2>4
<1>6. CASE \E first, second, u :
             /\ outcome.log = <<first, second>> /\ Ledger(u)
             /\ Reproduces(live, first, [ledger |-> u, log |-> <<first>>])
             /\ Reproduces(u, second, [ledger |-> outcome.ledger, log |-> <<second>>])
  <2>1. PICK first, second, u :
             /\ outcome.log = <<first, second>> /\ Ledger(u)
             /\ Reproduces(live, first, [ledger |-> u, log |-> <<first>>])
             /\ Reproduces(u, second, [ledger |-> outcome.ledger, log |-> <<second>>])
    BY <1>6
  <2>2. Replay(saved, <<first, second>>) = Replayed(Replayed(saved, first), second)
    BY DEF Replay
  <2>3. Replayed(saved, first) = [ledger |-> u, valid |-> TRUE]
    BY <1>2, <2>1, ReplayedEvent DEF ReplayInv
  <2>4. u.elapsed \in Nat /\ u = At(u, u.elapsed)
    BY <2>1, AtElapsed DEF Ledger
  <2>5. Replayed([ledger |-> u, valid |-> TRUE], second) = [ledger |-> outcome.ledger, valid |-> TRUE]
    BY <2>1, <2>4, ReplayedEvent
  <2> QED BY <1>3, <2>1, <2>2, <2>3, <2>5
<1> QED BY <1>4, <1>5, <1>6 DEF Replayable

LEMMA ReadingsAreInt ==
  ASSUME NEW l, Ledger(l), NEW reading \in Readings(l)
  PROVE  reading \in Int
BY OwnerAssumption DEF Readings, Ledger

LEMMA ReplayInit ==
  ASSUME Init
  PROVE  ReplayInv
<1>1. live = NewLedger("routing", ROLES, COUNTERS) /\ rebuilt = live /\ valid = TRUE
  BY DEF Init
<1>2. Ledger(live) /\ live.actions = << >> /\ live.active = 0 /\ ~live.terminal /\ live.elapsed = 0
  BY <1>1 DEF NewLedger, Ledger, LedgerFields
<1>3. Listed(live)
  <2>1. live.actions \in Seq({})
    BY <1>2
  <2> QED BY <1>2, <2>1 DEF Listed
<1>4. Timely(live)
  BY <1>2, OwnerAssumption DEF Timely, Late
<1>5. At(live, live.elapsed) = live
  BY <1>2, AtElapsed
<1> QED BY <1>1, <1>2, <1>3, <1>4, <1>5 DEF ReplayInv, Accounted

LEMMA ReplayStep ==
  ASSUME ReplayInv, [Next]_vars
  PROVE  ReplayInv'
<1>1. Ledger(live) /\ Listed(live)
  BY DEF ReplayInv, Accounted
<1>2. ASSUME Receive
      PROVE  ReplayInv'
  <2>1. PICK m \in Messages(live) \cup Repeated(live), reading \in Readings(live) :
          ~Raises(live, m) /\ Advance(Apply(live, m, reading))
    BY <1>2 DEF Receive
  <2>2. reading \in Int
    BY <1>1, ReadingsAreInt
  <2>3. m.operation \in ROUTING_OPERATIONS /\ (m.operation = "ARM" => m.selector \in Selectors)
    BY MessageOperations
  <2>4. Replayable(live, Apply(live, m, reading)) /\ Accounted(Apply(live, m, reading).ledger)
    BY <1>1, <2>1, <2>2, <2>3, MessageReplayable
  <2> QED BY <2>1, <2>4, AdvanceKeeps
<1>3. ASSUME Poll
      PROVE  ReplayInv'
  <2>1. PICK reading \in Readings(live) : ~live.terminal /\ Advance(CheckDeadline(live, reading))
    BY <1>3 DEF Poll
  <2>2. reading \in Int
    BY <1>1, ReadingsAreInt
  <2>3. /\ Replayable(live, CheckDeadline(live, reading))
        /\ Accounted(CheckDeadline(live, reading).ledger)
    BY <1>1, <2>1, <2>2, CheckRestops, CheckAccounted DEF Replayable, Restopped
  <2> QED BY <2>1, <2>3, AdvanceKeeps
<1>4. ASSUME End
      PROVE  ReplayInv'
  <2>1. PICK reading \in Readings(live), reason \in {"completed"} \cup STOP_REASONS :
          ~live.terminal /\ Advance(Terminate(live, reason, reading))
    BY <1>4 DEF End
  <2>2. reading \in Int
    BY <1>1, ReadingsAreInt
  <2>3. /\ Replayable(live, Terminate(live, reason, reading))
        /\ Accounted(Terminate(live, reason, reading).ledger)
    BY <1>1, <2>1, <2>2, TerminateRestops, TerminateAccounted DEF Replayable, Restopped
  <2> QED BY <2>1, <2>3, AdvanceKeeps
<1>5. CASE UNCHANGED vars
  BY <1>5 DEF vars, ReplayInv, Accounted, Ledger, Listed, Timely, Late, Action, At
<1> QED BY <1>2, <1>3, <1>4, <1>5 DEF Next

\* Whatever a routing owner received, refused or timed out, the replay of its snapshot
\* accepts every saved event and rebuilds the ledger that was saved, with an observed
\* time that a verifier can tell from a forged one (routing_ledger.py,
\* _replay_snapshot).
THEOREM RoutingSnapshotsReplay == Spec => []SnapshotsReplay
<1>1. Init => ReplayInv
  BY ReplayInit
<1>2. ReplayInv /\ [Next]_vars => ReplayInv'
  BY ReplayStep
<1>3. ReplayInv => SnapshotsReplay
  <2> SUFFICES ASSUME ReplayInv
               PROVE  SnapshotsReplay
    OBVIOUS
  <2>1. Ledger(rebuilt) /\ live.elapsed \in Nat
    BY DEF ReplayInv, Accounted, Ledger
  <2>2. ~live.terminal => Late(rebuilt, live.elapsed) = "none"
    <3>1. Late(At(rebuilt, live.elapsed), live.elapsed) = Late(rebuilt, live.elapsed)
      BY <2>1, LateAt
    <3> QED BY <3>1 DEF ReplayInv, Accounted, Timely
  <2> QED BY <2>2 DEF ReplayInv, SnapshotsReplay, At
<1> QED BY <1>1, <1>2, <1>3, PTL DEF Spec
-----------------------------------------------------------------------------
(***************************************************************************)
(* The owner of a name: SteadyLedgersReplay.                               *)
(*                                                                         *)
(* Every call of this owner appends one event at most, and a deadline that *)
(* a settlement meets has none of its own: at the time of the event the    *)
(* replay looks at the same deadline.  Only a fault of the clock is told   *)
(* as a message that the replay does not take for one.                     *)
(***************************************************************************)
NameReproduces(l, e, outcome) ==
  /\ outcome.log = <<e>>
  /\ e.at \in Nat /\ e.at >= l.elapsed /\ outcome.ledger.elapsed = e.at
  /\ Retell(At(l, e.at), e) = outcome

NameReplayable(l, outcome) ==
  Unseen(l, outcome) \/ \E e : NameReproduces(l, e, outcome)

\* The two replays treat the events that are not messages alike.
LEMMA RestopsAreRetold ==
  ASSUME NEW l, NEW outcome, Restopped(l, outcome)
  PROVE  NameReplayable(l, outcome)
<1>1. ASSUME NEW k, NEW e, e.kind \in STOPS
      PROVE  Retell(k, e) = Again(k, e)
  BY <1>1 DEF Retell, Again, STOPS
<1>2. ASSUME NEW e, e.kind \in STOPS, Reproduces(l, e, outcome)
      PROVE  NameReproduces(l, e, outcome)
  BY <1>1, <1>2 DEF Reproduces, NameReproduces
<1> QED BY <1>2 DEF Restopped, NameReplayable

NAME_OPERATIONS ==
  {"ARM", "RESERVE_CONNECTION", "RESERVE_OPERATION", "RESERVE_BYTES", "OBSERVE_DNS",
   "FINISH_CONNECTION", "FINISH_ACTION", "STOP"}

\* What an operation other than ARM and STOP does to the actions: one row has changed.
RowWith(l, counter, amount) ==
  [Action(l) EXCEPT !.counters = [Action(l).counters EXCEPT ![counter] = @ + amount]]

NameRow(l, m, now) ==
  LET row == Action(l)
  IN  CASE m.operation = "RESERVE_CONNECTION" -> RowWith(l, "connections", 1)
        [] m.operation = "RESERVE_OPERATION"  -> RowWith(l, "operations", 1)
        [] m.operation = "RESERVE_BYTES"      -> RowWith(l, "bytes", m.bytes)
        [] m.operation = "OBSERVE_DNS"        ->
             [row EXCEPT !.observation =
                [answer |-> m.answer, observed_at |-> now, bytes |-> m.bytes]]
        [] m.operation = "FINISH_CONNECTION"  ->
             [row EXCEPT !.delivered = m.delivered,
                         !.connections_finished = row.connections_finished + 1]
        [] m.operation = "FINISH_ACTION"      ->
             [row EXCEPT !.status = "finished", !.success = m.success]

Written(l, row) == [l.actions EXCEPT ![l.active] = row]

\* A reservation in one place: the owner's counter and the row.
LEMMA ReservedIn ==
  ASSUME NEW l, Ledger(l), NEW counter, NEW amount
  PROVE  /\ Ledger(Reserved(l, counter, amount))
         /\ Reserved(l, counter, amount).elapsed = l.elapsed
         /\ Reserved(l, counter, amount).terminal = l.terminal
         /\ Reserved(l, counter, amount).active = l.active
         /\ Reserved(l, counter, amount).actions
              = Written(l, RowWith(l, counter, amount))
<1> DEFINE row  == [l.actions[l.active] EXCEPT !.counters =
                      [l.actions[l.active].counters EXCEPT ![counter] = @ + amount]]
           rows == [l.actions EXCEPT ![l.active] = row]
<1>1. Reserved(l, counter, amount) =
        [l EXCEPT !.counters = [l.counters EXCEPT ![counter] = @ + amount], !.actions = rows]
  BY DEF Reserved
<1> HIDE DEF rows
<1>2. /\ Ledger(Reserved(l, counter, amount))
      /\ Reserved(l, counter, amount).elapsed = l.elapsed
      /\ Reserved(l, counter, amount).terminal = l.terminal
      /\ Reserved(l, counter, amount).active = l.active
      /\ Reserved(l, counter, amount).actions = rows
  BY <1>1 DEF Ledger, LedgerFields
<1> QED BY <1>2 DEF rows, Action, RowWith, Written

\* No operation moves the time or the log, and none revives an owner.
LEMMA NamePerformedLedger ==
  ASSUME NEW l, Ledger(l), NEW m, m.operation \in NAME_OPERATIONS, NEW now \in Nat
  PROVE  /\ Ledger(NamePerformed(l, m, now))
         /\ NamePerformed(l, m, now).elapsed = l.elapsed
         /\ l.terminal => NamePerformed(l, m, now).terminal
         /\ m.operation \notin {"ARM", "STOP"} =>
              /\ NamePerformed(l, m, now).active \in {0, l.active}
              /\ NamePerformed(l, m, now).actions = Written(l, NameRow(l, m, now))
<1> DEFINE k == NamePerformed(l, m, now)
<1>1. CASE m.operation = "ARM"
  <2>1. k = NameArmed(l, m, now)
    BY <1>1 DEF NamePerformed
  <2> DEFINE asks       == Operation(m.slot) = "dns"
             binding    == IF asks THEN UNBOUND ELSE l.binding
             generation == IF asks THEN l.generation + 1 ELSE l.generation
             row        == [slot |-> m.slot, bound |-> binding.generation,
                            deadline |-> Earlier(SESSION_US, now + Timeout[Operation(m.slot)]),
                            status |-> "active", connections_finished |-> 0, success |-> FALSE,
                            observation |-> UNSEEN, delivered |-> 0,
                            counters |-> [c \in NAME_COUNTERS |-> 0]]
             rows       == Append(l.actions, row)
  <2>2. NameArmed(l, m, now) = [l EXCEPT !.generation = generation, !.binding = binding,
                                         !.active = m.number, !.actions = rows]
    BY DEF NameArmed
  <2> HIDE DEF k, binding, generation, rows
  <2>3. Ledger(k) /\ k.elapsed = l.elapsed /\ k.terminal = l.terminal
    BY <2>1, <2>2 DEF Ledger, LedgerFields
  <2> QED BY <1>1, <2>3 DEF k
<1>2. CASE m.operation = "RESERVE_CONNECTION"
  <2> DEFINE reserved == Reserved(l, "connections", 1)
  <2>1. k = [reserved EXCEPT !.connection = m.local_id, !.requested = FALSE, !.admitted = now]
    BY <1>2 DEF NamePerformed, NameConnected
  <2>2. /\ Ledger(reserved) /\ reserved.elapsed = l.elapsed /\ reserved.terminal = l.terminal
        /\ reserved.active = l.active
        /\ reserved.actions = Written(l, NameRow(l, m, now))
    <3>1. NameRow(l, m, now) = RowWith(l, "connections", 1)
      BY <1>2 DEF NameRow
    <3> QED BY <3>1, ReservedIn
  <2> HIDE DEF reserved
  <2>3. /\ Ledger(k) /\ k.elapsed = l.elapsed /\ k.terminal = l.terminal
        /\ k.active = reserved.active /\ k.actions = reserved.actions
    BY <2>1, <2>2 DEF Ledger, LedgerFields
  <2> QED BY <2>2, <2>3
<1>3. CASE m.operation = "RESERVE_OPERATION"
  <2> DEFINE reserved == Reserved(l, "operations", 1)
  <2>1. k = [reserved EXCEPT !.requested = TRUE]
    BY <1>3 DEF NamePerformed, Operated
  <2>2. /\ Ledger(reserved) /\ reserved.elapsed = l.elapsed /\ reserved.terminal = l.terminal
        /\ reserved.active = l.active
        /\ reserved.actions = Written(l, NameRow(l, m, now))
    <3>1. NameRow(l, m, now) = RowWith(l, "operations", 1)
      BY <1>3 DEF NameRow
    <3> QED BY <3>1, ReservedIn
  <2> HIDE DEF reserved
  <2>3. /\ Ledger(k) /\ k.elapsed = l.elapsed /\ k.terminal = l.terminal
        /\ k.active = reserved.active /\ k.actions = reserved.actions
    BY <2>1, <2>2 DEF Ledger, LedgerFields
  <2> QED BY <2>2, <2>3
<1>4. CASE m.operation = "RESERVE_BYTES"
  <2>1. k = Reserved(l, "bytes", m.bytes)
    BY <1>4 DEF NamePerformed
  <2>2. NameRow(l, m, now) = RowWith(l, "bytes", m.bytes)
    BY <1>4 DEF NameRow
  <2> HIDE DEF k
  <2>3. /\ Ledger(k) /\ k.elapsed = l.elapsed /\ k.terminal = l.terminal
        /\ k.active = l.active
        /\ k.actions = Written(l, NameRow(l, m, now))
    BY <2>1, <2>2, ReservedIn
  <2> QED BY <2>3 DEF k
<1>5. CASE m.operation = "OBSERVE_DNS"
  <2> DEFINE rows == Written(l, NameRow(l, m, now))
  <2>1. k = [l EXCEPT !.actions = rows]
    <3>1. NameRow(l, m, now) = [Action(l) EXCEPT !.observation =
                 [answer |-> m.answer, observed_at |-> now, bytes |-> m.bytes]]
      BY <1>5 DEF NameRow
    <3>2. k = Observed(l, m, now)
      BY <1>5 DEF NamePerformed
    <3> QED BY <3>1, <3>2 DEF Observed, Action, Written
  <2> HIDE DEF rows
  <2>2. /\ Ledger(k) /\ k.elapsed = l.elapsed /\ k.terminal = l.terminal
        /\ k.active = l.active /\ k.actions = rows
    BY <2>1 DEF Ledger, LedgerFields
  <2> QED BY <2>2 DEF rows
<1>6. CASE m.operation = "FINISH_CONNECTION"
  <2> DEFINE rows == Written(l, NameRow(l, m, now))
  <2>1. k = [l EXCEPT !.connection = 0, !.requested = FALSE, !.actions = rows]
    <3>1. NameRow(l, m, now) = [Action(l) EXCEPT !.delivered = m.delivered,
                 !.connections_finished = Action(l).connections_finished + 1]
      BY <1>6 DEF NameRow
    <3>2. k = NameDisconnected(l, m)
      BY <1>6 DEF NamePerformed
    <3> DEFINE row == [Action(l) EXCEPT !.delivered = m.delivered, !.connections_finished = @ + 1]
    <3>3. NameDisconnected(l, m)
            = [l EXCEPT !.connection = 0, !.requested = FALSE, !.actions[l.active] = row]
      BY DEF NameDisconnected
    <3>4. NameRow(l, m, now) = row
      BY <3>1
    <3> HIDE DEF k, row
    <3> QED BY <3>2, <3>3, <3>4 DEF Written
  <2> HIDE DEF rows
  <2>2. /\ Ledger(k) /\ k.elapsed = l.elapsed /\ k.terminal = l.terminal
        /\ k.active = l.active /\ k.actions = rows
    BY <2>1 DEF Ledger, LedgerFields
  <2> QED BY <2>2 DEF rows
<1>7. CASE m.operation = "FINISH_ACTION"
  <2> DEFINE rows     == Written(l, NameRow(l, m, now))
             binding  == IF Binds(l, m) THEN [generation  |-> l.generation,
                                              observed_at |-> Action(l).observation.observed_at,
                                              expires_at  |-> Expiry(l, now)]
                                        ELSE l.binding
             finished == [l EXCEPT !.active = 0, !.actions = rows, !.binding = binding]
  <2>1. k \in {finished, Stop(finished, Verdict(l, m))}
    <3>1. NameRow(l, m, now) = [Action(l) EXCEPT !.status = "finished", !.success = m.success]
      BY <1>7 DEF NameRow
    <3>2. k = NameFinished(l, m, now)
      BY <1>7 DEF NamePerformed
    <3>3. [l EXCEPT !.active = 0, !.actions[l.active] =
             [@ EXCEPT !.status = "finished", !.success = m.success], !.binding = binding]
            = [l EXCEPT !.active = 0, !.binding = binding,
                        !.actions = [l.actions EXCEPT ![l.active] =
                          [l.actions[l.active] EXCEPT !.status = "finished", !.success = m.success]]]
      OBVIOUS
    <3> QED BY <3>1, <3>2, <3>3 DEF NameFinished, Action, Written
  <2> HIDE DEF rows, binding
  <2>2. /\ Ledger(finished) /\ finished.elapsed = l.elapsed /\ finished.terminal = l.terminal
        /\ finished.active = 0 /\ finished.actions = rows
    BY DEF Ledger, LedgerFields
  <2> HIDE DEF finished
  <2>3. LET s == Stop(finished, Verdict(l, m))
        IN  Ledger(s) /\ s.terminal /\ s.elapsed = l.elapsed /\ s.active = 0 /\ s.actions = rows
    BY <2>2, StopLedger DEF Ledger, LedgerFields
  <2> QED BY <2>1, <2>2, <2>3 DEF rows
<1>8. CASE m.operation = "STOP"
  <2>1. k = Stop(l, m.reason)
    BY <1>8 DEF NamePerformed
  <2>2. Ledger(k) /\ k.terminal /\ k.elapsed = l.elapsed
    BY <2>1, StopLedger DEF Ledger, LedgerFields
  <2> QED BY <1>8, <2>2
<1> QED BY <1>1, <1>2, <1>3, <1>4, <1>5, <1>6, <1>7, <1>8 DEF NAME_OPERATIONS

LEMMA NamePerformedListed ==
  ASSUME NEW l, Ledger(l), Listed(l), NEW m, m.operation \in NAME_OPERATIONS,
         m.operation = "ARM" => Operation(m.slot) \in OPERATIONS,
         NEW now \in Nat, NamePermitted(l, m, now)
  PROVE  /\ Listed(NamePerformed(l, m, now))
         /\ Late(l, now) = "none" /\ ~l.terminal =>
              \/ NamePerformed(l, m, now).terminal
              \/ Late(NamePerformed(l, m, now), now) = "none"
<1>1. CASE m.operation = "ARM"
  <2> DEFINE binding == IF Operation(m.slot) = "dns" THEN UNBOUND ELSE l.binding
             new     == [slot |-> m.slot, bound |-> binding.generation,
                         deadline |-> Earlier(SESSION_US, now + Timeout[Operation(m.slot)]),
                         status |-> "active", connections_finished |-> 0, success |-> FALSE,
                         observation |-> UNSEEN, delivered |-> 0,
                         counters |-> [c \in NAME_COUNTERS |-> 0]]
             k       == NameArmed(l, m, now)
  <2>1. NamePerformed(l, m, now) = k /\ NameMayArm(l, m, now)
    BY <1>1 DEF NamePerformed, NamePermitted
  <2>2. k.actions = Append(l.actions, new) /\ k.active = m.number
    BY DEF NameArmed, Ledger, LedgerFields
  <2>3. m.number = Len(l.actions) + 1
    BY <2>1 DEF NameMayArm
  <2>4. "deadline" \in DOMAIN new /\ new.deadline = Earlier(SESSION_US, now + Timeout[Operation(m.slot)])
    OBVIOUS
  <2>5. now < SESSION_US => new.deadline > now /\ new.deadline \in Nat
    <3>1. Timeout[Operation(m.slot)] \in Nat \ {0}
      BY <1>1, NameTlsAssumption
    <3> HIDE DEF new
    <3> QED BY <2>4, <3>1, OwnerAssumption DEF Earlier
  <2> HIDE DEF k, new
  <2>6. Listed(k) /\ Action(k) = new /\ k.active # 0
    BY <2>2, <2>3, <2>4, ListedArm
  <2>7. Late(l, now) = "none" => Late(k, now) = "none"
    BY <2>5, <2>6, OwnerAssumption DEF Late
  <2> QED BY <2>1, <2>6, <2>7
<1>2. CASE m.operation = "STOP"
  <2>1. NamePerformed(l, m, now) = Stop(l, m.reason)
    BY <1>2 DEF NamePerformed
  <2>2. Stop(l, m.reason).terminal /\ Stop(l, m.reason).actions = l.actions
        /\ Stop(l, m.reason).active = l.active
    BY StopLedger DEF Ledger, LedgerFields
  <2> QED BY <2>1, <2>2, ListedSame
<1>3. CASE m.operation \notin {"ARM", "STOP"}
  <2> DEFINE k == NamePerformed(l, m, now)
             r == NameRow(l, m, now)
  <2>1. l.active # 0
    BY <1>3 DEF NamePermitted, NAME_OPERATIONS, NameMayConnect, MayOperate, NameMayTransfer,
                MayObserve, MayDisconnect, NameMayFinish, Leased, OnWire, BoundAction
  <2>2. k.active \in {0, l.active} /\ k.actions = Written(l, r)
    BY <1>3, NamePerformedLedger
  <2>3. "deadline" \in DOMAIN r /\ r.deadline = Action(l).deadline
    <3>1. "deadline" \in DOMAIN Action(l)
      BY <2>1 DEF Listed
    <3>2. \A counter, amount : /\ "deadline" \in DOMAIN RowWith(l, counter, amount)
                               /\ RowWith(l, counter, amount).deadline = Action(l).deadline
      BY <3>1 DEF RowWith
    <3> QED BY <1>3, <3>1, <3>2 DEF NameRow, NAME_OPERATIONS
  <2> HIDE DEF k, r
  <2>4. Listed(k) /\ (Late(l, now) = "none" => Late(k, now) = "none")
    BY <2>1, <2>2, <2>3, ListedRow DEF Written
  <2> QED BY <2>4 DEF k
<1> QED BY <1>1, <1>2, <1>3

NameDecided(l, m, now) ==
  IF NamePermitted(l, m, now) THEN Granted(Quiet(l), m, NamePerformed(l, m, now))
                              ELSE Denied(Quiet(l), m, "refused")

NameDecidedLedger(l, m, now) ==
  IF ~NamePermitted(l, m, now) THEN Stop(l, "refused")
  ELSE IF Waits(l, m) THEN l ELSE NamePerformed(l, m, now)

NameDecidedReply(l, m, now) ==
  IF NamePermitted(l, m, now) THEN GrantedReply(l, m) ELSE Reply("denied", "refused", 0)

LEMMA NameDecidedReplies ==
  ASSUME NEW l, Accounted(l), NEW m, m.operation \in NAME_OPERATIONS,
         m.operation = "ARM" => Operation(m.slot) \in OPERATIONS, NEW now \in Nat, l.elapsed = now
  PROVE  /\ Accounted(NameDecidedLedger(l, m, now))
         /\ NameDecidedLedger(l, m, now).elapsed = now
         /\ NameDecided(l, m, now)
              = Replied(Quiet(NameDecidedLedger(l, m, now)), m, NameDecidedReply(l, m, now))
<1> DEFINE y == NameDecidedLedger(l, m, now)
<1>1. Ledger(l) /\ Listed(l) /\ Timely(l)
  BY DEF Accounted
<1>2. NameDecided(l, m, now) = Replied(Quiet(y), m, NameDecidedReply(l, m, now))
  BY <1>1, GrantedReplies, DeniedReplies
     DEF NameDecided, NameDecidedLedger, NameDecidedReply, Quiet
<1>3. CASE ~NamePermitted(l, m, now)
  <2>1. y = Stop(l, "refused")
    BY <1>3 DEF NameDecidedLedger
  <2>2. Ledger(y) /\ y.elapsed = now /\ y.terminal /\ y.actions = l.actions /\ y.active = l.active
    BY <1>1, <2>1, StopLedger DEF Ledger, LedgerFields
  <2> HIDE DEF y
  <2>3. Accounted(y) /\ y.elapsed = now
    BY <1>1, <2>2, ListedSame DEF Timely, Accounted
  <2> QED BY <1>2, <2>3 DEF y
<1>4. CASE NamePermitted(l, m, now) /\ Waits(l, m)
  <2>1. y = l
    BY <1>4 DEF NameDecidedLedger
  <2> HIDE DEF y
  <2>2. Accounted(y) /\ y.elapsed = now
    BY <2>1
  <2> QED BY <1>2, <2>2 DEF y
<1>5. CASE NamePermitted(l, m, now) /\ ~Waits(l, m)
  <2>1. y = NamePerformed(l, m, now)
    BY <1>5 DEF NameDecidedLedger
  <2>2. Ledger(y) /\ y.elapsed = now /\ (l.terminal => y.terminal)
    <3> DEFINE k == NamePerformed(l, m, now)
    <3>1. Ledger(k)
      BY <1>1, NamePerformedLedger
    <3>2. k.elapsed = l.elapsed
      BY <1>1, NamePerformedLedger
    <3>3. l.terminal => k.terminal
      BY <1>1, NamePerformedLedger
    <3> HIDE DEF k, y
    <3> QED BY <2>1, <3>1, <3>2, <3>3 DEF k
  <2>3. Listed(y) /\ (Late(l, now) = "none" /\ ~l.terminal => y.terminal \/ Late(y, now) = "none")
    BY <1>1, <1>5, <2>1, NamePerformedListed
  <2> HIDE DEF y
  <2>4. Accounted(y) /\ y.elapsed = now
    BY <1>1, <2>2, <2>3 DEF Accounted, Timely
  <2> QED BY <1>2, <2>4 DEF y
<1> QED BY <1>3, <1>4, <1>5

LEMMA NameAnswerCases ==
  ASSUME NEW l, NEW m, NEW now
  PROVE  LET seen  == At(l, now)
             taken == Taken(seen, m)
         IN  NameAnswer(l, m, now) =
               IF ~InOrder(l, m) THEN Denied(Quiet(seen), m, "refused")
               ELSE IF Overdue(l, now) /\ m.operation \notin CLEANUP_OPERATIONS
                 THEN Denied(Quiet(taken), m, Late(l, now))
               ELSE IF Overdue(l, now) THEN NameDecided(Stop(taken, Late(l, now)), m, now)
               ELSE NameDecided(taken, m, now)
BY DEF NameAnswer, At, Taken, NameDecided, Overdue

LEMMA NameAnswerAt ==
  ASSUME NEW l, Ledger(l), NEW time \in Nat, NEW m, NEW now \in Nat
  PROVE  NameAnswer(At(l, time), m, now) = NameAnswer(l, m, now)
<1> DEFINE k == At(l, time)
<1>1. /\ At(k, now) = At(l, now) /\ Late(k, now) = Late(l, now)
      /\ k.terminal = l.terminal /\ InOrder(k, m) = InOrder(l, m)
  BY AtLedger, AtAt, LateAt DEF Ledger, LedgerFields, InOrder
<1>2. Overdue(k, now) = Overdue(l, now)
  BY <1>1 DEF Overdue
<1> HIDE DEF k
<1>3. NameAnswer(k, m, now) = NameAnswer(l, m, now)
  BY <1>1, <1>2, NameAnswerCases
<1> QED BY <1>3 DEF k

\* A refusal, or a deadline without an event, leaves an account.
LEMMA StopAccounted ==
  ASSUME NEW l, Ledger(l), Listed(l), NEW reason
  PROVE  Accounted(Stop(l, reason)) /\ Stop(l, reason).elapsed = l.elapsed
<1> DEFINE k == Stop(l, reason)
<1>1. Ledger(k) /\ k.terminal /\ k.elapsed = l.elapsed /\ k.actions = l.actions /\ k.active = l.active
  BY StopLedger DEF Ledger, LedgerFields
<1> HIDE DEF k
<1>2. Accounted(k) /\ k.elapsed = l.elapsed
  BY <1>1, ListedSame DEF Accounted, Timely
<1> QED BY <1>2 DEF k

LEMMA DeniedOnce ==
  ASSUME NEW l, Ledger(l), Listed(l), NEW m, NEW reason
  PROVE  \E y, reply : /\ Accounted(y) /\ y.elapsed = l.elapsed
                       /\ Denied(Quiet(l), m, reason) = Replied(Quiet(y), m, reply)
<1> WITNESS Stop(l, reason), Reply("denied", reason, 0)
<1> QED BY StopAccounted, DeniedReplies DEF Quiet

LEMMA NameAnswerReplies ==
  ASSUME NEW l, Ledger(l), Listed(l), NEW m, m.operation \in NAME_OPERATIONS,
         m.operation = "ARM" => Operation(m.slot) \in OPERATIONS, NEW now \in Nat
  PROVE  \E y, reply : /\ Accounted(y) /\ y.elapsed = now
                       /\ NameAnswer(l, m, now) = Replied(Quiet(y), m, reply)
<1> DEFINE seen  == At(l, now)
           taken == Taken(seen, m)
<1>1. /\ Ledger(seen) /\ seen.elapsed = now /\ Listed(seen) /\ seen.terminal = l.terminal
      /\ \A time : Late(seen, time) = Late(l, time)
  <2>1. Ledger(seen) /\ seen.elapsed = now
    BY AtLedger
  <2>2. seen.terminal = l.terminal /\ seen.actions = l.actions /\ seen.active = l.active
    BY AtLedger DEF Ledger, LedgerFields
  <2> HIDE DEF seen
  <2> QED BY <2>1, <2>2, ListedSame
<1>2. /\ Ledger(taken) /\ taken.elapsed = now /\ Listed(taken) /\ taken.terminal = l.terminal
      /\ \A time : Late(taken, time) = Late(l, time)
  <2> HIDE DEF seen
  <2>1. /\ Ledger(taken) /\ taken.elapsed = now /\ taken.terminal = l.terminal
        /\ taken.actions = seen.actions /\ taken.active = seen.active
    BY <1>1, TakenLedger DEF Ledger, LedgerFields
  <2> HIDE DEF taken
  <2> QED BY <1>1, <2>1, ListedSame
<1>3. NameAnswer(l, m, now) =
        IF ~InOrder(l, m) THEN Denied(Quiet(seen), m, "refused")
        ELSE IF Overdue(l, now) /\ m.operation \notin CLEANUP_OPERATIONS
          THEN Denied(Quiet(taken), m, Late(l, now))
        ELSE IF Overdue(l, now) THEN NameDecided(Stop(taken, Late(l, now)), m, now)
        ELSE NameDecided(taken, m, now)
  BY NameAnswerCases
<1> HIDE DEF seen, taken
<1>4. ASSUME NEW k, Accounted(k), k.elapsed = now
      PROVE  \E y, reply : /\ Accounted(y) /\ y.elapsed = now
                           /\ NameDecided(k, m, now) = Replied(Quiet(y), m, reply)
  <2> WITNESS NameDecidedLedger(k, m, now), NameDecidedReply(k, m, now)
  <2> QED BY <1>4, NameDecidedReplies
<1>5. CASE ~InOrder(l, m)
  BY <1>1, <1>3, <1>5, DeniedOnce
<1>6. CASE InOrder(l, m) /\ Overdue(l, now) /\ m.operation \notin CLEANUP_OPERATIONS
  BY <1>2, <1>3, <1>6, DeniedOnce
<1>7. CASE InOrder(l, m) /\ Overdue(l, now) /\ m.operation \in CLEANUP_OPERATIONS
  <2>1. Accounted(Stop(taken, Late(l, now))) /\ Stop(taken, Late(l, now)).elapsed = now
    BY <1>2, StopAccounted
  <2> QED BY <1>3, <1>4, <1>7, <2>1
<1>8. CASE InOrder(l, m) /\ ~Overdue(l, now)
  <2>1. Accounted(taken)
    BY <1>2, <1>8 DEF Accounted, Timely, Overdue
  <2> QED BY <1>2, <1>3, <1>4, <1>8, <2>1
<1> QED BY <1>5, <1>6, <1>7, <1>8

LEMMA NameMessageReplayable ==
  ASSUME NEW l, Ledger(l), Listed(l), NEW m, m.operation \in NAME_OPERATIONS,
         m.operation = "ARM" => Operation(m.slot) \in OPERATIONS, ~Raises(l, m),
         NEW reading \in Int, AtCapacity(l) \/ ClockFault(l, reading) = "none"
  PROVE  NameReplayable(l, NameApply(l, m, reading)) /\ Accounted(NameApply(l, m, reading).ledger)
<1>1. CASE AtCapacity(l)
  <2>1. NameApply(l, m, reading) = CapacityStop(l)
    BY <1>1 DEF NameApply
  <2>2. Accounted(CapacityStop(l).ledger)
    BY StoppedAccounted DEF CapacityStop
  <2> QED BY <1>1, <2>1, <2>2, CapacityRestops, RestopsAreRetold
<1>2. CASE ~AtCapacity(l) /\ ClockFault(l, reading) = "none"
  <2>1. reading \in Nat /\ reading >= l.elapsed
    BY <1>2, ReadingCases DEF FAULTS
  <2>2. PICK y, reply : /\ Accounted(y) /\ y.elapsed = reading
                        /\ NameAnswer(l, m, reading) = Replied(Quiet(y), m, reply)
    BY <2>1, NameAnswerReplies
  <2> DEFINE e    == MessageEvent(y, m, reply)
             seen == At(l, reading)
  <2>3. NameApply(l, m, reading) = NameAnswer(l, m, reading)
    BY <1>2 DEF NameApply
  <2>4. NameAnswer(l, m, reading) = [ledger |-> Counted(y), log |-> <<e>>]
    BY <2>2, RepliedOnce DEF Accounted
  <2>5. Accounted(Counted(y)) /\ Counted(y).elapsed = reading
    <3>1. Ledger(y) /\ "elapsed" \in DOMAIN y \ {"events"}
      BY <2>2 DEF Accounted, Ledger, LedgerFields
    <3>2. Counted(y).elapsed = y.elapsed
      BY <3>1, RepliedLog
    <3> QED BY <2>2, <3>2, CountedAccounted
  <2>6. e.kind = "message" /\ e.at = reading /\ e.message = m
    BY <2>2 DEF MessageEvent
  <2>7. /\ Ledger(seen) /\ seen.elapsed = reading
        /\ Raises(seen, m) = Raises(l, m) /\ AtCapacity(seen) = AtCapacity(l)
    BY <2>1, AtLedger DEF Raises, AtCapacity, Ledger, LedgerFields
  <2>8. NameAnswer(seen, m, reading) = NameAnswer(l, m, reading)
    BY <2>1, NameAnswerAt
  <2> HIDE DEF e, seen
  <2>9. ClockFault(seen, reading) = "none"
    BY <2>1, <2>7 DEF ClockFault
  <2>10. Retell(seen, e) = NameAnswer(l, m, reading)
    BY <1>2, <2>6, <2>7, <2>8, <2>9 DEF Retell, NameApply
  <2>11. NameReproduces(l, e, NameApply(l, m, reading))
    BY <2>1, <2>3, <2>4, <2>5, <2>6, <2>10 DEF NameReproduces, seen
  <2> QED BY <2>3, <2>4, <2>5, <2>11 DEF NameReplayable
<1> QED BY <1>1, <1>2

LEMMA NameMessageOperations ==
  ASSUME NEW l, NEW m \in NameMessages(l)
  PROVE  /\ m.operation \in NAME_OPERATIONS
         /\ m.operation = "ARM" => Operation(m.slot) \in OPERATIONS
<1>1. PICK operation \in DOMAIN NameBodies(l), role \in NAME_ROLES :
        m \in With(Header(l, operation, role), NameBodies(l)[operation])
  BY DEF NameMessages
<1>2. PICK h \in Header(l, operation, role), f \in NameBodies(l)[operation] : m = Joined(h, f)
  BY <1>1 DEF With
<1>3. DOMAIN h = {"operation", "role", "sequence", "number"} /\ h.operation = operation
  BY <1>2 DEF Header
<1>4. m.operation = operation
  BY <1>2, <1>3 DEF Joined
<1>5. operation \in NAME_OPERATIONS
  BY <1>1 DEF NameBodies, NAME_OPERATIONS
<1>6. ASSUME operation = "ARM"
      PROVE  Operation(m.slot) \in OPERATIONS
  <2>1. f \in [slot : {"dns_1", "dns_2", "http"}]
    BY <1>2, <1>6 DEF NameBodies
  <2>2. m.slot = f.slot
    BY <1>2, <1>3, <2>1 DEF Joined
  <2>3. Operation(m.slot) \in {"dns", "http"}
    BY <2>1, <2>2 DEF Operation
  <2> QED BY <2>3, NameTlsAssumption
<1> QED BY <1>4, <1>5, <1>6

\* The inductive invariant, as that of the routing owner.
RetoldInv ==
  /\ agrees = TRUE
  /\ Accounted(owner)
  /\ Ledger(retold) /\ retold.elapsed <= owner.elapsed
  /\ owner = At(retold, owner.elapsed)
  /\ owner.terminal => owner.elapsed = retold.elapsed

LEMMA NameAdvanceKeeps ==
  ASSUME RetoldInv, NEW outcome, NameReplayable(owner, outcome), Accounted(outcome.ledger),
         NameAdvance(outcome)
  PROVE  RetoldInv'
<1>1. /\ Ledger(owner) /\ Ledger(retold) /\ owner.elapsed \in Nat
      /\ owner' = outcome.ledger /\ Accounted(owner') /\ Ledger(owner')
  BY DEF RetoldInv, Accounted, Ledger, NameAdvance
<1>2. CASE Unseen(owner, outcome)
  <2>1. PICK time \in Nat : time >= owner.elapsed /\ outcome.ledger = At(owner, time)
    BY <1>2 DEF Unseen
  <2>2. outcome.log = << >> /\ ~owner.terminal
    BY <1>2 DEF Unseen
  <2>3. retold' = retold /\ agrees' = TRUE
    BY <2>2 DEF NameAdvance, RetoldInv, Quiet
  <2>4. owner'.elapsed = time /\ owner'.terminal = owner.terminal
    BY <1>1, <2>1, AtLedger DEF Ledger, LedgerFields
  <2>5. owner' = At(retold, time)
    <3>1. owner = At(retold, owner.elapsed)
      BY DEF RetoldInv
    <3>2. At(At(retold, owner.elapsed), time) = At(retold, time)
      BY <1>1, AtAt
    <3> QED BY <1>1, <2>1, <3>1, <3>2
  <2>6. retold.elapsed <= time
    BY <1>1, <2>1 DEF RetoldInv, Ledger
  <2> QED BY <1>1, <2>2, <2>3, <2>4, <2>5, <2>6 DEF RetoldInv
<1>3. CASE \E e : NameReproduces(owner, e, outcome)
  <2>1. PICK e : NameReproduces(owner, e, outcome)
    BY <1>3
  <2>2. outcome.log = <<e>> /\ outcome.log # << >> /\ outcome.log[1] = e
    BY <2>1 DEF NameReproduces
  <2>3. e.at \in Nat /\ e.at >= owner.elapsed /\ Retell(At(owner, e.at), e) = outcome
    BY <2>1 DEF NameReproduces
  <2>4. At(retold, e.at) = At(owner, e.at)
    <3>1. owner = At(retold, owner.elapsed)
      BY DEF RetoldInv
    <3>2. At(At(retold, owner.elapsed), e.at) = At(retold, e.at)
      BY <1>1, <2>3, AtAt
    <3> QED BY <3>1, <3>2
  <2>5. retold' = Retell(At(retold, e.at), e).ledger
    BY <2>2 DEF NameAdvance, At
  <2>6. agrees' = (agrees /\ e.at >= retold.elapsed /\ Retell(At(retold, e.at), e).log = outcome.log)
    BY <2>2 DEF NameAdvance, At
  <2>7. e.at >= retold.elapsed
    BY <1>1, <2>3 DEF RetoldInv, Ledger
  <2>8. agrees' = TRUE /\ retold' = owner'
    BY <1>1, <2>3, <2>4, <2>5, <2>6, <2>7 DEF RetoldInv
  <2>9. At(owner', owner'.elapsed) = owner' /\ owner'.elapsed \in Nat
    BY <1>1, AtElapsed DEF Ledger
  <2> QED BY <1>1, <2>8, <2>9 DEF RetoldInv
<1> QED BY <1>2, <1>3 DEF NameReplayable

\* As long as no message met a fault of the clock.
SteadyInv == steady => RetoldInv

LEMMA SteadyInit ==
  ASSUME NameInit
  PROVE  RetoldInv
<1>1. PICK case \in Cases : owner = Fresh(case)
  BY DEF NameInit
<1>2. retold = owner /\ agrees = TRUE
  BY DEF NameInit
<1> DEFINE blank == NewLedger("name_tls", NAME_ROLES, NAME_COUNTERS)
           own   == [case |-> case, binding |-> UNBOUND, generation |-> 0]
<1>3. DOMAIN blank = LedgerFields
  BY DEF NewLedger, LedgerFields
<1>4. blank.kind = "name_tls" /\ blank.elapsed = 0 /\ blank.events = 0 /\ blank.terminal = FALSE
      /\ blank.actions = << >> /\ blank.active = 0
  BY DEF NewLedger
<1>5. owner = [f \in DOMAIN blank \cup DOMAIN own |-> IF f \in DOMAIN blank THEN blank[f] ELSE own[f]]
  BY <1>1 DEF Fresh, Joined
<1> HIDE DEF blank, own
<1>6. /\ DOMAIN owner = LedgerFields \cup DOMAIN own
      /\ owner = [f \in DOMAIN owner |-> owner[f]]
      /\ \A f \in LedgerFields : owner[f] = blank[f]
  BY <1>3, <1>5
<1>7. Ledger(owner) /\ owner.actions = << >> /\ owner.active = 0 /\ ~owner.terminal
      /\ owner.elapsed = 0
  <2>1. {"kind", "elapsed", "events", "terminal", "actions", "active"} \subseteq LedgerFields
    BY DEF LedgerFields
  <2>2. /\ owner.kind = "name_tls" /\ owner.elapsed = 0 /\ owner.events = 0
        /\ owner.terminal = FALSE /\ owner.actions = << >> /\ owner.active = 0
    BY <1>4, <1>6, <2>1
  <2>3. LedgerFields \subseteq DOMAIN owner
    BY <1>6
  <2>4. owner = [f \in DOMAIN owner |-> owner[f]]
    BY <1>6
  <2>5. owner.kind \in {"routing", "name_tls"} /\ owner.terminal \in BOOLEAN
    BY <2>2
  <2>6. owner.elapsed \in Nat /\ owner.events \in Nat
    BY <2>2
  <2>7. Ledger(owner)
    BY <2>3, <2>4, <2>5, <2>6, Zenon DEF Ledger
  <2> QED BY <2>2, <2>7
<1>8. Listed(owner)
  <2>1. owner.actions \in Seq({})
    BY <1>7
  <2> QED BY <1>7, <2>1 DEF Listed
<1>9. Timely(owner)
  BY <1>7, OwnerAssumption DEF Timely, Late
<1>10. At(owner, owner.elapsed) = owner
  BY <1>7, AtElapsed
<1> QED BY <1>2, <1>7, <1>8, <1>9, <1>10 DEF RetoldInv, Accounted

LEMMA SteadyStep ==
  ASSUME SteadyInv, [NameNext]_nameVars
  PROVE  SteadyInv'
<1> SUFFICES ASSUME steady'
             PROVE  RetoldInv'
  BY DEF SteadyInv
<1>1. steady
  BY DEF NameNext, NameReceive, NamePoll, NameEnd, nameVars
<1>2. RetoldInv /\ Ledger(owner) /\ Listed(owner)
  BY <1>1 DEF SteadyInv, RetoldInv, Accounted
<1>3. ASSUME NameReceive
      PROVE  RetoldInv'
  <2>1. PICK m \in NameMessages(owner), reading \in Readings(owner) :
          /\ ~Raises(owner, m)
          /\ NameAdvance(NameApply(owner, m, reading))
          /\ steady' = (steady /\ (AtCapacity(owner) \/ ClockFault(owner, reading) = "none"))
    BY <1>3 DEF NameReceive
  <2>2. AtCapacity(owner) \/ ClockFault(owner, reading) = "none"
    BY <2>1
  <2>3. reading \in Int
    BY <1>2, ReadingsAreInt
  <2>4. m.operation \in NAME_OPERATIONS /\ (m.operation = "ARM" => Operation(m.slot) \in OPERATIONS)
    BY NameMessageOperations
  <2>5. /\ NameReplayable(owner, NameApply(owner, m, reading))
        /\ Accounted(NameApply(owner, m, reading).ledger)
    BY <1>2, <2>1, <2>2, <2>3, <2>4, NameMessageReplayable
  <2> QED BY <1>2, <2>1, <2>5, NameAdvanceKeeps
<1>4. ASSUME NamePoll
      PROVE  RetoldInv'
  <2>1. PICK reading \in Readings(owner) :
          ~owner.terminal /\ NameAdvance(CheckDeadline(owner, reading))
    BY <1>4 DEF NamePoll
  <2>2. reading \in Int
    BY <1>2, ReadingsAreInt
  <2>3. /\ NameReplayable(owner, CheckDeadline(owner, reading))
        /\ Accounted(CheckDeadline(owner, reading).ledger)
    BY <1>2, <2>1, <2>2, CheckRestops, CheckAccounted, RestopsAreRetold
  <2> QED BY <1>2, <2>1, <2>3, NameAdvanceKeeps
<1>5. ASSUME NameEnd
      PROVE  RetoldInv'
  <2>1. PICK reading \in Readings(owner), reason \in {"completed"} \cup STOP_REASONS :
          ~owner.terminal /\ NameAdvance(Terminate(owner, reason, reading))
    BY <1>5 DEF NameEnd
  <2>2. reading \in Int
    BY <1>2, ReadingsAreInt
  <2>3. /\ NameReplayable(owner, Terminate(owner, reason, reading))
        /\ Accounted(Terminate(owner, reason, reading).ledger)
    BY <1>2, <2>1, <2>2, TerminateRestops, TerminateAccounted, RestopsAreRetold
  <2> QED BY <1>2, <2>1, <2>3, NameAdvanceKeeps
<1>6. CASE UNCHANGED nameVars
  BY <1>2, <1>6 DEF nameVars, RetoldInv, Accounted, Ledger, Listed, Timely, Late, Action, At
<1> QED BY <1>3, <1>4, <1>5, <1>6 DEF NameNext

\* The saved ledger of an owner of a name and its messages replay to the same ledger,
\* as long as no message met a fault of the clock (name_tls_ledger.py, _replay): the
\* settlements after a deadline, the refusals and the full log included.
THEOREM SteadyNamesReplay == NameSpec => []SteadyLedgersReplay
<1>1. NameInit => SteadyInv
  BY SteadyInit DEF SteadyInv
<1>2. SteadyInv /\ [NameNext]_nameVars => SteadyInv'
  BY SteadyStep
<1>3. SteadyInv => SteadyLedgersReplay
  <2> SUFFICES ASSUME SteadyInv, steady
               PROVE  SavedLedgersReplay
    BY DEF SteadyLedgersReplay
  <2>1. RetoldInv /\ Ledger(retold) /\ owner.elapsed \in Nat
    BY DEF SteadyInv, RetoldInv, Accounted, Ledger
  <2>2. ~owner.terminal => Late(retold, owner.elapsed) = "none"
    <3>1. Late(At(retold, owner.elapsed), owner.elapsed) = Late(retold, owner.elapsed)
      BY <2>1, LateAt
    <3> QED BY <2>1, <3>1 DEF RetoldInv, Accounted, Timely
  <2> QED BY <2>1, <2>2 DEF RetoldInv, SavedLedgersReplay, At
<1> QED BY <1>1, <1>2, <1>3, PTL DEF NameSpec
-----------------------------------------------------------------------------
(***************************************************************************)
(* The owner of a name: ServicesKnowTheName.                               *)
(*                                                                         *)
(* A binding stands for the row of the last question: it is finished, its  *)
(* answer was the expected one and was delivered, and the binding expires  *)
(* no later than that answer.  While there is one no question is armed, so *)
(* the row is not written to any more; the next question ends the binding. *)
(***************************************************************************)
RowFields ==
  {"slot", "bound", "deadline", "status", "connections_finished", "success", "observation",
   "delivered", "counters"}

RowsInv(l) ==
  /\ \E S : l.actions \in Seq(S)
  /\ \A n \in 1 .. Len(l.actions) : /\ DOMAIN l.actions[n] = RowFields
                                    /\ l.actions[n].observation.observed_at \in Int
  /\ l.active # 0 => l.active = Len(l.actions)

\* The action n is the last question, and was answered as expected.
Answers(l, n) ==
  /\ \A later \in 1 .. Len(l.actions) : later > n => Operation(l.actions[later].slot) # "dns"
  /\ Operation(l.actions[n].slot) = "dns"
  /\ l.actions[n].status = "finished" /\ l.actions[n].success
  /\ l.actions[n].observation.answer = "expected" /\ Delivered(l.actions[n])

BindingTold(l) ==
  l.binding.generation # 0 =>
    /\ l.active # 0 => Operation(Action(l).slot) # "dns"
    /\ l.binding.expires_at \in Int
    /\ \E n \in 1 .. Len(l.actions) :
         Answers(l, n) /\ l.binding.expires_at <= l.actions[n].observation.observed_at + Ttl[l.case]

NameLedger(l) == Ledger(l) /\ {"case", "binding", "generation"} \subseteq DOMAIN l /\ l.case \in Cases

NamedInv(l) == NameLedger(l) /\ RowsInv(l) /\ BindingTold(l)

\* Two ledgers that say the same about the name.
Same(l, k) ==
  /\ Ledger(k) /\ DOMAIN k = DOMAIN l
  /\ k.actions = l.actions /\ k.active = l.active /\ k.binding = l.binding /\ k.case = l.case

LEMMA SameFields ==
  ASSUME NEW l, NamedInv(l)
  PROVE  /\ Ledger(l) /\ Same(l, l)
         /\ {"actions", "active", "binding", "case", "elapsed"} \subseteq
              DOMAIN l \ {"terminal", "reason", "events", "sequences"}
BY DEF NamedInv, NameLedger, Ledger, LedgerFields, Same

LEMMA SameNamed ==
  ASSUME NEW l, NamedInv(l), NEW k, Same(l, k)
  PROVE  NamedInv(k) /\ Services(k) = Services(l) /\ k.binding = l.binding
<1>1. NameLedger(k)
  BY DEF NamedInv, NameLedger, Same
<1>2. RowsInv(k)
  BY DEF NamedInv, RowsInv, Same
<1>3. BindingTold(k)
  BY DEF NamedInv, BindingTold, Answers, Action, Same
<1>4. Services(k) = Services(l)
  BY DEF Services, Same
<1> QED BY <1>1, <1>2, <1>3, <1>4 DEF NamedInv, Same

LEMMA SameSame ==
  ASSUME NEW l, NEW k, Same(l, k), NEW j, Same(k, j)
  PROVE  Same(l, j)
BY DEF Same

LEMMA SameStop ==
  ASSUME NEW l, NamedInv(l), NEW reason
  PROVE  Same(l, Stop(l, reason)) /\ Stop(l, reason).elapsed = l.elapsed
BY SameFields, StopLedger DEF Same

LEMMA SameStopped ==
  ASSUME NEW l, NamedInv(l), NEW kind, NEW reason
  PROVE  Same(l, Stopped(l, kind, reason).ledger)
<1>1. PICK u : /\ Stopped(l, kind, reason)
                    = [ledger |-> u, log |-> <<[kind |-> kind, at |-> l.elapsed, reason |-> reason]>>]
               /\ Ledger(u) /\ DOMAIN u = DOMAIN l
               /\ \A f \in DOMAIN l \ {"terminal", "reason", "events"} : u[f] = l[f]
  BY SameFields, StoppedState
<1>2. Same(l, u)
  BY <1>1, SameFields DEF Same
<1> QED BY <1>1, <1>2

LEMMA SameAt ==
  ASSUME NEW l, NamedInv(l), NEW time \in Nat
  PROVE  Same(l, At(l, time)) /\ At(l, time).elapsed = time
<1>1. /\ Ledger(At(l, time)) /\ DOMAIN At(l, time) = DOMAIN l /\ At(l, time).elapsed = time
      /\ \A f \in DOMAIN l \ {"elapsed"} : At(l, time)[f] = l[f]
  BY SameFields, AtLedger
<1> QED BY <1>1, SameFields DEF Same

LEMMA SameTaken ==
  ASSUME NEW l, NamedInv(l), NEW m
  PROVE  Same(l, Taken(l, m)) /\ Taken(l, m).elapsed = l.elapsed
BY SameFields, TakenLedger DEF Same

LEMMA SameCounted ==
  ASSUME NEW l, NamedInv(l)
  PROVE  Same(l, Counted(l)) /\ Counted(l).elapsed = l.elapsed
<1>1. /\ Ledger(Counted(l)) /\ DOMAIN Counted(l) = DOMAIN l
      /\ \A f \in DOMAIN l \ {"events"} : Counted(l)[f] = l[f]
  BY SameFields, RepliedLog
<1> QED BY <1>1, SameFields DEF Same

\* A look at the clock and a stop say nothing of the name.
LEMMA SameChecked ==
  ASSUME NEW l, NamedInv(l), NEW reading \in Int
  PROVE  Same(l, CheckDeadline(l, reading).ledger)
<1>1. CASE l.terminal
  BY <1>1, SameFields DEF CheckDeadline, Quiet
<1>2. CASE ~l.terminal
  <2>1. Same(l, Stopped(l, "clock_stop", ClockFault(l, reading)).ledger)
    BY SameStopped
  <2>2. ASSUME reading \in Nat
        PROVE  /\ Same(l, Quiet(At(l, reading)).ledger)
               /\ Same(l, Stopped(At(l, reading), "clock_stop", Late(l, reading)).ledger)
    <3>1. Same(l, At(l, reading)) /\ NamedInv(At(l, reading))
      BY <2>2, SameAt, SameNamed
    <3>2. Same(At(l, reading), Stopped(At(l, reading), "clock_stop", Late(l, reading)).ledger)
      BY <3>1, SameStopped
    <3> QED BY <3>1, <3>2, SameSame DEF Quiet
  <2> QED BY <1>2, <2>1, <2>2, SameFields, CheckCases
<1> QED BY <1>1, <1>2

LEMMA SameTerminated ==
  ASSUME NEW l, NamedInv(l), NEW reading \in Int, NEW reason
  PROVE  Same(l, Terminate(l, reason, reading).ledger)
<1> DEFINE checked == CheckDeadline(l, reading).ledger
<1>1. Same(l, checked) /\ NamedInv(checked)
  BY SameChecked, SameNamed
<1>2. Same(checked, Stopped(checked, "owner_stop", reason).ledger)
  BY <1>1, SameStopped
<1>3. Terminate(l, reason, reading).ledger \in {checked, Stopped(checked, "owner_stop", reason).ledger}
  BY DEF Terminate
<1> HIDE DEF checked
<1> QED BY <1>1, <1>2, <1>3, SameSame

\* What an operation makes of what is said of the name: the invariant, and the property
\* of a step from l to k.
Informed(l, k) ==
  /\ NamedInv(k)
  /\ Services(k) # Services(l) \/ (k.binding # l.binding /\ k.binding # UNBOUND) => Known(k)

LEMMA BoundKnown ==
  ASSUME NEW k, NamedInv(k), Bound(k, k.elapsed)
  PROVE  Known(k)
<1>1. PICK n \in 1 .. Len(k.actions) :
        Answers(k, n) /\ k.binding.expires_at <= k.actions[n].observation.observed_at + Ttl[k.case]
  BY DEF NamedInv, BindingTold, Bound
<1>2. k.actions[n].observation.observed_at \in Int /\ Ttl[k.case] \in Int /\ k.elapsed \in Int
      /\ k.binding.expires_at \in Int
  BY NameTlsAssumption DEF NamedInv, RowsInv, NameLedger, Ledger, BindingTold, Bound
<1>3. k.elapsed < k.actions[n].observation.observed_at + Ttl[k.case]
  <2> DEFINE limit == k.actions[n].observation.observed_at + Ttl[k.case]
  <2>1. limit \in Int /\ k.elapsed < k.binding.expires_at /\ k.binding.expires_at <= limit
    BY <1>1, <1>2 DEF Bound
  <2> HIDE DEF limit
  <2>2. k.elapsed < limit
    BY <1>2, <2>1
  <2> QED BY <2>2 DEF limit
<1>4. DOMAIN k.actions = 1 .. Len(k.actions)
  BY DEF NamedInv, RowsInv
<1> QED BY <1>1, <1>3, <1>4 DEF Known, Answers

\* The log of rows with the row of the armed action written again.
LEMMA WrittenRows ==
  ASSUME NEW l, RowsInv(l), l.active # 0, NEW r, DOMAIN r = RowFields, r.observation.observed_at \in Int,
         NEW k, k.active \in {0, l.active}, k.actions = Written(l, r)
  PROVE  /\ RowsInv(k) /\ Len(k.actions) = Len(l.actions)
         /\ l.active = Len(l.actions) /\ l.active \in 1 .. Len(l.actions)
         /\ \A n \in 1 .. Len(l.actions) :
              k.actions[n] = IF n = l.active THEN r ELSE l.actions[n]
<1>1. PICK S : l.actions \in Seq(S)
  BY DEF RowsInv
<1>2. l.active = Len(l.actions) /\ l.active \in 1 .. Len(l.actions)
  BY <1>1 DEF RowsInv
<1> DEFINE T == S \cup {r}
<1>3. l.actions \in Seq(T) /\ r \in T
  <2>1. \A i \in 1 .. Len(l.actions) : l.actions[i] \in T
    BY <1>1
  <2>2. Len(l.actions) \in Nat /\ l.actions = [i \in 1 .. Len(l.actions) |-> l.actions[i]]
    BY <1>1
  <2> HIDE DEF T
  <2>3. l.actions \in Seq(T)
    BY <2>1, <2>2, IsASeq
  <2> QED BY <2>3 DEF T
<1> HIDE DEF T
<1>4. /\ k.actions \in Seq(T) /\ Len(k.actions) = Len(l.actions)
      /\ \A n \in 1 .. Len(l.actions) :
           k.actions[n] = IF n = l.active THEN r ELSE l.actions[n]
  BY <1>2, <1>3, ExceptSeq DEF Written
<1>5. RowsInv(k)
  BY <1>2, <1>4 DEF RowsInv
<1> QED BY <1>2, <1>4, <1>5

\* As long as it is not bound anew, the name is told of as before; and the services are
\* what they were unless a counter of one of them moves.
LEMMA WrittenNamed ==
  ASSUME NEW l, NamedInv(l), l.active # 0,
         NEW r, DOMAIN r = RowFields, r.slot = Action(l).slot, r.observation.observed_at \in Int,
         NEW k, NameLedger(k), k.active \in {0, l.active}, k.actions = Written(l, r),
         k.binding = l.binding, k.case = l.case
  PROVE  /\ NamedInv(k)
         /\ Operation(Action(l).slot) = "dns" \/ r.counters = Action(l).counters
              => Services(k) = Services(l)
<1>1. /\ RowsInv(k) /\ Len(k.actions) = Len(l.actions)
      /\ l.active = Len(l.actions) /\ l.active \in 1 .. Len(l.actions)
      /\ \A n \in 1 .. Len(l.actions) :
           k.actions[n] = IF n = l.active THEN r ELSE l.actions[n]
  BY WrittenRows DEF NamedInv
<1>2. \A n \in 1 .. Len(l.actions) : k.actions[n].slot = l.actions[n].slot
  BY <1>1 DEF Action
<1>3. BindingTold(k)
  <2> SUFFICES ASSUME l.binding.generation # 0
               PROVE  /\ k.active # 0 => Operation(Action(k).slot) # "dns"
                      /\ l.binding.expires_at \in Int
                      /\ \E n \in 1 .. Len(k.actions) :
                           /\ Answers(k, n)
                           /\ l.binding.expires_at <= k.actions[n].observation.observed_at + Ttl[k.case]
    BY DEF BindingTold
  <2>1. Operation(Action(l).slot) # "dns" /\ l.binding.expires_at \in Int
    BY DEF NamedInv, BindingTold
  <2>2. PICK n \in 1 .. Len(l.actions) :
          /\ Answers(l, n)
          /\ l.binding.expires_at <= l.actions[n].observation.observed_at + Ttl[l.case]
    BY DEF NamedInv, BindingTold
  <2>3. n # l.active
    BY <2>1, <2>2 DEF Answers, Action
  <2>4. k.actions[n] = l.actions[n]
    BY <1>1, <2>3
  <2>5. Answers(k, n)
    BY <1>1, <1>2, <2>2, <2>4 DEF Answers
  <2>6. k.active # 0 => Operation(Action(k).slot) # "dns"
    BY <1>1, <1>2, <2>1 DEF Action
  <2> QED BY <1>1, <2>1, <2>2, <2>4, <2>5, <2>6
<1>4. ASSUME Operation(Action(l).slot) = "dns" \/ r.counters = Action(l).counters
      PROVE  Services(k) = Services(l)
  <2>1. DOMAIN k.actions = 1 .. Len(l.actions) /\ DOMAIN l.actions = 1 .. Len(l.actions)
    BY <1>1 DEF NamedInv, RowsInv
  <2> DEFINE Others == {n \in DOMAIN l.actions : Operation(l.actions[n].slot) # "dns"}
  <2>2. Others = {n \in DOMAIN k.actions : Operation(k.actions[n].slot) # "dns"}
    BY <1>2, <2>1
  <2>3. \A n \in Others : k.actions[n].counters = l.actions[n].counters
    BY <1>1, <1>4, <2>1 DEF Action
  <2> HIDE DEF Others
  <2>4. \A c \in NAME_COUNTERS : {<<n, k.actions[n].counters[c]>> : n \in Others}
                                   = {<<n, l.actions[n].counters[c]>> : n \in Others}
    BY <2>3
  <2>5. Services(k) = [c \in NAME_COUNTERS |-> {<<n, k.actions[n].counters[c]>> : n \in Others}]
    BY <2>2, Zenon DEF Services
  <2>6. Services(l) = [c \in NAME_COUNTERS |-> {<<n, l.actions[n].counters[c]>> : n \in Others}]
    BY Zenon DEF Services, Others
  <2> QED BY <2>4, <2>5, <2>6
<1> QED BY <1>1, <1>3, <1>4 DEF NamedInv

\* What an operation writes into the row of the armed action.
LEMMA NameRowWrites ==
  ASSUME NEW l, NamedInv(l), l.active # 0, NEW now \in Nat,
         NEW m, m.operation \in NAME_OPERATIONS \ {"ARM", "STOP"}
  PROVE  /\ DOMAIN NameRow(l, m, now) = RowFields
         /\ NameRow(l, m, now).slot = Action(l).slot
         /\ NameRow(l, m, now).observation.observed_at \in Int
         /\ m.operation \in {"OBSERVE_DNS", "FINISH_CONNECTION", "FINISH_ACTION"} =>
              NameRow(l, m, now).counters = Action(l).counters
<1> DEFINE row == Action(l)
<1>1. DOMAIN row = RowFields /\ row.observation.observed_at \in Int
  <2>1. l.active \in 1 .. Len(l.actions)
    BY DEF NamedInv, RowsInv
  <2> QED BY <2>1 DEF NamedInv, RowsInv, Action
<1> HIDE DEF row
<1>2. ASSUME NEW counter, NEW amount
      PROVE  LET r == RowWith(l, counter, amount)
             IN  DOMAIN r = RowFields /\ r.slot = row.slot /\ r.observation = row.observation
  <2>1. RowWith(l, counter, amount)
          = [row EXCEPT !.counters = [row.counters EXCEPT ![counter] = row.counters[counter] + amount]]
    BY DEF RowWith, row
  <2> QED BY <1>1, <2>1 DEF RowFields
<1>3. CASE m.operation \in {"RESERVE_CONNECTION", "RESERVE_OPERATION", "RESERVE_BYTES"}
  <2>1. \E counter, amount : NameRow(l, m, now) = RowWith(l, counter, amount)
    BY <1>3 DEF NameRow
  <2> QED BY <1>1, <1>2, <1>3, <2>1 DEF row
<1>4. CASE m.operation = "OBSERVE_DNS"
  <2>1. NameRow(l, m, now) = [row EXCEPT !.observation =
                 [answer |-> m.answer, observed_at |-> now, bytes |-> m.bytes]]
    BY <1>4 DEF NameRow, row
  <2> QED BY <1>1, <2>1 DEF row, RowFields
<1>5. CASE m.operation = "FINISH_CONNECTION"
  <2>1. NameRow(l, m, now) = [row EXCEPT !.delivered = m.delivered,
                 !.connections_finished = row.connections_finished + 1]
    BY <1>5 DEF NameRow, row
  <2> QED BY <1>1, <2>1 DEF row, RowFields
<1>6. CASE m.operation = "FINISH_ACTION"
  <2>1. NameRow(l, m, now) = [row EXCEPT !.status = "finished", !.success = m.success]
    BY <1>6 DEF NameRow, row
  <2> QED BY <1>1, <2>1 DEF row, RowFields
<1> QED BY <1>3, <1>4, <1>5, <1>6 DEF NAME_OPERATIONS

\* A reservation moves nothing but the counters and the row.
LEMMA ReservedName ==
  ASSUME NEW l, NamedInv(l), NEW counter, NEW amount
  PROVE  /\ Ledger(Reserved(l, counter, amount)) /\ DOMAIN Reserved(l, counter, amount) = DOMAIN l
         /\ Reserved(l, counter, amount).binding = l.binding
         /\ Reserved(l, counter, amount).case = l.case
<1> DEFINE rows == [l.actions EXCEPT ![l.active] = [l.actions[l.active] EXCEPT !.counters =
                      [l.actions[l.active].counters EXCEPT ![counter] = @ + amount]]]
           sums == [l.counters EXCEPT ![counter] = @ + amount]
<1>1. Reserved(l, counter, amount) = [l EXCEPT !.counters = sums, !.actions = rows]
  BY DEF Reserved
<1>2. Ledger(Reserved(l, counter, amount))
  BY SameFields, ReservedIn
<1> HIDE DEF rows, sums
<1> QED BY <1>1, <1>2, SameFields

LEMMA OthersLeaveName ==
  ASSUME NEW l, NamedInv(l), NEW now \in Nat,
         NEW m, m.operation \in NAME_OPERATIONS \ {"ARM", "FINISH_ACTION", "STOP"}
  PROVE  /\ NameLedger(NamePerformed(l, m, now))
         /\ NamePerformed(l, m, now).binding = l.binding
         /\ NamePerformed(l, m, now).case = l.case
<1> DEFINE k == NamePerformed(l, m, now)
<1>1. Ledger(k)
  BY SameFields, NamePerformedLedger
<1>2. DOMAIN k = DOMAIN l /\ k.binding = l.binding /\ k.case = l.case
  <2>1. CASE m.operation = "RESERVE_CONNECTION"
    <3> DEFINE reserved == Reserved(l, "connections", 1)
    <3>1. k = [reserved EXCEPT !.connection = m.local_id, !.requested = FALSE, !.admitted = now]
      BY <2>1 DEF NamePerformed, NameConnected
    <3>2. DOMAIN reserved = DOMAIN l /\ reserved.binding = l.binding /\ reserved.case = l.case
      BY ReservedName
    <3> HIDE DEF reserved
    <3> QED BY <3>1, <3>2, SameFields
  <2>2. CASE m.operation = "RESERVE_OPERATION"
    <3> DEFINE reserved == Reserved(l, "operations", 1)
    <3>1. k = [reserved EXCEPT !.requested = TRUE]
      BY <2>2 DEF NamePerformed, Operated
    <3>2. DOMAIN reserved = DOMAIN l /\ reserved.binding = l.binding /\ reserved.case = l.case
      BY ReservedName
    <3> HIDE DEF reserved
    <3> QED BY <3>1, <3>2, SameFields
  <2>3. CASE m.operation = "RESERVE_BYTES"
    BY <2>3, ReservedName DEF NamePerformed
  <2>4. CASE m.operation = "OBSERVE_DNS"
    <3>1. k = Observed(l, m, now)
      BY <2>4 DEF NamePerformed
    <3> QED BY <3>1, SameFields DEF Observed
  <2>5. CASE m.operation = "FINISH_CONNECTION"
    <3>1. k = NameDisconnected(l, m)
      BY <2>5 DEF NamePerformed
    <3> QED BY <3>1, SameFields DEF NameDisconnected
  <2> QED BY <2>1, <2>2, <2>3, <2>4, <2>5 DEF NAME_OPERATIONS
<1> HIDE DEF k
<1>3. NameLedger(k)
  BY <1>1, <1>2 DEF NamedInv, NameLedger
<1> QED BY <1>2, <1>3 DEF k

\* Within an action: a reservation for a service is made under its binding.
LEMMA OthersInform ==
  ASSUME NEW l, NamedInv(l), NEW now, now \in Nat, l.elapsed = now,
         NEW m, m.operation \in NAME_OPERATIONS \ {"ARM", "FINISH_ACTION", "STOP"},
         NamePermitted(l, m, now)
  PROVE  Informed(l, NamePerformed(l, m, now))
<1> DEFINE k == NamePerformed(l, m, now)
           r == NameRow(l, m, now)
<1>1. l.active # 0
  BY DEF NamePermitted, NAME_OPERATIONS, NameMayConnect, MayOperate, NameMayTransfer,
         MayObserve, MayDisconnect, Leased, OnWire
<1>2. /\ NameLedger(k) /\ k.binding = l.binding /\ k.case = l.case
      /\ k.active \in {0, l.active} /\ k.actions = Written(l, r) /\ k.elapsed = l.elapsed
  BY SameFields, OthersLeaveName, NamePerformedLedger
<1>3. /\ DOMAIN r = RowFields /\ r.slot = Action(l).slot /\ r.observation.observed_at \in Int
      /\ m.operation \in {"OBSERVE_DNS", "FINISH_CONNECTION"} => r.counters = Action(l).counters
  BY <1>1, NameRowWrites
<1>4. \/ m.operation \in {"OBSERVE_DNS", "FINISH_CONNECTION"} \/ Operation(Action(l).slot) = "dns"
      \/ Bound(l, now)
  BY DEF NamePermitted, NAME_OPERATIONS, NameMayConnect, MayOperate, NameMayTransfer, Covered
<1> HIDE DEF k, r
<1>5. /\ NamedInv(k)
      /\ Operation(Action(l).slot) = "dns" \/ r.counters = Action(l).counters
           => Services(k) = Services(l)
  BY <1>1, <1>2, <1>3, WrittenNamed
<1>6. Bound(l, now) => Known(k)
  BY <1>2, <1>5, BoundKnown DEF Bound
<1> QED BY <1>2, <1>3, <1>4, <1>5, <1>6 DEF Informed, k

\* A question ends the binding; a service is armed under it.
LEMMA ArmInforms ==
  ASSUME NEW l, NamedInv(l), NEW now, now \in Nat, l.elapsed = now,
         NEW m, m.operation = "ARM", NamePermitted(l, m, now)
  PROVE  Informed(l, NamePerformed(l, m, now))
<1> DEFINE asks       == Operation(m.slot) = "dns"
           binding    == IF asks THEN UNBOUND ELSE l.binding
           generation == IF asks THEN l.generation + 1 ELSE l.generation
           row        == [slot |-> m.slot, bound |-> binding.generation,
                          deadline |-> Earlier(SESSION_US, now + Timeout[Operation(m.slot)]),
                          status |-> "active", connections_finished |-> 0, success |-> FALSE,
                          observation |-> UNSEEN, delivered |-> 0,
                          counters |-> [c \in NAME_COUNTERS |-> 0]]
           rows       == Append(l.actions, row)
           k          == NamePerformed(l, m, now)
           last       == Len(l.actions) + 1
<1>1. k = [l EXCEPT !.generation = generation, !.binding = binding,
                    !.active = m.number, !.actions = rows]
  BY DEF NamePerformed, NameArmed
<1>2. m.number = last /\ (asks \/ Bound(l, now))
  BY DEF NamePermitted, NameMayArm
<1>3. DOMAIN row = RowFields /\ row.observation.observed_at \in Int /\ row.slot = m.slot
  BY DEF RowFields, UNSEEN
<1>4. PICK S : l.actions \in Seq(S)
  BY DEF NamedInv, RowsInv
<1>5. Ledger(k) /\ k.elapsed = now
  BY SameFields, NamePerformedLedger DEF NAME_OPERATIONS
<1> HIDE DEF row
<1>6. /\ \E T : rows \in Seq(T)
      /\ Len(rows) = last /\ rows[last] = row /\ last \in Nat
      /\ \A n \in 1 .. Len(l.actions) : rows[n] = l.actions[n]
  <2> DEFINE T == S \cup {row}
  <2>1. l.actions \in Seq(T) /\ row \in T /\ Len(l.actions) \in Nat
    <3>1. \A i \in 1 .. Len(l.actions) : l.actions[i] \in T
      BY <1>4
    <3>2. Len(l.actions) \in Nat /\ l.actions = [i \in 1 .. Len(l.actions) |-> l.actions[i]]
      BY <1>4
    <3> HIDE DEF T
    <3>3. l.actions \in Seq(T)
      BY <3>1, <3>2, IsASeq
    <3> QED BY <3>2, <3>3 DEF T
  <2> HIDE DEF T
  <2> QED BY <2>1, AppendProperties
<1> HIDE DEF k, rows, binding, generation, asks
<1>7. /\ k.binding = binding /\ k.active = last /\ k.actions = rows /\ k.case = l.case
      /\ DOMAIN k = DOMAIN l
  BY <1>1, <1>2, SameFields DEF NamedInv, NameLedger
<1>8. NameLedger(k)
  BY <1>5, <1>7 DEF NamedInv, NameLedger
<1>9. RowsInv(k)
  <2>1. \A n \in 1 .. Len(rows) : n = last \/ n \in 1 .. Len(l.actions)
    BY <1>4, <1>6
  <2>2. \A n \in 1 .. Len(rows) : DOMAIN rows[n] = RowFields /\ rows[n].observation.observed_at \in Int
    BY <1>3, <1>6, <2>1 DEF NamedInv, RowsInv
  <2> QED BY <1>6, <1>7, <2>2 DEF RowsInv
<1>10. CASE asks
  <2>1. k.binding = UNBOUND /\ Operation(row.slot) = "dns"
    BY <1>3, <1>7, <1>10 DEF binding, asks
  <2>2. BindingTold(k)
    BY <2>1 DEF BindingTold, UNBOUND
  <2>3. Services(k) = Services(l)
    <3> DEFINE Others == {n \in DOMAIN l.actions : Operation(l.actions[n].slot) # "dns"}
    <3>1. DOMAIN l.actions = 1 .. Len(l.actions) /\ DOMAIN rows = 1 .. last
      BY <1>4, <1>6
    <3>2. \A n \in 1 .. last : n = last \/ n \in 1 .. Len(l.actions)
      BY <1>4
    <3>3. 1 .. Len(l.actions) \subseteq 1 .. last
      BY <1>4
    <3>4. Others = {n \in DOMAIN k.actions : Operation(k.actions[n].slot) # "dns"}
      BY <1>6, <1>7, <2>1, <3>1, <3>2, <3>3
    <3>5. \A n \in Others : k.actions[n].counters = l.actions[n].counters
      BY <1>6, <1>7, <3>1
    <3> HIDE DEF Others
    <3>6. \A c \in NAME_COUNTERS : {<<n, k.actions[n].counters[c]>> : n \in Others}
                                     = {<<n, l.actions[n].counters[c]>> : n \in Others}
      BY <3>5
    <3>7. Services(k) = [c \in NAME_COUNTERS |-> {<<n, k.actions[n].counters[c]>> : n \in Others}]
      BY <3>4, Zenon DEF Services
    <3>8. Services(l) = [c \in NAME_COUNTERS |-> {<<n, l.actions[n].counters[c]>> : n \in Others}]
      BY Zenon DEF Services, Others
    <3> QED BY <3>6, <3>7, <3>8
  <2> QED BY <1>8, <1>9, <2>1, <2>2, <2>3 DEF Informed, NamedInv, k
<1>11. CASE ~asks
  <2>1. k.binding = l.binding /\ Operation(row.slot) # "dns" /\ Bound(l, now)
    BY <1>2, <1>3, <1>7, <1>11 DEF binding, asks
  <2>2. l.binding.generation # 0
    BY <2>1 DEF Bound
  <2>3. PICK n \in 1 .. Len(l.actions) :
          /\ Answers(l, n)
          /\ l.binding.expires_at <= l.actions[n].observation.observed_at + Ttl[l.case]
    BY <2>2 DEF NamedInv, BindingTold
  <2>4. n \in 1 .. Len(rows) /\ rows[n] = l.actions[n]
    BY <1>4, <1>6
  <2>5. Answers(k, n)
    <3>1. \A later \in 1 .. Len(rows) : later = last \/ later \in 1 .. Len(l.actions)
      BY <1>4, <1>6
    <3> QED BY <1>6, <1>7, <2>1, <2>3, <2>4, <3>1 DEF Answers
  <2>6. l.binding.expires_at \in Int
    BY <2>2 DEF NamedInv, BindingTold
  <2>7. BindingTold(k)
    BY <1>6, <1>7, <2>1, <2>3, <2>4, <2>5, <2>6 DEF BindingTold, Action
  <2>8. NamedInv(k)
    BY <1>8, <1>9, <2>7 DEF NamedInv
  <2>9. Bound(k, k.elapsed)
    BY <1>5, <2>1 DEF Bound
  <2> QED BY <2>1, <2>8, <2>9, BoundKnown DEF Informed, k
<1> QED BY <1>10, <1>11

\* The end of an action binds the name to a whole answer that is still in time, or
\* leaves the binding as it is.
LEMMA FinishInforms ==
  ASSUME NEW l, NamedInv(l), NEW now, now \in Nat, l.elapsed = now,
         NEW m, m.operation = "FINISH_ACTION", NamePermitted(l, m, now)
  PROVE  Informed(l, NamePerformed(l, m, now))
<1> DEFINE r        == NameRow(l, m, now)
           rows     == Written(l, r)
           bound    == [generation  |-> l.generation,
                        observed_at |-> Action(l).observation.observed_at,
                        expires_at  |-> Expiry(l, now)]
           binding  == IF Binds(l, m) THEN bound ELSE l.binding
           k        == [l EXCEPT !.active = 0, !.actions = rows, !.binding = binding]
<1>1. NameMayFinish(l, m, now) /\ l.active # 0
  BY DEF NamePermitted, NameMayFinish, BoundAction
<1>2. NamePerformed(l, m, now) \in {k, Stop(k, Verdict(l, m))}
  <2>1. r = [Action(l) EXCEPT !.status = "finished", !.success = m.success]
    BY DEF NameRow
  <2>2. NamePerformed(l, m, now) = NameFinished(l, m, now)
    BY DEF NamePerformed
  <2>3. [l EXCEPT !.active = 0, !.actions[l.active] =
           [@ EXCEPT !.status = "finished", !.success = m.success], !.binding = binding]
          = [l EXCEPT !.active = 0, !.binding = binding,
                      !.actions = [l.actions EXCEPT ![l.active] =
                        [l.actions[l.active] EXCEPT !.status = "finished", !.success = m.success]]]
    OBVIOUS
  <2> QED BY <2>1, <2>2, <2>3 DEF NameFinished, Action, Written
<1> HIDE DEF rows, binding
<1>3. /\ k.active = 0 /\ k.actions = rows /\ k.binding = binding /\ k.case = l.case
      /\ k.elapsed = now /\ NameLedger(k)
  <2>1. /\ k.active = 0 /\ k.actions = rows /\ k.binding = binding /\ k.case = l.case
        /\ k.elapsed = now /\ DOMAIN k = DOMAIN l /\ Ledger(k)
    BY SameFields DEF Ledger, LedgerFields
  <2> HIDE DEF k
  <2> QED BY <2>1 DEF NamedInv, NameLedger
<1>4. /\ DOMAIN r = RowFields /\ r.slot = Action(l).slot /\ r.observation.observed_at \in Int
      /\ r.counters = Action(l).counters
  BY <1>1, NameRowWrites DEF NAME_OPERATIONS
<1>5. Informed(l, k)
  <2> HIDE DEF k
  <2>1. CASE ~Binds(l, m)
    <3>1. k.binding = l.binding
      BY <1>3, <2>1 DEF binding
    <3> HIDE DEF r
    <3>2. NamedInv(k) /\ Services(k) = Services(l)
      BY <1>1, <1>3, <1>4, <3>1, WrittenNamed DEF rows
    <3> QED BY <3>1, <3>2 DEF Informed
  <2>2. CASE Binds(l, m)
    <3> DEFINE n     == l.active
               until == Action(l).observation.observed_at + Ttl[l.case]
    <3>1. /\ Operation(Action(l).slot) = "dns" /\ m.success /\ m.answer = "expected"
          /\ Action(l).observation.answer = "expected" /\ Delivered(Action(l))
          /\ now < Expiry(l, now)
      BY <1>1, <2>2 DEF Binds, NameMayFinish
    <3>2. DOMAIN Action(l) = RowFields /\ Action(l).observation.observed_at \in Int
      <4>1. l.active \in 1 .. Len(l.actions)
        BY <1>1 DEF NamedInv, RowsInv
      <4> QED BY <4>1 DEF NamedInv, RowsInv, Action
    <3>3. /\ r.status = "finished" /\ r.success = m.success
          /\ r.observation = Action(l).observation
          /\ r.delivered = Action(l).delivered
          /\ r.connections_finished = Action(l).connections_finished
      <4>1. r = [Action(l) EXCEPT !.status = "finished", !.success = m.success]
        BY DEF NameRow
      <4> HIDE DEF r
      <4> QED BY <3>2, <4>1 DEF RowFields
    <3>4. Expiry(l, now) \in Int /\ Expiry(l, now) <= until /\ until \in Int
      <4>1. until \in Int
        BY <3>2, NameTlsAssumption DEF NamedInv, NameLedger
      <4> HIDE DEF until
      <4>2. Earlier(SESSION_US, until) \in Int /\ Earlier(SESSION_US, until) <= until
        BY <4>1, OwnerAssumption DEF Earlier
      <4> QED BY <4>1, <4>2 DEF Expiry, until
    <3>5. k.binding = bound
      BY <1>3, <2>2 DEF binding
    <3> HIDE DEF r
    <3>6. /\ RowsInv(k) /\ Len(k.actions) = Len(l.actions)
          /\ n = Len(l.actions) /\ n \in 1 .. Len(l.actions)
          /\ \A i \in 1 .. Len(l.actions) : k.actions[i] = IF i = n THEN r ELSE l.actions[i]
      BY <1>1, <1>3, <1>4, WrittenRows DEF NamedInv, rows
    <3>7. k.actions[n] = r /\ DOMAIN k.actions = 1 .. Len(k.actions)
      BY <3>6 DEF RowsInv
    <3>8. r.success
      BY <3>1, <3>3
    <3>9. Answers(k, n)
      <4>1. \A later \in 1 .. Len(k.actions) : ~(later > n)
        BY <3>6
      <4>2. Delivered(r)
        BY <3>1, <3>3 DEF Delivered
      <4> QED BY <1>4, <3>1, <3>3, <3>7, <3>8, <4>1, <4>2 DEF Answers
    <3>10. k.binding.expires_at = Expiry(l, now)
      BY <3>5
    <3>11. r.observation.observed_at + Ttl[k.case] = until
      BY <1>3, <3>3
    <3> HIDE DEF until, n
    <3>12. BindingTold(k)
      BY <1>3, <3>4, <3>6, <3>7, <3>9, <3>10, <3>11 DEF BindingTold
    <3>13. Known(k)
      <4>1. k.elapsed < k.actions[n].observation.observed_at + Ttl[k.case]
        BY <1>3, <3>1, <3>4, <3>7, <3>11
      <4> QED BY <3>6, <3>7, <3>9, <4>1 DEF Known, Answers
    <3> QED BY <1>3, <3>6, <3>12, <3>13 DEF Informed, NamedInv
  <2> QED BY <2>1, <2>2
<1> HIDE DEF k
<1>6. Same(k, Stop(k, Verdict(l, m))) /\ Stop(k, Verdict(l, m)).elapsed = k.elapsed
  BY <1>5, SameStop DEF Informed
<1>7. Informed(l, Stop(k, Verdict(l, m)))
  <2> DEFINE s == Stop(k, Verdict(l, m))
  <2>1. NamedInv(s) /\ Services(s) = Services(k) /\ s.binding = k.binding
    BY <1>5, <1>6, SameNamed DEF Informed
  <2>2. Known(k) => Known(s)
    BY <1>6 DEF Known, Same
  <2> HIDE DEF s
  <2>3. Informed(l, s)
    BY <1>5, <2>1, <2>2 DEF Informed
  <2> QED BY <2>3 DEF s
<1> QED BY <1>2, <1>5, <1>7

LEMMA SameInformed ==
  ASSUME NEW l, NamedInv(l), NEW k, Same(l, k), NEW y, Informed(k, y),
         NEW z, Same(y, z), z.elapsed = y.elapsed
  PROVE  Informed(l, z)
<1>1. NamedInv(k) /\ Services(k) = Services(l) /\ k.binding = l.binding
  BY SameNamed
<1>2. NamedInv(z) /\ Services(z) = Services(y) /\ z.binding = y.binding
  BY SameNamed DEF Informed
<1>3. Known(y) => Known(z)
  BY DEF Known, Same
<1> QED BY <1>1, <1>2, <1>3 DEF Informed

LEMMA SameInforms ==
  ASSUME NEW l, NamedInv(l), NEW k, Same(l, k)
  PROVE  Informed(l, k)
BY SameNamed DEF Informed

LEMMA DecidedInforms ==
  ASSUME NEW l, NamedInv(l), NEW now, now \in Nat, l.elapsed = now,
         NEW m, m.operation \in NAME_OPERATIONS
  PROVE  Informed(l, NameDecidedLedger(l, m, now)) /\ NameDecidedLedger(l, m, now).elapsed = now
<1>1. CASE ~NamePermitted(l, m, now)
  BY <1>1, SameStop, SameInforms DEF NameDecidedLedger
<1>2. CASE NamePermitted(l, m, now) /\ Waits(l, m)
  BY <1>2, SameFields, SameInforms DEF NameDecidedLedger
<1>3. CASE NamePermitted(l, m, now) /\ ~Waits(l, m)
  <2>1. NameDecidedLedger(l, m, now) = NamePerformed(l, m, now)
    BY <1>3 DEF NameDecidedLedger
  <2>2. NamePerformed(l, m, now).elapsed = now
    BY SameFields, NamePerformedLedger
  <2>3. CASE m.operation = "STOP"
    <3>1. NamePerformed(l, m, now) = Stop(l, m.reason)
      BY <2>3 DEF NamePerformed
    <3> QED BY <2>1, <2>2, <3>1, SameStop, SameInforms
  <2>4. Informed(l, NamePerformed(l, m, now)) \/ m.operation = "STOP"
    BY <1>3, ArmInforms, FinishInforms, OthersInform
  <2> QED BY <2>1, <2>2, <2>3, <2>4
<1> QED BY <1>1, <1>2, <1>3

\* A message, whatever becomes of it.
LEMMA AnswerInforms ==
  ASSUME NEW l, NamedInv(l), NEW now \in Nat, NEW m, m.operation \in NAME_OPERATIONS
  PROVE  Informed(l, NameAnswer(l, m, now).ledger)
<1> DEFINE seen  == At(l, now)
           taken == Taken(seen, m)
           late  == Stop(taken, Late(l, now))
<1>1. Same(l, seen) /\ seen.elapsed = now /\ NamedInv(seen)
  BY SameAt, SameNamed
<1> HIDE DEF seen
<1>2. Same(l, taken) /\ taken.elapsed = now /\ NamedInv(taken)
  BY <1>1, SameTaken, SameSame, SameNamed
<1> HIDE DEF taken
<1>3. Same(l, late) /\ late.elapsed = now /\ NamedInv(late)
  BY <1>2, SameStop, SameSame, SameNamed
<1> HIDE DEF late
<1>4. NameAnswer(l, m, now) =
        IF ~InOrder(l, m) THEN Denied(Quiet(seen), m, "refused")
        ELSE IF Overdue(l, now) /\ m.operation \notin CLEANUP_OPERATIONS
          THEN Denied(Quiet(taken), m, Late(l, now))
        ELSE IF Overdue(l, now) THEN NameDecided(late, m, now)
        ELSE NameDecided(taken, m, now)
  BY NameAnswerCases DEF seen, taken, late
<1>5. ASSUME NEW k, Same(l, k), NamedInv(k), NEW y, Informed(k, y), NEW reply
      PROVE  Informed(l, Replied(Quiet(y), m, reply).ledger)
  <2>1. Replied(Quiet(y), m, reply).ledger = Counted(y)
    BY <1>5, SameFields, RepliedOnce DEF Informed
  <2>2. Same(y, Counted(y)) /\ Counted(y).elapsed = y.elapsed
    BY <1>5, SameCounted DEF Informed
  <2> QED BY <1>5, <2>1, <2>2, SameInformed
<1>6. ASSUME NEW k, Same(l, k), NamedInv(k), NEW reason
      PROVE  Informed(l, Denied(Quiet(k), m, reason).ledger)
  <2>1. Informed(k, Stop(k, reason))
    BY <1>6, SameStop, SameInforms
  <2>2. Denied(Quiet(k), m, reason) = Replied(Quiet(Stop(k, reason)), m, Reply("denied", reason, 0))
    BY <1>6, SameFields, DeniedReplies DEF Quiet
  <2> QED BY <1>5, <1>6, <2>1, <2>2
<1>7. ASSUME NEW k, Same(l, k), NamedInv(k), k.elapsed = now
      PROVE  Informed(l, NameDecided(k, m, now).ledger)
  <2>1. Informed(k, NameDecidedLedger(k, m, now))
    BY <1>7, DecidedInforms
  <2>2. NameDecided(k, m, now)
          = Replied(Quiet(NameDecidedLedger(k, m, now)), m, NameDecidedReply(k, m, now))
    BY <1>7, SameFields, GrantedReplies, DeniedReplies
       DEF NameDecided, NameDecidedLedger, NameDecidedReply, Quiet
  <2> QED BY <1>5, <1>7, <2>1, <2>2
<1> QED BY <1>1, <1>2, <1>3, <1>4, <1>6, <1>7

LEMMA ApplyInforms ==
  ASSUME NEW l, NamedInv(l), NEW reading \in Int, NEW m, m.operation \in NAME_OPERATIONS
  PROVE  Informed(l, NameApply(l, m, reading).ledger)
<1>1. CASE AtCapacity(l)
  BY <1>1, SameStopped, SameInforms DEF NameApply, CapacityStop
<1>2. CASE ~AtCapacity(l) /\ ClockFault(l, reading) # "none"
  <2> DEFINE fault == ClockFault(l, reading)
             s     == Stop(l, fault)
  <2>1. NameApply(l, m, reading) = Denied(Quiet(l), m, fault)
    BY <1>2 DEF NameApply
  <2> HIDE DEF fault
  <2>2. Same(l, s) /\ NamedInv(s) /\ Ledger(s)
    BY SameStop, SameNamed, SameFields
  <2>3. Denied(Quiet(l), m, fault) = Replied(Quiet(s), m, Reply("denied", fault, 0))
    BY SameFields, DeniedReplies DEF Quiet
  <2> HIDE DEF s
  <2>4. Denied(Quiet(l), m, fault).ledger = Counted(s)
    BY <2>2, <2>3, RepliedOnce
  <2>5. Same(l, Counted(s))
    BY <2>2, SameCounted, SameSame
  <2> QED BY <2>1, <2>4, <2>5, SameInforms
<1>3. CASE ~AtCapacity(l) /\ ClockFault(l, reading) = "none"
  <2>1. reading \in Nat
    BY <1>3, SameFields, ReadingCases DEF FAULTS
  <2> QED BY <1>3, <2>1, AnswerInforms DEF NameApply
<1> QED BY <1>1, <1>2, <1>3

LEMMA NamedInit ==
  ASSUME NameInit
  PROVE  NamedInv(owner)
<1>1. PICK case \in Cases : owner = Fresh(case)
  BY DEF NameInit
<1>2. Ledger(owner)
  BY SteadyInit DEF RetoldInv, Accounted
<1> DEFINE blank == NewLedger("name_tls", NAME_ROLES, NAME_COUNTERS)
           own   == [case |-> case, binding |-> UNBOUND, generation |-> 0]
<1>3. DOMAIN blank = LedgerFields /\ blank.actions = << >> /\ blank.active = 0
  BY DEF NewLedger, LedgerFields
<1>4. DOMAIN own = {"case", "binding", "generation"} /\ own.case = case /\ own.binding = UNBOUND
  OBVIOUS
<1>5. owner = [f \in DOMAIN blank \cup DOMAIN own |-> IF f \in DOMAIN blank THEN blank[f] ELSE own[f]]
  BY <1>1 DEF Fresh, Joined
<1> HIDE DEF blank, own
<1>6. /\ DOMAIN own \subseteq DOMAIN owner
      /\ owner.actions = << >> /\ owner.active = 0 /\ owner.case = case /\ owner.binding = UNBOUND
  BY <1>3, <1>4, <1>5 DEF LedgerFields
<1>7. NameLedger(owner)
  BY <1>2, <1>4, <1>6 DEF NameLedger
<1>8. owner.actions \in Seq({}) /\ Len(owner.actions) = 0
  BY <1>6
<1>9. RowsInv(owner)
  BY <1>6, <1>8 DEF RowsInv
<1>10. BindingTold(owner)
  BY <1>6 DEF BindingTold, UNBOUND
<1> QED BY <1>7, <1>9, <1>10 DEF NamedInv

LEMMA NamedStep ==
  ASSUME NamedInv(owner), [NameNext]_nameVars
  PROVE  NamedInv(owner') /\ (UNCHANGED owner \/ Informed(owner, owner'))
<1>1. ASSUME NEW reading \in Readings(owner)
      PROVE  reading \in Int
  BY <1>1, SameFields, ReadingsAreInt
<1>2. CASE NameReceive
  <2>1. PICK m \in NameMessages(owner), reading \in Readings(owner) :
          NameAdvance(NameApply(owner, m, reading))
    BY <1>2 DEF NameReceive
  <2>2. m.operation \in NAME_OPERATIONS
    BY NameMessageOperations
  <2>3. Informed(owner, NameApply(owner, m, reading).ledger)
    BY <1>1, <2>2, ApplyInforms
  <2> QED BY <2>1, <2>3 DEF NameAdvance, Informed
<1>3. CASE NamePoll
  <2>1. PICK reading \in Readings(owner) : NameAdvance(CheckDeadline(owner, reading))
    BY <1>3 DEF NamePoll
  <2>2. Informed(owner, CheckDeadline(owner, reading).ledger)
    BY <1>1, SameChecked, SameInforms
  <2> QED BY <2>1, <2>2 DEF NameAdvance, Informed
<1>4. CASE NameEnd
  <2>1. PICK reading \in Readings(owner), reason \in {"completed"} \cup STOP_REASONS :
          NameAdvance(Terminate(owner, reason, reading))
    BY <1>4 DEF NameEnd
  <2>2. Informed(owner, Terminate(owner, reason, reading).ledger)
    BY <1>1, SameTerminated, SameInforms
  <2> QED BY <2>1, <2>2 DEF NameAdvance, Informed
<1>5. CASE UNCHANGED nameVars
  BY <1>5 DEF nameVars
<1> QED BY <1>2, <1>3, <1>4, <1>5 DEF NameNext

\* No service of a name is armed or reserves, and no name is bound, without an answer that
\* was seen on the wire, delivered as a whole and reported, within its time to live since
\* it was seen (name_tls_ledger.py, _finish_action and _binding_check).
THEOREM ServicesAreKnown == NameSpec => ServicesKnowTheName
<1>1. NameInit => NamedInv(owner)
  BY NamedInit
<1>2. NamedInv(owner) /\ [NameNext]_nameVars => NamedInv(owner)'
  <2>1. ASSUME NamedInv(owner), [NameNext]_nameVars
        PROVE  NamedInv(owner')
    BY <2>1, NamedStep
  <2> QED BY <2>1 DEF NamedInv, NameLedger, Ledger, RowsInv, BindingTold, Answers, Delivered, Action
<1>3. NamedInv(owner) /\ [NameNext]_nameVars =>
        [Services(owner') # Services(owner) \/ (owner'.binding # owner.binding /\ owner'.binding # UNBOUND)
           => Known(owner')]_nameVars
  <2> SUFFICES ASSUME NamedInv(owner), [NameNext]_nameVars,
                      \/ Services(owner') # Services(owner)
                      \/ owner'.binding # owner.binding /\ owner'.binding # UNBOUND
               PROVE  Known(owner')
    OBVIOUS
  <2> QED BY NamedStep DEF Informed
<1> QED BY <1>1, <1>2, <1>3, PTL DEF NameSpec, ServicesKnowTheName
=============================================================================
