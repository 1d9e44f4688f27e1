-------------------------- MODULE MCDispatchLedger --------------------------
(***************************************************************************)
(* A small instance of DispatchLedger.  A cost is charged in full, so the  *)
(* limits are given in numbers of identify slots.                          *)
(***************************************************************************)
EXTENDS DispatchLedger

Limits(actions, connections) ==
  [cap \in Caps |-> CASE cap = "actions"     -> actions
                      [] cap = "connections" -> connections
                      [] cap = "runtime_ms"  -> 100
                      [] OTHER               -> 10000]

Rules(actions, connections, end) ==
  [start |-> 0, end |-> end, supported |-> TRUE, max_action_ms |-> 4,
   limits |-> Limits(actions, connections)]

\* Connections for one session's two slots, or for its first slot only.
MCRoes == {Rules(3, 4, 9), Rules(1, 3, 9)}

Clock(utc, before, after) == [utc |-> utc, before |-> before, after |-> after]

\* An instant, a later one and one whose UTC jumped.
MCClocks == {Clock(1, 1, 1), Clock(3, 3, 3), Clock(6, 3, 4)}

MCObservations == {[cap \in ObservedCaps |-> 1]}

\* Identifiers are interchangeable: explore only runs that take them in order.
InOrder(used) == \A n \in used : \A m \in 1 .. n - 1 : m \in used

TakenInOrder ==
  /\ InOrder({e.event_id : e \in events'})
  /\ InOrder({r.dispatch_id : r \in reservations'})
  /\ InOrder({s.session_id : s \in sessions'})
=============================================================================
