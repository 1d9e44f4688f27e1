------------------------------ MODULE RecordLog ------------------------------
(***************************************************************************)
(* What a durable record store promises: a sequence of requests to which   *)
(* one request at a time is appended, under an event identifier that was   *)
(* never used, and only when the engine accepts it after all the requests  *)
(* recorded before it.                                                     *)
(***************************************************************************)
EXTENDS Naturals, Sequences

CONSTANTS Requests,         \* records with a field event
          Accepts(_, _)     \* the engine accepts a request after a log

VARIABLE log                \* the recorded requests, oldest first

UsedEvents(l) == {l[n].event : n \in DOMAIN l}

Admissible(l, request) == request.event \notin UsedEvents(l) /\ Accepts(l, request)

Init == log = <<>>

Next == \E request \in Requests :
          /\ Admissible(log, request)
          /\ log' = Append(log, request)

Spec == Init /\ [][Next]_log
=============================================================================
