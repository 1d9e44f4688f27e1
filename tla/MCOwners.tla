------------------------------- MODULE MCOwners -------------------------------
(***************************************************************************)
(* The ledgers of the two accounting owners.  They share nothing, so one   *)
(* behaviour is of one of them and leaves the other at its start.          *)
(***************************************************************************)
EXTENDS RoutingLedger, NameTlsLedger

MaxEventsOf == [kind \in {"routing", "name_tls"} |-> IF kind = "routing" THEN 7 ELSE 15]

-----------------------------------------------------------------------------
\* The routing owner: one selector of each frontend.
BoundsOf == [s \in Selectors |->
  [c \in COUNTERS \cup {"timeout"} |->
     CASE c = "timeout" -> IF s = "http_headers" THEN 2 ELSE 1
       [] c = "http_requests" -> IF RoleOf[s] = "http_frontend" THEN 1 ELSE 0
       [] c = "kex_exchanges" -> IF RoleOf[s] = "ssh_frontend" THEN 1 ELSE 0
       [] OTHER -> 1]]

RolesOf == [s \in Selectors |-> IF s = "http_headers" THEN "http_frontend" ELSE "ssh_frontend"]

CapsOf == [c \in COUNTERS |-> 2]
-----------------------------------------------------------------------------
\* The owner of a name: a positive, a negative and a probe case.
PlanOf == [c \in Cases |->
  CASE c = "O2" -> <<"dns_1", "http">>
    [] c = "N1" -> <<"dns_1", "dns_2">>
    [] c = "N14" -> <<"dns_1">>]

NegativeOf == [c \in Cases |-> IF c = "N1" THEN "dns_2" ELSE "none"]

TtlOf == [c \in Cases |-> IF c = "N14" THEN 1 ELSE SESSION_US]

TimeoutOf == [o \in OPERATIONS |-> IF o = "dns" THEN 2 ELSE 1]

\* The messages that achieved what they asked for, over the two actions of the longest
\* plan; a ledger of a name sees at most one other, and none after a fault of its clock.
Useful(l) ==
  LET counted == l.counters
      Of(n) == IF n \notin DOMAIN l.actions THEN 0
               ELSE 1 + l.actions[n].connections_finished
                      + (IF l.actions[n].observation # UNSEEN THEN 1 ELSE 0)
                      + (IF l.actions[n].status = "finished" THEN 1 ELSE 0)
  IN  counted["connections"] + counted["operations"] + counted["bytes"] + Of(1) + Of(2)

FewWasted ==
  /\ steady
  /\ owner.sequences["launcher"] + owner.sequences["dns"] + owner.sequences["http"] <= Useful(owner) + 1
-----------------------------------------------------------------------------
VARIABLE owned

OwnersInit ==
  /\ owned \in {"routing", "name_tls"}
  /\ Init
  /\ NameInit /\ (owned = "routing" => owner.case = "O2")

OwnersNext ==
  /\ UNCHANGED owned
  /\ \/ owned = "routing" /\ Next /\ UNCHANGED nameVars
     \/ owned = "name_tls" /\ NameNext /\ UNCHANGED vars

OwnersSpec == OwnersInit /\ [][OwnersNext]_<<owned, vars, nameVars>>
=============================================================================
