-------------------------- MODULE SpendingAuthority --------------------------
(***************************************************************************)
(* What a spending ledger promises: an authority is granted with limits,   *)
(* the limits may be replaced, amounts are spent within the limits in      *)
(* force and never come back, and a closed authority spends nothing more.  *)
(* The ledgers of the system are shown to implement this module.           *)
(***************************************************************************)
EXTENDS Integers

CONSTANTS Resources,    \* what is counted
          Limits        \* the limits that may be granted, functions on Resources

VARIABLES phase,        \* "unset", then "open", then "closed"
          limit,        \* the limits in force
          spent         \* what has been spent of each resource

authority == <<phase, limit, spent>>

Amounts == [Resources -> Nat]

Init ==
  /\ phase = "unset"
  /\ limit = [r \in Resources |-> 0]
  /\ spent = [r \in Resources |-> 0]

\* Grant the authority, or replace its limits, lower than what is spent perhaps.
Grant ==
  /\ phase \in {"unset", "open"}
  /\ phase' = "open"
  /\ limit' \in Limits
  /\ UNCHANGED spent

Spend ==
  /\ phase = "open"
  /\ UNCHANGED <<phase, limit>>
  /\ spent' \in Amounts
  /\ \A r \in Resources : spent[r] <= spent'[r] /\ spent'[r] <= limit[r]

Close ==
  /\ phase = "open"
  /\ phase' = "closed"
  /\ UNCHANGED <<limit, spent>>

Next == Grant \/ Spend \/ Close

Spec == Init /\ [][Next]_authority
=============================================================================
