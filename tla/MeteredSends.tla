----------------------------- MODULE MeteredSends -----------------------------
(***************************************************************************)
(* What paid calls promise: a request leaves at most once, only after its  *)
(* cost was held and the claim to send it was made, and what was claimed   *)
(* is never released as unsent.                                            *)
(***************************************************************************)
CONSTANT Calls

VARIABLES account,      \* per call: none, held, claimed, paid or released
          sent          \* per call: how often its request has left

metered == <<account, sent>>

Init == account = [c \in Calls |-> "none"] /\ sent = [c \in Calls |-> 0]

Move(c, from, to) ==
  /\ account[c] \in from
  /\ account' = [account EXCEPT ![c] = to]
  /\ UNCHANGED sent

Hold(c)    == Move(c, {"none"}, "held")
Release(c) == Move(c, {"none", "held"}, "released")
Claim(c)   == Move(c, {"held"}, "claimed")
Pay(c)     == Move(c, {"claimed"}, "paid")

Send(c) ==
  /\ account[c] \in {"claimed", "paid"} /\ sent[c] = 0
  /\ sent' = [sent EXCEPT ![c] = 1]
  /\ UNCHANGED account

Next == \E c \in Calls : Hold(c) \/ Release(c) \/ Claim(c) \/ Pay(c) \/ Send(c)

Spec == Init /\ [][Next]_metered
=============================================================================
