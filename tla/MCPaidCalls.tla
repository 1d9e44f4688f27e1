----------------------------- MODULE MCPaidCalls ------------------------------
(***************************************************************************)
(* A planning call and a pilot call under one engagement, with an operator *)
(* who may lower a limit, cancel attempts and enter one bill.              *)
(***************************************************************************)
EXTENDS PaidCalls, TLC

CONSTANTS e1, s1, x1, a1, a2, v1, v2

KindOf == [s \in Scopes |-> CASE s = e1 -> "engagement" [] s = s1 -> "session" [] OTHER -> "action"]

\* The scopes are there, without limits of their own, before the first attempt, and
\* the operator may lower the account's limit of 4 once.
ScopesFirst ==
  /\ journal[1].value = 4
  /\ \A s \in Scopes : HasScope(s) => scopes[s].kind = KindOf[s]
  /\ \A n \in DOMAIN journal : journal[n].kind = "scope_created" => n <= 4
  /\ \A n \in 2..Len(journal) : journal[n].kind = "scope_created" => journal[n].value = Unlimited
  /\ \A m, n \in DOMAIN journal :
       journal[m].kind = "limit_changed" /\ journal[n].kind = "limit_changed" =>
         m = n /\ journal[m].scope = Account /\ journal[m].value = 3
  /\ Len(journal) < 4 => \A a \in Attempts : pc[a] = "start"

OneQuote == {[provider |-> "p", version |-> 1, rates |-> 1, ceiling |-> 2]}

UsageEvents == [a \in Attempts |-> IF a = a1 THEN v1 ELSE v2]

Symmetry == Permutations(References)
=============================================================================
