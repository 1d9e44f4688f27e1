---------------------------- MODULE MCCostLedger ------------------------------
(***************************************************************************)
(* Two attempts under a chain of four scopes: the account, an engagement,  *)
(* a session and an action.  Beside the ledger, one behaviour per small    *)
(* price card, pair of token limits and usage.                             *)
(***************************************************************************)
EXTENDS CostLedger, PriceCard, TLC

CONSTANTS e1, s1, x1, r1, r2

TwoQuotes ==
  {[provider |-> "p", version |-> 1, rates |-> r1, ceiling |-> 2],
   [provider |-> "p", version |-> 1, rates |-> r2, ceiling |-> 1]}

Symmetry == Permutations(Attempts) \cup Permutations(EventIds)

\* Scopes are named by their kind, and only the account and the action have limits.
KindOf == [s \in Scopes |-> CASE s = e1 -> "engagement" [] s = s1 -> "session" [] OTHER -> "action"]

ScopesAsNamed ==
  \A s \in Scopes : HasScope(s) =>
    /\ scopes[s].kind = KindOf[s]
    /\ scopes[s].limit = Unlimited <=> s \in {e1, s1}

CostInit == Init /\ (QuoteInit \/ request = NoRequest)

CostNext ==
  \/ Price /\ UNCHANGED ledger
  \/ request = NoRequest /\ Next /\ UNCHANGED request

CostSpec == CostInit /\ [][CostNext]_<<ledger, request>>
=============================================================================
