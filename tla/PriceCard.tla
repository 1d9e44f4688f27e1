------------------------------ MODULE PriceCard -------------------------------
(***************************************************************************)
(* What one provider request may cost and does cost, from cost_contract.py *)
(* (PriceCard, TokenUsage, quote).  A card has a rate per Unit tokens for  *)
(* input, cached input and output, and a fixed charge per request.  A      *)
(* quotation is made under limits on the tokens, and then the request of   *)
(* the same card is priced by the usage that was reported.                 *)
(***************************************************************************)
EXTENDS Integers

CONSTANTS
  Unit,                 \* the tokens a rate is for; 1_000_000 in the code
  Rates, Tokens         \* the numbers a card, and limits and usages, may have

ASSUME PriceAssumption == Unit \in Nat \ {0} /\ Rates \subseteq Nat /\ Tokens \subseteq Nat

VARIABLE request            \* the quoted and priced request

Cards == [input : Rates, cached : Rates, output : Rates, request : Rates]

\* Input includes cached input.
Usages == {u \in [input : Tokens, cached : Tokens, output : Tokens] : u.cached <= u.input}

TokenLimits == [input : Tokens, output : Tokens]

Weighted(card, usage) ==
  (usage.input - usage.cached) * card.input + usage.cached * card.cached
    + usage.output * card.output

RoundedDown(n) == n \div Unit

\* Rounded upwards, once, for the whole request.
RoundedUp(n) == (n + Unit - 1) \div Unit

Cost(card, usage) == card.request + RoundedUp(Weighted(card, usage))

NeverCached(card, limits) == [input |-> limits.input, cached |-> 0, output |-> limits.output]

\* The dearest usage within the token limits: all cached when that costs more.
Dearest(card, limits) ==
  [input  |-> limits.input,
   cached |-> IF card.cached > card.input THEN limits.input ELSE 0,
   output |-> limits.output]

Ceiling(card, limits) == Cost(card, Dearest(card, limits))

Within(usage, limits) == usage.input <= limits.input /\ usage.output <= limits.output

Covers(card, limits, usage) ==
  Within(usage, limits) => Cost(card, usage) <= Ceiling(card, limits)
-----------------------------------------------------------------------------
NoRequest == [stage |-> "none"]

Quoted(card, limits) == [stage |-> "quoted", card |-> card, limits |-> limits]

Priced(card, limits, usage) ==
  [stage |-> "priced", card |-> card, limits |-> limits, usage |-> usage]

QuoteInit == \E card \in Cards, limits \in TokenLimits : request = Quoted(card, limits)

Price ==
  /\ request.stage = "quoted"
  /\ \E usage \in Usages : request' = Priced(request.card, request.limits, usage)

PriceSpec == QuoteInit /\ [][Price]_request
-----------------------------------------------------------------------------
\* A reservation is enough: no usage within the token limits of the quotation costs
\* more than the ceiling that was held, whichever of its tokens were cached, and the
\* charge never falls short of the exact price.
CeilingCoversUsage ==
  request.stage = "priced" =>
    /\ Covers(request.card, request.limits, request.usage)
    /\ Unit * (Cost(request.card, request.usage) - request.card.request)
         >= Weighted(request.card, request.usage)
=============================================================================
