------------------------------ MODULE CostLedger ------------------------------
(***************************************************************************)
(* The durable ledger of provider costs, from cost_ledger.py: a tree of    *)
(* scopes with limits, the attempts to buy a provider exchange, the        *)
(* receipts of settlements and the append-only journal of events.          *)
(*                                                                         *)
(* Every operation is one BEGIN IMMEDIATE transaction that holds both the  *)
(* change and its event, so an operation is one step here.  An operation   *)
(* that raises CostError changes nothing, except that a denial for budget  *)
(* is journalled and committed before it is raised.  A replayed operation  *)
(* changes nothing either.  Amounts are small numbers of microUSD; a quote *)
(* abstracts the price card, whose arithmetic is in module PriceCard.      *)
(***************************************************************************)
EXTENDS Integers, Sequences, FiniteSetsExt

CONSTANTS
  Account,            \* the scope of the whole ledger
  Scopes,             \* the identifiers of other scopes
  Attempts, EventIds, Digests, References,
  Quotes,             \* records [provider, version, rates, ceiling]
  Charges,            \* what a usage or a bill may come to
  Limits,             \* limits in microUSD
  Unlimited,          \* no limit of its own
  None,
  MaxJournal          \* bound on the journal, for model checking

ASSUME ConstantsAssumption ==
  /\ Account \notin Scopes
  /\ \A q \in Quotes : q.ceiling \in Nat
  /\ Charges \subseteq Nat /\ Limits \subseteq Nat /\ Unlimited \notin Nat
  /\ None \notin Nat /\ None \notin EventIds /\ None \notin References
  /\ None \notin Attempts /\ None \notin Scopes \cup {Account}

VARIABLES
  scopes,             \* per scope identifier: its parent, kind and limit, or None
  attempts,           \* per attempt: scope, digest, quote, state and money, or None
  receipts,           \* references of settlements already used
  journal             \* the events, oldest first

tables == <<scopes, attempts, receipts>>
ledger == <<tables, journal>>

ScopeIds == Scopes \cup {Account}

Parents ==
  [engagement |-> {"account"}, session |-> {"engagement"},
   agent |-> {"session"}, action |-> {"session", "agent"}]

Sources == {"usage_derived", "billing_confirmed"}

Entry(event, kind, scope, attempt, value, receipt) ==
  [event |-> event, kind |-> kind, scope |-> scope, attempt |-> attempt,
   value |-> value, receipt |-> receipt]

RecordNothing(event, kind, scope, attempt, value) == UNCHANGED journal

\* _event.  The event is None when the ledger draws a fresh identifier itself.
Record(event, kind, scope, attempt, value) ==
  journal' = Append(journal, Entry(event, kind, scope, attempt, value, None))

\* _replayed: an identifier is either fresh, or the operation changes nothing.
Fresh(event) == \A n \in DOMAIN journal : journal[n].event # event

HasScope(s) == scopes[s] # None

HasAttempt(a) == attempts[a] # None

Init ==
  /\ \E limit \in Limits :
       /\ scopes = [s \in ScopeIds |->
                      IF s = Account THEN [parent |-> None, kind |-> "account", limit |-> limit]
                                     ELSE None]
       /\ journal = <<Entry(None, "scope_created", Account, None, limit, None)>>
  /\ attempts = [a \in Attempts |-> None]
  /\ receipts = {}
-----------------------------------------------------------------------------
(***************************************************************************)
(* Sums along the tree.                                                    *)
(***************************************************************************)
\* _chain: a scope and its ancestors.
Chain(s) ==
  LET up[t \in ScopeIds] ==
        {t} \cup (IF HasScope(t) /\ scopes[t].parent # None THEN up[scopes[t].parent] ELSE {})
  IN  up[s]

\* _scope_attempts: the attempts of a scope and of its descendants.
ScopeAttempts(s) == {a \in Attempts : HasAttempt(a) /\ s \in Chain(attempts[a].scope)}

Counted(attempt) ==
  attempt.reserved + (IF attempt.actual = None THEN 0 ELSE attempt.actual)

Committed(s) == SumFunction([a \in ScopeAttempts(s) |-> Counted(attempts[a])])

OwnBlocking(s, amount) ==
  {t \in {s} : scopes[t].limit # Unlimited /\ Committed(t) + amount > scopes[t].limit}

\* The scopes above s whose limits an additional amount would break.
Blocking(s, amount) ==
  {t \in ScopeIds : /\ t \in Chain(s) /\ scopes[t].limit # Unlimited
                    /\ Committed(t) + amount > scopes[t].limit}

\* The loop starts at the account and stops at the first scope that blocks.
FirstOf(blocking) == {s \in blocking : \A t \in blocking : t \in Chain(s) => t = s}
-----------------------------------------------------------------------------
(***************************************************************************)
(* Operations of the operator.                                             *)
(***************************************************************************)
AddScope(s, parent, kind, limit) ==
  /\ s \in Scopes /\ ~HasScope(s)
  /\ HasScope(parent) /\ scopes[parent].kind \in Parents[kind]
  /\ scopes' = [scopes EXCEPT ![s] = [parent |-> parent, kind |-> kind, limit |-> limit]]
  /\ Record(None, "scope_created", s, None, limit)
  /\ UNCHANGED <<attempts, receipts>>

SetLimit(s, limit, event) ==
  /\ HasScope(s) /\ (s = Account => limit # Unlimited)
  /\ Fresh(event)
  /\ scopes' = [scopes EXCEPT ![s].limit = limit]
  /\ Record(event, "limit_changed", s, None, limit)
  /\ UNCHANGED <<attempts, receipts>>
-----------------------------------------------------------------------------
(***************************************************************************)
(* The life of an attempt.                                                 *)
(***************************************************************************)
\* A stored price version is never stored again with other rates.
PriceKnown(quote) ==
  \A b \in Attempts :
    /\ HasAttempt(b)
    /\ attempts[b].quote.provider = quote.provider /\ attempts[b].quote.version = quote.version
    => attempts[b].quote.rates = quote.rates

Estimate(a, s, digest, quote) ==
  /\ HasScope(s) /\ scopes[s].kind = "action"
  /\ ~HasAttempt(a) /\ PriceKnown(quote)
  /\ attempts' = [attempts EXCEPT ![a] =
       [scope |-> s, digest |-> digest, quote |-> quote, state |-> "estimated",
        reserved |-> 0, actual |-> None, source |-> None]]
  /\ Record(None, "cost_estimated", s, a, quote.ceiling)
  /\ UNCHANGED <<scopes, receipts>>

\* UPDATE attempts SET state=..., and the event of the change.
Advance(a, state, reserved, kind, value) ==
  /\ attempts' = [attempts EXCEPT ![a].state = state, ![a].reserved = reserved]
  /\ Record(None, kind, attempts[a].scope, a, value)
  /\ UNCHANGED <<scopes, receipts>>

Deny(a, kind, blocking) ==
  /\ \E s \in FirstOf(blocking) : Record(None, kind, attempts[a].scope, a, s)
  /\ UNCHANGED tables

InState(a, states) == HasAttempt(a) /\ attempts[a].state \in states

Reserve(a) ==
  /\ InState(a, {"estimated"})
  /\ LET amount == attempts[a].quote.ceiling
     IN  Blocking(attempts[a].scope, amount) = {}
           /\ Advance(a, "reserved", amount, "cost_reserved", amount)

DenyReserve(a) ==
  /\ InState(a, {"estimated"})
  /\ Deny(a, "reservation_denied", Blocking(attempts[a].scope, attempts[a].quote.ceiling))

\* The claim to send is consumed once, under the limits in force now.
BeginDispatch(a, digest) ==
  /\ InState(a, {"reserved"}) /\ attempts[a].digest = digest
  /\ Blocking(attempts[a].scope, 0) = {}
  /\ Advance(a, "dispatched", attempts[a].reserved, "dispatch_started", digest)

DenyDispatch(a, digest) ==
  /\ InState(a, {"reserved"}) /\ attempts[a].digest = digest
  /\ Deny(a, "dispatch_denied", Blocking(attempts[a].scope, 0))

Release(a) ==
  /\ attempts' = [attempts EXCEPT ![a].state = "cancelled", ![a].reserved = 0,
                                  ![a].actual = 0, ![a].source = "not_sent"]
  /\ Record(None, "reservation_released", attempts[a].scope, a, attempts[a].reserved)
  /\ UNCHANGED <<scopes, receipts>>

Cancel(a) == InState(a, {"estimated", "reserved"}) /\ Release(a)

MarkUncertain(a) ==
  /\ InState(a, {"dispatched"})
  /\ Advance(a, "uncertain", attempts[a].reserved, "cost_uncertain", None)

Receipt(a, source, reference) ==
  [provider |-> attempts[a].quote.provider, source |-> source, reference |-> reference]

\* Billing evidence may correct a settled charge; a usage may not.
MaySettle(a, source) ==
  \/ InState(a, {"dispatched", "uncertain"})
  \/ InState(a, {"settled"}) /\ source = "billing_confirmed"

ReceiptUnused(a, source, reference) == Receipt(a, source, reference) \notin receipts

\* settle_usage and reconcile: an incurred charge is never rejected for a limit.
Settle(a, charge, source, reference, event) ==
  /\ HasAttempt(a) /\ Fresh(event)
  /\ MaySettle(a, source)
  /\ ReceiptUnused(a, source, reference)
  /\ receipts' = receipts \cup {Receipt(a, source, reference)}
  /\ attempts' = [attempts EXCEPT ![a].state = "settled", ![a].reserved = 0,
                                  ![a].actual = charge, ![a].source = source]
  /\ journal' = Append(journal, Entry(event, "cost_settled", attempts[a].scope, a, charge,
                                      Receipt(a, source, reference)))
  /\ UNCHANGED scopes
-----------------------------------------------------------------------------
AddScopes == \E s \in Scopes, parent \in ScopeIds, kind \in DOMAIN Parents,
                limit \in Limits \cup {Unlimited} : AddScope(s, parent, kind, limit)
SetLimits == \E s \in ScopeIds, limit \in Limits \cup {Unlimited}, event \in EventIds :
               SetLimit(s, limit, event)
Scoping == AddScopes \/ SetLimits

Estimates == \E a \in Attempts, s \in Scopes, digest \in Digests, quote \in Quotes :
               Estimate(a, s, digest, quote)
Reserves == \E a \in Attempts : Reserve(a) \/ DenyReserve(a)
Dispatches == \E a \in Attempts, digest \in Digests :
                BeginDispatch(a, digest) \/ DenyDispatch(a, digest)
Cancels == \E a \in Attempts : Cancel(a)
Uncertainties == \E a \in Attempts : MarkUncertain(a)
Settles == \E a \in Attempts, charge \in Charges, source \in Sources,
              reference \in References, event \in EventIds :
             Settle(a, charge, source, reference, event)

Next ==
  /\ Len(journal) < MaxJournal
  /\ Scoping \/ Estimates \/ Reserves \/ Dispatches \/ Cancels \/ Uncertainties \/ Settles

Spec == Init /\ [][Next]_ledger
-----------------------------------------------------------------------------
(***************************************************************************)
(* Properties.                                                             *)
(***************************************************************************)
States == {"estimated", "reserved", "dispatched", "uncertain", "settled", "cancelled"}

ScopeRows ==
  [parent : ScopeIds \cup {None}, kind : {"account"} \cup DOMAIN Parents,
   limit : Limits \cup {Unlimited}]

AttemptRows ==
  [scope : Scopes, digest : Digests, quote : Quotes, state : States, reserved : Nat,
   actual : Charges \cup {0, None}, source : Sources \cup {"not_sent", None}]

Receipts == [provider : {q.provider : q \in Quotes}, source : Sources, reference : References]

\* None stands for what is not there.
ASSUME NoneAssumption ==
  None \notin ScopeRows /\ None \notin AttemptRows /\ None \notin Receipts /\ None \notin Sources

EventKinds ==
  {"scope_created", "limit_changed", "reservation_denied", "dispatch_denied",
   "cost_estimated", "cost_reserved", "dispatch_started", "reservation_released",
   "cost_uncertain", "cost_settled"}

Values == Nat \cup {Unlimited, None} \cup ScopeIds \cup Digests

Entries ==
  [event : EventIds \cup {None}, kind : EventKinds, scope : ScopeIds,
   attempt : Attempts \cup {None}, value : Values, receipt : Receipts \cup {None}]

\* The types of the tables; the account is always there and always limited, a hold
\* is the ceiling that was quoted, and unknown costs are never a number.
TypeOK ==
  /\ scopes \in [ScopeIds -> ScopeRows \cup {None}]
  /\ HasScope(Account) /\ scopes[Account].limit # Unlimited
  /\ attempts \in [Attempts -> AttemptRows \cup {None}]
  /\ \A a \in Attempts : HasAttempt(a) =>
       /\ attempts[a].reserved = IF InState(a, {"reserved", "dispatched", "uncertain"})
                                 THEN attempts[a].quote.ceiling ELSE 0
       /\ attempts[a].actual = None <=> ~InState(a, {"settled", "cancelled"})
       /\ attempts[a].source \in Sources <=> InState(a, {"settled"})
  /\ receipts \subseteq Receipts
  /\ journal \in Seq(Entries)

Kinds(kind, a) == {n \in DOMAIN journal : journal[n].kind = kind /\ journal[n].attempt = a}

\* The send claim of an attempt is granted once in the whole history of the ledger,
\* and never to an attempt whose hold was released as unsent, before or after.
ClaimedOnce ==
  \A a \in Attempts :
    \A n \in Kinds("dispatch_started", a) :
      /\ Kinds("dispatch_started", a) = {n}
      /\ Kinds("reservation_released", a) = {}

\* One piece of evidence settles one charge: no receipt of a provider pays twice,
\* neither for two attempts nor for two corrections of one.
ReceiptsPayOnce ==
  \A m, n \in DOMAIN journal :
    /\ journal[m].kind = "cost_settled" /\ journal[n].kind = "cost_settled"
    /\ journal[m].receipt = journal[n].receipt
    => m = n

StateAfter ==
  [cost_estimated |-> "estimated", cost_reserved |-> "reserved",
   dispatch_started |-> "dispatched", reservation_released |-> "cancelled",
   cost_uncertain |-> "uncertain", cost_settled |-> "settled"]

Changes(a) == {n \in DOMAIN journal : journal[n].attempt = a
                                        /\ journal[n].kind \in DOMAIN StateAfter}

LimitEvents(s) == {n \in DOMAIN journal : journal[n].scope = s
                     /\ journal[n].kind \in {"scope_created", "limit_changed"}}

Settlements == {n \in DOMAIN journal : journal[n].kind = "cost_settled"}

HasHold(a) == InState(a, {"reserved", "dispatched", "uncertain"})

\* The append-only journal explains the tables.  The state of an attempt, its charge and
\* the source of that, and the limit of a scope, are what the last event about them says;
\* what an attempt still holds is what the journal once granted to it, and one that is
\* settled, released or not yet admitted holds nothing; and the receipts that were used are
\* those of the settlements.
JournalExplainsTables ==
  /\ \A a \in Attempts :
       IF Changes(a) = {} THEN ~HasAttempt(a)
       ELSE LET last == journal[Max(Changes(a))]
            IN  /\ attempts[a].state = StateAfter[last.kind]
                /\ last.kind = "cost_settled" =>
                     attempts[a].actual = last.value /\ attempts[a].source = last.receipt.source
  /\ \A s \in ScopeIds :
       IF LimitEvents(s) = {} THEN ~HasScope(s)
       ELSE scopes[s].limit = journal[Max(LimitEvents(s))].value
  /\ \A a \in Attempts : HasAttempt(a) =>
       IF HasHold(a) THEN \E n \in Kinds("cost_reserved", a) : attempts[a].reserved = journal[n].value
                  ELSE attempts[a].reserved = 0
  /\ receipts = {journal[n].receipt : n \in Settlements}

Over(s) == HasScope(s) /\ scopes[s].limit # Unlimited /\ Committed(s) > scopes[s].limit

\* A budget is exceeded only when the operator lowers its limit or when evidence
\* raises a charge above what was counted for it, never by admitting new work; and
\* however it came to be exceeded, no send that was reserved below it is claimed.
BreachedOnlyByEvidence ==
  [][/\ \A s \in ScopeIds : ~Over(s) /\ Over(s)' =>
          \/ scopes'[s] # scopes[s]
          \/ \E a \in Attempts : InState(a, States) /\ attempts'[a].state = "settled"
                                  /\ Counted(attempts'[a]) > Counted(attempts[a])
     /\ \A a \in Attempts : InState(a, {"reserved"}) /\ attempts'[a].state = "dispatched" =>
          \A s \in Chain(attempts[a].scope) : ~Over(s)]_ledger

Sent(a) == InState(a, {"dispatched", "uncertain", "settled"})

\* Money that may have been spent stays counted: after the send claim the amount an
\* attempt counts for changes only with a receipt that was never used before.
SentMoneyStaysCounted ==
  [][\A a \in Attempts : Sent(a) /\ Counted(attempts'[a]) # Counted(attempts[a])
       => receipts' # receipts]_ledger

\* A charge confirmed by billing is never replaced by one derived from usage, nor
\* undone by replaying an older event.
BillingIsFinal ==
  [][\A a \in Attempts : InState(a, States) /\ attempts[a].source = "billing_confirmed" =>
       /\ attempts'[a].source = "billing_confirmed"
       /\ attempts'[a].actual # attempts[a].actual => receipts' # receipts]_ledger
=============================================================================
