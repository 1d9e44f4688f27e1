---------------------------- MODULE CostLedgerProofs --------------------------
(***************************************************************************)
(* What the cost ledger, the cards it prices by and the calls that pay     *)
(* through it guarantee for any tree of scopes, any prices and any number  *)
(* of calls, attempts, receipts and events.                                *)
(***************************************************************************)
EXTENDS PaidCalls, PriceCard, SequenceTheorems, FoldTheorems, TLAPS

\* What a new event does to the journal.
LEMMA Appended ==
  ASSUME NEW e \in Entries, journal \in Seq(Entries), journal' = Append(journal, e)
  PROVE  /\ journal' \in Seq(Entries)
         /\ DOMAIN journal' = DOMAIN journal \cup {Len(journal) + 1}
         /\ Len(journal) + 1 \notin DOMAIN journal
         /\ \A n \in DOMAIN journal : journal'[n] = journal[n]
         /\ journal'[Len(journal) + 1] = e
<1>1. Len(journal) \in Nat /\ DOMAIN journal = 1..Len(journal)
  OBVIOUS
<1>2. Len(journal') = Len(journal) + 1 /\ journal' \in Seq(Entries)
  OBVIOUS
<1>3. DOMAIN journal' = 1..(Len(journal) + 1)
  BY <1>2
<1>4. \A n \in 1..Len(journal) : journal'[n] = journal[n]
  OBVIOUS
<1>5. journal'[Len(journal) + 1] = e
  OBVIOUS
<1> QED
  BY <1>1, <1>2, <1>3, <1>4, <1>5

\* Every row a step can write for an attempt, given its old row.
LEMMA RowsUpdated ==
  ASSUME TypeOK, NEW a \in Attempts, HasAttempt(a),
         NEW row \in AttemptRows, attempts' = [attempts EXCEPT ![a] = row]
  PROVE  /\ attempts' \in [Attempts -> AttemptRows \cup {None}]
         /\ attempts'[a] = row
         /\ \A b \in Attempts \ {a} : attempts'[b] = attempts[b]
BY DEF TypeOK
-----------------------------------------------------------------------------
(***************************************************************************)
(* Types.                                                                  *)
(***************************************************************************)
LEMMA InitTypeOK == Init => TypeOK
<1> SUFFICES ASSUME Init PROVE TypeOK
  OBVIOUS
<1>1. PICK limit \in Limits :
        /\ scopes = [s \in ScopeIds |->
                      IF s = Account THEN [parent |-> None, kind |-> "account", limit |-> limit]
                                     ELSE None]
        /\ journal = <<Entry(None, "scope_created", Account, None, limit, None)>>
  BY DEF Init
<1>2. Account \in ScopeIds /\ limit \in Nat /\ limit # Unlimited
  BY ConstantsAssumption DEF ScopeIds
<1>3. [parent |-> None, kind |-> "account", limit |-> limit] \in ScopeRows
  BY DEF ScopeRows
<1>4. scopes \in [ScopeIds -> ScopeRows \cup {None}]
  BY <1>1, <1>3
<1>5. HasScope(Account) /\ scopes[Account].limit # Unlimited
  BY <1>1, <1>2, <1>3, NoneAssumption DEF HasScope
<1>6. attempts \in [Attempts -> AttemptRows \cup {None}] /\ \A a \in Attempts : ~HasAttempt(a)
  BY DEF Init, HasAttempt
<1>7. Entry(None, "scope_created", Account, None, limit, None) \in Entries
  BY <1>2 DEF Entry, Entries, EventKinds, Values
<1>8. journal \in Seq(Entries)
  BY <1>1, <1>7
<1> QED
  BY <1>4, <1>5, <1>6, <1>8 DEF TypeOK, Init

\* A row that keeps to the rules: the hold is the ceiling until the cost is known.
WellHeld(row) ==
  /\ row.reserved = IF row.state \in {"reserved", "dispatched", "uncertain"}
                    THEN row.quote.ceiling ELSE 0
  /\ row.actual = None <=> row.state \notin {"settled", "cancelled"}
  /\ row.source \in Sources <=> row.state = "settled"

LEMMA RowsKnown ==
  ASSUME TypeOK, NEW a \in Attempts, HasAttempt(a)
  PROVE  attempts[a] \in AttemptRows /\ WellHeld(attempts[a])
BY DEF TypeOK, WellHeld, InState, HasAttempt

\* Steps that write the row of one attempt and one event.
LEMMA AttemptStepTypeOK ==
  ASSUME TypeOK, NEW a \in Attempts, NEW row \in AttemptRows, WellHeld(row),
         attempts' = [attempts EXCEPT ![a] = row],
         NEW e \in Entries, journal' = Append(journal, e),
         scopes' = scopes, receipts' \subseteq Receipts
  PROVE  TypeOK'
<1>1. attempts' \in [Attempts -> AttemptRows \cup {None}]
  BY DEF TypeOK
<1>2. attempts'[a] = row /\ \A b \in Attempts \ {a} : attempts'[b] = attempts[b]
  BY DEF TypeOK
<1>3. journal' \in Seq(Entries)
  BY Appended DEF TypeOK
<1>4. ASSUME NEW b \in Attempts, HasAttempt(b)'
      PROVE  WellHeld(attempts'[b])
  <2>1. CASE b = a
    BY <1>2, <2>1
  <2>2. CASE b # a
    BY <1>2, <1>4, <2>2, RowsKnown DEF HasAttempt
  <2> QED
    BY <2>1, <2>2
<1>5. ASSUME NEW b \in Attempts, HasAttempt(b)'
      PROVE  (/\ attempts[b].reserved = IF InState(b, {"reserved", "dispatched", "uncertain"})
                                 THEN attempts[b].quote.ceiling ELSE 0
              /\ attempts[b].actual = None <=> ~InState(b, {"settled", "cancelled"})
              /\ attempts[b].source \in Sources <=> InState(b, {"settled"}))'
  BY <1>4, <1>5 DEF WellHeld, InState
<1>6. (HasScope(Account) /\ scopes[Account].limit # Unlimited)'
  BY DEF TypeOK, HasScope
<1> QED
  BY <1>1, <1>3, <1>5, <1>6 DEF TypeOK

AttemptStep(a, row, e) ==
  /\ row \in AttemptRows /\ WellHeld(row)
  /\ attempts' = [attempts EXCEPT ![a] = row]
  /\ e \in Entries /\ e.attempt = a
  /\ journal' = Append(journal, e)
  /\ scopes' = scopes

LEMMA AdvanceShape ==
  ASSUME TypeOK, NEW a \in Attempts, HasAttempt(a), NEW state \in States, NEW reserved \in Nat,
         NEW kind \in EventKinds, NEW value \in Values,
         Advance(a, state, reserved, kind, value),
         reserved = IF state \in {"reserved", "dispatched", "uncertain"}
                    THEN attempts[a].quote.ceiling ELSE 0,
         attempts[a].actual = None, state \notin {"settled", "cancelled"}
  PROVE  /\ AttemptStep(a, [attempts[a] EXCEPT !.state = state, !.reserved = reserved],
                        Entry(None, kind, attempts[a].scope, a, value, None))
         /\ receipts' = receipts
<1> DEFINE row == [attempts[a] EXCEPT !.state = state, !.reserved = reserved]
           e   == Entry(None, kind, attempts[a].scope, a, value, None)
<1>1. attempts[a] \in AttemptRows
  BY RowsKnown
<1>2. row \in AttemptRows
  BY <1>1 DEF AttemptRows
<1>3. row.state = state /\ row.reserved = reserved /\ row.actual = None
        /\ row.quote = attempts[a].quote /\ row.source = attempts[a].source
  BY <1>1 DEF AttemptRows
<1>4. WellHeld(row)
  <2>1. attempts[a].source \notin Sources
    BY RowsKnown DEF WellHeld
  <2> QED
    BY <1>3, <2>1 DEF WellHeld
<1>5. attempts' = [attempts EXCEPT ![a] = row]
  BY DEF Advance
<1>6. attempts[a].scope \in ScopeIds
  BY <1>1 DEF AttemptRows, ScopeIds
<1>7. e \in Entries /\ e.attempt = a
  BY <1>6 DEF Entry, Entries
<1>8. journal' = Append(journal, e) /\ scopes' = scopes /\ receipts' = receipts
  BY DEF Advance, Record
<1> QED
  BY <1>2, <1>4, <1>5, <1>7, <1>8 DEF AttemptStep

LEMMA ReleaseShape ==
  ASSUME TypeOK, NEW a \in Attempts, HasAttempt(a), Release(a)
  PROVE  \E row, e : /\ AttemptStep(a, row, e) /\ row.state = "cancelled"
                     /\ row.scope = attempts[a].scope /\ row.reserved = 0 /\ row.actual = 0
                     /\ e.kind = "reservation_released" /\ receipts' = receipts
<1> DEFINE row == [attempts[a] EXCEPT !.state = "cancelled", !.reserved = 0,
                                      !.actual = 0, !.source = "not_sent"]
           e   == Entry(None, "reservation_released", attempts[a].scope, a,
                        attempts[a].reserved, None)
<1>1. attempts[a] \in AttemptRows
  BY RowsKnown
<1>2. row \in AttemptRows
  BY <1>1 DEF AttemptRows, States
<1>3. /\ row.state = "cancelled" /\ row.reserved = 0 /\ row.actual = 0
      /\ row.source = "not_sent" /\ row.scope = attempts[a].scope
  BY <1>1 DEF AttemptRows
<1>4. WellHeld(row)
  BY <1>3, ConstantsAssumption DEF WellHeld, Sources
<1>5. attempts' = [attempts EXCEPT ![a] = row]
  BY DEF Release
<1>6. attempts[a].scope \in ScopeIds /\ attempts[a].reserved \in Values
  BY <1>1 DEF AttemptRows, ScopeIds, Values
<1>7. e \in Entries /\ e.attempt = a /\ e.kind = "reservation_released"
  BY <1>6 DEF Entry, Entries, EventKinds
<1>8. journal' = Append(journal, e) /\ scopes' = scopes /\ receipts' = receipts
  BY DEF Release, Record
<1> QED
  BY <1>2, <1>3, <1>4, <1>5, <1>7, <1>8 DEF AttemptStep

LEMMA SettleShape ==
  ASSUME TypeOK, NEW a \in Attempts, NEW charge \in Charges, NEW source \in Sources,
         NEW reference \in References, NEW event \in EventIds,
         Settle(a, charge, source, reference, event)
  PROVE  \E row, e : /\ AttemptStep(a, row, e)
                     /\ row.state = "settled" /\ row.source = source
                     /\ row.scope = attempts[a].scope /\ row.actual = e.value
                     /\ e.kind = "cost_settled" /\ e.receipt = Receipt(a, source, reference)
<1> DEFINE row == [attempts[a] EXCEPT !.state = "settled", !.reserved = 0,
                                      !.actual = charge, !.source = source]
           e   == Entry(event, "cost_settled", attempts[a].scope, a, charge,
                        Receipt(a, source, reference))
<1>1. attempts[a] \in AttemptRows
  BY RowsKnown DEF Settle
<1>2. charge \in Nat
  BY ConstantsAssumption
<1>3. row \in AttemptRows
  BY <1>1 DEF AttemptRows, States
<1>4. /\ row.state = "settled" /\ row.reserved = 0 /\ row.actual = charge
      /\ row.source = source /\ row.scope = attempts[a].scope
  BY <1>1 DEF AttemptRows
<1>5. WellHeld(row)
  BY <1>2, <1>4, ConstantsAssumption DEF WellHeld
<1>6. attempts' = [attempts EXCEPT ![a] = row]
  BY DEF Settle
<1>7. attempts[a].scope \in ScopeIds /\ charge \in Values
  BY <1>1, <1>2 DEF AttemptRows, ScopeIds, Values
<1>8. Receipt(a, source, reference) \in Receipts
  BY <1>1 DEF Receipt, Receipts, AttemptRows
<1>9. e \in Entries /\ e.attempt = a /\ e.kind = "cost_settled" /\ e.value = charge
        /\ e.receipt = Receipt(a, source, reference)
  BY <1>7, <1>8 DEF Entry, Entries, EventKinds
<1>10. journal' = Append(journal, e) /\ scopes' = scopes
  BY DEF Settle
<1> QED
  BY <1>3, <1>4, <1>5, <1>6, <1>9, <1>10 DEF AttemptStep

LEMMA EstimateShape ==
  ASSUME TypeOK, NEW a \in Attempts, NEW s \in Scopes, NEW digest \in Digests,
         NEW quote \in Quotes, Estimate(a, s, digest, quote)
  PROVE  \E row, e : /\ AttemptStep(a, row, e) /\ row.state = "estimated"
                     /\ row.scope \in ScopeIds /\ HasScope(row.scope)
                     /\ row.reserved = 0 /\ row.actual = None
                     /\ e.kind = "cost_estimated" /\ receipts' = receipts /\ ~HasAttempt(a)
<1> DEFINE row == [scope |-> s, digest |-> digest, quote |-> quote, state |-> "estimated",
                   reserved |-> 0, actual |-> None, source |-> None]
           e   == Entry(None, "cost_estimated", s, a, quote.ceiling, None)
<1>1. row \in AttemptRows
  BY DEF AttemptRows, States
<1>2. WellHeld(row)
  BY NoneAssumption DEF WellHeld
<1>3. attempts' = [attempts EXCEPT ![a] = row]
  BY DEF Estimate
<1>4. s \in ScopeIds /\ quote.ceiling \in Values
  BY ConstantsAssumption DEF ScopeIds, Values
<1>5. e \in Entries /\ e.attempt = a /\ e.kind = "cost_estimated"
  BY <1>4 DEF Entry, Entries, EventKinds
<1>6. /\ journal' = Append(journal, e) /\ scopes' = scopes /\ receipts' = receipts
      /\ ~HasAttempt(a) /\ HasScope(s)
  BY DEF Estimate, Record
<1> QED
  BY <1>1, <1>2, <1>3, <1>4, <1>5, <1>6 DEF AttemptStep
-----------------------------------------------------------------------------
(***************************************************************************)
(* The shapes of the steps, on which the invariants rest.                  *)
(***************************************************************************)
Telling == {"dispatch_started", "reservation_released", "cost_settled"}

\* A scope is added below a scope that is there, or gets another limit.
Limiting(s, row, e) ==
  /\ row \in ScopeRows /\ scopes' = [scopes EXCEPT ![s] = row]
  /\ e.kind \in {"scope_created", "limit_changed"} /\ e.scope = s /\ e.value = row.limit
  /\ \/ /\ ~HasScope(s) /\ row.kind \in DOMAIN Parents
        /\ row.parent \in ScopeIds /\ HasScope(row.parent)
        /\ scopes[row.parent].kind \in Parents[row.kind]
     \/ HasScope(s) /\ row.kind = scopes[s].kind /\ row.parent = scopes[s].parent

Denying(e) ==
  /\ scopes' = scopes
  /\ e.kind \in {"reservation_denied", "dispatch_denied"}

\* Scopes and denials touch no attempt.
Quiet(e) ==
  /\ journal' = Append(journal, e)
  /\ attempts' = attempts /\ receipts' = receipts
  /\ Denying(e) \/ \E s \in ScopeIds, row \in ScopeRows : Limiting(s, row, e)

LEMMA QuietTellsNothing ==
  ASSUME NEW e, Quiet(e)
  PROVE  e.kind \notin Telling
BY DEF Quiet, Denying, Limiting, Telling

Opening(a, row, e) ==
  /\ ~HasAttempt(a) /\ row.state = "estimated"
  /\ row.scope \in ScopeIds /\ HasScope(row.scope)
  /\ row.reserved = 0 /\ row.actual = None
  /\ e.kind = "cost_estimated" /\ receipts' = receipts

Holding(a, row, e) ==
  /\ InState(a, {"estimated"}) /\ row.state = "reserved" /\ row.scope = attempts[a].scope
  /\ row.actual = attempts[a].actual /\ Blocking(row.scope, row.reserved) = {}
  /\ e.kind = "cost_reserved" /\ e.value = row.reserved /\ receipts' = receipts

Claiming(a, row, e) ==
  /\ InState(a, {"reserved"}) /\ row.state = "dispatched" /\ row.scope = attempts[a].scope
  /\ Blocking(row.scope, 0) = {}
  /\ row.reserved = attempts[a].reserved /\ row.actual = attempts[a].actual
  /\ e.kind = "dispatch_started" /\ receipts' = receipts

Doubting(a, row, e) ==
  /\ InState(a, {"dispatched"}) /\ row.state = "uncertain" /\ row.scope = attempts[a].scope
  /\ row.reserved = attempts[a].reserved /\ row.actual = attempts[a].actual
  /\ row.source = attempts[a].source
  /\ e.kind = "cost_uncertain" /\ receipts' = receipts

Releasing(a, row, e) ==
  /\ InState(a, {"estimated", "reserved"}) /\ row.state = "cancelled"
  /\ row.scope = attempts[a].scope /\ row.reserved = 0 /\ row.actual = 0
  /\ e.kind = "reservation_released" /\ receipts' = receipts

Settling(a, row, e) ==
  /\ \/ InState(a, {"dispatched", "uncertain"})
     \/ InState(a, {"settled"}) /\ row.source = "billing_confirmed"
  /\ row.state = "settled" /\ row.scope = attempts[a].scope /\ row.actual = e.value
  /\ e.kind = "cost_settled" /\ e.receipt.source = row.source /\ e.receipt \notin receipts
  /\ receipts' = receipts \cup {e.receipt}

Working(a, row, e) ==
  /\ AttemptStep(a, row, e)
  /\ \/ Opening(a, row, e) \/ Holding(a, row, e) \/ Claiming(a, row, e)
     \/ Doubting(a, row, e) \/ Releasing(a, row, e) \/ Settling(a, row, e)

Shaped ==
  \/ \E e \in Entries : Quiet(e)
  \/ \E a \in Attempts, row \in AttemptRows, e \in Entries : Working(a, row, e)

LEMMA WorkingIsShaped ==
  ASSUME TypeOK, NEW a \in Attempts, NEW row, NEW e, Working(a, row, e), receipts' \subseteq Receipts
  PROVE  TypeOK' /\ Shaped
<1>1. row \in AttemptRows /\ e \in Entries
  BY DEF Working, AttemptStep
<1>2. TypeOK'
  BY <1>1, AttemptStepTypeOK DEF Working, AttemptStep
<1>3. Shaped
  BY <1>1 DEF Shaped
<1> QED
  BY <1>2, <1>3

LEMMA QuietIsShaped ==
  ASSUME TypeOK, NEW e \in Entries, Quiet(e),
         scopes' \in [ScopeIds -> ScopeRows \cup {None}],
         scopes'[Account] # None, scopes'[Account].limit # Unlimited
  PROVE  TypeOK' /\ Shaped
<1>1. Shaped
  BY DEF Shaped
<1>2. journal' \in Seq(Entries)
  BY Appended DEF TypeOK, Quiet
<1>3. TypeOK'
  BY <1>2 DEF TypeOK, Quiet, HasScope, HasAttempt, InState
<1> QED
  BY <1>1, <1>3

LEMMA InStateFacts ==
  ASSUME TypeOK, NEW a \in Attempts, NEW states \in SUBSET States, InState(a, states)
  PROVE  /\ HasAttempt(a) /\ attempts[a] \in AttemptRows /\ attempts[a].state \in states
         /\ WellHeld(attempts[a]) /\ attempts[a].scope \in ScopeIds
         /\ attempts[a].quote \in Quotes /\ attempts[a].reserved \in Nat
<1>1. HasAttempt(a) /\ attempts[a].state \in states
  BY DEF InState
<1>2. attempts[a] \in AttemptRows /\ WellHeld(attempts[a])
  BY <1>1, RowsKnown
<1> QED
  BY <1>1, <1>2 DEF AttemptRows, ScopeIds

LEMMA ScopingShaped ==
  ASSUME TypeOK, Scoping
  PROVE  TypeOK' /\ Shaped
<1>1. ASSUME NEW s \in Scopes, NEW parent \in ScopeIds, NEW kind \in DOMAIN Parents,
             NEW limit \in Limits \cup {Unlimited}, AddScope(s, parent, kind, limit)
      PROVE  TypeOK' /\ Shaped
  <2> DEFINE e   == Entry(None, "scope_created", s, None, limit, None)
             row == [parent |-> parent, kind |-> kind, limit |-> limit]
  <2>1. s \in ScopeIds /\ s # Account /\ limit \in Values
    BY ConstantsAssumption DEF ScopeIds, Values
  <2>2. e \in Entries /\ e.kind = "scope_created" /\ e.scope = s /\ e.value = row.limit
    BY <2>1 DEF Entry, Entries, EventKinds
  <2>4. /\ row \in ScopeRows /\ row.parent = parent /\ row.kind = kind
    BY DEF ScopeRows
  <2>5. /\ scopes' = [scopes EXCEPT ![s] = row] /\ ~HasScope(s) /\ HasScope(parent)
        /\ scopes[parent].kind \in Parents[kind]
    BY <1>1 DEF AddScope
  <2>9. Limiting(s, row, e)
    BY <2>2, <2>4, <2>5 DEF Limiting
  <2>3. Quiet(e)
    BY <1>1, <2>1, <2>4, <2>9 DEF Quiet, AddScope, Record
  <2>6. /\ scopes' \in [ScopeIds -> ScopeRows \cup {None}]
        /\ scopes'[Account] = scopes[Account]
    BY <2>1, <2>4, <2>5 DEF TypeOK, ScopeIds
  <2>7. scopes'[Account] # None /\ scopes'[Account].limit # Unlimited
    BY <2>6 DEF TypeOK, HasScope
  <2> HIDE DEF e
  <2> QED
    BY <2>2, <2>3, <2>6, <2>7, QuietIsShaped
<1>2. ASSUME NEW s \in ScopeIds, NEW limit \in Limits \cup {Unlimited}, NEW event \in EventIds,
             SetLimit(s, limit, event)
      PROVE  TypeOK' /\ Shaped
  <2> DEFINE e   == Entry(event, "limit_changed", s, None, limit, None)
             row == [scopes[s] EXCEPT !.limit = limit]
  <2>1. limit \in Values
    BY ConstantsAssumption DEF Values
  <2>2. e \in Entries /\ e.kind = "limit_changed" /\ e.scope = s /\ e.value = limit
    BY <2>1 DEF Entry, Entries, EventKinds
  <2>4. scopes[s] \in ScopeRows /\ HasScope(s)
    BY <1>2 DEF TypeOK, SetLimit, HasScope
  <2>5. /\ row \in ScopeRows /\ row.limit = limit
        /\ row.kind = scopes[s].kind /\ row.parent = scopes[s].parent
    BY <2>4 DEF ScopeRows
  <2>6. scopes' = [scopes EXCEPT ![s] = row]
    BY <1>2 DEF SetLimit
  <2>9. Limiting(s, row, e)
    BY <2>2, <2>4, <2>5, <2>6 DEF Limiting
  <2>3. Quiet(e)
    BY <1>2, <2>5, <2>9 DEF Quiet, SetLimit, Record
  <2>7. scopes' \in [ScopeIds -> ScopeRows \cup {None}]
    BY <2>5, <2>6 DEF TypeOK
  <2>8. scopes'[Account] # None /\ scopes'[Account].limit # Unlimited
    <3>1. CASE s = Account
      <4>1. scopes'[Account] = row
        BY <2>6, <3>1 DEF TypeOK
      <4>2. limit # Unlimited
        BY <1>2, <3>1 DEF SetLimit
      <4> QED
        BY <4>1, <4>2, <2>5, NoneAssumption
    <3>2. CASE s # Account
      <4>1. scopes'[Account] = scopes[Account]
        BY <2>6, <3>2 DEF TypeOK, ScopeIds
      <4> QED
        BY <4>1 DEF TypeOK, HasScope
    <3> QED
      BY <3>1, <3>2
  <2> HIDE DEF e, row
  <2> QED
    BY <2>2, <2>3, <2>7, <2>8, QuietIsShaped
<1> QED
  BY <1>1, <1>2 DEF Scoping, AddScopes, SetLimits

LEMMA DenialShaped ==
  ASSUME TypeOK, NEW a \in Attempts, HasAttempt(a),
         NEW kind \in {"reservation_denied", "dispatch_denied"},
         NEW blocking \in SUBSET ScopeIds, Deny(a, kind, blocking)
  PROVE  TypeOK' /\ Shaped
<1>1. PICK s \in FirstOf(blocking) : Record(None, kind, attempts[a].scope, a, s)
  BY DEF Deny
<1>2. s \in ScopeIds
  BY DEF FirstOf
<1>3. attempts[a].scope \in ScopeIds
  BY RowsKnown DEF AttemptRows, ScopeIds
<1> DEFINE e == Entry(None, kind, attempts[a].scope, a, s, None)
<1>4. e \in Entries /\ e.kind = kind
  BY <1>2, <1>3 DEF Entry, Entries, EventKinds, Values
<1>6. scopes' = scopes
  BY DEF Deny, tables
<1>5. Quiet(e)
  BY <1>1, <1>4, <1>6 DEF Quiet, Denying, Deny, Record, tables
<1> HIDE DEF e
<1> QED
  BY <1>4, <1>5, <1>6, QuietIsShaped DEF TypeOK, HasScope

LEMMA ReservesShaped ==
  ASSUME TypeOK, Reserves
  PROVE  TypeOK' /\ Shaped
<1>1. PICK a \in Attempts : Reserve(a) \/ DenyReserve(a)
  BY DEF Reserves
<1>2. InState(a, {"estimated"})
  BY <1>1 DEF Reserve, DenyReserve
<1>3. /\ HasAttempt(a) /\ attempts[a] \in AttemptRows /\ attempts[a].state = "estimated"
      /\ attempts[a].actual = None /\ attempts[a].quote.ceiling \in Nat
  BY <1>2, InStateFacts, ConstantsAssumption DEF States, WellHeld
<1>4. CASE Reserve(a)
  <2> DEFINE amount == attempts[a].quote.ceiling
             row    == [attempts[a] EXCEPT !.state = "reserved", !.reserved = amount]
             e      == Entry(None, "cost_reserved", attempts[a].scope, a, amount, None)
  <2>1. /\ Advance(a, "reserved", amount, "cost_reserved", amount)
        /\ Blocking(attempts[a].scope, amount) = {}
    BY <1>4 DEF Reserve
  <2>2. AttemptStep(a, row, e) /\ receipts' = receipts
    BY <1>3, <2>1, AdvanceShape DEF States, EventKinds, Values
  <2>3. /\ row.state = "reserved" /\ e.kind = "cost_reserved" /\ row.reserved = amount
        /\ e.value = row.reserved
        /\ row.scope = attempts[a].scope /\ row.actual = attempts[a].actual
    BY <1>3 DEF AttemptRows, Entry
  <2>4. Holding(a, row, e)
    BY <1>2, <2>1, <2>2, <2>3 DEF Holding
  <2>5. Working(a, row, e)
    BY <2>2, <2>4 DEF Working
  <2> HIDE DEF row, e
  <2> QED
    BY <2>2, <2>5, WorkingIsShaped DEF TypeOK
<1>5. CASE DenyReserve(a)
  <2>1. Blocking(attempts[a].scope, attempts[a].quote.ceiling) \in SUBSET ScopeIds
    BY DEF Blocking
  <2> QED
    BY <1>3, <1>5, <2>1, DenialShaped DEF DenyReserve
<1> QED
  BY <1>1, <1>4, <1>5

LEMMA DispatchesShaped ==
  ASSUME TypeOK, Dispatches
  PROVE  TypeOK' /\ Shaped
<1>1. PICK a \in Attempts, digest \in Digests : BeginDispatch(a, digest) \/ DenyDispatch(a, digest)
  BY DEF Dispatches
<1>2. InState(a, {"reserved"})
  BY <1>1 DEF BeginDispatch, DenyDispatch
<1>3. /\ HasAttempt(a) /\ attempts[a] \in AttemptRows /\ attempts[a].state = "reserved"
      /\ attempts[a].actual = None /\ attempts[a].reserved \in Nat
      /\ attempts[a].reserved = attempts[a].quote.ceiling
  BY <1>2, InStateFacts DEF States, WellHeld
<1>4. CASE BeginDispatch(a, digest)
  <2> DEFINE row == [attempts[a] EXCEPT !.state = "dispatched", !.reserved = attempts[a].reserved]
             e   == Entry(None, "dispatch_started", attempts[a].scope, a, digest, None)
  <2>1. /\ Advance(a, "dispatched", attempts[a].reserved, "dispatch_started", digest)
        /\ Blocking(attempts[a].scope, 0) = {}
    BY <1>4 DEF BeginDispatch
  <2>2. AttemptStep(a, row, e) /\ receipts' = receipts
    BY <1>3, <2>1, AdvanceShape DEF States, EventKinds, Values
  <2>3. /\ row.state = "dispatched" /\ e.kind = "dispatch_started" /\ row.scope = attempts[a].scope
        /\ row.reserved = attempts[a].reserved /\ row.actual = attempts[a].actual
    BY <1>3 DEF AttemptRows, Entry
  <2>4. Working(a, row, e)
    BY <1>2, <2>1, <2>2, <2>3 DEF Working, Claiming
  <2> HIDE DEF row, e
  <2> QED
    BY <2>2, <2>4, WorkingIsShaped DEF TypeOK
<1>5. CASE DenyDispatch(a, digest)
  <2>1. Blocking(attempts[a].scope, 0) \in SUBSET ScopeIds
    BY DEF Blocking
  <2> QED
    BY <1>3, <1>5, <2>1, DenialShaped DEF DenyDispatch
<1> QED
  BY <1>1, <1>4, <1>5

LEMMA EndingsShaped ==
  ASSUME TypeOK, Estimates \/ Cancels \/ Uncertainties \/ Settles
  PROVE  TypeOK' /\ Shaped
<1>1. ASSUME NEW a \in Attempts, NEW s \in Scopes, NEW digest \in Digests, NEW quote \in Quotes,
             Estimate(a, s, digest, quote)
      PROVE  TypeOK' /\ Shaped
  <2>1. PICK row, e : /\ AttemptStep(a, row, e) /\ row.state = "estimated"
                      /\ row.scope \in ScopeIds /\ HasScope(row.scope)
                      /\ row.reserved = 0 /\ row.actual = None
                      /\ e.kind = "cost_estimated" /\ receipts' = receipts /\ ~HasAttempt(a)
    BY <1>1, EstimateShape
  <2>2. Working(a, row, e)
    BY <2>1 DEF Working, Opening
  <2> QED
    BY <2>1, <2>2, WorkingIsShaped DEF TypeOK
<1>2. ASSUME NEW a \in Attempts, Cancel(a)
      PROVE  TypeOK' /\ Shaped
  <2>1. InState(a, {"estimated", "reserved"}) /\ Release(a) /\ HasAttempt(a)
    BY <1>2 DEF Cancel, InState
  <2>2. PICK row, e : /\ AttemptStep(a, row, e) /\ row.state = "cancelled"
                      /\ row.scope = attempts[a].scope /\ row.reserved = 0 /\ row.actual = 0
                      /\ e.kind = "reservation_released" /\ receipts' = receipts
    BY <2>1, ReleaseShape
  <2>3. Working(a, row, e)
    BY <2>1, <2>2 DEF Working, Releasing
  <2> QED
    BY <2>2, <2>3, WorkingIsShaped DEF TypeOK
<1>3. ASSUME NEW a \in Attempts, MarkUncertain(a)
      PROVE  TypeOK' /\ Shaped
  <2> DEFINE row == [attempts[a] EXCEPT !.state = "uncertain", !.reserved = attempts[a].reserved]
             e   == Entry(None, "cost_uncertain", attempts[a].scope, a, None, None)
  <2>1. /\ InState(a, {"dispatched"})
        /\ Advance(a, "uncertain", attempts[a].reserved, "cost_uncertain", None)
    BY <1>3 DEF MarkUncertain
  <2>2. /\ HasAttempt(a) /\ attempts[a] \in AttemptRows /\ attempts[a].actual = None
        /\ attempts[a].reserved \in Nat /\ attempts[a].reserved = attempts[a].quote.ceiling
    BY <2>1, InStateFacts DEF States, WellHeld
  <2>3. AttemptStep(a, row, e) /\ receipts' = receipts
    <3>1. "uncertain" \in States /\ "cost_uncertain" \in EventKinds /\ None \in Values
      BY DEF States, EventKinds, Values
    <3> QED BY <2>1, <2>2, <3>1, AdvanceShape
  <2>4. /\ row.state = "uncertain" /\ e.kind = "cost_uncertain"
        /\ row.reserved = attempts[a].reserved /\ row.actual = attempts[a].actual
        /\ row.source = attempts[a].source /\ row.scope = attempts[a].scope
    BY <2>2 DEF AttemptRows, Entry
  <2>5. Working(a, row, e)
    BY <2>1, <2>3, <2>4 DEF Working, Doubting
  <2> HIDE DEF row, e
  <2> QED
    BY <2>3, <2>5, WorkingIsShaped DEF TypeOK
<1>4. ASSUME NEW a \in Attempts, NEW charge \in Charges, NEW source \in Sources,
             NEW reference \in References, NEW event \in EventIds,
             Settle(a, charge, source, reference, event)
      PROVE  TypeOK' /\ Shaped
  <2> DEFINE receipt == Receipt(a, source, reference)
  <2>1. PICK row, e : /\ AttemptStep(a, row, e)
                      /\ row.state = "settled" /\ row.source = source
                      /\ row.scope = attempts[a].scope /\ row.actual = e.value
                      /\ e.kind = "cost_settled" /\ e.receipt = receipt
    BY <1>4, SettleShape
  <2>2. /\ MaySettle(a, source) /\ receipt \notin receipts
        /\ receipts' = receipts \cup {receipt}
    BY <1>4 DEF Settle, ReceiptUnused
  <2>5. receipt.source = source
    BY DEF Receipt
  <2> HIDE DEF receipt
  <2>3. Working(a, row, e)
    BY <2>1, <2>2, <2>5 DEF Working, Settling, MaySettle
  <2>4. receipt \in Receipts
    <3>1. attempts[a] \in AttemptRows
      BY <1>4, RowsKnown DEF Settle
    <3> QED
      BY <3>1 DEF receipt, Receipt, Receipts, AttemptRows
  <2>6. receipts' \subseteq Receipts
    BY <2>2, <2>4 DEF TypeOK
  <2> QED
    BY <2>3, <2>6, WorkingIsShaped
<1> QED
  BY <1>1, <1>2, <1>3, <1>4 DEF Estimates, Cancels, Uncertainties, Settles

LEMMA NextShaped ==
  ASSUME TypeOK, Next
  PROVE  TypeOK' /\ Shaped
BY ScopingShaped, ReservesShaped, DispatchesShaped, EndingsShaped DEF Next

\* Whatever prices, scopes and receipts there are, the tables of the ledger keep their
\* types, every hold is the quoted ceiling and an unknown cost is never a number.
THEOREM LedgerTypeCorrect == Spec => []TypeOK
<1>1. Init => TypeOK
  BY InitTypeOK
<1>2. TypeOK /\ [Next]_ledger => TypeOK'
  <2>1. ASSUME TypeOK, Next PROVE TypeOK'
    BY <2>1, NextShaped
  <2>2. ASSUME TypeOK, UNCHANGED ledger PROVE TypeOK'
    BY <2>2 DEF TypeOK, ledger, tables, HasScope, HasAttempt, InState
  <2> QED
    BY <2>1, <2>2
<1> QED
  BY <1>1, <1>2, PTL DEF Spec
-----------------------------------------------------------------------------
(***************************************************************************)
(* History: what the journal says agrees with the states of the attempts.  *)
(***************************************************************************)
Agrees(n) ==
  LET e == journal[n]
  IN  /\ e.kind = "dispatch_started" => Sent(e.attempt)
      /\ e.kind = "reservation_released" => InState(e.attempt, {"cancelled"})
      /\ e.kind \in {"dispatch_started", "reservation_released"} => e.attempt \in Attempts
      /\ e.kind = "cost_settled" => e.receipt \in receipts

History == \A n \in DOMAIN journal : Agrees(n)

HistoryInv == TypeOK /\ History /\ ClaimedOnce /\ ReceiptsPayOnce

\* What a step does to the state of an attempt, in one place.
LEMMA RowsMove ==
  ASSUME TypeOK, NEW a \in Attempts, NEW row \in AttemptRows, NEW e \in Entries, Working(a, row, e)
  PROVE  /\ attempts'[a] = row /\ HasAttempt(a)'
         /\ \A b \in Attempts \ {a} : attempts'[b] = attempts[b]
         /\ Sent(a) => row.state \in {"dispatched", "uncertain", "settled"}
         /\ ~InState(a, {"cancelled"})
         /\ e.kind = "dispatch_started" => row.state = "dispatched" /\ ~Sent(a)
         /\ e.kind = "reservation_released" => row.state = "cancelled" /\ ~Sent(a)
         /\ e.kind = "cost_settled" => e.receipt \in receipts' /\ e.receipt \notin receipts
         /\ receipts \subseteq receipts'
         /\ journal' = Append(journal, e) /\ e.attempt = a
<1>1. attempts' = [attempts EXCEPT ![a] = row] /\ journal' = Append(journal, e) /\ e.attempt = a
  BY DEF Working, AttemptStep
<1>2. attempts'[a] = row /\ \A b \in Attempts \ {a} : attempts'[b] = attempts[b]
  BY <1>1 DEF TypeOK
<1>3. HasAttempt(a)'
  BY <1>2, NoneAssumption DEF HasAttempt
<1>4. /\ Sent(a) => row.state \in {"dispatched", "uncertain", "settled"}
      /\ ~InState(a, {"cancelled"})
      /\ e.kind = "dispatch_started" => row.state = "dispatched" /\ ~Sent(a)
      /\ e.kind = "reservation_released" => row.state = "cancelled" /\ ~Sent(a)
      /\ e.kind = "cost_settled" => e.receipt \in receipts' /\ e.receipt \notin receipts
      /\ receipts \subseteq receipts'
  BY DEF Working, Opening, Holding, Claiming, Doubting, Releasing, Settling, InState, Sent
<1> QED
  BY <1>1, <1>2, <1>3, <1>4

LEMMA QuietKeepsHistory ==
  ASSUME HistoryInv, NEW e \in Entries, Quiet(e)
  PROVE  (History /\ ClaimedOnce /\ ReceiptsPayOnce)'
<1> DEFINE m == Len(journal) + 1
<1>1. /\ DOMAIN journal' = DOMAIN journal \cup {m} /\ m \notin DOMAIN journal
      /\ \A n \in DOMAIN journal : journal'[n] = journal[n]
      /\ journal'[m] = e
  BY Appended DEF HistoryInv, TypeOK, Quiet
<1> HIDE DEF m
<1>2. /\ e.kind # "dispatch_started" /\ e.kind # "reservation_released"
      /\ e.kind # "cost_settled"
  BY QuietTellsNothing DEF Telling
<1>3. \A kind \in Telling : \A a : Kinds(kind, a)' = Kinds(kind, a)
  BY <1>1, <1>2 DEF Kinds, Telling
<1>4. ClaimedOnce'
  BY <1>3 DEF HistoryInv, ClaimedOnce, Telling
<1>5. ReceiptsPayOnce'
  BY <1>1, <1>2 DEF HistoryInv, ReceiptsPayOnce
<1>6. ASSUME NEW n \in DOMAIN journal' PROVE Agrees(n)'
  <2>1. CASE n = m
    BY <1>1, <1>2, <2>1 DEF Agrees
  <2>2. CASE n # m
    <3>1. n \in DOMAIN journal /\ journal'[n] = journal[n] /\ Agrees(n)
      BY <1>1, <1>6, <2>2 DEF HistoryInv, History
    <3> QED
      BY <3>1 DEF Agrees, Quiet, Sent, InState, HasAttempt
  <2> QED
    BY <2>1, <2>2
<1> QED
  BY <1>4, <1>5, <1>6 DEF History

LEMMA WorkKeepsHistory ==
  ASSUME HistoryInv, NEW a \in Attempts, NEW row \in AttemptRows, NEW e \in Entries, Working(a, row, e)
  PROVE  (History /\ ClaimedOnce /\ ReceiptsPayOnce)'
<1> DEFINE m == Len(journal) + 1
<1>1. /\ DOMAIN journal' = DOMAIN journal \cup {m} /\ m \notin DOMAIN journal
      /\ \A n \in DOMAIN journal : journal'[n] = journal[n]
      /\ journal'[m] = e
  <2>1. journal' = Append(journal, e) /\ journal \in Seq(Entries)
    BY RowsMove DEF HistoryInv, TypeOK
  <2> QED
    BY <2>1, Appended
<1> HIDE DEF m
<1>2. /\ attempts'[a] = row /\ HasAttempt(a)'
      /\ \A b \in Attempts \ {a} : attempts'[b] = attempts[b]
      /\ Sent(a) => row.state \in {"dispatched", "uncertain", "settled"}
      /\ ~InState(a, {"cancelled"})
      /\ e.kind = "dispatch_started" => row.state = "dispatched" /\ ~Sent(a)
      /\ e.kind = "reservation_released" => row.state = "cancelled" /\ ~Sent(a)
      /\ e.kind = "cost_settled" => e.receipt \in receipts' /\ e.receipt \notin receipts
      /\ receipts \subseteq receipts' /\ e.attempt = a
  BY RowsMove DEF HistoryInv
<1>3. \A b \in Attempts : Sent(b) => Sent(b)'
  BY <1>2 DEF Sent, InState, HasAttempt
<1>4. \A b \in Attempts : InState(b, {"cancelled"}) => InState(b, {"cancelled"})'
  BY <1>2 DEF InState, HasAttempt
<1>5. ASSUME NEW n \in DOMAIN journal' PROVE Agrees(n)'
  <2>1. CASE n = m
    BY <1>1, <1>2, <2>1 DEF Agrees, Sent, InState
  <2>2. CASE n # m
    <3>1. n \in DOMAIN journal /\ journal'[n] = journal[n] /\ Agrees(n)
      BY <1>1, <1>5, <2>2 DEF HistoryInv, History
    <3> QED
      BY <1>2, <1>3, <1>4, <3>1 DEF Agrees
  <2> QED
    BY <2>1, <2>2
<1>6. ReceiptsPayOnce'
  <2>1. ASSUME NEW k \in DOMAIN journal', NEW n \in DOMAIN journal',
               journal'[k].kind = "cost_settled", journal'[n].kind = "cost_settled",
               journal'[k].receipt = journal'[n].receipt
        PROVE  k = n
    <3>1. ASSUME NEW i \in DOMAIN journal, journal[i].kind = "cost_settled"
          PROVE  journal[i].receipt \in receipts
      BY <3>1 DEF HistoryInv, History, Agrees
    <3>2. CASE k = m /\ n = m
      BY <3>2
    <3>3. CASE k = m /\ n # m
      BY <1>1, <1>2, <2>1, <3>1, <3>3
    <3>4. CASE k # m /\ n = m
      BY <1>1, <1>2, <2>1, <3>1, <3>4
    <3>5. CASE k # m /\ n # m
      BY <1>1, <2>1, <3>5 DEF HistoryInv, ReceiptsPayOnce
    <3> QED
      BY <3>2, <3>3, <3>4, <3>5
  <2> QED
    BY <2>1 DEF ReceiptsPayOnce
<1>7. ClaimedOnce'
  <2> SUFFICES ASSUME NEW b \in Attempts, NEW n \in Kinds("dispatch_started", b)'
               PROVE  (Kinds("dispatch_started", b) = {n} /\ Kinds("reservation_released", b) = {})'
    BY DEF ClaimedOnce
  <2>1. \A kind : Kinds(kind, b)' = Kinds(kind, b) \cup
                     (IF e.kind = kind /\ e.attempt = b THEN {m} ELSE {})
    BY <1>1 DEF Kinds
  <2>2. Kinds("dispatch_started", b) # {} => Sent(b)
    BY DEF HistoryInv, History, Agrees, Kinds
  <2>3. Kinds("reservation_released", b) # {} => InState(b, {"cancelled"})
    BY DEF HistoryInv, History, Agrees, Kinds
  <2>4. CASE e.attempt = b /\ e.kind = "dispatch_started"
    <3>1. Kinds("dispatch_started", b) = {} /\ Kinds("reservation_released", b) = {}
      BY <1>2, <2>2, <2>3, <2>4
    <3> QED
      BY <2>1, <2>4, <3>1
  <2>5. CASE ~(e.attempt = b /\ e.kind = "dispatch_started")
    <3>1. n \in Kinds("dispatch_started", b) /\ Kinds("dispatch_started", b)' = Kinds("dispatch_started", b)
      BY <2>1, <2>5
    <3>2. Kinds("dispatch_started", b) = {n} /\ Kinds("reservation_released", b) = {} /\ Sent(b)
      BY <2>2, <3>1 DEF HistoryInv, ClaimedOnce
    <3>3. ~(e.attempt = b /\ e.kind = "reservation_released")
      BY <1>2, <3>2
    <3> QED
      BY <2>1, <3>1, <3>2, <3>3
  <2> QED
    BY <2>4, <2>5
<1> QED
  BY <1>5, <1>6, <1>7 DEF History

LEMMA HistoryHolds == Spec => []HistoryInv
<1>1. Init => HistoryInv
  <2> SUFFICES ASSUME Init PROVE HistoryInv
    OBVIOUS
  <2>1. TypeOK
    BY InitTypeOK
  <2>2. PICK limit \in Limits : journal = <<Entry(None, "scope_created", Account, None, limit, None)>>
    BY DEF Init
  <2>3. DOMAIN journal = {1} /\ journal[1].kind = "scope_created"
    BY <2>2 DEF Entry
  <2> QED
    BY <2>1, <2>3 DEF HistoryInv, History, Agrees, ClaimedOnce, ReceiptsPayOnce, Kinds
<1>2. HistoryInv /\ [Next]_ledger => HistoryInv'
  <2>1. ASSUME HistoryInv, Next PROVE HistoryInv'
    <3>1. TypeOK' /\ Shaped
      BY <2>1, NextShaped DEF HistoryInv
    <3>2. ASSUME NEW e \in Entries, Quiet(e)
          PROVE  (History /\ ClaimedOnce /\ ReceiptsPayOnce)'
      BY <2>1, <3>2, QuietKeepsHistory
    <3>3. ASSUME NEW a \in Attempts, NEW row \in AttemptRows, NEW e \in Entries, Working(a, row, e)
          PROVE  (History /\ ClaimedOnce /\ ReceiptsPayOnce)'
      BY <2>1, <3>3, WorkKeepsHistory
    <3> QED
      BY <3>1, <3>2, <3>3 DEF Shaped, HistoryInv
  <2>2. ASSUME HistoryInv, UNCHANGED ledger PROVE HistoryInv'
    BY <2>2 DEF HistoryInv, History, Agrees, ClaimedOnce, ReceiptsPayOnce, Kinds, Sent,
                TypeOK, ledger, tables, HasScope, HasAttempt, InState
  <2> QED
    BY <2>1, <2>2
<1> QED
  BY <1>1, <1>2, PTL DEF Spec

\* The send claim of an attempt is granted once in the whole history of the ledger,
\* and never to an attempt whose hold was released as unsent, before or after.
THEOREM ClaimsAreGrantedOnce == Spec => []ClaimedOnce
BY HistoryHolds, PTL DEF HistoryInv

\* No receipt of a provider settles two charges.
THEOREM NoReceiptPaysTwice == Spec => []ReceiptsPayOnce
BY HistoryHolds, PTL DEF HistoryInv

\* After the send claim, the amount an attempt counts for in every budget above it
\* changes only together with a receipt that was never used before.
THEOREM SentMoneyStays == Spec => SentMoneyStaysCounted
<1> DEFINE Kept == \A a \in Attempts : Sent(a) /\ Counted(attempts'[a]) # Counted(attempts[a])
                     => receipts' # receipts
<1>1. ASSUME TypeOK, [Next]_ledger PROVE [Kept]_ledger
  <2>1. CASE UNCHANGED ledger
    BY <2>1
  <2>2. ASSUME NEW e \in Entries, Quiet(e) PROVE Kept
    BY <2>2 DEF Quiet
  <2>3. ASSUME NEW a \in Attempts, NEW row \in AttemptRows, NEW e \in Entries, Working(a, row, e)
        PROVE  Kept
    <3>1. /\ attempts'[a] = row
          /\ \A b \in Attempts \ {a} : attempts'[b] = attempts[b]
      BY <1>1, <2>3, RowsMove
    <3>2. ASSUME Sent(a) PROVE Counted(row) = Counted(attempts[a]) \/ receipts' # receipts
      <4>1. Doubting(a, row, e) \/ Settling(a, row, e)
        BY <2>3, <3>2 DEF Working, Opening, Holding, Claiming, Releasing, Sent, InState
      <4>2. CASE Doubting(a, row, e)
        BY <4>2 DEF Doubting, Counted
      <4>3. CASE Settling(a, row, e)
        BY <4>3 DEF Settling
      <4> QED
        BY <4>1, <4>2, <4>3
    <3> QED
      BY <3>1, <3>2
  <2>4. CASE Next
    <3>1. Shaped
      BY <1>1, <2>4, NextShaped
    <3>2. Kept
      BY <2>2, <2>3, <3>1 DEF Shaped
    <3> QED
      BY <3>2
  <2> HIDE DEF Kept
  <2> QED
    BY <1>1, <2>1, <2>4
<1>2. Spec => []TypeOK
  BY LedgerTypeCorrect
<1> QED
  BY <1>1, <1>2, PTL DEF Spec, SentMoneyStaysCounted

\* A charge confirmed by billing is replaced only by another billing receipt.
THEOREM BillingStands == Spec => BillingIsFinal
<1> DEFINE Kept == \A a \in Attempts : InState(a, States) /\ attempts[a].source = "billing_confirmed" =>
       /\ attempts'[a].source = "billing_confirmed"
       /\ attempts'[a].actual # attempts[a].actual => receipts' # receipts
<1>1. ASSUME TypeOK, [Next]_ledger PROVE [Kept]_ledger
  <2>1. CASE UNCHANGED ledger
    BY <2>1
  <2>2. ASSUME NEW e \in Entries, Quiet(e) PROVE Kept
    BY <2>2 DEF Quiet
  <2>3. ASSUME NEW a \in Attempts, NEW row \in AttemptRows, NEW e \in Entries, Working(a, row, e)
        PROVE  Kept
    <3>1. /\ attempts'[a] = row
          /\ \A b \in Attempts \ {a} : attempts'[b] = attempts[b]
      BY <1>1, <2>3, RowsMove
    <3>2. ASSUME InState(a, States), attempts[a].source = "billing_confirmed"
          PROVE  row.source = "billing_confirmed" /\ receipts' # receipts
      <4>1. attempts[a].state = "settled"
        BY <1>1, <3>2, RowsKnown DEF WellHeld, InState, Sources
      <4>2. Settling(a, row, e)
        BY <2>3, <3>2, <4>1 DEF Working, Opening, Holding, Claiming, Doubting, Releasing, InState
      <4> QED
        BY <4>1, <4>2 DEF Settling, InState
    <3> QED
      BY <3>1, <3>2
  <2>4. CASE Next
    <3>1. Shaped
      BY <1>1, <2>4, NextShaped
    <3>2. Kept
      BY <2>2, <2>3, <3>1 DEF Shaped
    <3> QED
      BY <3>2
  <2> HIDE DEF Kept
  <2> QED
    BY <1>1, <2>1, <2>4
<1>2. Spec => []TypeOK
  BY LedgerTypeCorrect
<1> QED
  BY <1>1, <1>2, PTL DEF Spec, BillingIsFinal
-----------------------------------------------------------------------------
(***************************************************************************)
(* The journal explains the tables.  The last event is spoken of without   *)
(* Max, as one that comes after all others.                                *)
(***************************************************************************)
LastOf(n, S) == n \in S /\ \A k \in S : k <= n

LEMMA LastIsMax ==
  ASSUME NEW S, S \subseteq Nat, NEW n, LastOf(n, S)
  PROVE  Max(S) = n
<1>1. \E x \in S : \A y \in S : x >= y
  BY DEF LastOf
<1>2. Max(S) \in S /\ \A y \in S : Max(S) >= y
  BY <1>1 DEF Max
<1>3. Max(S) >= n /\ n >= Max(S) /\ Max(S) \in Nat /\ n \in Nat
  BY <1>2 DEF LastOf
<1> QED
  BY <1>3

SaysOf(a, n) ==
  /\ HasAttempt(a) /\ attempts[a].state = StateAfter[journal[n].kind]
  /\ journal[n].kind = "cost_settled" =>
       attempts[a].actual = journal[n].value /\ attempts[a].source = journal[n].receipt.source

SaysLimit(s, n) == HasScope(s) /\ scopes[s].limit = journal[n].value

AttemptTold(a) ==
  \/ Changes(a) = {} /\ ~HasAttempt(a)
  \/ \E n \in DOMAIN journal : LastOf(n, Changes(a)) /\ SaysOf(a, n)

ScopeTold(s) ==
  \/ LimitEvents(s) = {} /\ ~HasScope(s)
  \/ \E n \in DOMAIN journal : LastOf(n, LimitEvents(s)) /\ SaysLimit(s, n)

HoldTold(a) ==
  HasHold(a) => \E n \in Kinds("cost_reserved", a) : attempts[a].reserved = journal[n].value

ReceiptsTold == receipts = {journal[n].receipt : n \in Settlements}

TablesTold ==
  /\ \A a \in Attempts : AttemptTold(a) /\ HoldTold(a)
  /\ \A s \in ScopeIds : ScopeTold(s)
  /\ ReceiptsTold

LEMMA ToldIsExplained ==
  ASSUME TypeOK, TablesTold
  PROVE  JournalExplainsTables
<1>1. DOMAIN journal \subseteq Nat
  BY DEF TypeOK
<1>2. ASSUME NEW a \in Attempts
      PROVE  IF Changes(a) = {} THEN ~HasAttempt(a)
             ELSE LET last == journal[Max(Changes(a))]
                  IN  /\ attempts[a].state = StateAfter[last.kind]
                      /\ last.kind = "cost_settled" =>
                           attempts[a].actual = last.value /\ attempts[a].source = last.receipt.source
  <2>1. CASE Changes(a) = {} /\ ~HasAttempt(a)
    BY <2>1
  <2>2. ASSUME NEW n \in DOMAIN journal, LastOf(n, Changes(a)), SaysOf(a, n)
        PROVE  /\ Changes(a) # {} /\ Max(Changes(a)) = n
               /\ attempts[a].state = StateAfter[journal[n].kind]
               /\ journal[n].kind = "cost_settled" =>
                    attempts[a].actual = journal[n].value /\ attempts[a].source = journal[n].receipt.source
    <3>1. Changes(a) \subseteq Nat
      BY <1>1 DEF Changes
    <3> QED
      BY <2>2, <3>1, LastIsMax DEF LastOf, SaysOf
  <2> QED
    BY <2>1, <2>2 DEF TablesTold, AttemptTold
<1>3. ASSUME NEW s \in ScopeIds
      PROVE  IF LimitEvents(s) = {} THEN ~HasScope(s)
             ELSE scopes[s].limit = journal[Max(LimitEvents(s))].value
  <2>1. CASE LimitEvents(s) = {} /\ ~HasScope(s)
    BY <2>1
  <2>2. ASSUME NEW n \in DOMAIN journal, LastOf(n, LimitEvents(s)), SaysLimit(s, n)
        PROVE  /\ LimitEvents(s) # {} /\ Max(LimitEvents(s)) = n
               /\ scopes[s].limit = journal[n].value
    <3>1. LimitEvents(s) \subseteq Nat
      BY <1>1 DEF LimitEvents
    <3> QED
      BY <2>2, <3>1, LastIsMax DEF LastOf, SaysLimit
  <2> QED
    BY <2>1, <2>2 DEF TablesTold, ScopeTold
<1>4. ASSUME NEW a \in Attempts, HasAttempt(a)
      PROVE  IF HasHold(a) THEN \E n \in Kinds("cost_reserved", a) : attempts[a].reserved = journal[n].value
                        ELSE attempts[a].reserved = 0
  <2>1. CASE HasHold(a)
    BY <2>1 DEF TablesTold, HoldTold
  <2>2. CASE ~HasHold(a)
    BY <1>4, <2>2 DEF TypeOK, HasHold
  <2> QED
    BY <2>1, <2>2
<1> QED
  BY <1>2, <1>3, <1>4 DEF JournalExplainsTables, TablesTold, ReceiptsTold

\* What a new event adds to the events that are about an attempt or a scope.
LEMMA TellingMore ==
  ASSUME TypeOK, NEW e \in Entries, journal' = Append(journal, e), NEW m, m = Len(journal) + 1
  PROVE  /\ m \in Nat /\ m \in DOMAIN journal' /\ DOMAIN journal \subseteq DOMAIN journal'
         /\ journal'[m] = e /\ \A n \in DOMAIN journal : n <= m /\ journal'[n] = journal[n]
         /\ \A a \in Attempts : Changes(a)' = Changes(a) \cup
              {k \in {m} : e.attempt = a /\ e.kind \in DOMAIN StateAfter}
         /\ \A s \in ScopeIds : LimitEvents(s)' = LimitEvents(s) \cup
              {k \in {m} : e.scope = s /\ e.kind \in {"scope_created", "limit_changed"}}
<1>1. /\ DOMAIN journal' = DOMAIN journal \cup {m} /\ m \notin DOMAIN journal
      /\ \A n \in DOMAIN journal : journal'[n] = journal[n]
      /\ journal'[m] = e
  BY Appended DEF TypeOK
<1>2. m \in Nat /\ \A n \in DOMAIN journal : n <= m
  BY DEF TypeOK
<1>3. \A a \in Attempts : Changes(a)' = Changes(a) \cup
        {k \in {m} : e.attempt = a /\ e.kind \in DOMAIN StateAfter}
  BY <1>1 DEF Changes
<1>4. \A s \in ScopeIds : LimitEvents(s)' = LimitEvents(s) \cup
        {k \in {m} : e.scope = s /\ e.kind \in {"scope_created", "limit_changed"}}
  BY <1>1 DEF LimitEvents
<1> QED
  BY <1>1, <1>2, <1>3, <1>4

\* A row that stays while no event is about it is told by the same event.
LEMMA OldTaleHolds ==
  ASSUME TypeOK, NEW e \in Entries, journal' = Append(journal, e)
  PROVE  /\ \A a \in Attempts :
              /\ AttemptTold(a) /\ attempts'[a] = attempts[a]
              /\ e.attempt # a \/ e.kind \notin DOMAIN StateAfter
              => AttemptTold(a)'
         /\ \A s \in ScopeIds :
              /\ ScopeTold(s) /\ scopes'[s] = scopes[s]
              /\ e.scope # s \/ e.kind \notin {"scope_created", "limit_changed"}
              => ScopeTold(s)'
<1> DEFINE m == Len(journal) + 1
<1>1. /\ DOMAIN journal \subseteq DOMAIN journal'
      /\ \A n \in DOMAIN journal : journal'[n] = journal[n]
      /\ \A a \in Attempts : Changes(a)' = Changes(a) \cup
           {k \in {m} : e.attempt = a /\ e.kind \in DOMAIN StateAfter}
      /\ \A s \in ScopeIds : LimitEvents(s)' = LimitEvents(s) \cup
           {k \in {m} : e.scope = s /\ e.kind \in {"scope_created", "limit_changed"}}
  BY TellingMore
<1> HIDE DEF m
<1>2. ASSUME NEW a \in Attempts, AttemptTold(a), attempts'[a] = attempts[a],
             e.attempt # a \/ e.kind \notin DOMAIN StateAfter
      PROVE  AttemptTold(a)'
  <2>1. Changes(a)' = Changes(a)
    BY <1>1, <1>2
  <2>2. \A n \in DOMAIN journal : SaysOf(a, n) => SaysOf(a, n)'
    BY <1>1, <1>2 DEF SaysOf, HasAttempt
  <2> QED
    BY <1>1, <1>2, <2>1, <2>2 DEF AttemptTold, HasAttempt
<1>3. ASSUME NEW s \in ScopeIds, ScopeTold(s), scopes'[s] = scopes[s],
             e.scope # s \/ e.kind \notin {"scope_created", "limit_changed"}
      PROVE  ScopeTold(s)'
  <2>1. LimitEvents(s)' = LimitEvents(s)
    BY <1>1, <1>3
  <2>2. \A n \in DOMAIN journal : SaysLimit(s, n) => SaysLimit(s, n)'
    BY <1>1, <1>3 DEF SaysLimit, HasScope
  <2> QED
    BY <1>1, <1>3, <2>1, <2>2 DEF ScopeTold, HasScope
<1> QED
  BY <1>2, <1>3

\* A hold that stays is the one that was granted, for what was told is still told; the
\* receipts of the settlements are those told before and that of a new one.
LEMMA PaymentsTold ==
  ASSUME TypeOK, NEW e \in Entries, journal' = Append(journal, e)
  PROVE  /\ \A a \in Attempts : \A n \in Kinds("cost_reserved", a) :
              n \in Kinds("cost_reserved", a)' /\ journal'[n].value = journal[n].value
         /\ \A a \in Attempts : e.kind = "cost_reserved" /\ e.attempt = a =>
              \E n \in Kinds("cost_reserved", a)' : journal'[n].value = e.value
         /\ {journal'[n].receipt : n \in Settlements'} =
              {journal[n].receipt : n \in Settlements}
                \cup (IF e.kind = "cost_settled" THEN {e.receipt} ELSE {})
<1>0. PICK m : m = Len(journal) + 1
  OBVIOUS
<1>1. /\ DOMAIN journal' = DOMAIN journal \cup {m} /\ m \notin DOMAIN journal
      /\ \A n \in DOMAIN journal : journal'[n] = journal[n]
      /\ journal'[m] = e
  BY <1>0, Appended DEF TypeOK
<1>2. Settlements' = Settlements \cup {n \in {m} : e.kind = "cost_settled"}
  BY <1>1 DEF Settlements
<1>3. {journal'[n].receipt : n \in Settlements'} =
        {journal[n].receipt : n \in Settlements}
          \cup (IF e.kind = "cost_settled" THEN {e.receipt} ELSE {})
  <2>1. \A n \in Settlements : journal'[n].receipt = journal[n].receipt
    BY <1>1 DEF Settlements
  <2>2. CASE e.kind = "cost_settled"
    <3>1. Settlements' = Settlements \cup {m} /\ journal'[m].receipt = e.receipt
      BY <1>1, <1>2, <2>2
    <3>2. {journal'[n].receipt : n \in Settlements \cup {m}} =
            {journal'[n].receipt : n \in Settlements} \cup {journal'[m].receipt}
      OBVIOUS
    <3>3. {journal'[n].receipt : n \in Settlements} = {journal[n].receipt : n \in Settlements}
      BY <2>1
    <3> QED
      BY <2>2, <3>1, <3>2, <3>3
  <2>3. CASE e.kind # "cost_settled"
    <3>1. Settlements' = Settlements
      BY <1>2, <2>3
    <3>2. {journal'[n].receipt : n \in Settlements} = {journal[n].receipt : n \in Settlements}
      BY <2>1
    <3> QED
      BY <2>3, <3>1, <3>2
  <2> QED
    BY <2>2, <2>3
<1>4. \A a \in Attempts : \A n \in Kinds("cost_reserved", a) :
        n \in Kinds("cost_reserved", a)' /\ journal'[n].value = journal[n].value
  BY <1>1 DEF Kinds
<1>5. ASSUME NEW a \in Attempts, e.kind = "cost_reserved", e.attempt = a
      PROVE  \E n \in Kinds("cost_reserved", a)' : journal'[n].value = e.value
  <2>1. m \in Kinds("cost_reserved", a)'
    BY <1>1, <1>5 DEF Kinds
  <2> QED
    BY <1>1, <2>1
<1> QED
  BY <1>3, <1>4, <1>5

LEMMA QuietKeepsTold ==
  ASSUME TypeOK, TablesTold, NEW e \in Entries, Quiet(e)
  PROVE  TablesTold'
<1>0. PICK m : m = Len(journal) + 1
  OBVIOUS
<1>1. journal' = Append(journal, e) /\ attempts' = attempts
  BY DEF Quiet
<1>2. e.kind \notin DOMAIN StateAfter
  BY DEF Quiet, Denying, Limiting, StateAfter
<1>3. \A a \in Attempts : AttemptTold(a)'
  BY <1>1, <1>2, OldTaleHolds DEF TablesTold
<1>6. ASSUME NEW a \in Attempts PROVE HoldTold(a)'
  <2>1. HoldTold(a) /\ (HasHold(a)' <=> HasHold(a))
    BY <1>1 DEF TablesTold, HasHold, InState, HasAttempt
  <2> QED
    BY <1>1, <2>1, PaymentsTold DEF HoldTold
<1>7. ReceiptsTold'
  <2>1. e.kind # "cost_settled" /\ receipts' = receipts
    BY <1>2 DEF StateAfter, Quiet
  <2> QED
    BY <1>1, <2>1, PaymentsTold DEF TablesTold, ReceiptsTold
<1>4. CASE Denying(e)
  <2>1. \A s \in ScopeIds : ScopeTold(s)'
    BY <1>1, <1>4, OldTaleHolds DEF TablesTold, Denying
  <2> QED
    BY <1>3, <1>6, <1>7, <2>1 DEF TablesTold
<1>5. ASSUME NEW s \in ScopeIds, NEW row \in ScopeRows, Limiting(s, row, e)
      PROVE  TablesTold'
  <2>1. /\ scopes'[s] = row /\ row # None
        /\ \A t \in ScopeIds \ {s} : scopes'[t] = scopes[t]
    BY <1>5, NoneAssumption DEF Limiting, TypeOK
  <2>2. /\ m \in DOMAIN journal' /\ journal'[m] = e
        /\ m \in Nat /\ \A n \in DOMAIN journal : n <= m
        /\ LimitEvents(s)' = LimitEvents(s) \cup {m}
    BY <1>0, <1>1, <1>5, TellingMore DEF Limiting
  <2>3. LastOf(m, LimitEvents(s)')
    <3>1. \A k \in LimitEvents(s) : k <= m
      BY <2>2 DEF LimitEvents
    <3>2. m <= m
      BY <2>2
    <3> QED
      BY <2>2, <3>1, <3>2 DEF LastOf
  <2>4. SaysLimit(s, m)'
    <3>1. e.value = row.limit
      BY <1>5 DEF Limiting
    <3> QED
      BY <2>1, <2>2, <3>1 DEF SaysLimit, HasScope
  <2>5. ScopeTold(s)'
    BY <2>2, <2>3, <2>4 DEF ScopeTold, LastOf
  <2>6. \A t \in ScopeIds \ {s} : ScopeTold(t)'
    BY <1>1, <1>5, <2>1, OldTaleHolds DEF TablesTold, Limiting
  <2> QED
    BY <1>3, <1>6, <1>7, <2>5, <2>6 DEF TablesTold
<1> QED
  BY <1>4, <1>5 DEF Quiet

LEMMA WorkKeepsTold ==
  ASSUME TypeOK, TablesTold,
         NEW a \in Attempts, NEW row \in AttemptRows, NEW e \in Entries, Working(a, row, e)
  PROVE  TablesTold'
<1>0. PICK m : m = Len(journal) + 1
  OBVIOUS
<1>1. /\ journal' = Append(journal, e) /\ e.attempt = a /\ scopes' = scopes
      /\ attempts'[a] = row /\ \A b \in Attempts \ {a} : attempts'[b] = attempts[b]
  <2>1. scopes' = scopes
    BY DEF Working, AttemptStep
  <2> QED
    BY <2>1, RowsMove
<1>2. /\ e.kind \in DOMAIN StateAfter /\ row.state = StateAfter[e.kind]
      /\ e.kind = "cost_settled" => row.actual = e.value /\ row.source = e.receipt.source
      /\ e.kind \notin {"scope_created", "limit_changed"}
  BY DEF Working, Opening, Holding, Claiming, Doubting, Releasing, Settling, StateAfter
<1>3. /\ m \in DOMAIN journal' /\ journal'[m] = e
      /\ m \in Nat /\ \A n \in DOMAIN journal : n <= m
      /\ Changes(a)' = Changes(a) \cup {m}
  BY <1>0, <1>1, <1>2, TellingMore
<1>4. LastOf(m, Changes(a)')
  <2>1. \A k \in Changes(a) : k <= m
    BY <1>3 DEF Changes
  <2>2. m <= m
    BY <1>3
  <2> QED
    BY <1>3, <2>1, <2>2 DEF LastOf
<1>5. SaysOf(a, m)'
  <2>1. HasAttempt(a)'
    BY RowsMove
  <2> QED
    BY <1>1, <1>2, <1>3, <2>1 DEF SaysOf
<1>6. AttemptTold(a)'
  BY <1>3, <1>4, <1>5 DEF AttemptTold, LastOf
<1>7. \A b \in Attempts \ {a} : AttemptTold(b)'
  BY <1>1, OldTaleHolds DEF TablesTold
<1>8. \A s \in ScopeIds : ScopeTold(s)'
  BY <1>1, <1>2, OldTaleHolds DEF TablesTold
<1>9. HoldTold(a)'
  <2> SUFFICES ASSUME HasHold(a)'
               PROVE  \E n \in Kinds("cost_reserved", a)' : attempts'[a].reserved = journal'[n].value
    BY DEF HoldTold
  <2>1. row.state \in {"reserved", "dispatched", "uncertain"}
    BY <1>1 DEF HasHold, InState
  <2>2. CASE Holding(a, row, e)
    <3>1. e.kind = "cost_reserved" /\ e.value = row.reserved
      BY <2>2 DEF Holding
    <3>2. PICK n \in Kinds("cost_reserved", a)' : journal'[n].value = e.value
      BY <1>1, <3>1, PaymentsTold
    <3>3. attempts'[a].reserved = e.value
      BY <1>1, <3>1
    <3> QED
      BY <3>2, <3>3
  <2>3. CASE Claiming(a, row, e) \/ Doubting(a, row, e)
    <3>1. HasHold(a) /\ row.reserved = attempts[a].reserved
      BY <2>3 DEF Claiming, Doubting, HasHold, InState
    <3>2. PICK n \in Kinds("cost_reserved", a) : attempts[a].reserved = journal[n].value
      BY <3>1 DEF TablesTold, HoldTold
    <3>3. n \in Kinds("cost_reserved", a)' /\ journal'[n].value = journal[n].value
      BY <1>1, <3>2, PaymentsTold
    <3>4. attempts'[a].reserved = journal'[n].value
      BY <1>1, <3>1, <3>2, <3>3
    <3> QED
      BY <3>3, <3>4
  <2>4. CASE Opening(a, row, e) \/ Releasing(a, row, e) \/ Settling(a, row, e)
    BY <2>1, <2>4 DEF Opening, Releasing, Settling
  <2> QED
    BY <2>2, <2>3, <2>4 DEF Working
<1>10. ASSUME NEW b \in Attempts \ {a} PROVE HoldTold(b)'
  <2>1. HoldTold(b) /\ (HasHold(b)' <=> HasHold(b)) /\ attempts'[b] = attempts[b]
    BY <1>1 DEF TablesTold, HasHold, InState, HasAttempt
  <2> QED
    BY <1>1, <2>1, PaymentsTold DEF HoldTold
<1>11. ReceiptsTold'
  <2>1. receipts' = receipts \cup (IF e.kind = "cost_settled" THEN {e.receipt} ELSE {})
    BY DEF Working, Opening, Holding, Claiming, Doubting, Releasing, Settling
  <2> QED
    BY <1>1, <2>1, PaymentsTold DEF TablesTold, ReceiptsTold
<1> QED
  BY <1>6, <1>7, <1>8, <1>9, <1>10, <1>11 DEF TablesTold

LEMMA TablesToldHolds == Spec => [](TypeOK /\ TablesTold)
<1>1. Init => TypeOK /\ TablesTold
  <2> SUFFICES ASSUME Init PROVE TypeOK /\ TablesTold
    OBVIOUS
  <2>1. TypeOK
    BY InitTypeOK
  <2>2. PICK limit \in Limits :
          /\ scopes = [s \in ScopeIds |->
               IF s = Account THEN [parent |-> None, kind |-> "account", limit |-> limit]
                              ELSE None]
          /\ journal = <<Entry(None, "scope_created", Account, None, limit, None)>>
    BY DEF Init
  <2>3. /\ DOMAIN journal = {1} /\ journal[1].kind = "scope_created"
        /\ journal[1].scope = Account /\ journal[1].value = limit
    BY <2>2 DEF Entry
  <2>4. ASSUME NEW a \in Attempts PROVE AttemptTold(a)
    BY <2>3 DEF AttemptTold, Changes, StateAfter, HasAttempt, Init
  <2>5. ASSUME NEW s \in ScopeIds PROVE ScopeTold(s)
    <3>1. CASE s = Account
      <4>1. LimitEvents(s) = {1}
        BY <2>3, <3>1 DEF LimitEvents
      <4>2. LastOf(1, LimitEvents(s))
        BY <4>1 DEF LastOf
      <4>3. SaysLimit(s, 1)
        BY <2>1, <2>2, <2>3, <3>1 DEF SaysLimit, TypeOK
      <4> QED
        BY <2>3, <4>2, <4>3 DEF ScopeTold
    <3>2. CASE s # Account
      BY <2>2, <2>3, <3>2 DEF ScopeTold, LimitEvents, HasScope
    <3> QED
      BY <3>1, <3>2
  <2>6. \A a \in Attempts : HoldTold(a)
    BY DEF HoldTold, HasHold, InState, HasAttempt, Init
  <2>7. ReceiptsTold
    <3>1. Settlements = {} /\ receipts = {}
      BY <2>3 DEF Settlements, Init
    <3> QED
      BY <3>1 DEF ReceiptsTold
  <2> QED
    BY <2>1, <2>4, <2>5, <2>6, <2>7 DEF TablesTold
<1>2. TypeOK /\ TablesTold /\ [Next]_ledger => (TypeOK /\ TablesTold)'
  <2>1. ASSUME TypeOK, TablesTold, Next PROVE (TypeOK /\ TablesTold)'
    <3>1. TypeOK' /\ Shaped
      BY <2>1, NextShaped
    <3>2. TablesTold'
      BY <2>1, <3>1, QuietKeepsTold, WorkKeepsTold DEF Shaped
    <3> QED
      BY <3>1, <3>2
  <2>2. ASSUME TypeOK, TablesTold, UNCHANGED ledger PROVE (TypeOK /\ TablesTold)'
    <3>1. TypeOK'
      BY <2>2 DEF TypeOK, ledger, tables, HasScope, HasAttempt, InState
    <3>2. TablesTold'
      <4>1. journal' = journal /\ attempts' = attempts /\ scopes' = scopes /\ receipts' = receipts
        BY <2>2 DEF ledger, tables
      <4>2. \A a \in Attempts : AttemptTold(a)' /\ HoldTold(a)'
        <5>1. \A a \in Attempts : AttemptTold(a)'
          BY <2>2, <4>1 DEF TablesTold, AttemptTold, SaysOf, Changes, HasAttempt
        <5>2. \A a \in Attempts : HoldTold(a)'
          BY <2>2, <4>1 DEF TablesTold, HoldTold, Kinds, HasHold, InState, HasAttempt
        <5> QED BY <5>1, <5>2
      <4>3. \A s \in ScopeIds : ScopeTold(s)'
        BY <2>2, <4>1 DEF TablesTold, ScopeTold, SaysLimit, LimitEvents, HasScope
      <4>4. ReceiptsTold'
        BY <2>2, <4>1 DEF TablesTold, ReceiptsTold, Settlements
      <4> QED BY <4>2, <4>3, <4>4 DEF TablesTold
    <3> QED
      BY <3>1, <3>2
  <2> QED
    BY <2>1, <2>2
<1> QED
  BY <1>1, <1>2, PTL DEF Spec

\* The append-only journal explains the tables: the state, the charge and its source of an
\* attempt and the limit of a scope are what the last event about them says, an open hold
\* is the amount that was granted, and the receipts are those of the settlements.
THEOREM JournalExplains == Spec => []JournalExplainsTables
<1>1. TypeOK /\ TablesTold => JournalExplainsTables
  BY ToldIsExplained
<1> QED
  BY <1>1, TablesToldHolds, PTL
-----------------------------------------------------------------------------
(***************************************************************************)
(* Chains.  A scope is below a scope of another kind, at most four levels  *)
(* under the account, so the recursion of Chain has a solution, and adding *)
(* a scope or changing a limit moves no scope that is there.               *)
(***************************************************************************)
Level == [account |-> 0, engagement |-> 1, session |-> 2, agent |-> 3, action |-> 4]

HasUpper(tree, t) == tree[t] # None /\ tree[t].parent # None

Forest(tree) ==
  /\ tree \in [ScopeIds -> ScopeRows \cup {None}]
  /\ \A t \in ScopeIds : HasUpper(tree, t) =>
       /\ tree[t].kind \in DOMAIN Parents
       /\ tree[t].parent \in ScopeIds /\ tree[tree[t].parent] # None
       /\ tree[tree[t].parent].kind \in Parents[tree[t].kind]

LevelIn(tree, t) == IF tree[t] = None THEN 0 ELSE Level[tree[t].kind]

ChainOf(tree, s) ==
  LET up[t \in ScopeIds] == {t} \cup (IF HasUpper(tree, t) THEN up[tree[t].parent] ELSE {})
  IN  up[s]

LEMMA ChainIsOfScopes ==
  ASSUME NEW s
  PROVE  Chain(s) = ChainOf(scopes, s) /\ Chain(s)' = ChainOf(scopes', s)
BY DEF Chain, ChainOf, HasScope, HasUpper

LEMMA UpperIsLower ==
  ASSUME NEW tree, Forest(tree), NEW t \in ScopeIds
  PROVE  /\ LevelIn(tree, t) \in 0..4
         /\ HasUpper(tree, t) =>
              /\ tree[t].parent \in ScopeIds /\ tree[tree[t].parent] # None
              /\ LevelIn(tree, tree[t].parent) < LevelIn(tree, t)
<1>1. ASSUME NEW u \in ScopeIds, tree[u] # None
      PROVE  LevelIn(tree, u) = Level[tree[u].kind] /\ tree[u].kind \in DOMAIN Level
  <2>1. tree[u] \in ScopeRows
    BY <1>1 DEF Forest
  <2> QED
    BY <1>1, <2>1 DEF LevelIn, ScopeRows, Parents, Level
<1>2. \A kind \in DOMAIN Level : Level[kind] \in 0..4
  BY DEF Level
<1>3. LevelIn(tree, t) \in 0..4
  BY <1>1, <1>2 DEF LevelIn
<1>4. ASSUME HasUpper(tree, t)
      PROVE  /\ tree[t].parent \in ScopeIds /\ tree[tree[t].parent] # None
             /\ LevelIn(tree, tree[t].parent) < LevelIn(tree, t)
  <2>1. /\ tree[t] # None /\ tree[t].kind \in DOMAIN Parents
        /\ tree[t].parent \in ScopeIds /\ tree[tree[t].parent] # None
        /\ tree[tree[t].parent].kind \in Parents[tree[t].kind]
    BY <1>4 DEF Forest, HasUpper
  <2>2. \A kind \in DOMAIN Parents : \A upper \in Parents[kind] : Level[upper] < Level[kind]
    BY DEF Parents, Level
  <2> QED
    BY <1>1, <2>1, <2>2
<1> QED
  BY <1>3, <1>4

\* Induction along the tree: of a set of scopes one has its parent outside of the set.
LEMMA HighestScope ==
  ASSUME NEW tree, Forest(tree), NEW U, U \subseteq ScopeIds, U # {}
  PROVE  \E t \in U : HasUpper(tree, t) => tree[t].parent \notin U
<1> DEFINE Levels == {LevelIn(tree, t) : t \in U}
<1>1. Levels \subseteq Nat /\ Levels # {}
  BY UpperIsLower
<1>2. PICK n \in Levels : \A m \in Levels : n <= m
  BY <1>1, LeastNumber, Zenon
<1>3. PICK t \in U : n = LevelIn(tree, t)
  OBVIOUS
<1>4. ASSUME HasUpper(tree, t), tree[t].parent \in U
      PROVE  FALSE
  <2>1. LevelIn(tree, tree[t].parent) < n /\ n <= LevelIn(tree, tree[t].parent)
    BY <1>2, <1>3, <1>4, UpperIsLower
  <2>2. n \in Nat /\ LevelIn(tree, tree[t].parent) \in Nat
    BY <1>1, <1>4
  <2> QED
    BY <2>1, <2>2
<1> QED
  BY <1>4

OneUp(tree, g) ==
  [t \in ScopeIds |-> {t} \cup (IF HasUpper(tree, t) THEN g[tree[t].parent] ELSE {})]

\* g is right for the scopes down to a level.
RightTo(tree, g, n) ==
  \A t \in ScopeIds : LevelIn(tree, t) <= n => g[t] = OneUp(tree, g)[t]

LEMMA OneLevelMore ==
  ASSUME NEW tree, Forest(tree), NEW n \in 0..3, NEW g, RightTo(tree, g, n)
  PROVE  RightTo(tree, OneUp(tree, g), n + 1)
<1> DEFINE h == OneUp(tree, g)
<1> SUFFICES ASSUME NEW t \in ScopeIds, LevelIn(tree, t) <= n + 1
             PROVE  h[t] = OneUp(tree, h)[t]
  BY DEF RightTo
<1>1. CASE ~HasUpper(tree, t)
  BY <1>1 DEF OneUp
<1>2. CASE HasUpper(tree, t)
  <2> DEFINE p == tree[t].parent
  <2>1. p \in ScopeIds /\ LevelIn(tree, p) < LevelIn(tree, t)
    BY <1>2, UpperIsLower
  <2>2. LevelIn(tree, p) \in 0..4 /\ LevelIn(tree, t) \in 0..4
    BY <2>1, UpperIsLower
  <2>3. LevelIn(tree, p) <= n
    BY <2>1, <2>2
  <2>4. g[p] = h[p]
    BY <2>1, <2>3 DEF RightTo
  <2>5. h[t] = {t} \cup g[p] /\ OneUp(tree, h)[t] = {t} \cup h[p]
    <3> HIDE DEF h
    <3>1. OneUp(tree, h)[t] = {t} \cup h[p]
      BY <1>2 DEF OneUp
    <3>2. OneUp(tree, g)[t] = {t} \cup g[p]
      BY <1>2 DEF OneUp
    <3> QED
      BY <3>1, <3>2 DEF h
  <2> QED
    BY <2>4, <2>5
<1> QED
  BY <1>1, <1>2

LEMMA ChainOfUnfolds ==
  ASSUME NEW tree, Forest(tree)
  PROVE  \A t \in ScopeIds :
           ChainOf(tree, t) =
             {t} \cup (IF HasUpper(tree, t) THEN ChainOf(tree, tree[t].parent) ELSE {})
<1> DEFINE Found(n) == \E g : RightTo(tree, g, n)
<1>1. Found(0)
  <2> DEFINE g == [t \in ScopeIds |-> {t}]
  <2>1. \A t \in ScopeIds : LevelIn(tree, t) <= 0 => ~HasUpper(tree, t)
    BY UpperIsLower
  <2>2. RightTo(tree, g, 0)
    BY <2>1 DEF RightTo, OneUp
  <2> QED
    BY <2>2
<1>2. \A n \in 0..3 : Found(n) => Found(n + 1)
  BY OneLevelMore
<1>3. Found(4)
  <2> HIDE DEF Found
  <2>1. Found(1)
    BY <1>1, <1>2
  <2>2. Found(2)
    BY <1>2, <2>1
  <2>3. Found(3)
    BY <1>2, <2>2
  <2> QED
    BY <1>2, <2>3
<1>4. PICK g : RightTo(tree, g, 4)
  BY <1>3
<1> DEFINE h == OneUp(tree, g)
<1>5. h = OneUp(tree, h)
  <2>1. \A t \in ScopeIds : g[t] = h[t]
    BY <1>4, UpperIsLower DEF RightTo
  <2>2. \A t \in ScopeIds : HasUpper(tree, t) => tree[t].parent \in ScopeIds
    BY UpperIsLower
  <2>3. OneUp(tree, h) = OneUp(tree, g)
    <3> HIDE DEF h
    <3> QED
      BY <2>1, <2>2 DEF OneUp
  <2> QED
    BY <2>3
<1> DEFINE up == CHOOSE f : f = [t \in ScopeIds |->
                   {t} \cup (IF HasUpper(tree, t) THEN f[tree[t].parent] ELSE {})]
<1>6. up = OneUp(tree, up)
  <2>1. \E f : f = [t \in ScopeIds |->
                   {t} \cup (IF HasUpper(tree, t) THEN f[tree[t].parent] ELSE {})]
    <3> HIDE DEF h
    <3> QED
      BY <1>5, Zenon DEF OneUp
  <2> QED
    BY <2>1, Zenon DEF OneUp
<1>7. \A t : ChainOf(tree, t) = up[t]
  BY DEF ChainOf
<1> HIDE DEF up, h
<1>8. ASSUME NEW t \in ScopeIds
      PROVE  up[t] = {t} \cup (IF HasUpper(tree, t) THEN up[tree[t].parent] ELSE {})
  <2>1. up[t] = OneUp(tree, up)[t]
    BY <1>6
  <2> QED
    BY <2>1 DEF OneUp
<1> QED
  BY <1>7, <1>8

LEMMA ChainOfInside ==
  ASSUME NEW tree, Forest(tree), NEW s \in ScopeIds
  PROVE  ChainOf(tree, s) \subseteq ScopeIds
<1> DEFINE U == {t \in ScopeIds : ~(ChainOf(tree, t) \subseteq ScopeIds)}
<1>1. SUFFICES ASSUME U # {} PROVE FALSE
  OBVIOUS
<1>2. PICK t \in U : HasUpper(tree, t) => tree[t].parent \notin U
  <2>1. U \subseteq ScopeIds
    OBVIOUS
  <2> HIDE DEF U
  <2> QED
    BY <1>1, <2>1, HighestScope
<1>3. HasUpper(tree, t) => tree[t].parent \in ScopeIds
  BY UpperIsLower
<1> QED
  BY <1>2, <1>3, ChainOfUnfolds

LEMMA ChainOfStays ==
  ASSUME NEW tree, NEW next, Forest(tree), Forest(next),
         \A t \in ScopeIds : tree[t] # None => next[t] # None /\ next[t].parent = tree[t].parent,
         NEW s \in ScopeIds, tree[s] # None
  PROVE  ChainOf(next, s) = ChainOf(tree, s)
<1> DEFINE U == {t \in ScopeIds : tree[t] # None /\ ChainOf(next, t) # ChainOf(tree, t)}
<1>1. SUFFICES ASSUME U # {} PROVE FALSE
  OBVIOUS
<1>2. PICK t \in U : HasUpper(tree, t) => tree[t].parent \notin U
  <2>1. U \subseteq ScopeIds
    OBVIOUS
  <2> HIDE DEF U
  <2> QED
    BY <1>1, <2>1, HighestScope
<1>3. /\ t \in ScopeIds /\ tree[t] # None /\ ChainOf(next, t) # ChainOf(tree, t)
      /\ HasUpper(next, t) <=> HasUpper(tree, t)
      /\ next[t].parent = tree[t].parent
  BY DEF HasUpper
<1>4. CASE ~HasUpper(tree, t)
  <2>1. ChainOf(tree, t) = {t} /\ ChainOf(next, t) = {t}
    BY <1>3, <1>4, ChainOfUnfolds
  <2> QED
    BY <1>3, <2>1
<1>5. CASE HasUpper(tree, t)
  <2>1. tree[t].parent \in ScopeIds /\ tree[tree[t].parent] # None
    BY <1>3, <1>5, UpperIsLower
  <2>2. ChainOf(next, tree[t].parent) = ChainOf(tree, tree[t].parent)
    BY <1>2, <1>5, <2>1
  <2>3. /\ ChainOf(tree, t) = {t} \cup ChainOf(tree, tree[t].parent)
        /\ ChainOf(next, t) = {t} \cup ChainOf(next, next[t].parent)
    BY <1>3, <1>5, ChainOfUnfolds
  <2> QED
    BY <1>3, <2>2, <2>3
<1> QED
  BY <1>4, <1>5
-----------------------------------------------------------------------------
(***************************************************************************)
(* Budgets.                                                                *)
(***************************************************************************)
Held == {a \in Attempts : HasAttempt(a)}

TreeInv ==
  /\ Forest(scopes)
  /\ \A a \in Held : HasScope(attempts[a].scope)
  /\ IsFiniteSet(Held)

LEMMA TreeGrows ==
  ASSUME TypeOK, TreeInv, TypeOK', Shaped
  PROVE  /\ TreeInv'
         /\ \A t \in ScopeIds : HasScope(t) =>
              scopes'[t] # None /\ scopes'[t].parent = scopes[t].parent
<1>1. ASSUME NEW s \in ScopeIds, NEW row \in ScopeRows, NEW e, Limiting(s, row, e)
      PROVE  /\ Forest(scopes)'
             /\ \A t \in ScopeIds : HasScope(t) =>
                  scopes'[t] # None /\ scopes'[t].parent = scopes[t].parent
  <2>1. /\ scopes'[s] = row /\ row # None
        /\ \A t \in ScopeIds \ {s} : scopes'[t] = scopes[t]
    BY <1>1, NoneAssumption DEF Limiting, TypeOK
  <2>2. \A t \in ScopeIds : HasScope(t) =>
          /\ scopes'[t] # None
          /\ scopes'[t].parent = scopes[t].parent /\ scopes'[t].kind = scopes[t].kind
    BY <1>1, <2>1 DEF Limiting, HasScope
  <2>3. ASSUME NEW t \in ScopeIds, HasUpper(scopes', t)
        PROVE  /\ scopes'[t].kind \in DOMAIN Parents
               /\ scopes'[t].parent \in ScopeIds /\ scopes'[scopes'[t].parent] # None
               /\ scopes'[scopes'[t].parent].kind \in Parents[scopes'[t].kind]
    <3>1. CASE HasScope(t)
      <4>1. /\ scopes'[t].parent = scopes[t].parent /\ scopes'[t].kind = scopes[t].kind
            /\ HasUpper(scopes, t)
        BY <2>2, <2>3, <3>1 DEF HasUpper, HasScope
      <4>2. /\ scopes[t].kind \in DOMAIN Parents
            /\ scopes[t].parent \in ScopeIds /\ HasScope(scopes[t].parent)
            /\ scopes[scopes[t].parent].kind \in Parents[scopes[t].kind]
        BY <4>1 DEF TreeInv, Forest, HasScope
      <4> QED
        BY <2>2, <4>1, <4>2
    <3>2. CASE ~HasScope(t)
      <4>1. t = s
        BY <2>1, <2>3, <3>2 DEF HasScope, HasUpper
      <4>2. /\ row.kind \in DOMAIN Parents
            /\ row.parent \in ScopeIds /\ HasScope(row.parent)
            /\ scopes[row.parent].kind \in Parents[row.kind]
        BY <1>1, <3>2, <4>1 DEF Limiting
      <4> QED
        BY <2>1, <2>2, <4>1, <4>2
    <3> QED
      BY <3>1, <3>2
  <2>4. Forest(scopes')
    BY <2>3 DEF Forest, TypeOK
  <2> QED
    BY <2>2, <2>4 DEF Forest, HasUpper
<1>2. CASE \E e \in Entries : Quiet(e)
  <2>1. attempts' = attempts
    BY <1>2 DEF Quiet
  <2>2. /\ Forest(scopes)'
        /\ \A t \in ScopeIds : HasScope(t) =>
             scopes'[t] # None /\ scopes'[t].parent = scopes[t].parent
    BY <1>1, <1>2 DEF Quiet, Denying, TreeInv, Forest, HasScope, HasUpper
  <2>3. Held' = Held
    BY <2>1 DEF Held, HasAttempt
  <2>4. \A a \in Held : attempts[a].scope \in ScopeIds
    BY RowsKnown DEF Held, AttemptRows, ScopeIds
  <2>5. \A a \in Held' : HasScope(attempts[a].scope)'
    BY <2>1, <2>2, <2>3, <2>4 DEF TreeInv, HasScope
  <2> QED
    BY <2>2, <2>3, <2>5 DEF TreeInv
<1>3. ASSUME NEW a \in Attempts, NEW row \in AttemptRows, NEW e \in Entries, Working(a, row, e)
      PROVE  TreeInv' /\ scopes' = scopes
  <2>1. /\ attempts'[a] = row /\ HasAttempt(a)'
        /\ \A b \in Attempts \ {a} : attempts'[b] = attempts[b]
    BY <1>3, RowsMove
  <2>2. scopes' = scopes
    BY <1>3 DEF Working, AttemptStep
  <2>3. HasScope(row.scope)
    <3>1. (HasAttempt(a) /\ row.scope = attempts[a].scope) \/ HasScope(row.scope)
      BY <1>3 DEF Working, Opening, Holding, Claiming, Doubting, Releasing, Settling, InState
    <3> QED
      BY <3>1 DEF TreeInv, Held
  <2>4. Held' = Held \cup {a}
    BY <2>1 DEF Held, HasAttempt
  <2>5. IsFiniteSet(Held')
    BY <2>4, FS_AddElement DEF TreeInv
  <2>6. \A b \in Held' : HasScope(attempts[b].scope)'
    BY <2>1, <2>2, <2>3, <2>4 DEF TreeInv, Held, HasScope
  <2> QED
    BY <2>2, <2>5, <2>6 DEF TreeInv, Forest, HasUpper
<1>4. ASSUME NEW t \in ScopeIds, HasScope(t), scopes' = scopes
      PROVE  scopes'[t] # None /\ scopes'[t].parent = scopes[t].parent
  BY <1>4 DEF HasScope
<1> QED
  BY <1>1, <1>2, <1>3, <1>4 DEF Shaped, Quiet, Denying

LEMMA TreeHolds == Spec => [](TypeOK /\ TreeInv)
<1>1. Init => TypeOK /\ TreeInv
  <2> SUFFICES ASSUME Init PROVE TypeOK /\ TreeInv
    OBVIOUS
  <2>1. TypeOK
    BY InitTypeOK
  <2>2. \A t \in ScopeIds : ~HasUpper(scopes, t)
    BY DEF Init, HasUpper
  <2>3. Forest(scopes)
    BY <2>1, <2>2 DEF Forest, TypeOK
  <2>4. Held = {}
    BY DEF Held, HasAttempt, Init
  <2> QED
    BY <2>1, <2>3, <2>4, FS_EmptySet DEF TreeInv
<1>2. TypeOK /\ TreeInv /\ [Next]_ledger => (TypeOK /\ TreeInv)'
  <2>1. ASSUME TypeOK, TreeInv, Next PROVE (TypeOK /\ TreeInv)'
    BY <2>1, NextShaped, TreeGrows
  <2>2. ASSUME TypeOK, TreeInv, UNCHANGED ledger PROVE (TypeOK /\ TreeInv)'
    <3>1. TypeOK'
      BY <2>2 DEF TypeOK, ledger, tables, HasScope, HasAttempt, InState
    <3>2. TreeInv'
      BY <2>2 DEF TreeInv, Forest, Held, HasUpper, HasScope, HasAttempt, ledger, tables
    <3> QED
      BY <3>1, <3>2
  <2> QED
    BY <2>1, <2>2
<1> QED
  BY <1>1, <1>2, PTL DEF Spec

LEMMA CountedIsNat ==
  ASSUME NEW row \in AttemptRows
  PROVE  Counted(row) \in Nat
<1>1. row.reserved \in Nat /\ row.actual \in Charges \cup {0, None}
  BY DEF AttemptRows
<1>2. row.actual # None => row.actual \in Nat
  <2>1. \A n \in Charges : n \in Nat
    BY ConstantsAssumption, Zenon
  <2>2. row.actual \in Charges \/ row.actual = 0 \/ row.actual = None
    BY <1>1, Zenon
  <2>3. row.actual = 0 => row.actual \in Nat
    OBVIOUS
  <2> QED
    BY <2>1, <2>2, <2>3, Zenon
<1> QED
  BY <1>1, <1>2 DEF Counted

\* The sum over the attempts of a scope, as the theorems about sums know it.
Counts(rows, S) == [a \in S |-> Counted(rows[a])]

LEMMA CommittedIsNat ==
  ASSUME TypeOK, TreeInv, NEW s
  PROVE  /\ IsFiniteSet(ScopeAttempts(s)) /\ ScopeAttempts(s) \subseteq Held
         /\ \A a \in ScopeAttempts(s) : Counts(attempts, ScopeAttempts(s))[a] \in Nat
         /\ Committed(s) = SumFunctionOnSet(Counts(attempts, ScopeAttempts(s)), ScopeAttempts(s))
         /\ Committed(s) \in Nat
<1>1. ScopeAttempts(s) \subseteq Held
  BY DEF ScopeAttempts, Held
<1>2. IsFiniteSet(ScopeAttempts(s))
  BY <1>1, FS_Subset DEF TreeInv
<1>3. \A a \in ScopeAttempts(s) : Counts(attempts, ScopeAttempts(s))[a] \in Nat
  BY <1>1, RowsKnown, CountedIsNat DEF Held, Counts
<1>4. Committed(s) = SumFunctionOnSet(Counts(attempts, ScopeAttempts(s)), ScopeAttempts(s))
  BY DEF Committed, SumFunction, Counts
<1>5. Committed(s) \in Nat
  BY <1>2, <1>3, <1>4, SumType
<1> QED
  BY <1>1, <1>2, <1>3, <1>4, <1>5

\* Adding scopes and changing limits moves no attempt to another budget.
LEMMA CommittedStays ==
  ASSUME TypeOK, TreeInv, TypeOK', NEW e \in Entries, Quiet(e)
  PROVE  \A s \in ScopeIds : Committed(s)' = Committed(s)
<1>1. Shaped /\ attempts' = attempts
  BY DEF Shaped, Quiet
<1>2. ASSUME NEW a \in Held
      PROVE  ChainOf(scopes', attempts[a].scope) = ChainOf(scopes, attempts[a].scope)
  <2>1. attempts[a].scope \in ScopeIds /\ scopes[attempts[a].scope] # None
    BY RowsKnown DEF Held, AttemptRows, ScopeIds, TreeInv, HasScope
  <2>2. /\ Forest(scopes) /\ Forest(scopes')
        /\ \A t \in ScopeIds : scopes[t] # None =>
             scopes'[t] # None /\ scopes'[t].parent = scopes[t].parent
    BY <1>1, TreeGrows DEF TreeInv, HasScope, Forest, HasUpper
  <2> QED
    BY <2>1, <2>2, ChainOfStays
<1>3. ASSUME NEW s \in ScopeIds
      PROVE  ScopeAttempts(s)' = ScopeAttempts(s)
  <2>1. ScopeAttempts(s) = {a \in Held : s \in ChainOf(scopes, attempts[a].scope)}
    BY ChainIsOfScopes DEF ScopeAttempts, Held
  <2>2. ScopeAttempts(s)' = {a \in Attempts : HasAttempt(a)' /\ s \in Chain(attempts[a].scope)'}
    BY DEF ScopeAttempts
  <2>3. \A a \in Attempts : Chain(attempts[a].scope)' = ChainOf(scopes', attempts'[a].scope)
    BY DEF Chain, ChainOf, HasScope, HasUpper
  <2>4. ScopeAttempts(s)' = {a \in Held : s \in ChainOf(scopes', attempts[a].scope)}
    BY <1>1, <2>2, <2>3 DEF Held, HasAttempt
  <2> QED
    BY <1>2, <2>1, <2>4
<1> QED
  BY <1>1, <1>3 DEF Committed

\* Work on an attempt changes the budgets above it by what the attempt counts for more.
CountedBefore(a) == IF HasAttempt(a) THEN Counted(attempts[a]) ELSE 0

LEMMA CommittedMoves ==
  ASSUME TypeOK, TreeInv, TypeOK', TreeInv',
         NEW a \in Attempts, NEW row \in AttemptRows, NEW e \in Entries, Working(a, row, e),
         NEW s \in ScopeIds
  PROVE  /\ Counted(row) \in Nat /\ CountedBefore(a) \in Nat
         /\ IF s \in Chain(row.scope)
            THEN Committed(s)' = Committed(s) - CountedBefore(a) + Counted(row)
            ELSE Committed(s)' = Committed(s)
<1> DEFINE R == ScopeAttempts(s)
           T == ScopeAttempts(s)'
           f == Counts(attempts, R)
           g == Counts(attempts', T)
<1>1. /\ attempts'[a] = row /\ HasAttempt(a)'
      /\ \A b \in Attempts \ {a} : attempts'[b] = attempts[b]
  BY RowsMove
<1>2. scopes' = scopes
  BY DEF Working, AttemptStep
<1>3. HasAttempt(a) => attempts[a].scope = row.scope
  BY DEF Working, Opening, Holding, Claiming, Doubting, Releasing, Settling, InState
<1>4. \A x : Chain(x) = ChainOf(scopes, x)
  BY ChainIsOfScopes
<1>5. R = {b \in Attempts : HasAttempt(b) /\ s \in ChainOf(scopes, attempts[b].scope)}
  BY <1>4 DEF ScopeAttempts
<1>6. T = {b \in Attempts : HasAttempt(b)' /\ s \in ChainOf(scopes, attempts'[b].scope)}
  <2>1. T = {b \in Attempts : HasAttempt(b)' /\ s \in Chain(attempts[b].scope)'}
    BY DEF ScopeAttempts
  <2>2. \A b \in Attempts : Chain(attempts[b].scope)' = ChainOf(scopes', attempts'[b].scope)
    BY DEF Chain, ChainOf, HasScope, HasUpper
  <2> QED
    BY <1>2, <2>1, <2>2
<1>7. /\ IsFiniteSet(R) /\ \A b \in R : f[b] \in Nat
      /\ Committed(s) = SumFunctionOnSet(f, R) /\ Committed(s) \in Nat
  BY CommittedIsNat
<1>8. /\ IsFiniteSet(T) /\ \A b \in T : g[b] \in Nat
      /\ Committed(s)' = SumFunctionOnSet(g, T)
  <2>1. T \subseteq Held'
    BY DEF ScopeAttempts, Held
  <2>2. IsFiniteSet(T)
    BY <2>1, FS_Subset DEF TreeInv
  <2>3. \A b \in Attempts : HasAttempt(b)' => attempts'[b] \in AttemptRows
    BY DEF TypeOK, HasAttempt
  <2>4. \A b \in T : g[b] \in Nat
    BY <1>6, <2>3, CountedIsNat DEF Counts
  <2>5. Committed(s)' = SumFunctionOnSet(g, T)
    BY DEF Committed, SumFunction, Counts
  <2> QED
    BY <2>2, <2>4, <2>5
<1>9. \A b \in R : f[b] = Counted(attempts[b])
  BY DEF Counts
<1>10. \A b \in T : g[b] = Counted(attempts'[b])
  BY DEF Counts
<1>11. \A b \in Attempts \ {a} : b \in R <=> b \in T
  BY <1>1, <1>5, <1>6 DEF HasAttempt
<1>12. \A b \in (R \cap T) \ {a} : f[b] = g[b]
  BY <1>1, <1>5, <1>9, <1>10
<1>13. Counted(row) \in Nat
  BY CountedIsNat
<1>14. CountedBefore(a) \in Nat
  BY RowsKnown, CountedIsNat DEF CountedBefore
<1>15. R \subseteq Attempts /\ T \subseteq Attempts
  BY <1>5, <1>6
<1> HIDE DEF R, T, f, g
<1>16. CASE s \notin Chain(row.scope)
  <2>1. a \notin R /\ a \notin T
    BY <1>1, <1>3, <1>4, <1>5, <1>6, <1>16
  <2>2. R = T
    BY <1>11, <1>15, <2>1
  <2>3. \A b \in R : f[b] = g[b]
    BY <1>12, <2>1, <2>2
  <2>4. SumFunctionOnSet(f, R) = SumFunctionOnSet(g, R)
    BY <1>7, <2>3, SumAgrees
  <2> QED
    BY <1>7, <1>8, <1>13, <1>14, <1>16, <2>2, <2>4
<1>17. CASE s \in Chain(row.scope) /\ HasAttempt(a)
  <2>1. a \in R /\ a \in T
    BY <1>1, <1>3, <1>4, <1>5, <1>6, <1>17
  <2>2. R = T
    BY <1>11, <1>15, <2>1
  <2>3. f[a] = CountedBefore(a) /\ g[a] = Counted(row)
    BY <1>1, <1>9, <1>10, <1>17, <2>1 DEF CountedBefore
  <2>4. \A b \in R \ {a} : f[b] = g[b]
    BY <1>12, <2>2
  <2>5. \A b \in R : g[b] \in Nat
    BY <1>8, <2>2
  <2>6. SumFunctionOnSet(g, R) = SumFunctionOnSet(f, R) - f[a] + g[a]
    BY <1>7, <2>1, <2>4, <2>5, SumReplaces
  <2> QED
    BY <1>7, <1>8, <1>13, <1>14, <1>17, <2>2, <2>3, <2>6
<1>18. CASE s \in Chain(row.scope) /\ ~HasAttempt(a)
  <2>1. a \notin R /\ a \in T
    BY <1>1, <1>4, <1>5, <1>6, <1>18
  <2>2. T = R \cup {a}
    BY <1>11, <1>15, <2>1
  <2>3. CountedBefore(a) = 0 /\ g[a] = Counted(row)
    BY <1>1, <1>10, <1>18, <2>1 DEF CountedBefore
  <2>4. \A b \in R : f[b] = g[b]
    BY <1>12, <2>1, <2>2
  <2>5. \A b \in R \cup {a} : g[b] \in Nat
    BY <1>8, <2>2
  <2>6. SumFunctionOnSet(g, R \cup {a}) = SumFunctionOnSet(f, R) + g[a]
    BY <1>7, <2>1, <2>4, <2>5, SumExtends
  <2>7. Committed(s)' = Committed(s) + Counted(row)
    BY <1>7, <1>8, <2>2, <2>3, <2>6
  <2>8. Committed(s) - 0 + Counted(row) = Committed(s) + Counted(row)
    BY <1>7, <1>13
  <2> QED
    BY <1>13, <1>14, <1>18, <2>3, <2>7, <2>8
<1> QED
  BY <1>16, <1>17, <1>18

\* Only evidence of a cost and a hold that was checked add to what is counted.
LEMMA CountedGrows ==
  ASSUME TypeOK, NEW a \in Attempts, NEW row \in AttemptRows, NEW e \in Entries, Working(a, row, e)
  PROVE  \/ Counted(row) <= CountedBefore(a)
         \/ InState(a, States) /\ row.state = "settled" /\ Counted(row) > CountedBefore(a)
         \/ /\ CountedBefore(a) = 0 /\ Counted(row) = row.reserved
            /\ Blocking(row.scope, row.reserved) = {}
<1>1. Counted(row) \in Nat /\ CountedBefore(a) \in Nat
  BY RowsKnown, CountedIsNat DEF CountedBefore
<1>2. row.reserved \in Nat /\ None # 0
  BY ConstantsAssumption DEF AttemptRows
<1>3. CASE Opening(a, row, e)
  <2>1. Counted(row) = 0
    BY <1>3 DEF Opening, Counted
  <2> QED
    BY <1>1, <2>1
<1>4. CASE Holding(a, row, e)
  <2>1. HasAttempt(a) /\ attempts[a].actual = None /\ attempts[a].reserved = 0
    BY <1>4, InStateFacts DEF Holding, WellHeld, States
  <2>2. CountedBefore(a) = 0 /\ Counted(row) = row.reserved
    BY <1>2, <1>4, <2>1 DEF Holding, Counted, CountedBefore
  <2> QED
    BY <1>4, <2>2 DEF Holding
<1>5. CASE Claiming(a, row, e) \/ Doubting(a, row, e)
  <2>1. /\ HasAttempt(a)
        /\ row.reserved = attempts[a].reserved /\ row.actual = attempts[a].actual
    BY <1>5 DEF Claiming, Doubting, InState
  <2>2. Counted(row) = CountedBefore(a)
    BY <2>1 DEF Counted, CountedBefore
  <2> QED
    BY <1>1, <2>2
<1>6. CASE Releasing(a, row, e)
  <2>1. Counted(row) = 0
    BY <1>2, <1>6 DEF Releasing, Counted
  <2> QED
    BY <1>1, <2>1
<1>7. CASE Settling(a, row, e)
  <2>1. InState(a, States) /\ row.state = "settled"
    BY <1>7 DEF Settling, InState, States
  <2> QED
    BY <1>1, <2>1
<1> QED
  BY <1>3, <1>4, <1>5, <1>6, <1>7 DEF Working

LEMMA LimitIsNat ==
  ASSUME TypeOK, NEW s \in ScopeIds, HasScope(s), scopes[s].limit # Unlimited
  PROVE  scopes[s].limit \in Nat
<1>1. scopes[s] \in ScopeRows
  BY DEF TypeOK, HasScope
<1>2. scopes[s].limit \in Limits
  BY <1>1 DEF ScopeRows
<1> QED
  BY <1>2, ConstantsAssumption

\* A budget is exceeded only when the operator lowers its limit or when evidence raises
\* a charge above what was counted for it, and no send is claimed below such a budget:
\* BEGIN IMMEDIATE makes the check of _require_budget and the hold one step.
THEOREM BudgetsAreKept == Spec => BreachedOnlyByEvidence
<1> DEFINE Kept == \A s \in ScopeIds : ~Over(s) /\ Over(s)' =>
                      \/ scopes'[s] # scopes[s]
                      \/ \E a \in Attempts :
                           InState(a, States) /\ attempts'[a].state = "settled"
                           /\ Counted(attempts'[a]) > Counted(attempts[a])
           Gated == \A a \in Attempts :
                      InState(a, {"reserved"}) /\ attempts'[a].state = "dispatched" =>
                        \A s \in Chain(attempts[a].scope) : ~Over(s)
<1>1. ASSUME TypeOK, TreeInv, Next PROVE Kept /\ Gated
  <2>1. TypeOK' /\ TreeInv' /\ Shaped
    BY <1>1, NextShaped, TreeGrows
  <2>2. ASSUME NEW e \in Entries, Quiet(e) PROVE Kept /\ Gated
    <3>1. \A s \in ScopeIds : Committed(s)' = Committed(s)
      BY <1>1, <2>1, <2>2, CommittedStays
    <3>2. Kept
      BY <3>1 DEF Over, HasScope
    <3>3. Gated
      BY <2>2 DEF Quiet, InState
    <3> QED
      BY <3>2, <3>3
  <2>3. ASSUME NEW a \in Attempts, NEW row \in AttemptRows, NEW e \in Entries, Working(a, row, e)
        PROVE  Kept /\ Gated
    <3>1. /\ attempts'[a] = row
          /\ \A b \in Attempts \ {a} : attempts'[b] = attempts[b]
      BY <1>1, <2>3, RowsMove
    <3>2. scopes' = scopes
      BY <2>3 DEF Working, AttemptStep
    <3>3. ASSUME NEW s \in ScopeIds, ~Over(s), Over(s)'
          PROVE  InState(a, States) /\ row.state = "settled" /\ Counted(row) > CountedBefore(a)
      <4>1. HasScope(s) /\ scopes[s].limit # Unlimited /\ Committed(s)' > scopes[s].limit
        BY <3>2, <3>3 DEF Over, HasScope
      <4>2. scopes[s].limit \in Nat /\ Committed(s) \in Nat
        BY <1>1, <4>1, LimitIsNat, CommittedIsNat
      <4>3. Committed(s) <= scopes[s].limit
        BY <3>3, <4>1, <4>2 DEF Over
      <4>4. /\ Counted(row) \in Nat /\ CountedBefore(a) \in Nat
            /\ s \in Chain(row.scope)
            /\ Committed(s)' = Committed(s) - CountedBefore(a) + Counted(row)
        <5>1. /\ Counted(row) \in Nat /\ CountedBefore(a) \in Nat
              /\ IF s \in Chain(row.scope)
                 THEN Committed(s)' = Committed(s) - CountedBefore(a) + Counted(row)
                 ELSE Committed(s)' = Committed(s)
          BY <1>1, <2>1, <2>3, CommittedMoves
        <5> QED
          BY <4>1, <4>2, <4>3, <5>1
      <4>5. ~(Counted(row) <= CountedBefore(a))
        BY <4>1, <4>2, <4>3, <4>4
      <4>6. ASSUME CountedBefore(a) = 0, Counted(row) = row.reserved,
                   Blocking(row.scope, row.reserved) = {}
            PROVE  FALSE
        <5>1. ~(Committed(s) + row.reserved > scopes[s].limit)
          BY <4>1, <4>4, <4>6 DEF Blocking
        <5> QED
          BY <4>1, <4>2, <4>4, <4>6, <5>1
      <4> QED
        BY <1>1, <2>3, <4>5, <4>6, CountedGrows
    <3>4. Kept
      <4>1. InState(a, States) => CountedBefore(a) = Counted(attempts[a])
        BY DEF InState, CountedBefore
      <4> QED
        BY <3>1, <3>3, <4>1
    <3>5. Gated
      <4> SUFFICES ASSUME NEW b \in Attempts, InState(b, {"reserved"}),
                          attempts'[b].state = "dispatched",
                          NEW s \in Chain(attempts[b].scope), Over(s)
                   PROVE  FALSE
        OBVIOUS
      <4>1. b = a
        BY <3>1 DEF InState
      <4>2. Claiming(a, row, e)
        BY <2>3, <3>1, <4>1 DEF Working, Opening, Holding, Doubting, Releasing, Settling, InState
      <4>3. attempts[a].scope \in ScopeIds
        BY <1>1, <4>1, InStateFacts DEF States
      <4>4. s \in ScopeIds
        BY <1>1, <4>1, <4>3, ChainIsOfScopes, ChainOfInside DEF TreeInv
      <4>5. /\ scopes[s].limit # Unlimited /\ Committed(s) > scopes[s].limit
            /\ Committed(s) \in Nat
        BY <1>1, CommittedIsNat DEF Over
      <4>6. ~(Committed(s) + 0 > scopes[s].limit)
        BY <4>1, <4>2, <4>4, <4>5 DEF Claiming, Blocking
      <4> QED
        BY <4>5, <4>6
    <3> QED
      BY <3>4, <3>5
  <2> HIDE DEF Kept, Gated
  <2> QED
    BY <2>1, <2>2, <2>3 DEF Shaped
<1>2. TypeOK /\ TreeInv /\ [Next]_ledger => [Kept /\ Gated]_ledger
  BY <1>1
<1> QED
  BY <1>2, TreeHolds, PTL DEF Spec, BreachedOnlyByEvidence
-----------------------------------------------------------------------------
(***************************************************************************)
(* The ceiling of a quotation covers every usage within its token limits,  *)
(* for all rates, token limits and usages.                                 *)
(***************************************************************************)
\* Rates and tokens are natural numbers.
LEMMA NumbersAreNat ==
  /\ \A card \in Cards : /\ card.input \in Nat /\ card.cached \in Nat
                         /\ card.output \in Nat /\ card.request \in Nat
  /\ \A usage \in Usages : /\ usage.input \in Nat /\ usage.cached \in Nat
                           /\ usage.output \in Nat /\ usage.cached <= usage.input
  /\ \A limits \in TokenLimits : limits.input \in Nat /\ limits.output \in Nat
<1>1. \A n \in Rates \cup Tokens : n \in Nat
  BY PriceAssumption
<1>2. \A card \in Cards : /\ card.input \in Rates /\ card.cached \in Rates
                         /\ card.output \in Rates /\ card.request \in Rates
  BY DEF Cards
<1>3. \A usage \in Usages : /\ usage.input \in Tokens /\ usage.cached \in Tokens
                           /\ usage.output \in Tokens /\ usage.cached <= usage.input
  BY DEF Usages
<1>4. \A limits \in TokenLimits : limits.input \in Tokens /\ limits.output \in Tokens
  BY DEF TokenLimits
<1> QED
  BY <1>1, <1>2, <1>3, <1>4

\* Multiplication by a rate is monotone.
LEMMA ProductsGrow ==
  ASSUME NEW x \in Nat, NEW y \in Nat, NEW k \in Nat, x <= y
  PROVE  x * k <= y * k
<1>1. PICK d \in Nat : y = x + d
  <2>1. y - x \in Nat /\ y = x + (y - x)
    OBVIOUS
  <2> QED
    BY <2>1
<1>2. y * k = x * k + d * k
  BY <1>1
<1>3. d * k \in Nat /\ x * k \in Nat
  OBVIOUS
<1> QED
  BY <1>2, <1>3

\* Rounding up is monotone.
LEMMA RoundingGrows ==
  ASSUME NEW m \in Nat, NEW n \in Nat, m <= n
  PROVE  RoundedUp(m) <= RoundedUp(n)
BY PriceAssumption DEF RoundedUp

\* Rounding up never falls short.
LEMMA RoundingCovers ==
  ASSUME NEW n \in Nat
  PROVE  RoundedUp(n) \in Nat /\ Unit * RoundedUp(n) >= n
<1> DEFINE m == n + Unit - 1
<1>1. m \in Nat /\ Unit \in Nat /\ Unit > 0
  BY PriceAssumption
<1>2. m \div Unit \in Nat /\ m = Unit * (m \div Unit) + (m % Unit) /\ m % Unit < Unit
  <2> HIDE DEF m
  <2> QED
    BY <1>1
<1>3. m % Unit \in Nat /\ Unit * (m \div Unit) \in Nat
  <2> HIDE DEF m
  <2> QED
    BY <1>1, <1>2
<1>4. RoundedUp(n) = m \div Unit
  BY DEF RoundedUp
<1>5. Unit * (m \div Unit) >= n
  <2>1. m = n + Unit - 1
    OBVIOUS
  <2> HIDE DEF m
  <2> QED
    BY <1>1, <1>2, <1>3, <2>1
<1> QED
  BY <1>2, <1>4, <1>5

\* All input at the dearer of the two input rates costs no less than a mixture.
LEMMA MixtureBounded ==
  ASSUME NEW fresh \in Nat, NEW hit \in Nat, NEW bound \in Nat, fresh + hit <= bound,
         NEW low \in Nat, NEW high \in Nat, NEW rate \in Nat, low <= rate, high <= rate
  PROVE  fresh * low + hit * high <= bound * rate
<1>1. fresh * low <= fresh * rate
  <2>1. low * fresh <= rate * fresh
    BY ProductsGrow
  <2>2. low * fresh = fresh * low /\ rate * fresh = fresh * rate
    OBVIOUS
  <2> QED
    BY <2>1, <2>2
<1>2. hit * high <= hit * rate
  <2>1. high * hit <= rate * hit
    BY ProductsGrow
  <2>2. high * hit = hit * high /\ rate * hit = hit * rate
    OBVIOUS
  <2> QED
    BY <2>1, <2>2
<1>3. (fresh + hit) * rate <= bound * rate
  BY ProductsGrow
<1>4. (fresh + hit) * rate = fresh * rate + hit * rate
  OBVIOUS
<1>5. /\ fresh * low \in Nat /\ hit * high \in Nat
      /\ fresh * rate \in Nat /\ hit * rate \in Nat /\ bound * rate \in Nat
  OBVIOUS
<1> QED
  BY <1>1, <1>2, <1>3, <1>4, <1>5

\* Before rounding, the usage that the ceiling prices is the dearest of all.
LEMMA DearestIsDearest ==
  ASSUME NEW card \in Cards, NEW limits \in TokenLimits, NEW usage \in Usages,
         Within(usage, limits)
  PROVE  /\ Weighted(card, usage) \in Nat
         /\ Weighted(card, Dearest(card, limits)) \in Nat
         /\ Weighted(card, usage) <= Weighted(card, Dearest(card, limits))
<1> DEFINE fresh == usage.input - usage.cached
           rate  == IF card.cached > card.input THEN card.cached ELSE card.input
<1>1. /\ fresh \in Nat /\ usage.cached \in Nat /\ limits.input \in Nat
      /\ fresh + usage.cached <= limits.input
  BY NumbersAreNat DEF Within
<1>2. /\ card.input \in Nat /\ card.cached \in Nat /\ card.output \in Nat /\ rate \in Nat
      /\ card.input <= rate /\ card.cached <= rate
  BY NumbersAreNat
<1>3. /\ usage.output \in Nat /\ limits.output \in Nat /\ usage.output <= limits.output
  BY NumbersAreNat DEF Within
<1>4. Weighted(card, Dearest(card, limits))
        = limits.input * rate + limits.output * card.output
  <2>1. CASE card.cached > card.input
    BY <1>1, <1>2, <1>3, <2>1 DEF Weighted, Dearest
  <2>2. CASE ~(card.cached > card.input)
    BY <1>1, <1>2, <1>3, <2>2 DEF Weighted, Dearest
  <2> QED
    BY <2>1, <2>2
<1>5. Weighted(card, usage)
        = fresh * card.input + usage.cached * card.cached + usage.output * card.output
  BY DEF Weighted
<1> HIDE DEF fresh, rate
<1>6. fresh * card.input + usage.cached * card.cached <= limits.input * rate
  BY <1>1, <1>2, MixtureBounded
<1>7. usage.output * card.output <= limits.output * card.output
  BY <1>2, <1>3, ProductsGrow
<1>8. /\ fresh * card.input \in Nat /\ usage.cached * card.cached \in Nat
      /\ usage.output * card.output \in Nat /\ limits.input * rate \in Nat
      /\ limits.output * card.output \in Nat
  BY <1>1, <1>2, <1>3
<1> QED
  BY <1>4, <1>5, <1>6, <1>7, <1>8

\* No usage within the limits costs more than the ceiling of the card.
LEMMA ReservationCoversUsage ==
  ASSUME NEW card \in Cards, NEW limits \in TokenLimits, NEW usage \in Usages
  PROVE  Covers(card, limits, usage)
<1> SUFFICES ASSUME Within(usage, limits)
             PROVE  Cost(card, usage) <= Ceiling(card, limits)
  BY DEF Covers
<1> DEFINE paid == Weighted(card, usage)
           held == Weighted(card, Dearest(card, limits))
<1>1. paid \in Nat /\ held \in Nat /\ paid <= held
  BY DearestIsDearest
<1>2. RoundedUp(paid) <= RoundedUp(held)
  <2> HIDE DEF paid, held
  <2> QED
    BY <1>1, RoundingGrows
<1>3. RoundedUp(paid) \in Int /\ RoundedUp(held) \in Int
  <2> HIDE DEF paid, held
  <2> QED
    BY <1>1, PriceAssumption DEF RoundedUp
<1>4. card.request \in Nat
  BY PriceAssumption DEF Cards
<1>5. Cost(card, usage) = card.request + RoundedUp(paid)
  BY DEF Cost
<1>6. Ceiling(card, limits) = card.request + RoundedUp(held)
  BY DEF Ceiling, Cost
<1> HIDE DEF paid, held
<1> QED
  BY <1>2, <1>3, <1>4, <1>5, <1>6

LEMMA PriceIsCovered ==
  ASSUME NEW card \in Cards, NEW usage \in Usages
  PROVE  Unit * (Cost(card, usage) - card.request) >= Weighted(card, usage)
<1>1. Weighted(card, usage) \in Nat
  <2>1. /\ usage.input - usage.cached \in Nat /\ usage.cached \in Nat /\ usage.output \in Nat
        /\ card.input \in Nat /\ card.cached \in Nat /\ card.output \in Nat
    BY NumbersAreNat
  <2>2. /\ (usage.input - usage.cached) * card.input \in Nat
        /\ usage.cached * card.cached \in Nat /\ usage.output * card.output \in Nat
    BY <2>1
  <2> QED
    BY <2>2 DEF Weighted
<1> DEFINE exact == Weighted(card, usage)
<1>2. RoundedUp(exact) \in Nat /\ Unit * RoundedUp(exact) >= exact
  <2>1. exact \in Nat
    BY <1>1
  <2> HIDE DEF exact
  <2> QED
    BY <2>1, RoundingCovers
<1>3. card.request \in Nat
  BY PriceAssumption DEF Cards
<1>4. Cost(card, usage) - card.request = RoundedUp(exact)
  <2>1. Cost(card, usage) = card.request + RoundedUp(exact)
    BY DEF Cost
  <2> HIDE DEF exact
  <2> QED
    BY <1>2, <1>3, <2>1
<1> QED
  BY <1>2, <1>4

\* For every price card and every token limits, no usage within the limits costs more
\* than the ceiling that PriceCard.ceiling computes and CostLedger.reserve holds, and no
\* charge falls short of the exact price.
THEOREM CeilingsCoverUsage == PriceSpec => []CeilingCoversUsage
<1> DEFINE Quotations == {Quoted(card, limits) : card \in Cards, limits \in TokenLimits}
           Prices == {Priced(card, limits, usage) :
                        card \in Cards, limits \in TokenLimits, usage \in Usages}
           Known == request \in Quotations \cup Prices
<1>1. QuoteInit => Known
  BY DEF QuoteInit
<1>2. Known /\ [Price]_request => Known'
  <2> SUFFICES ASSUME Known, Price PROVE request' \in Prices
    OBVIOUS
  <2>1. request \in Quotations
    BY DEF Price, Priced
  <2>2. PICK card \in Cards, limits \in TokenLimits : request = Quoted(card, limits)
    BY <2>1
  <2>3. request.card = card /\ request.limits = limits
    BY <2>2 DEF Quoted
  <2> QED
    BY <2>3 DEF Price
<1>3. Known => CeilingCoversUsage
  <2> SUFFICES ASSUME Known, request.stage = "priced" PROVE CeilingCoversUsage
    BY DEF CeilingCoversUsage
  <2>1. request \in Prices
    BY DEF Quoted
  <2>2. PICK card \in Cards, limits \in TokenLimits, usage \in Usages :
          request = Priced(card, limits, usage)
    BY <2>1
  <2>3. request.card = card /\ request.limits = limits /\ request.usage = usage
    BY <2>2 DEF Priced
  <2> QED
    BY <2>3, ReservationCoversUsage, PriceIsCovered DEF CeilingCoversUsage
<1> HIDE DEF Known
<1> QED
  BY <1>1, <1>2, <1>3, PTL DEF PriceSpec
-----------------------------------------------------------------------------
(***************************************************************************)
(* The calls that pay: a request that left is held or paid, and the calls  *)
(* are metered.                                                            *)
(***************************************************************************)

\* How a step may move one attempt, in terms of the states of its row.
LedgerMoves == Shaped \/ UNCHANGED ledger

LEMMA OperateMoves ==
  ASSUME TypeOK, Operate
  PROVE  TypeOK' /\ LedgerMoves
<1>1. CASE AddScopes
  BY <1>1, ScopingShaped DEF Scoping, LedgerMoves
<1>2. ASSUME NEW s \in ScopeIds, NEW limit \in Limits \cup {Unlimited},
             NEW event \in OperatorEvents, SetLimit(s, limit, event)
      PROVE  TypeOK' /\ LedgerMoves
  <2>1. SetLimits
    BY <1>2 DEF SetLimits, OperatorEvents
  <2> QED
    BY <2>1, ScopingShaped DEF Scoping, LedgerMoves
<1>3. CASE Cancels
  BY <1>3, EndingsShaped DEF LedgerMoves
<1>4. ASSUME NEW a \in Attempts, NEW charge \in Charges, NEW reference \in References,
             NEW event \in OperatorEvents, Settle(a, charge, "billing_confirmed", reference, event)
      PROVE  TypeOK' /\ LedgerMoves
  <2>1. Settles
    BY <1>4 DEF Settles, Sources, OperatorEvents
  <2> QED
    BY <2>1, EndingsShaped DEF LedgerMoves
<1> QED
  BY <1>1, <1>2, <1>3, <1>4 DEF Operate

LEMMA CallsMove ==
  ASSUME TypeOK, CallsEstimate \/ CallsReserve \/ CallsDispatch \/ CallsSettle \/ CleanUps
  PROVE  TypeOK' /\ LedgerMoves
<1>1. CASE CallsEstimate
  <2>1. Estimates
    BY <1>1 DEF CallsEstimate, CallEstimate, Estimates
  <2> QED
    BY <2>1, EndingsShaped DEF LedgerMoves
<1>2. CASE CallsReserve
  <2>1. Reserves
    BY <1>2 DEF CallsReserve, CallReserve, Reserves
  <2> QED
    BY <2>1, ReservesShaped DEF LedgerMoves
<1>3. CASE CallsDispatch
  <2>1. PICK a \in Attempts : \/ BeginDispatch(a, attempts[a].digest)
                              \/ DenyDispatch(a, attempts[a].digest)
    BY <1>3 DEF CallsDispatch, CallDispatch
  <2>2. HasAttempt(a)
    BY <2>1 DEF BeginDispatch, DenyDispatch, InState
  <2>3. attempts[a].digest \in Digests
    BY <2>2, RowsKnown DEF AttemptRows
  <2>4. Dispatches
    BY <2>1, <2>3 DEF Dispatches
  <2> QED
    BY <2>4, DispatchesShaped DEF LedgerMoves
<1>4. CASE CallsSettle
  <2>1. Settles
    BY <1>4, PaidCallsAssumption DEF CallsSettle, CallSettle, Settles, Sources
  <2> QED
    BY <2>1, EndingsShaped DEF LedgerMoves
<1>5. CASE CleanUps
  <2>1. Cancels \/ Uncertainties
    BY <1>5 DEF CleanUps, CleanUp, Cancels, Uncertainties
  <2> QED
    BY <2>1, EndingsShaped DEF LedgerMoves
<1> QED
  BY <1>1, <1>2, <1>3, <1>4, <1>5

\* Every step of the calls, of the operator and of the process is a step of the ledger
\* or leaves it alone.
LEMMA PaidMoves ==
  ASSUME TypeOK, [PaidNext]_vars
  PROVE  TypeOK' /\ LedgerMoves
<1>1. CASE Exchanges \/ Stops \/ Crash \/ UNCHANGED vars
  <2>1. UNCHANGED ledger
    BY <1>1 DEF Exchanges, Send, Deliver, Stops, Stop, Look, AlreadyClean, Abandon, Crash, vars
  <2>2. TypeOK'
    BY <2>1 DEF TypeOK, ledger, tables, HasScope, HasAttempt, InState
  <2> QED
    BY <2>1, <2>2 DEF LedgerMoves
<1> QED
  BY <1>1, OperateMoves, CallsMove DEF PaidNext

\* The send claim of an attempt is never undone.
LEMMA SentStaysSent ==
  ASSUME TypeOK, LedgerMoves, NEW b \in Attempts, Sent(b)
  PROVE  Sent(b)'
<1>1. CASE UNCHANGED ledger
  BY <1>1 DEF ledger, tables, Sent, InState, HasAttempt
<1>2. ASSUME NEW e \in Entries, Quiet(e) PROVE Sent(b)'
  BY <1>2 DEF Quiet, Sent, InState, HasAttempt
<1>3. ASSUME NEW a \in Attempts, NEW row \in AttemptRows, NEW e \in Entries, Working(a, row, e)
      PROVE  Sent(b)'
  <2>1. /\ attempts'[a] = row /\ HasAttempt(a)'
        /\ \A c \in Attempts \ {a} : attempts'[c] = attempts[c]
        /\ Sent(a) => row.state \in {"dispatched", "uncertain", "settled"}
    BY <1>3, RowsMove
  <2> QED
    BY <2>1 DEF Sent, InState, HasAttempt
<1> QED
  BY <1>1, <1>2, <1>3 DEF LedgerMoves, Shaped
-----------------------------------------------------------------------------
(***************************************************************************)
(* The calls.                                                              *)
(***************************************************************************)
Unsent == {"start", "estimated", "reserved", "claimed"}

\* What relates the place of a call to the state of its attempt.
Following ==
  \A b \in Attempts :
    /\ sent[b] \in {0, 1}
    /\ pc[b] \in Unsent => sent[b] = 0
    /\ pc[b] = "claimed" => Sent(b)
    /\ sent[b] > 0 => Sent(b)

CallsInv == CallsTypeOK /\ Following

\* Steps by which no request leaves.
LEMMA FollowingKept ==
  ASSUME CallsInv, TypeOK', LedgerMoves, sent' = sent,
         pc' \in [Attempts -> Places], known' \in [Attempts -> {"nothing", "estimated", "dispatched", "settled"}],
         failed' \in BOOLEAN,
         \A b \in Attempts : pc'[b] \in Unsent => pc[b] \in Unsent,
         \A b \in Attempts : pc'[b] = "claimed" => pc[b] = "claimed" \/ Sent(b)'
  PROVE  CallsInv'
<1>1. \A b \in Attempts : Sent(b) => Sent(b)'
  BY SentStaysSent DEF CallsInv, CallsTypeOK
<1>2. Following'
  BY <1>1 DEF CallsInv, Following
<1>3. CallsTypeOK'
  BY DEF CallsInv, CallsTypeOK
<1> QED
  BY <1>2, <1>3 DEF CallsInv

LEMMA CallsInvKept ==
  ASSUME CallsInv, [PaidNext]_vars
  PROVE  CallsInv'
<1>1. TypeOK' /\ LedgerMoves /\ \A b \in Attempts : Sent(b) => Sent(b)'
  BY PaidMoves, SentStaysSent DEF CallsInv, CallsTypeOK
<1>2. ASSUME NEW a \in Attempts, NEW place \in Places \ Unsent, Goto(a, place)
      PROVE  /\ pc' \in [Attempts -> Places]
             /\ \A b \in Attempts : pc'[b] \in Unsent => pc[b] \in Unsent
             /\ \A b \in Attempts : pc'[b] = "claimed" => pc[b] = "claimed" \/ Sent(b)'
  BY <1>2 DEF CallsInv, CallsTypeOK, Goto, Unsent
<1>3. ASSUME NEW a \in Attempts, NEW place \in Places, Goto(a, place), pc[a] \in Unsent,
             place = "claimed" => Sent(a)'
      PROVE  /\ pc' \in [Attempts -> Places]
             /\ \A b \in Attempts : pc'[b] \in Unsent => pc[b] \in Unsent
             /\ \A b \in Attempts : pc'[b] = "claimed" => pc[b] = "claimed" \/ Sent(b)'
  BY <1>3 DEF CallsInv, CallsTypeOK, Goto
<1> DEFINE Known == [Attempts -> {"nothing", "estimated", "dispatched", "settled"}]
<1>4. \A a \in Attempts : \A news \in {"nothing", "estimated", "dispatched", "settled"} :
        [known EXCEPT ![a] = news] \in Known
  BY DEF CallsInv, CallsTypeOK
<1>5. known \in Known /\ failed \in BOOLEAN /\ pc \in [Attempts -> Places]
  BY DEF CallsInv, CallsTypeOK
<1>6. ASSUME NEW a \in Attempts, NEW place \in Places,
             NEW news \in {"nothing", "estimated", "dispatched", "settled"},
             Acknowledged(a, place, news),
             place \in Unsent => pc[a] \in Unsent, place = "claimed" => Sent(a)'
      PROVE  CallsInv'
  <2>1. known' \in Known /\ failed' \in BOOLEAN /\ sent' = sent
    BY <1>4, <1>5, <1>6 DEF Acknowledged
  <2>2. /\ pc' \in [Attempts -> Places]
        /\ \A b \in Attempts : pc'[b] \in Unsent => pc[b] \in Unsent
        /\ \A b \in Attempts : pc'[b] = "claimed" => pc[b] = "claimed" \/ Sent(b)'
    <3>1. CASE Goto(a, "cleanup")
      BY <3>1, <1>2 DEF Places, Active, Stopping, Unsent
    <3>2. CASE Goto(a, place)
      BY <3>2, <1>2, <1>3, <1>6
    <3> QED
      BY <3>1, <3>2, <1>6 DEF Acknowledged
  <2> QED
    BY <1>1, <2>1, <2>2, FollowingKept
<1>7. ASSUME NEW a \in Attempts, NEW place \in Places \ Unsent, Goto(a, place),
             known' = known, sent' = sent, failed' \in BOOLEAN
      PROVE  CallsInv'
  BY <1>1, <1>2, <1>5, <1>7, FollowingKept
<1>8. ASSUME known' = known, sent' = sent, failed' = failed, pc' = pc
      PROVE  CallsInv'
  BY <1>1, <1>5, <1>8, FollowingKept
<1>9. /\ {"cleanup", "ended", "abandoned", "delivered", "sent", "cancelling", "marking",
          "settled", "overrun"} \subseteq Places \ Unsent
      /\ Unsent \subseteq Places
  BY DEF Places, Active, Stopping, Unsent
<1>10. CASE Operate \/ UNCHANGED vars
  BY <1>8, <1>10 DEF Operate, calls, vars
<1>11. CASE CallsEstimate
  <2>1. PICK a \in Attempts, s \in Scopes, digest \in Digests, quote \in Quotes :
          CallEstimate(a, s, digest, quote)
    BY <1>11 DEF CallsEstimate
  <2>2. pc[a] \in Unsent /\ Acknowledged(a, "estimated", "estimated")
    BY <2>1 DEF CallEstimate, Unsent
  <2> QED
    BY <1>6, <1>9, <2>2 DEF Unsent
<1>12. CASE CallsReserve
  <2>1. PICK a \in Attempts : CallReserve(a)
    BY <1>12 DEF CallsReserve
  <2>2. pc[a] \in Unsent /\ known[a] \in {"nothing", "estimated", "dispatched", "settled"}
    BY <1>5, <2>1 DEF CallReserve, Unsent
  <2>3. CASE Acknowledged(a, "reserved", known[a])
    BY <1>6, <1>9, <2>2, <2>3 DEF Unsent
  <2>4. CASE Goto(a, "cleanup") /\ UNCHANGED <<known, sent, failed>>
    BY <1>5, <1>7, <1>9, <2>4
  <2> QED
    BY <2>1, <2>3, <2>4 DEF CallReserve
<1>13. CASE CallsDispatch
  <2>1. PICK a \in Attempts : CallDispatch(a)
    BY <1>13 DEF CallsDispatch
  <2>2. pc[a] \in Unsent
    BY <2>1 DEF CallDispatch, Unsent
  <2>3. CASE BeginDispatch(a, attempts[a].digest) /\ Acknowledged(a, "claimed", "dispatched")
    <3>1. HasAttempt(a) /\ attempts[a] \in AttemptRows
      BY <2>3, RowsKnown DEF BeginDispatch, InState, CallsInv, CallsTypeOK
    <3>2. attempts' = [attempts EXCEPT ![a] =
                         [attempts[a] EXCEPT !.state = "dispatched", !.reserved = attempts[a].reserved]]
      BY <2>3 DEF BeginDispatch, Advance
    <3>3. attempts'[a].state = "dispatched" /\ attempts'[a] \in AttemptRows
      BY <3>1, <3>2 DEF CallsInv, CallsTypeOK, TypeOK, AttemptRows, States
    <3>4. Sent(a)'
      BY <3>3, NoneAssumption DEF Sent, InState, HasAttempt
    <3> QED
      BY <1>6, <1>9, <2>2, <2>3, <3>4 DEF Unsent
  <2>4. CASE Goto(a, "cleanup") /\ UNCHANGED <<known, sent, failed>>
    BY <1>5, <1>7, <1>9, <2>4
  <2> QED
    BY <2>1, <2>3, <2>4 DEF CallDispatch
<1>14. CASE CallsSettle
  <2>1. PICK a \in Attempts, charge \in Charges, reference \in References :
          CallSettle(a, charge, reference)
    BY <1>14 DEF CallsSettle
  <2>2. Acknowledged(a, "settled", "settled") \/ Acknowledged(a, "overrun", "settled")
    BY <2>1 DEF CallSettle
  <2> QED
    BY <1>6, <1>9, <2>2 DEF Unsent
<1>15. CASE CleanUps
  <2>1. PICK a \in Attempts : Goto(a, "ended") /\ UNCHANGED <<known, sent, failed>>
    BY <1>15 DEF CleanUps, CleanUp
  <2> QED
    BY <1>5, <1>7, <1>9, <2>1
<1>16. CASE Stops
  <2>1. PICK a \in Attempts : Stop(a) \/ Look(a) \/ AlreadyClean(a) \/ Abandon(a)
    BY <1>16 DEF Stops
  <2>2. \E place \in {"cleanup", "ended", "abandoned", "cancelling", "marking"} : Goto(a, place)
    BY <2>1 DEF Stop, Look, AlreadyClean, Abandon, LookAtFlags, LookAtLedger
  <2>3. known' = known /\ sent' = sent /\ failed' \in BOOLEAN
    BY <1>5, <2>1 DEF Stop, Look, AlreadyClean, Abandon
  <2> QED
    BY <1>7, <1>9, <2>2, <2>3
<1>17. CASE Crash
  <2>1. pc' \in [Attempts -> Places] /\ known' = known /\ sent' = sent /\ failed' \in BOOLEAN
    BY <1>5, <1>17 DEF Crash, Places
  <2>2. \A b \in Attempts : pc'[b] \in {pc[b], "crashed"}
    BY <1>17 DEF Crash
  <2> QED
    BY <1>1, <1>5, <2>1, <2>2, FollowingKept DEF Unsent
<1>18. CASE Exchanges
  <2>1. PICK a \in Attempts : Send(a) \/ Deliver(a)
    BY <1>18 DEF Exchanges
  <2>2. CASE Deliver(a)
    BY <1>5, <1>7, <1>9, <2>2 DEF Deliver
  <2>3. CASE Send(a)
    <3>1. /\ pc[a] = "claimed" /\ pc' = [pc EXCEPT ![a] = "sent"]
          /\ sent' = [sent EXCEPT ![a] = sent[a] + 1] /\ known' = known /\ failed' = failed
      BY <2>3 DEF Send, Goto
    <3>2. sent[a] = 0 /\ Sent(a) /\ sent \in [Attempts -> Nat]
      BY <3>1 DEF CallsInv, Following, Unsent, CallsTypeOK
    <3>3. sent' \in [Attempts -> Nat] /\ sent'[a] = 1 /\ pc'[a] = "sent" /\ pc' \in [Attempts -> Places]
      BY <1>5, <1>9, <3>1, <3>2
    <3>4. \A b \in Attempts \ {a} : sent'[b] = sent[b] /\ pc'[b] = pc[b]
      BY <1>5, <3>1, <3>2
    <3>5. Following'
      BY <1>1, <3>2, <3>3, <3>4 DEF CallsInv, Following, Unsent
    <3> QED
      BY <1>1, <1>5, <3>1, <3>3, <3>5 DEF CallsInv, CallsTypeOK
  <2> QED
    BY <2>1, <2>2, <2>3
<1> QED
  BY <1>10, <1>11, <1>12, <1>13, <1>14, <1>15, <1>16, <1>17, <1>18 DEF PaidNext

LEMMA CallsInvHolds == PaidSpec => []CallsInv
<1>1. PaidInit => CallsInv
  <2> SUFFICES ASSUME PaidInit PROVE CallsInv
    OBVIOUS
  <2>1. TypeOK
    BY InitTypeOK DEF PaidInit
  <2>2. pc = [a \in Attempts |-> "start"] /\ sent = [a \in Attempts |-> 0]
          /\ known = [a \in Attempts |-> "nothing"] /\ failed = FALSE
    BY DEF PaidInit
  <2>3. pc \in [Attempts -> Places] /\ sent \in [Attempts -> Nat]
    BY <2>2 DEF Places, Active
  <2>4. CallsTypeOK
    BY <2>1, <2>2, <2>3 DEF CallsTypeOK
  <2>5. Following
    BY <2>2 DEF Following
  <2> QED
    BY <2>4, <2>5 DEF CallsInv
<1>2. CallsInv /\ [PaidNext]_vars => CallsInv'
  BY CallsInvKept
<1> QED
  BY <1>1, <1>2, PTL DEF PaidSpec

\* The calls and the ledger keep their types, a hold is always the quoted ceiling.
THEOREM PaidCallsTypeCorrect == PaidSpec => []CallsTypeOK
BY CallsInvHolds, PTL DEF CallsInv

\* Whatever is lost, raised, cancelled or killed, a request that has left the host is
\* settled or its whole ceiling is still held.
THEOREM SentStaysHeldOrPaid == PaidSpec => []SentIsHeldOrPaid
<1>1. ASSUME CallsInv PROVE SentIsHeldOrPaid
  <2> SUFFICES ASSUME NEW a \in Attempts, sent[a] > 0
               PROVE  \/ InState(a, {"settled"})
                      \/ /\ InState(a, {"dispatched", "uncertain"})
                         /\ attempts[a].reserved = attempts[a].quote.ceiling
    BY DEF SentIsHeldOrPaid
  <2>1. Sent(a)
    BY <1>1 DEF CallsInv, Following
  <2>2. HasAttempt(a) /\ WellHeld(attempts[a])
    BY <1>1, <2>1, RowsKnown DEF CallsInv, CallsTypeOK, Sent, InState
  <2> QED
    BY <2>1, <2>2 DEF Sent, InState, WellHeld
<1> QED
  BY <1>1, CallsInvHolds, PTL
-----------------------------------------------------------------------------
(***************************************************************************)
(* Endings.                                                                *)
(***************************************************************************)
Unresolved == {"estimated", "reserved", "dispatched"}

\* What the steps of the ledger leave of the rows of other attempts.
LEMMA OtherRowsStay ==
  ASSUME TypeOK, NEW a \in Attempts, NEW b \in Attempts \ {a},
         \/ \E s \in Scopes, digest \in Digests, quote \in Quotes : Estimate(a, s, digest, quote)
         \/ Reserve(a) \/ DenyReserve(a)
         \/ \E digest \in Digests : BeginDispatch(a, digest) \/ DenyDispatch(a, digest)
         \/ Cancel(a) \/ MarkUncertain(a)
         \/ \E charge, source, reference, event : Settle(a, charge, source, reference, event)
  PROVE  attempts'[b] = attempts[b]
<1>1. attempts \in [Attempts -> AttemptRows \cup {None}] /\ b # a
  BY DEF TypeOK
<1>2. \/ attempts' = attempts
      \/ \E row : attempts' = [attempts EXCEPT ![a] = row]
  BY DEF Estimate, Reserve, DenyReserve, BeginDispatch, DenyDispatch, Cancel, Release,
         MarkUncertain, Settle, Advance, Deny, tables
<1> QED
  BY <1>1, <1>2

\* A cancel resolves an attempt, and so does a settlement.
LEMMA ReleaseResolves ==
  ASSUME TypeOK, NEW a \in Attempts, Cancel(a)
  PROVE  ~InState(a, Unresolved)'
<1>1. /\ attempts \in [Attempts -> AttemptRows \cup {None}]
      /\ attempts' = [attempts EXCEPT ![a] = [attempts[a] EXCEPT !.state = "cancelled",
                        !.reserved = 0, !.actual = 0, !.source = "not_sent"]]
  BY DEF TypeOK, Cancel, Release
<1>2. HasAttempt(a) /\ attempts[a] \in AttemptRows
  BY RowsKnown DEF Cancel, InState
<1>3. attempts'[a].state = "cancelled"
  BY <1>1, <1>2 DEF AttemptRows
<1> QED
  BY <1>3 DEF InState, Unresolved

LEMMA SettleResolves ==
  ASSUME TypeOK, NEW a \in Attempts,
         NEW charge, NEW source, NEW reference, NEW event,
         Settle(a, charge, source, reference, event)
  PROVE  ~InState(a, Unresolved)'
<1>1. /\ attempts \in [Attempts -> AttemptRows \cup {None}]
      /\ attempts' = [attempts EXCEPT ![a] = [attempts[a] EXCEPT !.state = "settled",
                        !.reserved = 0, !.actual = charge, !.source = source]]
  BY DEF TypeOK, Settle
<1>2. HasAttempt(a) /\ attempts[a] \in AttemptRows
  BY RowsKnown DEF Settle
<1>3. attempts'[a].state = "settled"
  BY <1>1, <1>2 DEF AttemptRows
<1> QED
  BY <1>3 DEF InState, Unresolved

\* An operator only ever resolves attempts.
LEMMA OperatorResolves ==
  ASSUME TypeOK, Operate, NEW b \in Attempts, ~InState(b, Unresolved)
  PROVE  ~InState(b, Unresolved)'
<1>1. CASE AddScopes \/ \E s \in ScopeIds, limit \in Limits \cup {Unlimited},
                          event \in OperatorEvents : SetLimit(s, limit, event)
  <2>1. attempts' = attempts
    BY <1>1 DEF AddScopes, AddScope, SetLimit
  <2> QED
    BY <2>1 DEF InState, HasAttempt
<1>2. CASE Cancels
  <2>1. PICK a \in Attempts : Cancel(a)
    BY <1>2 DEF Cancels
  <2>2. CASE a = b
    BY <2>1, <2>2, ReleaseResolves
  <2>3. CASE a # b
    BY <2>1, <2>3, OtherRowsStay DEF InState, HasAttempt
  <2> QED
    BY <2>2, <2>3
<1>3. CASE \E a \in Attempts, charge \in Charges, reference \in References,
              event \in OperatorEvents : Settle(a, charge, "billing_confirmed", reference, event)
  <2>1. PICK a \in Attempts, charge \in Charges, reference \in References,
             event \in OperatorEvents : Settle(a, charge, "billing_confirmed", reference, event)
    BY <1>3
  <2>2. CASE a = b
    BY <2>1, <2>2, SettleResolves
  <2>3. CASE a # b
    BY <2>1, <2>3, OtherRowsStay DEF InState, HasAttempt
  <2> QED
    BY <2>2, <2>3
<1> QED
  BY <1>1, <1>2, <1>3 DEF Operate

\* A call ends by its own last step: an ended call moves its attempt no more.
LEMMA EndingsResolve ==
  ASSUME CallsTypeOK, [PaidNext]_vars, NEW b \in Attempts \ Pilots,
         pc[b] = "ended" => ~InState(b, Unresolved), pc'[b] = "ended"
  PROVE  ~InState(b, Unresolved)'
<1> TypeOK /\ pc \in [Attempts -> Places]
  BY DEF CallsTypeOK
<1>1. ASSUME pc[b] = "ended", attempts'[b] = attempts[b]
      PROVE  ~InState(b, Unresolved)'
  BY <1>1 DEF InState, HasAttempt
<1>2. ASSUME NEW a \in Attempts, NEW place, Goto(a, place)
      PROVE  (a = b => place = "ended") /\ (a # b => pc[b] = "ended")
  BY <1>2 DEF Goto
<1>3. ASSUME NEW a \in Attempts, NEW place, NEW news, Acknowledged(a, place, news),
             place # "ended"
      PROVE  a # b /\ pc[b] = "ended"
  <2>1. Goto(a, place) \/ Goto(a, "cleanup")
    BY <1>3 DEF Acknowledged
  <2> QED
    BY <1>2, <1>3, <2>1
<1>4. CASE Operate
  <2>1. pc[b] = "ended"
    BY <1>4 DEF Operate, calls
  <2> QED
    BY <1>4, <2>1, OperatorResolves
<1>5. CASE CallsEstimate
  <2>1. PICK a \in Attempts, s \in Scopes, digest \in Digests, quote \in Quotes :
          CallEstimate(a, s, digest, quote)
    BY <1>5 DEF CallsEstimate
  <2>2. a # b /\ pc[b] = "ended"
    BY <1>3, <2>1 DEF CallEstimate
  <2>3. attempts'[b] = attempts[b]
    BY <2>1, <2>2, OtherRowsStay DEF CallEstimate
  <2> QED
    BY <1>1, <2>2, <2>3
<1>6. CASE CallsReserve
  <2>1. PICK a \in Attempts : CallReserve(a)
    BY <1>6 DEF CallsReserve
  <2>2. a # b /\ pc[b] = "ended"
    BY <1>2, <1>3, <2>1 DEF CallReserve
  <2>3. attempts'[b] = attempts[b]
    BY <2>1, <2>2, OtherRowsStay DEF CallReserve
  <2> QED
    BY <1>1, <2>2, <2>3
<1>7. CASE CallsDispatch
  <2>1. PICK a \in Attempts : CallDispatch(a)
    BY <1>7 DEF CallsDispatch
  <2>2. a # b /\ pc[b] = "ended"
    BY <1>2, <1>3, <2>1 DEF CallDispatch
  <2>3. HasAttempt(a)
    BY <2>1 DEF CallDispatch, BeginDispatch, DenyDispatch, InState
  <2>4. attempts[a].digest \in Digests
    BY <2>3, RowsKnown DEF AttemptRows
  <2>5. attempts'[b] = attempts[b]
    BY <2>1, <2>2, <2>4, OtherRowsStay DEF CallDispatch
  <2> QED
    BY <1>1, <2>2, <2>5
<1>8. CASE CallsSettle
  <2>1. PICK a \in Attempts, charge \in Charges, reference \in References :
          CallSettle(a, charge, reference)
    BY <1>8 DEF CallsSettle
  <2>2. a # b /\ pc[b] = "ended"
    BY <1>3, <2>1 DEF CallSettle
  <2>3. attempts'[b] = attempts[b]
    BY <2>1, <2>2, OtherRowsStay DEF CallSettle
  <2> QED
    BY <1>1, <2>2, <2>3
<1>9. CASE CleanUps
  <2>1. PICK a \in Attempts : CleanUp(a)
    BY <1>9 DEF CleanUps
  <2>2. (Cancel(a) \/ MarkUncertain(a)) /\ Goto(a, "ended")
    BY <2>1 DEF CleanUp
  <2>3. CASE a # b
    <3>1. attempts'[b] = attempts[b]
      BY <2>2, <2>3, OtherRowsStay
    <3> QED
      BY <1>1, <1>2, <2>2, <2>3, <3>1
  <2>4. CASE a = b /\ Cancel(a)
    BY <2>4, ReleaseResolves
  <2>5. CASE a = b /\ MarkUncertain(a)
    <3>1. HasAttempt(b) /\ attempts[b] \in AttemptRows
      BY <2>5, RowsKnown DEF MarkUncertain, InState
    <3>2. attempts' = [attempts EXCEPT ![b] =
                         [attempts[b] EXCEPT !.state = "uncertain", !.reserved = attempts[b].reserved]]
      BY <2>5 DEF MarkUncertain, Advance
    <3>3. attempts \in [Attempts -> AttemptRows \cup {None}]
      BY DEF TypeOK
    <3>4. attempts'[b].state = "uncertain"
      BY <3>1, <3>2, <3>3 DEF AttemptRows
    <3> QED
      BY <3>4 DEF InState, Unresolved
  <2> QED
    BY <2>2, <2>3, <2>4, <2>5
<1>10. CASE Exchanges \/ Stops \/ Crash \/ UNCHANGED vars
  <2>1. attempts' = attempts
    BY <1>10 DEF Exchanges, Send, Deliver, Stops, Stop, Look, AlreadyClean, Abandon, Crash,
                 vars, ledger, tables
  <2>2. ASSUME ~InState(b, Unresolved) PROVE ~InState(b, Unresolved)'
    BY <2>1, <2>2 DEF InState, HasAttempt
  <2>3. CASE pc[b] = "ended"
    BY <2>2, <2>3
  <2>4. CASE pc[b] # "ended"
    <3>1. CASE Exchanges
      <4>1. PICK a \in Attempts : Goto(a, "sent") \/ Goto(a, "delivered")
        BY <3>1 DEF Exchanges, Send, Deliver
      <4> QED
        BY <1>2, <2>4, <4>1
    <3>2. CASE Stops
      <4>1. PICK a \in Attempts : Stop(a) \/ Look(a) \/ AlreadyClean(a) \/ Abandon(a)
        BY <3>2 DEF Stops
      <4>2. CASE Look(a)
        <5>1. a = b
          BY <1>2, <2>4, <4>2 DEF Look
        <5>2. LookAtLedger(b) = "ended"
          BY <1>2, <4>2, <5>1 DEF Look
        <5>3. ~InState(b, {"estimated", "reserved"}) /\ ~InState(b, {"dispatched"})
          BY <5>2 DEF LookAtLedger
        <5>4. ~InState(b, Unresolved)
          BY <5>3 DEF InState, Unresolved
        <5> QED
          BY <2>2, <5>4
      <4>3. CASE AlreadyClean(a)
        <5>1. a = b
          BY <1>2, <2>4, <4>3 DEF AlreadyClean
        <5>2. ~InState(b, Unresolved)
          BY <4>3, <5>1 DEF AlreadyClean, InState, Unresolved
        <5> QED
          BY <2>2, <5>2
      <4>4. CASE Stop(a) \/ Abandon(a)
        <5>1. Goto(a, "cleanup") \/ Goto(a, "abandoned")
          BY <4>4 DEF Stop, Abandon
        <5> QED
          BY <1>2, <2>4, <5>1
      <4> QED
        BY <4>1, <4>2, <4>3, <4>4
    <3>3. CASE Crash
      BY <2>4, <3>3 DEF Crash
    <3>4. CASE UNCHANGED vars
      BY <2>4, <3>4 DEF vars, calls
    <3> QED
      BY <1>10, <3>1, <3>2, <3>3, <3>4
  <2> QED
    BY <2>3, <2>4
<1> QED
  BY <1>4, <1>5, <1>6, <1>7, <1>8, <1>9, <1>10 DEF PaidNext

\* A call that has ended its clean-up by the durable state leaves nothing open, for
\* good: neither the operator nor another call brings its attempt back.
THEOREM EndingsLeaveNothingOpen == PaidSpec => []CleanEndingsResolve
<1>1. PaidInit => CleanEndingsResolve
  BY DEF PaidInit, CleanEndingsResolve
<1>2. CallsInv /\ CleanEndingsResolve /\ [PaidNext]_vars => CleanEndingsResolve'
  <2> SUFFICES ASSUME CallsInv, CleanEndingsResolve, [PaidNext]_vars,
                      NEW b \in Attempts \ Pilots, pc'[b] = "ended"
               PROVE  ~InState(b, Unresolved)'
    BY DEF CleanEndingsResolve, Unresolved
  <2>1. pc[b] = "ended" => ~InState(b, Unresolved)
    BY DEF CleanEndingsResolve, Unresolved
  <2> QED
    BY <2>1, EndingsResolve DEF CallsInv
<1> QED
  BY <1>1, <1>2, CallsInvHolds, PTL DEF PaidSpec
-----------------------------------------------------------------------------
(***************************************************************************)
(* The calls implement metered sends.                                      *)
(***************************************************************************)
LEMMA LedgerIsMetered ==
  ASSUME TypeOK, LedgerMoves, sent' = sent
  PROVE  [Metered!Next]_(Metered!metered)
<1> DEFINE Quietly == Accounts' = Accounts
<1>1. CASE UNCHANGED ledger
  <2>1. Quietly
    BY <1>1 DEF ledger, tables, Accounts, AccountOf, InState, HasAttempt
  <2> QED
    BY <2>1 DEF Metered!metered
<1>2. ASSUME NEW e \in Entries, Quiet(e) PROVE Quietly
  BY <1>2 DEF Quiet, Accounts, AccountOf, InState, HasAttempt
<1>3. ASSUME NEW a \in Attempts, NEW row \in AttemptRows, NEW e \in Entries, Working(a, row, e)
      PROVE  Quietly \/ Metered!Next
  <2>1. /\ attempts'[a] = row /\ HasAttempt(a)'
        /\ \A b \in Attempts \ {a} : attempts'[b] = attempts[b]
    BY <1>3, RowsMove
  <2>2. \A b \in Attempts \ {a} : AccountOf(b)' = AccountOf(b)
    BY <2>1 DEF AccountOf, InState, HasAttempt
  <2>3. Accounts' = [Accounts EXCEPT ![a] = AccountOf(a)']
    BY <2>2 DEF Accounts
  <2>4. Accounts[a] = AccountOf(a)
    BY DEF Accounts
  <2>5. AccountOf(a)' = CASE row.state = "reserved" -> "held"
                          [] row.state \in {"dispatched", "uncertain"} -> "claimed"
                          [] row.state = "settled" -> "paid"
                          [] row.state = "cancelled" -> "released"
                          [] OTHER -> "none"
    BY <2>1 DEF AccountOf, InState
  <2>6. CASE Opening(a, row, e)
    <3>1. AccountOf(a)' = "none" /\ AccountOf(a) = "none"
      BY <2>5, <2>6 DEF Opening, AccountOf, InState
    <3> QED
      BY <2>3, <2>4, <3>1 DEF Accounts
  <2>7. CASE Holding(a, row, e)
    <3>1. AccountOf(a)' = "held" /\ AccountOf(a) = "none"
      BY <2>5, <2>7 DEF Holding, AccountOf, InState
    <3> QED
      BY <2>3, <2>4, <3>1 DEF Metered!Next, Metered!Hold, Metered!Move
  <2>8. CASE Claiming(a, row, e)
    <3>1. AccountOf(a)' = "claimed" /\ AccountOf(a) = "held"
      BY <2>5, <2>8 DEF Claiming, AccountOf, InState
    <3> QED
      BY <2>3, <2>4, <3>1 DEF Metered!Next, Metered!Claim, Metered!Move
  <2>9. CASE Doubting(a, row, e)
    <3>1. AccountOf(a)' = "claimed" /\ AccountOf(a) = "claimed"
      BY <2>5, <2>9 DEF Doubting, AccountOf, InState
    <3> QED
      BY <2>3, <2>4, <3>1 DEF Accounts
  <2>10. CASE Releasing(a, row, e)
    <3>1. AccountOf(a)' = "released" /\ AccountOf(a) \in {"none", "held"}
      BY <2>5, <2>10 DEF Releasing, AccountOf, InState
    <3> QED
      BY <2>3, <2>4, <3>1 DEF Metered!Next, Metered!Release, Metered!Move
  <2>11. CASE Settling(a, row, e)
    <3>1. AccountOf(a)' = "paid" /\ AccountOf(a) \in {"claimed", "paid"}
      BY <2>5, <2>11 DEF Settling, AccountOf, InState
    <3>2. CASE AccountOf(a) = "claimed"
      BY <2>3, <2>4, <3>1, <3>2 DEF Metered!Next, Metered!Pay, Metered!Move
    <3>3. CASE AccountOf(a) = "paid"
      BY <2>3, <2>4, <3>1, <3>3 DEF Accounts
    <3> QED
      BY <3>1, <3>2, <3>3
  <2> QED
    BY <1>3, <2>6, <2>7, <2>8, <2>9, <2>10, <2>11 DEF Working
<1>4. Quietly => UNCHANGED Metered!metered
  BY DEF Metered!metered
<1> HIDE DEF Quietly
<1> QED
  BY <1>1, <1>2, <1>3, <1>4 DEF LedgerMoves, Shaped

LEMMA StepsAreMetered ==
  ASSUME CallsInv, [PaidNext]_vars
  PROVE  [Metered!Next]_(Metered!metered)
<1>1. CASE sent' = sent
  BY <1>1, PaidMoves, LedgerIsMetered DEF CallsInv, CallsTypeOK
<1>2. CASE sent' # sent
  <2>1. PICK a \in Attempts : Send(a)
    BY <1>2 DEF PaidNext, vars, calls, Operate, CallsEstimate, CallEstimate, CallsReserve,
                CallReserve, CallsDispatch, CallDispatch, CallsSettle, CallSettle, CleanUps,
                CleanUp, Exchanges, Deliver, Stops, Stop, Look, AlreadyClean, Abandon, Crash,
                Acknowledged
  <2>2. Sent(a) /\ sent[a] = 0 /\ sent' = [sent EXCEPT ![a] = 1] /\ UNCHANGED ledger
    <3>1. pc[a] = "claimed" /\ sent' = [sent EXCEPT ![a] = sent[a] + 1] /\ UNCHANGED ledger
      BY <2>1 DEF Send
    <3>2. Sent(a) /\ sent[a] = 0
      BY <3>1 DEF CallsInv, Following, Unsent
    <3> QED
      BY <3>1, <3>2
  <2>3. Accounts' = Accounts
    BY <2>2 DEF ledger, tables, Accounts, AccountOf, InState, HasAttempt
  <2>4. Accounts[a] \in {"claimed", "paid"}
    BY <2>2 DEF Accounts, AccountOf, Sent, InState
  <2> QED
    BY <2>2, <2>3, <2>4 DEF Metered!Next, Metered!Send
<1> QED
  BY <1>1, <1>2

\* The calls, with everything that may go wrong around them, implement metered sends:
\* each request leaves at most once, after its claim, and no claim is released.
THEOREM PaidCallsAreMetered == PaidSpec => ImplementsMeteredSends
<1>1. PaidInit => Metered!Init
  BY DEF PaidInit, Init, Metered!Init, Accounts, AccountOf, InState, HasAttempt
<1>2. CallsInv /\ [PaidNext]_vars => [Metered!Next]_(Metered!metered)
  BY StepsAreMetered
<1> QED
  BY <1>1, <1>2, CallsInvHolds, PTL DEF PaidSpec, ImplementsMeteredSends, Metered!Spec
=============================================================================
