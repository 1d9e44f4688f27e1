--------------------------- MODULE EngagementRecords ---------------------------
(***************************************************************************)
(* The rules of engagement with their revisions and their revocation, from *)
(* engagement_store.py and the validation of engagement_contract.py.       *)
(*                                                                         *)
(* A transaction is one step here: DispatchStore takes the same discipline *)
(* of locks, checks and rollbacks apart.  What remains of it is that the   *)
(* caller of a transaction, committed or not, may learn no more than that  *)
(* its handle cannot be used again.  A digest is what it is of.            *)
(***************************************************************************)
EXTENDS Naturals, SequencesExt

CONSTANTS
  Handles, EventIds, Roes,
  MAX_REVISIONS         \* 64

ASSUME EngagementAssumption == MAX_REVISIONS \in Nat \ {0}

VARIABLES
  engagement,           \* the three tables
  unusable,             \* the handles whose _failed is set
  told                  \* the last question to the store and its answer

engaged == <<engagement, unusable, told>>

NoRoe == [roe |-> "none"]

Declared == [roe : Roes]

Question(event, operation, revision, generation, roe) ==
  [event |-> event, operation |-> operation, expected_revision |-> revision,
   expected_generation |-> generation, roe |-> roe]

\* The requests of append_revision and revoke, and the question of event_receipt.
Amendments ==
  {Question(e, "revise", r, g, roe) :
     e \in EventIds, r \in 1 .. MAX_REVISIONS, g \in 0 .. MAX_REVISIONS, roe \in Declared}
  \cup {Question(e, "revoke", r, g, NoRoe) :
     e \in EventIds, r \in 1 .. MAX_REVISIONS, g \in 0 .. MAX_REVISIONS}

Lookup(event) == Question(event, "lookup", 0, 0, NoRoe)

Create(event, roe) == Question(event, "create", 0, 0, roe)

Receipt(request, revision, generation, status) ==
  [event |-> request.event, operation |-> request.operation,
   expected_revision |-> request.expected_revision,
   expected_generation |-> request.expected_generation,
   revision |-> revision, generation |-> generation, status |-> status, request |-> request]

EngagementInit ==
  \E event \in EventIds, roe \in Declared :
    /\ engagement = [revision |-> 1, generation |-> 0, status |-> "recorded",
                     revisions |-> <<roe>>,
                     events |-> <<Receipt(Create(event, roe), 1, 0, "recorded")>>]
    /\ unusable = {}
    /\ told = [question |-> Create(event, roe), code |-> "receipt", sequence |-> 1]
-----------------------------------------------------------------------------
(***************************************************************************)
(* validate_export: every request and transition is reconstructed.         *)
(***************************************************************************)
\* The request of an event, from its receipt and the rules of its revision.
Rebuilt(e, row) ==
  Question(row.event, row.operation, row.expected_revision, row.expected_generation,
           IF row.operation = "revoke" THEN NoRoe ELSE e.revisions[row.revision])

Expects(s, row) ==
  <<row.expected_revision, row.expected_generation>> = <<s.revision, s.generation>>

\* One event after what the events before it came to.
Agrees(e, s, row) ==
  /\ s.valid /\ row.event \notin s.seen /\ s.status = "recorded"
  /\ row.revision \in DOMAIN e.revisions
  /\ row.request = Rebuilt(e, row)
  /\ IF s.revision = 0
     THEN row.operation = "create" /\ <<row.revision, row.generation>> = <<1, 0>>
     ELSE /\ row.operation \in {"revise", "revoke"} /\ Expects(s, row)
          /\ row.generation = s.generation + 1
          /\ IF row.operation = "revise"
             THEN s.revision < MAX_REVISIONS /\ row.revision = s.revision + 1
             ELSE row.revision = s.revision
  /\ row.status = IF row.operation = "revoke" THEN "revoked" ELSE "recorded"

Unplayed ==
  [valid |-> TRUE, seen |-> {}, revision |-> 0, generation |-> 0, status |-> "recorded"]

Played(e, s, row) ==
  [valid |-> Agrees(e, s, row), seen |-> s.seen \cup {row.event},
   revision |-> row.revision, generation |-> row.generation, status |-> row.status]

\* What events come to under the revisions of e.
ReplayOf(e, rows) == FoldLeft(LAMBDA s, row : Played(e, s, row), Unplayed, rows)

Replay(e) == ReplayOf(e, e.events)

\* Its state and its revisions must be what the events come to.
ValidExport(e) ==
  LET s == Replay(e)
  IN  /\ s.valid /\ Len(e.events) <= MAX_REVISIONS + 1
      /\ <<e.revision, e.generation, e.status>> = <<s.revision, s.generation, s.status>>
      /\ Len(e.revisions) = s.revision
-----------------------------------------------------------------------------
(***************************************************************************)
(* _mutate and event_receipt.                                              *)
(***************************************************************************)
Bearing(event) == {n \in DOMAIN engagement.events : engagement.events[n].event = event}

Accepted(request) ==
  /\ engagement.status = "recorded" /\ Expects(engagement, request)
  /\ request.operation = "revise" => engagement.revision < MAX_REVISIONS

Says(code, n) == [code |-> code, sequence |-> n]

\* An event that is recorded already, with this request or another.
Repeated(request) ==
  LET n == CHOOSE k \in Bearing(request.event) : TRUE
  IN  IF Rebuilt(engagement, engagement.events[n]) = request THEN Says("receipt", n)
      ELSE Says("conflict", 0)

Refused(request) ==
  IF engagement.status = "revoked" THEN Says("revoked", 0)
  ELSE IF ~Expects(engagement, request) THEN Says("conflict", 0)
  ELSE Says("limit_exceeded", 0)

\* As if the state were looked at before the events.
AnswerByState(request) ==
  IF Accepted(request) /\ Bearing(request.event) = {}
    THEN Says("receipt", Len(engagement.events) + 1)
  ELSE IF engagement.status = "recorded" /\ Bearing(request.event) # {} THEN Repeated(request)
  ELSE Refused(request)

\* The events come first: a retry is answered whatever has happened since.
Answer(request) ==
  IF Bearing(request.event) # {} THEN Repeated(request)
  ELSE IF Accepted(request) THEN Says("receipt", Len(engagement.events) + 1)
  ELSE Refused(request)

\* The tables after the transaction.
After(request) ==
  IF Answer(request) # Says("receipt", Len(engagement.events) + 1) THEN engagement
  ELSE LET revises == request.operation = "revise"
           status  == IF revises THEN "recorded" ELSE "revoked"
           number  == engagement.revision + (IF revises THEN 1 ELSE 0)
           receipt == Receipt(request, number, engagement.generation + 1, status)
       IN  [engagement EXCEPT
              !.revision = number, !.generation = @ + 1, !.status = status,
              !.revisions = IF revises THEN Append(@, request.roe) ELSE @,
              !.events = Append(@, receipt)]

Tells(question, answer) ==
  told' = [question |-> question, code |-> answer.code, sequence |-> answer.sequence]

\* The tables are validated again before the commit.
Amend(h, request) ==
  /\ h \notin unusable
  /\ IF ValidExport(After(request))
     THEN engagement' = After(request) /\ Tells(request, Answer(request)) /\ UNCHANGED unusable
     ELSE Tells(request, Says("invalid", 0)) /\ unusable' = unusable \cup {h} /\ UNCHANGED engagement

\* A timeout, a failed check or a storage error, before or after the commit.
AmendLost(h, request) ==
  /\ h \notin unusable
  /\ engagement' \in {engagement, After(request)}
  /\ Tells(request, Says("uncertain", 0))
  /\ unusable' = unusable \cup {h}

EventReceipt(h, event) ==
  /\ h \notin unusable
  /\ Tells(Lookup(event), IF Bearing(event) = {} THEN Says("event_unknown", 0)
                          ELSE Says("receipt", CHOOSE n \in Bearing(event) : TRUE))
  /\ UNCHANGED <<engagement, unusable>>

\* Another handle takes the place of one that failed; open validates what it finds.
Reopen(h) ==
  /\ h \in unusable /\ ValidExport(engagement)
  /\ unusable' = unusable \ {h}
  /\ UNCHANGED <<engagement, told>>

EngagementNext ==
  \E h \in Handles :
    \/ \E request \in Amendments : Amend(h, request) \/ AmendLost(h, request)
    \/ \E event \in EventIds : EventReceipt(h, event)
    \/ Reopen(h)
-----------------------------------------------------------------------------
(***************************************************************************)
(* Property.                                                               *)
(***************************************************************************)
Recorded(question) ==
  \E row \in ToSet(engagement.events) :
    row.event = question.event /\ (question.operation = "lookup" \/ row.request = question)

\* A caller can rely on what it is told, and after a lost answer it can ask again
\* however the rules have moved on since: a receipt stands for the very request at
\* its place, a refusal means the request was never recorded, and no honest history
\* is ever found invalid.
AnswersAreTrue ==
  /\ told.code = "receipt" =>
       /\ told.sequence \in DOMAIN engagement.events
       /\ engagement.events[told.sequence].event = told.question.event
       /\ Recorded(told.question)
  /\ told.code \in {"conflict", "revoked", "limit_exceeded", "event_unknown"} =>
       ~Recorded(told.question)
  /\ told.code # "invalid"
=============================================================================
