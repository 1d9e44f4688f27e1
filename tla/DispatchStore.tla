---------------------------- MODULE DispatchStore ----------------------------
(***************************************************************************)
(* The private store around the dispatch engine: handles, their owners,    *)
(* SQLite transactions, faults, poisoned handles and exact retries, from   *)
(* engagement_dispatch_store.py.                                           *)
(*                                                                         *)
(* A handle is one successful create or open and is its own fresh owner    *)
(* identity.  Threads of a process share a handle and take turns with its  *)
(* lock; handles, of one process or of several, take turns with SQLite's   *)
(* write lock.  A call is one use of mutate or retry.  The engine is the   *)
(* operator Accepts: DispatchLedger says what it accepts.                  *)
(***************************************************************************)
EXTENDS Naturals, Sequences

CONSTANTS
  Handles, Calls, EventIds,
  OwnedBodies,            \* bodies of session, reserve and complete: they name an owner
  OtherBodies,            \* bodies of revise and revoke
  Accepts(_, _),          \* the engine accepts a request after a log
  None

ASSUME NoneAssumption ==
  None \notin Handles /\ None \notin Calls /\ OwnedBodies \cap OtherBodies = {}

VARIABLES
  log,          \* the committed requests
  author,       \* the call that committed each of them, for the properties
  writer,       \* the handle that holds SQLite's write lock, or None
  mode,         \* per handle: unopened, rw, ro, closed or dead
  failed,       \* per handle: _failed, set once and never cleared
  holder,       \* per handle: the call that holds its lock, or None
  pc,           \* per call: how far it is
  call,         \* per call: the handle, the request and whether it writes
  local,        \* per call: the log its transaction read or will leave, and its answer
  result        \* per call: what its caller was told

database == <<log, author, writer>>
handles  == <<mode, failed, holder>>
threads  == <<pc, call, local, result>>
vars     == <<database, handles, threads>>

Owner(body, h) == IF body \in OwnedBodies THEN h ELSE None

Requests ==
  [event : EventIds, body : OwnedBodies, owner : Handles]
    \cup [event : EventIds, body : OtherBodies, owner : {None}]

InTransaction == {"begun", "decided", "checked"}

\* What a caller may learn.  Uncertain answers carry a code that poisons, or are
\* an interrupt or the death of the process.
Answered(code, n) == [code |-> code, sequence |-> n]

Uncertain == {"poisoned", "interrupted", "lost"}

Init ==
  /\ log = <<>> /\ author = <<>> /\ writer = None
  /\ mode = [h \in Handles |-> "unopened"]
  /\ failed = [h \in Handles |-> FALSE]
  /\ holder = [h \in Handles |-> None]
  /\ pc = [c \in Calls |-> "idle"]
  /\ call = [c \in Calls |-> None]
  /\ local = [c \in Calls |-> None]
  /\ result = [c \in Calls |-> None]
-----------------------------------------------------------------------------
(***************************************************************************)
(* Endings.                                                                *)
(***************************************************************************)
Goto(c, place) == pc' = [pc EXCEPT ![c] = place]

Finish(c, answer) ==
  /\ Goto(c, "done")
  /\ result' = [result EXCEPT ![c] = answer]
  /\ local' = [local EXCEPT ![c] = None]

Continue(c, place) == Goto(c, place) /\ UNCHANGED result

RollbackForgotten(c) == UNCHANGED writer

\* Rollback frees the write lock that the call's transaction took.
Rollback(c) ==
  writer' = IF pc[c] \in InTransaction /\ call[c].write THEN None ELSE writer

Release(c) ==
  LET h == call[c].handle
  IN  holder' = IF holder[h] = c THEN [holder EXCEPT ![h] = None] ELSE holder

ForgetsToPoison(h) == UNCHANGED failed

Poison(h) == failed' = [failed EXCEPT ![h] = TRUE]

\* A clean error: rollback, and the handle stays usable.
Refuse(c) ==
  /\ Rollback(c) /\ Release(c)
  /\ Finish(c, Answered("refused", 0))
  /\ UNCHANGED <<log, author, mode, failed, call>>
-----------------------------------------------------------------------------
(***************************************************************************)
(* One call, from its start to its answer.                                 *)
(***************************************************************************)
Open(h, access) ==
  /\ mode[h] = "unopened"
  /\ mode' = [mode EXCEPT ![h] = access]
  /\ UNCHANGED <<database, failed, holder, threads>>

\* _mutate and retry up to the handle's lock.
Start(c, h, request, write) ==
  /\ pc[c] = "idle" /\ mode[h] \in {"rw", "ro", "closed"}
  /\ write => request.owner = Owner(request.body, h)
  /\ call' = [call EXCEPT ![c] = [handle |-> h, request |-> request, write |-> write]]
  /\ \/ /\ failed[h]
        /\ Finish(c, Answered("unavailable", 0))
     \/ /\ ~failed[h] /\ write /\ mode[h] = "ro"
        /\ Finish(c, Answered("refused", 0))
     \/ /\ ~failed[h] /\ (write => mode[h] = "rw")
        /\ Continue(c, "waiting") /\ UNCHANGED local
  /\ UNCHANGED <<database, handles>>

\* The lock is taken, then _check_files looks at _failed again.
Enter(c) ==
  LET h == call[c].handle
  IN  /\ pc[c] = "waiting" /\ holder[h] = None
      /\ \/ /\ failed[h]
            /\ Finish(c, Answered("unavailable", 0))
            /\ UNCHANGED holder
         \/ /\ ~failed[h]
            /\ Continue(c, "locked") /\ UNCHANGED local
            /\ holder' = [holder EXCEPT ![h] = c]
      /\ UNCHANGED <<database, mode, failed, call>>

BeginDeferred(c) ==
  /\ pc[c] = "locked"
  /\ local' = [local EXCEPT ![c] = [log |-> log]]
  /\ Continue(c, "begun")
  /\ UNCHANGED <<database, handles, call>>

\* BEGIN IMMEDIATE or BEGIN, then the validated snapshot.
Begin(c) ==
  /\ pc[c] = "locked"
  /\ IF call[c].write
     THEN writer = None /\ writer' = call[c].handle
     ELSE UNCHANGED writer
  /\ local' = [local EXCEPT ![c] = [log |-> log]]
  /\ Continue(c, "begun")
  /\ UNCHANGED <<log, author, handles, call>>

\* _existing: the places of the log that bear the request's event.
Existing(l, request) == {n \in DOMAIN l : l[n].event = request.event}

Decide(c, l, answer) ==
  /\ local' = [local EXCEPT ![c] = [log |-> l, answer |-> answer]]
  /\ Continue(c, "decided")
  /\ UNCHANGED <<database, handles, call>>

\* The event is recorded already: an identical request gets its receipt.
DecideOld(c) ==
  LET request == call[c].request
      before  == local[c].log
  IN  /\ pc[c] = "begun"
      /\ \E n \in Existing(before, request) :
           \/ before[n] = request /\ Decide(c, before, Answered("already_recorded", n))
           \/ before[n] # request /\ Refuse(c)

\* The event is new: the engine decides, and a retry has nothing to return.
DecideNew(c) ==
  LET request  == call[c].request
      before   == local[c].log
      accepted == call[c].write /\ Accepts(before, request)
  IN  /\ pc[c] = "begun"
      /\ Existing(before, request) = {}
      /\ \/ /\ accepted
            /\ Decide(c, Append(before, request), Answered("recorded", Len(before) + 1))
         \/ ~accepted /\ Refuse(c)

\* The checks before the commit look at _failed once more.
Check(c) ==
  /\ pc[c] = "decided" /\ ~failed[call[c].handle]
  /\ Continue(c, "checked")
  /\ UNCHANGED <<database, handles, call, local>>

\* A rollback journal: a commit that writes waits for every open read.
Reading(c) == pc[c] \in InTransaction /\ ~call[c].write

Commit(c) ==
  /\ pc[c] = "checked"
  /\ IF call[c].write
     THEN /\ \A d \in Calls : ~Reading(d)
          /\ log' = local[c].log
          /\ author' = IF Len(local[c].log) > Len(log) THEN Append(author, c) ELSE author
          /\ writer' = None
     ELSE UNCHANGED database
  /\ Continue(c, "committed")
  /\ UNCHANGED <<handles, call, local>>

\* The checks after the commit pass and the lock is released.
Leave(c) ==
  /\ pc[c] = "committed" /\ ~failed[call[c].handle]
  /\ Continue(c, "released") /\ Release(c)
  /\ UNCHANGED <<database, mode, failed, call, local>>

\* The deadline has not passed when the operation returns.
Return(c) ==
  /\ pc[c] = "released"
  /\ Finish(c, local[c].answer)
  /\ UNCHANGED <<database, handles, call>>
-----------------------------------------------------------------------------
(***************************************************************************)
(* What goes wrong: time, storage, interrupts, crashes, closing.           *)
(***************************************************************************)
Underway(c) == pc[c] \notin {"idle", "done"}

FaultAsRefusal(c) ==
  /\ Underway(c)
  /\ Rollback(c) /\ Release(c)
  /\ Finish(c, Answered("refused", 0))
  /\ UNCHANGED <<log, author, mode, failed, call>>

\* A failed file check, a storage error or the deadline, before or after the
\* commit, at the lock or at the very end: the handle is poisoned.
Fault(c) ==
  /\ Underway(c)
  /\ Rollback(c) /\ Release(c) /\ Poison(call[c].handle)
  /\ Finish(c, Answered("poisoned", 0))
  /\ UNCHANGED <<log, author, mode, call>>

\* An interrupt of the process passes through and poisons nothing.
Interrupt(c) ==
  /\ Underway(c)
  /\ Rollback(c) /\ Release(c)
  /\ Finish(c, Answered("interrupted", 0))
  /\ UNCHANGED <<log, author, mode, failed, call>>

UsesHandle(c, h) == Underway(c) /\ call[c].handle = h

\* The process dies: SQLite rolls back what was not committed.
Crash(h) ==
  /\ mode[h] \in {"rw", "ro"}
  /\ mode' = [mode EXCEPT ![h] = "dead"]
  /\ holder' = [holder EXCEPT ![h] = None]
  /\ writer' = IF writer = h THEN None ELSE writer
  /\ pc' = [c \in Calls |-> IF UsesHandle(c, h) THEN "done" ELSE pc[c]]
  /\ result' = [c \in Calls |-> IF UsesHandle(c, h) THEN Answered("lost", 0) ELSE result[c]]
  /\ local' = [c \in Calls |-> IF UsesHandle(c, h) THEN None ELSE local[c]]
  /\ UNCHANGED <<log, author, failed, call>>

\* close takes the lock; calls that wait for it find _failed set.
Close(h) ==
  /\ mode[h] \in {"rw", "ro"} /\ holder[h] = None
  /\ mode' = [mode EXCEPT ![h] = "closed"]
  /\ Poison(h)
  /\ UNCHANGED <<database, holder, threads>>
-----------------------------------------------------------------------------
Opens     == \E h \in Handles, access \in {"rw", "ro"} : Open(h, access)
Starts    == \E c \in Calls, h \in Handles, request \in Requests, write \in BOOLEAN :
               Start(c, h, request, write)
Enters    == \E c \in Calls : Enter(c)
Begins    == \E c \in Calls : Begin(c)
Decides   == \E c \in Calls : DecideOld(c) \/ DecideNew(c)
Checks    == \E c \in Calls : Check(c)
Commits   == \E c \in Calls : Commit(c)
Leaves    == \E c \in Calls : Leave(c) \/ Return(c)
Faults    == \E c \in Calls : Fault(c) \/ Interrupt(c)
Endings   == \E h \in Handles : Crash(h) \/ Close(h)

Next == Opens \/ Starts \/ Enters \/ Begins \/ Decides \/ Checks \/ Commits \/ Leaves
          \/ Faults \/ Endings

Spec == Init /\ [][Next]_vars

\* A started call goes on by itself; on a poisoned handle its checks fail.
Step(c) ==
  \/ Enter(c) \/ Begin(c) \/ DecideOld(c) \/ DecideNew(c) \/ Check(c) \/ Commit(c)
  \/ Leave(c) \/ Return(c)
  \/ pc[c] \in {"decided", "committed"} /\ failed[call[c].handle] /\ Fault(c)

FairSpec == Spec /\ \A c \in Calls : WF_vars(Step(c))
-----------------------------------------------------------------------------
(***************************************************************************)
(* Properties.                                                             *)
(***************************************************************************)
Places == {"idle", "waiting", "locked", "begun", "decided", "checked", "committed",
           "released", "done"}

Codes == {"recorded", "already_recorded", "refused", "unavailable"} \cup Uncertain

CallRecords == [handle : Handles, request : Requests, write : BOOLEAN]

Answers == [code : Codes, sequence : Nat]

Drafts == [log : Seq(Requests), answer : Answers]

\* The types of the store's state and of its threads.
TypeOK ==
  /\ log \in Seq(Requests) /\ author \in Seq(Calls) /\ Len(author) = Len(log)
  /\ writer \in Handles \cup {None}
  /\ mode \in [Handles -> {"unopened", "rw", "ro", "closed", "dead"}]
  /\ failed \in [Handles -> BOOLEAN]
  /\ holder \in [Handles -> Calls \cup {None}]
  /\ pc \in [Calls -> Places]
  /\ call \in [Calls -> CallRecords \cup {None}]
  /\ \A c \in Calls : pc[c] # "idle" => call[c] \in CallRecords
  /\ local \in [Calls -> [log : Seq(Requests)] \cup Drafts \cup {None}]
  /\ \A c \in Calls :
       /\ pc[c] = "begun" => local[c] \in [log : Seq(Requests)]
       /\ pc[c] \in {"decided", "checked", "committed", "released"} => local[c] \in Drafts
  /\ result \in [Calls -> Answers \cup {None}]

Done(c) == pc[c] = "done"

Records(c) == {n \in DOMAIN author : author[n] = c}

\* A caller that holds a receipt can rely on it: its request stands in the log at
\* the sequence of the receipt, and "recorded" went to the call that appended it.
ReceiptsAreTrue ==
  \A c \in Calls : Done(c) /\ result[c].code \in {"recorded", "already_recorded"} =>
    LET n == result[c].sequence
    IN  /\ n \in DOMAIN log /\ log[n] = call[c].request
        /\ result[c].code = "recorded" <=> author[n] = c

\* A caller that got a clean error can rely on it too: its call recorded nothing.
\* Only an uncertain answer leaves open whether the request was committed.
CleanErrorsRecordNothing ==
  \A c \in Calls : Done(c) /\ Records(c) # {} =>
    result[c].code \in {"recorded"} \cup Uncertain

Poisoned(h) == \E d \in Calls : Done(d) /\ result[d].code = "poisoned" /\ call[d].handle = h

\* Poison is final: once a caller was told of an uncertain outcome, no call of the
\* handle that has not yet passed its checks before the commit ever records
\* anything, not even one that waits for the lock or stands in its transaction.
PoisonIsFinal ==
  \A c \in Calls, h \in Handles :
    [](Poisoned(h) /\ pc[c] \notin {"checked", "committed", "released", "done"}
         => [](Records(c) # {} => call[c].handle # h))

\* However calls, faults and crashes interleave, the store is a log to which one
\* admissible request at a time is appended: no event twice, nothing lost, nothing
\* decided on a stale snapshot.
RecordLogSpec == INSTANCE RecordLog

ImplementsRecordLog == RecordLogSpec!Spec

\* No two calls wait for each other's locks: every started call is answered, even
\* when no deadline passes.
CallsEnd == \A c \in Calls : pc[c] = "waiting" ~> Done(c)
=============================================================================
