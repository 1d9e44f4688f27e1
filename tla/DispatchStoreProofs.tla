------------------------- MODULE DispatchStoreProofs -------------------------
(***************************************************************************)
(* Theorems about DispatchStore, for every engine and every number of      *)
(* handles, calls, events and bodies.                                      *)
(***************************************************************************)
EXTENDS DispatchStore, TLAPS

USE NoneAssumption DEF Owner

Drafting == {"decided", "checked", "committed", "released"}

LEMMA InitType == Init => TypeOK
  BY DEF Init, TypeOK, Places

\* What the endings of a call have in common.
LEMMA FinishType ==
  ASSUME TypeOK, NEW c \in Calls, NEW answer \in Answers, Finish(c, answer)
  PROVE  /\ pc' \in [Calls -> Places]
         /\ local' \in [Calls -> [log : Seq(Requests)] \cup Drafts \cup {None}]
         /\ result' \in [Calls -> Answers \cup {None}]
         /\ pc' = [pc EXCEPT ![c] = "done"] /\ local' = [local EXCEPT ![c] = None]
  BY DEF TypeOK, Finish, Goto, Places

LEMMA RefuseType ==
  ASSUME TypeOK, NEW c \in Calls, Underway(c), Refuse(c)
  PROVE  TypeOK'
<1>1. Answered("refused", 0) \in Answers
  BY DEF Answered, Answers, Codes
<1>2. writer' \in Handles \cup {None}
  BY DEF Refuse, Rollback, TypeOK
<1>3. holder' \in [Handles -> Calls \cup {None}]
  BY DEF Refuse, Release, TypeOK
<1> QED BY <1>1, <1>2, <1>3, FinishType DEF Refuse, TypeOK, Underway

LEMMA StartType ==
  ASSUME TypeOK, NEW c \in Calls, NEW h \in Handles, NEW request \in Requests,
         NEW write \in BOOLEAN, Start(c, h, request, write)
  PROVE  TypeOK'
<1>1. Answered("refused", 0) \in Answers /\ Answered("unavailable", 0) \in Answers
  BY DEF Answered, Answers, Codes
<1>2. [handle |-> h, request |-> request, write |-> write] \in CallRecords
  BY DEF CallRecords
<1>3. /\ call' \in [Calls -> CallRecords \cup {None}]
      /\ call' = [call EXCEPT ![c] = [handle |-> h, request |-> request, write |-> write]]
  BY <1>2 DEF Start, TypeOK
<1>4. UNCHANGED <<log, author, writer, mode, failed, holder>>
  BY DEF Start, database, handles
<1>5. CASE \E answer \in Answers : Finish(c, answer)
  <2>1. /\ pc' \in [Calls -> Places] /\ result' \in [Calls -> Answers \cup {None}]
        /\ local' \in [Calls -> [log : Seq(Requests)] \cup Drafts \cup {None}]
        /\ pc' = [pc EXCEPT ![c] = "done"] /\ local' = [local EXCEPT ![c] = None]
    BY <1>5, FinishType
  <2>2. \A d \in Calls : pc'[d] # "idle" => call'[d] \in CallRecords
    BY <1>2, <1>3, <2>1 DEF TypeOK
  <2>3. \A d \in Calls : /\ pc'[d] = "begun" => local'[d] \in [log : Seq(Requests)]
                         /\ pc'[d] \in Drafting => local'[d] \in Drafts
    BY <2>1 DEF TypeOK, Drafting
  <2> QED BY <1>3, <1>4, <2>1, <2>2, <2>3 DEF TypeOK, Drafting
<1>6. CASE Continue(c, "waiting") /\ UNCHANGED local
  BY <1>2, <1>3, <1>4, <1>6 DEF TypeOK, Continue, Goto, Places
<1> QED BY <1>1, <1>5, <1>6 DEF Start

LEMMA EnterType ==
  ASSUME TypeOK, NEW c \in Calls, Enter(c)
  PROVE  TypeOK'
<1>1. Answered("unavailable", 0) \in Answers
  BY DEF Answered, Answers, Codes
<1>2. UNCHANGED <<log, author, writer, mode, failed, call>>
  BY DEF Enter, database
<1>3. CASE Finish(c, Answered("unavailable", 0)) /\ UNCHANGED holder
  <2>1. pc[c] # "idle"
    BY DEF Enter
  <2>2. /\ pc' \in [Calls -> Places] /\ result' \in [Calls -> Answers \cup {None}]
        /\ local' \in [Calls -> [log : Seq(Requests)] \cup Drafts \cup {None}]
        /\ pc' = [pc EXCEPT ![c] = "done"] /\ local' = [local EXCEPT ![c] = None]
    BY <1>1, <1>3, FinishType
  <2>3. \A d \in Calls : pc'[d] # "idle" => call'[d] \in CallRecords
    BY <1>2, <2>1, <2>2 DEF TypeOK
  <2>4. \A d \in Calls : /\ pc'[d] = "begun" => local'[d] \in [log : Seq(Requests)]
                         /\ pc'[d] \in Drafting => local'[d] \in Drafts
    BY <2>2 DEF TypeOK, Drafting
  <2> QED BY <1>2, <1>3, <2>2, <2>3, <2>4 DEF TypeOK, Drafting
<1>4. CASE /\ Continue(c, "locked") /\ UNCHANGED local
           /\ holder' = [holder EXCEPT ![call[c].handle] = c]
  <2>1. holder' \in [Handles -> Calls \cup {None}]
    BY <1>4 DEF TypeOK
  <2>2. pc' = [pc EXCEPT ![c] = "locked"] /\ pc[c] = "waiting" /\ UNCHANGED result
    BY <1>4 DEF Continue, Goto, Enter
  <2> QED BY <1>2, <1>4, <2>1, <2>2 DEF TypeOK, Places
<1> QED BY <1>3, <1>4 DEF Enter

LEMMA BeginType ==
  ASSUME TypeOK, NEW c \in Calls, Begin(c)
  PROVE  TypeOK'
<1>1. call[c] \in CallRecords
  BY DEF Begin, TypeOK
<1>2. writer' \in Handles \cup {None}
  BY <1>1 DEF Begin, TypeOK, CallRecords
<1>3. UNCHANGED <<log, author, mode, failed, holder, call>>
  BY DEF Begin, handles
<1>4. [log |-> log] \in [log : Seq(Requests)]
  BY DEF TypeOK
<1>5. local' = [local EXCEPT ![c] = [log |-> log]] /\ Continue(c, "begun")
  BY DEF Begin
<1> HIDE NoneAssumption
<1> QED BY <1>2, <1>3, <1>4, <1>5 DEF TypeOK, Continue, Goto, Places, Begin

LEMMA DecideType ==
  ASSUME TypeOK, NEW c \in Calls, pc[c] = "begun", NEW l \in Seq(Requests),
         NEW answer \in Answers, Decide(c, l, answer)
  PROVE  TypeOK'
<1>1. [log |-> l, answer |-> answer] \in Drafts
  BY DEF Drafts
<1>2. UNCHANGED <<log, author, writer, mode, failed, holder, call>>
  BY DEF Decide, database, handles
<1> QED BY <1>1, <1>2 DEF TypeOK, Decide, Continue, Goto, Places

LEMMA DecidesType ==
  ASSUME TypeOK, NEW c \in Calls, DecideOld(c) \/ DecideNew(c)
  PROVE  TypeOK'
<1>1. pc[c] = "begun" /\ Underway(c)
  BY DEF DecideOld, DecideNew, Underway
<1>2. call[c].request \in Requests /\ local[c].log \in Seq(Requests)
  BY <1>1 DEF TypeOK, CallRecords
<1>3. CASE Refuse(c)
  BY <1>1, <1>3, RefuseType
<1>4. CASE \E n \in DOMAIN local[c].log :
             Decide(c, local[c].log, Answered("already_recorded", n))
  <2>1. \A n \in DOMAIN local[c].log : Answered("already_recorded", n) \in Answers
    BY <1>2 DEF Answered, Answers, Codes
  <2> QED BY <1>1, <1>2, <1>4, <2>1, DecideType
<1>5. CASE Decide(c, Append(local[c].log, call[c].request),
                  Answered("recorded", Len(local[c].log) + 1))
  <2>1. Answered("recorded", Len(local[c].log) + 1) \in Answers
    BY <1>2 DEF Answered, Answers, Codes
  <2>2. Append(local[c].log, call[c].request) \in Seq(Requests)
    BY <1>2
  <2> QED BY <1>1, <1>5, <2>1, <2>2, DecideType
<1> QED BY <1>3, <1>4, <1>5 DEF DecideOld, DecideNew, Existing

LEMMA CheckType ==
  ASSUME TypeOK, NEW c \in Calls, Check(c)
  PROVE  TypeOK'
  BY DEF TypeOK, Check, Continue, Goto, Places, database, handles

LEMMA LeaveType ==
  ASSUME TypeOK, NEW c \in Calls, Leave(c)
  PROVE  TypeOK'
<1>1. holder' \in [Handles -> Calls \cup {None}]
  BY DEF Leave, Release, TypeOK
<1> QED BY <1>1 DEF TypeOK, Leave, Continue, Goto, Places, database

LEMMA ReturnType ==
  ASSUME TypeOK, NEW c \in Calls, Return(c)
  PROVE  TypeOK'
<1>1. local[c].answer \in Answers
  BY DEF Return, TypeOK, Drafts
<1> QED BY <1>1, FinishType DEF TypeOK, Return, database, handles

LEMMA FaultType ==
  ASSUME TypeOK, NEW c \in Calls, Fault(c) \/ Interrupt(c)
  PROVE  TypeOK'
<1>1. Answered("poisoned", 0) \in Answers /\ Answered("interrupted", 0) \in Answers
  BY DEF Answered, Answers, Codes, Uncertain
<1>2. writer' \in Handles \cup {None}
  BY DEF Fault, Interrupt, Rollback, TypeOK
<1>3. holder' \in [Handles -> Calls \cup {None}]
  BY DEF Fault, Interrupt, Release, TypeOK
<1>4. failed' \in [Handles -> BOOLEAN]
  BY DEF Fault, Interrupt, Poison, TypeOK
<1>5. PICK answer \in Answers : Finish(c, answer)
  BY <1>1 DEF Fault, Interrupt
<1>6. UNCHANGED <<log, author, mode, call>> /\ pc[c] # "idle"
  BY DEF Fault, Interrupt, Underway
<1>7. /\ pc' \in [Calls -> Places]
      /\ local' \in [Calls -> [log : Seq(Requests)] \cup Drafts \cup {None}]
      /\ result' \in [Calls -> Answers \cup {None}]
      /\ pc' = [pc EXCEPT ![c] = "done"] /\ local' = [local EXCEPT ![c] = None]
  BY <1>5, FinishType
<1> QED BY <1>2, <1>3, <1>4, <1>6, <1>7 DEF TypeOK

LEMMA EndingType ==
  ASSUME TypeOK, NEW h \in Handles, Crash(h) \/ Close(h)
  PROVE  TypeOK'
<1>1. CASE Crash(h)
  <2>1. Answered("lost", 0) \in Answers
    BY DEF Answered, Answers, Codes, Uncertain
  <2>2. \A c \in Calls : \/ pc'[c] = pc[c] /\ local'[c] = local[c]
                         \/ pc'[c] = "done" /\ pc[c] # "idle"
    <3> TAKE c \in Calls
    <3>1. pc'[c] = IF UsesHandle(c, h) THEN "done" ELSE pc[c]
      BY <1>1 DEF Crash
    <3>2. local'[c] = IF UsesHandle(c, h) THEN None ELSE local[c]
      BY <1>1 DEF Crash
    <3>3. CASE UsesHandle(c, h)
      BY <3>1, <3>3 DEF UsesHandle, Underway
    <3>4. CASE ~UsesHandle(c, h)
      BY <3>1, <3>2, <3>4
    <3> QED BY <3>3, <3>4
  <2>5. pc' \in [Calls -> Places]
    BY <1>1 DEF TypeOK, Crash, Places
  <2>3. local' \in [Calls -> [log : Seq(Requests)] \cup Drafts \cup {None}]
    BY <1>1 DEF TypeOK, Crash
  <2>4. result' \in [Calls -> Answers \cup {None}]
    BY <1>1, <2>1 DEF TypeOK, Crash
  <2> QED BY <1>1, <2>2, <2>3, <2>4, <2>5 DEF TypeOK, Crash
<1>2. CASE Close(h)
  BY <1>2 DEF TypeOK, Close, Poison, database, threads
<1> QED BY <1>1, <1>2
-----------------------------------------------------------------------------
(***************************************************************************)
(* The inductive invariant.  A call between its locks excludes every other *)
(* writer, so the log that its transaction read is still the log, and what *)
(* it has decided stays right until it commits.                            *)
(***************************************************************************)
LockedPlaces == {"locked", "begun", "decided", "checked", "committed"}

HoldsLock(c) == pc[c] \in LockedPlaces => holder[call[c].handle] = c

OwnsWrite(c) == pc[c] \in InTransaction /\ call[c].write => writer = call[c].handle

Receipts == {"recorded", "already_recorded"}

Truthful(c, answer) ==
  /\ answer.sequence \in DOMAIN log /\ log[answer.sequence] = call[c].request
  /\ answer.code = "recorded" <=> author[answer.sequence] = c

Planned(c) ==
  \/ /\ local[c].log = log
     /\ local[c].answer.code = "already_recorded"
     /\ local[c].answer.sequence \in DOMAIN log
     /\ log[local[c].answer.sequence] = call[c].request
  \/ /\ call[c].write /\ RecordLogSpec!Admissible(log, call[c].request)
     /\ local[c].log = Append(log, call[c].request)
     /\ local[c].answer = Answered("recorded", Len(log) + 1)

Accounted(c) ==
  \/ pc[c] \in {"committed", "released"} /\ local[c].answer.code = "recorded"
  \/ Done(c) /\ result[c].code \in {"recorded"} \cup Uncertain

CallInv(c) ==
  /\ HoldsLock(c) /\ OwnsWrite(c)
  /\ pc[c] = "begun" => local[c].log = log
  /\ pc[c] \in {"decided", "checked"} => Planned(c)
  /\ pc[c] \in {"committed", "released"} =>
       local[c].answer.code \in Receipts /\ Truthful(c, local[c].answer)
  /\ Done(c) /\ result[c].code \in Receipts => Truthful(c, result[c])
  /\ Records(c) # {} => Accounted(c)

StoreInv == TypeOK /\ \A c \in Calls : CallInv(c)

\* A call that does not move keeps its part, if its locks are left alone.
LEMMA Kept ==
  ASSUME NEW d \in Calls, CallInv(d), HoldsLock(d)', OwnsWrite(d)',
         UNCHANGED <<log, author>>,
         pc'[d] = pc[d], call'[d] = call[d], local'[d] = local[d], result'[d] = result[d]
  PROVE  CallInv(d)'
  BY DEF CallInv, Planned, Truthful, Accounted, Records, Done, RecordLogSpec!Admissible,
         RecordLogSpec!UsedEvents

\* A call takes its locks from nobody: the rollback and the release of one call
\* leave the locks of the others alone.
LEMMA OthersKeepLocks ==
  ASSUME StoreInv, NEW c \in Calls, NEW d \in Calls, d # c,
         pc[c] # "idle",
         pc'[d] = pc[d], call'[d] = call[d],
         Rollback(c) \/ UNCHANGED writer, Release(c) \/ UNCHANGED holder,
         pc[c] \in LockedPlaces \/ UNCHANGED writer
  PROVE  HoldsLock(d)' /\ OwnsWrite(d)'
<1>1. HoldsLock(c) /\ HoldsLock(d) /\ OwnsWrite(c) /\ OwnsWrite(d)
  BY DEF StoreInv, CallInv
<1>2. call[c].handle \in Handles
  BY DEF StoreInv, TypeOK, CallRecords
<1>3. pc[d] \in LockedPlaces => call[d].handle \in Handles
  BY DEF StoreInv, TypeOK, CallRecords, LockedPlaces
<1>4. HoldsLock(d)'
  BY <1>1, <1>2, <1>3 DEF HoldsLock, Release, StoreInv, TypeOK
<1>5. OwnsWrite(d)'
  <2>1. CASE UNCHANGED writer
    BY <1>1, <2>1 DEF OwnsWrite
  <2>2. CASE Rollback(c) /\ pc[c] \in InTransaction /\ call[c].write
    <3>1. ~(pc[d] \in InTransaction /\ call[d].write)
      BY <1>1, <2>2 DEF OwnsWrite, HoldsLock, InTransaction, LockedPlaces
    <3> QED BY <3>1 DEF OwnsWrite
  <2> QED BY <2>1, <2>2 DEF Rollback
<1> QED BY <1>4, <1>5

\* The end of a call without a receipt.
LEMMA EndsWithoutReceipt ==
  ASSUME StoreInv, NEW c \in Calls, NEW code \in Codes \ Receipts,
         Finish(c, Answered(code, 0)), UNCHANGED <<log, author, call>>,
         Records(c) = {} \/ code \in Uncertain
  PROVE  CallInv(c)'
<1>1. pc'[c] = "done" /\ result'[c] = Answered(code, 0)
  BY DEF StoreInv, TypeOK, Finish, Goto
<1>2. result'[c].code = code
  BY <1>1 DEF Answered
<1>3. Records(c)' = Records(c)
  BY DEF Records
<1> QED
  BY <1>1, <1>2, <1>3
  DEF CallInv, HoldsLock, OwnsWrite, LockedPlaces, InTransaction, Done, Accounted

LEMMA OthersKept ==
  ASSUME StoreInv, NEW c \in Calls, NEW d \in Calls, d # c,
         pc[c] # "idle", UNCHANGED <<log, author>>,
         pc'[d] = pc[d], call'[d] = call[d], local'[d] = local[d], result'[d] = result[d],
         Rollback(c) \/ UNCHANGED writer, Release(c) \/ UNCHANGED holder,
         pc[c] \in LockedPlaces \/ UNCHANGED writer
  PROVE  CallInv(d)'
  BY OthersKeepLocks, Kept DEF StoreInv

\* A call that ends without a receipt disturbs nobody.
LEMMA EndingStep ==
  ASSUME StoreInv, TypeOK', NEW c \in Calls, NEW code \in Codes \ Receipts,
         pc[c] # "idle", Finish(c, Answered(code, 0)), UNCHANGED <<log, author, call>>,
         Rollback(c) \/ UNCHANGED writer, Release(c) \/ UNCHANGED holder,
         Records(c) = {} \/ code \in Uncertain
  PROVE  StoreInv'
<1>1. CallInv(c)'
  BY EndsWithoutReceipt
<1>2. ASSUME NEW d \in Calls, d # c PROVE CallInv(d)'
  <2>1. pc'[d] = pc[d] /\ local'[d] = local[d] /\ result'[d] = result[d]
    BY <1>2 DEF Finish, Goto, StoreInv, TypeOK
  <2>2. pc[c] \in LockedPlaces \/ UNCHANGED writer
    BY DEF Rollback, InTransaction, LockedPlaces
  <2> QED BY <1>2, <2>1, <2>2, OthersKept
<1> QED BY <1>1, <1>2 DEF StoreInv

\* Before its commit a call has recorded nothing.
LEMMA NothingRecordedYet ==
  ASSUME StoreInv, NEW c \in Calls,
         pc[c] \notin {"committed", "released", "done"}
  PROVE  Records(c) = {}
  BY DEF StoreInv, CallInv, Accounted, Done

LEMMA RefuseStep ==
  ASSUME StoreInv, NEW c \in Calls, pc[c] = "begun", Refuse(c)
  PROVE  StoreInv'
<1>1. "refused" \in Codes \ Receipts
  BY DEF Codes, Receipts
<1>2. TypeOK'
  BY RefuseType DEF StoreInv, Underway
<1> QED BY <1>1, <1>2, EndingStep, NothingRecordedYet DEF Refuse

LEMMA FaultStep ==
  ASSUME StoreInv, NEW c \in Calls, Fault(c) \/ Interrupt(c)
  PROVE  StoreInv'
<1>1. {"poisoned", "interrupted"} \subseteq Codes \ Receipts
  BY DEF Codes, Receipts, Uncertain
<1>2. TypeOK'
  BY FaultType DEF StoreInv
<1>3. \E code \in {"poisoned", "interrupted"} : Finish(c, Answered(code, 0))
  BY DEF Fault, Interrupt
<1>4. /\ pc[c] # "idle" /\ UNCHANGED <<log, author, call>> /\ Rollback(c) /\ Release(c)
  BY DEF Fault, Interrupt, Underway
<1> QED BY <1>1, <1>2, <1>3, <1>4, EndingStep DEF Uncertain

\* A step of one call that keeps the database and stays between the locks.
LEMMA GoesOn ==
  ASSUME StoreInv, TypeOK', NEW c \in Calls, pc[c] # "idle", CallInv(c)',
         UNCHANGED <<log, author, writer, call, result>>,
         \A d \in Calls : d # c => pc'[d] = pc[d] /\ local'[d] = local[d],
         Release(c) \/ UNCHANGED holder
  PROVE  StoreInv'
<1>1. ASSUME NEW d \in Calls, d # c PROVE CallInv(d)'
  BY <1>1, OthersKept
<1> QED BY <1>1 DEF StoreInv

LEMMA DecideStep ==
  ASSUME StoreInv, NEW c \in Calls, DecideOld(c) \/ DecideNew(c)
  PROVE  StoreInv'
<1>1. pc[c] = "begun" /\ TypeOK' /\ local[c].log = log
  BY DecidesType DEF DecideOld, DecideNew, StoreInv, CallInv
<1>2. CASE Refuse(c)
  BY <1>1, <1>2, RefuseStep
<1>3. ASSUME NEW l, NEW answer, Decide(c, l, answer),
             \/ /\ l = log /\ answer.code = "already_recorded"
                /\ answer.sequence \in DOMAIN log
                /\ log[answer.sequence] = call[c].request
             \/ /\ call[c].write /\ RecordLogSpec!Admissible(log, call[c].request)
                /\ l = Append(log, call[c].request)
                /\ answer = Answered("recorded", Len(log) + 1)
      PROVE  StoreInv'
  <2>1. /\ pc'[c] = "decided" /\ local'[c] = [log |-> l, answer |-> answer]
        /\ \A d \in Calls : d # c => pc'[d] = pc[d] /\ local'[d] = local[d]
        /\ UNCHANGED <<log, author, writer, holder, call, result>>
    BY <1>3 DEF Decide, Continue, Goto, StoreInv, TypeOK, database, handles
  <2>2. Records(c)' = {}
    BY <1>1, <2>1, NothingRecordedYet DEF Records
  <2>3. Planned(c)'
    BY <1>3, <2>1 DEF Planned, RecordLogSpec!Admissible, RecordLogSpec!UsedEvents
  <2>4. HoldsLock(c)' /\ OwnsWrite(c)'
    BY <1>1, <2>1
    DEF StoreInv, CallInv, HoldsLock, OwnsWrite, InTransaction, LockedPlaces
  <2>5. CallInv(c)'
    BY <2>1, <2>2, <2>3, <2>4 DEF CallInv, Done
  <2> QED BY <1>1, <2>1, <2>5, GoesOn
<1>4. CASE DecideOld(c) /\ ~Refuse(c)
  BY <1>1, <1>3, <1>4 DEF DecideOld, Existing, Answered
<1>5. CASE DecideNew(c) /\ ~Refuse(c)
  <2>1. RecordLogSpec!Admissible(log, call[c].request)
    BY <1>1, <1>5 DEF DecideNew, Existing, RecordLogSpec!Admissible, RecordLogSpec!UsedEvents
  <2> QED BY <1>1, <1>3, <1>5, <2>1 DEF DecideNew
<1> QED BY <1>2, <1>4, <1>5

LEMMA StartStep ==
  ASSUME StoreInv, NEW c \in Calls, NEW h \in Handles, NEW request \in Requests,
         NEW write \in BOOLEAN, Start(c, h, request, write)
  PROVE  StoreInv'
<1>1. TypeOK' /\ pc[c] = "idle" /\ UNCHANGED <<log, author, writer, mode, failed, holder>>
  BY StartType DEF StoreInv, Start, database, handles
<1>2. /\ \A d \in Calls : d # c => /\ pc'[d] = pc[d] /\ call'[d] = call[d]
                                  /\ local'[d] = local[d] /\ result'[d] = result[d]
      /\ \/ pc'[c] = "waiting"
         \/ pc'[c] = "done" /\ result'[c].code \in {"refused", "unavailable"}
  BY DEF Start, Finish, Continue, Goto, StoreInv, TypeOK, Answered
<1>3. CallInv(c)'
  <2>1. Records(c)' = {}
    BY <1>1, NothingRecordedYet DEF Records
  <2> QED
    BY <1>2, <2>1
    DEF CallInv, HoldsLock, OwnsWrite, LockedPlaces, InTransaction, Done, Receipts
<1>4. ASSUME NEW d \in Calls, d # c PROVE CallInv(d)'
  <2>1. HoldsLock(d)' /\ OwnsWrite(d)'
    BY <1>1, <1>2, <1>4 DEF StoreInv, CallInv, HoldsLock, OwnsWrite
  <2> QED BY <1>1, <1>2, <1>4, <2>1, Kept DEF StoreInv
<1> QED BY <1>1, <1>3, <1>4 DEF StoreInv

LEMMA EnterStep ==
  ASSUME StoreInv, NEW c \in Calls, Enter(c)
  PROVE  StoreInv'
<1>1. TypeOK' /\ pc[c] = "waiting" /\ holder[call[c].handle] = None
      /\ UNCHANGED <<log, author, writer, call>>
  BY EnterType DEF StoreInv, Enter, database
<1>2. CASE Finish(c, Answered("unavailable", 0)) /\ UNCHANGED holder
  <2>1. "unavailable" \in Codes \ Receipts
    BY DEF Codes, Receipts
  <2> QED BY <1>1, <1>2, <2>1, EndingStep, NothingRecordedYet
<1>3. CASE /\ Continue(c, "locked") /\ UNCHANGED local
           /\ holder' = [holder EXCEPT ![call[c].handle] = c]
  <2>1. /\ pc'[c] = "locked"
        /\ \A d \in Calls : d # c => pc'[d] = pc[d]
        /\ UNCHANGED <<local, result>>
    BY <1>3 DEF Continue, Goto, StoreInv, TypeOK
  <2>2. call[c].handle \in Handles
    BY <1>1 DEF StoreInv, TypeOK, CallRecords
  <2>3. CallInv(c)'
    <3>1. Records(c)' = {}
      BY <1>1, NothingRecordedYet DEF Records
    <3>2. holder'[call[c].handle] = c
      BY <1>3, <2>2 DEF StoreInv, TypeOK
    <3> QED
      BY <1>1, <2>1, <3>1, <3>2 DEF CallInv, HoldsLock, OwnsWrite, InTransaction, Done
  <2>4. ASSUME NEW d \in Calls, d # c PROVE CallInv(d)'
    <3>1. HoldsLock(d) /\ OwnsWrite(d)
      BY DEF StoreInv, CallInv
    <3>2. pc[d] \in LockedPlaces => call[d].handle \in Handles
      BY DEF StoreInv, TypeOK, CallRecords, LockedPlaces
    <3>3. HoldsLock(d)' /\ OwnsWrite(d)'
      BY <1>1, <1>3, <2>1, <2>4, <3>1, <3>2 DEF HoldsLock, OwnsWrite, StoreInv, TypeOK
    <3> QED BY <1>1, <2>1, <2>4, <3>3, Kept DEF StoreInv
  <2> QED BY <1>1, <2>3, <2>4 DEF StoreInv
<1> QED BY <1>2, <1>3 DEF Enter

LEMMA BeginStep ==
  ASSUME StoreInv, NEW c \in Calls, Begin(c)
  PROVE  StoreInv'
<1>1. /\ TypeOK' /\ pc[c] = "locked" /\ pc'[c] = "begun" /\ local'[c] = [log |-> log]
      /\ \A d \in Calls : d # c => pc'[d] = pc[d] /\ local'[d] = local[d]
      /\ UNCHANGED <<log, author, holder, call, result>>
  BY BeginType DEF StoreInv, TypeOK, Begin, Continue, Goto, handles
<1>2. call[c].write => writer = None /\ writer' = call[c].handle
  BY DEF Begin
<1>3. ~call[c].write => UNCHANGED writer
  BY DEF Begin
<1>4. CallInv(c)'
  <2>1. Records(c)' = {}
    BY <1>1, NothingRecordedYet DEF Records
  <2> QED
    BY <1>1, <1>2, <2>1
    DEF StoreInv, CallInv, HoldsLock, OwnsWrite, LockedPlaces, InTransaction, Done
<1>5. ASSUME NEW d \in Calls, d # c PROVE CallInv(d)'
  <2>1. HoldsLock(d) /\ OwnsWrite(d)
    BY DEF StoreInv, CallInv
  <2>2. pc[d] \in InTransaction => call[d].handle \in Handles
    BY DEF StoreInv, TypeOK, CallRecords, InTransaction
  <2>3. HoldsLock(d)' /\ OwnsWrite(d)'
    BY <1>1, <1>2, <1>3, <1>5, <2>1, <2>2 DEF HoldsLock, OwnsWrite
  <2> QED BY <1>1, <1>5, <2>3, Kept DEF StoreInv
<1> QED BY <1>1, <1>4, <1>5 DEF StoreInv

LEMMA CheckStep ==
  ASSUME StoreInv, NEW c \in Calls, Check(c)
  PROVE  StoreInv'
<1>1. /\ TypeOK' /\ pc[c] = "decided" /\ pc'[c] = "checked"
      /\ \A d \in Calls : d # c => pc'[d] = pc[d]
      /\ UNCHANGED <<log, author, writer, holder, call, local, result>>
  BY CheckType DEF StoreInv, TypeOK, Check, Continue, Goto, database, handles
<1>2. CallInv(c)'
  <2>1. Records(c)' = {}
    BY <1>1, NothingRecordedYet DEF Records
  <2>2. Planned(c)'
    BY <1>1 DEF StoreInv, CallInv, Planned, RecordLogSpec!Admissible,
                RecordLogSpec!UsedEvents
  <2> QED
    BY <1>1, <2>1, <2>2
    DEF StoreInv, CallInv, HoldsLock, OwnsWrite, LockedPlaces, InTransaction, Done
<1> QED BY <1>1, <1>2, GoesOn

LEMMA LeaveStep ==
  ASSUME StoreInv, NEW c \in Calls, Leave(c)
  PROVE  StoreInv'
<1>1. /\ TypeOK' /\ pc[c] = "committed" /\ pc'[c] = "released"
      /\ \A d \in Calls : d # c => pc'[d] = pc[d]
      /\ UNCHANGED <<log, author, writer, call, local, result>> /\ Release(c)
  BY LeaveType DEF StoreInv, TypeOK, Leave, Continue, Goto, database
<1>2. CallInv(c)'
  BY <1>1 DEF StoreInv, CallInv, HoldsLock, OwnsWrite, LockedPlaces, InTransaction, Done,
              Truthful, Accounted, Records
<1> QED BY <1>1, <1>2, GoesOn

LEMMA ReturnStep ==
  ASSUME StoreInv, NEW c \in Calls, Return(c)
  PROVE  StoreInv'
<1>1. /\ TypeOK' /\ pc[c] = "released" /\ pc'[c] = "done"
      /\ result'[c] = local[c].answer
      /\ \A d \in Calls : d # c => /\ pc'[d] = pc[d] /\ local'[d] = local[d]
                                  /\ result'[d] = result[d]
      /\ UNCHANGED <<log, author, writer, holder, call>>
  BY ReturnType DEF StoreInv, TypeOK, Return, Finish, Goto, database, handles
<1>2. CallInv(c)'
  BY <1>1 DEF StoreInv, CallInv, HoldsLock, OwnsWrite, LockedPlaces, InTransaction, Done,
              Truthful, Accounted, Records
<1>3. ASSUME NEW d \in Calls, d # c PROVE CallInv(d)'
  BY <1>1, <1>3, OthersKept
<1> QED BY <1>1, <1>2, <1>3 DEF StoreInv

\* What a commit does to the database: nothing, or one admissible request more.
LEMMA CommitEffect ==
  ASSUME StoreInv, NEW c \in Calls, Commit(c)
  PROVE  \/ /\ UNCHANGED <<log, author>>
            /\ local[c].answer.code = "already_recorded"
            /\ local[c].answer.sequence \in DOMAIN log
            /\ log[local[c].answer.sequence] = call[c].request
         \/ /\ call[c].write
            /\ RecordLogSpec!Admissible(log, call[c].request)
            /\ log' = Append(log, call[c].request) /\ author' = Append(author, c)
            /\ local[c].answer = Answered("recorded", Len(log) + 1)
<1>1. pc[c] = "checked" /\ Planned(c)
  BY DEF Commit, StoreInv, CallInv
<1>2. log \in Seq(Requests) /\ call[c].request \in Requests
  BY <1>1 DEF StoreInv, TypeOK, CallRecords
<1>3. CASE local[c].log = log /\ local[c].answer.code = "already_recorded"
  BY <1>1, <1>2, <1>3 DEF Commit, Planned, database, Answered
<1>4. CASE /\ call[c].write /\ RecordLogSpec!Admissible(log, call[c].request)
           /\ local[c].log = Append(log, call[c].request)
           /\ local[c].answer = Answered("recorded", Len(log) + 1)
  <2>1. Len(Append(log, call[c].request)) > Len(log)
    BY <1>2
  <2> QED BY <1>4, <2>1 DEF Commit
<1> QED BY <1>1, <1>3, <1>4 DEF Planned

LEMMA CommitStep ==
  ASSUME StoreInv, NEW c \in Calls, Commit(c)
  PROVE  StoreInv'
<1>1. /\ pc[c] = "checked" /\ pc'[c] = "committed"
      /\ pc' = [pc EXCEPT ![c] = "committed"]
      /\ \A d \in Calls : d # c => pc'[d] = pc[d]
      /\ UNCHANGED <<mode, failed, holder, call, local, result>>
      /\ writer' \in {None, writer} /\ (~call[c].write => UNCHANGED writer)
  BY DEF StoreInv, TypeOK, Commit, Continue, Goto, database, handles
<1>2. /\ log \in Seq(Requests) /\ author \in Seq(Calls) /\ Len(author) = Len(log)
      /\ call[c].request \in Requests
  BY <1>1 DEF StoreInv, TypeOK, CallRecords
<1>3. /\ log' \in Seq(Requests) /\ author' \in Seq(Calls) /\ Len(author') = Len(log')
      /\ \A n \in DOMAIN log : /\ n \in DOMAIN log' /\ log'[n] = log[n]
                              /\ author'[n] = author[n]
      /\ \A n \in DOMAIN author' \ DOMAIN author : author'[n] = c
      /\ DOMAIN author = DOMAIN log
  <2>1. DOMAIN author = DOMAIN log
    BY <1>2
  <2>2. CASE UNCHANGED <<log, author>>
    BY <1>2, <2>1, <2>2
  <2>3. CASE log' = Append(log, call[c].request) /\ author' = Append(author, c)
    <3>1. log' \in Seq(Requests) /\ author' \in Seq(Calls) /\ Len(author') = Len(log')
      BY <1>2, <2>3
    <3>2. \A n \in DOMAIN log : n \in DOMAIN log' /\ log'[n] = log[n]
      BY <1>2, <2>3
    <3>3. \A n \in DOMAIN log : author'[n] = author[n]
      BY <1>2, <2>1, <2>3
    <3>4. \A n \in DOMAIN author' \ DOMAIN author : author'[n] = c
      BY <1>2, <2>3
    <3> QED BY <2>1, <3>1, <3>2, <3>3, <3>4
  <2> QED BY <2>2, <2>3, CommitEffect
<1>4. TypeOK'
  <2>1. writer' \in Handles \cup {None} /\ pc' \in [Calls -> Places]
    BY <1>1 DEF StoreInv, TypeOK, Places
  <2> QED BY <1>1, <1>3, <2>1 DEF StoreInv, TypeOK
<1>5. CallInv(c)'
  <2>1. HoldsLock(c)' /\ OwnsWrite(c)'
    BY <1>1 DEF StoreInv, CallInv, HoldsLock, OwnsWrite, LockedPlaces, InTransaction
  <2>2. Records(c) = {}
    BY <1>1, NothingRecordedYet
  <2>3. CASE /\ UNCHANGED <<log, author>>
             /\ local[c].answer.code = "already_recorded"
             /\ local[c].answer.sequence \in DOMAIN log
             /\ log[local[c].answer.sequence] = call[c].request
    BY <1>1, <1>3, <2>1, <2>2, <2>3
    DEF CallInv, Truthful, Receipts, Records, Accounted, Done
  <2>4. CASE /\ log' = Append(log, call[c].request) /\ author' = Append(author, c)
             /\ local[c].answer = Answered("recorded", Len(log) + 1)
    <3>1. local'[c].answer.code = "recorded" /\ local'[c].answer.sequence = Len(log) + 1
      BY <1>1, <2>4 DEF Answered
    <3>2. /\ Len(log) + 1 \in DOMAIN log' /\ log'[Len(log) + 1] = call[c].request
          /\ author'[Len(log) + 1] = c
      BY <1>2, <2>4
    <3> QED
      BY <1>1, <2>1, <3>1, <3>2 DEF CallInv, Truthful, Receipts, Accounted, Done
  <2> QED BY <2>3, <2>4, CommitEffect
<1>6. ASSUME NEW d \in Calls, d # c PROVE CallInv(d)'
  <2>1. CallInv(d) /\ CallInv(c)
    BY DEF StoreInv
  <2>2. HoldsLock(d)' /\ OwnsWrite(d)' /\ (call[c].write => pc[d] \notin InTransaction)
    <3>1. call[c].write => pc[d] \notin InTransaction
      BY <1>1, <1>6, <2>1
      DEF Commit, Reading, CallInv, OwnsWrite, HoldsLock, LockedPlaces, InTransaction
    <3> QED BY <1>1, <1>6, <2>1, <3>1 DEF CallInv, OwnsWrite, HoldsLock
  <2>3. CASE UNCHANGED <<log, author>>
    BY <1>1, <1>6, <2>1, <2>2, <2>3, Kept
  <2>4. CASE pc[d] \notin InTransaction
    <3>1. \A answer : Truthful(d, answer) => Truthful(d, answer)'
      BY <1>1, <1>3, <1>6 DEF Truthful
    <3>2. Records(d)' # {} => Records(d) # {}
      BY <1>3, <1>6 DEF Records
    <3>3. Accounted(d) => Accounted(d)'
      BY <1>1, <1>6 DEF Accounted, Done
    <3> QED
      BY <1>1, <1>6, <2>1, <2>2, <2>4, <3>1, <3>2, <3>3
      DEF CallInv, InTransaction, Done
  <2> QED BY <2>2, <2>3, <2>4, CommitEffect
<1> QED BY <1>4, <1>5, <1>6 DEF StoreInv

LEMMA EndStep ==
  ASSUME StoreInv, NEW h \in Handles, Crash(h) \/ Close(h)
  PROVE  StoreInv'
<1>1. TypeOK' /\ UNCHANGED <<log, author, call>>
  BY EndingType DEF StoreInv, Crash, Close, database, threads
<1>2. ASSUME NEW d \in Calls PROVE CallInv(d)'
  <2>1. HoldsLock(d) /\ OwnsWrite(d)
    BY DEF StoreInv, CallInv
  <2>2. CASE Close(h)
    <3>1. UNCHANGED <<writer, holder, pc, local, result>>
      BY <2>2 DEF Close, database, threads
    <3> QED BY <1>1, <2>1, <3>1, Kept DEF StoreInv, HoldsLock, OwnsWrite
  <2>3. CASE Crash(h) /\ UsesHandle(d, h)
    <3>1. pc'[d] = "done" /\ result'[d] = Answered("lost", 0)
      BY <2>3 DEF Crash
    <3>2. result'[d].code = "lost"
      BY <3>1 DEF Answered
    <3> QED
      BY <3>1, <3>2
      DEF CallInv, HoldsLock, OwnsWrite, LockedPlaces, InTransaction, Done, Accounted,
          Receipts, Uncertain
  <2>4. CASE Crash(h) /\ ~UsesHandle(d, h)
    <3>1. /\ pc'[d] = pc[d] /\ local'[d] = local[d] /\ result'[d] = result[d]
          /\ writer' = IF writer = h THEN None ELSE writer
          /\ holder' = [holder EXCEPT ![h] = None]
      BY <2>4 DEF Crash
    <3>2. pc[d] \in LockedPlaces => call[d].handle # h
      BY <2>4 DEF UsesHandle, Underway, LockedPlaces
    <3>3. pc[d] \in InTransaction => pc[d] \in LockedPlaces
      BY DEF InTransaction, LockedPlaces
    <3>4. HoldsLock(d)' /\ OwnsWrite(d)'
      BY <1>1, <2>1, <3>1, <3>2, <3>3 DEF HoldsLock, OwnsWrite, StoreInv, TypeOK
    <3> QED BY <1>1, <3>1, <3>4, Kept DEF StoreInv
  <2> QED BY <2>2, <2>3, <2>4
<1> QED BY <1>1, <1>2 DEF StoreInv

LEMMA StoreStep == StoreInv /\ [Next]_vars => StoreInv'
<1> SUFFICES ASSUME StoreInv, [Next]_vars PROVE StoreInv'
  OBVIOUS
<1>1. CASE Opens \/ UNCHANGED vars
  <2>1. /\ UNCHANGED <<log, author, writer, failed, holder, pc, call, local, result>>
        /\ mode' \in [Handles -> {"unopened", "rw", "ro", "closed", "dead"}]
    BY <1>1 DEF Opens, Open, vars, database, handles, threads, StoreInv, TypeOK
  <2>2. TypeOK'
    BY <2>1 DEF StoreInv, TypeOK
  <2>3. ASSUME NEW d \in Calls PROVE CallInv(d)'
    BY <2>1, Kept DEF StoreInv, CallInv, HoldsLock, OwnsWrite
  <2> QED BY <2>2, <2>3 DEF StoreInv
<1>2. CASE Starts
  BY <1>2, StartStep DEF Starts
<1>3. CASE Enters
  BY <1>3, EnterStep DEF Enters
<1>4. CASE Begins
  BY <1>4, BeginStep DEF Begins
<1>5. CASE Decides
  BY <1>5, DecideStep DEF Decides
<1>6. CASE Checks
  BY <1>6, CheckStep DEF Checks
<1>7. CASE Commits
  BY <1>7, CommitStep DEF Commits
<1>8. CASE Leaves
  BY <1>8, LeaveStep, ReturnStep DEF Leaves
<1>9. CASE Faults
  BY <1>9, FaultStep DEF Faults
<1>10. CASE Endings
  BY <1>10, EndStep DEF Endings
<1> QED BY <1>1, <1>2, <1>3, <1>4, <1>5, <1>6, <1>7, <1>8, <1>9, <1>10 DEF Next

LEMMA StoreInit == Init => StoreInv
  BY InitType
  DEF StoreInv, Init, CallInv, HoldsLock, OwnsWrite, LockedPlaces, InTransaction, Done, Records

LEMMA StoreAlways == Spec => []StoreInv
  BY StoreInit, StoreStep, PTL DEF Spec
-----------------------------------------------------------------------------
\* The store's state is well typed; every recorded request has an author.
THEOREM StoreTypeCorrect == Spec => []TypeOK
  BY StoreAlways, PTL DEF StoreInv

\* Whatever fails, a receipt once given names its request's place in the log.
THEOREM ReceiptsHold == Spec => []ReceiptsAreTrue
<1>1. StoreInv => ReceiptsAreTrue
  BY DEF StoreInv, CallInv, Truthful, Receipts, ReceiptsAreTrue
<1> QED BY <1>1, StoreAlways, PTL

\* A call that ended in a clean error recorded nothing.
THEOREM CleanErrorsHold == Spec => []CleanErrorsRecordNothing
<1>1. StoreInv => CleanErrorsRecordNothing
  BY DEF StoreInv, CallInv, Accounted, Done, CleanErrorsRecordNothing
<1> QED BY <1>1, StoreAlways, PTL

-----------------------------------------------------------------------------
(***************************************************************************)
(* Poison.  _failed is set with the answer that poisons and never cleared, *)
(* and a call passes its checks only while it is not.                      *)
(***************************************************************************)
PoisonLasts == \A d \in Calls : Done(d) /\ result[d].code = "poisoned" => failed[call[d].handle]

\* The call c will record nothing by the handle h.
Barred(c, h) ==
  /\ failed[h]
  /\ pc[c] # "idle" /\ call[c].handle = h =>
       pc[c] \notin {"checked", "committed", "released"} /\ Records(c) = {}

\* No step clears a handle that has failed.
LEMMA FailedStays ==
  ASSUME StoreInv, [Next]_vars, NEW h \in Handles, failed[h]
  PROVE  failed'[h]
BY DEF StoreInv, TypeOK, Next, Opens, Open, Starts, Start, Enters, Enter, Begins, Begin, Decides,
       DecideOld, DecideNew, Decide, Refuse, Checks, Check, Commits, Commit, Leaves, Leave, Return,
       Faults, Fault, Interrupt, Endings, Crash, Close, Poison, vars, database, handles, threads

\* A call that has not passed its checks passes them only on a handle that has not failed.
LEMMA ChecksFirst ==
  ASSUME StoreInv, [Next]_vars, NEW c \in Calls,
         pc[c] \notin {"checked", "committed", "released"},
         pc'[c] \in {"checked", "committed", "released"}
  PROVE  /\ pc[c] # "idle" /\ ~failed[call[c].handle]
         /\ pc[c] \notin {"checked", "committed", "released"}
<1> pc \in [Calls -> Places]
  BY DEF StoreInv, TypeOK
<1>1. ASSUME NEW d \in Calls, NEW place, Goto(d, place), d # c \/ place \in Places \ {"checked", "committed", "released"}
      PROVE  FALSE
  BY <1>1 DEF Goto
<1>2. CASE Opens \/ UNCHANGED vars \/ \E h \in Handles : Close(h)
  BY <1>2 DEF Opens, Open, Close, vars, threads
<1>3. CASE \E h \in Handles : Crash(h)
  BY <1>3 DEF Crash
<1>4. CASE Starts \/ Enters \/ Begins
  BY <1>4, <1>1 DEF Starts, Start, Enters, Enter, Begins, Begin, Finish, Continue, Places
<1>5. CASE Decides \/ Faults
  BY <1>5, <1>1 DEF Decides, DecideOld, DecideNew, Decide, Refuse, Faults, Fault, Interrupt, Finish, Continue, Places
<1>6. CASE Checks
  <2>1. PICK d \in Calls : Check(d)
    BY <1>6 DEF Checks
  <2>2. d = c
    BY <2>1, <1>1 DEF Check, Continue
  <2> QED
    BY <2>1, <2>2 DEF Check
<1>7. CASE Commits \/ Leaves
  <2>1. PICK d \in Calls : Commit(d) \/ Leave(d) \/ Return(d)
    BY <1>7 DEF Commits, Leaves
  <2>2. d # c
    BY <2>1, <1>1 DEF Commit, Leave, Return, Finish, Places
  <2> QED
    BY <2>1, <2>2, <1>1 DEF Commit, Leave, Return, Finish, Continue
<1> QED
  BY <1>2, <1>3, <1>4, <1>5, <1>6, <1>7 DEF Next, Endings

\* Only the commit of a call records its request.
LEMMA OthersRecord ==
  ASSUME StoreInv, [Next]_vars, NEW c \in Calls, pc[c] # "checked"
  PROVE  Records(c)' = Records(c)
<1>1. CASE Commits
  <2>1. PICK d \in Calls : Commit(d)
    BY <1>1 DEF Commits
  <2>2. d # c /\ author \in Seq(Calls)
    BY <2>1 DEF Commit, StoreInv, TypeOK
  <2>3. UNCHANGED author \/ author' = Append(author, d)
    BY <2>1, CommitEffect
  <2> QED
    BY <2>2, <2>3 DEF Records
<1>2. CASE ~Commits
  <2>1. UNCHANGED author
    BY <1>2 DEF Next, Opens, Open, Starts, Start, Enters, Enter, Begins, Begin, Decides, DecideOld,
           DecideNew, Decide, Refuse, Checks, Check, Leaves, Leave, Return, Faults, Fault,
           Interrupt, Endings, Crash, Close, vars, database, handles
  <2> QED
    BY <2>1 DEF Records
<1> QED
  BY <1>1, <1>2

\* A call keeps its handle once it has started.
LEMMA CallsStay ==
  ASSUME StoreInv, [Next]_vars, NEW c \in Calls, pc[c] # "idle"
  PROVE  call'[c] = call[c]
<1>1. CASE Starts
  <2>1. PICK d \in Calls, h \in Handles, request \in Requests, write \in BOOLEAN :
          Start(d, h, request, write)
    BY <1>1 DEF Starts
  <2> QED
    BY <2>1 DEF Start, StoreInv, TypeOK
<1>2. CASE ~Starts
  BY <1>2 DEF Next, Opens, Open, Enters, Enter, Begins, Begin, Decides, DecideOld,
         DecideNew, Decide, Refuse, Checks, Check, Commits, Commit, Leaves, Leave, Return, Faults,
         Fault, Interrupt, Endings, Crash, Close, vars, database, handles, threads
<1> QED
  BY <1>1, <1>2

LEMMA BarredStays ==
  ASSUME StoreInv, [Next]_vars, NEW c \in Calls, NEW h \in Handles, Barred(c, h)
  PROVE  Barred(c, h)'
<1>1. failed'[h]
  BY FailedStays DEF Barred
<1>2. CASE pc[c] = "idle"
  <2>1. Records(c) = {} /\ Records(c)' = Records(c)
    BY <1>2, NothingRecordedYet, OthersRecord
  <2>2. pc'[c] \notin {"checked", "committed", "released"}
    BY <1>2, ChecksFirst
  <2> QED
    BY <1>1, <2>1, <2>2 DEF Barred
<1>3. CASE pc[c] # "idle" /\ call[c].handle = h
  <2>1. pc[c] \notin {"checked", "committed", "released"} /\ Records(c) = {} /\ failed[h]
    BY <1>3 DEF Barred
  <2>2. Records(c)' = Records(c)
    BY <2>1, OthersRecord
  <2>3. pc'[c] \notin {"checked", "committed", "released"}
    BY <1>3, <2>1, ChecksFirst
  <2> QED
    BY <1>1, <2>1, <2>2, <2>3 DEF Barred
<1>4. CASE pc[c] # "idle" /\ call[c].handle # h
  BY <1>1, <1>4, CallsStay DEF Barred
<1> QED
  BY <1>2, <1>3, <1>4

\* The only answer that poisons comes from a fault, which sets the flag.
LEMMA PoisonKept ==
  ASSUME StoreInv, StoreInv', PoisonLasts, [Next]_vars
  PROVE  PoisonLasts'
<1> SUFFICES ASSUME NEW d \in Calls, Done(d)', result'[d].code = "poisoned"
             PROVE  failed'[call'[d].handle]
  BY DEF PoisonLasts
<1>1. call'[d].handle \in Handles
  BY DEF StoreInv, TypeOK, CallRecords, Done
<1>2. CASE Done(d) /\ result[d].code = "poisoned"
  <2>1. call'[d] = call[d] /\ failed[call[d].handle]
    BY <1>2, CallsStay DEF PoisonLasts, Done
  <2> QED
    BY <1>1, <2>1, FailedStays
<1>3. CASE ~(Done(d) /\ result[d].code = "poisoned")
  <2>1. ASSUME NEW c \in Calls, NEW answer, Finish(c, answer), answer.code # "poisoned"
        PROVE  FALSE
    <3>1. d = c => result'[d].code = answer.code
      BY <2>1 DEF Finish, StoreInv, TypeOK
    <3>2. d # c => result'[d] = result[d] /\ pc'[d] = pc[d]
      BY <2>1 DEF Finish, Goto, StoreInv, TypeOK
    <3> QED
      BY <1>3, <2>1, <3>1, <3>2 DEF Done
  <2>2. ASSUME NEW c \in Calls, NEW place, Goto(c, place), UNCHANGED result, place # "done"
        PROVE  FALSE
    <3>1. pc'[d] # "done" \/ pc'[d] = pc[d]
      BY <2>2 DEF Goto, StoreInv, TypeOK
    <3> QED
      BY <1>3, <2>2, <3>1 DEF Done
  <2>3. /\ Answered("refused", 0).code = "refused" /\ Answered("unavailable", 0).code = "unavailable"
        /\ Answered("interrupted", 0).code = "interrupted" /\ Answered("lost", 0).code = "lost"
    BY DEF Answered
  <2>4. CASE \E c \in Calls : Fault(c)
    <3>1. PICK c \in Calls : Fault(c)
      BY <2>4
    <3>2. d = c
      BY <1>3, <3>1 DEF Fault, Finish, Goto, StoreInv, TypeOK, Done
    <3> QED
      BY <1>1, <3>1, <3>2 DEF Fault, Poison, StoreInv, TypeOK
  <2>5. CASE Opens \/ UNCHANGED vars \/ \E h \in Handles : Close(h)
    BY <1>3, <2>5 DEF Opens, Open, Close, vars, threads, Done
  <2>6. CASE \E h \in Handles : Crash(h)
    BY <1>3, <2>3, <2>6 DEF Crash, Done, UsesHandle
  <2>7. CASE Starts \/ Enters \/ Begins
    BY <2>1, <2>2, <2>3, <2>7 DEF Starts, Start, Enters, Enter, Begins, Begin, Continue
  <2>8. CASE Decides \/ Checks \/ Commits
    BY <2>1, <2>2, <2>3, <2>8 DEF Decides, DecideOld, DecideNew, Decide, Refuse, Checks, Check,
                                Commits, Commit, Continue
  <2>9. CASE Leaves
    <3>1. PICK c \in Calls : Leave(c) \/ Return(c)
      BY <2>9 DEF Leaves
    <3>2. CASE Leave(c)
      BY <2>2, <3>2 DEF Leave, Continue
    <3>3. CASE Return(c)
      <4>1. local[c].answer.code \in Receipts
        BY <3>3 DEF Return, StoreInv, CallInv
      <4> QED
        BY <2>1, <3>3, <4>1 DEF Return, Receipts
    <3> QED
      BY <3>1, <3>2, <3>3
  <2>10. CASE \E c \in Calls : Interrupt(c)
    BY <2>1, <2>3, <2>10 DEF Interrupt
  <2> QED
    BY <2>4, <2>5, <2>6, <2>7, <2>8, <2>9, <2>10 DEF Next, Endings, Faults
<1> QED
  BY <1>2, <1>3

LEMMA PoisonAlways == Spec => [](StoreInv /\ PoisonLasts)
<1>1. Init => PoisonLasts
  BY DEF Init, PoisonLasts, Done
<1>2. StoreInv /\ StoreInv' /\ PoisonLasts /\ [Next]_vars => PoisonLasts'
  BY PoisonKept
<1> QED
  BY <1>1, <1>2, StoreAlways, PTL DEF Spec

\* Once a caller was told of an uncertain outcome, the handle records nothing more, but for
\* calls that have passed their checks already.
THEOREM PoisonStays == Spec => PoisonIsFinal
<1> SUFFICES ASSUME NEW c \in Calls, NEW h \in Handles
             PROVE  Spec => []((Poisoned(h) /\ pc[c] \notin {"checked", "committed", "released", "done"})
                                 => [](Records(c) # {} => call[c].handle # h))
  BY DEF PoisonIsFinal
<1>1. StoreInv /\ PoisonLasts /\ Poisoned(h) /\ pc[c] \notin {"checked", "committed", "released", "done"}
        => Barred(c, h)
  BY NothingRecordedYet DEF Barred, Poisoned, PoisonLasts
<1>2. StoreInv /\ Barred(c, h) /\ [Next]_vars => Barred(c, h)'
  BY BarredStays
<1>3. StoreInv /\ Barred(c, h) => (Records(c) # {} => call[c].handle # h)
  BY NothingRecordedYet DEF Barred
<1> QED
  BY <1>1, <1>2, <1>3, PoisonAlways, PTL DEF Spec

\* With any engine, any number of handles, processes and threads, and any faults,
\* the store is a log to which one admissible request at a time is appended.
THEOREM StoreIsRecordLog == Spec => ImplementsRecordLog
<1>1. Init => RecordLogSpec!Init
  BY DEF Init, RecordLogSpec!Init
<1>2. StoreInv /\ [Next]_vars => [RecordLogSpec!Next]_log
  <2> SUFFICES ASSUME StoreInv, [Next]_vars PROVE [RecordLogSpec!Next]_log
    OBVIOUS
  <2>1. ASSUME NEW c \in Calls, Commit(c) PROVE [RecordLogSpec!Next]_log
    <3>1. call[c].request \in Requests
      BY <2>1 DEF StoreInv, TypeOK, CallRecords, Commit
    <3> QED BY <2>1, <3>1, CommitEffect DEF RecordLogSpec!Next
  <2>2. ~Commits => UNCHANGED log
    BY DEF Next, Opens, Open, Starts, Start, Enters, Enter, Begins, Begin, Decides, DecideOld,
           DecideNew, Decide, Refuse, Checks, Check, Leaves, Leave, Return, Faults, Fault,
           Interrupt, Endings, Crash, Close, vars, database, handles
  <2> QED BY <2>1, <2>2 DEF Commits
<1> QED BY <1>1, <1>2, StoreAlways, PTL DEF Spec, ImplementsRecordLog, RecordLogSpec!Spec
=============================================================================
