-------------------------- MODULE CoordinatorDialogue --------------------------
(***************************************************************************)
(* The dialogue of the host with a confined coordinator, supervise of      *)
(* coordinator_ipc.py, and what LinuxCoordinator.run makes of its result.  *)
(*                                                                         *)
(* The coordinator is not trusted: it writes, closes and exits as it likes,*)
(* and so do the processes it leaves behind.  A frame reaches the host in  *)
(* two pieces, the header that tells its kind and size, and its payload;   *)
(* what is neither is junk.  A piece counts as one byte, and every limit is *)
(* in bytes.  A read takes any part of what is queued.                     *)
(*                                                                         *)
(* The thread of supervise interleaves with the coordinator between any    *)
(* two of its calls of the operating system.  Its control is halted once   *)
(* the deadline has passed or the session was cancelled.                   *)
(***************************************************************************)
EXTENDS Naturals, Sequences

CONSTANTS
  MaxRequests,          \* max_requests
  MaxDiagnostics,       \* MAX_STDERR_BYTES
  MaxParts,             \* the writes that a frame of the host may take
  Capacity              \* how much a pipe from the coordinator holds

ASSUME DialogueAssumption ==
  /\ MaxRequests \in Nat \ {0} /\ MaxDiagnostics \in Nat
  /\ MaxParts \in Nat \ {0} /\ Capacity \in Nat \ {0}

VARIABLES
  thread,               \* where the thread of supervise is
  stage,                \* its phase
  events,               \* what select has told and is not served yet
  unsent,               \* parts of the pending frame that are not written
  incoming,             \* pieces read and not parsed
  total, diagnostics,   \* output_total, stderr_total
  requests, stopping, eof,
  out, err, shut,       \* queued pieces, queued diagnostics, ends that are closed
  leader, reaped,       \* the child: absent, alive, or how it ended
  halted,               \* control.check raises
  written, seen,        \* history: what was written to stdout, and read from it
  calls,                \* history: how often exchange was called
  cause                 \* history: why supervise raises

progress == <<stage, unsent, incoming, requests, stopping>>
counts   == <<total, diagnostics>>
pipes    == <<out, err, shut, written>>
child    == <<leader, reaped>>
dialogue == <<thread, events, progress, counts, eof, pipes, child, halted, seen, calls, cause>>

Heads == {"READY", "REQUEST", "RESULT", "junk"}

\* Whether a payload passes the check that its kind has; a request is opaque here.
Bodies == {"sound", "unsound"}

Payloads(head) == IF head \in {"READY", "RESULT"} THEN Bodies ELSE {"sound"}

Outputs == {"stdout", "stderr"}

\* Every frame within its limit, and all the diagnostics there may be.
OutputLimit == MaxRequests * 2 + 1 + 1 + 2 + MaxDiagnostics

\* What the next frame has to be, in the phases in which one may come.
Awaited == [waiting_ready |-> "READY", waiting_request |-> "REQUEST", waiting_result |-> "RESULT"]

DialogueInit ==
  /\ thread = "starting" /\ stage = "sending_init" /\ events = {}
  /\ unsent = MaxParts /\ incoming = <<>>
  /\ total = 0 /\ diagnostics = 0 /\ requests = 0 /\ stopping = FALSE /\ eof = {}
  /\ out = <<>> /\ err = 0 /\ shut = {}
  /\ leader = "absent" /\ reaped = FALSE /\ halted = FALSE
  /\ written = <<>> /\ seen = <<>> /\ calls = 0 /\ cause = "none"
-----------------------------------------------------------------------------
Continue(place) == thread' = place /\ UNCHANGED cause

\* The finally of supervise comes next.
Abandon(why) == thread' = "leaving" /\ cause' = why

\* The coordinator is started, unless the control or the system forbids it.
Spawn ==
  /\ thread = "starting"
  /\ \/ ~halted /\ Continue("selecting") /\ leader' = "alive"
     \/ thread' = "raised" /\ cause' = "other" /\ UNCHANGED leader
  /\ UNCHANGED <<events, progress, counts, eof, pipes, reaped, halted, seen, calls>>

\* A bug: the loop itself does not check the control.
CheckRaisesLate ==
  /\ halted
  /\ thread \in {"dispatching", "probing"} \/ (thread = "serving" /\ events # {})
  /\ Abandon("other")
  /\ UNCHANGED <<events, progress, counts, eof, pipes, child, halted, seen, calls>>

\* The control is checked in each turn, before each event, around exchange and at the end.
CheckRaises ==
  /\ halted
  /\ \/ thread \in {"selecting", "dispatching", "probing", "ending"}
     \/ thread = "serving" /\ events # {}
  /\ Abandon("other")
  /\ UNCHANGED <<events, progress, counts, eof, pipes, child, halted, seen, calls>>
-----------------------------------------------------------------------------
Readable(end) ==
  /\ end \notin eof
  /\ end \in shut \/ (IF end = "stdout" THEN out # <<>> ELSE err > 0)

\* select: the pipe to the coordinator may be full, or have room.
Select ==
  /\ thread = "selecting" /\ ~halted
  /\ events' \in {{end \in Outputs : Readable(end)} \cup room :
                    room \in IF unsent > 0 THEN {{}, {"stdin"}} ELSE {{}}}
  /\ Continue("serving")
  /\ UNCHANGED <<progress, counts, eof, pipes, child, halted, seen, calls>>

Serves(end) ==
  /\ thread = "serving" /\ end \in events /\ ~halted
  /\ events' = events \ {end}

\* A bug: a stop is forgotten once it is sent.
WriteForgetsStop ==
  /\ Serves("stdin") /\ events = {"stdin"}
  /\ unsent' \in 0 .. unsent
  /\ stage' = IF unsent' > 0 THEN stage
              ELSE IF stage = "sending_init" THEN "waiting_ready" ELSE "waiting_request"
  /\ Continue("serving")
  /\ UNCHANGED <<incoming, requests, stopping, counts, eof, pipes, child, halted, seen, calls>>

\* The output comes before the input, which is then written, in part or whole, or found closed.
WriteInput ==
  /\ Serves("stdin") /\ events = {"stdin"}
  /\ \/ /\ unsent' \in 0 .. unsent
        /\ stage' = IF unsent' > 0 THEN stage
                    ELSE IF stage = "sending_init" THEN "waiting_ready"
                    ELSE IF stopping THEN "waiting_result" ELSE "waiting_request"
        /\ Continue("serving")
     \/ Abandon("other") /\ UNCHANGED <<unsent, stage>>
  /\ UNCHANGED <<incoming, requests, stopping, counts, eof, pipes, child, halted, seen, calls>>

\* What a read of at most limit and the rest of the allowance may return of what is queued.
ReadAmounts(queued, limit) ==
  {n \in 1 .. queued : n <= limit /\ n <= OutputLimit - total + 1}

ReadOutput ==
  /\ Serves("stdout") /\ out # <<>>
  /\ \E n \in ReadAmounts(Len(out), Len(out)) :
       /\ seen' = seen \o SubSeq(out, 1, n)
       /\ out' = SubSeq(out, n + 1, Len(out))
       /\ total' = total + n
       /\ IF total + n > OutputLimit THEN Abandon("output_limit") /\ UNCHANGED incoming
          ELSE IF stage \notin DOMAIN Awaited THEN Abandon("other") /\ UNCHANGED incoming
          ELSE Continue("parsing") /\ incoming' = incoming \o SubSeq(out, 1, n)
  /\ UNCHANGED <<stage, unsent, requests, stopping, diagnostics, eof, err, shut, written, child,
                 halted, calls>>

\* The end of the output is only accepted after the result.
EndOfOutput ==
  /\ Serves("stdout") /\ out = <<>>
  /\ eof' = eof \cup {"stdout"}
  /\ IF stage # "waiting_eof" \/ incoming # <<>> THEN Abandon("other") ELSE Continue("serving")
  /\ UNCHANGED <<progress, counts, pipes, child, halted, seen, calls>>

\* Diagnostics are counted and dropped.
CountDiagnostics(limit) ==
  /\ \E n \in ReadAmounts(err, limit) :
       /\ err' = err - n
       /\ total' = total + n /\ diagnostics' = diagnostics + n
       /\ IF total + n > OutputLimit \/ diagnostics + n > MaxDiagnostics
          THEN Abandon("output_limit") ELSE UNCHANGED <<thread, cause>>
  /\ UNCHANGED eof

EndOfDiagnostics ==
  /\ err = 0 /\ eof' = eof \cup {"stderr"}
  /\ UNCHANGED <<err, counts, thread, cause>>

ReadDiagnostics ==
  /\ Serves("stderr")
  /\ CountDiagnostics(err) \/ EndOfDiagnostics
  /\ UNCHANGED <<progress, out, shut, written, child, halted, seen, calls>>
-----------------------------------------------------------------------------
\* One turn of the loop over what was read.  READY needs no answer, so that more may follow it.
ParseReady ==
  /\ stage = "waiting_ready"
  /\ IF incoming[2] # "sound" THEN Abandon("other") /\ UNCHANGED <<stage, incoming>>
     ELSE /\ Continue("parsing")
          /\ stage' = "waiting_request"
          /\ incoming' = SubSeq(incoming, 3, Len(incoming))
  /\ UNCHANGED requests

ParseRequest ==
  /\ stage = "waiting_request"
  /\ IF Len(incoming) > 2 \/ requests = MaxRequests
     THEN Abandon("other") /\ UNCHANGED <<stage, incoming, requests>>
     ELSE /\ Continue("serving")
          /\ requests' = requests + 1 /\ stage' = "exchanging" /\ incoming' = <<>>

\* A bug: what follows the result is dropped.
ParseResultLoosely ==
  /\ stage = "waiting_result"
  /\ Continue("serving") /\ stage' = "waiting_eof" /\ incoming' = <<>>
  /\ UNCHANGED requests

ParseResult ==
  /\ stage = "waiting_result"
  /\ IF Len(incoming) > 2 THEN Abandon("other") /\ UNCHANGED <<stage, incoming>>
     ELSE Continue("serving") /\ stage' = "waiting_eof" /\ incoming' = <<>>
  /\ UNCHANGED requests

Parse ==
  /\ thread = "parsing"
  /\ IF incoming # <<>> /\ incoming[1] # Awaited[stage]
     THEN Abandon("other") /\ UNCHANGED <<stage, incoming, requests>>
     ELSE IF Len(incoming) < 2
     THEN Continue("serving") /\ UNCHANGED <<stage, incoming, requests>>
     ELSE ParseReady \/ ParseRequest \/ ParseResult
  /\ UNCHANGED <<events, unsent, stopping, counts, eof, pipes, child, halted, seen, calls>>

\* All events are served.
Served ==
  /\ thread = "serving" /\ events = {}
  /\ Continue(IF stage = "exchanging" THEN "dispatching"
              ELSE IF eof = Outputs THEN "ending" ELSE "selecting")
  /\ UNCHANGED <<events, progress, counts, eof, pipes, child, halted, seen, calls>>
-----------------------------------------------------------------------------
\* A request is there: first the diagnostics that are queued, until there are none.
Drain ==
  /\ thread = "dispatching" /\ ~halted
  /\ \/ "stderr" \notin eof /\ CountDiagnostics(MaxDiagnostics - diagnostics + 1)
     \/ "stderr" \notin eof /\ "stderr" \in shut /\ EndOfDiagnostics
     \/ /\ "stderr" \in eof \/ (err = 0 /\ "stderr" \notin shut)
        /\ Continue("probing")
        /\ UNCHANGED <<err, counts, eof>>
  /\ UNCHANGED <<events, progress, out, shut, written, child, halted, seen, calls>>

\* A bug: the request is handed over without a look at what is queued behind it.
ProbeBlindly ==
  /\ thread = "probing" /\ ~halted
  /\ Continue("calling") /\ calls' = calls + 1
  /\ UNCHANGED <<events, progress, counts, eof, pipes, child, halted, seen>>

\* Then the output: neither more of it nor its end may be queued; exchange is called at once, since
\* what comes after the look is not to be told from what comes during the call.
Probe ==
  /\ thread = "probing" /\ ~halted
  /\ IF out = <<>> /\ "stdout" \notin shut
     THEN Continue("calling") /\ calls' = calls + 1
     ELSE Abandon("other") /\ UNCHANGED calls
  /\ UNCHANGED <<events, progress, counts, eof, pipes, child, halted, seen>>

\* exchange returns its response, which is framed, or raises; it watches the control itself.
ExchangeReturns ==
  /\ thread = "calling"
  /\ \/ /\ ~halted
        /\ \E stop \in BOOLEAN :
             /\ stop \/ requests < MaxRequests
             /\ stopping' = stop
        /\ stage' = "sending_response" /\ unsent' = MaxParts
        /\ Continue("selecting")
     \/ Abandon("other") /\ UNCHANGED <<stopping, stage, unsent>>
  /\ UNCHANGED <<incoming, requests, events, counts, eof, pipes, child, halted, seen, calls>>

\* Both ends are closed, which EndOfOutput has only let pass after the result: the coordinator is
\* waited for, for a turn of the loop.
End ==
  /\ thread = "ending" /\ ~halted
  /\ \/ leader = "alive" /\ Continue("selecting") /\ UNCHANGED reaped
     \/ /\ leader # "alive" /\ reaped' = TRUE
        /\ IF leader = "zero" THEN Continue("returned") ELSE Abandon("other")
  /\ UNCHANGED <<leader, events, progress, counts, eof, pipes, halted, seen, calls>>

\* _kill_and_reap of a dialogue that failed: the group is killed, and waited for in vain at most
\* if the system stalls.
Leave ==
  /\ thread = "leaving"
  /\ thread' = "raised"
  /\ \/ /\ leader' = IF leader = "alive" THEN "killed" ELSE leader
        /\ reaped' = TRUE /\ shut' = Outputs
     \/ leader = "alive" /\ UNCHANGED <<child, shut>>
  /\ UNCHANGED <<events, progress, counts, eof, out, err, written, halted, seen, calls, cause>>

\* LinuxCoordinator.run takes the result if it is the expected one, and the control agrees.
Settle ==
  /\ thread = "returned"
  /\ thread' = IF ~halted /\ seen[Len(seen)] = "sound" THEN "accepted" ELSE "raised"
  /\ UNCHANGED <<events, progress, counts, eof, pipes, child, halted, seen, calls, cause>>
-----------------------------------------------------------------------------
\* The coordinator and what it has started, while anybody listens; a full pipe blocks them.
Lives == leader # "absent" /\ cause = "none" /\ thread \notin {"returned", "accepted", "raised"}

MidFrame == written # <<>> /\ written[Len(written)] \in Heads

Writes ==
  /\ Lives /\ "stdout" \notin shut /\ Len(out) < Capacity
  /\ \E piece \in IF MidFrame THEN Payloads(written[Len(written)]) ELSE Heads :
       written' = Append(written, piece) /\ out' = Append(out, piece)
  /\ UNCHANGED <<err, shut, leader>>

Complains ==
  /\ Lives /\ "stderr" \notin shut /\ err < Capacity
  /\ err' = err + 1
  /\ UNCHANGED <<out, shut, written, leader>>

Closes ==
  /\ Lives
  /\ \E end \in Outputs \ shut : shut' = shut \cup {end}
  /\ UNCHANGED <<out, err, written, leader>>

Exits ==
  /\ Lives /\ leader = "alive"
  /\ leader' \in {"zero", "nonzero"}
  /\ UNCHANGED pipes

Coordinator ==
  /\ Writes \/ Complains \/ Closes \/ Exits
  /\ UNCHANGED <<thread, events, progress, counts, eof, reaped, halted, seen, calls, cause>>

\* The deadline passes, or somebody cancels the session.
Halt ==
  /\ ~halted /\ halted' = TRUE
  /\ UNCHANGED <<thread, events, progress, counts, eof, pipes, child, seen, calls, cause>>

Supervise ==
  \/ Spawn \/ CheckRaises \/ Select \/ WriteInput \/ ReadOutput \/ EndOfOutput \/ ReadDiagnostics
  \/ Parse \/ Served \/ Drain \/ Probe \/ ExchangeReturns \/ End \/ Leave \/ Settle

DialogueNext == Supervise \/ Coordinator \/ Halt

DialogueSpec == DialogueInit /\ [][DialogueNext]_dialogue

\* The thread goes on, exchange included, which gives up once it is halted; the deadline comes.
FairDialogueSpec == DialogueSpec /\ WF_dialogue(Supervise) /\ WF_dialogue(Halt)
-----------------------------------------------------------------------------
\* The pieces are n frames: a verified READY, then requests, then the result if it is among them.
Frames(pieces, n, last) ==
  /\ Len(pieces) = 2 * n
  /\ \A j \in 1 .. n :
       pieces[2 * j - 1] = IF j = 1 THEN "READY" ELSE IF j = last THEN "RESULT" ELSE "REQUEST"
  /\ pieces[2] = "sound"

\* A result is only returned of a whole dialogue: the coordinator, which has exited with zero and
\* is reaped, has written a verified READY, its requests and the result, and not a byte more, the
\* authority has answered every one of them, the last one with a stop, and nothing of what was
\* written is unread (coordinator_ipc.py:197-225, :264-279).
ReturnedDialogueIsWhole ==
  thread \in {"returned", "accepted"} =>
    /\ leader = "zero" /\ reaped
    /\ Frames(written, requests + 2, requests + 2)
    /\ requests \in 1 .. MaxRequests /\ calls = requests /\ stopping
    /\ err = 0 /\ diagnostics <= MaxDiagnostics

\* The output so far could be that of a dialogue with frames of any size within their limits.
WithinLimits == Len(seen) <= 2 * (MaxRequests + 2)

\* The limit on all the output never ends a dialogue whose frames and diagnostics are within the
\* limits they have, however many requests there may be (coordinator_ipc.py:128-129).
LimitSparesLegalDialogues ==
  cause = "output_limit" => diagnostics > MaxDiagnostics \/ ~WithinLimits

\* The authority is only called while the control has not stopped, with READY verified, and when
\* all the coordinator has ever written is its requests up to this one: nothing is queued behind
\* it, the end of the output neither (coordinator_ipc.py:226-257).
CallsFollowQuiet ==
  [][calls' # calls =>
       ~halted /\ Frames(written, requests + 1, 0) /\ calls' = requests /\ "stdout" \notin shut]_dialogue

Turn ==
  IF thread = "raised" \/ cause # "none" THEN "failed"
  ELSE IF thread \in {"returned", "accepted"} THEN "closed"
  ELSE IF thread = "calling" THEN "authority"
  ELSE IF stopping THEN "closing"
  ELSE IF stage \in {"sending_init", "waiting_ready"} THEN "booting" ELSE "coordinator"

Mediated == INSTANCE MediatedDialogue WITH turn <- Turn

\* The host mediates: READY, then requests and responses in turn, none after a response that
\* stops, no more than allowed, and a result only then (docs/control-plane.md:115-116).
ImplementsMediatedDialogue == Mediated!Spec

\* Every dialogue that was started ends, with a coordinator that hangs, floods, closes or keeps
\* its pipes open through its descendants too (coordinator_ipc.py:152-156, :271-281).
DialogueEnds == thread = "selecting" ~> thread \in {"accepted", "raised"}
=============================================================================
