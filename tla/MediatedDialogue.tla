--------------------------- MODULE MediatedDialogue ---------------------------
(***************************************************************************)
(* What a dialogue with a coordinator promises to its authority: after it  *)
(* has booted, requests and responses take turns, at most MaxRequests of   *)
(* them, until a response stops it; only then it may close, with a result. *)
(* It may fail at any time, and nothing follows.                           *)
(***************************************************************************)
EXTENDS Naturals

CONSTANT MaxRequests

VARIABLES turn, calls

mediated == <<turn, calls>>

Init == turn = "booting" /\ calls = 0

Boot == turn = "booting" /\ turn' = "coordinator" /\ UNCHANGED calls

Call ==
  /\ turn = "coordinator" /\ calls < MaxRequests
  /\ turn' = "authority" /\ calls' = calls + 1

Answer ==
  /\ turn = "authority"
  /\ turn' \in {"coordinator", "closing"}
  /\ calls = MaxRequests => turn' = "closing"
  /\ UNCHANGED calls

Close == turn = "closing" /\ turn' = "closed" /\ UNCHANGED calls

Fail == turn' = "failed" /\ UNCHANGED calls

Next == Boot \/ Call \/ Answer \/ Close \/ Fail

Spec == Init /\ [][Next]_mediated
=============================================================================
