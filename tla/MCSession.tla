------------------------------- MODULE MCSession ------------------------------
(***************************************************************************)
(* The two sides of a session's callback: the authority, which answers any *)
(* requests, and the supervisor, which mediates between an authority that  *)
(* answers or raises and any coordinator.  A behaviour is one of theirs.   *)
(*                                                                         *)
(* The authority has a small action, a large one that fits the output      *)
(* budget only once, and one that the policy denies, in three steps.  The  *)
(* supervisor has two requests, one byte of diagnostics, and pipes that    *)
(* hold a whole frame, or the end of one and the beginning of the next.    *)
(***************************************************************************)
EXTENDS AuthoritySession, CoordinatorDialogue

CONSTANTS small, large, foreign, strict

VARIABLE side

DeniedIn == [p \in Policies |-> {foreign} \cap Actions]

AskingIn == [p \in Policies |-> TRUE]

AllowanceOf == [a \in Actions |-> IF a = large THEN 2 ELSE 1]

SidesInit ==
  /\ side \in {"authority", "supervisor"}
  /\ Init /\ (side = "supervisor" => ~Planned)
  /\ DialogueInit

InAuthority(A) == side = "authority" /\ A /\ UNCHANGED <<side, dialogue>>

InSupervisor(A) == side = "supervisor" /\ A /\ UNCHANGED <<side, vars>>

SidesNext == InAuthority(Next) \/ InSupervisor(DialogueNext)

sides == <<side, vars, dialogue>>

\* The fairness of FairSpec and of FairDialogueSpec, each for its own side.
SidesSpec ==
  /\ SidesInit /\ [][SidesNext]_sides
  /\ WF_sides(InAuthority(Tick /\ World))
  /\ WF_sides(InAuthority(Proceeds))
  /\ WF_sides(InAuthority(WaitStops))
  /\ WF_sides(InAuthority(HandlerFails /\ ~Emits))
  /\ WF_sides(InAuthority(DialogueRaises /\ Stopped))
  /\ WF_sides(InSupervisor(Supervise))
  /\ WF_sides(InSupervisor(Halt))
=============================================================================
