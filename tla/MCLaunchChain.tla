----------------------------- MODULE MCLaunchChain ----------------------------
(***************************************************************************)
(* Two actions under a policy that asks for approval, or under one that    *)
(* does not.                                                               *)
(***************************************************************************)
EXTENDS LaunchChain

CONSTANTS a1, a2, strict, lax

DeniedIn == [p \in Policies |-> {}]

\* A second review only where nothing has failed: every fault strikes the first launch.
SecondIsQuiet ==
  Len(minted) > 1 => /\ auditing /\ approving = "up" /\ launcher # "down"
                     /\ ~stopped /\ ~cancelled

AskingIn == [p \in Policies |-> p = strict]

AllowanceOf == [a \in Actions |-> IF a = a1 THEN 1 ELSE 2]

ProfileOf == [n \in 0 .. MaxSteps |-> Actions]
=============================================================================
