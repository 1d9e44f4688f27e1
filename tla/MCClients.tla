------------------------------- MODULE MCClients ------------------------------
(***************************************************************************)
(* The three clients that start an authority and stop it: the desktop, and *)
(* the command line with its observer and its signal handler, over the     *)
(* service; and the batch of trials.  A behaviour is one of theirs.        *)
(***************************************************************************)
EXTENDS DesktopController, EvaluationBatch

VARIABLE client

vars == <<client, service, desk, gui, worker, results, batch, folder>>

Init ==
  /\ client \in {"desktop", "command_line", "batch"}
  /\ service = Ready(IF client = "command_line" THEN "watching" ELSE "none")
  /\ DesktopInit
  /\ folder = EmptyFolder
  /\ \E mode \in {"execute", "dry_run"}, looks, interrupts \in BOOLEAN :
       /\ batch = ReadyBatch(mode, looks, interrupts)
       /\ client # "batch" => mode = "dry_run" /\ ~looks /\ ~interrupts

Next ==
  /\ UNCHANGED client
  /\ \/ client = "desktop" /\ DesktopNext /\ UNCHANGED batching
     \/ client = "command_line" /\ CommandLineNext
        /\ UNCHANGED <<desk, gui, worker, results, batch, folder>>
     \/ client = "batch" /\ BatchNext /\ UNCHANGED desktop

InDesktop(A) == client = "desktop" /\ A /\ UNCHANGED <<client, batch, folder>>

\* The worker's services are bounded by the deadline of the session, and the event
\* loop of the window runs its timer however often a button is pressed.
Spec ==
  /\ Init /\ [][Next]_vars
  /\ WF_vars(InDesktop(Work))
  /\ WF_vars(InDesktop(ContinueCancel)) /\ WF_vars(InDesktop(EndCancel))
  /\ SF_vars(InDesktop(PollLooks)) /\ WF_vars(InDesktop(PollTakes))
  /\ WF_vars(InDesktop(CloseWaits))
=============================================================================
