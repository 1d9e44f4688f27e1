--------------------------- MODULE MCDispatchStore ---------------------------
(***************************************************************************)
(* A small instance of DispatchStore: a revision and a reservation that    *)
(* the revision excludes.                                                  *)
(***************************************************************************)
EXTENDS DispatchStore, TLC

Recorded(l, body) == \E n \in DOMAIN l : l[n].body = body

\* The reservation needs the first rules and an unused slot.
MCAccepts(l, request) ==
  CASE request.body = "revise"  -> ~Recorded(l, "revise")
    [] request.body = "reserve" -> ~Recorded(l, "revise") /\ ~Recorded(l, "reserve")

Symmetry == Permutations(Calls) \cup Permutations(EventIds)
=============================================================================
