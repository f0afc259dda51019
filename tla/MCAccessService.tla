-------------------------- MODULE MCAccessService --------------------------
(* Instances of AccessService for TLC. *)
EXTENDS AccessService, TLC

Symmetry == Permutations(Worker) \cup Permutations(EventId)
=============================================================================
