---------------------------- MODULE MCUserFiles ----------------------------
(***************************************************************************)
(* UserFiles for two workers and two peers, which are interchangeable.     *)
(***************************************************************************)
EXTENDS UserFiles

Symmetry == Permutations(Worker) \cup Permutations(Peer)
=============================================================================
