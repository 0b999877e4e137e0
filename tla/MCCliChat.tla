----------------------------- MODULE MCCliChat -----------------------------
(***************************************************************************)
(* CliChat on small instances: the quota of the run.                       *)
(***************************************************************************)
EXTENDS CliChat

Each4 == [p \in {Initiator, Responder} |-> 4]
=============================================================================
