----------------------------- MODULE MCTcpLink -----------------------------
(***************************************************************************)
(* TcpLink on small instances: the quotas of the runs.                     *)
(***************************************************************************)
EXTENDS TcpLink

Each(n) == [p \in {Initiator, Responder} |-> n]

Each3 == Each(3)
Each4 == Each(4)
=============================================================================
