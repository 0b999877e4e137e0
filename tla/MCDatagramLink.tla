--------------------------- MODULE MCDatagramLink ---------------------------
(***************************************************************************)
(* DatagramLink on small instances: the quotas of the runs.                *)
(***************************************************************************)
EXTENDS DatagramLink

\* Both sides talk.
Duplex(n, m) == [p \in {Initiator, Responder} |-> IF p = Initiator THEN n ELSE m]

Duplex42 == Duplex(4, 2)

Duplex41 == Duplex(4, 1)

Duplex21 == Duplex(2, 1)
=============================================================================
