---------------------------- MODULE MCGuiChannel ----------------------------
(***************************************************************************)
(* GuiChannel on small instances: the quotas of the runs.                  *)
(***************************************************************************)
EXTENDS GuiChannel

Uneven(n, m) == [p \in {Initiator, Responder} |-> IF p = Initiator THEN n ELSE m]

Uneven32 == Uneven(3, 2)
=============================================================================
