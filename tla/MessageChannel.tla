--------------------------- MODULE MessageChannel ---------------------------
(***************************************************************************)
(* What a session promises whatever the link under it does: a plaintext is *)
(* handed to the application at most once, and only if the peer sent it.   *)
(* Nothing is promised about order or about delivery.                      *)
(***************************************************************************)
EXTENDS Integers

CONSTANTS Initiator, Responder, Message

VARIABLES
  submitted,    \* submitted[p]: the messages p has encrypted
  deliveries    \* deliveries[p][m]: how often p's decrypt() returned m

vars == <<submitted, deliveries>>

Party == {Initiator, Responder}

Peer(p) == IF p = Initiator THEN Responder ELSE Initiator

Init ==
  /\ submitted = [p \in Party |-> {}]
  /\ deliveries = [p \in Party |-> [m \in Message |-> 0]]

Submit(p, m) ==
  /\ m \notin submitted[p]
  /\ submitted' = [submitted EXCEPT ![p] = @ \cup {m}]
  /\ UNCHANGED deliveries

Deliver(p, m) ==
  /\ m \in submitted[Peer(p)]
  /\ deliveries[p][m] = 0
  /\ deliveries' = [deliveries EXCEPT ![p][m] = 1]
  /\ UNCHANGED submitted

Next == \E p \in Party, m \in Message : Submit(p, m) \/ Deliver(p, m)

Spec == Init /\ [][Next]_vars
=============================================================================
