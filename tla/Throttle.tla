------------------------------ MODULE Throttle ------------------------------
(***************************************************************************)
(* What a rate limiter promises, with no clock and no storage: a failure   *)
(* counts for Window seconds; an address whose MaxAttempts-th failure      *)
(* still counts is refused for Cooldown seconds and then starts afresh; a  *)
(* success forgives everything.                                            *)
(***************************************************************************)
EXTENDS Integers, Sequences, FiniteSets

CONSTANTS Address, MaxAttempts, Window, Cooldown

VARIABLES
  ages,       \* ages[a]: how long ago the failures of a that count were
  refused     \* refused[a]: for how many more seconds a is refused

vars == <<ages, refused>>

Init ==
  /\ ages = [a \in Address |-> << >>]
  /\ refused = [a \in Address |-> 0]

Fail(a) ==
  IF Len(ages[a]) + 1 >= MaxAttempts
  THEN /\ ages' = [ages EXCEPT ![a] = << >>]
       /\ refused' = [refused EXCEPT ![a] = Cooldown]
  ELSE /\ ages' = [ages EXCEPT ![a] = Append(@, 0)]
       /\ UNCHANGED refused

Succeed(a) ==
  /\ ages' = [ages EXCEPT ![a] = << >>]
  /\ refused' = [refused EXCEPT ![a] = 0]

\* The failures that count no longer are the oldest, the first ones.
Older(s) ==
  LET over  == {i \in DOMAIN s : s[i] >= Window}
      later == SubSeq(s, Cardinality(over) + 1, Len(s))
  IN  [i \in DOMAIN later |-> later[i] + 1]

Second ==
  /\ ages' = [a \in Address |-> Older(ages[a])]
  /\ refused' = [a \in Address |-> IF refused[a] > 0 THEN refused[a] - 1 ELSE 0]

Next == Second \/ \E a \in Address : Fail(a) \/ Succeed(a)

Spec == Init /\ [][Next]_vars
=============================================================================
