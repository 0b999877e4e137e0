-------------------------- MODULE MemoryRateLimiter --------------------------
(***************************************************************************)
(* class RateLimiter (rate_limiter.py): a deque of failure times and an    *)
(* end of the block per address, on the monotonic clock, in whole seconds. *)
(***************************************************************************)
EXTENDS Integers, Sequences, FiniteSets

CONSTANTS
  Address,
  MaxAttempts,     \* max_attempts
  Window,          \* window_seconds
  Cooldown,        \* cooldown_seconds
  MaxTime          \* bound: the clock stops here

VARIABLES
  now,             \* time.monotonic()
  failures,        \* _failures
  blockedUntil     \* _blocked_until, 0 where the dict has no entry

vars == <<now, failures, blockedUntil>>

Init ==
  /\ now = 0
  /\ failures = [a \in Address |-> << >>]
  /\ blockedUntil = [a \in Address |-> 0]

Tick ==
  /\ now < MaxTime
  /\ now' = now + 1
  /\ UNCHANGED <<failures, blockedUntil>>

\* is_blocked: asking forgets a block that is over.
IsBlocked(a) ==
  /\ blockedUntil' = IF now >= blockedUntil[a]
                     THEN [blockedUntil EXCEPT ![a] = 0]
                     ELSE blockedUntil
  /\ UNCHANGED <<now, failures>>

\* seconds_until_unblocked.
SecondsUntilUnblocked(a) ==
  IF now >= blockedUntil[a] THEN 0 ELSE blockedUntil[a] - now

\* Mutant: the boundary of the window does not count.
RecentDropsBoundary(s) ==
  LET over == {i \in DOMAIN s : now - s[i] >= Window}
  IN  SubSeq(s, Cardinality(over) + 1, Len(s))

\* popleft() while the oldest is out of the window; the clock is monotonic, so
\* the deque is sorted and nothing behind the first that counts is.
Recent(s) ==
  LET over == {i \in DOMAIN s : now - s[i] > Window}
  IN  SubSeq(s, Cardinality(over) + 1, Len(s))

RecordFailure(a) ==
  LET attempts == Recent(Append(failures[a], now)) IN
  /\ IF Len(attempts) >= MaxAttempts
     THEN /\ blockedUntil' = [blockedUntil EXCEPT ![a] = now + Cooldown]
          /\ failures' = [failures EXCEPT ![a] = << >>]
     ELSE /\ failures' = [failures EXCEPT ![a] = attempts]
          /\ UNCHANGED blockedUntil
  /\ UNCHANGED now

RecordSuccess(a) ==
  /\ failures' = [failures EXCEPT ![a] = << >>]
  /\ blockedUntil' = [blockedUntil EXCEPT ![a] = 0]
  /\ UNCHANGED now

Next ==
  \/ Tick
  \/ \E a \in Address : IsBlocked(a) \/ RecordFailure(a) \/ RecordSuccess(a)

Spec == Init /\ [][Next]_vars

-----------------------------------------------------------------------------
Limit == INSTANCE Throttle WITH
  ages    <- [a \in Address |->
                LET s == Recent(failures[a]) IN [i \in DOMAIN s |-> now - s[i]]],
  refused <- [a \in Address |-> SecondsUntilUnblocked(a)]

(* The in-memory limiter throttles as promised, however long ago its       *)
(* stored failures and blocks were last cleaned up.                        *)
ImplementsThrottle == Limit!Spec
=============================================================================
