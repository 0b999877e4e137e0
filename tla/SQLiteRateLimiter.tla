-------------------------- MODULE SQLiteRateLimiter --------------------------
(***************************************************************************)
(* class SQLiteRateLimiter (rate_limiter.py) in the hands of the accept    *)
(* loops that share one database file: the CLI server, or the host workers *)
(* of one identity (gui.py _run_host).  A loop asks is_blocked, runs the   *)
(* handshake and records how it went.                                      *)
(*                                                                         *)
(* One action is one SQLite transaction.  A method reads the clock once,   *)
(* at its start; transactions are short, so the clock of a transaction is  *)
(* the clock of its method.  Times are whole seconds.                      *)
(***************************************************************************)
EXTENDS Integers, Sequences, FiniteSets

CONSTANTS
  Worker,          \* the accept loops, each with a connection of its own
  Address,
  MaxAttempts,     \* max_attempts
  Window,          \* window_seconds
  Cooldown,        \* cooldown_seconds
  MaxTime          \* bound: the clock stops here

ASSUME LimiterAssumption ==
  /\ MaxAttempts \in Nat \ {0}
  /\ Window \in Nat
  /\ Cooldown \in Nat
  /\ MaxTime \in Nat

VARIABLES
  now,             \* time.time()
  attempts,        \* attempts[a]: the ts of a's rows, in insertion order
  blocks,          \* blocks[a]: blocked_until of a's row, 0 if there is none
  loop,            \* loop[w]: "accept", "forget" (in is_blocked) or "handshake"
  peer             \* peer[w]: the address of the connection w handles

vars == <<now, attempts, blocks, loop, peer>>

Init ==
  /\ now = 0
  /\ attempts = [a \in Address |-> << >>]
  /\ blocks = [a \in Address |-> 0]
  /\ loop = [w \in Worker |-> "accept"]
  /\ peer \in [Worker -> Address]

Tick ==
  /\ now < MaxTime
  /\ now' = now + 1
  /\ UNCHANGED <<attempts, blocks, loop, peer>>

\* accept() and the SELECT of is_blocked.  A refused connection is closed.
IsBlocked(w, a) ==
  /\ loop[w] = "accept"
  /\ loop' = [loop EXCEPT ![w] = IF blocks[a] = 0 THEN "handshake"
                                 ELSE IF now >= blocks[a] THEN "forget"
                                 ELSE "accept"]
  /\ peer' = [peer EXCEPT ![w] = a]
  /\ UNCHANGED <<now, attempts, blocks>>

\* is_blocked goes on: DELETE FROM blocks WHERE key = ?, commit.
ForgetBlock(w) ==
  /\ loop[w] = "forget"
  /\ blocks' = [blocks EXCEPT ![peer[w]] = 0]
  /\ loop' = [loop EXCEPT ![w] = "handshake"]
  /\ UNCHANGED <<now, attempts, peer>>

\* Mutant: an attempt exactly at the boundary of the window is deleted.
SweptTooMuch(s) ==
  LET deleted == {i \in DOMAIN s : s[i] <= now - Window}
  IN  SubSeq(s, Cardinality(deleted) + 1, Len(s))

\* DELETE FROM attempts WHERE ts < now - window_seconds: the first rows, since
\* the clock is not set back here.
Swept(s) ==
  LET deleted == {i \in DOMAIN s : s[i] < now - Window}
  IN  SubSeq(s, Cardinality(deleted) + 1, Len(s))

\* Mutant: the comparison is the wrong way round.
LiveBlockLifted(a) == IF blocks[a] >= now THEN 0 ELSE blocks[a]

\* DELETE FROM blocks WHERE blocked_until <= now.
LiveBlock(a) == IF blocks[a] <= now THEN 0 ELSE blocks[a]

\* record_failure: the deletions concern every address.
RecordFailure(w) ==
  LET a     == peer[w]
      rows  == [attempts EXCEPT ![a] = Append(@, now)]
      kept  == [b \in Address |-> Swept(rows[b])]
      live  == [b \in Address |-> LiveBlock(b)]
  IN  /\ loop[w] = "handshake"
      /\ IF Len(kept[a]) >= MaxAttempts
         THEN /\ blocks' = [live EXCEPT ![a] = now + Cooldown]
              /\ attempts' = [kept EXCEPT ![a] = << >>]
         ELSE /\ blocks' = live
              /\ attempts' = kept
      /\ loop' = [loop EXCEPT ![w] = "accept"]
      /\ UNCHANGED <<now, peer>>

RecordSuccess(w) ==
  /\ loop[w] = "handshake"
  /\ attempts' = [attempts EXCEPT ![peer[w]] = << >>]
  /\ blocks' = [blocks EXCEPT ![peer[w]] = 0]
  /\ loop' = [loop EXCEPT ![w] = "accept"]
  /\ UNCHANGED <<now, peer>>

\* The connection breaks, or the process dies and is started again: nothing
\* is recorded and the file stays.
Drop(w) ==
  /\ loop[w] # "accept"
  /\ loop' = [loop EXCEPT ![w] = "accept"]
  /\ UNCHANGED <<now, attempts, blocks, peer>>

Next ==
  \/ Tick
  \/ \E w \in Worker :
       \/ \E a \in Address : IsBlocked(w, a)
       \/ ForgetBlock(w)
       \/ RecordFailure(w)
       \/ RecordSuccess(w)
       \/ Drop(w)

Spec == Init /\ [][Next]_vars

-----------------------------------------------------------------------------
Limit == INSTANCE Throttle WITH
  ages    <- [a \in Address |->
                LET s == Swept(attempts[a]) IN [i \in DOMAIN s |-> now - s[i]]],
  refused <- [a \in Address |-> IF now >= blocks[a] THEN 0 ELSE blocks[a] - now]

(* "Same throttling behavior as RateLimiter": with one accept loop on the  *)
(* file, the global sweeps, the late clean-ups and the restarts never show *)
(* in what is refused and for how long.                                    *)
ImplementsThrottle == Limit!Spec

(* A loop that passed is_blocked handles an address that is not blocked:   *)
(* what makes BlocksHold inductive when no other loop shares the file.     *)
LimiterInv ==
  /\ now \in Nat
  /\ blocks \in [Address -> Nat]
  /\ loop \in [Worker -> {"accept", "forget", "handshake"}]
  /\ peer \in [Worker -> Address]
  /\ \A w \in Worker : loop[w] # "accept" => blocks[peer[w]] <= now

(* rate_limiter.py: "once an address exceeds a threshold within a sliding  *)
(* time window, further attempts from that address are refused for a       *)
(* cooldown period".  Only a successful handshake lifts a block that is    *)
(* not over.  One accept loop keeps this; of two on one file, one that has *)
(* seen a block end may delete the next one, which the other has made.     *)
BlocksHold ==
  [][\A a \in Address :
       (blocks[a] > now /\ blocks'[a] < blocks[a])
         => \E w \in Worker : peer[w] = a /\ RecordSuccess(w)]_vars
=============================================================================
