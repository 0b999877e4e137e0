---------------------------- MODULE RateLimiters ----------------------------
(***************************************************************************)
(* The accept loops of SQLiteRateLimiter with the in-memory limiter beside *)
(* the database: both are asked and told the same at the same moments.     *)
(* The programs use the database; the in-memory class is its model.        *)
(***************************************************************************)
EXTENDS SQLiteRateLimiter

VARIABLES failures, blockedUntil      \* the in-memory limiter's dictionaries

Memory == INSTANCE MemoryRateLimiter

memory == <<failures, blockedUntil>>

PairInit == Init /\ Memory!Init

PairNext ==
  \/ Tick /\ Memory!Tick
  \/ \E w \in Worker :
       \/ \E a \in Address : IsBlocked(w, a) /\ Memory!IsBlocked(a)
       \/ ForgetBlock(w) /\ UNCHANGED memory
       \/ RecordFailure(w) /\ Memory!RecordFailure(peer[w])
       \/ RecordSuccess(w) /\ Memory!RecordSuccess(peer[w])
       \/ Drop(w) /\ UNCHANGED memory

PairSpec == PairInit /\ [][PairNext]_<<vars, memory>>

-----------------------------------------------------------------------------
(* The in-memory limiter, which trims only the address that fails and      *)
(* forgets a block only when asked, throttles as promised too.             *)
MemoryImplementsThrottle == Memory!ImplementsThrottle
=============================================================================
