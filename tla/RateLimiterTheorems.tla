------------------------ MODULE RateLimiterTheorems ------------------------
(***************************************************************************)
(* Blocks hold, and both limiters throttle as Throttle says, for every     *)
(* threshold, window and cooldown and any number of addresses.  For the    *)
(* database one accept loop on the file is a hypothesis: with two in       *)
(* RateLimiters.cfg TLC finds a block that is lifted too early.            *)
(***************************************************************************)
EXTENDS RateLimiters, FiniteSetTheorems, SequenceTheorems, TLAPS

\* The file has one accept loop.
SoleLoop == \A v, w \in Worker : v = w

\* The sweep of expired blocks leaves an address unblocked or as it was.
LEMMA LiveBlockType ==
  ASSUME NEW a \in Address, now \in Nat, blocks \in [Address -> Nat]
  PROVE  /\ LiveBlock(a) \in Nat
         /\ LiveBlock(a) = 0 \/ LiveBlock(a) = blocks[a]
         /\ blocks[a] > now => LiveBlock(a) = blocks[a]
BY DEF LiveBlock

\* What a recorded failure does to the blocks, whatever the rows are.
LEMMA RecordFailureBlocks ==
  ASSUME LimiterInv, NEW w \in Worker, RecordFailure(w)
  PROVE  /\ blocks' \in [Address -> Nat]
         /\ \A b \in Address : blocks[b] > now /\ b # peer[w] => blocks'[b] = blocks[b]
<1> DEFINE live == [b \in Address |-> LiveBlock(b)]
<1>1. live \in [Address -> Nat]
  BY LiveBlockType DEF LimiterInv
<1>2. peer[w] \in Address /\ now + Cooldown \in Nat
  BY LimiterAssumption DEF LimiterInv
<1>3. \/ blocks' = [live EXCEPT ![peer[w]] = now + Cooldown]
      \/ blocks' = live
  BY DEF RecordFailure
<1>4. \A b \in Address : blocks[b] > now => live[b] = blocks[b]
  BY LiveBlockType DEF LimiterInv
<1> HIDE DEF live
<1> QED BY <1>1, <1>2, <1>3, <1>4

\* No loop is past is_blocked at the start.
LEMMA LimiterInitHolds == Init => LimiterInv
BY DEF Init, LimiterInv

\* Nobody blocks the address of a loop that passed is_blocked: LimiterInv is
\* inductive, as long as no other loop writes the file.
THEOREM LimiterInvariance == ASSUME SoleLoop PROVE Spec => []LimiterInv
<1>1. Init => LimiterInv
  BY LimiterInitHolds
<1>2. LimiterInv /\ [Next]_vars => LimiterInv'
  <2> SUFFICES ASSUME LimiterInv, [Next]_vars PROVE LimiterInv'
    OBVIOUS
  <2> USE DEF LimiterInv
  <2>1. CASE Tick
    BY <2>1 DEF Tick
  <2>2. ASSUME NEW w \in Worker, NEW a \in Address, IsBlocked(w, a)
        PROVE  LimiterInv'
    BY <2>2, SoleLoop DEF IsBlocked, SoleLoop
  <2>3. ASSUME NEW w \in Worker, ForgetBlock(w)
        PROVE  LimiterInv'
    BY <2>3, SoleLoop DEF ForgetBlock, SoleLoop
  <2>4. ASSUME NEW w \in Worker, RecordFailure(w)
        PROVE  LimiterInv'
    <3>1. blocks' \in [Address -> Nat]
      BY <2>4, RecordFailureBlocks
    <3>2. \A v \in Worker : loop'[v] = "accept"
      BY <2>4, SoleLoop DEF RecordFailure, SoleLoop
    <3> QED BY <2>4, <3>1, <3>2 DEF RecordFailure
  <2>5. ASSUME NEW w \in Worker, RecordSuccess(w)
        PROVE  LimiterInv'
    BY <2>5, SoleLoop DEF RecordSuccess, SoleLoop
  <2>6. ASSUME NEW w \in Worker, Drop(w)
        PROVE  LimiterInv'
    BY <2>6 DEF Drop
  <2>7. CASE UNCHANGED vars
    BY <2>7 DEF vars
  <2> QED BY <2>1, <2>2, <2>3, <2>4, <2>5, <2>6, <2>7 DEF Next
<1> QED BY <1>1, <1>2, PTL DEF Spec

\* "Further attempts from that address are refused for a cooldown period":
\* a block that is not over is lifted by a success and by nothing else.
THEOREM OneLoopBlocksHold == ASSUME SoleLoop PROVE Spec => BlocksHold
<1> DEFINE Held == \A a \in Address :
             (blocks[a] > now /\ blocks'[a] < blocks[a])
               => \E w \in Worker : peer[w] = a /\ RecordSuccess(w)
<1>1. LimiterInv /\ [Next]_vars => [Held]_vars
  <2> SUFFICES ASSUME LimiterInv, Next,
                      NEW a \in Address, blocks[a] > now, blocks'[a] < blocks[a]
               PROVE  \E w \in Worker : peer[w] = a /\ RecordSuccess(w)
    OBVIOUS
  <2> USE DEF LimiterInv
  <2>1. ~Tick
    BY DEF Tick
  <2>2. ASSUME NEW w \in Worker,
               (\E b \in Address : IsBlocked(w, b)) \/ Drop(w)
        PROVE  FALSE
    BY <2>2 DEF IsBlocked, Drop
  <2>3. ASSUME NEW w \in Worker, ForgetBlock(w)
        PROVE  FALSE
    BY <2>3 DEF ForgetBlock
  <2>4. ASSUME NEW w \in Worker, RecordFailure(w)
        PROVE  FALSE
    <3>1. a # peer[w]
      BY <2>4 DEF RecordFailure
    <3> QED BY <2>4, <3>1, RecordFailureBlocks
  <2>5. ASSUME NEW w \in Worker, RecordSuccess(w)
        PROVE  peer[w] = a
    BY <2>5 DEF RecordSuccess
  <2> QED BY <2>1, <2>2, <2>3, <2>4, <2>5 DEF Next
<1> QED BY <1>1, LimiterInvariance, PTL DEF Spec, BlocksHold

-----------------------------------------------------------------------------
(* Times in the order in which they were recorded: those before c are the  *)
(* first ones, and dropping them leaves the others.                        *)
Rising(s) == \A i, j \in 1 .. Len(s) : i <= j => s[i] <= s[j]

From(s, c) ==
  SubSeq(s, Cardinality({i \in DOMAIN s : s[i] < c}) + 1, Len(s))

\* t is s without its first n.
Suffix(s, t, n) ==
  /\ n \in 0 .. Len(s)
  /\ t \in Seq(Int)
  /\ Len(t) = Len(s) - n
  /\ \A i \in 1 .. Len(s) - n : t[i] = s[n + i]

LEMMA CountTo ==
  ASSUME NEW n \in Nat
  PROVE  IsFiniteSet(1 .. n) /\ Cardinality(1 .. n) = n
<1>1. 1 \in Int /\ n \in Int
  OBVIOUS
<1>2. /\ IsFiniteSet(1 .. n)
      /\ Cardinality(1 .. n) = IF 1 > n THEN 0 ELSE n - 1 + 1
  BY <1>1, FS_Interval
<1>3. (IF 1 > n THEN 0 ELSE n - 1 + 1) = n
  OBVIOUS
<1> QED
  BY <1>2, <1>3

\* The times before c are the first ones.
LEMMA FirstOnes ==
  ASSUME NEW s \in Seq(Int), Rising(s), NEW c \in Int
  PROVE  \E n \in 0 .. Len(s) :
           /\ n = Cardinality({i \in DOMAIN s : s[i] < c})
           /\ {i \in DOMAIN s : s[i] < c} = 1 .. n
<1> DEFINE D == {i \in DOMAIN s : s[i] < c}
           n == Cardinality(D)
<1>1. Len(s) \in Nat /\ DOMAIN s = 1 .. Len(s) /\ \A i \in 1 .. Len(s) : s[i] \in Int
  OBVIOUS
<1>2. IsFiniteSet(1 .. Len(s)) /\ Cardinality(1 .. Len(s)) = Len(s)
  BY <1>1, CountTo
<1>3. D \in SUBSET (1 .. Len(s))
  BY <1>1
<1>4. IsFiniteSet(D) /\ n <= Len(s)
  BY <1>2, <1>3, FS_Subset
<1>5. n \in Nat
  BY <1>4, FS_CardinalityType
<1>6. ASSUME NEW i \in D PROVE i <= n
  <2>1. i \in Nat /\ i >= 1 /\ i <= Len(s) /\ s[i] < c
    BY <1>1
  <2>2. 1 .. i \in SUBSET D
    BY <1>1, <2>1 DEF Rising
  <2>3. Cardinality(1 .. i) = i
    BY <2>1, CountTo
  <2>4. Cardinality(1 .. i) <= Cardinality(D)
    <3> HIDE DEF D
    <3> QED
      BY <2>2, <1>4, FS_Subset
  <2>5. i <= Cardinality(D)
    BY <2>3, <2>4
  <2> QED
    BY <2>5
<1>7. IsFiniteSet(1 .. n) /\ Cardinality(1 .. n) = n
  BY <1>5, CountTo
<1>8. D \in SUBSET (1 .. n)
  BY <1>3, <1>5, <1>6
<1>9. D = 1 .. n
  <2> HIDE DEF D
  <2> QED
    BY <1>7, <1>8, FS_Subset
<1>10. n \in 0 .. Len(s)
  BY <1>1, <1>4, <1>5
<1> QED
  BY <1>9, <1>10

\* Append adds t after the times of s.
OneMoreTime(r, s, t) ==
  /\ r \in Seq(Int) /\ Len(r) = Len(s) + 1
  /\ \A i \in 1 .. Len(s) : r[i] = s[i]
  /\ r[Len(s) + 1] = t

LEMMA AppendTime ==
  ASSUME NEW s \in Seq(Int), NEW t \in Int
  PROVE  OneMoreTime(Append(s, t), s, t)
BY AppendProperties DEF OneMoreTime

\* SubSeq drops the first n.
LEMMA CutAt ==
  ASSUME NEW s \in Seq(Int), NEW n \in 0 .. Len(s)
  PROVE  /\ SubSeq(s, n + 1, Len(s)) \in Seq(Int)
         /\ Len(SubSeq(s, n + 1, Len(s))) = Len(s) - n
         /\ \A i \in 1 .. Len(s) - n : SubSeq(s, n + 1, Len(s))[i] = s[n + i]
<1>2. Len(s) \in Nat /\ n \in Nat /\ n <= Len(s) /\ DOMAIN s = 1 .. Len(s)
      /\ \A i \in 1 .. Len(s) : s[i] \in Int
  OBVIOUS
<1>5. \A i \in (n + 1) .. Len(s) : s[i] \in Int
  BY <1>2
<1>6. /\ SubSeq(s, n + 1, Len(s)) \in Seq(Int)
      /\ Len(SubSeq(s, n + 1, Len(s))) = IF n + 1 <= Len(s) THEN Len(s) - (n + 1) + 1 ELSE 0
      /\ \A i \in 1 .. Len(s) - (n + 1) + 1 :
           SubSeq(s, n + 1, Len(s))[i] = s[(n + 1) + i - 1]
  BY <1>2, <1>5, SubSeqProperties
<1> PICK t : t = SubSeq(s, n + 1, Len(s))
  OBVIOUS
<1>7. Len(t) = Len(s) - n
  <2>1. Len(t) = IF n + 1 <= Len(s) THEN Len(s) - (n + 1) + 1 ELSE 0
    BY <1>6
  <2>2. CASE n + 1 <= Len(s)
    BY <2>1, <2>2, <1>2
  <2>3. CASE n = Len(s)
    <3>1. ~(n + 1 <= Len(s)) /\ Len(s) - n = 0
      BY <2>3, <1>2
    <3> QED
      BY <2>1, <3>1
  <2>4. n + 1 <= Len(s) \/ n = Len(s)
    <3>1. Len(s) \in Nat /\ n \in Nat /\ n <= Len(s)
      BY <1>2
    <3> QED
      BY <3>1
  <2> QED
    BY <2>2, <2>3, <2>4
<1>8. ASSUME NEW i \in 1 .. Len(s) - n PROVE t[i] = s[n + i]
  <2>1. i \in 1 .. Len(s) - (n + 1) + 1 /\ (n + 1) + i - 1 = n + i
    BY <1>2
  <2>2. t[i] = s[(n + 1) + i - 1]
    BY <2>1, <1>6
  <2> QED
    BY <2>1, <2>2
<1> QED
  BY <1>6, <1>7, <1>8

\* From drops the times before c and nothing else.
LEMMA FromIs ==
  ASSUME NEW s \in Seq(Int), Rising(s), NEW c \in Int
  PROVE  \E n \in 0 .. Len(s) :
           /\ \A i \in 1 .. Len(s) : s[i] < c <=> i <= n
           /\ Suffix(s, From(s, c), n)
<1>1. PICK n \in 0 .. Len(s) : /\ n = Cardinality({i \in DOMAIN s : s[i] < c})
                               /\ {i \in DOMAIN s : s[i] < c} = 1 .. n
  BY FirstOnes
<1>2. Len(s) \in Nat /\ n \in Nat /\ n <= Len(s) /\ DOMAIN s = 1 .. Len(s)
      /\ \A i \in 1 .. Len(s) : s[i] \in Int
  OBVIOUS
<1>3. \A i \in 1 .. Len(s) : s[i] < c <=> i <= n
  <2>1. \A i \in 1 .. Len(s) : s[i] < c <=> i \in 1 .. n
    BY <1>1, <1>2, Zenon
  <2>2. \A i \in 1 .. Len(s) : i \in 1 .. n <=> i <= n
    BY <1>2
  <2> QED
    BY <2>1, <2>2, Zenon
<1>4. From(s, c) = SubSeq(s, n + 1, Len(s))
  BY <1>1 DEF From
<1>5. Suffix(s, From(s, c), n)
  BY <1>4, CutAt DEF Suffix
<1> QED
  BY <1>3, <1>5

LEMMA FromRising ==
  ASSUME NEW s \in Seq(Int), Rising(s), NEW c \in Int
  PROVE  From(s, c) \in Seq(Int) /\ Rising(From(s, c))
<1>1. PICK n \in 0 .. Len(s) : Suffix(s, From(s, c), n)
  BY FromIs
<1> PICK t : t = From(s, c)
  OBVIOUS
<1>2. /\ Len(s) \in Nat /\ n \in Nat /\ n <= Len(s)
      /\ t \in Seq(Int) /\ Len(t) = Len(s) - n
      /\ \A i \in 1 .. Len(t) : t[i] = s[n + i]
  BY <1>1 DEF Suffix
<1>3. ASSUME NEW i \in 1 .. Len(t), NEW j \in 1 .. Len(t), i <= j PROVE t[i] <= t[j]
  <2>1. n + i \in 1 .. Len(s) /\ n + j \in 1 .. Len(s) /\ n + i <= n + j
    BY <1>2, <1>3
  <2>2. s[n + i] <= s[n + j]
    BY <2>1 DEF Rising
  <2> QED
    BY <1>2, <2>2
<1>4. Rising(t)
  BY <1>3 DEF Rising
<1> QED
  BY <1>2, <1>4

\* What was dropped once need not be looked at again.
LEMMA FromFrom ==
  ASSUME NEW s \in Seq(Int), Rising(s), NEW c \in Int, NEW d \in Int, c <= d
  PROVE  From(From(s, c), d) = From(s, d)
<1> PICK u : u = From(s, c)
  OBVIOUS
<1>1. PICK n \in 0 .. Len(s) : (\A i \in 1 .. Len(s) : s[i] < c <=> i <= n) /\ Suffix(s, u, n)
  BY FromIs
<1>2. PICK m \in 0 .. Len(s) : /\ \A i \in 1 .. Len(s) : s[i] < d <=> i <= m
                               /\ Suffix(s, From(s, d), m)
  BY FromIs
<1>3. u \in Seq(Int) /\ Rising(u)
  BY FromRising
<1>4. PICK k \in 0 .. Len(u) : /\ \A i \in 1 .. Len(u) : u[i] < d <=> i <= k
                               /\ Suffix(u, From(u, d), k)
  BY <1>3, FromIs
<1>5. /\ Len(s) \in Nat /\ n \in Nat /\ m \in Nat /\ k \in Nat
      /\ n <= Len(s) /\ m <= Len(s) /\ Len(u) = Len(s) - n /\ k <= Len(u)
      /\ \A i \in 1 .. Len(s) : s[i] \in Int
      /\ \A i \in 1 .. Len(u) : u[i] = s[n + i]
  <2>1. /\ Len(s) \in Nat /\ n \in Nat /\ m \in Nat /\ n <= Len(s) /\ m <= Len(s)
        /\ \A i \in 1 .. Len(s) : s[i] \in Int
    BY <1>1, <1>2
  <2>2. k \in Nat /\ k <= Len(u)
    BY <1>3, <1>4
  <2>3. Len(u) = Len(s) - n /\ \A i \in 1 .. Len(u) : u[i] = s[n + i]
    BY <1>1, Zenon DEF Suffix
  <2> QED
    BY <2>1, <2>2, <2>3, Zenon
<1>6. n <= m
  <2>1. CASE n = 0
    BY <2>1, <1>5
  <2>2. CASE n > 0
    <3>1. s[n] < c /\ s[n] \in Int
      BY <2>2, <1>1, <1>5
    <3>2. s[n] < d
      BY <3>1
    <3> QED
      BY <3>2, <2>2, <1>2, <1>5
  <2> QED
    BY <2>1, <2>2, <1>5
<1>7. ASSUME NEW i \in 1 .. Len(u) PROVE i <= k <=> n + i <= m
  <2>1. n + i \in 1 .. Len(s)
    BY <1>5
  <2>2. s[n + i] < d <=> n + i <= m
    BY <2>1, <1>2
  <2>3. u[i] < d <=> i <= k
    BY <1>4
  <2>4. u[i] = s[n + i]
    BY <1>5
  <2> QED
    BY <2>2, <2>3, <2>4
<1>8. k = m - n
  <2>1. k <= m - n
    <3>1. CASE k = 0
      BY <3>1, <1>5, <1>6
    <3>2. CASE k > 0
      BY <3>2, <1>5, <1>7
    <3> QED
      BY <3>1, <3>2, <1>5
  <2>2. m - n <= k
    <3>1. CASE m = n
      BY <3>1, <1>5
    <3>2. CASE m # n
      <4>1. m - n \in 1 .. Len(u) /\ n + (m - n) <= m
        BY <3>2, <1>5, <1>6
      <4> QED
        BY <4>1, <1>7
    <3> QED
      BY <3>1, <3>2
  <2> QED
    BY <2>1, <2>2, <1>5
<1> PICK x, y : x = From(u, d) /\ y = From(s, d)
  OBVIOUS
<1>9. x \in Seq(Int) /\ y \in Seq(Int) /\ Len(x) = Len(s) - m /\ Len(y) = Len(s) - m
  BY <1>2, <1>4, <1>5, <1>8 DEF Suffix
<1>10. ASSUME NEW i \in 1 .. Len(x) PROVE x[i] = y[i]
  <2>1. i \in Nat /\ i >= 1 /\ i <= Len(s) - m
    BY <1>5, <1>9
  <2>2. x[i] = u[k + i]
    BY <2>1, <1>4, <1>5, <1>8 DEF Suffix
  <2>3. u[k + i] = s[n + (k + i)]
    <3>1. k + i \in 1 .. Len(u)
      BY <2>1, <1>5, <1>6, <1>8
    <3> QED
      BY <3>1, <1>5, Zenon
  <2>4. n + (k + i) = m + i
    BY <2>1, <1>5, <1>8
  <2>5. y[i] = s[m + i]
    <3>1. i \in 1 .. Len(s) - m
      BY <2>1, <1>5
    <3> QED
      BY <3>1, <1>2 DEF Suffix
  <2> QED
    BY <2>2, <2>3, <2>4, <2>5
<1> QED
  BY <1>9, <1>10, SeqEqual

\* What is recorded now is kept.
LEMMA FromAppend ==
  ASSUME NEW s \in Seq(Int), Rising(s), NEW c \in Int, NEW t \in Int, c <= t,
         \A i \in 1 .. Len(s) : s[i] <= t
  PROVE  /\ Append(s, t) \in Seq(Int) /\ Rising(Append(s, t))
         /\ From(Append(s, t), c) = Append(From(s, c), t)
<1> PICK r : r = Append(s, t)
  OBVIOUS
<1>1. /\ r \in Seq(Int) /\ Len(r) = Len(s) + 1 /\ Len(s) \in Nat
      /\ \A i \in 1 .. Len(s) : r[i] = s[i] /\ s[i] \in Int
      /\ r[Len(s) + 1] = t
  OBVIOUS
<1>2. Rising(r)
  BY <1>1 DEF Rising
<1>3. PICK n \in 0 .. Len(s) : /\ \A i \in 1 .. Len(s) : s[i] < c <=> i <= n
                               /\ Suffix(s, From(s, c), n)
  BY FromIs
<1>4. PICK m \in 0 .. Len(r) : /\ \A i \in 1 .. Len(r) : r[i] < c <=> i <= m
                               /\ Suffix(r, From(r, c), m)
  BY <1>1, <1>2, FromIs
<1>5. m \in Nat /\ n \in Nat /\ n <= Len(s) /\ m <= Len(s) + 1
  BY <1>1
<1>6. m # Len(s) + 1
  <2>1. ~(r[Len(s) + 1] < c)
    BY <1>1
  <2> QED
    BY <2>1, <1>1, <1>4
<1>7. \A i \in 1 .. Len(s) : i <= m <=> i <= n
  BY <1>1, <1>3, <1>4
<1>8. m = n
  <2>1. m = 0 \/ m <= n
    BY <1>5, <1>6, <1>7
  <2>2. n = 0 \/ n <= m
    BY <1>5, <1>7
  <2> QED
    BY <2>1, <2>2, <1>5
<1>0. PICK x, y, z : x = From(r, c) /\ z = From(s, c) /\ y = Append(z, t)
  OBVIOUS
<1>9. /\ x \in Seq(Int) /\ Len(x) = Len(s) + 1 - n
      /\ z \in Seq(Int) /\ Len(z) = Len(s) - n
  BY <1>0, <1>1, <1>3, <1>4, <1>8 DEF Suffix
<1>10. /\ y \in Seq(Int) /\ Len(y) = Len(z) + 1
       /\ \A i \in 1 .. Len(z) : y[i] = z[i]
       /\ y[Len(z) + 1] = t
  <2>1. OneMoreTime(y, z, t)
    BY <1>0, <1>9, AppendTime
  <2> QED
    BY <2>1, Zenon DEF OneMoreTime
<1>11. ASSUME NEW i \in 1 .. Len(x) PROVE x[i] = y[i]
  <2>1. i \in Nat /\ i >= 1 /\ i <= Len(s) + 1 - n
    BY <1>1, <1>5, <1>9
  <2>2. x[i] = r[n + i]
    BY <1>0, <2>1, <1>1, <1>4, <1>5, <1>8 DEF Suffix
  <2>3. CASE i <= Len(s) - n
    <3>0. i \in 1 .. Len(s) - n
      BY <2>1, <2>3, <1>1, <1>5
    <3>1. z[i] = s[n + i]
      BY <1>0, <3>0, <1>3 DEF Suffix
    <3>2. n + i \in 1 .. Len(s)
      BY <2>1, <2>3, <1>1, <1>5
    <3>3. y[i] = z[i]
      BY <3>0, <1>9, <1>10
    <3>4. r[n + i] = s[n + i]
      BY <3>2, <1>1
    <3> QED
      BY <2>2, <3>1, <3>3, <3>4
  <2>4. CASE i = Len(s) + 1 - n
    <3>1. n + i = Len(s) + 1 /\ i = Len(z) + 1
      BY <2>4, <1>1, <1>5, <1>9
    <3>2. x[i] = r[Len(s) + 1]
      BY <2>2, <3>1
    <3>3. y[i] = y[Len(z) + 1]
      BY <3>1
    <3> QED
      BY <3>2, <3>3, <1>1, <1>10
  <2>5. i <= Len(s) - n \/ i = Len(s) + 1 - n
    BY <2>1, <1>1, <1>5
  <2> QED
    BY <2>3, <2>4, <2>5
<1>12. Len(x) = Len(y)
  BY <1>1, <1>5, <1>9, <1>10
<1>13. x = y
  BY <1>9, <1>10, <1>11, <1>12, SeqEqual
<1> QED
  BY <1>0, <1>1, <1>2, <1>13

\* How long ago, at t, the times of s were.
Ages(s, t) == [i \in DOMAIN s |-> t - s[i]]

LEMMA AgesAre ==
  ASSUME NEW s, NEW t
  PROVE  Ages(s, t) = [i \in DOMAIN s |-> t - s[i]]
BY DEF Ages

LEMMA AgesAt ==
  ASSUME NEW s \in Seq(Int), NEW t \in Int
  PROVE  /\ Ages(s, t) \in Seq(Int) /\ Len(Ages(s, t)) = Len(s)
         /\ DOMAIN Ages(s, t) = 1 .. Len(s) /\ DOMAIN s = 1 .. Len(s) /\ Len(s) \in Nat
         /\ \A i \in 1 .. Len(s) : Ages(s, t)[i] = t - s[i] /\ s[i] \in Int
<1>1. Len(s) \in Nat /\ DOMAIN s = 1 .. Len(s) /\ \A i \in 1 .. Len(s) : s[i] \in Int
  OBVIOUS
<1>2. Ages(s, t) = [i \in 1 .. Len(s) |-> t - s[i]]
  BY <1>1 DEF Ages
<1>3. \A i \in 1 .. Len(s) : t - s[i] \in Int
  BY <1>1
<1>4. [i \in 1 .. Len(s) |-> t - s[i]] \in [1 .. Len(s) -> Int]
  BY <1>3
<1> QED
  BY <1>1, <1>2, <1>4

\* A second later the failures are a second older, and more have counted
\* their time.
GrownOlder(g, w) ==
  LET over  == {i \in DOMAIN g : g[i] >= w}
      later == SubSeq(g, Cardinality(over) + 1, Len(g))
  IN  [i \in DOMAIN later |-> later[i] + 1]

\* That is what Throttle's second does to the ages of the stored times.
LEMMA AgesGrow ==
  ASSUME NEW s \in Seq(Int), Rising(s), NEW t \in Int, NEW w \in Int
  PROVE  GrownOlder(Ages(s, t), w) = Ages(From(s, t + 1 - w), t + 1)
<1> PICK g, c, u : g = Ages(s, t) /\ c = t + 1 - w /\ u = t + 1
  OBVIOUS
<1>1. /\ g \in Seq(Int) /\ Len(g) = Len(s) /\ Len(s) \in Nat
      /\ DOMAIN g = 1 .. Len(s) /\ DOMAIN s = 1 .. Len(s)
      /\ \A i \in 1 .. Len(s) : g[i] = t - s[i] /\ s[i] \in Int
  BY AgesAt
<1>2. c \in Int
  OBVIOUS
<1>3. ASSUME NEW i \in 1 .. Len(s) PROVE g[i] >= w <=> s[i] < c
  <2> PICK e \in Int : e = s[i]
    BY <1>1
  <2>1. g[i] = t - e
    BY <1>1
  <2>2. t - e >= w <=> e < t + 1 - w
    OBVIOUS
  <2> QED
    BY <2>1, <2>2
<1>4. {i \in DOMAIN g : g[i] >= w} = {i \in DOMAIN s : s[i] < c}
  BY <1>1, <1>3
<1>5. PICK n \in 0 .. Len(s) : /\ n = Cardinality({i \in DOMAIN s : s[i] < c})
                               /\ {i \in DOMAIN s : s[i] < c} = 1 .. n
  BY <1>2, FirstOnes
<1>0. PICK later, rest : later = SubSeq(g, n + 1, Len(g)) /\ rest = SubSeq(s, n + 1, Len(s))
  OBVIOUS
<1>6. From(s, c) = rest
  BY <1>0, <1>5 DEF From
<1>7. GrownOlder(g, w) = [i \in DOMAIN later |-> later[i] + 1]
  BY <1>0, <1>4, <1>5 DEF GrownOlder
<1>8. /\ rest \in Seq(Int) /\ Len(rest) = Len(s) - n
      /\ \A i \in 1 .. Len(s) - n : rest[i] = s[n + i]
  BY <1>0, <1>1, CutAt
<1>9. /\ later \in Seq(Int) /\ Len(later) = Len(s) - n
      /\ \A i \in 1 .. Len(s) - n : later[i] = g[n + i]
  <2>1. n \in 0 .. Len(g)
    BY <1>1
  <2>2. /\ later \in Seq(Int) /\ Len(later) = Len(g) - n
        /\ \A i \in 1 .. Len(g) - n : later[i] = g[n + i]
    BY <1>0, <2>1, <1>1, CutAt
  <2> QED
    BY <2>2, <1>1, Zenon
<1>10. DOMAIN later = 1 .. Len(s) - n /\ DOMAIN rest = 1 .. Len(s) - n
  BY <1>8, <1>9
<1>11. ASSUME NEW i \in 1 .. Len(s) - n PROVE later[i] + 1 = u - rest[i]
  <2>1. n + i \in 1 .. Len(s)
    BY <1>1
  <2> PICK e : e = s[n + i]
    OBVIOUS
  <2>2. later[i] = g[n + i] /\ rest[i] = e
    BY <1>8, <1>9
  <2>3. g[n + i] = t - e /\ e \in Int
    BY <2>1, <1>1
  <2>4. (t - e) + 1 = u - e
    BY <2>3
  <2> QED
    BY <2>2, <2>3, <2>4
<1>12. [i \in DOMAIN later |-> later[i] + 1] = [i \in DOMAIN rest |-> u - rest[i]]
  BY <1>10, <1>11
<1>13. Ages(rest, u) = [i \in DOMAIN rest |-> u - rest[i]]
  BY AgesAre, Zenon
<1>14. GrownOlder(g, w) = Ages(From(s, c), u)
  BY <1>6, <1>7, <1>12, <1>13
<1> QED
  BY <1>14

\* A failure that is recorded has age 0.
LEMMA AgesRecorded ==
  ASSUME NEW s \in Seq(Int), Rising(s), NEW t \in Int, \A i \in 1 .. Len(s) : s[i] <= t,
         NEW c \in Int, c <= t
  PROVE  /\ Len(From(Append(s, t), c)) = Len(Ages(From(s, c), t)) + 1
         /\ Ages(From(From(Append(s, t), c), c), t) = Append(Ages(From(s, c), t), 0)
<1> PICK r, u : r = Append(s, t) /\ u = From(s, c)
  OBVIOUS
<1>1. r \in Seq(Int) /\ Rising(r) /\ From(r, c) = Append(u, t)
  BY FromAppend
<1>2. From(From(r, c), c) = Append(u, t)
  <2>1. c <= c
    OBVIOUS
  <2>2. From(From(r, c), c) = From(r, c)
    BY <1>1, <2>1, FromFrom
  <2> QED
    BY <1>1, <2>2
<1>3. u \in Seq(Int)
  BY FromRising
<1> PICK g, v : g = Ages(u, t) /\ v = Append(u, t)
  OBVIOUS
<1>4. /\ g \in Seq(Int) /\ Len(g) = Len(u) /\ Len(u) \in Nat
      /\ \A i \in 1 .. Len(u) : g[i] = t - u[i]
  BY <1>3, AgesAt
<1>5. /\ v \in Seq(Int) /\ Len(v) = Len(u) + 1
      /\ \A i \in 1 .. Len(u) : v[i] = u[i]
      /\ v[Len(u) + 1] = t
  <2>1. OneMoreTime(v, u, t)
    BY <1>3, AppendTime
  <2> QED
    BY <2>1, Zenon DEF OneMoreTime
<1>0. PICK x, y : x = Ages(v, t) /\ y = Append(g, 0)
  OBVIOUS
<1>6. /\ x \in Seq(Int) /\ Len(x) = Len(u) + 1
      /\ \A i \in 1 .. Len(u) + 1 : x[i] = t - v[i]
  <2>1. /\ x \in Seq(Int) /\ Len(x) = Len(v)
        /\ \A i \in 1 .. Len(v) : x[i] = t - v[i]
    BY <1>0, <1>5, AgesAt
  <2> QED
    BY <2>1, <1>5
<1>7. /\ y \in Seq(Int) /\ Len(y) = Len(u) + 1
      /\ \A i \in 1 .. Len(u) : y[i] = g[i]
      /\ y[Len(u) + 1] = 0
  <2>1. OneMoreTime(y, g, 0)
    BY <1>0, <1>4, AppendTime
  <2> QED
    BY <1>4, <2>1, Zenon DEF OneMoreTime
<1>8. ASSUME NEW i \in 1 .. Len(u) + 1 PROVE x[i] = y[i]
  <2>1. i \in 1 .. Len(u) \/ i = Len(u) + 1
    BY <1>4
  <2>2. CASE i \in 1 .. Len(u)
    <3>1. x[i] = t - v[i] /\ v[i] = u[i]
      BY <2>2, <1>5, <1>6
    <3>2. y[i] = g[i] /\ g[i] = t - u[i]
      BY <2>2, <1>4, <1>7
    <3> QED
      BY <3>1, <3>2
  <2>3. CASE i = Len(u) + 1
    <3>1. x[i] = t - v[i] /\ v[i] = t
      BY <2>3, <1>5, <1>6
    <3>2. y[i] = 0
      BY <2>3, <1>7
    <3>3. t - t = 0
      OBVIOUS
    <3> QED
      BY <3>1, <3>2, <3>3
  <2> QED
    BY <2>1, <2>2, <2>3
<1>9. x = y
  BY <1>6, <1>7, <1>8, SeqEqual
<1>10. Len(v) = Len(g) + 1
  BY <1>4, <1>5
<1> QED
  BY <1>0, <1>1, <1>2, <1>9, <1>10

LEMMA AgesOfNone ==
  ASSUME NEW t \in Int, NEW c \in Int
  PROVE  Ages(From(<< >>, c), t) = << >> /\ Rising(<< >>)
<1>1. << >> \in Seq(Int) /\ Len(<< >>) = 0
  OBVIOUS
<1>2. Rising(<< >>)
  BY <1>1 DEF Rising
<1> PICK e, u : e = << >> /\ u = From(e, c)
  OBVIOUS
<1>3. PICK n \in 0 .. Len(e) : Suffix(e, u, n)
  BY <1>1, <1>2, FromIs
<1>4. Len(u) = 0 /\ u \in Seq(Int)
  BY <1>1, <1>3 DEF Suffix
<1>5. DOMAIN u = {}
  BY <1>4
<1>6. Ages(u, t) = << >>
  BY <1>5 DEF Ages
<1> QED
  BY <1>2, <1>6

LEMMA TimesLeft ==
  ASSUME NEW s \in Seq(Int), Rising(s), NEW c \in Int, NEW t \in Int,
         \A i \in 1 .. Len(s) : s[i] <= t
  PROVE  /\ From(s, c) \in Seq(Int) /\ Rising(From(s, c))
         /\ \A i \in 1 .. Len(From(s, c)) : From(s, c)[i] <= t
<1>1. PICK n \in 0 .. Len(s) : Suffix(s, From(s, c), n)
  BY FromIs
<1>2. /\ Len(s) \in Nat /\ Len(From(s, c)) = Len(s) - n
      /\ \A i \in 1 .. Len(s) - n : From(s, c)[i] = s[n + i]
  BY <1>1 DEF Suffix
<1>3. ASSUME NEW i \in 1 .. Len(From(s, c)) PROVE From(s, c)[i] <= t
  <2>1. i \in 1 .. Len(s) - n /\ n + i \in 1 .. Len(s)
    BY <1>2
  <2> QED
    BY <2>1, <1>2
<1> QED
  BY <1>3, FromRising

-----------------------------------------------------------------------------
(* What the stored times f and ends of blocks b say at the time t.         *)
AgesOf(f, t) == [a \in Address |-> Ages(From(f[a], t - Window), t)]

RefusedOf(b, t) == [a \in Address |-> IF t >= b[a] THEN 0 ELSE b[a] - t]

\* The clock was not set back: no stored time is later than t or than one
\* stored after it.
TimesInOrder(f, t) ==
  /\ f \in [Address -> Seq(Int)]
  /\ \A a \in Address : Rising(f[a]) /\ \A i \in 1 .. Len(f[a]) : f[a][i] <= t

GrownOlderAll(g) == [a \in Address |-> GrownOlder(g[a], Window)]

WaitLess(r) == [a \in Address |-> IF r[a] > 0 THEN r[a] - 1 ELSE 0]

LEMMA ASecondLater ==
  ASSUME NEW f, NEW t \in Nat, TimesInOrder(f, t)
  PROVE  AgesOf(f, t + 1) = GrownOlderAll(AgesOf(f, t))
<1> PICK g, u : g = AgesOf(f, t) /\ u = t + 1
  OBVIOUS
<1>1. ASSUME NEW a \in Address
      PROVE  Ages(From(f[a], u - Window), u) = GrownOlder(g[a], Window)
  <2> PICK s, c, d : s = f[a] /\ c = t - Window /\ d = u - Window
    OBVIOUS
  <2>1. /\ s \in Seq(Int) /\ Rising(s) /\ c \in Int /\ d \in Int /\ c <= d
        /\ t \in Int /\ Window \in Int /\ d = t + 1 - Window
    BY LimiterAssumption DEF TimesInOrder
  <2>2. From(s, c) \in Seq(Int) /\ Rising(From(s, c))
    BY <2>1, FromRising
  <2>3. GrownOlder(Ages(From(s, c), t), Window) = Ages(From(From(s, c), d), u)
    BY <2>1, <2>2, AgesGrow
  <2>4. From(From(s, c), d) = From(s, d)
    BY <2>1, FromFrom
  <2>5. g[a] = Ages(From(s, c), t)
    BY DEF AgesOf
  <2> QED
    BY <2>3, <2>4, <2>5
<1>2. AgesOf(f, u) = [a \in Address |-> Ages(From(f[a], u - Window), u)]
  BY DEF AgesOf
<1>3. AgesOf(f, u) = GrownOlderAll(g)
  BY <1>1, <1>2 DEF GrownOlderAll
<1> QED
  BY <1>3

LEMMA ASecondLess ==
  ASSUME NEW b \in [Address -> Nat], NEW t \in Nat
  PROVE  RefusedOf(b, t + 1) = WaitLess(RefusedOf(b, t))
BY DEF RefusedOf, WaitLess

\* The times k, kept at t, are those that the ages are counted from.
HasAges(k, t, ages) ==
  /\ k \in Seq(Int) /\ Rising(k)
  /\ \A i \in 1 .. Len(k) : k[i] <= t
  /\ Ages(From(k, t - Window), t) = ages

\* What happens to the times of an address: one is recorded, ...
LEMMA TimesRecorded ==
  ASSUME NEW f, NEW t \in Nat, TimesInOrder(f, t), NEW a \in Address
  PROVE  /\ HasAges(From(Append(f[a], t), t - Window), t, Append(AgesOf(f, t)[a], 0))
         /\ Len(From(Append(f[a], t), t - Window)) = Len(AgesOf(f, t)[a]) + 1
<1> PICK s, c : s = f[a] /\ c = t - Window
  OBVIOUS
<1>1. /\ s \in Seq(Int) /\ Rising(s) /\ c \in Int /\ c <= t /\ t \in Int
      /\ \A i \in 1 .. Len(s) : s[i] <= t
  BY LimiterAssumption DEF TimesInOrder
<1>2. AgesOf(f, t)[a] = Ages(From(s, c), t)
  BY DEF AgesOf
<1>3. /\ Len(From(Append(s, t), c)) = Len(Ages(From(s, c), t)) + 1
      /\ Ages(From(From(Append(s, t), c), c), t) = Append(Ages(From(s, c), t), 0)
  BY <1>1, AgesRecorded
<1> PICK r : r = Append(s, t)
  OBVIOUS
<1>4. r \in Seq(Int) /\ Rising(r) /\ \A i \in 1 .. Len(r) : r[i] <= t
  <2>1. r \in Seq(Int) /\ Rising(r)
    BY <1>1, FromAppend
  <2>2. Len(r) = Len(s) + 1 /\ Len(s) \in Nat /\ r[Len(s) + 1] = t
        /\ \A i \in 1 .. Len(s) : r[i] = s[i]
    BY <1>1, AppendProperties
  <2> QED
    BY <2>1, <2>2, <1>1
<1>5. From(r, c) \in Seq(Int) /\ Rising(From(r, c))
      /\ \A i \in 1 .. Len(From(r, c)) : From(r, c)[i] <= t
  BY <1>1, <1>4, TimesLeft
<1>6. HasAges(From(r, c), t, Append(AgesOf(f, t)[a], 0))
  BY <1>2, <1>3, <1>5 DEF HasAges
<1> QED
  BY <1>2, <1>3, <1>6, Zenon

\* ... they are swept because another address failed, ...
LEMMA TimesSwept ==
  ASSUME NEW f, NEW t \in Nat, TimesInOrder(f, t), NEW a \in Address
  PROVE  HasAges(From(f[a], t - Window), t, AgesOf(f, t)[a])
<1> PICK s, c : s = f[a] /\ c = t - Window
  OBVIOUS
<1>1. /\ s \in Seq(Int) /\ Rising(s) /\ c \in Int /\ c <= c /\ t \in Int
      /\ \A i \in 1 .. Len(s) : s[i] <= t
  BY LimiterAssumption DEF TimesInOrder
<1>2. AgesOf(f, t)[a] = Ages(From(s, c), t)
  BY DEF AgesOf
<1>3. From(From(s, c), c) = From(s, c)
  BY <1>1, FromFrom
<1>4. From(s, c) \in Seq(Int) /\ Rising(From(s, c))
      /\ \A i \in 1 .. Len(From(s, c)) : From(s, c)[i] <= t
  BY <1>1, TimesLeft
<1> QED
  BY <1>2, <1>3, <1>4 DEF HasAges

\* ... they are forgotten.
LEMMA TimesForgotten ==
  ASSUME NEW t \in Nat
  PROVE  /\ << >> \in Seq(Int) /\ Rising(<< >>) /\ Len(<< >>) = 0
         /\ Ages(From(<< >>, t - Window), t) = << >>
BY AgesOfNone, LimiterAssumption

-----------------------------------------------------------------------------
(* The database: the rows of an address are its failures in the order in   *)
(* which they were recorded, and a sweep takes the first ones.             *)
DatabaseInv == LimiterInv /\ TimesInOrder(attempts, now)

SqlAges ==
  [a \in Address |-> LET s == Swept(attempts[a]) IN [i \in DOMAIN s |-> now - s[i]]]

SqlRefused == [a \in Address |-> IF now >= blocks[a] THEN 0 ELSE blocks[a] - now]

\* What the refinement mapping of the database says, and says after a step.
LEMMA SqlSays == /\ SqlAges = AgesOf(attempts, now)
                 /\ SqlRefused = RefusedOf(blocks, now)
BY DEF SqlAges, SqlRefused, AgesOf, RefusedOf, Ages, From, Swept

LEMMA SqlSaysNext == /\ SqlAges' = AgesOf(attempts', now')
                     /\ SqlRefused' = RefusedOf(blocks', now')
BY DEF SqlAges, SqlRefused, AgesOf, RefusedOf, Ages, From, Swept

\* The steps of Throttle in the terms of the mapping.
LEMMA SecondIs ==
  ASSUME SqlAges' = GrownOlderAll(SqlAges), SqlRefused' = WaitLess(SqlRefused)
  PROVE  Limit!Second
<1>0. ASSUME NEW S PROVE Limit!Cardinality(S) = Cardinality(S)
  BY DEF Limit!Cardinality, Cardinality
<1>1. ASSUME NEW g PROVE Limit!Older(g) = GrownOlder(g, Window)
  BY <1>0 DEF Limit!Older, GrownOlder
<1>2. GrownOlderAll(SqlAges) = [a \in Address |-> Limit!Older(SqlAges[a])]
  BY <1>1 DEF GrownOlderAll
<1>3. /\ SqlAges' = [a \in Address |-> Limit!Older(SqlAges[a])]
      /\ SqlRefused' = [a \in Address |-> IF SqlRefused[a] > 0 THEN SqlRefused[a] - 1 ELSE 0]
  BY <1>2 DEF WaitLess
<1> QED
  BY <1>3 DEF Limit!Second, SqlAges, SqlRefused

LEMMA SameIs ==
  ASSUME SqlAges' = SqlAges, SqlRefused' = SqlRefused
  PROVE  UNCHANGED Limit!vars
BY DEF Limit!vars, SqlAges, SqlRefused

LEMMA SucceedIs ==
  ASSUME NEW a \in Address,
         SqlAges' = [SqlAges EXCEPT ![a] = << >>], SqlRefused' = [SqlRefused EXCEPT ![a] = 0]
  PROVE  Limit!Succeed(a)
BY DEF Limit!Succeed, SqlAges, SqlRefused

LEMMA FailIs ==
  ASSUME NEW a \in Address,
         IF Len(SqlAges[a]) + 1 >= MaxAttempts
         THEN /\ SqlAges' = [SqlAges EXCEPT ![a] = << >>]
              /\ SqlRefused' = [SqlRefused EXCEPT ![a] = Cooldown]
         ELSE /\ SqlAges' = [SqlAges EXCEPT ![a] = Append(@, 0)]
              /\ SqlRefused' = SqlRefused
  PROVE  Limit!Fail(a)
BY DEF Limit!Fail, SqlAges, SqlRefused

\* The order survives a second and a success.
LEMMA TimesLater ==
  ASSUME NEW f, NEW t \in Nat, TimesInOrder(f, t)
  PROVE  TimesInOrder(f, t + 1)
<1>1. ASSUME NEW a \in Address, NEW i \in 1 .. Len(f[a]) PROVE f[a][i] <= t + 1
  <2>1. f[a] \in Seq(Int) /\ f[a][i] <= t
    BY DEF TimesInOrder
  <2>2. f[a][i] \in Int
    BY <2>1
  <2> QED
    BY <2>1, <2>2
<1> QED
  BY <1>1 DEF TimesInOrder

LEMMA TimesCleared ==
  ASSUME NEW f, NEW t \in Nat, TimesInOrder(f, t), NEW a \in Address
  PROVE  /\ TimesInOrder([f EXCEPT ![a] = << >>], t)
         /\ AgesOf([f EXCEPT ![a] = << >>], t) = [AgesOf(f, t) EXCEPT ![a] = << >>]
<1> PICK h, g : h = [f EXCEPT ![a] = << >>] /\ g = AgesOf(f, t)
  OBVIOUS
<1>1. /\ << >> \in Seq(Int) /\ Rising(<< >>) /\ Len(<< >>) = 0
      /\ Ages(From(<< >>, t - Window), t) = << >>
  BY TimesForgotten
<1>2. /\ h \in [Address -> Seq(Int)] /\ h[a] = << >>
      /\ \A b \in Address : b # a => h[b] = f[b]
  BY <1>1 DEF TimesInOrder
<1>3. ASSUME NEW b \in Address
      PROVE  Rising(h[b]) /\ \A i \in 1 .. Len(h[b]) : h[b][i] <= t
  <2>1. CASE b = a
    BY <2>1, <1>1, <1>2
  <2>2. CASE b # a
    BY <2>2, <1>2 DEF TimesInOrder
  <2> QED
    BY <2>1, <2>2
<1>4. ASSUME NEW b \in Address
      PROVE  AgesOf(h, t)[b] = IF b = a THEN << >> ELSE g[b]
  BY <1>1, <1>2 DEF AgesOf
<1>5. AgesOf(h, t) = [g EXCEPT ![a] = << >>]
  BY <1>4 DEF AgesOf
<1> QED
  BY <1>2, <1>3, <1>5 DEF TimesInOrder

LEMMA RefusedCleared ==
  ASSUME NEW b \in [Address -> Nat], NEW t \in Nat, NEW a \in Address
  PROVE  RefusedOf([b EXCEPT ![a] = 0], t) = [RefusedOf(b, t) EXCEPT ![a] = 0]
<1> PICK d, r : d = [b EXCEPT ![a] = 0] /\ r = RefusedOf(b, t)
  OBVIOUS
<1>1. /\ d \in [Address -> Nat] /\ d[a] = 0
      /\ \A e \in Address : e # a => d[e] = b[e]
  OBVIOUS
<1>2. ASSUME NEW e \in Address
      PROVE  RefusedOf(d, t)[e] = IF e = a THEN 0 ELSE r[e]
  BY <1>1 DEF RefusedOf
<1>3. RefusedOf(d, t) = [r EXCEPT ![a] = 0]
  BY <1>2 DEF RefusedOf
<1> QED
  BY <1>3

LEMMA DatabaseInit == Init => DatabaseInv /\ Limit!Init
<1> SUFFICES ASSUME Init PROVE DatabaseInv /\ Limit!Init
  OBVIOUS
<1>1. LimiterInv
  BY LimiterInitHolds
<1>2. /\ now = 0
      /\ attempts = [a \in Address |-> << >>]
      /\ blocks = [a \in Address |-> 0]
  BY DEF Init
<1>3. /\ << >> \in Seq(Int) /\ Rising(<< >>) /\ Len(<< >>) = 0
      /\ Ages(From(<< >>, 0 - Window), 0) = << >>
  BY TimesForgotten
<1>4. TimesInOrder(attempts, now)
  BY <1>2, <1>3 DEF TimesInOrder
<1>5. AgesOf(attempts, now) = [a \in Address |-> << >>]
  BY <1>2, <1>3 DEF AgesOf
<1>6. RefusedOf(blocks, now) = [a \in Address |-> 0]
  BY <1>2 DEF RefusedOf
<1>7. Limit!Init
  BY <1>5, <1>6, SqlSays DEF Limit!Init, SqlAges, SqlRefused
<1> QED
  BY <1>1, <1>4, <1>7 DEF DatabaseInv

\* A failure, with the sweeps of every address that come with it, shows as a
\* failure of the loop's address: the sweeps took what no longer counted.
LEMMA FailureIsFail ==
  ASSUME DatabaseInv, NEW w \in Worker, RecordFailure(w)
  PROVE  TimesInOrder(attempts', now') /\ \E a \in Address : Limit!Fail(a)
<1> PICK a, t, c : a = peer[w] /\ t = now /\ c = now - Window
  OBVIOUS
<1>1. /\ a \in Address /\ t \in Nat /\ TimesInOrder(attempts, t)
      /\ blocks \in [Address -> Nat] /\ attempts \in [Address -> Seq(Int)]
      /\ Cooldown \in Nat /\ now' = t
  BY LimiterAssumption DEF DatabaseInv, LimiterInv, TimesInOrder, RecordFailure
<1> PICK rows, kept, live : /\ rows = [attempts EXCEPT ![peer[w]] = Append(@, now)]
                            /\ kept = [b \in Address |-> Swept(rows[b])]
                            /\ live = [b \in Address |-> LiveBlock(b)]
  OBVIOUS
<1>2. IF Len(kept[a]) >= MaxAttempts
      THEN /\ blocks' = [live EXCEPT ![a] = t + Cooldown]
           /\ attempts' = [kept EXCEPT ![a] = << >>]
      ELSE blocks' = live /\ attempts' = kept
  BY DEF RecordFailure
<1>3. /\ kept[a] = From(Append(attempts[a], t), c)
      /\ \A b \in Address : b # a => kept[b] = From(attempts[b], c)
      /\ DOMAIN kept = Address
  <2>1. \A b \in Address : kept[b] = From(rows[b], c)
    BY DEF Swept, From
  <2>2. rows[a] = Append(attempts[a], t) /\ \A b \in Address : b # a => rows[b] = attempts[b]
    BY <1>1
  <2> QED
    BY <2>1, <2>2, <1>1
<1> PICK g : g = AgesOf(attempts, t)
  OBVIOUS
<1>4. HasAges(kept[a], t, Append(g[a], 0)) /\ Len(kept[a]) = Len(g[a]) + 1
  <2>1. LET k == From(Append(attempts[a], t), t - Window)
        IN  /\ HasAges(k, t, Append(AgesOf(attempts, t)[a], 0))
            /\ Len(k) = Len(AgesOf(attempts, t)[a]) + 1
    BY <1>1, TimesRecorded, Zenon
  <2> QED
    BY <1>3, <2>1
<1>5. ASSUME NEW b \in Address, b # a PROVE HasAges(kept[b], t, g[b])
  <2>1. HasAges(From(attempts[b], t - Window), t, AgesOf(attempts, t)[b])
    BY <1>1, TimesSwept, Zenon
  <2> QED
    BY <1>3, <1>5, <2>1
<1>6. /\ << >> \in Seq(Int) /\ Rising(<< >>) /\ Len(<< >>) = 0
      /\ Ages(From(<< >>, c), t) = << >>
  BY <1>1, TimesForgotten
<1>7. kept \in [Address -> Seq(Int)]
  BY <1>3, <1>4, <1>5 DEF HasAges
<1>8. TimesInOrder(kept, t)
  BY <1>4, <1>5, <1>7 DEF TimesInOrder, HasAges
<1>9. \A b \in Address : AgesOf(kept, t)[b] = IF b = a THEN Append(g[a], 0) ELSE g[b]
  BY <1>4, <1>5 DEF AgesOf, HasAges
<1>10. g = [b \in Address |-> g[b]]
  BY DEF AgesOf
<1>11. SqlAges = g /\ SqlRefused = RefusedOf(blocks, t)
  BY SqlSays
<1>12. SqlAges' = AgesOf(attempts', t) /\ SqlRefused' = RefusedOf(blocks', t)
  BY <1>1, SqlSaysNext
<1>13. live \in [Address -> Nat]
       /\ \A b \in Address : live[b] = IF blocks[b] <= t THEN 0 ELSE blocks[b]
  BY <1>1 DEF LiveBlock
<1>14. \A b \in Address : RefusedOf(live, t)[b] = RefusedOf(blocks, t)[b]
  BY <1>1, <1>13 DEF RefusedOf
<1>15. CASE Len(kept[a]) >= MaxAttempts
  <2>1. /\ blocks' = [live EXCEPT ![a] = t + Cooldown]
        /\ attempts' = [kept EXCEPT ![a] = << >>]
    BY <1>2, <1>15
  <2>2. /\ attempts' \in [Address -> Seq(Int)] /\ attempts'[a] = << >>
        /\ \A b \in Address : b # a => attempts'[b] = kept[b]
    BY <2>1, <1>1, <1>6, <1>7
  <2>3. TimesInOrder(attempts', t)
    <3>1. ASSUME NEW b \in Address
          PROVE  Rising(attempts'[b]) /\ \A i \in 1 .. Len(attempts'[b]) : attempts'[b][i] <= t
      <4>1. CASE b = a
        BY <4>1, <2>2, <1>6
      <4>2. CASE b # a
        BY <4>2, <2>2, <1>5 DEF HasAges
      <4> QED
        BY <4>1, <4>2
    <3> QED
      BY <3>1, <2>2 DEF TimesInOrder
  <2>4. ASSUME NEW b \in Address
        PROVE  AgesOf(attempts', t)[b] = IF b = a THEN << >> ELSE g[b]
    BY <2>2, <1>5, <1>6 DEF AgesOf, HasAges
  <2>5. AgesOf(attempts', t) = [g EXCEPT ![a] = << >>]
    BY <2>4, <1>10 DEF AgesOf
  <2>6. /\ blocks'[a] = t + Cooldown
        /\ \A b \in Address : b # a => blocks'[b] = live[b]
    BY <2>1, <1>1, <1>13
  <2>7. ASSUME NEW b \in Address
        PROVE  RefusedOf(blocks', t)[b] = IF b = a THEN Cooldown ELSE RefusedOf(blocks, t)[b]
    BY <2>6, <1>1, <1>14 DEF RefusedOf
  <2>8. RefusedOf(blocks', t) = [RefusedOf(blocks, t) EXCEPT ![a] = Cooldown]
    BY <2>7 DEF RefusedOf
  <2>9. /\ SqlAges' = [SqlAges EXCEPT ![a] = << >>]
        /\ SqlRefused' = [SqlRefused EXCEPT ![a] = Cooldown]
        /\ Len(SqlAges[a]) + 1 >= MaxAttempts
    BY <2>5, <2>8, <1>4, <1>11, <1>12, <1>15
  <2>10. Limit!Fail(a)
    BY <2>9, <1>1, FailIs
  <2> QED
    BY <2>3, <2>10, <1>1
<1>16. CASE ~(Len(kept[a]) >= MaxAttempts)
  <2>1. blocks' = live /\ attempts' = kept
    BY <1>2, <1>16
  <2>2. AgesOf(kept, t) = [g EXCEPT ![a] = Append(@, 0)]
    BY <1>1, <1>9, <1>10 DEF AgesOf
  <2>3. RefusedOf(live, t) = RefusedOf(blocks, t)
    BY <1>14 DEF RefusedOf
  <2>4. /\ SqlAges' = [SqlAges EXCEPT ![a] = Append(@, 0)]
        /\ SqlRefused' = SqlRefused
        /\ ~(Len(SqlAges[a]) + 1 >= MaxAttempts)
    BY <2>1, <2>2, <2>3, <1>4, <1>11, <1>12, <1>16
  <2>5. Limit!Fail(a)
    BY <2>4, <1>1, FailIs
  <2> QED
    BY <2>1, <2>5, <1>1, <1>8
<1> QED
  BY <1>15, <1>16

\* Every transaction maps to a step of Throttle or to a stutter.
LEMMA DatabaseStep ==
  ASSUME DatabaseInv, LimiterInv', [Next]_vars
  PROVE  DatabaseInv' /\ [Limit!Next]_(Limit!vars)
<1>1. /\ now \in Nat /\ blocks \in [Address -> Nat] /\ TimesInOrder(attempts, now)
      /\ loop \in [Worker -> {"accept", "forget", "handshake"}]
      /\ peer \in [Worker -> Address]
  BY DEF DatabaseInv, LimiterInv
<1>2. ASSUME UNCHANGED <<now, attempts>>, RefusedOf(blocks', now) = RefusedOf(blocks, now)
      PROVE  DatabaseInv' /\ UNCHANGED Limit!vars
  <2>1. TimesInOrder(attempts', now')
    BY <1>1, <1>2
  <2>2. SqlAges' = SqlAges /\ SqlRefused' = SqlRefused
    BY <1>2, SqlSays, SqlSaysNext
  <2> QED
    BY <2>1, <2>2, SameIs DEF DatabaseInv
<1>3. CASE UNCHANGED vars
  BY <1>2, <1>3 DEF vars
<1>4. CASE Tick
  <2>1. now' = now + 1 /\ UNCHANGED <<attempts, blocks>>
    BY <1>4 DEF Tick
  <2>2. TimesInOrder(attempts', now')
    BY <1>1, <2>1, TimesLater
  <2>3. SqlAges' = GrownOlderAll(SqlAges)
    BY <1>1, <2>1, ASecondLater, SqlSays, SqlSaysNext
  <2>4. SqlRefused' = WaitLess(SqlRefused)
    BY <1>1, <2>1, ASecondLess, SqlSays, SqlSaysNext
  <2>5. Limit!Second
    BY <2>3, <2>4, SecondIs
  <2> QED
    BY <2>2, <2>5 DEF DatabaseInv, Limit!Next
<1>5. ASSUME NEW w \in Worker, NEW a \in Address, IsBlocked(w, a)
      PROVE  DatabaseInv' /\ UNCHANGED Limit!vars
  BY <1>2, <1>5 DEF IsBlocked
<1>6. ASSUME NEW w \in Worker, ForgetBlock(w)
      PROVE  DatabaseInv' /\ UNCHANGED Limit!vars
  <2> PICK a : a = peer[w]
    OBVIOUS
  <2>1. /\ blocks' = [blocks EXCEPT ![a] = 0] /\ UNCHANGED <<now, attempts>>
        /\ a \in Address /\ blocks[a] <= now
    BY <1>1, <1>6 DEF ForgetBlock, DatabaseInv, LimiterInv
  <2>2. RefusedOf(blocks', now) = RefusedOf(blocks, now)
    BY <1>1, <2>1 DEF RefusedOf
  <2> QED
    BY <1>2, <2>1, <2>2
<1>7. ASSUME NEW w \in Worker, RecordFailure(w)
      PROVE  DatabaseInv' /\ \E a \in Address : Limit!Fail(a)
  BY <1>7, FailureIsFail DEF DatabaseInv
<1>8. ASSUME NEW w \in Worker, RecordSuccess(w)
      PROVE  DatabaseInv' /\ \E a \in Address : Limit!Succeed(a)
  <2> PICK a : a = peer[w]
    OBVIOUS
  <2>1. /\ attempts' = [attempts EXCEPT ![a] = << >>] /\ blocks' = [blocks EXCEPT ![a] = 0]
        /\ now' = now /\ a \in Address
    BY <1>1, <1>8 DEF RecordSuccess
  <2>2. /\ TimesInOrder(attempts', now)
        /\ AgesOf(attempts', now) = [AgesOf(attempts, now) EXCEPT ![a] = << >>]
    BY <1>1, <2>1, TimesCleared
  <2>3. RefusedOf(blocks', now) = [RefusedOf(blocks, now) EXCEPT ![a] = 0]
    BY <1>1, <2>1, RefusedCleared
  <2>4. SqlAges' = [SqlAges EXCEPT ![a] = << >>] /\ SqlRefused' = [SqlRefused EXCEPT ![a] = 0]
    BY <2>1, <2>2, <2>3, SqlSays, SqlSaysNext
  <2>5. Limit!Succeed(a)
    BY <2>1, <2>4, SucceedIs
  <2> QED
    BY <2>1, <2>2, <2>5 DEF DatabaseInv
<1>9. ASSUME NEW w \in Worker, Drop(w)
      PROVE  DatabaseInv' /\ UNCHANGED Limit!vars
  BY <1>2, <1>9 DEF Drop
<1> QED
  BY <1>3, <1>4, <1>5, <1>6, <1>7, <1>8, <1>9, <1>2 DEF Next, vars, Limit!Next

(* "Same throttling behavior as RateLimiter": with one accept loop on the  *)
(* file, what is refused and for how long is what Throttle says, for every *)
(* threshold, window and cooldown, over any time, with restarts.           *)
THEOREM DatabaseThrottles == ASSUME SoleLoop PROVE Spec => ImplementsThrottle
<1>1. DatabaseInv /\ LimiterInv' /\ [Next]_vars => DatabaseInv' /\ [Limit!Next]_(Limit!vars)
  BY DatabaseStep
<1> QED
  BY <1>1, DatabaseInit, LimiterInvariance, PTL DEF Spec, ImplementsThrottle, Limit!Spec

-----------------------------------------------------------------------------
(* The in-memory limiter: the same of its deques.                          *)
MemoryInv ==
  /\ now \in Nat
  /\ blockedUntil \in [Address -> Nat]
  /\ TimesInOrder(failures, now)

MemAges ==
  [a \in Address |-> LET s == Memory!Recent(failures[a]) IN [i \in DOMAIN s |-> now - s[i]]]

MemRefused == [a \in Address |-> Memory!SecondsUntilUnblocked(a)]

\* Recent at the time t.
Lately(s, t) ==
  SubSeq(s, Cardinality({i \in DOMAIN s : t - s[i] > Window}) + 1, Len(s))

LatelyOf(f, t) == [a \in Address |-> LET s == Lately(f[a], t) IN [i \in DOMAIN s |-> t - s[i]]]

\* What is recent is what is left without the first that do not count.
LEMMA LatelyIs ==
  ASSUME NEW s \in Seq(Int), NEW t \in Int
  PROVE  Lately(s, t) = From(s, t - Window)
<1>1. \A i \in DOMAIN s : t - s[i] > Window <=> s[i] < t - Window
  BY LimiterAssumption
<1>2. {i \in DOMAIN s : t - s[i] > Window} = {i \in DOMAIN s : s[i] < t - Window}
  BY <1>1
<1> QED
  BY <1>2 DEF Lately, From

LEMMA LatelyOfIs ==
  ASSUME NEW f \in [Address -> Seq(Int)], NEW t \in Int
  PROVE  LatelyOf(f, t) = AgesOf(f, t)
<1>1. \A a \in Address : Lately(f[a], t) = From(f[a], t - Window)
  BY LatelyIs
<1> QED
  BY <1>1 DEF LatelyOf, AgesOf, Ages

LEMMA RecentIs ==
  ASSUME NEW s
  PROVE  Memory!Recent(s) = Lately(s, now)
<1>1. ASSUME NEW S PROVE Memory!Cardinality(S) = Cardinality(S)
  BY DEF Memory!Cardinality, Cardinality
<1> QED
  BY <1>1 DEF Memory!Recent, Lately

\* What the refinement mapping says, and says after a call.
LEMMA MemSays ==
  ASSUME failures \in [Address -> Seq(Int)], now \in Int
  PROVE  MemAges = AgesOf(failures, now) /\ MemRefused = RefusedOf(blockedUntil, now)
<1>1. \A a \in Address : Memory!Recent(failures[a]) = Lately(failures[a], now)
  BY RecentIs
<1>2. MemAges = LatelyOf(failures, now)
  BY <1>1 DEF MemAges, LatelyOf
<1> QED
  BY <1>2, LatelyOfIs DEF MemRefused, RefusedOf, Memory!SecondsUntilUnblocked

LEMMA MemSaysNext ==
  ASSUME failures' \in [Address -> Seq(Int)], now' \in Int
  PROVE  MemAges' = AgesOf(failures', now') /\ MemRefused' = RefusedOf(blockedUntil', now')
<1>0. ASSUME NEW S PROVE Memory!Cardinality(S) = Cardinality(S)
  BY DEF Memory!Cardinality, Cardinality
<1>1. MemAges' = LatelyOf(failures', now')
  BY <1>0 DEF MemAges, LatelyOf, Memory!Recent, Lately
<1> QED
  BY <1>1, LatelyOfIs DEF MemRefused, RefusedOf, Memory!SecondsUntilUnblocked

\* The steps of Throttle in the terms of the mapping.
LEMMA MemSecondIs ==
  ASSUME MemAges' = GrownOlderAll(MemAges), MemRefused' = WaitLess(MemRefused)
  PROVE  Memory!Limit!Second
<1>0. ASSUME NEW S PROVE Memory!Limit!Cardinality(S) = Cardinality(S)
  BY DEF Memory!Limit!Cardinality, Cardinality
<1>1. ASSUME NEW g PROVE Memory!Limit!Older(g) = GrownOlder(g, Window)
  BY <1>0 DEF Memory!Limit!Older, GrownOlder
<1>2. GrownOlderAll(MemAges) = [a \in Address |-> Memory!Limit!Older(MemAges[a])]
  BY <1>1 DEF GrownOlderAll
<1>3. /\ MemAges' = [a \in Address |-> Memory!Limit!Older(MemAges[a])]
      /\ MemRefused' = [a \in Address |-> IF MemRefused[a] > 0 THEN MemRefused[a] - 1 ELSE 0]
  BY <1>2 DEF WaitLess
<1> QED
  BY <1>3 DEF Memory!Limit!Second, MemAges, MemRefused

LEMMA MemSameIs ==
  ASSUME MemAges' = MemAges, MemRefused' = MemRefused
  PROVE  UNCHANGED Memory!Limit!vars
BY DEF Memory!Limit!vars, MemAges, MemRefused

LEMMA MemSucceedIs ==
  ASSUME NEW a \in Address,
         MemAges' = [MemAges EXCEPT ![a] = << >>], MemRefused' = [MemRefused EXCEPT ![a] = 0]
  PROVE  Memory!Limit!Succeed(a)
BY DEF Memory!Limit!Succeed, MemAges, MemRefused

LEMMA MemFailIs ==
  ASSUME NEW a \in Address,
         IF Len(MemAges[a]) + 1 >= MaxAttempts
         THEN /\ MemAges' = [MemAges EXCEPT ![a] = << >>]
              /\ MemRefused' = [MemRefused EXCEPT ![a] = Cooldown]
         ELSE /\ MemAges' = [MemAges EXCEPT ![a] = Append(@, 0)]
              /\ MemRefused' = MemRefused
  PROVE  Memory!Limit!Fail(a)
BY DEF Memory!Limit!Fail, MemAges, MemRefused

LEMMA MemoryInit == Memory!Init => MemoryInv /\ Memory!Limit!Init
<1> SUFFICES ASSUME Memory!Init PROVE MemoryInv /\ Memory!Limit!Init
  OBVIOUS
<1>1. /\ now = 0
      /\ failures = [a \in Address |-> << >>]
      /\ blockedUntil = [a \in Address |-> 0]
  BY DEF Memory!Init
<1>2. /\ << >> \in Seq(Int) /\ Rising(<< >>) /\ Len(<< >>) = 0
      /\ Ages(From(<< >>, 0 - Window), 0) = << >>
  BY TimesForgotten
<1>3. TimesInOrder(failures, now)
  BY <1>1, <1>2 DEF TimesInOrder
<1>4. AgesOf(failures, now) = [a \in Address |-> << >>]
  BY <1>1, <1>2 DEF AgesOf
<1>5. RefusedOf(blockedUntil, now) = [a \in Address |-> 0]
  BY <1>1 DEF RefusedOf
<1>6. failures \in [Address -> Seq(Int)] /\ now \in Int
  BY <1>1, <1>2
<1>7. MemAges = [a \in Address |-> << >>] /\ MemRefused = [a \in Address |-> 0]
  BY <1>4, <1>5, <1>6, MemSays
<1>8. Memory!Limit!Init
  BY <1>7 DEF Memory!Limit!Init, MemAges, MemRefused
<1> QED
  BY <1>1, <1>3, <1>8 DEF MemoryInv

\* A failure: only the deque of the address that failed is trimmed.
LEMMA MemoryFailureIsFail ==
  ASSUME MemoryInv, NEW a \in Address, Memory!RecordFailure(a)
  PROVE  MemoryInv' /\ Memory!Limit!Fail(a)
<1> PICK t, f, k, g : /\ t = now /\ f = failures /\ g = AgesOf(failures, now)
                      /\ k = From(Append(failures[a], now), now - Window)
  OBVIOUS
<1>1. /\ t \in Nat /\ TimesInOrder(f, t) /\ f \in [Address -> Seq(Int)]
      /\ blockedUntil \in [Address -> Nat] /\ Cooldown \in Nat /\ now' = t
  BY LimiterAssumption DEF MemoryInv, TimesInOrder, Memory!RecordFailure
<1>2. Memory!Recent(Append(failures[a], now)) = k
  <2>1. Append(f[a], t) \in Seq(Int) /\ t \in Int
    BY <1>1
  <2>2. Lately(Append(f[a], t), t) = From(Append(f[a], t), t - Window)
    BY <2>1, LatelyIs
  <2>3. Memory!Recent(Append(f[a], t)) = Lately(Append(f[a], t), now)
    BY RecentIs
  <2> QED
    BY <2>2, <2>3
<1>3. IF Len(k) >= MaxAttempts
      THEN /\ blockedUntil' = [blockedUntil EXCEPT ![a] = t + Cooldown]
           /\ failures' = [f EXCEPT ![a] = << >>]
      ELSE blockedUntil' = blockedUntil /\ failures' = [f EXCEPT ![a] = k]
  BY <1>2 DEF Memory!RecordFailure
<1>4. /\ k \in Seq(Int) /\ Rising(k)
      /\ \A i \in 1 .. Len(k) : k[i] <= t
      /\ Len(k) = Len(g[a]) + 1
      /\ Ages(From(k, t - Window), t) = Append(g[a], 0)
  <2>1. LET h == From(Append(f[a], t), t - Window)
        IN  /\ HasAges(h, t, Append(AgesOf(f, t)[a], 0))
            /\ Len(h) = Len(AgesOf(f, t)[a]) + 1
    BY <1>1, TimesRecorded, Zenon
  <2>2. HasAges(k, t, Append(g[a], 0)) /\ Len(k) = Len(g[a]) + 1
    BY <2>1, Zenon
  <2> QED
    BY <2>2, Zenon DEF HasAges
<1>5. MemAges = g /\ MemRefused = RefusedOf(blockedUntil, t)
  BY <1>1, MemSays
<1>6. CASE Len(k) >= MaxAttempts
  <2>1. /\ blockedUntil' = [blockedUntil EXCEPT ![a] = t + Cooldown]
        /\ failures' = [f EXCEPT ![a] = << >>]
    BY <1>3, <1>6
  <2>2. /\ TimesInOrder([f EXCEPT ![a] = << >>], t)
        /\ AgesOf([f EXCEPT ![a] = << >>], t) = [AgesOf(f, t) EXCEPT ![a] = << >>]
    BY <1>1, TimesCleared
  <2>3. TimesInOrder(failures', t) /\ AgesOf(failures', t) = [g EXCEPT ![a] = << >>]
    BY <2>1, <2>2
  <2>4. /\ blockedUntil' \in [Address -> Nat] /\ blockedUntil'[a] = t + Cooldown
        /\ \A b \in Address : b # a => blockedUntil'[b] = blockedUntil[b]
    BY <2>1, <1>1
  <2>5. ASSUME NEW b \in Address
        PROVE  RefusedOf(blockedUntil', t)[b]
                 = IF b = a THEN Cooldown ELSE RefusedOf(blockedUntil, t)[b]
    BY <2>4, <1>1 DEF RefusedOf
  <2>6. RefusedOf(blockedUntil', t) = [RefusedOf(blockedUntil, t) EXCEPT ![a] = Cooldown]
    BY <2>5 DEF RefusedOf
  <2>7. MemAges' = AgesOf(failures', t) /\ MemRefused' = RefusedOf(blockedUntil', t)
    BY <1>1, <2>3, MemSaysNext DEF TimesInOrder
  <2>8. /\ MemAges' = [MemAges EXCEPT ![a] = << >>]
        /\ MemRefused' = [MemRefused EXCEPT ![a] = Cooldown]
        /\ Len(MemAges[a]) + 1 >= MaxAttempts
    BY <2>3, <2>6, <2>7, <1>4, <1>5, <1>6
  <2>9. Memory!Limit!Fail(a)
    BY <2>8, MemFailIs
  <2> QED
    BY <2>3, <2>4, <2>9, <1>1 DEF MemoryInv
<1>7. CASE ~(Len(k) >= MaxAttempts)
  <2>1. blockedUntil' = blockedUntil /\ failures' = [f EXCEPT ![a] = k]
    BY <1>3, <1>7
  <2>2. /\ failures' \in [Address -> Seq(Int)] /\ failures'[a] = k
        /\ \A b \in Address : b # a => failures'[b] = f[b]
    BY <2>1, <1>1, <1>4
  <2>3. TimesInOrder(failures', t)
    <3>1. ASSUME NEW b \in Address
          PROVE  Rising(failures'[b]) /\ \A i \in 1 .. Len(failures'[b]) : failures'[b][i] <= t
      <4>1. CASE b = a
        BY <4>1, <2>2, <1>4
      <4>2. CASE b # a
        BY <4>2, <2>2, <1>1 DEF TimesInOrder
      <4> QED
        BY <4>1, <4>2
    <3> QED
      BY <3>1, <2>2 DEF TimesInOrder
  <2>4. ASSUME NEW b \in Address
        PROVE  AgesOf(failures', t)[b] = IF b = a THEN Append(g[a], 0) ELSE g[b]
    BY <2>2, <1>4 DEF AgesOf
  <2>5. g = [b \in Address |-> g[b]]
    BY DEF AgesOf
  <2>6. AgesOf(failures', t) = [g EXCEPT ![a] = Append(@, 0)]
    BY <2>4, <2>5 DEF AgesOf
  <2>7. MemAges' = AgesOf(failures', t) /\ MemRefused' = RefusedOf(blockedUntil', t)
    BY <1>1, <2>2, MemSaysNext
  <2>8. /\ MemAges' = [MemAges EXCEPT ![a] = Append(@, 0)]
        /\ MemRefused' = MemRefused
        /\ ~(Len(MemAges[a]) + 1 >= MaxAttempts)
    BY <2>1, <2>6, <2>7, <1>4, <1>5, <1>7
  <2>9. Memory!Limit!Fail(a)
    BY <2>8, MemFailIs
  <2> QED
    BY <2>1, <2>3, <2>9, <1>1 DEF MemoryInv
<1> QED
  BY <1>6, <1>7

\* Every call maps to a step of Throttle or to a stutter.
LEMMA MemoryStep ==
  ASSUME MemoryInv, [Memory!Next]_(Memory!vars)
  PROVE  MemoryInv' /\ [Memory!Limit!Next]_(Memory!Limit!vars)
<1>1. /\ now \in Nat /\ blockedUntil \in [Address -> Nat] /\ TimesInOrder(failures, now)
      /\ failures \in [Address -> Seq(Int)] /\ now \in Int
  BY DEF MemoryInv, TimesInOrder
<1>2. MemAges = AgesOf(failures, now) /\ MemRefused = RefusedOf(blockedUntil, now)
  BY <1>1, MemSays
<1>3. ASSUME UNCHANGED <<now, failures>>, blockedUntil' \in [Address -> Nat],
             RefusedOf(blockedUntil', now) = RefusedOf(blockedUntil, now)
      PROVE  MemoryInv' /\ UNCHANGED Memory!Limit!vars
  <2>1. MemoryInv'
    BY <1>1, <1>3 DEF MemoryInv
  <2>2. MemAges' = MemAges /\ MemRefused' = MemRefused
    BY <1>1, <1>2, <1>3, MemSaysNext
  <2> QED
    BY <2>1, <2>2, MemSameIs
<1>4. CASE UNCHANGED Memory!vars
  BY <1>1, <1>3, <1>4 DEF Memory!vars
<1>5. CASE Memory!Tick
  <2>1. now' = now + 1 /\ UNCHANGED <<failures, blockedUntil>>
    BY <1>5 DEF Memory!Tick
  <2>2. TimesInOrder(failures', now')
    BY <1>1, <2>1, TimesLater
  <2>3. MemAges' = AgesOf(failures', now') /\ MemRefused' = RefusedOf(blockedUntil', now')
    BY <1>1, <2>1, MemSaysNext
  <2>4. MemAges' = GrownOlderAll(MemAges)
    BY <1>1, <1>2, <2>1, <2>3, ASecondLater
  <2>5. MemRefused' = WaitLess(MemRefused)
    BY <1>1, <1>2, <2>1, <2>3, ASecondLess
  <2>6. Memory!Limit!Second
    BY <2>4, <2>5, MemSecondIs
  <2> QED
    BY <1>1, <2>1, <2>2, <2>6 DEF MemoryInv, Memory!Limit!Next
<1>6. ASSUME NEW a \in Address, Memory!IsBlocked(a)
      PROVE  MemoryInv' /\ UNCHANGED Memory!Limit!vars
  <2>1. /\ UNCHANGED <<now, failures>>
        /\ blockedUntil' = IF now >= blockedUntil[a] THEN [blockedUntil EXCEPT ![a] = 0]
                           ELSE blockedUntil
    BY <1>6 DEF Memory!IsBlocked
  <2>2. RefusedOf(blockedUntil', now) = RefusedOf(blockedUntil, now)
    BY <1>1, <2>1 DEF RefusedOf
  <2>3. blockedUntil' \in [Address -> Nat]
    BY <1>1, <2>1
  <2> QED
    BY <1>3, <2>1, <2>2, <2>3
<1>7. ASSUME NEW a \in Address, Memory!RecordFailure(a)
      PROVE  MemoryInv' /\ \E b \in Address : Memory!Limit!Fail(b)
  BY <1>7, MemoryFailureIsFail
<1>8. ASSUME NEW a \in Address, Memory!RecordSuccess(a)
      PROVE  MemoryInv' /\ \E b \in Address : Memory!Limit!Succeed(b)
  <2>1. /\ failures' = [failures EXCEPT ![a] = << >>]
        /\ blockedUntil' = [blockedUntil EXCEPT ![a] = 0] /\ now' = now
    BY <1>8 DEF Memory!RecordSuccess
  <2>2. /\ TimesInOrder(failures', now)
        /\ AgesOf(failures', now) = [AgesOf(failures, now) EXCEPT ![a] = << >>]
    BY <1>1, <2>1, TimesCleared
  <2>3. RefusedOf(blockedUntil', now) = [RefusedOf(blockedUntil, now) EXCEPT ![a] = 0]
    BY <1>1, <2>1, RefusedCleared
  <2>4. MemAges' = AgesOf(failures', now) /\ MemRefused' = RefusedOf(blockedUntil', now)
    BY <1>1, <2>1, <2>2, MemSaysNext DEF TimesInOrder
  <2>5. MemAges' = [MemAges EXCEPT ![a] = << >>] /\ MemRefused' = [MemRefused EXCEPT ![a] = 0]
    BY <1>2, <2>2, <2>3, <2>4
  <2>6. Memory!Limit!Succeed(a)
    BY <2>5, MemSucceedIs
  <2> QED
    BY <1>1, <2>1, <2>2, <2>6 DEF MemoryInv
<1> QED
  BY <1>4, <1>5, <1>6, <1>7, <1>8 DEF Memory!Next, Memory!Limit!Next

\* Asked and told beside the database, the dictionaries step or stutter, and
\* what a loop tells them is about an address.
PeersKnown == peer \in [Worker -> Address]

LEMMA PairIsMemory ==
  ASSUME PeersKnown, [PairNext]_<<vars, memory>>
  PROVE  PeersKnown' /\ [Memory!Next]_(Memory!vars)
<1>1. ASSUME UNCHANGED <<now, memory>> PROVE UNCHANGED Memory!vars
  BY <1>1 DEF memory, Memory!vars
<1>2. CASE UNCHANGED <<vars, memory>>
  BY <1>1, <1>2 DEF vars, PeersKnown
<1>3. CASE Tick /\ Memory!Tick
  BY <1>3 DEF Tick, Memory!Next, PeersKnown
<1>4. ASSUME NEW w \in Worker, NEW a \in Address, IsBlocked(w, a), Memory!IsBlocked(a)
      PROVE  PeersKnown' /\ Memory!Next
  BY <1>4 DEF IsBlocked, Memory!Next, PeersKnown
<1>5. ASSUME NEW w \in Worker, ForgetBlock(w) \/ Drop(w), UNCHANGED memory
      PROVE  PeersKnown' /\ UNCHANGED Memory!vars
  BY <1>1, <1>5 DEF ForgetBlock, Drop, PeersKnown
<1>6. ASSUME NEW w \in Worker, RecordFailure(w), Memory!RecordFailure(peer[w])
      PROVE  PeersKnown' /\ \E a \in Address : Memory!RecordFailure(a)
  BY <1>6 DEF RecordFailure, PeersKnown
<1>7. ASSUME NEW w \in Worker, RecordSuccess(w), Memory!RecordSuccess(peer[w])
      PROVE  PeersKnown' /\ \E a \in Address : Memory!RecordSuccess(a)
  BY <1>7 DEF RecordSuccess, PeersKnown
<1> QED
  BY <1>2, <1>3, <1>4, <1>5, <1>6, <1>7 DEF PairNext, Memory!Next

(* The in-memory limiter, which trims only the address that fails and      *)
(* forgets a block only when asked, refuses what Throttle refuses and for  *)
(* as long: for every threshold, window and cooldown, whatever the number  *)
(* of loops that tell it of their failures.                                *)
THEOREM MemoryThrottles == PairSpec => MemoryImplementsThrottle
<1>1. PairInit => PeersKnown /\ MemoryInv /\ Memory!Limit!Init
  BY MemoryInit DEF PairInit, Init, PeersKnown
<1>2. PeersKnown /\ MemoryInv /\ [PairNext]_<<vars, memory>>
        => PeersKnown' /\ MemoryInv' /\ [Memory!Limit!Next]_(Memory!Limit!vars)
  BY MemoryStep, PairIsMemory
<1> QED
  BY <1>1, <1>2, PTL DEF PairSpec, MemoryImplementsThrottle, Memory!ImplementsThrottle,
     Memory!Limit!Spec
=============================================================================
