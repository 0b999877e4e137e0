----------------------- MODULE SecureChannelTheorems -----------------------
(***************************************************************************)
(* Facts about the operators of ReplayWindow, Ratchet and SecureChannel    *)
(* that the proofs about the links rest on.                                *)
(***************************************************************************)
EXTENDS SecureChannel, FiniteSetTheorems, WellFoundedInduction, TLAPS

LEMMA TwoParties ==
  ASSUME NEW p \in Party
  PROVE  Other(p) \in Party /\ Other(Other(p)) = p /\ Other(p) # p
BY PartyAssumption DEF Party, Other

-----------------------------------------------------------------------------
(* The replay window.                                                      *)

LEMMA MarkSeenType ==
  ASSUME NEW w, IsWindow(w), NEW n \in Nat, Fresh(w, n)
  PROVE  IsWindow(MarkSeen(w, n))
<1>1. CASE n > w.highest
  <2>1. MarkSeen(w, n) = [highest |-> n,
                          bitmap |-> Shifted(w.bitmap, n - w.highest) \cup {0}]
    BY <1>1 DEF MarkSeen
  <2> QED
    BY <2>1, WindowSizeAssumption DEF IsWindow, Shifted
<1>2. CASE ~(n > w.highest)
  <2>1. MarkSeen(w, n) = [w EXCEPT !.bitmap = @ \cup {w.highest - n}]
    BY <1>2 DEF MarkSeen
  <2>2. w.highest - n \in 0 .. (WindowSize - 1)
    BY <1>2, WindowSizeAssumption DEF Fresh, IsWindow
  <2> QED
    BY <2>1, <2>2 DEF IsWindow
<1> QED
  BY <1>1, <1>2

\* Marking a counter moves the window only forward.
LEMMA MarkSeenAdvances ==
  ASSUME NEW w, IsWindow(w), NEW n \in Nat
  PROVE  /\ MarkSeen(w, n).highest >= w.highest
         /\ MarkSeen(w, n).highest >= n
         /\ MarkSeen(w, n).highest \in Int
BY DEF MarkSeen, IsWindow

\* After _mark_seen(n) exactly those counters are fresh that were fresh
\* before, are not n, and have not been left behind by the window.
LEMMA MarkSeenExact ==
  ASSUME NEW w, IsWindow(w), NEW n \in Nat, NEW m \in Nat
  PROVE  Fresh(MarkSeen(w, n), m)
           <=> /\ m # n
               /\ Fresh(w, m)
               /\ MarkSeen(w, n).highest - m < WindowSize
<1>1. CASE n > w.highest
  <2> DEFINE u == MarkSeen(w, n)
  <2>1. u.highest = n /\ u.bitmap = Shifted(w.bitmap, n - w.highest) \cup {0}
    BY <1>1 DEF MarkSeen
  <2>2. CASE m > n
    BY <1>1, <2>1, <2>2, WindowSizeAssumption DEF Fresh, IsWindow
  <2>3. CASE m = n
    BY <2>1, <2>3 DEF Fresh
  <2>4. CASE m < n
    <3>1. Fresh(u, m) <=> n - m < WindowSize /\ (n - m) \notin u.bitmap
      BY <2>1, <2>4 DEF Fresh
    <3>2. n - m < WindowSize
            => ((n - m) \in u.bitmap <=> (w.highest - m) \in w.bitmap)
      BY <2>1, <2>4, WindowSizeAssumption DEF Shifted, IsWindow
    <3>3. (w.highest - m) \in w.bitmap => m <= w.highest
      BY WindowSizeAssumption DEF IsWindow
    <3>4. n - m < WindowSize => w.highest - m < WindowSize
      BY <1>1, WindowSizeAssumption DEF IsWindow
    <3> QED
      BY <2>1, <2>4, <3>1, <3>2, <3>3, <3>4, WindowSizeAssumption
         DEF Fresh, IsWindow
  <2> QED
    BY <2>2, <2>3, <2>4
<1>2. CASE ~(n > w.highest)
  <2>1. /\ MarkSeen(w, n).highest = w.highest
        /\ MarkSeen(w, n).bitmap = w.bitmap \cup {w.highest - n}
    BY <1>2 DEF MarkSeen, IsWindow
  <2> QED
    BY <1>2, <2>1, WindowSizeAssumption DEF Fresh, IsWindow
<1> QED
  BY <1>1, <1>2

-----------------------------------------------------------------------------
(* Chain selection: max() over the chain starts up to a counter.           *)

LEMMA MaxOfBounded ==
  ASSUME NEW S \in SUBSET Nat, S # {}, NEW n \in Nat, \A k \in S : k <= n
  PROVE  Max(S) \in S /\ \A k \in S : k <= Max(S)
<1> DEFINE T == {n - k : k \in S}
<1>1. T \subseteq Nat /\ T # {}
  <2>1. \A k \in S : k \in Nat /\ n - k \in Nat
    OBVIOUS
  <2>2. T \subseteq Nat
    BY <2>1
  <2>3. PICK k \in S : TRUE
    OBVIOUS
  <2>4. n - k \in T
    OBVIOUS
  <2> QED
    BY <2>2, <2>4
<1>2. PICK x \in T : \A y \in T : ~(<<y, x>> \in OpToRel(<, Nat))
  BY <1>1, NatLessThanWellFounded, WFMin
<1>3. PICK m \in S : x = n - m
  OBVIOUS
<1>4. ASSUME NEW k \in S PROVE m >= k
  <2>1. ~(<<n - k, x>> \in OpToRel(<, Nat))
    BY <1>2
  <2>2. ~(n - k < x)
    BY <2>1, <1>1, <1>3 DEF OpToRel
  <2> QED
    BY <2>2, <1>3
<1>5. \E m2 \in S : \A k \in S : m2 >= k
  BY <1>4
<1>6. Max(S) \in S /\ \A k \in S : Max(S) >= k
  BY <1>5 DEF Max
<1> QED
  BY <1>6

LEMMA ChainStartFound ==
  ASSUME NEW c, IsChannel(c), NEW f, IsFrame(f), HasChain(c, f), ~Rekeys(c, f)
  PROVE  /\ ChainStart(c, f) \in DOMAIN c.recvChains
         /\ ChainStart(c, f) \in Nat
         /\ ChainStart(c, f) <= f.ctr
<1> DEFINE S == StartsUpTo(c, f.ctr)
<1>1. S \in SUBSET Nat /\ S # {} /\ \A k \in S : k <= f.ctr
  BY DEF IsChannel, HasChain, StartsUpTo
<1>2. f.ctr \in Nat
  BY DEF IsFrame
<1>3. Max(S) \in S
  BY <1>1, <1>2, MaxOfBounded
<1> QED
  BY <1>1, <1>3 DEF ChainStart, StartsUpTo

-----------------------------------------------------------------------------
(* What encrypt() does to the channel.                                     *)

LEMMA NewChannelType ==
  ASSUME NEW p \in Party PROVE IsChannel(NewChannel(p))
<1> DEFINE c == NewChannel(p)
<1>1. Other(p) \in Party /\ << >> \in RootKey
  BY DEF Party, Other, RootKey
<1>2. IsSendingChain(c.sendingChain)
  BY <1>1 DEF NewChannel, NewSendingChain, HandshakeChainKey, InitialRoot,
              IsSendingChain, ChainKey
<1>3. /\ DOMAIN c.recvChains \in SUBSET Nat
      /\ \A k \in DOMAIN c.recvChains : IsReceivingChain(c.recvChains[k])
  BY <1>1 DEF NewChannel, NewReceivingChain, HandshakeChainKey, InitialRoot,
              IsReceivingChain, ChainKey
<1>4. IsWindow(c.window)
  BY DEF NewChannel, EmptyWindow, IsWindow
<1>5. c.myRatchet \in KeyPair /\ c.peerRatchetPub \in KeyPair
  BY <1>1 DEF NewChannel, KeyPair
<1> HIDE DEF IsSendingChain, IsReceivingChain, IsWindow
<1> QED
  BY <1>1, <1>2, <1>3, <1>4, <1>5 DEF NewChannel, IsChannel, InitialRoot

LEMMA NewChannelFields ==
  ASSUME NEW p \in Party, NEW c, c = NewChannel(p)
  PROVE  /\ c.sendCounter = 0
         /\ c.sendingChain.counter = 0
         /\ c.sendingChain.chainKey = HandshakeChainKey(p)
         /\ c.myRatchet.owner = p
         /\ c.myRatchet.gen = 0
         /\ c.peerRatchetPub.owner = Other(p)
         /\ c.peerRatchetPub.gen = 0
         /\ c.rootKey = << >>
         /\ c.window.highest = -1
         /\ DOMAIN c.recvChains = {0}
         /\ c.recvChains[0].chainKey = HandshakeChainKey(Other(p))
         /\ c.recvChains[0].nextCounter = 0
         /\ c.recvChains[0].skipped = {}
BY DEF NewChannel, NewSendingChain, NewReceivingChain, InitialRoot, EmptyWindow

\* A Diffie-Hellman step makes a root key and a chain key.
LEMMA RootStepType ==
  ASSUME NEW root \in RootKey, NEW k1 \in KeyPair, NEW k2 \in KeyPair
  PROVE  /\ RootAfter(root, DH(k1, k2)) \in RootKey
         /\ ChainKeyOf(RootAfter(root, DH(k1, k2))) \in ChainKey
<1>1. DH(k1, k2) \in SUBSET KeyPair
  BY DEF DH
<1>2. RootAfter(root, DH(k1, k2)) \in RootKey
  BY <1>1 DEF RootAfter, RootKey
<1> QED
  BY <1>2 DEF ChainKeyOf, ChainKey

LEMMA SendStepType ==
  ASSUME NEW c, IsChannel(c)
  PROVE  /\ IsChannel(AfterSendStep(c))
         /\ AfterSendStep(c).sendCounter = c.sendCounter
         /\ AfterSendStep(c).window = c.window
<1> DEFINE fresh == FreshKeyPair(c)
           root  == RootAfter(c.rootKey, DH(fresh, c.peerRatchetPub))
<1>1. fresh \in KeyPair
  BY DEF FreshKeyPair, IsChannel, KeyPair
<1>2. root \in RootKey /\ ChainKeyOf(root) \in ChainKey
  BY <1>1, RootStepType DEF IsChannel
<1>3. IsSendingChain(NewSendingChain(ChainKeyOf(root)))
  BY <1>2 DEF NewSendingChain, IsSendingChain
<1> HIDE DEF root
<1> QED
  BY <1>1, <1>2, <1>3 DEF AfterSendStep, IsChannel, root

LEMMA EncryptType ==
  ASSUME NEW c, IsChannel(c), NEW timeDue \in BOOLEAN
  PROVE  /\ IsChannel(AfterEncrypt(c, timeDue))
         /\ IsFrame(Sealed(c, timeDue))
         /\ Genuine(Sealed(c, timeDue))
         /\ Sealed(c, timeDue).ctr = c.sendCounter
         /\ Sealed(c, timeDue).seal.ctr = c.sendCounter
         /\ AfterEncrypt(c, timeDue).sendCounter = c.sendCounter + 1
         /\ AfterEncrypt(c, timeDue).window = c.window
<1> DEFINE r == ReadyToSeal(c, timeDue)
<1>1. IsChannel(r) /\ r.sendCounter = c.sendCounter /\ r.window = c.window
  BY SendStepType DEF ReadyToSeal
<1> HIDE DEF r
<1>2. IsSendingChain(NextStep(r.sendingChain))
  BY <1>1 DEF IsChannel, IsSendingChain, NextStep
<1>3. IsChannel(AfterEncrypt(c, timeDue))
  BY <1>1, <1>2 DEF AfterEncrypt, IsChannel, r
<1>4. /\ AfterEncrypt(c, timeDue).sendCounter = c.sendCounter + 1
      /\ AfterEncrypt(c, timeDue).window = c.window
  BY <1>1 DEF AfterEncrypt, IsChannel, r
<1>5. NextMessageKey(r.sendingChain) \in [chainKey : ChainKey, step : Nat]
  BY <1>1 DEF IsChannel, IsSendingChain, NextMessageKey, MessageKey
<1>6. IsFrame(Sealed(c, timeDue))
  BY <1>1, <1>5 DEF Sealed, IsFrame, IsChannel, r
<1>7. /\ Genuine(Sealed(c, timeDue))
      /\ Sealed(c, timeDue).ctr = c.sendCounter
      /\ Sealed(c, timeDue).seal.ctr = c.sendCounter
  BY DEF Sealed, Genuine
<1> QED
  BY <1>3, <1>4, <1>6, <1>7

-----------------------------------------------------------------------------
(* What decrypt() does to the channel.                                     *)

LEMMA SteppedChainType ==
  ASSUME NEW rc, IsReceivingChain(rc), NEW n \in Nat
  PROVE  IsReceivingChain(AfterKeyFor(rc, n))
<1>1. CASE n \in rc.skipped
  BY <1>1 DEF AfterKeyFor, IsReceivingChain
<1>2. CASE n \notin rc.skipped
  <2> DEFINE S == EvictExcessSkipped(rc.skipped \cup (rc.nextCounter .. (n - 1)))
  <2>1. S \in SUBSET Nat
    BY DEF EvictExcessSkipped, Newest, IsReceivingChain
  <2>2. AfterKeyFor(rc, n) = [rc EXCEPT !.nextCounter = n + 1, !.skipped = S]
    BY <1>2 DEF AfterKeyFor
  <2> HIDE DEF S
  <2> QED
    BY <2>1, <2>2 DEF IsReceivingChain
<1> QED
  BY <1>1, <1>2

LEMMA DecryptChainType ==
  ASSUME NEW c, IsChannel(c), NEW f, IsFrame(f), HasChain(c, f)
  PROVE  /\ IsReceivingChain(SteppedChain(c, f))
         /\ Rekeys(c, f) => /\ f.pub \in KeyPair
                            /\ CandidateRoot(c, f) \in RootKey
<1>1. CASE Rekeys(c, f)
  <2>1. f.pub \in KeyPair
    BY <1>1 DEF Rekeys, IsFrame
  <2>2. /\ CandidateRoot(c, f) \in RootKey
        /\ ChainKeyOf(CandidateRoot(c, f)) \in ChainKey
    BY <2>1, RootStepType DEF CandidateRoot, IsChannel
  <2>3. IsReceivingChain(CandidateChain(c, f))
    BY <2>2 DEF CandidateChain, NewReceivingChain, IsReceivingChain
  <2>4. IsReceivingChain(AfterKeyFor(CandidateChain(c, f), 0))
    BY <2>3, SteppedChainType
  <2> QED
    BY <1>1, <2>1, <2>2, <2>4 DEF SteppedChain, ChainFor, LocalCounter
<1>2. CASE ~Rekeys(c, f)
  <2>1. /\ ChainStart(c, f) \in DOMAIN c.recvChains
        /\ f.ctr - ChainStart(c, f) \in Nat
    BY <1>2, ChainStartFound DEF IsFrame
  <2>2. IsReceivingChain(c.recvChains[ChainStart(c, f)])
    BY <2>1 DEF IsChannel
  <2> QED
    BY <1>2, <2>1, <2>2, SteppedChainType
       DEF SteppedChain, ChainFor, LocalCounter
<1> QED
  BY <1>1, <1>2

LEMMA KeyDerivationType ==
  ASSUME NEW c, IsChannel(c), NEW f, IsFrame(f), HasChain(c, f)
  PROVE  /\ IsChannel(AfterKeyDerivation(c, f))
         /\ AfterKeyDerivation(c, f).sendCounter = c.sendCounter
         /\ AfterKeyDerivation(c, f).window = c.window
<1>1. CASE Rekeys(c, f)
  BY <1>1 DEF AfterKeyDerivation
<1>2. CASE ~Rekeys(c, f)
  <2> DEFINE k  == ChainStart(c, f)
             rc == SteppedChain(c, f)
  <2>1. k \in DOMAIN c.recvChains
    BY <1>2, ChainStartFound
  <2>2. IsReceivingChain(rc)
    BY DecryptChainType
  <2> HIDE DEF k, rc
  <2>3. AfterKeyDerivation(c, f) = [c EXCEPT !.recvChains[k] = rc]
    BY <1>2 DEF AfterKeyDerivation, k, rc
  <2> QED
    BY <2>1, <2>2, <2>3 DEF IsChannel
<1> QED
  BY <1>1, <1>2

LEMMA AcceptType ==
  ASSUME NEW c, IsChannel(c), NEW f, IsFrame(f), Accepts(c, f)
  PROVE  /\ IsChannel(AfterAccept(c, f))
         /\ AfterAccept(c, f).sendCounter = c.sendCounter
         /\ AfterAccept(c, f).window = MarkSeen(c.window, f.ctr)
<1> DEFINE d == IF Rekeys(c, f) THEN AfterCommit(c, f) ELSE AfterKeyDerivation(c, f)
<1>1. Fresh(c.window, f.ctr) /\ HasChain(c, f) /\ f.ctr \in Nat
  BY DEF Accepts, Derives, IsFrame
<1>2. IsChannel(d) /\ d.sendCounter = c.sendCounter /\ d.window = c.window
  <2>1. CASE ~Rekeys(c, f)
    BY <1>1, <2>1, KeyDerivationType
  <2>2. CASE Rekeys(c, f)
    <3> DEFINE chains == RetainedChains(c, f)
    <3>1. DOMAIN chains \subseteq DOMAIN c.recvChains \cup {f.ctr}
      BY DEF RetainedChains, Newest
    <3>2. /\ DOMAIN chains \in SUBSET Nat
          /\ \A k \in DOMAIN chains : IsReceivingChain(chains[k])
      BY <1>1, <3>1, DecryptChainType DEF IsChannel, RetainedChains
    <3>3. f.pub \in KeyPair /\ CandidateRoot(c, f) \in RootKey
      BY <1>1, <2>2, DecryptChainType
    <3> HIDE DEF chains
    <3>4. d = [c EXCEPT !.rootKey = CandidateRoot(c, f), !.recvChains = chains,
                        !.peerRatchetPub = f.pub, !.sendRatchetOwed = TRUE]
      BY <2>2 DEF AfterCommit, chains
    <3> QED
      BY <3>2, <3>3, <3>4 DEF IsChannel
  <2> QED
    BY <2>1, <2>2
<1> HIDE DEF d
<1>3. IsWindow(MarkSeen(c.window, f.ctr))
  BY <1>1, MarkSeenType DEF IsChannel
<1>4. AfterAccept(c, f) = [d EXCEPT !.window = MarkSeen(@, f.ctr)]
  BY DEF AfterAccept, d
<1> QED
  BY <1>2, <1>3, <1>4 DEF IsChannel
-----------------------------------------------------------------------------
(* What the two operations do to the keys, field by field.                 *)

\* d is c after encrypt() made f, with a rekey: a fresh key pair, a new
\* root, a new chain, and f announces it.
Announcing(c, d, f) ==
  /\ d.myRatchet \in KeyPair
  /\ d.myRatchet.owner = c.myRatchet.owner
  /\ d.myRatchet.gen = c.myRatchet.gen + 1
  /\ d.peerRatchetPub = c.peerRatchetPub
  /\ d.rootKey = Append(c.rootKey, {d.myRatchet, c.peerRatchetPub})
  /\ d.sendingChain.chainKey = ChainKeyOf(d.rootKey)
  /\ d.sendingChain.counter = 1
  /\ d.recvChains = c.recvChains
  /\ d.sendRatchetOwed = FALSE
  /\ f.pub = d.myRatchet
  /\ f.seal.key.chainKey = ChainKeyOf(d.rootKey)
  /\ f.seal.key.step = 0

LEMMA EncryptAnnounces ==
  ASSUME NEW c, IsChannel(c), NEW timeDue \in BOOLEAN, SendDue(c, timeDue)
  PROVE  Announcing(c, AfterEncrypt(c, timeDue), Sealed(c, timeDue))
<1> DEFINE d     == AfterEncrypt(c, timeDue)
           f     == Sealed(c, timeDue)
           r     == AfterSendStep(c)
           fresh == [c.myRatchet EXCEPT !.gen = @ + 1]
           root  == Append(c.rootKey, {fresh, c.peerRatchetPub})
           chain == [chainKey |-> ChainKeyOf(root), counter |-> 0]
<1>1. IsChannel(r)
  BY SendStepType
<1>2. /\ r.myRatchet = fresh
      /\ r.peerRatchetPub = c.peerRatchetPub
      /\ r.rootKey = root
      /\ r.sendingChain = chain
      /\ r.recvChains = c.recvChains
      /\ r.sendRatchetOwed = FALSE
  <2>1. r = [c EXCEPT !.rootKey = root, !.sendingChain = chain, !.myRatchet = fresh,
                      !.messagesSinceRekey = 0, !.sendRatchetOwed = FALSE]
    BY DEF AfterSendStep, FreshKeyPair, RootAfter, DH, NewSendingChain
  <2> HIDE DEF r, root, chain, fresh
  <2> QED
    BY <2>1 DEF IsChannel
<1>3. d = [r EXCEPT !.sendCounter        = @ + 1,
                    !.messagesSinceRekey = @ + 1,
                    !.sendingChain       = NextStep(@)]
  BY DEF AfterEncrypt, ReadyToSeal
<1>4. f.pub = r.myRatchet /\ f.seal.key = NextMessageKey(r.sendingChain)
  BY DEF Sealed, ReadyToSeal
<1>5. /\ NextStep(chain) = [chainKey |-> ChainKeyOf(root), counter |-> 1]
      /\ NextMessageKey(chain) = [chainKey |-> ChainKeyOf(root), step |-> 0]
  BY DEF NextStep, NextMessageKey, MessageKey
<1>6. /\ fresh \in KeyPair
      /\ fresh.owner = c.myRatchet.owner
      /\ fresh.gen = c.myRatchet.gen + 1
  BY DEF IsChannel, KeyPair
<1> HIDE DEF d, f, r, chain, root, fresh
<1>7. /\ d.myRatchet = r.myRatchet
      /\ d.peerRatchetPub = r.peerRatchetPub
      /\ d.rootKey = r.rootKey
      /\ d.sendingChain = NextStep(r.sendingChain)
      /\ d.recvChains = r.recvChains
      /\ d.sendRatchetOwed = r.sendRatchetOwed
  BY <1>1, <1>3 DEF IsChannel
<1> QED
  BY <1>2, <1>4, <1>5, <1>6, <1>7 DEF Announcing, d, f, root

\* The same without a rekey: f is one more step of the chain in use.
Continuing(c, d, f) ==
  /\ d.myRatchet = c.myRatchet
  /\ d.peerRatchetPub = c.peerRatchetPub
  /\ d.rootKey = c.rootKey
  /\ d.sendingChain.chainKey = c.sendingChain.chainKey
  /\ d.sendingChain.counter = c.sendingChain.counter + 1
  /\ d.recvChains = c.recvChains
  /\ d.sendRatchetOwed = c.sendRatchetOwed
  /\ f.pub = NoPub
  /\ f.seal.key.chainKey = c.sendingChain.chainKey
  /\ f.seal.key.step = c.sendingChain.counter

LEMMA EncryptContinues ==
  ASSUME NEW c, IsChannel(c), NEW timeDue \in BOOLEAN, ~SendDue(c, timeDue)
  PROVE  Continuing(c, AfterEncrypt(c, timeDue), Sealed(c, timeDue))
<1> DEFINE d == AfterEncrypt(c, timeDue)
           f == Sealed(c, timeDue)
<1>1. AfterEncrypt(c, timeDue)
        = [c EXCEPT !.sendCounter        = @ + 1,
                    !.messagesSinceRekey = @ + 1,
                    !.sendingChain       = NextStep(@)]
  BY DEF AfterEncrypt, ReadyToSeal
<1>2. f.pub = NoPub /\ f.seal.key = NextMessageKey(c.sendingChain)
  BY DEF Sealed, ReadyToSeal
<1> QED
  BY <1>1, <1>2 DEF Continuing, NextStep, NextMessageKey, MessageKey, IsChannel, IsSendingChain

\* Every field but the chains and the window.
SameKeys(c, d) ==
  /\ d.sendingChain = c.sendingChain
  /\ d.rootKey = c.rootKey
  /\ d.myRatchet = c.myRatchet
  /\ d.peerRatchetPub = c.peerRatchetPub
  /\ d.sendRatchetOwed = c.sendRatchetOwed
  /\ d.sendCounter = c.sendCounter

\* d is c after decrypt() stepped the chain it looked up for f, which it
\* does whether or not f authenticates.
Stepping(c, d, f) ==
  /\ SameKeys(c, d)
  /\ DOMAIN d.recvChains = DOMAIN c.recvChains
  /\ ChainStart(c, f) \in DOMAIN c.recvChains
  /\ d.recvChains[ChainStart(c, f)] = SteppedChain(c, f)
  /\ \A k \in DOMAIN c.recvChains :
       k # ChainStart(c, f) => d.recvChains[k] = c.recvChains[k]

LEMMA DecryptSteps ==
  ASSUME NEW c, IsChannel(c), NEW f, IsFrame(f), HasChain(c, f), ~Rekeys(c, f)
  PROVE  /\ Stepping(c, AfterKeyDerivation(c, f), f)
         /\ Stepping(c, AfterAccept(c, f), f)
<1> DEFINE rcs == [c.recvChains EXCEPT ![ChainStart(c, f)] = SteppedChain(c, f)]
<1>1. AfterKeyDerivation(c, f) = [c EXCEPT !.recvChains = rcs]
  BY DEF AfterKeyDerivation, IsChannel
<1>2. AfterAccept(c, f) = [AfterKeyDerivation(c, f) EXCEPT !.window = MarkSeen(@, f.ctr)]
  BY DEF AfterAccept
<1>3. ChainStart(c, f) \in DOMAIN c.recvChains
  BY ChainStartFound
<1>4. /\ DOMAIN rcs = DOMAIN c.recvChains
      /\ rcs[ChainStart(c, f)] = SteppedChain(c, f)
      /\ \A k \in DOMAIN c.recvChains : k # ChainStart(c, f) => rcs[k] = c.recvChains[k]
  BY <1>3
<1> HIDE DEF rcs
<1>5. /\ SameKeys(c, AfterKeyDerivation(c, f))
      /\ AfterKeyDerivation(c, f).recvChains = rcs
  BY <1>1 DEF SameKeys, IsChannel
<1>6. /\ SameKeys(c, AfterAccept(c, f))
      /\ AfterAccept(c, f).recvChains = rcs
  BY <1>1, <1>2 DEF SameKeys, IsChannel
<1> QED
  BY <1>3, <1>4, <1>5, <1>6 DEF Stepping

\* d is c after decrypt() adopted the announcement f.
Committing(c, d, f) ==
  /\ d.sendingChain = c.sendingChain
  /\ d.rootKey = Append(c.rootKey, {c.myRatchet, f.pub})
  /\ d.myRatchet = c.myRatchet
  /\ d.peerRatchetPub = f.pub
  /\ d.sendRatchetOwed = TRUE
  /\ d.sendCounter = c.sendCounter
  /\ d.recvChains = RetainedChains(c, f)

LEMMA DecryptCommits ==
  ASSUME NEW c, IsChannel(c), NEW f, IsFrame(f), Rekeys(c, f)
  PROVE  Committing(c, AfterAccept(c, f), f)
<1>1. AfterAccept(c, f) = [AfterCommit(c, f) EXCEPT !.window = MarkSeen(@, f.ctr)]
  BY DEF AfterAccept
<1> QED
  BY <1>1 DEF Committing, AfterCommit, CandidateRoot, RootAfter, DH, IsChannel
-----------------------------------------------------------------------------
(* What key_for() does to the keys a chain can still produce.              *)

\* A step the chain has passed without keeping its key.
Spent(rc, n) == n < rc.nextCounter /\ n \notin rc.skipped

SkippedArePassed(rc) == \A n \in rc.skipped : n < rc.nextCounter

LEMMA StepSpends ==
  ASSUME NEW rc, IsReceivingChain(rc), SkippedArePassed(rc), NEW n \in Nat, Derivable(rc, n)
  PROVE  /\ AfterKeyFor(rc, n).chainKey = rc.chainKey
         /\ SkippedArePassed(AfterKeyFor(rc, n))
         /\ Spent(AfterKeyFor(rc, n), n)
         /\ \A m \in Nat : Spent(rc, m) => Spent(AfterKeyFor(rc, n), m)
         /\ AfterKeyFor(rc, n).nextCounter \in {rc.nextCounter, n + 1}
<1>1. CASE n \in rc.skipped
  <2>1. AfterKeyFor(rc, n) = [rc EXCEPT !.skipped = @ \ {n}]
    BY <1>1 DEF AfterKeyFor
  <2>2. /\ AfterKeyFor(rc, n).chainKey = rc.chainKey
        /\ AfterKeyFor(rc, n).nextCounter = rc.nextCounter
        /\ AfterKeyFor(rc, n).skipped = rc.skipped \ {n}
    BY <2>1 DEF IsReceivingChain
  <2> QED
    BY <1>1, <2>2 DEF SkippedArePassed, Spent
<1>2. CASE n \notin rc.skipped
  <2> DEFINE S == rc.skipped \cup (rc.nextCounter .. (n - 1))
  <2>1. /\ rc.nextCounter \in Nat /\ rc.skipped \in SUBSET Nat /\ rc.nextCounter <= n
    BY <1>2 DEF Derivable, Desynced, IsReceivingChain
  <2>2. AfterKeyFor(rc, n)
          = [rc EXCEPT !.nextCounter = n + 1, !.skipped = EvictExcessSkipped(S)]
    BY <1>2 DEF AfterKeyFor
  <2>3. EvictExcessSkipped(S) \subseteq S
    BY DEF EvictExcessSkipped, Newest
  <2> HIDE DEF S
  <2>4. /\ AfterKeyFor(rc, n).chainKey = rc.chainKey
        /\ AfterKeyFor(rc, n).nextCounter = n + 1
        /\ AfterKeyFor(rc, n).skipped \subseteq S
    BY <2>2, <2>3 DEF IsReceivingChain
  <2>5. /\ \A m \in S : m < n + 1 /\ m # n
        /\ \A m \in Nat : Spent(rc, m) => m < n + 1 /\ m \notin S
    BY <1>2, <2>1 DEF S, SkippedArePassed, Spent
  <2> QED
    BY <2>1, <2>4, <2>5 DEF SkippedArePassed, Spent
<1> QED
  BY <1>1, <1>2

\* A key that was used, or lost although no more than MaxSkip steps were
\* skipped from it on.
Missing(rc, n) == Spent(rc, n) /\ rc.nextCounter <= n + MaxSkip + 1

\* Only the step asked for goes missing.
LEMMA StepKeepsOthers ==
  ASSUME NEW rc, IsReceivingChain(rc), SkippedArePassed(rc), NEW n \in Nat, Derivable(rc, n),
         NEW m \in Nat, m # n, ~Missing(rc, m)
  PROVE  ~Missing(AfterKeyFor(rc, n), m)
<1>1. rc.nextCounter \in Nat /\ rc.skipped \in SUBSET Nat
  BY DEF IsReceivingChain
<1>2. CASE n \in rc.skipped
  <2>1. AfterKeyFor(rc, n) = [rc EXCEPT !.skipped = @ \ {n}]
    BY <1>2 DEF AfterKeyFor
  <2>2. /\ AfterKeyFor(rc, n).nextCounter = rc.nextCounter
        /\ AfterKeyFor(rc, n).skipped = rc.skipped \ {n}
    BY <2>1 DEF IsReceivingChain
  <2> QED
    BY <2>2 DEF Missing, Spent
<1>3. CASE n \notin rc.skipped
  <2> DEFINE S == rc.skipped \cup (rc.nextCounter .. (n - 1))
  <2>1. rc.nextCounter <= n
    BY <1>1, <1>3 DEF Derivable, Desynced
  <2>2. S \in SUBSET Nat /\ \A k \in S : k < n
    BY <1>1, <2>1 DEF SkippedArePassed
  <2>3. AfterKeyFor(rc, n)
          = [rc EXCEPT !.nextCounter = n + 1, !.skipped = Newest(S, MaxSkip)]
    BY <1>3 DEF AfterKeyFor, EvictExcessSkipped
  <2>4. m \in S \/ m >= n + 1 \/ rc.nextCounter > m + MaxSkip + 1
    BY <1>1, MaxSkipAssumption DEF Missing, Spent
  <2> HIDE DEF S
  <2>5. /\ AfterKeyFor(rc, n).nextCounter = n + 1
        /\ AfterKeyFor(rc, n).skipped = Newest(S, MaxSkip)
    BY <2>3 DEF IsReceivingChain
  <2>6. CASE m \in Newest(S, MaxSkip) \/ m >= n + 1
    BY <2>5, <2>6 DEF Missing, Spent
  <2>7. CASE rc.nextCounter > m + MaxSkip + 1
    BY <1>1, <2>1, <2>5, <2>7, MaxSkipAssumption DEF Missing
  <2>8. CASE m \in S /\ m \notin Newest(S, MaxSkip)
    <3> PICK newer : newer = {s \in S : s > m}
      OBVIOUS
    <3>1. newer \subseteq (m + 1) .. (n - 1)
      <4>1. ASSUME NEW s \in newer PROVE s \in (m + 1) .. (n - 1)
        <5>1. s \in S /\ s > m
          OBVIOUS
        <5>2. s \in Nat /\ s < n
          BY <2>2, <5>1
        <5> QED
          BY <5>1, <5>2
      <4> QED
        BY <4>1
    <3>2. /\ IsFiniteSet((m + 1) .. (n - 1))
          /\ Cardinality((m + 1) .. (n - 1)) = (n - 1) - (m + 1) + 1
      <4>1. m + 1 \in Int /\ n - 1 \in Int /\ m < n
        BY <2>2, <2>8
      <4>2. /\ IsFiniteSet((m + 1) .. (n - 1))
            /\ Cardinality((m + 1) .. (n - 1))
                 = IF m + 1 > n - 1 THEN 0 ELSE (n - 1) - (m + 1) + 1
        BY <4>1, FS_Interval
      <4> QED
        BY <4>1, <4>2
    <3>3. Cardinality(newer) \in Nat /\ Cardinality(newer) <= n - m - 1
      <4>1. IsFiniteSet(newer) /\ Cardinality(newer) <= Cardinality((m + 1) .. (n - 1))
        BY <3>1, <3>2, FS_Subset
      <4> QED
        BY <3>2, <4>1, FS_CardinalityType
    <3>4. ~(Cardinality(newer) < MaxSkip)
      BY <2>8 DEF Newest
    <3> QED
      BY <2>5, <3>3, <3>4, MaxSkipAssumption DEF Missing
  <2> QED
    BY <2>4, <2>6, <2>7, <2>8
<1> QED
  BY <1>2, <1>3

\* The newest n elements of a set are n, unless they are all of it: what is
\* missing is older than n of them.
LEMMA NewestAreMany ==
  ASSUME NEW S \in SUBSET Nat, NEW top \in Nat, \A k \in S : k < top, NEW n \in Nat,
         NEW m \in S, m \notin Newest(S, n)
  PROVE  Cardinality({s \in Newest(S, n) : s > m}) >= n
<1> PICK kept : kept = Newest(S, n)
  OBVIOUS
<1> PICK gone : gone = S \ kept
  OBVIOUS
<1>1. /\ kept \subseteq S
      /\ gone \in SUBSET Nat /\ gone # {}
      /\ \A k \in gone : k \in Nat /\ k <= top
  <2>1. \A k \in S : k \in Nat /\ k <= top
    OBVIOUS
  <2>2. kept \subseteq S
    BY DEF Newest
  <2>3. m \in gone
    OBVIOUS
  <2> QED
    BY <2>1, <2>2, <2>3
<1> PICK x : x = Max(gone)
  OBVIOUS
<1>2. x \in gone /\ \A k \in gone : k <= x
  BY <1>1, MaxOfBounded
<1> PICK above : above = {s \in S : s > x}
  OBVIOUS
<1> PICK newer : newer = {s \in kept : s > m}
  OBVIOUS
<1>3. above \subseteq newer
  <2>1. ASSUME NEW s \in S, s > x
        PROVE  s \in kept /\ s > m
    <3>1. s \in Nat /\ x \in Nat /\ m \in Nat /\ m <= x
      BY <1>1, <1>2
    <3> QED
      BY <1>2, <2>1, <3>1
  <2> QED
    BY <2>1
<1>4. IsFiniteSet(newer)
  <2>1. newer \subseteq 0 .. top
    <3>1. \A k \in S : k \in Nat /\ k <= top
      OBVIOUS
    <3>2. newer \subseteq S
      BY <1>1
    <3>3. \A k \in newer : k \in 0 .. top
      BY <3>1, <3>2
    <3> QED
      BY <3>3
  <2>2. IsFiniteSet(0 .. top)
    BY FS_Interval
  <2> QED
    BY <2>1, <2>2, FS_Subset
<1>5. IsFiniteSet(above) /\ Cardinality(above) <= Cardinality(newer)
  BY <1>3, <1>4, FS_Subset
<1>6. ~(Cardinality(above) < n)
  <2>1. x \in S /\ x \notin Newest(S, n)
    BY <1>2
  <2> QED
    BY <2>1 DEF Newest
<1>7. Cardinality(above) \in Nat /\ Cardinality(newer) \in Nat
  BY <1>4, <1>5, FS_CardinalityType
<1> QED
  BY <1>5, <1>6, <1>7

\* A key is lost to another step only when the cache is full of newer ones.
LEMMA StepKeepsOrCrowds ==
  ASSUME NEW rc, IsReceivingChain(rc), SkippedArePassed(rc), NEW n \in Nat, Derivable(rc, n),
         NEW m \in Nat, m # n, Derivable(rc, m)
  PROVE  \/ Derivable(AfterKeyFor(rc, n), m)
         \/ Cardinality({s \in AfterKeyFor(rc, n).skipped : s > m}) >= MaxSkip
<1>1. rc.nextCounter \in Nat /\ rc.skipped \in SUBSET Nat
  BY DEF IsReceivingChain
<1>2. CASE n \in rc.skipped
  <2>1. AfterKeyFor(rc, n) = [rc EXCEPT !.skipped = @ \ {n}]
    BY <1>2 DEF AfterKeyFor
  <2>2. /\ AfterKeyFor(rc, n).nextCounter = rc.nextCounter
        /\ AfterKeyFor(rc, n).skipped = rc.skipped \ {n}
    BY <2>1 DEF IsReceivingChain
  <2> QED
    BY <2>2 DEF Derivable, Desynced
<1>3. CASE n \notin rc.skipped
  <2> DEFINE S == rc.skipped \cup (rc.nextCounter .. (n - 1))
  <2>1. rc.nextCounter <= n
    BY <1>1, <1>3 DEF Derivable, Desynced
  <2>2. S \in SUBSET Nat /\ \A k \in S : k < n
    BY <1>1, <2>1 DEF SkippedArePassed
  <2>3. AfterKeyFor(rc, n)
          = [rc EXCEPT !.nextCounter = n + 1, !.skipped = Newest(S, MaxSkip)]
    BY <1>3 DEF AfterKeyFor, EvictExcessSkipped
  <2>4. m \in S \/ (m >= n + 1 /\ m - (n + 1) <= MaxSkip)
    BY <1>1, <2>1, MaxSkipAssumption DEF Derivable, Desynced
  <2> HIDE DEF S
  <2>5. /\ AfterKeyFor(rc, n).nextCounter = n + 1
        /\ AfterKeyFor(rc, n).skipped = Newest(S, MaxSkip)
    BY <2>3 DEF IsReceivingChain
  <2>6. CASE m \in S /\ m \notin Newest(S, MaxSkip)
    BY <2>2, <2>5, <2>6, MaxSkipAssumption, NewestAreMany
  <2>7. CASE m \in Newest(S, MaxSkip)
    BY <2>5, <2>7 DEF Derivable, Desynced
  <2>8. CASE m >= n + 1 /\ m - (n + 1) <= MaxSkip
    BY <2>5, <2>8, MaxSkipAssumption DEF Derivable, Desynced
  <2> QED
    BY <2>4, <2>6, <2>7, <2>8
<1> QED
  BY <1>2, <1>3

\* A chain that was just announced, after its first step.
LEMMA FirstStep ==
  ASSUME NEW ck \in ChainKey
  PROVE  /\ AfterKeyFor(NewReceivingChain(ck), 0).chainKey = ck
         /\ AfterKeyFor(NewReceivingChain(ck), 0).nextCounter = 1
         /\ AfterKeyFor(NewReceivingChain(ck), 0).skipped = {}
<1> PICK rc : rc = NewReceivingChain(ck)
  OBVIOUS
<1>1. /\ IsReceivingChain(rc)
      /\ rc.chainKey = ck /\ rc.nextCounter = 0 /\ rc.skipped = {}
  BY DEF NewReceivingChain, IsReceivingChain
<1>2. SkippedArePassed(rc) /\ Derivable(rc, 0)
  BY <1>1, MaxSkipAssumption DEF SkippedArePassed, Derivable, Desynced
<1>3. IsReceivingChain(AfterKeyFor(rc, 0))
  BY <1>1, SteppedChainType
<1>4. /\ AfterKeyFor(rc, 0).chainKey = ck
      /\ SkippedArePassed(AfterKeyFor(rc, 0))
      /\ Spent(AfterKeyFor(rc, 0), 0)
      /\ AfterKeyFor(rc, 0).nextCounter \in {0, 0 + 1}
  BY <1>1, <1>2, StepSpends
<1> QED
  BY <1>3, <1>4 DEF IsReceivingChain, SkippedArePassed, Spent

\* The chains after an announcement was adopted: the new one, and some of
\* the old ones as they were.
LEMMA CommitChains ==
  ASSUME NEW c, IsChannel(c), NEW f, IsFrame(f), Rekeys(c, f), NEW d, Committing(c, d, f)
  PROVE  /\ \A k \in DOMAIN d.recvChains : k # f.ctr =>
              k \in DOMAIN c.recvChains /\ d.recvChains[k] = c.recvChains[k]
         /\ f.ctr \in DOMAIN d.recvChains =>
              /\ d.recvChains[f.ctr].chainKey = ChainKeyOf(d.rootKey)
              /\ d.recvChains[f.ctr].nextCounter = 1
              /\ d.recvChains[f.ctr].skipped = {}
         /\ ChainFor(c, f).chainKey = ChainKeyOf(d.rootKey)
         /\ LocalCounter(c, f) = 0
         /\ d.rootKey \in RootKey
         /\ Len(d.rootKey) = Len(c.rootKey) + 1
         /\ ChainKeyOf(d.rootKey).root = d.rootKey
<1>1. /\ f.pub \in KeyPair
      /\ c.rootKey \in Seq(SUBSET KeyPair)
      /\ {c.myRatchet, f.pub} \in SUBSET KeyPair
  BY DEF IsChannel, IsFrame, Rekeys, RootKey
<1>2. /\ d.rootKey = Append(c.rootKey, {c.myRatchet, f.pub})
      /\ d.recvChains = RetainedChains(c, f)
      /\ CandidateRoot(c, f) = d.rootKey
  BY DEF Committing, CandidateRoot, RootAfter, DH
<1>3. d.rootKey \in RootKey /\ Len(d.rootKey) = Len(c.rootKey) + 1
  BY <1>1, <1>2 DEF RootKey
<1>4. ChainKeyOf(d.rootKey) \in ChainKey /\ ChainKeyOf(d.rootKey).root = d.rootKey
  BY <1>3 DEF ChainKeyOf, ChainKey
<1>5. /\ ChainFor(c, f) = NewReceivingChain(ChainKeyOf(d.rootKey))
      /\ LocalCounter(c, f) = 0
  BY <1>2 DEF ChainFor, CandidateChain, LocalCounter
<1>6. SteppedChain(c, f) = AfterKeyFor(NewReceivingChain(ChainKeyOf(d.rootKey)), 0)
  BY <1>5 DEF SteppedChain
<1>7. ChainFor(c, f).chainKey = ChainKeyOf(d.rootKey)
  BY <1>5 DEF NewReceivingChain
<1>8. /\ SteppedChain(c, f).chainKey = ChainKeyOf(d.rootKey)
      /\ SteppedChain(c, f).nextCounter = 1
      /\ SteppedChain(c, f).skipped = {}
  BY <1>4, <1>6, FirstStep
<1>9. /\ DOMAIN RetainedChains(c, f) \subseteq DOMAIN c.recvChains \cup {f.ctr}
      /\ \A k \in DOMAIN RetainedChains(c, f) :
           RetainedChains(c, f)[k] = IF k = f.ctr THEN SteppedChain(c, f) ELSE c.recvChains[k]
  BY DEF RetainedChains, Newest
<1> QED
  BY <1>2, <1>3, <1>4, <1>5, <1>7, <1>8, <1>9
-----------------------------------------------------------------------------
(* Chain keys and the ratchet keys they were made with.                    *)

\* A party has made a chain key for one of its ratchet keys only.
LEMMA MadeOnce ==
  ASSUME NEW p \in Party, NEW ck, NEW g \in Nat, NEW h \in Nat,
         NEW g2 \in Nat, NEW h2 \in Nat, MadeBy(p, ck, g, h), MadeBy(p, ck, g2, h2)
  PROVE  g = g2
<1>1. Other(p) # p
  BY TwoParties
<1>2. CASE g = 0 \/ g2 = 0
  BY <1>2 DEF MadeBy, HandshakeChainKey
<1>3. CASE g # 0 /\ g2 # 0
  <2>1. DH([owner |-> p, gen |-> g], [owner |-> Other(p), gen |-> h])
          = DH([owner |-> p, gen |-> g2], [owner |-> Other(p), gen |-> h2])
    BY <1>3 DEF MadeBy
  <2>2. [owner |-> p, gen |-> g]
          \in {[owner |-> p, gen |-> g2], [owner |-> Other(p), gen |-> h2]}
    BY <2>1 DEF DH
  <2> QED
    BY <1>1, <2>2
<1> QED
  BY <1>2, <1>3

\* Nor can the peer have made it, if it did not know that ratchet key.
LEMMA MadeApart ==
  ASSUME NEW p \in Party, NEW ck, NEW g \in Nat, NEW h \in Nat,
         NEW g2 \in Nat, NEW h2 \in Nat, h2 < g,
         MadeBy(p, ck, g, h), MadeBy(Other(p), ck, g2, h2)
  PROVE  FALSE
<1>1. Other(p) # p /\ Other(Other(p)) = p
  BY TwoParties
<1>2. g2 # 0
  BY DEF MadeBy, HandshakeChainKey
<1>3. DH([owner |-> p, gen |-> g], [owner |-> Other(p), gen |-> h])
        = DH([owner |-> Other(p), gen |-> g2], [owner |-> p, gen |-> h2])
  BY <1>1, <1>2 DEF MadeBy
<1>4. [owner |-> p, gen |-> g]
        \in {[owner |-> Other(p), gen |-> g2], [owner |-> p, gen |-> h2]}
  BY <1>3 DEF DH
<1> QED
  BY <1>1, <1>4
=============================================================================
