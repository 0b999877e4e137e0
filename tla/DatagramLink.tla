---------------------------- MODULE DatagramLink ----------------------------
(***************************************************************************)
(* Two SecureChannel endpoints on the link their replay window and skipped *)
(* keys are written for: frames may be lost, delayed, reordered, delivered *)
(* again, and damaged in transit.  Every frame ever sent stays in `net`:   *)
(* a lost frame is one that is never received again, a duplicate is one    *)
(* received twice.                                                         *)
(***************************************************************************)
EXTENDS SecureChannel

CONSTANTS
  Quota,       \* Quota[p]: how many messages p sends (bounds the counters)
  MaxDamage    \* how many damaged copies the link makes

ASSUME QuotaAssumption == Quota \in [Party -> Nat]
ASSUME DamageAssumption == MaxDamage \in Nat

VARIABLES
  channel,     \* channel[p]: the SecureChannel object of p
  net,         \* net[p]: the frames on the way to p, for ever
  deliveries   \* deliveries[p][n]: how often p's decrypt() returned message n

vars == <<channel, net, deliveries>>

\* Messages are numbered by the counter they are sealed under.
Message == 0 .. (Max({Quota[p] : p \in Party}) - 1)

Init ==
  /\ channel = [p \in Party |-> NewChannel(p)]
  /\ net = [p \in Party |-> {}]
  /\ deliveries = [p \in Party |-> [n \in Message |-> 0]]

\* encrypt() and hand the frame to the link.  Whether REKEY_INTERVAL_SECONDS
\* have passed is up to the clock.
Send(p, timeDue) ==
  /\ channel[p].sendCounter < Quota[p]
  /\ channel' = [channel EXCEPT ![p] = AfterEncrypt(channel[p], timeDue)]
  /\ net' = [net EXCEPT ![Other(p)] = @ \cup {Sealed(channel[p], timeDue)}]
  /\ UNCHANGED deliveries

DamagedCopies(f) ==
  {[f EXCEPT !.seal.intact = FALSE], [f EXCEPT !.pub = NoPub]}
    \cup {[f EXCEPT !.ctr = n] : n \in Message}

DamagedFrames == {f \in UNION {net[p] : p \in Party} : ~Genuine(f)}

\* The link flips bits of a frame: in its ciphertext, its flag, its counter.
Damage(p) ==
  /\ Cardinality(DamagedFrames) < MaxDamage
  /\ \E f \in net[p] : \E g \in DamagedCopies(f) :
       /\ Genuine(f)
       /\ ~Genuine(g)
       /\ net' = [net EXCEPT ![p] = @ \cup {g}]
  /\ UNCHANGED <<channel, deliveries>>

\* decrypt() raises before key_for has stepped a chain.
Refuse(p, f) ==
  /\ IsStale(channel[p], f) \/ IsOrphan(channel[p], f) \/ IsPassed(channel[p], f)
  /\ UNCHANGED vars

\* Mutant: the counter is marked as seen before the tag is verified.
RejectTagMarked(p, f) ==
  /\ IsForeign(channel[p], f)
  /\ channel' = [channel EXCEPT ![p] =
       [AfterKeyDerivation(channel[p], f) EXCEPT !.window = MarkSeen(@, f.ctr)]]
  /\ UNCHANGED <<net, deliveries>>

\* The tag does not verify: the chain has been stepped, nothing else.
RejectTag(p, f) ==
  /\ IsForeign(channel[p], f)
  /\ channel' = [channel EXCEPT ![p] = AfterKeyDerivation(channel[p], f)]
  /\ UNCHANGED <<net, deliveries>>

Accept(p, f) ==
  /\ Accepts(channel[p], f)
  /\ channel' = [channel EXCEPT ![p] = AfterAccept(channel[p], f)]
  /\ deliveries' = [deliveries EXCEPT ![p][f.seal.ctr] = @ + 1]
  /\ UNCHANGED net

Receive(p, f) == Refuse(p, f) \/ RejectTag(p, f) \/ Accept(p, f)

Next ==
  \E p \in Party :
    \/ \E timeDue \in BOOLEAN : Send(p, timeDue)
    \/ Damage(p)
    \/ \E f \in net[p] : Receive(p, f)

Spec == Init /\ [][Next]_vars

-----------------------------------------------------------------------------
TypeOK ==
  /\ DOMAIN channel = Party
  /\ \A p \in Party : IsChannel(channel[p])
  /\ DOMAIN net = Party
  /\ \A p \in Party : \A f \in net[p] : IsFrame(f)
  /\ deliveries \in [Party -> [Message -> Nat]]
-----------------------------------------------------------------------------
(* The window against what was really delivered: a counter is refused      *)
(* exactly when its message was returned already or it is older than the   *)
(* window.  No replay is let in, and no frame that was never accepted -    *)
(* rejected or damaged ones included - costs a genuine one its turn.       *)
WindowExact ==
  \A p \in Party : \A n \in Message :
    Fresh(channel[p].window, n)
      <=> /\ deliveries[p][n] = 0
          /\ channel[p].window.highest - n < WindowSize

(* Forward secrecy within an epoch: once a message was returned, its key   *)
(* can no longer be derived from the endpoint that decrypted it, by        *)
(* stepping a chain it retains or from a cached skipped key.               *)
UsedKeysAreGone ==
  \A p \in Party : \A f \in net[p] : \A k \in DOMAIN channel[p].recvChains :
    LET rc == channel[p].recvChains[k] IN
    (/\ Genuine(f)
     /\ deliveries[p][f.ctr] > 0
     /\ rc.chainKey = f.seal.key.chainKey)
      => /\ f.seal.key.step < rc.nextCounter
         /\ f.seal.key.step \notin rc.skipped

(* No message key ever seals two frames, of either direction, whatever the *)
(* order in which rekeys cross, get lost or arrive late: the premise under *)
(* which counter_to_nonce may use the counter itself as the GCM nonce.     *)
NoKeyReuse ==
  LET genuine == {f \in UNION {net[p] : p \in Party} : Genuine(f)} IN
  \A f, g \in genuine : f.seal.key = g.seal.key => f = g

ChainsOf(c, f) ==
  {k \in DOMAIN c.recvChains : c.recvChains[k].chainKey = f.seal.key.chainKey}

(* Reordering is tolerated: on a link that damages nothing, a frame that   *)
(* is late but inside the window still opens as long as the chain it was   *)
(* sealed under is retained, is at most MAX_SKIP steps short of it, and    *)
(* has not gone so far past it that more than MAX_SKIP keys were skipped   *)
(* from it on.                                                             *)
LateFrameOpens ==
  DamagedFrames = {} => \A p \in Party : \A f \in net[p] :
    (/\ Genuine(f)
     /\ deliveries[p][f.ctr] = 0
     /\ channel[p].window.highest - f.ctr < WindowSize
     /\ \E k \in ChainsOf(channel[p], f) :
           channel[p].recvChains[k].nextCounter - f.seal.key.step
             \in -MaxSkip .. MaxSkip + 1)
      => Accepts(channel[p], f)

\* The cache of a frame's chain is full of keys that are newer.
Crowded(c, f) ==
  \E k \in ChainsOf(c, f) :
    Cardinality({s \in c.recvChains[k].skipped : s > f.seal.key.step}) >= MaxSkip

(* A genuine frame that decrypt() rejects leaves no mark: what the         *)
(* endpoint could open before, it can still open - unless the steps it     *)
(* made decrypt() skip are MAX_SKIP newer ones, whose keys are kept        *)
(* instead.                                                                *)
RejectionBurnsNothing ==
  [][(DamagedFrames = {} /\ UNCHANGED <<net, deliveries>>) =>
       \A p \in Party : \A f \in net[p] :
         (Genuine(f) /\ Accepts(channel[p], f))
           => Accepts(channel[p], f)' \/ Crowded(channel[p], f)']_vars

(* Says of every link what secure_channel.py:244-246 says of a counter: a  *)
(* packet that looks fresh and does not authenticate "must not be allowed  *)
(* to "burn" that counter".  It does not mark the counter, but key_for     *)
(* (secure_channel.py:276) has stepped the chain before the tag is tried,  *)
(* so it burns the key the genuine frame of that counter needs.  Does not  *)
(* hold.                                                                   *)
DamageBurnsNothing ==
  [][UNCHANGED <<net, deliveries>> =>
       \A p \in Party : \A f \in net[p] :
         (Genuine(f) /\ Accepts(channel[p], f)) => Accepts(channel[p], f)']_vars

(* Says of a late frame what secure_channel.py:66-68 says: one whose chain *)
(* has been pruned fails "with a clear error rather than silently          *)
(* succeeding or crashing".  When no retained chain starts at or below its *)
(* counter the lookup is max() of nothing (secure_channel.py:271), whose   *)
(* ValueError no caller handles as a rejected frame.  Does not hold.       *)
NoOrphanFrames ==
  \A p \in Party : \A f \in net[p] : ~IsOrphan(channel[p], f)

(* The cache of skipped keys at its limit: on a link that damages nothing, *)
(* a frame that would open does so until it is delivered, until it falls   *)
(* out of the window or its chain is pruned - or until MAX_SKIP keys of    *)
(* later steps of its chain are cached, so that it was the oldest that had *)
(* to go.  (Frames of a chain the receiver has not seen yet are another    *)
(* matter: a rekey of its own can make their announcement unacceptable.)   *)
OnlyExcessIsEvicted ==
  [][DamagedFrames = {} => \A p \in Party : \A f \in net[p] :
       (Genuine(f) /\ Accepts(channel[p], f) /\ ChainsOf(channel[p], f) # {})
         => \/ Accepts(channel[p], f)'
            \/ ~Fresh(channel[p].window, f.ctr)'
            \/ ChainsOf(channel[p], f)' = {}
            \/ Crowded(channel[p], f)']_vars

(* A key pair the peer announced is mixed into everything sent after its   *)
(* announcement was accepted, at the latest from the next message on.      *)
HealsOnReply ==
  \A p \in Party :
    LET c == channel[p] IN
    (c.peerRatchetPub.gen > 0 /\ ~c.sendRatchetOwed)
      => LET root == c.sendingChain.chainKey.root IN
         /\ root # InitialRoot
         /\ c.peerRatchetPub \in root[Len(root)]

(* The inductive invariant of the proofs: with the types and the window,   *)
(* no endpoint exceeds its quota and every frame on the link, damaged or   *)
(* not, was sealed under a counter its sender has used.                    *)
IInv ==
  /\ TypeOK
  /\ WindowExact
  /\ \A p \in Party : channel[p].sendCounter <= Quota[p]
  /\ \A p \in Party : \A f \in net[p] :
       f.seal.ctr < channel[Other(p)].sendCounter

MadeSoFar(p, ck, g) ==
  \E h \in 0 .. channel[Other(p)].myRatchet.gen : MadeBy(p, ck, g, h)

KeysInOrder ==
  \A p \in Party :
    /\ channel[p].myRatchet.owner = p
    /\ channel[p].peerRatchetPub.owner = Other(p)
    /\ channel[p].peerRatchetPub.gen <= channel[Other(p)].myRatchet.gen
    /\ MadeSoFar(p, channel[p].sendingChain.chainKey, channel[p].myRatchet.gen)

\* What was ever sent to p, damaged copies included, and the ratchet keys
\* of its sender at the time.
SealedInOrder ==
  \A p \in Party : \A f \in net[p] :
    LET c == channel[Other(p)]
        k == f.seal.key
    IN
    /\ f.seal.pub # NoPub => /\ f.seal.pub.owner = Other(p)
                             /\ f.seal.pub.gen <= c.myRatchet.gen
    /\ \E g \in 0 .. c.myRatchet.gen :
         /\ MadeSoFar(Other(p), k.chainKey, g)
         /\ g = c.myRatchet.gen => /\ k.chainKey = c.sendingChain.chainKey
                                   /\ k.step < c.sendingChain.counter

\* The chain keys p has used, or is about to use.
SendingKeys(p) ==
  {f.seal.key.chainKey : f \in net[Other(p)]} \cup {channel[p].sendingChain.chainKey}

NoKeyShared == \A p \in Party : SendingKeys(p) \cap SendingKeys(Other(p)) = {}

\* A counter stands for one genuine frame, and none was delivered that has
\* not been used yet.
OneFramePerCounter ==
  \A p \in Party :
    /\ \A f, g \in net[p] : Genuine(f) /\ Genuine(g) /\ f.ctr = g.ctr => f = g
    /\ \A n \in Message :
         deliveries[p][n] > 0 => n < channel[Other(p)].sendCounter

RootLength(ck) == Len(ck.root)

\* Chains are told apart by the length of the root they hang on, and what
\* was delivered is no newer than the root.
ChainsApart ==
  \A p \in Party :
    LET c == channel[p] IN
    /\ \A k \in DOMAIN c.recvChains :
         /\ RootLength(c.recvChains[k].chainKey) <= Len(c.rootKey)
         /\ \A s \in c.recvChains[k].skipped : s < c.recvChains[k].nextCounter
    /\ \A k, l \in DOMAIN c.recvChains :
         RootLength(c.recvChains[k].chainKey) = RootLength(c.recvChains[l].chainKey)
           => k = l
    /\ \A f \in net[p] :
         Genuine(f) /\ deliveries[p][f.ctr] > 0
           => RootLength(f.seal.key.chainKey) <= Len(c.rootKey)

\* The counter a chain of frames starts at.
StartOf(f) == f.ctr - f.seal.key.step

\* What p sent, given as a set, and its channel c: a chain starts at the
\* counter of its announcement, and later frames are on later chains.
SentInOrder(p, c, sent) ==
  LET start == c.sendCounter - c.sendingChain.counter IN
  /\ c.sendingChain.counter <= c.sendCounter
  /\ c.sendingChain.chainKey = HandshakeChainKey(p) => start = 0
  /\ \A f \in sent :
       /\ f.seal.key.step <= f.ctr
       /\ StartOf(f) <= start
       /\ f.pub # NoPub => /\ f.seal.key.step = 0
                           /\ f.seal.key.chainKey # HandshakeChainKey(p)
       /\ f.seal.key.chainKey = HandshakeChainKey(p) => StartOf(f) = 0
       /\ f.seal.key.chainKey = c.sendingChain.chainKey => StartOf(f) = start
  /\ \A f, g \in sent : f.ctr <= g.ctr => StartOf(f) <= StartOf(g)
  /\ \A f, g \in sent :
       f.seal.key.chainKey = g.seal.key.chainKey => StartOf(f) = StartOf(g)

SentBy(p) == {f \in net[Other(p)] : Genuine(f)}

ChainsInOrder == \A p \in Party : SentInOrder(p, channel[p], SentBy(p))

\* The receiver keeps a chain under the counter it starts at: that of the
\* delivered frame that announced it.
ChainsAnnounced ==
  \A p \in Party : \A k \in DOMAIN channel[p].recvChains :
    LET ck == channel[p].recvChains[k].chainKey IN
    \/ k = 0 /\ ck = HandshakeChainKey(Other(p))
    \/ \E f \in net[p] : /\ Genuine(f)
                         /\ f.ctr = k
                         /\ f.pub # NoPub
                         /\ f.seal.key.chainKey = ck
                         /\ deliveries[p][k] > 0

\* On a link that damages nothing the receiver steps no chain past what
\* was sent, and every step it passed without keeping its key was for the
\* frame of that step, unless more than MAX_SKIP steps were skipped since.
StepsAccountedFor ==
  DamagedFrames = {} => \A p \in Party : \A k \in DOMAIN channel[p].recvChains :
    LET rc == channel[p].recvChains[k] IN
    /\ k + rc.nextCounter <= channel[Other(p)].sendCounter
    /\ \A f \in net[p] :
         (/\ Genuine(f)
          /\ deliveries[p][f.ctr] = 0
          /\ f.seal.key.chainKey = rc.chainKey)
           => \/ f.seal.key.step \in rc.skipped
              \/ f.seal.key.step >= rc.nextCounter
              \/ f.seal.key.step + MaxSkip + 1 < rc.nextCounter

(* The ledger of the session: what the endpoints and the link know of      *)
(* every chain, and what follows from it about the keys.                   *)
Ledger ==
  /\ IInv
  /\ KeysInOrder
  /\ SealedInOrder
  /\ NoKeyShared
  /\ NoKeyReuse
  /\ OneFramePerCounter
  /\ ChainsApart
  /\ UsedKeysAreGone
  /\ HealsOnReply
  /\ ChainsInOrder
  /\ ChainsAnnounced
  /\ StepsAccountedFor

\* submitted[p]: the numbers p has used.
Abstract == INSTANCE MessageChannel WITH
  submitted <- [p \in Party |-> {n \in Message : n < channel[p].sendCounter}]

(* Whatever the link does, the endpoints implement the abstract channel.   *)
ImplementsMessageChannel == Abstract!Spec
=============================================================================
