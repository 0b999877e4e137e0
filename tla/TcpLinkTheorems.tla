-------------------------- MODULE TcpLinkTheorems --------------------------
(***************************************************************************)
(* What holds of two endpoints on a TCP stream, of the chat loops that     *)
(* take turns on it and of the GUI's threads that do not, for every quota, *)
(* rekey interval, window, skip bound and number of retained chains.       *)
(***************************************************************************)
EXTENDS CliChat, GuiChannel, SecureChannelTheorems

-----------------------------------------------------------------------------
(* The inductive invariant of the proofs.                                  *)

Announcements(w) == {i \in DOMAIN w : w[i].pub # NoPub}

RootLength(f) == Len(f.seal.key.chainKey.root)

\* How many of the frames s sealed have left the stream w.
Gone(s, w) == s.sendCounter - Len(w)

\* The key of the i-th frame of w, counting the one s would seal next.
KeyAt(s, w, i) == IF i \in DOMAIN w THEN w[i].seal.key ELSE NextMessageKey(s.sendingChain)

\* The stream w as p, whose channel is s, filled it: numbered without a gap,
\* every chain hung on a root that was a beginning of its present root.
StreamOf(p, s, w) ==
  /\ s.myRatchet.owner = p
  /\ IsPrefix(s.sendingChain.chainKey.root, s.rootKey)
  /\ Len(w) <= s.sendCounter
  /\ \A i \in DOMAIN w :
       /\ Genuine(w[i])
       /\ w[i].ctr = Gone(s, w) + i - 1
       /\ IsPrefix(w[i].seal.key.chainKey.root, s.rootKey)
       /\ i + 1 \in Announcements(w)
            \/ KeyAt(s, w, i + 1) = MessageKey(w[i].seal.key.chainKey, w[i].seal.key.step + 1)
  /\ \A i \in Announcements(w) :
       LET root == w[i].seal.key.chainKey.root IN
       /\ w[i].seal.key = MessageKey(ChainKeyOf(root), 0)
       /\ root # InitialRoot
       /\ w[i].pub \in root[Len(root)]
       /\ w[i].pub.owner = p
       /\ w[i].pub.gen <= s.myRatchet.gen
  /\ \A i \in DOMAIN w, j \in Announcements(w) : i < j =>
       /\ RootLength(w[i]) < RootLength(w[j])
       /\ w[i].pub # NoPub => w[i].pub.gen < w[j].pub.gen

\* The key of p that its peer, whose channel is c, has read, and those that
\* are still to come.
KeysRead(p, s, w, c) ==
  /\ c.peerRatchetPub.owner = p
  /\ c.peerRatchetPub.gen <= s.myRatchet.gen
  /\ \A i \in Announcements(w) : c.peerRatchetPub.gen < w[i].pub.gen

Streams ==
  \A p \in Party :
    /\ StreamOf(p, channel[p], wire[Other(p)])
    /\ KeysRead(p, channel[p], wire[Other(p)], channel[Other(p)])

\* The receiver, whose channel is c, is at the place where w begins: its
\* newest chain is one step before the first frame, unless that announces.
Following(c, s, w) ==
  /\ c.window.highest = Gone(s, w) - 1
  /\ \E k \in DOMAIN c.recvChains :
       LET rc == c.recvChains[k] IN
       /\ \A j \in DOMAIN c.recvChains : j <= k
       /\ rc.skipped = {}
       /\ k + rc.nextCounter = Gone(s, w)
       /\ 1 \in Announcements(w) \/ KeyAt(s, w, 1) = MessageKey(rc.chainKey, rc.nextCounter)
  /\ \/ s.myRatchet = c.peerRatchetPub
     \/ \E i \in Announcements(w) : w[i].pub = s.myRatchet

\* p's root is that of its peer and the steps of the announcements in w.
Ahead(p, s, w, c) ==
  /\ IsPrefix(c.rootKey, s.rootKey)
  /\ \A n \in (Len(c.rootKey) + 1) .. Len(s.rootKey) :
       \E g \in 0 .. s.myRatchet.gen :
         s.rootKey[n] = DH(c.myRatchet, [owner |-> p, gen |-> g])
  /\ \/ Len(s.rootKey) = Len(c.rootKey)
     \/ \E i \in Announcements(w) : RootLength(w[i]) = Len(s.rootKey)
  /\ \A i \in Announcements(w) :
       /\ RootLength(w[i]) > Len(c.rootKey)
       /\ \/ RootLength(w[i]) = Len(c.rootKey) + 1
          \/ \E j \in Announcements(w) : j < i /\ RootLength(w[j]) = RootLength(w[i]) - 1

\* p has read every key its peer announced.
UpToDate(p) == Announcements(wire[p]) = {}

\* No rekeys have crossed: announcements are on the way in one direction at
\* most, and each end can follow what it has not read yet.
InStep ==
  /\ \E p \in Party : UpToDate(p)
  /\ \A p \in Party :
       /\ Following(channel[p], channel[Other(p)], wire[p])
       /\ UpToDate(p) => Ahead(p, channel[p], wire[Other(p)], channel[Other(p)])
       /\ shown[p] = [i \in 1 .. Gone(channel[Other(p)], wire[p]) |-> i - 1]
       /\ alerts[p] = 0

LinkInv ==
  /\ TypeOK
  /\ Streams
  /\ ~Forked => InStep

\* Why: at most one frame is on the way, and none when a side is at its
\* prompt, which the sides never are together.
Turns ==
  /\ NoMutualWait
  /\ \A p \in Party :
       /\ Len(wire[p]) <= 1
       /\ wire[p] # << >> => wire[Other(p)] = << >>
       /\ pc[p] = "prompt" => /\ wire[p] = << >>
                              /\ wire[Other(p)] = << >>
                              /\ pc[Other(p)] # "prompt"

\* The inductive invariant of the proofs.
ChatInv == ChatTypeOK /\ LinkInv /\ ~Forked /\ Turns

-----------------------------------------------------------------------------
(* Sequences: an item at a time.                                           *)

\* IsPrefix, position by position.
Begins(s, t) == Len(s) <= Len(t) /\ \A i \in 1 .. Len(s) : s[i] = t[i]

LEMMA PrefixBegins ==
  ASSUME NEW S, NEW s \in Seq(S), NEW t \in Seq(S)
  PROVE  IsPrefix(s, t) <=> Begins(s, t)
BY DEF IsPrefix, Begins

LEMMA AppendedAt ==
  ASSUME NEW S, NEW s \in Seq(S), NEW e \in S
  PROVE  /\ Append(s, e) \in Seq(S)
         /\ Len(Append(s, e)) = Len(s) + 1
         /\ \A i \in 1 .. Len(s) : Append(s, e)[i] = s[i]
         /\ Append(s, e)[Len(s) + 1] = e
         /\ DOMAIN Append(s, e) = DOMAIN s \cup {Len(s) + 1}
         /\ DOMAIN s = 1 .. Len(s)
OBVIOUS

LEMMA TailAt ==
  ASSUME NEW S, NEW s \in Seq(S), s # << >>
  PROVE  /\ Tail(s) \in Seq(S)
         /\ Len(s) > 0 /\ Len(s) \in Nat
         /\ Len(Tail(s)) = Len(s) - 1
         /\ DOMAIN s = 1 .. Len(s)
         /\ DOMAIN Tail(s) = 1 .. (Len(s) - 1)
         /\ \A i \in 1 .. (Len(s) - 1) : Tail(s)[i] = s[i + 1]
         /\ Head(s) = s[1] /\ 1 \in DOMAIN s
OBVIOUS

LEMMA PrefixNoLonger ==
  ASSUME NEW S, NEW s \in Seq(S), NEW t \in Seq(S), IsPrefix(s, t)
  PROVE  Len(s) <= Len(t)
BY PrefixBegins DEF Begins

LEMMA PrefixAppend ==
  ASSUME NEW S, NEW s \in Seq(S), NEW t \in Seq(S), NEW e \in S, IsPrefix(s, t)
  PROVE  IsPrefix(s, Append(t, e))
<1>1. Begins(s, t)
  BY PrefixBegins
<1>2. Begins(s, Append(t, e))
  BY <1>1, AppendedAt DEF Begins
<1> QED
  BY <1>2, AppendedAt, PrefixBegins

LEMMA PrefixRefl ==
  ASSUME NEW S, NEW s \in Seq(S)
  PROVE  IsPrefix(s, s)
BY PrefixBegins DEF Begins

LEMMA PrefixWhole ==
  ASSUME NEW S, NEW s \in Seq(S), NEW t \in Seq(S), IsPrefix(s, t), Len(s) = Len(t)
  PROVE  s = t
<1>1. Begins(s, t)
  BY PrefixBegins
<1> QED
  BY <1>1 DEF Begins

\* A prefix of a sequence is known by its length.
LEMMA PrefixByLength ==
  ASSUME NEW S, NEW s \in Seq(S), NEW t \in Seq(S), NEW u \in Seq(S),
         IsPrefix(s, u), IsPrefix(t, u), Len(t) = Len(s) + 1
  PROVE  t = Append(s, u[Len(s) + 1])
<1>1. Begins(s, u) /\ Begins(t, u)
  BY PrefixBegins
<1>2. u[Len(s) + 1] \in S
  BY <1>1 DEF Begins
<1> PICK e \in S : e = u[Len(s) + 1]
  BY <1>2
<1>3. /\ Append(s, e) \in Seq(S)
      /\ Len(Append(s, e)) = Len(t)
      /\ \A i \in 1 .. Len(s) : Append(s, e)[i] = s[i]
      /\ Append(s, e)[Len(s) + 1] = e
  BY AppendedAt
<1>4. \A i \in 1 .. Len(t) : Append(s, e)[i] = t[i]
  BY <1>1, <1>3 DEF Begins
<1> QED
  BY <1>3, <1>4

-----------------------------------------------------------------------------
(* The steps, and the types.                                               *)

LEMMA FrameFields ==
  ASSUME NEW f \in Frame
  PROVE  IsFrame(f)
BY DEF Frame, IsFrame

LEMMA SealedFrame ==
  ASSUME NEW c, IsChannel(c), NEW timeDue \in BOOLEAN
  PROVE  Sealed(c, timeDue) \in Frame
<1> DEFINE r == ReadyToSeal(c, timeDue)
<1>1. IsChannel(r)
  BY SendStepType DEF ReadyToSeal
<1> HIDE DEF r
<1>2. NextMessageKey(r.sendingChain) \in [chainKey : ChainKey, step : Nat]
  BY <1>1 DEF IsChannel, IsSendingChain, NextMessageKey, MessageKey
<1>3. c.sendCounter \in Nat /\ r.myRatchet \in KeyPair
  BY <1>1 DEF IsChannel
<1> QED
  BY <1>2, <1>3 DEF Sealed, Frame, r

LEMMA LinkTypes ==
  ASSUME TypeOK, NEW p \in Party
  PROVE  /\ IsChannel(channel[p])
         /\ wire[p] \in Seq(Frame)
         /\ shown[p] \in Seq(Nat)
         /\ channel[p].rootKey \in Seq(SUBSET KeyPair)
         /\ channel[p].myRatchet \in KeyPair
         /\ channel[p].peerRatchetPub \in KeyPair
         /\ channel[p].sendCounter \in Nat
BY DEF TypeOK, IsChannel, RootKey

LEMMA SendEffect ==
  ASSUME TypeOK, NEW p \in Party, NEW timeDue \in BOOLEAN, Send(p, timeDue),
         NEW f, f = Sealed(channel[p], timeDue)
  PROVE  /\ channel'[p] = AfterEncrypt(channel[p], timeDue)
         /\ channel'[Other(p)] = channel[Other(p)]
         /\ wire'[Other(p)] = Append(wire[Other(p)], f)
         /\ wire'[p] = wire[p]
         /\ shown' = shown /\ alerts' = alerts
         /\ channel'[p].sendCounter = channel[p].sendCounter + 1
         /\ f \in Frame /\ Genuine(f)
         /\ f.ctr = channel[p].sendCounter
         /\ \/ Announcing(channel[p], channel'[p], f)
            \/ Continuing(channel[p], channel'[p], f)
         /\ TypeOK'
<1>1. Other(p) \in Party /\ Other(p) # p /\ IsChannel(channel[p])
  BY TwoParties DEF TypeOK
<1>2. /\ f \in Frame /\ Genuine(f) /\ f.ctr = channel[p].sendCounter
      /\ IsChannel(AfterEncrypt(channel[p], timeDue))
      /\ AfterEncrypt(channel[p], timeDue).sendCounter = channel[p].sendCounter + 1
  BY <1>1, EncryptType, SealedFrame
<1>3. /\ channel' = [channel EXCEPT ![p] = AfterEncrypt(channel[p], timeDue)]
      /\ wire' = [wire EXCEPT ![Other(p)] = Append(wire[Other(p)], f)]
      /\ shown' = shown /\ alerts' = alerts
  BY DEF Send
<1>4. /\ channel'[p] = AfterEncrypt(channel[p], timeDue)
      /\ channel'[Other(p)] = channel[Other(p)]
      /\ wire'[Other(p)] = Append(wire[Other(p)], f)
      /\ wire'[p] = wire[p]
  <2>1. DOMAIN channel = Party /\ DOMAIN wire = Party
    BY DEF TypeOK
  <2> QED
    BY <1>1, <1>3, <2>1
<1>5. \/ Announcing(channel[p], channel'[p], f)
      \/ Continuing(channel[p], channel'[p], f)
  BY <1>1, <1>4, EncryptAnnounces, EncryptContinues
<1>6. TypeOK'
  <2>1. Append(wire[Other(p)], f) \in Seq(Frame)
    BY <1>1, <1>2, AppendedAt DEF TypeOK
  <2> QED
    BY <1>1, <1>2, <1>3, <2>1 DEF TypeOK
<1> QED
  BY <1>2, <1>3, <1>4, <1>5, <1>6

\* Reading a frame, whatever comes of it.
LEMMA ReadEffect ==
  ASSUME TypeOK, NEW p \in Party, Accept(p) \/ Reject(p), NEW f, f = Arriving(p)
  PROVE  /\ wire[p] # << >> /\ f = wire[p][1]
         /\ IsChannel(channel[p]) /\ f \in Frame /\ IsFrame(f)
         /\ channel'[Other(p)] = channel[Other(p)]
         /\ wire'[p] = Tail(wire[p])
         /\ wire'[Other(p)] = wire[Other(p)]
         /\ Accept(p) => /\ Accepts(channel[p], f)
                         /\ channel'[p] = AfterAccept(channel[p], f)
                         /\ shown' = [shown EXCEPT ![p] = Append(shown[p], f.seal.ctr)]
                         /\ alerts' = alerts
         /\ Reject(p) => /\ ~Accepts(channel[p], f)
                         /\ \/ channel'[p] = channel[p]
                            \/ /\ HasChain(channel[p], f)
                               /\ channel'[p] = AfterKeyDerivation(channel[p], f)
         /\ TypeOK'
<1>1. /\ Other(p) \in Party /\ Other(p) # p
      /\ IsChannel(channel[p]) /\ wire[p] \in Seq(Frame)
  BY TwoParties DEF TypeOK
<1>2. wire[p] # << >> /\ f = Head(wire[p])
  BY DEF Accept, Reject, Arriving
<1>3. Tail(wire[p]) \in Seq(Frame) /\ f = wire[p][1] /\ f \in Frame /\ IsFrame(f)
  BY <1>1, <1>2, TailAt, FrameFields
<1>4. wire' = [wire EXCEPT ![p] = Tail(wire[p])]
  BY DEF Accept, Reject
<1>5. /\ wire'[p] = Tail(wire[p]) /\ wire'[Other(p)] = wire[Other(p)]
      /\ wire' \in [Party -> Seq(Frame)]
  BY <1>1, <1>3, <1>4 DEF TypeOK
<1>6. CASE Accept(p)
  <2>1. /\ Accepts(channel[p], f)
        /\ channel' = [channel EXCEPT ![p] = AfterAccept(channel[p], f)]
        /\ shown' = [shown EXCEPT ![p] = Append(shown[p], f.seal.ctr)]
        /\ alerts' = alerts
    BY <1>6 DEF Accept
  <2>2. IsChannel(AfterAccept(channel[p], f)) /\ f.seal.ctr \in Nat
    BY <1>1, <1>3, <2>1, AcceptType DEF IsFrame
  <2>3. Append(shown[p], f.seal.ctr) \in Seq(Nat)
    BY <2>2, AppendedAt DEF TypeOK
  <2>4. TypeOK'
    BY <1>5, <2>1, <2>2, <2>3 DEF TypeOK
  <2>5. ~Reject(p)
    BY <2>1, <1>2 DEF Reject, Arriving, Accepts, IsForeign, IsStale, IsPassed, Derives, Derivable
  <2> QED
    BY <1>1, <1>2, <1>3, <1>5, <1>6, <2>1, <2>4, <2>5 DEF TypeOK
<1>7. CASE Reject(p)
  <2>1. /\ \/ /\ IsForeign(channel[p], f)
              /\ channel' = [channel EXCEPT ![p] = AfterKeyDerivation(channel[p], f)]
           \/ /\ IsStale(channel[p], f) \/ IsPassed(channel[p], f)
              /\ UNCHANGED channel
        /\ alerts' = [alerts EXCEPT ![p] = @ + 1]
        /\ shown' = shown
    BY <1>7 DEF Reject
  <2>2. IsForeign(channel[p], f) => HasChain(channel[p], f)
    BY DEF IsForeign, Derives
  <2>3. IsForeign(channel[p], f) => IsChannel(AfterKeyDerivation(channel[p], f))
    BY <1>1, <1>3, <2>2, KeyDerivationType
  <2>4. TypeOK'
    <3>1. DOMAIN channel' = Party /\ \A r \in Party : IsChannel(channel'[r])
      BY <2>1, <2>3 DEF TypeOK
    <3>2. alerts' \in [Party -> Nat] /\ shown' \in [Party -> Seq(Nat)]
      BY <2>1 DEF TypeOK
    <3> QED
      BY <1>5, <3>1, <3>2 DEF TypeOK
  <2>5. ~Accepts(channel[p], f)
    BY <2>1 DEF Accepts, IsForeign, IsStale, IsPassed, Derives, Derivable
  <2>6. ~Accept(p)
    BY <1>2, <2>5 DEF Accept, Arriving
  <2>7. /\ channel'[Other(p)] = channel[Other(p)]
        /\ \/ channel'[p] = channel[p]
           \/ /\ HasChain(channel[p], f)
              /\ channel'[p] = AfterKeyDerivation(channel[p], f)
    BY <1>1, <2>1, <2>2 DEF TypeOK
  <2> QED
    BY <1>1, <1>2, <1>3, <1>5, <2>4, <2>5, <2>6, <2>7
<1> QED
  BY <1>6, <1>7

-----------------------------------------------------------------------------
(* The stream, as its sender filled it.                                    *)

\* What of StreamOf is said of one frame, and of a frame and a later one.
InStream(p, s, w, i) ==
  /\ Genuine(w[i])
  /\ w[i].ctr = Gone(s, w) + i - 1
  /\ IsPrefix(w[i].seal.key.chainKey.root, s.rootKey)
  /\ i + 1 \in Announcements(w)
       \/ KeyAt(s, w, i + 1) = MessageKey(w[i].seal.key.chainKey, w[i].seal.key.step + 1)

Announced(p, s, f) ==
  /\ f.seal.key = MessageKey(ChainKeyOf(f.seal.key.chainKey.root), 0)
  /\ f.seal.key.chainKey.root # InitialRoot
  /\ f.pub \in f.seal.key.chainKey.root[Len(f.seal.key.chainKey.root)]
  /\ f.pub.owner = p
  /\ f.pub.gen <= s.myRatchet.gen

Before(f, g) ==
  /\ RootLength(f) < RootLength(g)
  /\ f.pub # NoPub => f.pub.gen < g.pub.gen

LEMMA StreamParts ==
  ASSUME NEW p, NEW s, NEW w
  PROVE  StreamOf(p, s, w) <=>
           /\ s.myRatchet.owner = p
           /\ IsPrefix(s.sendingChain.chainKey.root, s.rootKey)
           /\ Len(w) <= s.sendCounter
           /\ \A i \in DOMAIN w : InStream(p, s, w, i)
           /\ \A i \in Announcements(w) : Announced(p, s, w[i])
           /\ \A i \in DOMAIN w, j \in Announcements(w) : i < j => Before(w[i], w[j])
BY DEF StreamOf, InStream, Announced, Before

LEMMA FrameRoot ==
  ASSUME NEW f \in Frame
  PROVE  /\ f.seal.key \in [chainKey : ChainKey, step : Nat]
         /\ f.seal.key.chainKey.root \in Seq(SUBSET KeyPair)
         /\ f.seal.key.step \in Nat
         /\ f.ctr \in Nat
         /\ f.pub # NoPub => f.pub \in KeyPair
         /\ RootLength(f) \in Nat
BY DEF Frame, ChainKey, RootKey, RootLength

LEMMA FramesOf ==
  ASSUME NEW w \in Seq(Frame)
  PROVE  /\ DOMAIN w = 1 .. Len(w) /\ Len(w) \in Nat
         /\ \A i \in DOMAIN w : w[i] \in Frame /\ i \in Nat
         /\ Announcements(w) \subseteq DOMAIN w
BY DEF Announcements

\* What a fresh frame is to the stream of p.
Extends(p, s, d, f) ==
  /\ d.myRatchet.owner = p
  /\ IsPrefix(d.sendingChain.chainKey.root, d.rootKey)
  /\ IsPrefix(f.seal.key.chainKey.root, d.rootKey)
  /\ \A r \in Seq(SUBSET KeyPair) : IsPrefix(r, s.rootKey) => IsPrefix(r, d.rootKey)
  /\ NextMessageKey(d.sendingChain) = MessageKey(f.seal.key.chainKey, f.seal.key.step + 1)
  /\ f.pub # NoPub => /\ Announced(p, d, f)
                      /\ RootLength(f) = Len(s.rootKey) + 1
                      /\ f.pub.gen = s.myRatchet.gen + 1
                      /\ d.myRatchet = f.pub
  /\ f.pub = NoPub => f.seal.key = NextMessageKey(s.sendingChain)
  /\ s.myRatchet.gen \in Nat /\ d.myRatchet.gen \in Nat
  /\ s.myRatchet.gen <= d.myRatchet.gen

LEMMA SentRoots ==
  ASSUME NEW p, NEW s, IsChannel(s), NEW d, NEW f \in Frame,
         IsPrefix(s.sendingChain.chainKey.root, s.rootKey), s.myRatchet.owner = p,
         Announcing(s, d, f) \/ Continuing(s, d, f)
  PROVE  Extends(p, s, d, f)
<1>1. /\ s.rootKey \in Seq(SUBSET KeyPair)
      /\ s.myRatchet \in KeyPair /\ s.myRatchet.gen \in Nat
      /\ s.peerRatchetPub \in KeyPair
      /\ s.sendingChain.counter \in Nat
      /\ s.sendingChain.chainKey.root \in Seq(SUBSET KeyPair)
  BY DEF IsChannel, RootKey, KeyPair, IsSendingChain, ChainKey
<1>2. f.seal.key \in [chainKey : ChainKey, step : Nat]
  BY FrameRoot
<1>3. CASE Continuing(s, d, f)
  <2>1. /\ d.myRatchet = s.myRatchet /\ d.rootKey = s.rootKey /\ f.pub = NoPub
        /\ d.sendingChain.chainKey = s.sendingChain.chainKey
        /\ d.sendingChain.counter = s.sendingChain.counter + 1
        /\ f.seal.key.chainKey = s.sendingChain.chainKey
        /\ f.seal.key.step = s.sendingChain.counter
    BY <1>3 DEF Continuing
  <2>2. f.seal.key = NextMessageKey(s.sendingChain)
    BY <1>2, <2>1 DEF NextMessageKey, MessageKey
  <2>3. NextMessageKey(d.sendingChain) = MessageKey(f.seal.key.chainKey, f.seal.key.step + 1)
    BY <2>1 DEF NextMessageKey
  <2> QED
    BY <1>1, <2>1, <2>2, <2>3 DEF Extends
<1>4. CASE Announcing(s, d, f)
  <2> PICK e \in SUBSET KeyPair : e = {d.myRatchet, s.peerRatchetPub}
    BY <1>1, <1>4 DEF Announcing
  <2>1. /\ d.myRatchet \in KeyPair
        /\ d.myRatchet.owner = p /\ d.myRatchet.gen = s.myRatchet.gen + 1
        /\ d.rootKey = Append(s.rootKey, e)
        /\ d.sendingChain.chainKey = ChainKeyOf(d.rootKey)
        /\ d.sendingChain.counter = 1
        /\ f.pub = d.myRatchet
        /\ f.seal.key.chainKey = ChainKeyOf(d.rootKey)
        /\ f.seal.key.step = 0
    BY <1>4 DEF Announcing
  <2>2. ChainKeyOf(d.rootKey).root = d.rootKey
    BY DEF ChainKeyOf
  <2>3. /\ d.rootKey \in Seq(SUBSET KeyPair)
        /\ Len(d.rootKey) = Len(s.rootKey) + 1
        /\ d.rootKey[Len(d.rootKey)] = e
    <3>1. s.rootKey \in Seq(SUBSET KeyPair)
      BY <1>1
    <3>2. /\ Append(s.rootKey, e) \in Seq(SUBSET KeyPair)
          /\ Len(Append(s.rootKey, e)) = Len(s.rootKey) + 1
          /\ Append(s.rootKey, e)[Len(s.rootKey) + 1] = e
      BY <3>1, AppendedAt
    <3> QED
      BY <2>1, <3>2, Zenon
  <2>4. IsPrefix(d.rootKey, d.rootKey)
    BY <2>3, PrefixRefl
  <2>5. \A r \in Seq(SUBSET KeyPair) : IsPrefix(r, s.rootKey) => IsPrefix(r, d.rootKey)
    <3>1. s.rootKey \in Seq(SUBSET KeyPair)
      BY <1>1
    <3>2. \A r \in Seq(SUBSET KeyPair) :
            IsPrefix(r, s.rootKey) => IsPrefix(r, Append(s.rootKey, e))
      BY <3>1, PrefixAppend
    <3> QED
      BY <2>1, <3>2, Zenon
  <2>6. NextMessageKey(d.sendingChain) = MessageKey(f.seal.key.chainKey, f.seal.key.step + 1)
    BY <2>1 DEF NextMessageKey
  <2>7. d.myRatchet.gen \in Nat /\ s.myRatchet.gen <= d.myRatchet.gen
    BY <1>1, <2>1
  <2>8. f.seal.key = MessageKey(ChainKeyOf(d.rootKey), 0)
    BY <1>2, <2>1 DEF MessageKey
  <2>9. f.pub # NoPub
    BY <2>1, NoPubAssumption
  <2>10. RootLength(f) = Len(s.rootKey) + 1
    BY <2>1, <2>2, <2>3 DEF RootLength
  <2>11. Announced(p, d, f)
    <3>1. d.rootKey # InitialRoot
      BY <1>1, <2>3 DEF InitialRoot
    <3>2. f.pub \in d.rootKey[Len(d.rootKey)]
      BY <2>1, <2>3
    <3>3. f.seal.key.chainKey.root = d.rootKey
      BY <2>1, <2>2
    <3>4. f.pub.owner = p /\ f.pub.gen <= d.myRatchet.gen
      BY <1>1, <2>1, <2>7
    <3> QED
      BY <2>8, <3>1, <3>2, <3>3, <3>4 DEF Announced
  <2> QED
    BY <2>1, <2>2, <2>4, <2>5, <2>6, <2>7, <1>1, <2>9, <2>10, <2>11 DEF Extends
<1> QED
  BY <1>3, <1>4

\* Sending extends the stream.
LEMMA StreamSent ==
  ASSUME NEW p, NEW s, IsChannel(s), NEW d, NEW w \in Seq(Frame), NEW f \in Frame,
         StreamOf(p, s, w), Genuine(f), f.ctr = s.sendCounter,
         d.sendCounter = s.sendCounter + 1,
         Announcing(s, d, f) \/ Continuing(s, d, f)
  PROVE  StreamOf(p, d, Append(w, f))
<1> PICK v : v = Append(w, f)
  OBVIOUS
<1> DEFINE n == Len(w) + 1
<1>1. /\ v \in Seq(Frame) /\ Len(v) = n /\ v[n] = f
      /\ \A i \in DOMAIN w : v[i] = w[i]
      /\ DOMAIN v = DOMAIN w \cup {n}
      /\ DOMAIN w = 1 .. Len(w) /\ Len(w) \in Nat
  BY AppendedAt
<1>2. /\ s.myRatchet.owner = p
      /\ IsPrefix(s.sendingChain.chainKey.root, s.rootKey)
      /\ Len(w) <= s.sendCounter
      /\ \A i \in DOMAIN w : InStream(p, s, w, i)
      /\ \A i \in Announcements(w) : Announced(p, s, w[i])
      /\ \A i \in DOMAIN w, j \in Announcements(w) : i < j => Before(w[i], w[j])
  BY StreamParts
<1>3. s.sendCounter \in Nat /\ s.rootKey \in Seq(SUBSET KeyPair)
  BY DEF IsChannel, RootKey
<1>4. Gone(d, v) = Gone(s, w)
  BY <1>1, <1>3 DEF Gone
<1>5. /\ d.myRatchet.owner = p
      /\ IsPrefix(d.sendingChain.chainKey.root, d.rootKey)
      /\ IsPrefix(f.seal.key.chainKey.root, d.rootKey)
      /\ \A r \in Seq(SUBSET KeyPair) : IsPrefix(r, s.rootKey) => IsPrefix(r, d.rootKey)
      /\ NextMessageKey(d.sendingChain)
           = MessageKey(f.seal.key.chainKey, f.seal.key.step + 1)
      /\ f.pub # NoPub => /\ Announced(p, d, f)
                          /\ RootLength(f) = Len(s.rootKey) + 1
                          /\ f.pub.gen = s.myRatchet.gen + 1
                          /\ d.myRatchet = f.pub
      /\ f.pub = NoPub => f.seal.key = NextMessageKey(s.sendingChain)
      /\ s.myRatchet.gen \in Nat /\ d.myRatchet.gen \in Nat
      /\ s.myRatchet.gen <= d.myRatchet.gen
  <2>1. Extends(p, s, d, f)
    BY <1>2, SentRoots
  <2> QED
    BY <2>1 DEF Extends
<1>6. /\ Announcements(w) \subseteq Announcements(v)
      /\ \A i \in Announcements(v) : i \in Announcements(w) \/ (i = n /\ f.pub # NoPub)
      /\ f.pub # NoPub => n \in Announcements(v)
      /\ Announcements(w) \subseteq DOMAIN w
  BY <1>1 DEF Announcements
<1>7. ASSUME NEW i \in DOMAIN v PROVE InStream(p, d, v, i)
  <2>1. CASE i \in DOMAIN w
    <3>1. InStream(p, s, w, i) /\ v[i] = w[i] /\ w[i] \in Frame /\ i \in Nat
      BY <1>1, <1>2, <2>1
    <3>2. IsPrefix(v[i].seal.key.chainKey.root, d.rootKey)
      BY <1>5, <3>1, FrameRoot DEF InStream
    <3>3. \/ i + 1 \in Announcements(v)
          \/ KeyAt(d, v, i + 1) = MessageKey(v[i].seal.key.chainKey, v[i].seal.key.step + 1)
      <4>1. CASE i + 1 \in Announcements(w)
        BY <1>6, <4>1
      <4>2. CASE i + 1 \notin Announcements(w) /\ i + 1 \in DOMAIN w
        BY <1>1, <3>1, <4>2 DEF InStream, KeyAt
      <4>3. CASE i + 1 \notin DOMAIN w
        <5>1. i + 1 = n
          BY <1>1, <2>1, <4>3
        <5>2. KeyAt(s, w, i + 1) = NextMessageKey(s.sendingChain)
          BY <4>3 DEF KeyAt
        <5>3. KeyAt(d, v, i + 1) = f.seal.key
          BY <1>1, <5>1 DEF KeyAt
        <5>4. i + 1 \notin Announcements(w)
          BY <1>6, <4>3
        <5> QED
          BY <1>5, <1>6, <3>1, <5>1, <5>2, <5>3, <5>4 DEF InStream
      <4> QED
        BY <4>1, <4>2, <4>3
    <3> QED
      BY <1>4, <3>1, <3>2, <3>3 DEF InStream
  <2>2. CASE i = n
    <3>1. KeyAt(d, v, n + 1) = NextMessageKey(d.sendingChain)
      BY <1>1 DEF KeyAt
    <3>2. f.ctr = Gone(d, v) + n - 1
      BY <1>1, <1>3, <1>4 DEF Gone
    <3> QED
      BY <1>1, <1>5, <2>2, <3>1, <3>2 DEF InStream
  <2> QED
    BY <1>1, <2>1, <2>2
<1>8. ASSUME NEW i \in Announcements(v) PROVE Announced(p, d, v[i])
  <2>1. CASE i \in Announcements(w)
    <3>1. v[i] = w[i] /\ w[i] \in Frame /\ w[i].pub # NoPub /\ Announced(p, s, w[i])
      BY <1>1, <1>2, <1>6, <2>1 DEF Announcements
    <3>2. w[i].pub.gen \in Nat
      BY <3>1, FrameRoot DEF KeyPair
    <3>3. w[i].pub.gen <= s.myRatchet.gen => w[i].pub.gen <= d.myRatchet.gen
      BY <1>5, <3>2
    <3> QED
      BY <3>1, <3>3 DEF Announced
  <2>2. CASE i = n /\ f.pub # NoPub
    BY <1>1, <1>5, <2>2
  <2> QED
    BY <1>6, <2>1, <2>2
<1>9. ASSUME NEW i \in DOMAIN v, NEW j \in Announcements(v), i < j
      PROVE  Before(v[i], v[j])
  <2>1. i \in DOMAIN w /\ v[i] = w[i] /\ w[i] \in Frame
    BY <1>1, <1>6, <1>9
  <2>2. CASE j \in Announcements(w)
    BY <1>1, <1>2, <1>6, <1>9, <2>1, <2>2
  <2>3. CASE j = n /\ f.pub # NoPub
    <3>1. IsPrefix(w[i].seal.key.chainKey.root, s.rootKey)
      BY <1>2, <2>1 DEF InStream
    <3>2. RootLength(w[i]) <= Len(s.rootKey)
      <4>1. s.rootKey \in Seq(SUBSET KeyPair)
        BY <1>3
      <4>2. w[i].seal.key.chainKey.root \in Seq(SUBSET KeyPair)
        BY <2>1, FrameRoot
      <4> QED
        BY <3>1, <4>1, <4>2, PrefixNoLonger DEF RootLength
    <3>3. w[i].pub # NoPub => w[i].pub.gen <= s.myRatchet.gen /\ w[i].pub.gen \in Nat
      <4>1. w[i].pub # NoPub => i \in Announcements(w)
        BY <2>1 DEF Announcements
      <4> QED
        BY <1>2, <2>1, <4>1, FrameRoot DEF Announced, KeyPair
    <3>4. Len(s.rootKey) \in Nat /\ RootLength(w[i]) \in Nat
      BY <1>3, <2>1, FrameRoot
    <3>5. RootLength(f) = Len(s.rootKey) + 1 /\ f.pub.gen = s.myRatchet.gen + 1
      BY <1>5, <2>3
    <3>6. s.myRatchet.gen \in Nat
      BY DEF IsChannel, KeyPair
    <3>7. Before(w[i], f)
      BY <3>2, <3>3, <3>4, <3>5, <3>6 DEF Before
    <3>8. v[j] = f /\ v[i] = w[i]
      BY <1>1, <2>1, <2>3
    <3> QED
      BY <3>7, <3>8, Zenon
  <2> QED
    BY <1>6, <2>2, <2>3
<1>10. Len(v) <= d.sendCounter
  BY <1>1, <1>2, <1>3
<1>11. StreamOf(p, d, v)
  BY <1>5, <1>7, <1>8, <1>9, <1>10, StreamParts
<1> QED
  BY <1>11

\* What is left of w, announcement by announcement.
Rest(w, v) ==
  /\ \A i \in Announcements(v) : i + 1 \in Announcements(w) /\ v[i] = w[i + 1]
  /\ \A i \in Announcements(w) : i = 1 \/ i - 1 \in Announcements(v)

\* Reading a frame leaves the rest of the stream.
LEMMA StreamRead ==
  ASSUME NEW p, NEW s, IsChannel(s), NEW w \in Seq(Frame), w # << >>, StreamOf(p, s, w)
  PROVE  /\ StreamOf(p, s, Tail(w))
         /\ Gone(s, Tail(w)) = Gone(s, w) + 1
         /\ Rest(w, Tail(w))
<1> PICK v : v = Tail(w)
  OBVIOUS
<1>1. /\ v \in Seq(Frame) /\ Len(w) > 0 /\ Len(w) \in Nat /\ Len(v) = Len(w) - 1
      /\ DOMAIN w = 1 .. Len(w) /\ DOMAIN v = 1 .. (Len(w) - 1)
      /\ \A i \in DOMAIN v : v[i] = w[i + 1] /\ i + 1 \in DOMAIN w /\ i \in Nat
  <2>1. \A i \in 1 .. (Len(w) - 1) : v[i] = w[i + 1] /\ i + 1 \in 1 .. Len(w) /\ i \in Nat
    BY TailAt
  <2> QED
    BY <2>1, TailAt
<1>2. /\ s.myRatchet.owner = p
      /\ IsPrefix(s.sendingChain.chainKey.root, s.rootKey)
      /\ Len(w) <= s.sendCounter
      /\ \A i \in DOMAIN w : InStream(p, s, w, i)
      /\ \A i \in Announcements(w) : Announced(p, s, w[i])
      /\ \A i \in DOMAIN w, j \in Announcements(w) : i < j => Before(w[i], w[j])
  BY StreamParts
<1>3. s.sendCounter \in Nat
  BY DEF IsChannel
<1>4. Gone(s, v) = Gone(s, w) + 1 /\ Gone(s, w) \in Int
  BY <1>1, <1>3 DEF Gone
<1>5. \A i \in Nat : i + 1 \in DOMAIN w => i \in DOMAIN v \/ i = 0
  BY <1>1
<1>6. /\ \A i \in Announcements(v) : i + 1 \in Announcements(w) /\ v[i] = w[i + 1] /\ i \in DOMAIN v
      /\ \A i \in Announcements(w) : i = 1 \/ i - 1 \in Announcements(v)
  <2>1. \A i \in DOMAIN w : i = 1 \/ i - 1 \in DOMAIN v
    BY <1>1
  <2> QED
    BY <1>1, <2>1 DEF Announcements
<1>7. ASSUME NEW i \in DOMAIN v PROVE InStream(p, s, v, i)
  <2>1. InStream(p, s, w, i + 1) /\ v[i] = w[i + 1] /\ i + 1 \in DOMAIN w /\ i \in Nat
    BY <1>1, <1>2
  <2>2. v[i].ctr = Gone(s, v) + i - 1
    BY <1>4, <2>1 DEF InStream
  <2>3. (i + 1) + 1 \in Announcements(w) => i + 1 \in Announcements(v)
    BY <1>6, <2>1
  <2>4. KeyAt(s, v, i + 1) = KeyAt(s, w, (i + 1) + 1)
    <3>1. (i + 1) \in DOMAIN v <=> (i + 1) + 1 \in DOMAIN w
      BY <1>1
    <3>2. i + 1 \in DOMAIN v => v[i + 1] = w[(i + 1) + 1]
      BY <1>1
    <3> QED
      BY <3>1, <3>2 DEF KeyAt
  <2> QED
    BY <2>1, <2>2, <2>3, <2>4 DEF InStream
<1>8. ASSUME NEW i \in Announcements(v) PROVE Announced(p, s, v[i])
  BY <1>2, <1>6
<1>9. ASSUME NEW i \in DOMAIN v, NEW j \in Announcements(v), i < j
      PROVE  Before(v[i], v[j])
  <2>1. i + 1 \in DOMAIN w /\ j + 1 \in Announcements(w) /\ i + 1 < j + 1
    BY <1>1, <1>6, <1>9
  <2> QED
    BY <1>1, <1>2, <1>6, <2>1
<1>10. Len(v) <= s.sendCounter
  BY <1>1, <1>2, <1>3
<1>11. StreamOf(p, s, v)
  BY <1>2, <1>7, <1>8, <1>9, <1>10, StreamParts
<1> QED
  BY <1>4, <1>6, <1>11 DEF Rest

\* A step of the peer's, which may lengthen the root, leaves the stream alone.
LEMMA StreamKept ==
  ASSUME NEW p, NEW s, IsChannel(s), NEW d, NEW w \in Seq(Frame), StreamOf(p, s, w),
         d.myRatchet = s.myRatchet, d.sendingChain = s.sendingChain,
         d.sendCounter = s.sendCounter,
         d.rootKey = s.rootKey
           \/ \E e \in SUBSET KeyPair : d.rootKey = Append(s.rootKey, e)
  PROVE  StreamOf(p, d, w)
<1>1. /\ s.rootKey \in Seq(SUBSET KeyPair)
      /\ s.sendingChain.chainKey.root \in Seq(SUBSET KeyPair)
  BY DEF IsChannel, RootKey, IsSendingChain, ChainKey
<1>2. \A r \in Seq(SUBSET KeyPair) : IsPrefix(r, s.rootKey) => IsPrefix(r, d.rootKey)
  BY <1>1, PrefixAppend
<1>3. /\ s.myRatchet.owner = p
      /\ IsPrefix(s.sendingChain.chainKey.root, s.rootKey)
      /\ Len(w) <= s.sendCounter
      /\ \A i \in DOMAIN w : InStream(p, s, w, i)
      /\ \A i \in Announcements(w) : Announced(p, s, w[i])
      /\ \A i \in DOMAIN w, j \in Announcements(w) : i < j => Before(w[i], w[j])
  BY StreamParts
<1>4. IsPrefix(d.sendingChain.chainKey.root, d.rootKey)
  BY <1>1, <1>2, <1>3
<1>5. ASSUME NEW i \in DOMAIN w PROVE InStream(p, d, w, i)
  <2>1. InStream(p, s, w, i) /\ w[i] \in Frame
    BY <1>3, FramesOf
  <2>2. IsPrefix(w[i].seal.key.chainKey.root, d.rootKey)
    BY <1>2, <2>1, FrameRoot DEF InStream
  <2> QED
    BY <2>1, <2>2 DEF InStream, Gone, KeyAt
<1>6. \A i \in Announcements(w) : Announced(p, d, w[i])
  BY <1>3 DEF Announced
<1> QED
  BY <1>3, <1>4, <1>5, <1>6, StreamParts

LEMMA KeysSent ==
  ASSUME NEW p, NEW s, NEW c, IsChannel(c), NEW w \in Seq(Frame), NEW f \in Frame,
         NEW d, KeysRead(p, s, w, c), Extends(p, s, d, f)
  PROVE  KeysRead(p, d, Append(w, f), c)
<1>1. c.peerRatchetPub.gen \in Nat
  BY DEF IsChannel, KeyPair
<1>2. /\ s.myRatchet.gen \in Nat /\ d.myRatchet.gen \in Nat
      /\ s.myRatchet.gen <= d.myRatchet.gen
      /\ f.pub # NoPub => f.pub.gen = s.myRatchet.gen + 1
  BY DEF Extends
<1>3. ASSUME NEW i \in Announcements(Append(w, f))
      PROVE  c.peerRatchetPub.gen < Append(w, f)[i].pub.gen
  <2>1. CASE i \in DOMAIN w
    <3>1. Append(w, f)[i] = w[i] /\ i \in Announcements(w)
      BY <2>1, AppendedAt DEF Announcements
    <3> QED
      BY <3>1 DEF KeysRead
  <2>2. CASE i \notin DOMAIN w
    <3>1. Append(w, f)[i] = f /\ f.pub # NoPub
      BY <2>2, AppendedAt DEF Announcements
    <3> QED
      BY <1>1, <1>2, <3>1 DEF KeysRead
  <2> QED
    BY <2>1, <2>2
<1>4. c.peerRatchetPub.owner = p /\ c.peerRatchetPub.gen <= s.myRatchet.gen
  BY DEF KeysRead
<1>5. c.peerRatchetPub.gen <= d.myRatchet.gen
  BY <1>1, <1>2, <1>4
<1> QED
  BY <1>3, <1>4, <1>5 DEF KeysRead

LEMMA KeysOn ==
  ASSUME NEW p, NEW s, IsChannel(s), NEW c, NEW d, NEW w \in Seq(Frame), w # << >>,
         StreamOf(p, s, w), KeysRead(p, s, w, c),
         \/ d.peerRatchetPub = c.peerRatchetPub
         \/ w[1].pub # NoPub /\ d.peerRatchetPub = w[1].pub
  PROVE  KeysRead(p, s, Tail(w), d)
<1>1. /\ \A i \in Announcements(Tail(w)) : i + 1 \in Announcements(w) /\ Tail(w)[i] = w[i + 1]
      /\ Announcements(Tail(w)) \subseteq Nat \ {0}
      /\ 1 \in DOMAIN w
  <2>1. Tail(w) \in Seq(Frame) /\ 1 \in DOMAIN w
    BY TailAt
  <2>2. Announcements(Tail(w)) \subseteq Nat \ {0}
    BY <2>1 DEF Announcements
  <2>3. Rest(w, Tail(w))
    BY StreamRead
  <2> QED
    BY <2>1, <2>2, <2>3 DEF Rest
<1>2. CASE d.peerRatchetPub = c.peerRatchetPub
  BY <1>1, <1>2 DEF KeysRead
<1>3. CASE w[1].pub # NoPub /\ d.peerRatchetPub = w[1].pub
  <2>1. 1 \in Announcements(w)
    BY <1>1, <1>3 DEF Announcements
  <2>2. Announced(p, s, w[1])
    BY <2>1, StreamParts
  <2>3. ASSUME NEW i \in Announcements(Tail(w)) PROVE w[1].pub.gen < Tail(w)[i].pub.gen
    <3>1. i + 1 \in Announcements(w) /\ 1 < i + 1 /\ Tail(w)[i] = w[i + 1]
      <4>1. i \in Nat \ {0}
        BY <1>1
      <4>2. 1 < i + 1
        BY <4>1
      <4> QED
        BY <1>1, <4>2
    <3>2. Before(w[1], w[i + 1])
      BY <1>1, <3>1, StreamParts
    <3> QED
      BY <1>3, <3>1, <3>2 DEF Before
  <2> QED
    BY <1>3, <2>2, <2>3 DEF Announced, KeysRead
<1> QED
  BY <1>2, <1>3

-----------------------------------------------------------------------------
(* Streams is kept.                                                        *)

LEMMA SendStreams ==
  ASSUME TypeOK, Streams, NEW p \in Party, NEW timeDue \in BOOLEAN, Send(p, timeDue)
  PROVE  Streams'
<1> PICK f : f = Sealed(channel[p], timeDue)
  OBVIOUS
<1> PICK q : q = Other(p)
  OBVIOUS
<1>1. /\ channel'[q] = channel[q]
      /\ wire'[q] = Append(wire[q], f)
      /\ wire'[p] = wire[p]
      /\ channel'[p].sendCounter = channel[p].sendCounter + 1
      /\ f \in Frame /\ Genuine(f)
      /\ f.ctr = channel[p].sendCounter
      /\ \/ Announcing(channel[p], channel'[p], f)
         \/ Continuing(channel[p], channel'[p], f)
  BY SendEffect
<1>2. /\ q \in Party /\ q # p /\ Other(q) = p
      /\ \A r \in Party : r = p \/ r = q
  BY TwoParties DEF Party
<1>3. /\ IsChannel(channel[p]) /\ IsChannel(channel[q])
      /\ wire[p] \in Seq(Frame) /\ wire[q] \in Seq(Frame)
  BY <1>2, LinkTypes
<1>4. /\ StreamOf(p, channel[p], wire[q]) /\ KeysRead(p, channel[p], wire[q], channel[q])
      /\ StreamOf(q, channel[q], wire[p]) /\ KeysRead(q, channel[q], wire[p], channel[p])
  BY <1>2 DEF Streams
<1>5. Extends(p, channel[p], channel'[p], f)
  BY <1>1, <1>3, <1>4, SentRoots, StreamParts
<1>6. StreamOf(p, channel'[p], wire'[q])
  BY <1>1, <1>3, <1>4, StreamSent
<1>7. KeysRead(p, channel'[p], wire'[q], channel'[q])
  BY <1>1, <1>3, <1>4, <1>5, KeysSent
<1>8. StreamOf(q, channel'[q], wire'[p])
  BY <1>1, <1>4
<1>9. KeysRead(q, channel'[q], wire'[p], channel'[p])
  <2>1. channel'[p].peerRatchetPub = channel[p].peerRatchetPub
    BY <1>1 DEF Announcing, Continuing
  <2> QED
    BY <1>1, <1>4, <2>1 DEF KeysRead
<1> QED
  BY <1>2, <1>6, <1>7, <1>8, <1>9 DEF Streams

\* Reading a frame leaves the reader's own stream alone.
ReaderKeeps(c, d, f) ==
  /\ d.myRatchet = c.myRatchet
  /\ d.sendingChain = c.sendingChain
  /\ d.sendCounter = c.sendCounter
  /\ \/ d.rootKey = c.rootKey /\ d.peerRatchetPub = c.peerRatchetPub
     \/ /\ f.pub # NoPub /\ f.pub \in KeyPair
        /\ d.rootKey = Append(c.rootKey, {c.myRatchet, f.pub})
        /\ d.peerRatchetPub = f.pub

LEMMA ReadKeeps ==
  ASSUME TypeOK, NEW p \in Party, Accept(p) \/ Reject(p)
  PROVE  ReaderKeeps(channel[p], channel'[p], wire[p][1])
<1> PICK f : f = Arriving(p)
  OBVIOUS
<1>1. /\ f = wire[p][1] /\ IsChannel(channel[p]) /\ IsFrame(f) /\ f \in Frame
      /\ Accept(p) => Accepts(channel[p], f) /\ channel'[p] = AfterAccept(channel[p], f)
      /\ Reject(p) => \/ channel'[p] = channel[p]
                      \/ /\ HasChain(channel[p], f)
                         /\ channel'[p] = AfterKeyDerivation(channel[p], f)
  BY ReadEffect
<1>2. Accepts(channel[p], f) => HasChain(channel[p], f)
  BY DEF Accepts, Derives
<1>3. CASE ~Rekeys(channel[p], f)
  <2>1. channel'[p] = channel[p] \/ Stepping(channel[p], channel'[p], f)
    BY <1>1, <1>2, <1>3, DecryptSteps
  <2> QED
    BY <1>1, <2>1 DEF Stepping, SameKeys, ReaderKeeps
<1>4. CASE Rekeys(channel[p], f)
  <2>1. AfterKeyDerivation(channel[p], f) = channel[p]
    BY <1>4 DEF AfterKeyDerivation
  <2>2. channel'[p] = channel[p] \/ Committing(channel[p], channel'[p], f)
    BY <1>1, <1>4, <2>1, DecryptCommits
  <2>3. f.pub # NoPub /\ f.pub \in KeyPair
    BY <1>1, <1>4, FrameRoot DEF Rekeys
  <2> QED
    BY <1>1, <2>2, <2>3 DEF Committing, ReaderKeeps
<1> QED
  BY <1>3, <1>4

LEMMA ReadStreams ==
  ASSUME TypeOK, Streams, NEW p \in Party, Accept(p) \/ Reject(p)
  PROVE  Streams'
<1> PICK q : q = Other(p)
  OBVIOUS
<1> PICK f : f = Arriving(p)
  OBVIOUS
<1>1. /\ wire[p] # << >> /\ f = wire[p][1]
      /\ channel'[q] = channel[q]
      /\ wire'[p] = Tail(wire[p])
      /\ wire'[q] = wire[q]
  BY ReadEffect
<1>2. /\ q \in Party /\ q # p /\ Other(q) = p
      /\ \A r \in Party : r = p \/ r = q
  BY TwoParties DEF Party
<1>3. /\ IsChannel(channel[p]) /\ IsChannel(channel[q])
      /\ wire[p] \in Seq(Frame) /\ wire[q] \in Seq(Frame)
  BY <1>2, LinkTypes
<1>4. /\ StreamOf(p, channel[p], wire[q]) /\ KeysRead(p, channel[p], wire[q], channel[q])
      /\ StreamOf(q, channel[q], wire[p]) /\ KeysRead(q, channel[q], wire[p], channel[p])
  BY <1>2 DEF Streams
<1>5. ReaderKeeps(channel[p], channel'[p], f)
  BY <1>1, ReadKeeps
<1>6. StreamOf(p, channel'[p], wire'[q])
  <2>1. channel[p].myRatchet \in KeyPair
    BY <1>3 DEF IsChannel
  <2>2. f.pub \in KeyPair => {channel[p].myRatchet, f.pub} \in SUBSET KeyPair
    BY <2>1
  <2>3. \/ channel'[p].rootKey = channel[p].rootKey
        \/ \E e \in SUBSET KeyPair : channel'[p].rootKey = Append(channel[p].rootKey, e)
    BY <1>5, <2>2 DEF ReaderKeeps
  <2>4. /\ channel'[p].myRatchet = channel[p].myRatchet
        /\ channel'[p].sendingChain = channel[p].sendingChain
        /\ channel'[p].sendCounter = channel[p].sendCounter
    BY <1>5 DEF ReaderKeeps
  <2> QED
    BY <1>1, <1>3, <1>4, <2>3, <2>4, StreamKept
<1>7. KeysRead(p, channel'[p], wire'[q], channel'[q])
  BY <1>1, <1>4, <1>5 DEF KeysRead, ReaderKeeps
<1>8. StreamOf(q, channel'[q], wire'[p])
  BY <1>1, <1>3, <1>4, StreamRead
<1>9. KeysRead(q, channel'[q], wire'[p], channel'[p])
  BY <1>1, <1>3, <1>4, <1>5, KeysOn DEF ReaderKeeps
<1> QED
  BY <1>2, <1>6, <1>7, <1>8, <1>9 DEF Streams

-----------------------------------------------------------------------------
(* A frame that comes in order opens.                                      *)

\* The newest chain of c, as Following needs it.
NewestChain(c, k) == k \in DOMAIN c.recvChains /\ \A j \in DOMAIN c.recvChains : j <= k

LEMMA StepInOrder ==
  ASSUME NEW rc, IsReceivingChain(rc), rc.skipped = {}
  PROVE  /\ Derivable(rc, rc.nextCounter)
         /\ AfterKeyFor(rc, rc.nextCounter).chainKey = rc.chainKey
         /\ AfterKeyFor(rc, rc.nextCounter).nextCounter = rc.nextCounter + 1
         /\ AfterKeyFor(rc, rc.nextCounter).skipped = {}
<1> PICK n : n = rc.nextCounter
  OBVIOUS
<1>1. n \in Nat
  BY DEF IsReceivingChain
<1>2. Derivable(rc, n)
  BY <1>1, MaxSkipAssumption DEF Derivable, Desynced
<1>3. n .. (n - 1) = {}
  BY <1>1
<1>4. EvictExcessSkipped(rc.skipped \cup (rc.nextCounter .. (n - 1))) = {}
  BY <1>3 DEF EvictExcessSkipped, Newest
<1>5. AfterKeyFor(rc, n) = [rc EXCEPT !.nextCounter = n + 1, !.skipped = {}]
  BY <1>4 DEF AfterKeyFor
<1> QED
  BY <1>2, <1>5 DEF IsReceivingChain

LEMMA OpensNext ==
  ASSUME NEW c, IsChannel(c), NEW f \in Frame, Genuine(f), f.pub = NoPub,
         NEW k, NewestChain(c, k), c.recvChains[k].skipped = {},
         f.ctr = k + c.recvChains[k].nextCounter, c.window.highest = f.ctr - 1,
         f.seal.key = MessageKey(c.recvChains[k].chainKey, c.recvChains[k].nextCounter)
  PROVE  /\ Accepts(c, f) /\ ~Rekeys(c, f) /\ ChainStart(c, f) = k
         /\ SteppedChain(c, f).chainKey = c.recvChains[k].chainKey
         /\ SteppedChain(c, f).nextCounter = c.recvChains[k].nextCounter + 1
         /\ SteppedChain(c, f).skipped = {}
<1>1. IsFrame(f) /\ f.ctr \in Nat
  BY FrameFields DEF IsFrame
<1> PICK rc : rc = c.recvChains[k]
  OBVIOUS
<1>2. /\ k \in DOMAIN c.recvChains /\ k \in Nat
      /\ IsReceivingChain(rc) /\ rc.nextCounter \in Nat
  BY DEF NewestChain, IsChannel, IsReceivingChain
<1>3. ~Rekeys(c, f)
  BY DEF Rekeys
<1>4. k \in StartsUpTo(c, f.ctr) /\ HasChain(c, f)
  BY <1>1, <1>2 DEF StartsUpTo, HasChain
<1>5. ChainStart(c, f) = k
  <2>1. /\ StartsUpTo(c, f.ctr) \in SUBSET Nat
        /\ \A j \in StartsUpTo(c, f.ctr) : j <= f.ctr /\ j <= k
    BY DEF StartsUpTo, IsChannel, NewestChain
  <2>2. /\ Max(StartsUpTo(c, f.ctr)) \in StartsUpTo(c, f.ctr)
        /\ \A j \in StartsUpTo(c, f.ctr) : j <= Max(StartsUpTo(c, f.ctr))
    BY <1>1, <1>4, <2>1, MaxOfBounded
  <2> QED
    BY <1>2, <1>4, <2>1, <2>2 DEF ChainStart
<1>6. ChainFor(c, f) = rc /\ LocalCounter(c, f) = rc.nextCounter
  BY <1>1, <1>2, <1>3, <1>5 DEF ChainFor, LocalCounter
<1>7. /\ Derivable(rc, rc.nextCounter)
      /\ SteppedChain(c, f).chainKey = rc.chainKey
      /\ SteppedChain(c, f).nextCounter = rc.nextCounter + 1
      /\ SteppedChain(c, f).skipped = {}
  BY <1>2, <1>6, StepInOrder DEF SteppedChain
<1>8. Fresh(c.window, f.ctr)
  BY <1>1 DEF Fresh
<1>9. Accepts(c, f)
  BY <1>4, <1>6, <1>7, <1>8 DEF Accepts, Derives, KeyMatches, Opens
<1> QED
  BY <1>3, <1>5, <1>7, <1>9

LEMMA OpensAnnouncement ==
  ASSUME NEW c, IsChannel(c), NEW f \in Frame, Genuine(f), Rekeys(c, f),
         c.window.highest = f.ctr - 1,
         f.seal.key = MessageKey(ChainKeyOf(Append(c.rootKey, {c.myRatchet, f.pub})), 0)
  PROVE  Accepts(c, f)
<1>1. IsFrame(f) /\ f.ctr \in Nat
  BY FrameFields DEF IsFrame
<1>2. /\ Fresh(c.window, f.ctr) /\ HasChain(c, f)
  BY <1>1 DEF Fresh, HasChain
<1>3. ChainFor(c, f) = NewReceivingChain(ChainKeyOf(Append(c.rootKey, {c.myRatchet, f.pub})))
  BY DEF ChainFor, CandidateChain, CandidateRoot, RootAfter, DH
<1>4. ChainFor(c, f).chainKey = ChainKeyOf(Append(c.rootKey, {c.myRatchet, f.pub}))
  BY <1>3 DEF NewReceivingChain
<1>5. Derivable(ChainFor(c, f), 0)
  BY <1>3, MaxSkipAssumption DEF NewReceivingChain, Derivable, Desynced
<1> QED
  BY <1>2, <1>4, <1>5 DEF Accepts, Derives, KeyMatches, Opens, LocalCounter

\* The chain of an announcement that came in order is kept.
LEMMA CommitNewest ==
  ASSUME NEW c, IsChannel(c), NEW f \in Frame,
         \A j \in DOMAIN c.recvChains : j <= f.ctr
  PROVE  /\ f.ctr \in DOMAIN RetainedChains(c, f)
         /\ \A j \in DOMAIN RetainedChains(c, f) : j <= f.ctr
<1>1. f.ctr \in Nat
  BY FrameRoot
<1> DEFINE S == DOMAIN c.recvChains \cup {f.ctr}
<1>2. {j \in S : j > f.ctr} = {}
  BY <1>1 DEF IsChannel
<1>3. Cardinality({j \in S : j > f.ctr}) < MaxRetainedChains
  BY <1>2, FS_EmptySet, RetainedAssumption
<1> QED
  BY <1>1, <1>3 DEF RetainedChains, Newest, IsChannel

-----------------------------------------------------------------------------
(* The reader's place in the stream.                                       *)

\* What Following says of the newest chain.
InPlace(c, s, w, k) ==
  /\ NewestChain(c, k)
  /\ c.recvChains[k].skipped = {}
  /\ k + c.recvChains[k].nextCounter = Gone(s, w)
  /\ 1 \in Announcements(w)
       \/ KeyAt(s, w, 1) = MessageKey(c.recvChains[k].chainKey, c.recvChains[k].nextCounter)

LEMMA FollowingParts ==
  ASSUME NEW c, NEW s, NEW w
  PROVE  Following(c, s, w) <=>
           /\ c.window.highest = Gone(s, w) - 1
           /\ \E k \in DOMAIN c.recvChains : InPlace(c, s, w, k)
           /\ \/ s.myRatchet = c.peerRatchetPub
              \/ \E i \in Announcements(w) : w[i].pub = s.myRatchet
BY DEF Following, InPlace, NewestChain

\* The root of an announcement is the next one of its reader.
Adoptable(c, f) ==
  f.pub # NoPub =>
    f.seal.key.chainKey.root = Append(c.rootKey, {c.myRatchet, f.pub})

\* An announcement that is not in front is still there afterwards.
LEMMA RestAnnounces ==
  ASSUME NEW w \in Seq(Frame), NEW v, Rest(w, v), NEW i \in Announcements(w), i # 1
  PROVE  \E j \in Announcements(v) : v[j] = w[i]
<1>1. i \in Nat
  BY FramesOf
<1>2. i - 1 \in Announcements(v)
  BY DEF Rest
<1>3. v[i - 1] = w[(i - 1) + 1]
  BY <1>2 DEF Rest
<1>4. (i - 1) + 1 = i
  BY <1>1
<1> QED
  BY <1>2, <1>3, <1>4

\* w announces e.
Shows(w, e) == \E i \in Announcements(w) : w[i].pub = e

LEMMA RestShows ==
  ASSUME NEW w \in Seq(Frame), NEW v, Rest(w, v), NEW e, Shows(w, e),
         1 \notin Announcements(w) \/ w[1].pub # e
  PROVE  Shows(v, e)
<1>1. PICK i \in Announcements(w) : w[i].pub = e
  BY DEF Shows
<1>2. i # 1
  BY <1>1
<1>3. PICK j \in Announcements(v) : v[j] = w[i]
  BY <1>2, RestAnnounces
<1> QED
  BY <1>1, <1>3 DEF Shows

LEMMA AcceptHighest ==
  ASSUME NEW c, IsChannel(c), NEW f, IsFrame(f), Accepts(c, f), f.ctr \in Nat,
         c.window.highest = f.ctr - 1
  PROVE  AfterAccept(c, f).window.highest = f.ctr
<1>1. AfterAccept(c, f).window = MarkSeen(c.window, f.ctr)
  BY AcceptType
<1>2. MarkSeen(c.window, f.ctr).highest = f.ctr
  BY DEF MarkSeen
<1> QED
  BY <1>1, <1>2

LEMMA HeadOpens ==
  ASSUME NEW p, NEW s, IsChannel(s), NEW c, IsChannel(c), NEW w \in Seq(Frame), w # << >>,
         StreamOf(p, s, w), KeysRead(p, s, w, c), Following(c, s, w), Adoptable(c, w[1])
  PROVE  /\ Accepts(c, w[1])
         /\ Rekeys(c, w[1]) <=> w[1].pub # NoPub
         /\ Following(AfterAccept(c, w[1]), s, Tail(w))
<1> PICK f : f = w[1]
  OBVIOUS
<1> PICK d : d = AfterAccept(c, f)
  OBVIOUS
<1> PICK v : v = Tail(w)
  OBVIOUS
<1>1. /\ f \in Frame /\ IsFrame(f) /\ f.ctr \in Nat /\ 1 \in DOMAIN w
      /\ v \in Seq(Frame)
      /\ 1 \in Announcements(w) <=> f.pub # NoPub
  <2>1. v \in Seq(Frame) /\ 1 \in DOMAIN w
    BY TailAt
  <2> QED
    BY <2>1, FramesOf, FrameFields, FrameRoot DEF Announcements
<1>2. /\ Genuine(f) /\ f.ctr = Gone(s, w)
      /\ \/ 2 \in Announcements(w)
         \/ KeyAt(s, w, 2) = MessageKey(f.seal.key.chainKey, f.seal.key.step + 1)
  <2>1. InStream(p, s, w, 1)
    BY <1>1, StreamParts
  <2>2. Gone(s, w) \in Int
    BY FramesOf DEF Gone, IsChannel
  <2>3. 1 + 1 = 2
    OBVIOUS
  <2> QED
    BY <2>1, <2>2, <2>3 DEF InStream
<1>3. Gone(s, v) = Gone(s, w) + 1 /\ Rest(w, v)
  BY StreamRead
<1>4. 1 \in Announcements(v) \/ KeyAt(s, v, 1) = MessageKey(f.seal.key.chainKey, f.seal.key.step + 1)
  <2>1. 2 \in Announcements(w) => 1 \in Announcements(v)
    <3>1. 2 \in Announcements(w) => 2 = 1 \/ 2 - 1 \in Announcements(v)
      BY <1>3, Zenon DEF Rest
    <3> QED
      BY <3>1
  <2>2. KeyAt(s, v, 1) = KeyAt(s, w, 2)
    <3>1. Len(w) \in Nat /\ Len(w) > 0 /\ DOMAIN w = 1 .. Len(w) /\ DOMAIN v = 1 .. (Len(w) - 1)
      BY TailAt
    <3>2. 1 \in DOMAIN v <=> 2 \in DOMAIN w
      BY <3>1
    <3>3. 1 \in DOMAIN v => v[1] = w[1 + 1]
      BY <3>1, TailAt
    <3> QED
      BY <3>2, <3>3 DEF KeyAt
  <2> QED
    BY <1>2, <2>1, <2>2
<1>5. /\ c.window.highest = f.ctr - 1
      /\ \E k \in DOMAIN c.recvChains : InPlace(c, s, w, k)
      /\ \/ s.myRatchet = c.peerRatchetPub
         \/ \E i \in Announcements(w) : w[i].pub = s.myRatchet
  BY <1>2, FollowingParts
<1> PICK k \in DOMAIN c.recvChains : InPlace(c, s, w, k)
  BY <1>5
<1>6. /\ k \in Nat /\ c.recvChains[k].nextCounter \in Nat /\ NewestChain(c, k)
      /\ c.recvChains[k].skipped = {}
      /\ k + c.recvChains[k].nextCounter = f.ctr
  BY <1>2 DEF InPlace, IsChannel, IsReceivingChain
<1>7. f.pub # NoPub => /\ Rekeys(c, f)
                       /\ f.pub.gen <= s.myRatchet.gen
                       /\ c.peerRatchetPub.gen < f.pub.gen
  <2>1. HAVE f.pub # NoPub
  <2>2. Announced(p, s, f) /\ c.peerRatchetPub.gen < f.pub.gen
    BY <1>1, <2>1, StreamParts DEF KeysRead
  <2>3. f.pub.gen \in Nat /\ c.peerRatchetPub.gen \in Nat
    BY <1>1, <2>1, FrameRoot DEF IsChannel, KeyPair
  <2>4. f.pub # c.peerRatchetPub
    BY <2>2, <2>3
  <2> QED
    BY <2>1, <2>2, <2>4 DEF Rekeys, Announced
<1>8. Accepts(c, f) => d.window.highest = f.ctr
  BY <1>1, <1>5, AcceptHighest, SMT
<1>9. CASE f.pub = NoPub
  <2>1. f.seal.key = MessageKey(c.recvChains[k].chainKey, c.recvChains[k].nextCounter)
    BY <1>1, <1>9 DEF InPlace, KeyAt
  <2>2. /\ Accepts(c, f) /\ ~Rekeys(c, f) /\ ChainStart(c, f) = k
        /\ SteppedChain(c, f).chainKey = c.recvChains[k].chainKey
        /\ SteppedChain(c, f).nextCounter = c.recvChains[k].nextCounter + 1
        /\ SteppedChain(c, f).skipped = {}
    <3>1. f.ctr = k + c.recvChains[k].nextCounter
      BY <1>6
    <3>2. f \in Frame /\ Genuine(f) /\ c.window.highest = f.ctr - 1
      BY <1>1, <1>2, <1>5
    <3>3. NewestChain(c, k) /\ c.recvChains[k].skipped = {}
      BY <1>6
    <3> QED
      BY <1>9, <2>1, <3>1, <3>2, <3>3, OpensNext, Zenon
  <2>3. Stepping(c, d, f)
    BY <1>1, <2>2, DecryptSteps DEF Accepts, Derives
  <2>4. /\ DOMAIN d.recvChains = DOMAIN c.recvChains
        /\ d.recvChains[k] = SteppedChain(c, f)
        /\ d.peerRatchetPub = c.peerRatchetPub
    BY <2>2, <2>3 DEF Stepping, SameKeys
  <2>5. InPlace(d, s, v, k)
    <3>1. NewestChain(d, k)
      BY <1>6, <2>4 DEF NewestChain
    <3>2. k + (c.recvChains[k].nextCounter + 1) = Gone(s, v)
      BY <1>2, <1>3, <1>6
    <3>3. /\ f.seal.key.chainKey = c.recvChains[k].chainKey
          /\ f.seal.key.step = c.recvChains[k].nextCounter
      BY <2>1 DEF MessageKey
    <3> QED
      BY <1>4, <2>2, <2>4, <3>1, <3>2, <3>3 DEF InPlace
  <2>6. \/ s.myRatchet = d.peerRatchetPub
        \/ \E i \in Announcements(v) : v[i].pub = s.myRatchet
    <3>1. 1 \notin Announcements(w)
      BY <1>1, <1>9
    <3>2. Shows(w, s.myRatchet) => Shows(v, s.myRatchet)
      BY <1>3, <3>1, RestShows, Zenon
    <3> QED
      BY <1>5, <2>4, <3>2, Zenon DEF Shows
  <2>7. d.window.highest = Gone(s, v) - 1
    BY <1>1, <1>2, <1>3, <1>8, <2>2
  <2>8. Following(d, s, v)
    BY <2>4, <2>5, <2>6, <2>7, FollowingParts
  <2> QED
    BY <1>9, <2>2, <2>8
<1>10. CASE f.pub # NoPub
  <2>1. Rekeys(c, f) /\ Announced(p, s, f)
    BY <1>1, <1>7, <1>10, StreamParts
  <2>2. f.seal.key = MessageKey(ChainKeyOf(Append(c.rootKey, {c.myRatchet, f.pub})), 0)
    BY <1>10, <2>1 DEF Announced, Adoptable
  <2>3. Accepts(c, f)
    BY <1>1, <1>2, <1>5, <2>1, <2>2, OpensAnnouncement
  <2>4. Committing(c, d, f)
    BY <1>1, <2>1, DecryptCommits
  <2>5. \A j \in DOMAIN c.recvChains : j <= f.ctr
    <3>1. \A j \in DOMAIN c.recvChains : j \in Nat /\ j <= k
      BY <1>6 DEF NewestChain, IsChannel
    <3> QED
      BY <1>1, <1>6, <3>1
  <2>6. f.ctr \in DOMAIN d.recvChains /\ \A j \in DOMAIN d.recvChains : j <= f.ctr
    BY <1>1, <2>4, <2>5, CommitNewest DEF Committing
  <2>7. /\ d.recvChains[f.ctr].chainKey = ChainKeyOf(d.rootKey)
        /\ d.recvChains[f.ctr].nextCounter = 1
        /\ d.recvChains[f.ctr].skipped = {}
    BY <1>1, <2>1, <2>4, <2>6, CommitChains
  <2>8. InPlace(d, s, v, f.ctr)
    <3>1. NewestChain(d, f.ctr)
      BY <2>6 DEF NewestChain
    <3>2. f.ctr + 1 = Gone(s, v)
      BY <1>2, <1>3
    <3>3. f.seal.key.chainKey = ChainKeyOf(d.rootKey) /\ f.seal.key.step = 0
      BY <2>2, <2>4 DEF MessageKey, Committing
    <3>4. f.seal.key.step + 1 = 1
      BY <3>3
    <3> QED
      BY <1>4, <2>7, <3>1, <3>2, <3>3, <3>4 DEF InPlace
  <2>9. \/ s.myRatchet = d.peerRatchetPub
        \/ \E i \in Announcements(v) : v[i].pub = s.myRatchet
    <3>1. d.peerRatchetPub = f.pub
      BY <2>4 DEF Committing
    <3>2. s.myRatchet # c.peerRatchetPub
      <4>1. s.myRatchet.gen \in Nat /\ c.peerRatchetPub.gen \in Nat /\ f.pub.gen \in Nat
        BY <1>1, <1>10, FrameRoot DEF IsChannel, KeyPair
      <4> QED
        BY <1>7, <1>10, <4>1
    <3>3. Shows(w, s.myRatchet) /\ f.pub # s.myRatchet => Shows(v, s.myRatchet)
      BY <1>3, RestShows, Zenon
    <3> QED
      BY <1>5, <3>1, <3>2, <3>3, Zenon DEF Shows
  <2>10. d.window.highest = Gone(s, v) - 1
    BY <1>1, <1>2, <1>3, <1>8, <2>3
  <2>11. Following(d, s, v)
    BY <2>6, <2>8, <2>9, <2>10, FollowingParts
  <2> QED
    BY <1>10, <2>1, <2>3, <2>11
<1> QED
  BY <1>9, <1>10

LEMMA FollowingSent ==
  ASSUME NEW p, NEW s, IsChannel(s), NEW d, NEW c, NEW w \in Seq(Frame), NEW f \in Frame,
         Following(c, s, w), Extends(p, s, d, f), d.sendCounter = s.sendCounter + 1,
         Announcing(s, d, f) \/ Continuing(s, d, f)
  PROVE  Following(c, d, Append(w, f))
<1> PICK v : v = Append(w, f)
  OBVIOUS
<1> DEFINE n == Len(w) + 1
<1>1. /\ v \in Seq(Frame) /\ Len(v) = n /\ v[n] = f
      /\ \A i \in DOMAIN w : v[i] = w[i]
      /\ DOMAIN v = DOMAIN w \cup {n}
      /\ DOMAIN w = 1 .. Len(w) /\ Len(w) \in Nat
  BY AppendedAt
<1>2. Gone(d, v) = Gone(s, w)
  BY <1>1 DEF Gone, IsChannel
<1>3. /\ Announcements(w) \subseteq Announcements(v)
      /\ f.pub # NoPub => n \in Announcements(v)
      /\ \A i \in Announcements(w) : i \in DOMAIN w
  BY <1>1 DEF Announcements
<1>4. 1 \in Announcements(v) \/ KeyAt(d, v, 1) = KeyAt(s, w, 1)
  <2>1. CASE 1 \in DOMAIN w
    BY <1>1, <2>1 DEF KeyAt
  <2>2. CASE 1 \notin DOMAIN w
    <3>1. n = 1
      BY <1>1, <2>2
    <3>2. KeyAt(s, w, 1) = NextMessageKey(s.sendingChain)
      BY <2>2 DEF KeyAt
    <3>3. KeyAt(d, v, 1) = f.seal.key
      BY <1>1, <3>1 DEF KeyAt
    <3>4. f.pub = NoPub => f.seal.key = NextMessageKey(s.sendingChain)
      BY DEF Extends
    <3> QED
      BY <1>3, <3>1, <3>2, <3>3, <3>4
  <2> QED
    BY <2>1, <2>2
<1>5. 1 \in Announcements(w) => 1 \in Announcements(v)
  BY <1>3
<1>6. /\ c.window.highest = Gone(s, w) - 1
      /\ \E k \in DOMAIN c.recvChains : InPlace(c, s, w, k)
      /\ \/ s.myRatchet = c.peerRatchetPub
         \/ \E i \in Announcements(w) : w[i].pub = s.myRatchet
  BY FollowingParts
<1>7. \E k \in DOMAIN c.recvChains : InPlace(c, d, v, k)
  BY <1>2, <1>4, <1>5, <1>6 DEF InPlace
<1>8. \/ d.myRatchet = c.peerRatchetPub
      \/ \E i \in Announcements(v) : v[i].pub = d.myRatchet
  <2>1. CASE f.pub # NoPub
    <3>1. d.myRatchet = f.pub
      BY <2>1 DEF Extends
    <3> QED
      BY <1>1, <1>3, <2>1, <3>1
  <2>2. CASE f.pub = NoPub
    <3>1. d.myRatchet = s.myRatchet
      BY <2>2, NoPubAssumption DEF Announcing, Continuing
    <3> QED
      BY <1>1, <1>3, <1>6, <3>1
  <2> QED
    BY <2>1, <2>2
<1>9. Following(c, d, v)
  BY <1>2, <1>6, <1>7, <1>8, FollowingParts
<1> QED
  BY <1>9

\* Following looks at no more of the two ends than this.
LEMMA FollowingKept ==
  ASSUME NEW s, NEW t, NEW c, NEW d, NEW w, Following(c, s, w),
         t.sendCounter = s.sendCounter, t.sendingChain = s.sendingChain,
         t.myRatchet = s.myRatchet, d.window = c.window, d.recvChains = c.recvChains,
         d.peerRatchetPub = c.peerRatchetPub
  PROVE  Following(d, t, w)
BY DEF Following, Gone, KeyAt

-----------------------------------------------------------------------------
(* The two roots.                                                          *)

Apart(r, t) == ~IsPrefix(r, t) /\ ~IsPrefix(t, r)

LEMMA ForkedByParty ==
  ASSUME NEW p \in Party
  PROVE  Forked <=> Apart(channel[p].rootKey, channel[Other(p)].rootKey)
BY PartyAssumption DEF Forked, Apart, Party, Other

LEMMA ForkedByPartyNext ==
  ASSUME NEW p \in Party
  PROVE  Forked' <=> Apart(channel'[p].rootKey, channel'[Other(p)].rootKey)
BY PartyAssumption DEF Forked, Apart, Party, Other

LEMMA ApartAppend ==
  ASSUME NEW S, NEW r \in Seq(S), NEW t \in Seq(S), NEW e \in S, Apart(r, t)
  PROVE  Apart(Append(r, e), t)
<1> PICK u : u = Append(r, e)
  OBVIOUS
<1>1. /\ u \in Seq(S) /\ Len(u) = Len(r) + 1 /\ Len(r) \in Nat /\ Len(t) \in Nat
      /\ \A i \in 1 .. Len(r) : u[i] = r[i]
  BY AppendedAt
<1>2. ~Begins(r, t) /\ ~Begins(t, r)
  BY PrefixBegins DEF Apart
<1>3. ~Begins(u, t)
  BY <1>1, <1>2 DEF Begins
<1>4. ~Begins(t, u)
  <2>1. CASE Len(t) <= Len(r)
    BY <1>1, <1>2, <2>1 DEF Begins
  <2>2. CASE Len(t) > Len(r)
    BY <1>1, <1>2, <2>2 DEF Begins
  <2> QED
    BY <1>1, <2>1, <2>2
<1> QED
  BY <1>1, <1>3, <1>4, PrefixBegins DEF Apart

\* Ahead looks at no more of the two ends than this.
LEMMA AheadKept ==
  ASSUME NEW p, NEW s, NEW t, NEW w, NEW c, NEW d, Ahead(p, s, w, c),
         t.rootKey = s.rootKey, t.myRatchet = s.myRatchet,
         d.rootKey = c.rootKey, d.myRatchet = c.myRatchet
  PROVE  Ahead(p, t, w, d)
BY DEF Ahead

LEMMA AheadContinued ==
  ASSUME NEW p, NEW s, NEW w \in Seq(Frame), NEW c, NEW d, NEW f \in Frame,
         Ahead(p, s, w, c), Continuing(s, d, f)
  PROVE  /\ Ahead(p, d, Append(w, f), c)
         /\ Announcements(Append(w, f)) = Announcements(w)
<1> PICK v : v = Append(w, f)
  OBVIOUS
<1>1. d.rootKey = s.rootKey /\ d.myRatchet = s.myRatchet /\ f.pub = NoPub
  BY DEF Continuing
<1>2. /\ \A i \in DOMAIN w : v[i] = w[i]
      /\ v[Len(w) + 1] = f /\ DOMAIN v = DOMAIN w \cup {Len(w) + 1}
      /\ DOMAIN w = 1 .. Len(w) /\ Len(w) \in Nat
  BY AppendedAt
<1>3. /\ Announcements(v) = Announcements(w)
      /\ \A i \in Announcements(w) : v[i] = w[i]
  BY <1>1, <1>2 DEF Announcements
<1>4. \A i \in Announcements(w) : RootLength(v[i]) = RootLength(w[i])
  BY <1>3
<1>5. ASSUME NEW i \in Announcements(v)
      PROVE  /\ RootLength(v[i]) > Len(c.rootKey)
             /\ \/ RootLength(v[i]) = Len(c.rootKey) + 1
                \/ \E j \in Announcements(v) : j < i /\ RootLength(v[j]) = RootLength(v[i]) - 1
  <2>1. i \in Announcements(w) /\ RootLength(v[i]) = RootLength(w[i])
    BY <1>3, <1>4
  <2>2. /\ RootLength(w[i]) > Len(c.rootKey)
        /\ \/ RootLength(w[i]) = Len(c.rootKey) + 1
           \/ \E j \in Announcements(w) : j < i /\ RootLength(w[j]) = RootLength(w[i]) - 1
    BY <2>1 DEF Ahead
  <2>3. \A j \in Announcements(w) : j \in Announcements(v) /\ RootLength(v[j]) = RootLength(w[j])
    BY <1>3, <1>4
  <2> QED
    BY <2>1, <2>2, <2>3, Zenon
<1>6. \/ Len(d.rootKey) = Len(c.rootKey)
      \/ \E i \in Announcements(v) : RootLength(v[i]) = Len(d.rootKey)
  BY <1>1, <1>3, <1>4 DEF Ahead
<1>7. \A n \in (Len(c.rootKey) + 1) .. Len(d.rootKey) :
        \E g \in 0 .. d.myRatchet.gen :
          d.rootKey[n] = DH(c.myRatchet, [owner |-> p, gen |-> g])
  BY <1>1 DEF Ahead
<1>8. IsPrefix(c.rootKey, d.rootKey)
  BY <1>1 DEF Ahead
<1>9. Ahead(p, d, v, c)
  BY <1>5, <1>6, <1>7, <1>8 DEF Ahead
<1> QED
  BY <1>3, <1>9

LEMMA AheadAnnounced ==
  ASSUME NEW p, NEW s, IsChannel(s), NEW w \in Seq(Frame), NEW c, IsChannel(c), NEW d,
         NEW f \in Frame, Ahead(p, s, w, c), Announcing(s, d, f),
         s.myRatchet.owner = p, s.peerRatchetPub = c.myRatchet, Extends(p, s, d, f)
  PROVE  /\ Ahead(p, d, Append(w, f), c)
         /\ IsPrefix(c.rootKey, d.rootKey)
         /\ Announcements(Append(w, f)) # {}
<1> PICK v : v = Append(w, f)
  OBVIOUS
<1> DEFINE n == Len(w) + 1
           L == Len(s.rootKey)
           M == Len(c.rootKey)
<1>1. /\ s.rootKey \in Seq(SUBSET KeyPair) /\ c.rootKey \in Seq(SUBSET KeyPair)
      /\ L \in Nat /\ M \in Nat
      /\ s.myRatchet \in KeyPair /\ s.myRatchet.gen \in Nat
      /\ s.peerRatchetPub \in KeyPair
  BY DEF IsChannel, RootKey, KeyPair
<1>2. /\ d.myRatchet \in KeyPair
      /\ d.myRatchet.owner = p /\ d.myRatchet.gen = s.myRatchet.gen + 1
      /\ d.rootKey = Append(s.rootKey, {d.myRatchet, s.peerRatchetPub})
      /\ f.pub = d.myRatchet
  BY DEF Announcing
<1>3. {d.myRatchet, s.peerRatchetPub} \in SUBSET KeyPair
  BY <1>1, <1>2
<1>4. /\ d.rootKey \in Seq(SUBSET KeyPair) /\ Len(d.rootKey) = L + 1
      /\ \A i \in 1 .. L : d.rootKey[i] = s.rootKey[i]
      /\ d.rootKey[L + 1] = {d.myRatchet, s.peerRatchetPub}
  BY <1>1, <1>2, <1>3, AppendedAt
<1>5. f.pub # NoPub /\ RootLength(f) = L + 1
  <2>1. f.pub # NoPub
    BY <1>2, NoPubAssumption
  <2> QED
    BY <2>1 DEF Extends
<1>6. /\ \A i \in DOMAIN w : v[i] = w[i]
      /\ v[n] = f /\ DOMAIN v = DOMAIN w \cup {n}
      /\ DOMAIN w = 1 .. Len(w) /\ Len(w) \in Nat
  BY AppendedAt
<1>7. /\ \A i \in Announcements(w) : v[i] = w[i] /\ i \in Announcements(v) /\ i < n
      /\ n \in Announcements(v)
      /\ \A i \in Announcements(v) : i \in Announcements(w) \/ i = n
  BY <1>5, <1>6 DEF Announcements
<1>8. IsPrefix(c.rootKey, s.rootKey) /\ M <= L
  BY <1>1, PrefixBegins DEF Ahead, Begins
<1>9. IsPrefix(c.rootKey, d.rootKey)
  BY <1>1, <1>2, <1>3, <1>8, PrefixAppend
<1>10. ASSUME NEW i \in (M + 1) .. Len(d.rootKey)
       PROVE  \E g \in 0 .. d.myRatchet.gen :
                d.rootKey[i] = DH(c.myRatchet, [owner |-> p, gen |-> g])
  <2>1. CASE i <= L
    <3>1. i \in (M + 1) .. L /\ i \in 1 .. L
      BY <1>1, <1>4, <2>1
    <3>2. PICK g \in 0 .. s.myRatchet.gen :
            s.rootKey[i] = DH(c.myRatchet, [owner |-> p, gen |-> g])
      BY <3>1 DEF Ahead
    <3>3. g \in 0 .. d.myRatchet.gen
      BY <1>1, <1>2
    <3> QED
      BY <1>4, <3>1, <3>2, <3>3
  <2>2. CASE i = L + 1
    <3>1. d.myRatchet = [owner |-> p, gen |-> d.myRatchet.gen]
      BY <1>2 DEF KeyPair
    <3>2. d.myRatchet.gen \in 0 .. d.myRatchet.gen
      BY <1>1, <1>2
    <3>3. d.rootKey[i] = DH(c.myRatchet, d.myRatchet)
      BY <1>4, <2>2 DEF DH
    <3> QED
      BY <3>1, <3>2, <3>3
  <2>3. i <= L \/ i = L + 1
    BY <1>1, <1>4
  <2> QED
    BY <2>1, <2>2, <2>3
<1>11. ASSUME NEW i \in Announcements(v)
       PROVE  /\ RootLength(v[i]) > M
              /\ \/ RootLength(v[i]) = M + 1
                 \/ \E j \in Announcements(v) : j < i /\ RootLength(v[j]) = RootLength(v[i]) - 1
  <2>1. CASE i \in Announcements(w)
    <3>1. /\ RootLength(w[i]) > M
          /\ \/ RootLength(w[i]) = M + 1
             \/ \E j \in Announcements(w) : j < i /\ RootLength(w[j]) = RootLength(w[i]) - 1
      BY <2>1 DEF Ahead
    <3> QED
      BY <1>7, <2>1, <3>1
  <2>2. CASE i = n
    <3>1. \/ L = M
          \/ \E j \in Announcements(w) : RootLength(w[j]) = L
      BY DEF Ahead
    <3>2. RootLength(v[i]) = L + 1 /\ L = (L + 1) - 1
      BY <1>1, <1>5, <1>6, <2>2
    <3>3. RootLength(v[i]) > M
      BY <1>1, <1>8, <3>2
    <3>4. CASE L = M
      BY <3>2, <3>3, <3>4
    <3>5. ASSUME NEW j \in Announcements(w), RootLength(w[j]) = L
          PROVE  j \in Announcements(v) /\ j < i /\ RootLength(v[j]) = RootLength(v[i]) - 1
      <4>1. j \in Announcements(v) /\ j < i /\ v[j] = w[j]
        BY <1>7, <2>2
      <4> QED
        BY <3>2, <3>5, <4>1
    <3> QED
      BY <3>1, <3>3, <3>4, <3>5
  <2> QED
    BY <1>7, <2>1, <2>2
<1>12. \E i \in Announcements(v) : RootLength(v[i]) = Len(d.rootKey)
  BY <1>4, <1>5, <1>6, <1>7
<1>13. Ahead(p, d, v, c)
  BY <1>9, <1>10, <1>11, <1>12 DEF Ahead
<1> QED
  BY <1>7, <1>9, <1>13

\* A rekey of the end that is behind is the fork.
LEMMA CrossingForks ==
  ASSUME NEW p, NEW q, p # q,
         NEW s, IsChannel(s), NEW c, IsChannel(c), NEW w \in Seq(Frame), NEW d, NEW f,
         \* q, whose channel is c, is ahead of p, whose channel is s.
         Ahead(q, c, w, s), Announcements(w) # {}, StreamOf(q, c, w),
         s.myRatchet.owner = p, Announcing(s, d, f)
  PROVE  Apart(d.rootKey, c.rootKey)
<1> DEFINE L == Len(s.rootKey)
<1>1. /\ s.rootKey \in Seq(SUBSET KeyPair) /\ c.rootKey \in Seq(SUBSET KeyPair)
      /\ L \in Nat /\ Len(c.rootKey) \in Nat
      /\ s.myRatchet \in KeyPair /\ s.myRatchet.gen \in Nat
      /\ s.peerRatchetPub \in KeyPair
  BY DEF IsChannel, RootKey, KeyPair
<1>2. /\ d.myRatchet \in KeyPair
      /\ d.myRatchet.owner = p /\ d.myRatchet.gen = s.myRatchet.gen + 1
      /\ d.rootKey = Append(s.rootKey, {d.myRatchet, s.peerRatchetPub})
  BY DEF Announcing
<1>3. {d.myRatchet, s.peerRatchetPub} \in SUBSET KeyPair
  BY <1>1, <1>2
<1>4. /\ d.rootKey \in Seq(SUBSET KeyPair) /\ Len(d.rootKey) = L + 1
      /\ d.rootKey[L + 1] = {d.myRatchet, s.peerRatchetPub}
  BY <1>1, <1>2, <1>3, AppendedAt
<1>5. PICK i \in Announcements(w) : RootLength(w[i]) > L
  BY DEF Ahead
<1>6. w[i] \in Frame /\ InStream(q, c, w, i)
  BY <1>5, FramesOf, StreamParts
<1>7. RootLength(w[i]) <= Len(c.rootKey)
  <2>1. Begins(w[i].seal.key.chainKey.root, c.rootKey)
    BY <1>1, <1>6, FrameRoot, PrefixBegins DEF InStream
  <2> QED
    BY <2>1 DEF Begins, RootLength
<1>8. L + 1 <= Len(c.rootKey)
  BY <1>1, <1>5, <1>6, <1>7, FrameRoot
<1>9. L + 1 \in (L + 1) .. Len(c.rootKey)
  BY <1>1, <1>8
<1>10. PICK g \in 0 .. c.myRatchet.gen :
         c.rootKey[L + 1] = DH(s.myRatchet, [owner |-> q, gen |-> g])
  BY <1>9 DEF Ahead
<1>11. d.myRatchet \notin c.rootKey[L + 1]
  <2>1. d.myRatchet # s.myRatchet
    BY <1>1, <1>2
  <2>2. d.myRatchet # [owner |-> q, gen |-> g]
    BY <1>2
  <2> QED
    BY <1>10, <2>1, <2>2 DEF DH
<1>12. d.rootKey[L + 1] # c.rootKey[L + 1]
  BY <1>4, <1>11
<1>13. ~Begins(d.rootKey, c.rootKey) /\ ~Begins(c.rootKey, d.rootKey)
  <2>1. L + 1 \in 1 .. Len(d.rootKey) /\ L + 1 \in 1 .. Len(c.rootKey)
    BY <1>1, <1>4, <1>8
  <2> QED
    BY <1>12, <2>1 DEF Begins
<1> QED
  BY <1>1, <1>4, <1>13, PrefixBegins DEF Apart

\* Of two beginnings of one root key, the one that is one exchange longer.
NextRoot(r, old, new) ==
  /\ r = Append(old, new[Len(old) + 1])
  /\ r[Len(r)] = new[Len(old) + 1]
  /\ Len(old) + 1 \in (Len(old) + 1) .. Len(new)

LEMMA OneRootLonger ==
  ASSUME NEW S, NEW r \in Seq(S), NEW old \in Seq(S), NEW new \in Seq(S),
         IsPrefix(old, new), IsPrefix(r, new), Len(r) = Len(old) + 1
  PROVE  NextRoot(r, old, new)
<1>1. r = Append(old, new[Len(old) + 1])
  BY PrefixByLength
<1>2. Begins(r, new)
  BY PrefixBegins
<1>3. Len(r) \in Nat /\ Len(old) \in Nat /\ Len(new) \in Nat
  OBVIOUS
<1>4. r[Len(r)] = new[Len(old) + 1] /\ Len(old) + 1 \in (Len(old) + 1) .. Len(new)
  BY <1>2, <1>3 DEF Begins
<1> QED
  BY <1>1, <1>4 DEF NextRoot

\* An end that is behind can adopt the first announcement it meets ...
LEMMA AheadAdoptable ==
  ASSUME NEW p, NEW s, IsChannel(s), NEW w \in Seq(Frame), w # << >>,
         NEW c, IsChannel(c), c.myRatchet.owner # p,
         StreamOf(p, s, w), Ahead(p, s, w, c)
  PROVE  Adoptable(c, w[1])
<1> PICK f : f = w[1]
  OBVIOUS
<1> PICK r : r = f.seal.key.chainKey.root
  OBVIOUS
<1> SUFFICES ASSUME f.pub # NoPub
             PROVE  r = Append(c.rootKey, {c.myRatchet, f.pub})
  BY DEF Adoptable
<1>1. 1 \in DOMAIN w /\ 1 \in Announcements(w) /\ f \in Frame
  BY TailAt, FramesOf DEF Announcements
<1>2. /\ r \in Seq(SUBSET KeyPair) /\ RootLength(f) = Len(r) /\ f.pub \in KeyPair
      /\ s.rootKey \in Seq(SUBSET KeyPair) /\ c.rootKey \in Seq(SUBSET KeyPair)
  BY <1>1, FrameRoot DEF IsChannel, RootKey, RootLength
<1>3. InStream(p, s, w, 1) /\ Announced(p, s, f)
  BY <1>1, StreamParts
<1>4. Len(r) = Len(c.rootKey) + 1
  <2>1. ~\E j \in Announcements(w) : j < 1
    BY FramesOf
  <2> QED
    BY <1>1, <1>2, <2>1 DEF Ahead
<1>5. IsPrefix(c.rootKey, s.rootKey) /\ IsPrefix(r, s.rootKey)
  BY <1>3 DEF Ahead, InStream
<1>6. NextRoot(r, c.rootKey, s.rootKey)
  BY <1>2, <1>4, <1>5, OneRootLonger
<1>7. Len(c.rootKey) + 1 \in (Len(c.rootKey) + 1) .. Len(s.rootKey)
  BY <1>6 DEF NextRoot
<1>8. PICK g \in 0 .. s.myRatchet.gen :
        s.rootKey[Len(c.rootKey) + 1] = DH(c.myRatchet, [owner |-> p, gen |-> g])
  BY <1>7 DEF Ahead
<1>9. /\ r = Append(c.rootKey, s.rootKey[Len(c.rootKey) + 1])
      /\ r[Len(r)] = s.rootKey[Len(c.rootKey) + 1]
  BY <1>6 DEF NextRoot
<1>10. f.pub \in DH(c.myRatchet, [owner |-> p, gen |-> g]) /\ f.pub # c.myRatchet
  BY <1>3, <1>8, <1>9 DEF Announced
<1>11. f.pub = [owner |-> p, gen |-> g]
  BY <1>10 DEF DH
<1> QED
  BY <1>8, <1>9, <1>11 DEF DH

\* ... and is then one step less behind.
CaughtUp(s, w, d) == (w[1].pub # NoPub /\ Announcements(Tail(w)) = {}) => d.rootKey = s.rootKey

LEMMA AheadRead ==
  ASSUME NEW p, NEW s, IsChannel(s), NEW w \in Seq(Frame), w # << >>,
         NEW c, IsChannel(c), NEW d,
         StreamOf(p, s, w), Ahead(p, s, w, c), d.myRatchet = c.myRatchet,
         w[1].pub = NoPub => d.rootKey = c.rootKey,
         w[1].pub # NoPub => d.rootKey = w[1].seal.key.chainKey.root
  PROVE  /\ Ahead(p, s, Tail(w), d)
         /\ CaughtUp(s, w, d)
<1> PICK f : f = w[1]
  OBVIOUS
<1> PICK v : v = Tail(w)
  OBVIOUS
<1> PICK r : r = f.seal.key.chainKey.root
  OBVIOUS
<1>1. 1 \in DOMAIN w /\ f \in Frame /\ 1 \in Announcements(w) <=> f.pub # NoPub
  BY TailAt, FramesOf DEF Announcements
<1>2. /\ r \in Seq(SUBSET KeyPair) /\ RootLength(f) = Len(r)
      /\ s.rootKey \in Seq(SUBSET KeyPair) /\ c.rootKey \in Seq(SUBSET KeyPair)
  <2>1. r \in Seq(SUBSET KeyPair) /\ RootLength(f) = Len(r)
    BY <1>1, FrameRoot DEF RootLength
  <2>2. s.rootKey \in Seq(SUBSET KeyPair) /\ c.rootKey \in Seq(SUBSET KeyPair)
    BY DEF IsChannel, RootKey
  <2> QED
    BY <2>1, <2>2
<1>3. /\ \A i \in Announcements(v) : i + 1 \in Announcements(w) /\ v[i] = w[i + 1] /\ i \in Nat /\ i > 0
      /\ \A i \in Announcements(w) : i = 1 \/ i - 1 \in Announcements(v)
      /\ \A i \in Announcements(w) : i \in Nat /\ w[i] \in Frame /\ RootLength(w[i]) \in Nat
  <2>1. \A i \in Announcements(v) : i \in Nat /\ i > 0
    <3>1. v \in Seq(Frame)
      BY TailAt
    <3> QED
      BY <3>1 DEF Announcements
  <2>2. \A i \in Announcements(w) : i \in Nat /\ w[i] \in Frame
    BY FramesOf
  <2>3. Rest(w, v)
    BY StreamRead
  <2> QED
    BY <2>1, <2>2, <2>3, FrameRoot DEF Rest
<1>4. \A i \in Announcements(w) : i # 1 => /\ i - 1 \in Announcements(v)
                                          /\ v[i - 1] = w[i]
  <2>1. \A i \in Announcements(w) : (i - 1) + 1 = i
    BY <1>3
  <2> QED
    BY <1>3, <2>1
<1>5. /\ IsPrefix(c.rootKey, s.rootKey)
      /\ \A i \in (Len(c.rootKey) + 1) .. Len(s.rootKey) :
           \E g \in 0 .. s.myRatchet.gen :
             s.rootKey[i] = DH(c.myRatchet, [owner |-> p, gen |-> g])
      /\ \/ Len(s.rootKey) = Len(c.rootKey)
         \/ \E i \in Announcements(w) : RootLength(w[i]) = Len(s.rootKey)
      /\ \A i \in Announcements(w) :
           /\ RootLength(w[i]) > Len(c.rootKey)
           /\ \/ RootLength(w[i]) = Len(c.rootKey) + 1
              \/ \E j \in Announcements(w) : j < i /\ RootLength(w[j]) = RootLength(w[i]) - 1
  BY DEF Ahead
<1>6. CASE f.pub = NoPub
  <2>1. d.rootKey = c.rootKey
    BY <1>6
  <2>2. 1 \notin Announcements(w)
    BY <1>1, <1>6
  <2>3. \/ Len(s.rootKey) = Len(d.rootKey)
        \/ \E i \in Announcements(v) : RootLength(v[i]) = Len(s.rootKey)
    BY <1>4, <1>5, <2>1, <2>2
  <2>4. ASSUME NEW i \in Announcements(v)
        PROVE  /\ RootLength(v[i]) > Len(d.rootKey)
               /\ \/ RootLength(v[i]) = Len(d.rootKey) + 1
                  \/ \E j \in Announcements(v) : j < i /\ RootLength(v[j]) = RootLength(v[i]) - 1
    <3>1. i + 1 \in Announcements(w) /\ v[i] = w[i + 1] /\ i \in Nat
      BY <1>3
    <3>2. ASSUME NEW j \in Announcements(w), j < i + 1, RootLength(w[j]) = RootLength(v[i]) - 1
          PROVE  \E k \in Announcements(v) : k < i /\ RootLength(v[k]) = RootLength(v[i]) - 1
      <4>1. j - 1 \in Announcements(v) /\ v[j - 1] = w[j] /\ j - 1 < i
        <5>1. j \in Nat /\ j # 1
          BY <1>3, <2>2
        <5>2. j - 1 < i
          BY <3>1, <3>2, <5>1
        <5> QED
          BY <1>4, <5>1, <5>2
      <4> QED
        BY <3>2, <4>1
    <3> QED
      BY <1>5, <2>1, <3>1, <3>2
  <2> QED
    BY <1>5, <1>6, <2>1, <2>3, <2>4 DEF Ahead, CaughtUp
<1>7. CASE f.pub # NoPub
  <2>1. d.rootKey = r /\ 1 \in Announcements(w)
    BY <1>1, <1>7
  <2>2. IsPrefix(r, s.rootKey) /\ Len(r) <= Len(s.rootKey)
    <3>1. IsPrefix(r, s.rootKey)
      BY <1>1, StreamParts DEF InStream
    <3> QED
      BY <1>2, <3>1, PrefixBegins DEF Begins
  <2>3. Len(r) = Len(c.rootKey) + 1
    BY <1>2, <1>3, <1>5, <2>1
  <2>4. \A i \in (Len(d.rootKey) + 1) .. Len(s.rootKey) :
           \E g \in 0 .. s.myRatchet.gen :
             s.rootKey[i] = DH(d.myRatchet, [owner |-> p, gen |-> g])
    <3>1. \A i \in (Len(r) + 1) .. Len(s.rootKey) : i \in (Len(c.rootKey) + 1) .. Len(s.rootKey)
      BY <1>2, <2>3
    <3> QED
      BY <1>5, <2>1, <3>1
  <2>5. \/ Len(s.rootKey) = Len(d.rootKey)
        \/ \E i \in Announcements(v) : RootLength(v[i]) = Len(s.rootKey)
    <3>1. Len(s.rootKey) # Len(c.rootKey)
      BY <1>2, <2>2, <2>3
    <3>2. PICK i \in Announcements(w) : RootLength(w[i]) = Len(s.rootKey)
      BY <1>5, <3>1
    <3>3. CASE i = 1
      BY <1>2, <2>1, <3>2, <3>3
    <3>4. CASE i # 1
      BY <1>4, <3>2, <3>4
    <3> QED
      BY <3>3, <3>4
  <2>6. ASSUME NEW i \in Announcements(v)
        PROVE  /\ RootLength(v[i]) > Len(d.rootKey)
               /\ \/ RootLength(v[i]) = Len(d.rootKey) + 1
                  \/ \E j \in Announcements(v) : j < i /\ RootLength(v[j]) = RootLength(v[i]) - 1
    <3>1. i + 1 \in Announcements(w) /\ v[i] = w[i + 1] /\ i \in Nat /\ 1 < i + 1
      <4>1. i \in Nat /\ i > 0
        BY <1>3
      <4>2. 1 < i + 1
        BY <4>1
      <4> QED
        BY <1>3, <4>1, <4>2
    <3>2. Before(f, w[i + 1])
      BY <1>1, <3>1, StreamParts
    <3>3. RootLength(v[i]) > Len(d.rootKey) /\ RootLength(v[i]) \in Nat
      <4>1. Len(r) < RootLength(w[i + 1]) /\ RootLength(w[i + 1]) \in Nat
        BY <1>2, <1>3, <3>1, <3>2 DEF Before
      <4> QED
        BY <1>2, <2>1, <3>1, <4>1
    <3>4. PICK j \in Announcements(w) : j < i + 1 /\ RootLength(w[j]) = RootLength(v[i]) - 1
      <4>1. RootLength(w[i + 1]) # Len(c.rootKey) + 1
        <5>1. Len(d.rootKey) = Len(c.rootKey) + 1
          BY <2>1, <2>3
        <5>2. Len(c.rootKey) \in Nat
          BY <1>2
        <5> PICK M \in Nat : M = Len(c.rootKey)
          BY <5>2
        <5> PICK n \in Nat : n = RootLength(w[i + 1])
          BY <3>1, <3>3
        <5>3. n > M + 1
          BY <3>1, <3>3, <5>1
        <5> QED
          BY <5>3
      <4> QED
        BY <1>5, <3>1, <4>1
    <3>5. CASE j = 1
      <4> PICK M \in Nat : M = Len(d.rootKey)
        BY <1>2, <2>1
      <4> PICK n \in Nat : n = RootLength(v[i])
        BY <3>3
      <4>1. M = n - 1
        BY <1>2, <2>1, <3>4, <3>5
      <4>2. \A x, y \in Nat : x = y - 1 => y = x + 1
        OBVIOUS
      <4>3. n = M + 1
        BY <4>1, <4>2, Zenon
      <4> QED
        BY <3>3, <4>3
    <3>6. CASE j # 1
      <4>1. j - 1 \in Announcements(v) /\ v[j - 1] = w[j] /\ j - 1 < i
        <5>1. j \in Nat
          BY <1>3
        <5>2. j - 1 < i
          BY <3>1, <3>4, <5>1
        <5> QED
          BY <1>4, <3>6, <5>2
      <4> QED
        BY <3>3, <3>4, <4>1
    <3> QED
      BY <3>5, <3>6
  <2>7. Ahead(p, s, v, d)
    BY <2>1, <2>2, <2>4, <2>5, <2>6 DEF Ahead
  <2>8. Announcements(v) = {} => d.rootKey = s.rootKey
    <3>1. HAVE Announcements(v) = {}
    <3>2. Len(s.rootKey) = Len(r)
      BY <2>1, <2>5, <3>1
    <3> QED
      BY <1>2, <2>1, <2>2, <3>2, PrefixWhole
  <2> QED
    BY <2>7, <2>8 DEF CaughtUp
<1> QED
  BY <1>6, <1>7

-----------------------------------------------------------------------------
(* InStep is kept until rekeys cross.                                      *)

\* What a send does to the sender, whatever the link.
Sends(s, d, f) ==
  /\ IsChannel(d) /\ f \in Frame /\ Genuine(f)
  /\ f.ctr = s.sendCounter /\ d.sendCounter = s.sendCounter + 1
  /\ d.window = s.window /\ d.recvChains = s.recvChains
  /\ d.peerRatchetPub = s.peerRatchetPub
  /\ Announcing(s, d, f) \/ Continuing(s, d, f)

LEMMA EncryptSends ==
  ASSUME NEW s, IsChannel(s), NEW timeDue \in BOOLEAN
  PROVE  Sends(s, AfterEncrypt(s, timeDue), Sealed(s, timeDue))
<1> PICK d : d = AfterEncrypt(s, timeDue)
  OBVIOUS
<1> PICK f : f = Sealed(s, timeDue)
  OBVIOUS
<1>1. /\ IsChannel(d) /\ f \in Frame /\ Genuine(f)
      /\ f.ctr = s.sendCounter /\ d.sendCounter = s.sendCounter + 1
      /\ d.window = s.window
  BY EncryptType, SealedFrame
<1>2. Announcing(s, d, f) \/ Continuing(s, d, f)
  BY EncryptAnnounces, EncryptContinues
<1>3. d.recvChains = s.recvChains /\ d.peerRatchetPub = s.peerRatchetPub
  BY <1>2 DEF Announcing, Continuing
<1> QED
  BY <1>1, <1>2, <1>3 DEF Sends

\* p, whose channel is s, seals f with everything read that its peer, whose
\* channel is c, announced in u.
LEMMA UpToDateSends ==
  ASSUME NEW p, NEW s, IsChannel(s), NEW c, IsChannel(c), NEW w \in Seq(Frame), NEW u,
         NEW d, NEW f, Sends(s, d, f), StreamOf(p, s, w), Ahead(p, s, w, c),
         Announcements(u) = {}, Following(s, c, u)
  PROVE  /\ Ahead(p, d, Append(w, f), c)
         /\ IsPrefix(c.rootKey, d.rootKey)
<1>1. /\ f \in Frame
      /\ Announcing(s, d, f) \/ Continuing(s, d, f)
      /\ s.myRatchet.owner = p
      /\ IsPrefix(s.sendingChain.chainKey.root, s.rootKey)
  BY DEF Sends, StreamOf
<1>2. Extends(p, s, d, f)
  BY <1>1, SentRoots
<1>3. s.peerRatchetPub = c.myRatchet
  BY DEF Following
<1>4. CASE Announcing(s, d, f)
  BY <1>1, <1>2, <1>3, <1>4, AheadAnnounced
<1>5. CASE Continuing(s, d, f)
  <2>1. Ahead(p, d, Append(w, f), c)
    BY <1>1, <1>5, AheadContinued
  <2> QED
    BY <2>1 DEF Ahead
<1> QED
  BY <1>1, <1>4, <1>5

\* InStep, for one of the ends.
InStepOf(p, s, w, c, heard, rejected) ==
  /\ Following(c, s, w)
  /\ heard = [i \in 1 .. Gone(s, w) |-> i - 1]
  /\ rejected = 0

LEMMA InStepParts ==
  ASSUME NEW p \in Party, NEW q \in Party, q = Other(p)
  PROVE  InStep <=> /\ UpToDate(p) \/ UpToDate(q)
                    /\ InStepOf(q, channel[q], wire[p], channel[p], shown[p], alerts[p])
                    /\ InStepOf(p, channel[p], wire[q], channel[q], shown[q], alerts[q])
                    /\ UpToDate(p) => Ahead(p, channel[p], wire[q], channel[q])
                    /\ UpToDate(q) => Ahead(q, channel[q], wire[p], channel[p])
<1>1. Other(q) = p /\ \A r \in Party : r = p \/ r = q
  BY TwoParties DEF Party
<1> QED
  BY <1>1 DEF InStep, InStepOf

LEMMA InStepPartsNext ==
  ASSUME NEW p \in Party, NEW q \in Party, q = Other(p),
         Announcements(wire'[p]) = {} \/ Announcements(wire'[q]) = {},
         InStepOf(q, channel'[q], wire'[p], channel'[p], shown'[p], alerts'[p]),
         InStepOf(p, channel'[p], wire'[q], channel'[q], shown'[q], alerts'[q]),
         Announcements(wire'[p]) = {} => Ahead(p, channel'[p], wire'[q], channel'[q]),
         Announcements(wire'[q]) = {} => Ahead(q, channel'[q], wire'[p], channel'[p])
  PROVE  InStep'
<1>1. Other(q) = p /\ \A r \in Party : r = p \/ r = q
  BY TwoParties DEF Party
<1> QED
  BY <1>1 DEF InStep, InStepOf, UpToDate

LEMMA SendInStep ==
  ASSUME TypeOK, Streams, InStep, ~Forked,
         NEW p \in Party, NEW timeDue \in BOOLEAN, Send(p, timeDue)
  PROVE  /\ Forked' \/ InStep'
         /\ UpToDate(p) => InStep' /\ ~Forked'
<1> PICK f : f = Sealed(channel[p], timeDue)
  OBVIOUS
<1> PICK q : q = Other(p)
  OBVIOUS
<1> PICK s : s = channel[p]
  OBVIOUS
<1> PICK c : c = channel[q]
  OBVIOUS
<1> PICK w : w = wire[q]
  OBVIOUS
<1> PICK u : u = wire[p]
  OBVIOUS
<1> PICK d : d = AfterEncrypt(s, timeDue)
  OBVIOUS
<1>1. /\ channel'[p] = d /\ channel'[q] = c
      /\ wire'[q] = Append(w, f)
      /\ wire'[p] = u
      /\ shown' = shown /\ alerts' = alerts
  BY SendEffect
<1>2. q \in Party /\ q # p
  BY TwoParties
<1>3. /\ IsChannel(s) /\ IsChannel(c)
      /\ w \in Seq(Frame) /\ u \in Seq(Frame)
  BY <1>2, LinkTypes
<1>4. Sends(s, d, f)
  BY <1>3, EncryptSends
<1>5. /\ StreamOf(p, s, w) /\ StreamOf(q, c, u)
  BY <1>2, TwoParties DEF Streams
<1>6. /\ Announcements(u) = {} \/ Announcements(w) = {}
      /\ InStepOf(q, c, u, s, shown[p], alerts[p])
      /\ InStepOf(p, s, w, c, shown[q], alerts[q])
      /\ Announcements(u) = {} => Ahead(p, s, w, c)
      /\ Announcements(w) = {} => Ahead(q, c, u, s)
  BY <1>2, InStepParts DEF UpToDate
<1>7. /\ f \in Frame /\ IsChannel(d) /\ d.sendCounter = s.sendCounter + 1
      /\ d.window = s.window /\ d.recvChains = s.recvChains
      /\ d.peerRatchetPub = s.peerRatchetPub
      /\ Announcing(s, d, f) \/ Continuing(s, d, f)
      /\ s.myRatchet.owner = p
      /\ IsPrefix(s.sendingChain.chainKey.root, s.rootKey)
  BY <1>4, <1>5 DEF Sends, StreamOf
<1>8. Extends(p, s, d, f)
  BY <1>3, <1>7, SentRoots
<1>9. InStepOf(q, channel'[q], wire'[p], channel'[p], shown'[p], alerts'[p])
  BY <1>1, <1>6, <1>7, FollowingKept DEF InStepOf
<1>10. InStepOf(p, channel'[p], wire'[q], channel'[q], shown'[q], alerts'[q])
  <2>1. Following(c, d, Append(w, f))
    BY <1>3, <1>6, <1>7, <1>8, FollowingSent DEF InStepOf
  <2>2. Gone(d, Append(w, f)) = Gone(s, w)
    BY <1>3, <1>7, AppendedAt DEF Gone, IsChannel
  <2> QED
    BY <1>1, <1>6, <2>1, <2>2 DEF InStepOf
<1>11. CASE Continuing(s, d, f)
  <2>1. Announcements(Append(w, f)) = Announcements(w)
    <3>1. f.pub = NoPub
      BY <1>11 DEF Continuing
    <3> QED
      BY <1>3, <1>7, <3>1, AppendedAt DEF Announcements
  <2>2. Announcements(u) = {} => Ahead(p, d, Append(w, f), c)
    BY <1>3, <1>6, <1>7, <1>11, AheadContinued
  <2>3. d.rootKey = s.rootKey /\ d.myRatchet = s.myRatchet
    BY <1>11 DEF Continuing
  <2>4. Announcements(w) = {} => Ahead(q, c, u, d)
    BY <1>6, <2>3, AheadKept
  <2>5. InStep'
    BY <1>1, <1>2, <1>6, <1>9, <1>10, <2>1, <2>2, <2>4, InStepPartsNext
  <2>6. ~Forked'
    BY <1>1, <1>2, <2>3, ForkedByParty, ForkedByPartyNext
  <2> QED
    BY <2>5, <2>6
<1>12. CASE Announcing(s, d, f) /\ Announcements(u) = {}
  <2>1. /\ Ahead(p, d, Append(w, f), c)
        /\ IsPrefix(c.rootKey, d.rootKey)
    BY <1>3, <1>4, <1>5, <1>6, <1>12, UpToDateSends DEF InStepOf
  <2>2. Announcements(Append(w, f)) # {}
    <3>1. f.pub # NoPub
      BY <1>12, NoPubAssumption DEF Announcing
    <3> QED
      BY <1>3, <1>7, <3>1, AppendedAt DEF Announcements
  <2>3. InStep'
    BY <1>1, <1>2, <1>9, <1>10, <1>12, <2>1, <2>2, InStepPartsNext
  <2>4. ~Forked'
    BY <1>1, <1>2, <2>1, ForkedByPartyNext DEF Apart
  <2> QED
    BY <2>3, <2>4
<1>13. CASE Announcing(s, d, f) /\ Announcements(u) # {}
  <2>1. Apart(d.rootKey, c.rootKey)
    BY <1>2, <1>3, <1>5, <1>6, <1>7, <1>13, CrossingForks
  <2>2. Forked'
    BY <1>1, <1>2, <2>1, ForkedByPartyNext
  <2> QED
    BY <1>13, <2>2 DEF UpToDate
<1> QED
  BY <1>7, <1>11, <1>12, <1>13

LEMMA ShownOn ==
  ASSUME NEW n \in Nat
  PROVE  Append([i \in 1 .. n |-> i - 1], n) = [i \in 1 .. (n + 1) |-> i - 1]
OBVIOUS

\* While the roots are in step the next frame opens.
LEMMA NextOpens ==
  ASSUME TypeOK, Streams, InStep, NEW p \in Party, wire[p] # << >>
  PROVE  /\ Adoptable(channel[p], wire[p][1])
         /\ Accepts(channel[p], wire[p][1])
<1> PICK q : q = Other(p)
  OBVIOUS
<1>1. q \in Party /\ q # p /\ Other(q) = p
  BY TwoParties
<1>2. /\ IsChannel(channel[p]) /\ IsChannel(channel[q]) /\ wire[p] \in Seq(Frame)
  BY <1>1, LinkTypes
<1>3. /\ StreamOf(q, channel[q], wire[p]) /\ KeysRead(q, channel[q], wire[p], channel[p])
      /\ channel[p].myRatchet.owner = p
  <2>1. /\ StreamOf(q, channel[q], wire[p]) /\ KeysRead(q, channel[q], wire[p], channel[p])
        /\ StreamOf(p, channel[p], wire[q])
    BY <1>1 DEF Streams
  <2> QED
    BY <2>1 DEF StreamOf
<1>4. /\ UpToDate(p) \/ Ahead(q, channel[q], wire[p], channel[p])
      /\ Following(channel[p], channel[q], wire[p])
  BY <1>1, InStepParts DEF InStepOf
<1>5. Adoptable(channel[p], wire[p][1])
  <2>1. CASE UpToDate(p)
    <3>1. wire[p][1].pub = NoPub
      BY <1>2, <2>1, TailAt DEF UpToDate, Announcements
    <3> QED
      BY <3>1 DEF Adoptable
  <2>2. CASE Ahead(q, channel[q], wire[p], channel[p])
    BY <1>1, <1>2, <1>3, <2>2, AheadAdoptable
  <2> QED
    BY <1>4, <2>1, <2>2
<1>6. Accepts(channel[p], wire[p][1])
  BY <1>2, <1>3, <1>4, <1>5, HeadOpens
<1> QED
  BY <1>5, <1>6

LEMMA ReadInStep ==
  ASSUME TypeOK, Streams, InStep, ~Forked, NEW p \in Party, Accept(p) \/ Reject(p)
  PROVE  /\ Accept(p) /\ ~Reject(p)
         /\ InStep' /\ ~Forked'
<1> PICK q : q = Other(p)
  OBVIOUS
<1> PICK s : s = channel[q]
  OBVIOUS
<1> PICK c : c = channel[p]
  OBVIOUS
<1> PICK w : w = wire[p]
  OBVIOUS
<1> PICK u : u = wire[q]
  OBVIOUS
<1> PICK f : f = Arriving(p)
  OBVIOUS
<1> PICK d : d = AfterAccept(c, f)
  OBVIOUS
<1>1. q \in Party /\ q # p /\ Other(q) = p
  BY TwoParties
<1>2. /\ w # << >> /\ f = w[1] /\ f \in Frame /\ IsFrame(f)
      /\ channel'[q] = s
      /\ wire'[p] = Tail(w)
      /\ wire'[q] = u
      /\ Accept(p) => /\ Accepts(c, f) /\ channel'[p] = d
                      /\ shown' = [shown EXCEPT ![p] = Append(shown[p], f.seal.ctr)]
                      /\ alerts' = alerts
      /\ Reject(p) => ~Accepts(c, f)
  BY ReadEffect
<1>3. /\ IsChannel(s) /\ IsChannel(c) /\ w \in Seq(Frame) /\ u \in Seq(Frame)
      /\ c.rootKey \in Seq(SUBSET KeyPair) /\ s.rootKey \in Seq(SUBSET KeyPair)
  BY <1>1, LinkTypes
<1>4. Adoptable(c, f) /\ Accepts(c, f)
  BY <1>2, NextOpens
<1>5. /\ Accept(p) /\ ~Reject(p)
      /\ channel'[p] = d
      /\ shown'[p] = Append(shown[p], f.seal.ctr) /\ shown'[q] = shown[q]
      /\ alerts' = alerts
  <2>1. Accept(p) /\ ~Reject(p)
    BY <1>2, <1>4
  <2> QED
    BY <1>1, <1>2, <2>1 DEF TypeOK
<1>6. /\ StreamOf(q, s, w) /\ KeysRead(q, s, w, c)
      /\ StreamOf(p, c, u) /\ KeysRead(p, c, u, s)
  BY <1>1 DEF Streams
<1>7. /\ Announcements(w) = {} \/ Announcements(u) = {}
      /\ InStepOf(q, s, w, c, shown[p], alerts[p])
      /\ InStepOf(p, c, u, s, shown[q], alerts[q])
      /\ Announcements(w) = {} => Ahead(p, c, u, s)
      /\ Announcements(u) = {} => Ahead(q, s, w, c)
  BY <1>1, InStepParts DEF UpToDate
<1>8. /\ Rekeys(c, f) <=> f.pub # NoPub
      /\ Following(d, s, Tail(w))
  BY <1>2, <1>3, <1>4, <1>6, <1>7, HeadOpens DEF InStepOf
<1>9. /\ Gone(s, Tail(w)) = Gone(s, w) + 1
      /\ Announcements(w) = {} => Announcements(Tail(w)) = {}
      /\ f.pub = NoPub => (Announcements(Tail(w)) = {} => Announcements(w) = {})
      /\ f.pub # NoPub => Announcements(w) # {}
  <2>1. /\ Rest(w, Tail(w))
        /\ Gone(s, Tail(w)) = Gone(s, w) + 1
    <3>1. IsChannel(s) /\ w \in Seq(Frame) /\ w # << >> /\ StreamOf(q, s, w)
      BY <1>2, <1>3, <1>6
    <3> QED
      BY <3>1, StreamRead
  <2>2. 1 \in Announcements(w) <=> f.pub # NoPub
    BY <1>2, <1>3, TailAt DEF Announcements
  <2> QED
    BY <2>1, <2>2 DEF Rest
<1>10. InStepOf(q, channel'[q], wire'[p], channel'[p], shown'[p], alerts'[p])
  <2>1. f.seal.ctr = Gone(s, w)
    <3>1. InStream(q, s, w, 1)
      BY <1>2, <1>3, <1>6, TailAt, StreamParts
    <3>2. Gone(s, w) \in Int
      BY <1>3, FramesOf DEF Gone, IsChannel
    <3> QED
      BY <1>2, <3>1, <3>2 DEF InStream, Genuine
  <2>2. Gone(s, w) \in Nat
    BY <1>2, <2>1 DEF IsFrame
  <2>3. shown'[p] = [i \in 1 .. Gone(s, Tail(w)) |-> i - 1]
    BY <1>5, <1>7, <1>9, <2>1, <2>2, ShownOn DEF InStepOf
  <2> QED
    BY <1>2, <1>5, <1>7, <1>8, <2>3 DEF InStepOf
<1>11. /\ d.myRatchet = c.myRatchet
       /\ d.sendingChain = c.sendingChain
       /\ d.sendCounter = c.sendCounter
       /\ f.pub = NoPub => d.rootKey = c.rootKey
       /\ f.pub # NoPub => d.rootKey = f.seal.key.chainKey.root
  <2>1. CASE f.pub = NoPub
    <3>1. HasChain(c, f) /\ ~Rekeys(c, f)
      BY <1>4, <1>8, <2>1 DEF Accepts, Derives
    <3>2. SameKeys(c, d)
      BY <1>2, <1>3, <3>1, DecryptSteps DEF Stepping
    <3> QED
      BY <2>1, <3>2 DEF SameKeys
  <2>2. CASE f.pub # NoPub
    <3>1. Committing(c, d, f)
      BY <1>2, <1>3, <1>8, <2>2, DecryptCommits
    <3> QED
      BY <1>4, <2>2, <3>1 DEF Committing, Adoptable
  <2> QED
    BY <2>1, <2>2
<1>12. InStepOf(p, channel'[p], wire'[q], channel'[q], shown'[q], alerts'[q])
  <2>1. Following(s, d, u)
    BY <1>7, <1>11, FollowingKept DEF InStepOf
  <2>2. Gone(d, u) = Gone(c, u)
    BY <1>11 DEF Gone
  <2> QED
    BY <1>2, <1>5, <1>7, <2>1, <2>2 DEF InStepOf
<1>13. Announcements(u) = {} =>
         /\ Ahead(q, s, Tail(w), d)
         /\ (f.pub # NoPub /\ Announcements(Tail(w)) = {}) => d.rootKey = s.rootKey
  <2>1. HAVE Announcements(u) = {}
  <2>2. /\ IsChannel(s) /\ w \in Seq(Frame) /\ w # << >> /\ IsChannel(c)
        /\ StreamOf(q, s, w) /\ Ahead(q, s, w, c) /\ d.myRatchet = c.myRatchet
        /\ w[1].pub = NoPub => d.rootKey = c.rootKey
        /\ w[1].pub # NoPub => d.rootKey = w[1].seal.key.chainKey.root
    BY <1>2, <1>3, <1>6, <1>7, <1>11, <2>1
  <2>3. /\ Ahead(q, s, Tail(w), d)
        /\ CaughtUp(s, w, d)
    BY <2>2, AheadRead
  <2> QED
    BY <1>2, <2>3 DEF CaughtUp
<1>14. Announcements(Tail(w)) = {} => Ahead(p, d, u, s)
  <2>1. CASE f.pub = NoPub
    BY <1>7, <1>9, <1>11, <2>1, AheadKept
  <2>2. CASE f.pub # NoPub
    <3>1. HAVE Announcements(Tail(w)) = {}
    <3>2. Announcements(u) = {} /\ d.rootKey = s.rootKey
      BY <1>7, <1>9, <1>13, <2>2, <3>1
    <3>3. IsPrefix(s.rootKey, s.rootKey) /\ Len(s.rootKey) \in Nat
      BY <1>3, PrefixRefl
    <3>4. (Len(s.rootKey) + 1) .. Len(s.rootKey) = {}
      BY <3>3
    <3> QED
      BY <3>2, <3>3, <3>4 DEF Ahead
  <2> QED
    BY <2>1, <2>2
<1>15. InStep'
  BY <1>1, <1>2, <1>5, <1>7, <1>9, <1>10, <1>12, <1>13, <1>14, InStepPartsNext
<1>16. ~Forked'
  <2>1. CASE f.pub = NoPub
    BY <1>1, <1>2, <1>5, <1>11, <2>1, ForkedByParty, ForkedByPartyNext
  <2>2. CASE f.pub # NoPub
    <3>1. IsPrefix(d.rootKey, s.rootKey)
      <4>1. InStream(q, s, w, 1)
        BY <1>2, <1>3, <1>6, TailAt, StreamParts
      <4> QED
        BY <1>2, <1>11, <2>2, <4>1 DEF InStream
    <3> QED
      BY <1>1, <1>2, <1>5, <3>1, ForkedByPartyNext DEF Apart
  <2> QED
    BY <2>1, <2>2
<1> QED
  BY <1>5, <1>15, <1>16

-----------------------------------------------------------------------------
(* A fork stays.                                                           *)

LEMMA SendKeepsFork ==
  ASSUME TypeOK, Forked, NEW p \in Party, NEW timeDue \in BOOLEAN, Send(p, timeDue)
  PROVE  /\ Forked'
         /\ \A r \in Party : channel'[r].peerRatchetPub = channel[r].peerRatchetPub
<1> PICK q : q = Other(p)
  OBVIOUS
<1> PICK d : d = AfterEncrypt(channel[p], timeDue)
  OBVIOUS
<1> PICK f : f = Sealed(channel[p], timeDue)
  OBVIOUS
<1>1. channel'[p] = d /\ channel'[q] = channel[q]
  BY SendEffect
<1>2. /\ q \in Party /\ q # p
      /\ \A r \in Party : r = p \/ r = q
  BY TwoParties DEF Party
<1>3. Sends(channel[p], d, f)
  BY <1>2, LinkTypes, EncryptSends
<1>4. /\ d.peerRatchetPub = channel[p].peerRatchetPub
      /\ \/ d.rootKey = channel[p].rootKey
         \/ \E e \in SUBSET KeyPair : d.rootKey = Append(channel[p].rootKey, e)
  <2>1. CASE Continuing(channel[p], d, f)
    BY <2>1 DEF Continuing
  <2>2. CASE Announcing(channel[p], d, f)
    <3>1. {d.myRatchet, channel[p].peerRatchetPub} \in SUBSET KeyPair
      BY <2>2, LinkTypes DEF Announcing
    <3> QED
      BY <2>2, <3>1 DEF Announcing
  <2> QED
    BY <1>3, <2>1, <2>2 DEF Sends
<1>5. Apart(channel[p].rootKey, channel[q].rootKey)
  BY ForkedByParty
<1>6. Apart(d.rootKey, channel[q].rootKey)
  <2>1. channel[p].rootKey \in Seq(SUBSET KeyPair) /\ channel[q].rootKey \in Seq(SUBSET KeyPair)
    BY <1>2, LinkTypes DEF IsChannel, RootKey
  <2>2. ASSUME NEW e \in SUBSET KeyPair, d.rootKey = Append(channel[p].rootKey, e)
        PROVE  Apart(d.rootKey, channel[q].rootKey)
    <3>1. Apart(Append(channel[p].rootKey, e), channel[q].rootKey)
      BY <1>5, <2>1, ApartAppend
    <3> QED
      BY <2>2, <3>1, Zenon
  <2> QED
    BY <1>4, <1>5, <2>2, Zenon
<1> QED
  BY <1>1, <1>2, <1>4, <1>6, ForkedByPartyNext

\* No announcement of one fork continues the root of the other.
LEMMA ReadKeepsFork ==
  ASSUME TypeOK, Streams, Forked, NEW p \in Party, Accept(p) \/ Reject(p)
  PROVE  /\ Forked'
         /\ \A r \in Party : channel'[r].peerRatchetPub = channel[r].peerRatchetPub
<1> PICK q : q = Other(p)
  OBVIOUS
<1> PICK s : s = channel[q]
  OBVIOUS
<1> PICK c : c = channel[p]
  OBVIOUS
<1> PICK f : f = Arriving(p)
  OBVIOUS
<1>1. /\ q \in Party /\ q # p /\ Other(q) = p
      /\ \A r \in Party : r = p \/ r = q
  BY TwoParties DEF Party
<1>2. /\ wire[p] # << >> /\ f = wire[p][1] /\ f \in Frame /\ IsFrame(f)
      /\ channel'[q] = s
      /\ Accept(p) => Accepts(c, f) /\ channel'[p] = AfterAccept(c, f)
      /\ Reject(p) => \/ channel'[p] = c
                      \/ HasChain(c, f) /\ channel'[p] = AfterKeyDerivation(c, f)
  BY ReadEffect
<1>3. IsChannel(s) /\ IsChannel(c) /\ wire[p] \in Seq(Frame)
      /\ c.rootKey \in Seq(SUBSET KeyPair) /\ s.rootKey \in Seq(SUBSET KeyPair)
  BY <1>1, LinkTypes
<1>4. Apart(c.rootKey, s.rootKey)
  BY ForkedByParty
<1>5. StreamOf(q, s, wire[p])
  BY <1>1 DEF Streams
<1>6. SameKeys(c, channel'[p])
  <2>1. CASE ~Rekeys(c, f)
    <3>1. Accepts(c, f) => HasChain(c, f)
      BY DEF Accepts, Derives
    <3> QED
      BY <1>2, <1>3, <2>1, <3>1, DecryptSteps DEF Stepping, SameKeys
  <2>2. CASE Rekeys(c, f) /\ Reject(p)
    BY <1>2, <2>2 DEF AfterKeyDerivation, SameKeys
  <2>3. CASE Rekeys(c, f) /\ Accept(p)
    <3> PICK e \in SUBSET KeyPair : e = {c.myRatchet, f.pub}
      BY <1>2, <1>3, <2>3, FrameRoot DEF Rekeys, IsChannel
    <3>1. f.seal.key.chainKey.root = Append(c.rootKey, e)
      <4>1. f.seal.key.chainKey = ChainKeyOf(Append(c.rootKey, e))
        <5>1. f.seal.key = MessageKey(ChainFor(c, f).chainKey, LocalCounter(c, f))
          BY <1>2, <2>3 DEF Accepts, KeyMatches, Opens
        <5>2. ChainFor(c, f) = NewReceivingChain(ChainKeyOf(Append(c.rootKey, e)))
          BY <2>3 DEF ChainFor, CandidateChain, CandidateRoot, RootAfter, DH
        <5> QED
          BY <5>1, <5>2 DEF MessageKey, NewReceivingChain
      <4> QED
        BY <4>1 DEF ChainKeyOf
    <3>2. IsPrefix(f.seal.key.chainKey.root, s.rootKey)
      <4>1. InStream(q, s, wire[p], 1)
        BY <1>2, <1>3, <1>5, TailAt, StreamParts
      <4> QED
        BY <1>2, <4>1 DEF InStream
    <3>3. Apart(Append(c.rootKey, e), s.rootKey)
      BY <1>3, <1>4, ApartAppend
    <3> QED
      BY <3>1, <3>2, <3>3 DEF Apart
  <2> QED
    BY <2>1, <2>2, <2>3
<1>7. Forked'
  BY <1>1, <1>2, <1>4, <1>6, ForkedByPartyNext DEF SameKeys
<1> QED
  BY <1>1, <1>2, <1>6, <1>7 DEF SameKeys

-----------------------------------------------------------------------------
(* TcpLink.                                                                *)

LEMMA InitLink == Init => LinkInv /\ ~Forked
<1> SUFFICES ASSUME Init PROVE LinkInv /\ ~Forked
  OBVIOUS
<1>1. ASSUME NEW p \in Party
      PROVE  /\ channel[p] = NewChannel(p) /\ IsChannel(channel[p])
             /\ wire[p] = << >> /\ shown[p] = << >> /\ alerts[p] = 0
  BY NewChannelType DEF Init
<1>2. TypeOK
  BY <1>1 DEF Init, TypeOK
<1>3. << >> \in Seq(SUBSET KeyPair) /\ << >> \in Seq(Frame)
  OBVIOUS
<1>4. IsPrefix(InitialRoot, InitialRoot)
  BY <1>3, PrefixRefl DEF InitialRoot
<1>5. DOMAIN << >> = {} /\ Len(<< >>) = 0
  BY <1>3
<1>6. Announcements(<< >>) = {}
  BY <1>5 DEF Announcements
<1>7. ASSUME NEW p \in Party
      PROVE  /\ channel[p].sendCounter = 0
             /\ channel[p].sendingChain.counter = 0
             /\ channel[p].sendingChain.chainKey = HandshakeChainKey(p)
             /\ channel[p].myRatchet \in KeyPair
             /\ channel[p].myRatchet.owner = p
             /\ channel[p].myRatchet.gen = 0
             /\ channel[p].peerRatchetPub \in KeyPair
             /\ channel[p].peerRatchetPub.owner = Other(p)
             /\ channel[p].peerRatchetPub.gen = 0
             /\ channel[p].rootKey = InitialRoot
             /\ channel[p].window.highest = -1
             /\ DOMAIN channel[p].recvChains = {0}
             /\ channel[p].recvChains[0].chainKey = HandshakeChainKey(Other(p))
             /\ channel[p].recvChains[0].nextCounter = 0
             /\ channel[p].recvChains[0].skipped = {}
  BY <1>1, NewChannelFields DEF IsChannel, InitialRoot
<1>8. ASSUME NEW p \in Party
      PROVE  /\ StreamOf(p, channel[p], wire[Other(p)])
             /\ KeysRead(p, channel[p], wire[Other(p)], channel[Other(p)])
  <2>1. Other(p) \in Party /\ Other(Other(p)) = p
    BY TwoParties
  <2>2. wire[Other(p)] = << >>
    BY <1>1, <2>1
  <2>3. StreamOf(p, channel[p], << >>)
    <3>1. channel[p].sendingChain.chainKey.root = InitialRoot
      <4>1. HandshakeChainKey(p).root = InitialRoot
        BY DEF HandshakeChainKey
      <4> QED
        BY <1>7, <4>1
    <3> QED
      BY <1>4, <1>5, <1>6, <1>7, <3>1 DEF StreamOf
  <2>4. KeysRead(p, channel[p], << >>, channel[Other(p)])
    BY <1>6, <1>7, <2>1 DEF KeysRead
  <2> QED
    BY <2>2, <2>3, <2>4
<1>9. Streams
  BY <1>8 DEF Streams
<1>10. ~Forked
  BY <1>4, <1>7 DEF Forked, Party
<1>11. ASSUME NEW p \in Party
       PROVE  /\ Following(channel[p], channel[Other(p)], wire[p])
              /\ Ahead(p, channel[p], wire[Other(p)], channel[Other(p)])
              /\ shown[p] = [i \in 1 .. Gone(channel[Other(p)], wire[p]) |-> i - 1]
  <2> PICK q : q = Other(p)
    OBVIOUS
  <2>1. q \in Party /\ Other(q) = p
    BY TwoParties
  <2>2. wire[p] = << >> /\ wire[q] = << >> /\ shown[p] = << >>
    BY <1>1, <2>1
  <2>3. Gone(channel[q], << >>) = 0
    BY <1>5, <1>7, <2>1 DEF Gone
  <2> PICK rc : rc = channel[p].recvChains[0]
    OBVIOUS
  <2>4. rc.chainKey = HandshakeChainKey(q) /\ rc.nextCounter = 0 /\ rc.skipped = {}
    BY <1>7
  <2>5. DOMAIN channel[p].recvChains = {0}
    BY <1>7
  <2>6. KeyAt(channel[q], << >>, 1) = MessageKey(rc.chainKey, rc.nextCounter)
    BY <1>5, <1>7, <2>1, <2>4 DEF KeyAt, NextMessageKey
  <2>7. InPlace(channel[p], channel[q], << >>, 0)
    BY <2>3, <2>4, <2>5, <2>6 DEF InPlace, NewestChain
  <2>8. channel[q].myRatchet = channel[p].peerRatchetPub
    BY <1>7, <2>1 DEF KeyPair
  <2>9. Following(channel[p], channel[q], << >>)
    BY <1>7, <2>3, <2>5, <2>7, <2>8, FollowingParts
  <2>10. Ahead(p, channel[p], << >>, channel[q])
    <3>1. channel[p].rootKey = << >> /\ channel[q].rootKey = << >>
      BY <1>7, <2>1 DEF InitialRoot
    <3>2. (Len(<< >>) + 1) .. Len(<< >>) = {}
      BY <1>5
    <3> QED
      BY <1>4, <1>6, <3>1, <3>2 DEF Ahead, InitialRoot
  <2>11. shown[p] = [i \in 1 .. 0 |-> i - 1]
    BY <2>2
  <2> QED
    BY <2>2, <2>3, <2>9, <2>10, <2>11
<1>12. InStep
  <2>1. \E p \in Party : UpToDate(p)
    BY <1>1, <1>6 DEF UpToDate, Party
  <2> QED
    BY <1>1, <1>11, <2>1 DEF InStep
<1> QED
  BY <1>2, <1>9, <1>10, <1>12 DEF LinkInv

LEMMA SendLink ==
  ASSUME LinkInv, NEW p \in Party, NEW timeDue \in BOOLEAN, Send(p, timeDue)
  PROVE  LinkInv'
<1>1. TypeOK' /\ Streams'
  BY SendEffect, SendStreams DEF LinkInv
<1>2. CASE Forked
  BY <1>1, <1>2, SendKeepsFork DEF LinkInv
<1>3. CASE ~Forked
  BY <1>1, <1>3, SendInStep DEF LinkInv
<1> QED
  BY <1>2, <1>3

LEMMA ReadLink ==
  ASSUME LinkInv, NEW p \in Party, Accept(p) \/ Reject(p)
  PROVE  LinkInv'
<1>1. TypeOK' /\ Streams'
  BY ReadEffect, ReadStreams DEF LinkInv
<1>2. CASE Forked
  BY <1>1, <1>2, ReadKeepsFork DEF LinkInv
<1>3. CASE ~Forked
  BY <1>1, <1>3, ReadInStep DEF LinkInv
<1> QED
  BY <1>2, <1>3

LEMMA StutterLink ==
  ASSUME LinkInv, UNCHANGED vars
  PROVE  LinkInv' /\ (Forked' <=> Forked)
<1>1. channel' = channel /\ wire' = wire /\ shown' = shown /\ alerts' = alerts
  BY DEF vars
<1>2. Forked' <=> Forked
  BY <1>1 DEF Forked
<1>3. TypeOK' /\ Streams'
  BY <1>1 DEF LinkInv, TypeOK, Streams
<1>4. InStep => InStep'
  BY <1>1 DEF InStep, UpToDate
<1> QED
  BY <1>2, <1>3, <1>4 DEF LinkInv

(* Whatever the two ends do, what is in each stream continues what its     *)
(* reader has read, unless rekeys crossed (secure_channel.py:163-317).     *)
THEOREM LinkHolds == Spec => []LinkInv
<1>1. Init => LinkInv
  BY InitLink
<1>2. LinkInv /\ [Next]_vars => LinkInv'
  <2> SUFFICES ASSUME LinkInv, [Next]_vars PROVE LinkInv'
    OBVIOUS
  <2>1. ASSUME NEW p \in Party, NEW timeDue \in BOOLEAN, Send(p, timeDue) PROVE LinkInv'
    BY <2>1, SendLink
  <2>2. ASSUME NEW p \in Party, Accept(p) \/ Reject(p) PROVE LinkInv'
    BY <2>2, ReadLink
  <2>3. CASE UNCHANGED vars
    BY <2>3, StutterLink
  <2> QED
    BY <2>1, <2>2, <2>3 DEF Next
<1> QED
  BY <1>1, <1>2, PTL DEF Spec

LEMMA LinkOpens ==
  ASSUME LinkInv
  PROVE  OpensUnlessForked
<1> SUFFICES ASSUME ~Forked, NEW p \in Party
             PROVE  /\ wire[p] # << >> => Accepts(channel[p], Arriving(p))
                    /\ alerts[p] = 0
                    /\ shown[p] = [i \in 1 .. Len(shown[p]) |-> i - 1]
  BY DEF OpensUnlessForked
<1> PICK q : q = Other(p)
  OBVIOUS
<1>1. TypeOK /\ Streams /\ InStep /\ q \in Party
  BY TwoParties DEF LinkInv
<1>2. wire[p] # << >> => Accepts(channel[p], Arriving(p))
  BY <1>1, NextOpens, LinkTypes, TailAt DEF Arriving
<1>3. alerts[p] = 0 /\ shown[p] = [i \in 1 .. Gone(channel[q], wire[p]) |-> i - 1]
  BY <1>1 DEF InStep
<1>4. Gone(channel[q], wire[p]) \in Nat
  <2>1. StreamOf(q, channel[q], wire[p])
    BY <1>1, TwoParties DEF Streams
  <2>2. channel[q].sendCounter \in Nat /\ wire[p] \in Seq(Frame)
    BY <1>1, LinkTypes
  <2> QED
    BY <2>1, <2>2 DEF StreamOf, Gone
<1>5. Len(shown[p]) = Gone(channel[q], wire[p])
  BY <1>3, <1>4
<1> QED
  BY <1>2, <1>3, <1>5

(* On a reliable stream nothing is rejected, and nothing is missing from   *)
(* what is shown, until two rekeys cross.                                  *)
THEOREM OpensUntilFork == Spec => []OpensUnlessForked
<1>1. LinkInv => OpensUnlessForked
  BY LinkOpens
<1> QED
  BY <1>1, LinkHolds, PTL

(* The crossing of rekeys is final: the roots never meet again, and no     *)
(* later announcement is adopted by either end (secure_channel.py:335-357).*)
THEOREM ForkLasts == Spec => ForkIsForEver
<1>1. ASSUME LinkInv, [Next]_vars, Forked
      PROVE  /\ Forked'
             /\ \A p \in Party : channel'[p].peerRatchetPub = channel[p].peerRatchetPub
  <2>1. TypeOK /\ Streams
    BY <1>1 DEF LinkInv
  <2>2. ASSUME NEW p \in Party, NEW timeDue \in BOOLEAN, Send(p, timeDue)
        PROVE  /\ Forked'
               /\ \A r \in Party : channel'[r].peerRatchetPub = channel[r].peerRatchetPub
    BY <1>1, <2>1, <2>2, SendKeepsFork
  <2>3. ASSUME NEW p \in Party, Accept(p) \/ Reject(p)
        PROVE  /\ Forked'
               /\ \A r \in Party : channel'[r].peerRatchetPub = channel[r].peerRatchetPub
    BY <1>1, <2>1, <2>3, ReadKeepsFork
  <2>4. CASE UNCHANGED vars
    BY <1>1, <2>4, StutterLink DEF vars
  <2> QED
    BY <1>1, <2>2, <2>3, <2>4 DEF Next
<1>2. LinkInv /\ [Next]_vars =>
        [Forked => /\ Forked'
                   /\ \A p \in Party :
                        channel'[p].peerRatchetPub = channel[p].peerRatchetPub]_vars
  BY <1>1
<1> QED
  BY <1>2, LinkHolds, PTL DEF Spec, ForkIsForEver

LEMMA LinkAgrees ==
  ASSUME LinkInv
  PROVE  AgreeWhenQuiet
<1> SUFFICES ASSUME ~Forked, \A p \in Party : wire[p] = << >>
             PROVE  /\ channel[Initiator].rootKey = channel[Responder].rootKey
                    /\ \A p \in Party : \A timeDue \in BOOLEAN :
                         Accepts(channel[Other(p)], Sealed(channel[p], timeDue))
  BY DEF AgreeWhenQuiet
<1>1. TypeOK /\ Streams /\ InStep
  BY DEF LinkInv
<1>2. Announcements(<< >>) = {} /\ << >> \in Seq(Frame)
  BY DEF Announcements
<1>3. ASSUME NEW p \in Party, NEW q \in Party, q = Other(p)
      PROVE  /\ Ahead(p, channel[p], << >>, channel[q])
             /\ IsPrefix(channel[q].rootKey, channel[p].rootKey)
             /\ Following(channel[q], channel[p], << >>)
             /\ StreamOf(p, channel[p], << >>)
             /\ KeysRead(p, channel[p], << >>, channel[q])
  <2>1. wire[p] = << >> /\ wire[q] = << >> /\ Other(q) = p
    BY <1>3, TwoParties
  <2>2. UpToDate(p)
    BY <1>2, <2>1 DEF UpToDate
  <2>3. /\ Ahead(p, channel[p], << >>, channel[q])
        /\ Following(channel[q], channel[p], << >>)
    BY <1>1, <1>3, <2>1, <2>2, InStepParts DEF InStepOf
  <2>4. /\ StreamOf(p, channel[p], << >>)
        /\ KeysRead(p, channel[p], << >>, channel[q])
    BY <1>1, <1>3, <2>1 DEF Streams
  <2> QED
    BY <2>3, <2>4 DEF Ahead
<1>4. channel[Initiator].rootKey = channel[Responder].rootKey
  <2>1. /\ Initiator \in Party /\ Responder \in Party
        /\ Responder = Other(Initiator) /\ Initiator = Other(Responder)
    BY PartyAssumption DEF Party, Other
  <2>2. /\ IsPrefix(channel[Initiator].rootKey, channel[Responder].rootKey)
        /\ IsPrefix(channel[Responder].rootKey, channel[Initiator].rootKey)
    BY <1>3, <2>1
  <2>3. /\ channel[Initiator].rootKey \in Seq(SUBSET KeyPair)
        /\ channel[Responder].rootKey \in Seq(SUBSET KeyPair)
    BY <1>1, <2>1, LinkTypes
  <2>4. Len(channel[Initiator].rootKey) = Len(channel[Responder].rootKey)
    BY <2>2, <2>3, PrefixBegins DEF Begins
  <2> QED
    BY <2>2, <2>3, <2>4, PrefixWhole
<1>5. ASSUME NEW p \in Party, NEW timeDue \in BOOLEAN
      PROVE  Accepts(channel[Other(p)], Sealed(channel[p], timeDue))
  <2> PICK q : q = Other(p)
    OBVIOUS
  <2> PICK s : s = channel[p]
    OBVIOUS
  <2> PICK c : c = channel[q]
    OBVIOUS
  <2> PICK d : d = AfterEncrypt(s, timeDue)
    OBVIOUS
  <2> PICK f : f = Sealed(s, timeDue)
    OBVIOUS
  <2> PICK w : w = Append(<< >>, f)
    OBVIOUS
  <2>1. q \in Party /\ q # p /\ Other(q) = p
    BY TwoParties
  <2>2. IsChannel(s) /\ IsChannel(c)
    BY <1>1, <2>1, LinkTypes
  <2>3. /\ Ahead(p, s, << >>, c)
        /\ Following(c, s, << >>)
        /\ Following(s, c, << >>)
        /\ StreamOf(p, s, << >>) /\ StreamOf(q, c, << >>)
        /\ KeysRead(p, s, << >>, c)
    BY <1>3, <2>1
  <2>4. Sends(s, d, f)
    BY <2>2, EncryptSends
  <2>5. /\ f \in Frame /\ IsChannel(d) /\ Genuine(f) /\ f.ctr = s.sendCounter
        /\ d.sendCounter = s.sendCounter + 1
        /\ Announcing(s, d, f) \/ Continuing(s, d, f)
        /\ s.myRatchet.owner = p /\ c.myRatchet.owner = q
        /\ IsPrefix(s.sendingChain.chainKey.root, s.rootKey)
    BY <2>3, <2>4 DEF Sends, StreamOf
  <2>6. Extends(p, s, d, f)
    BY <2>2, <2>5, SentRoots
  <2>7. Ahead(p, d, w, c)
    BY <1>2, <2>2, <2>3, <2>4, UpToDateSends
  <2>8. StreamOf(p, d, w)
    BY <1>2, <2>2, <2>3, <2>5, StreamSent
  <2>9. KeysRead(p, d, w, c)
    BY <1>2, <2>2, <2>3, <2>5, <2>6, KeysSent
  <2>10. Following(c, d, w)
    BY <1>2, <2>2, <2>3, <2>5, <2>6, FollowingSent
  <2>11. w \in Seq(Frame) /\ w # << >> /\ w[1] = f
    BY <1>2, <2>5
  <2>12. Adoptable(c, w[1])
    BY <2>1, <2>2, <2>5, <2>7, <2>8, <2>11, AheadAdoptable
  <2>13. Accepts(c, w[1])
    BY <2>2, <2>5, <2>8, <2>9, <2>10, <2>11, <2>12, HeadOpens
  <2> QED
    BY <2>11, <2>13
<1> QED
  BY <1>4, <1>5

(* When both streams are empty the two ends hold one root, and whichever   *)
(* speaks next, with or without a rekey, is understood.                    *)
THEOREM QuietAgreement == Spec => []AgreeWhenQuiet
<1>1. LinkInv => AgreeWhenQuiet
  BY LinkAgrees
<1> QED
  BY <1>1, LinkHolds, PTL

-----------------------------------------------------------------------------
(* CliChat.                                                                *)

LEMMA InitChat == ChatInit => ChatInv
<1> SUFFICES ASSUME ChatInit PROVE ChatInv
  OBVIOUS
<1>1. LinkInv /\ ~Forked /\ TypeOK
  BY InitLink DEF ChatInit, LinkInv
<1>2. ChatTypeOK
  BY <1>1 DEF ChatInit, ChatTypeOK
<1>3. \A p \in Party : wire[p] = << >>
  BY DEF ChatInit, Init
<1>4. pc[Initiator] = "prompt" /\ pc[Responder] = "recv"
  BY PartyAssumption DEF ChatInit, Client, Party
<1>5. Turns
  <2>1. NoMutualWait
    BY <1>4 DEF NoMutualWait, Party
  <2>2. ASSUME NEW p \in Party, pc[p] = "prompt" PROVE pc[Other(p)] # "prompt"
    BY <1>4, <2>2 DEF Party, Other
  <2>3. ASSUME NEW p \in Party
        PROVE  wire[p] = << >> /\ wire[Other(p)] = << >> /\ Len(wire[p]) <= 1
    BY <1>3, TwoParties
  <2> QED
    BY <2>1, <2>2, <2>3 DEF Turns
<1> QED
  BY <1>1, <1>2, <1>5 DEF ChatInv

\* Turns, seen from p.
LEMMA TurnsParts ==
  ASSUME Turns, NEW p \in Party
  PROVE  /\ NoMutualWait
         /\ Len(wire[p]) <= 1
         /\ wire[p] # << >> => wire[Other(p)] = << >>
         /\ pc[p] = "prompt" => /\ wire[p] = << >>
                                /\ wire[Other(p)] = << >>
                                /\ pc[Other(p)] # "prompt"
BY DEF Turns

\* Whoever speaks has read all there is.
LEMMA SpeakInTurn ==
  ASSUME ChatInv, NEW p \in Party, NEW timeDue \in BOOLEAN, Send(p, timeDue),
         pc[p] = "prompt", NEW next \in {"recv", "done"}, pc' = [pc EXCEPT ![p] = next],
         quitAt' \in [Party -> Nat \cup {-1}]
  PROVE  ChatInv'
<1> PICK q : q = Other(p)
  OBVIOUS
<1>1. /\ TypeOK /\ Streams /\ InStep /\ ~Forked /\ LinkInv /\ Turns
      /\ pc \in [Party -> {"prompt", "recv", "done"}]
  BY DEF ChatInv, ChatTypeOK, LinkInv
<1>2. /\ q \in Party /\ q # p /\ Other(q) = p
      /\ \A r \in Party : r = p \/ r = q
  BY TwoParties DEF Party
<1>3. wire[p] = << >> /\ wire[q] = << >> /\ pc[q] # "prompt"
  BY <1>1, TurnsParts
<1>4. UpToDate(p)
  BY <1>3 DEF UpToDate, Announcements
<1>5. LinkInv' /\ ~Forked' /\ TypeOK'
  BY <1>1, <1>4, SendLink, SendInStep DEF LinkInv
<1> PICK f : f = Sealed(channel[p], timeDue)
  OBVIOUS
<1>6. wire'[p] = << >> /\ wire'[q] = Append(<< >>, f) /\ f \in Frame
  BY <1>1, <1>3, SendEffect
<1>7. wire'[q] # << >> /\ Len(wire'[q]) = 1 /\ Len(wire'[p]) = 0
  BY <1>6
<1>8. pc'[p] = next /\ pc'[q] = pc[q] /\ pc' \in [Party -> {"prompt", "recv", "done"}]
  BY <1>1, <1>2
<1>9. ChatTypeOK'
  BY <1>5, <1>8 DEF ChatTypeOK
<1>10. Turns'
  <2>1. NoMutualWait'
    BY <1>2, <1>7 DEF NoMutualWait
  <2>2. ASSUME NEW r \in Party
        PROVE  /\ Len(wire'[r]) <= 1
               /\ wire'[r] # << >> => wire'[Other(r)] = << >>
               /\ pc'[r] # "prompt"
    <3>1. Len(wire'[p]) <= 1 /\ Len(wire'[q]) <= 1
      BY <1>7
    <3>2. pc'[p] # "prompt" /\ pc'[q] # "prompt"
      BY <1>3, <1>8
    <3> QED
      BY <1>2, <1>6, <3>1, <3>2
  <2> QED
    BY <2>1, <2>2 DEF Turns
<1> QED
  BY <1>5, <1>9, <1>10 DEF ChatInv

LEMMA ReadInTurn ==
  ASSUME ChatInv, NEW p \in Party, ReadFrame(p)
  PROVE  ChatInv'
<1> PICK q : q = Other(p)
  OBVIOUS
<1>1. /\ TypeOK /\ Streams /\ InStep /\ ~Forked /\ LinkInv /\ Turns
      /\ pc \in [Party -> {"prompt", "recv", "done"}]
      /\ quitAt \in [Party -> Nat \cup {-1}]
  BY DEF ChatInv, ChatTypeOK, LinkInv
<1>2. /\ q \in Party /\ q # p /\ Other(q) = p
      /\ \A r \in Party : r = p \/ r = q
  BY TwoParties DEF Party
<1>3. /\ Accept(p) \/ Reject(p)
      /\ pc' = [pc EXCEPT ![p] = AfterRead(p)]
      /\ quitAt' = quitAt
  BY DEF ReadFrame
<1>4. Accept(p) /\ LinkInv' /\ ~Forked' /\ TypeOK'
  BY <1>1, <1>3, ReadLink, ReadInStep DEF LinkInv
<1>5. AfterRead(p) \in {"prompt", "done"}
  <2>1. Accepts(channel[p], Arriving(p))
    BY <1>4 DEF Accept
  <2> QED
    BY <2>1 DEF AfterRead
<1>6. wire[p] # << >> /\ wire'[p] = Tail(wire[p]) /\ wire'[q] = wire[q]
  BY <1>1, <1>3, ReadEffect
<1>7. wire'[p] = << >> /\ wire'[q] = << >>
  <2>1. Len(wire[p]) <= 1 /\ wire[q] = << >>
    BY <1>1, <1>6, TurnsParts
  <2>2. wire[p] \in Seq(Frame)
    BY <1>1 DEF TypeOK
  <2> QED
    BY <1>6, <2>1, <2>2
<1>8. pc[q] # "prompt"
  BY <1>1, <1>2, <1>6, TurnsParts
<1>9. /\ pc'[p] \in {"prompt", "done"} /\ pc'[q] = pc[q]
      /\ pc' \in [Party -> {"prompt", "recv", "done"}]
  BY <1>1, <1>2, <1>3, <1>5
<1>10. ChatTypeOK'
  BY <1>1, <1>3, <1>4, <1>9 DEF ChatTypeOK
<1>11. Turns'
  <2>1. NoMutualWait'
    BY <1>9 DEF NoMutualWait
  <2>2. ASSUME NEW r \in Party
        PROVE  /\ Len(wire'[r]) <= 1
               /\ wire'[r] = << >> /\ wire'[Other(r)] = << >>
               /\ pc'[r] = "prompt" => pc'[Other(r)] # "prompt"
    BY <1>2, <1>7, <1>8, <1>9
  <2> QED
    BY <2>1, <2>2 DEF Turns
<1> QED
  BY <1>4, <1>10, <1>11 DEF ChatInv

\* A loop that ends without reading or writing.
LEMMA LeaveInTurn ==
  ASSUME ChatInv, NEW p \in Party, Hangup(p) \/ Interrupt(p)
  PROVE  ChatInv'
<1>1. /\ LinkInv /\ ~Forked /\ Turns
      /\ pc \in [Party -> {"prompt", "recv", "done"}]
      /\ quitAt \in [Party -> Nat \cup {-1}]
  BY DEF ChatInv, ChatTypeOK
<1>2. pc' = [pc EXCEPT ![p] = "done"] /\ UNCHANGED vars /\ quitAt' = quitAt
  BY DEF Hangup, Interrupt
<1>3. LinkInv' /\ ~Forked' /\ TypeOK' /\ wire' = wire
  BY <1>1, <1>2, StutterLink DEF LinkInv, vars
<1>4. /\ pc'[p] = "done"
      /\ pc' \in [Party -> {"prompt", "recv", "done"}]
      /\ \A r \in Party : pc'[r] = "prompt" => pc[r] = "prompt"
      /\ \A r \in Party : pc'[r] # "prompt" \/ pc'[r] = pc[r]
  BY <1>1, <1>2
<1>5. ChatTypeOK'
  BY <1>1, <1>2, <1>3, <1>4 DEF ChatTypeOK
<1>6. Turns'
  <2>1. NoMutualWait'
    BY <1>4 DEF NoMutualWait
  <2>2. ASSUME NEW r \in Party
        PROVE  /\ Len(wire'[r]) <= 1
               /\ wire'[r] # << >> => wire'[Other(r)] = << >>
               /\ pc'[r] = "prompt" => /\ wire'[r] = << >>
                                       /\ wire'[Other(r)] = << >>
                                       /\ pc'[Other(r)] # "prompt"
    <3>1. Other(r) \in Party
      BY TwoParties
    <3> QED
      BY <1>1, <1>3, <1>4, <3>1, TurnsParts
  <2> QED
    BY <2>1, <2>2 DEF Turns
<1> QED
  BY <1>3, <1>5, <1>6 DEF ChatInv

LEMMA NextChat == ChatInv /\ [ChatNext]_chatVars => ChatInv'
<1> SUFFICES ASSUME ChatInv, [ChatNext]_chatVars PROVE ChatInv'
  OBVIOUS
<1>1. ASSUME NEW p \in Party, NEW quit \in BOOLEAN, NEW timeDue \in BOOLEAN,
             Type(p, quit, timeDue)
      PROVE  ChatInv'
  <2> PICK next : next = IF quit THEN "done" ELSE "recv"
    OBVIOUS
  <2>1. /\ pc[p] = "prompt" /\ Send(p, timeDue)
        /\ pc' = [pc EXCEPT ![p] = next] /\ next \in {"recv", "done"}
        /\ quitAt' = [quitAt EXCEPT ![p] = IF quit THEN channel[p].sendCounter ELSE @]
    BY <1>1 DEF Type
  <2>2. channel[p].sendCounter \in Nat /\ quitAt \in [Party -> Nat \cup {-1}]
    BY LinkTypes DEF ChatInv, ChatTypeOK
  <2>3. quitAt' \in [Party -> Nat \cup {-1}]
    BY <2>1, <2>2
  <2> QED
    BY <2>1, <2>3, SpeakInTurn
<1>2. ASSUME NEW p \in Party, NEW timeDue \in BOOLEAN, TypeInVain(p, timeDue)
      PROVE  ChatInv'
  <2>1. /\ pc[p] = "prompt" /\ Send(p, timeDue)
        /\ pc' = [pc EXCEPT ![p] = "done"] /\ quitAt' = quitAt
    BY <1>2 DEF TypeInVain
  <2>2. quitAt' \in [Party -> Nat \cup {-1}]
    BY <2>1 DEF ChatInv, ChatTypeOK
  <2> QED
    BY <2>1, <2>2, SpeakInTurn
<1>3. ASSUME NEW p \in Party, ReadFrame(p) PROVE ChatInv'
  BY <1>3, ReadInTurn
<1>4. ASSUME NEW p \in Party, Hangup(p) \/ Interrupt(p) PROVE ChatInv'
  BY <1>4, LeaveInTurn
<1>5. CASE UNCHANGED chatVars
  <2>1. UNCHANGED vars /\ pc' = pc /\ quitAt' = quitAt /\ wire' = wire
    BY <1>5 DEF chatVars, vars
  <2>2. LinkInv' /\ ~Forked' /\ TypeOK'
    BY <2>1, StutterLink DEF ChatInv, LinkInv
  <2>3. ChatTypeOK' /\ Turns'
    BY <2>1, <2>2 DEF ChatInv, ChatTypeOK, Turns, NoMutualWait
  <2> QED
    BY <2>2, <2>3 DEF ChatInv
<1> QED
  BY <1>1, <1>2, <1>3, <1>4, <1>5 DEF ChatNext

(* The chat loops take turns: one frame at most is on the way, none while  *)
(* a user is at the prompt (client.py:104-119, server.py:104-118).           *)
THEOREM ChatHolds == ChatSpec => []ChatInv
<1>1. ChatInit => ChatInv
  BY InitChat
<1>2. ChatInv /\ [ChatNext]_chatVars => ChatInv'
  BY NextChat
<1> QED
  BY <1>1, <1>2, PTL DEF ChatSpec

(* Rekeys never cross in a chat and no message of it is rejected, whoever  *)
(* rekeys when, for whatever reason.                                       *)
THEOREM ChatIsQuiet == ChatSpec => []ChatNeverAlerts
<1>1. ChatInv => ChatNeverAlerts
  BY DEF ChatInv, LinkInv, InStep, ChatNeverAlerts
<1> QED
  BY <1>1, ChatHolds, PTL

(* The two loops never wait for each other with nothing on the way.        *)
THEOREM ChatNeverStalls == ChatSpec => []NoMutualWait
<1>1. ChatInv => NoMutualWait
  BY DEF ChatInv, Turns
<1> QED
  BY <1>1, ChatHolds, PTL

-----------------------------------------------------------------------------
(* The threads of a GUI session (GuiChannel).                              *)

EncryptState ==
  [at      : {"idle", "read", "write", "keys", "settle"},
   peerPub : KeyPair \cup {NoPub},
   root    : RootKey]

DecryptState ==
  [at   : {"idle", "read", "verify", "pub", "debt"},
   mine : KeyPair \cup {NoPub},
   root : RootKey]

ThreadTypes ==
  /\ TypeOK
  /\ enc \in [Party -> EncryptState]
  /\ dec \in [Party -> DecryptState]
  /\ sealed \in [Party -> SUBSET Frame]

\* With which of its ratchet keys p, whose channel is s and whose encrypt()
\* is at e, made its sending chain.
ChainGen(s, e) == s.myRatchet.gen + IF e.at = "keys" THEN 1 ELSE 0

\* ... and with one of the first n of its peer.
MadeFor(p, ck, g, n) == \E h \in 0 .. n : MadeBy(p, ck, g, h)

KeyOf(p, key, n) == key \in KeyPair /\ key.owner = p /\ key.gen <= n

\* Whose keys are whose: p has sealed fs, its peer has made n ratchet keys.
KeysAndChains(p, s, e, fs, n) ==
  /\ s.myRatchet.owner = p
  /\ KeyOf(Other(p), s.peerRatchetPub, n)
  /\ e.at \in {"read", "write"} => KeyOf(Other(p), e.peerPub, n)
  /\ MadeFor(p, s.sendingChain.chainKey, ChainGen(s, e), n)
  /\ \A f \in fs :
       /\ f.pub # NoPub => KeyOf(p, f.pub, s.myRatchet.gen)
       /\ \E g \in 0 .. ChainGen(s, e) :
            /\ MadeFor(p, f.seal.key.chainKey, g, n)
            /\ g = ChainGen(s, e) =>
                 /\ f.seal.key.chainKey = s.sendingChain.chainKey
                 /\ f.seal.key.step < s.sendingChain.counter

ChainKeysUsed(s, fs) == {f.seal.key.chainKey : f \in fs} \cup {s.sendingChain.chainKey}

\* The counter a chain of frames starts at.
StartOf(f) == f.ctr - f.seal.key.step
StartNow(s) == s.sendCounter - s.sendingChain.counter

\* After f comes a frame of the chain ck, which starts at the counter n.
Precedes(f, ck, n) ==
  IF f.seal.key.chainKey = ck THEN StartOf(f) = n ELSE f.ctr < n

\* What of p's frames has not been read: numbered without a gap, a chain
\* after the other.
Outstanding(p, s, e, fs, w) ==
  /\ Len(w) <= s.sendCounter
  /\ s.sendingChain.counter <= s.sendCounter
  /\ e.at \in {"keys", "settle"} =>
       s.sendingChain.counter = 0 /\ s.sendingChain.chainKey # HandshakeChainKey(p)
  /\ \A i \in DOMAIN w :
       /\ w[i] \in fs
       /\ Genuine(w[i])
       /\ w[i].ctr = Gone(s, w) + i - 1
       /\ w[i].pub # NoPub => /\ w[i].seal.key.step = 0
                              /\ w[i].seal.key.chainKey # HandshakeChainKey(p)
       /\ Precedes(w[i], s.sendingChain.chainKey, StartNow(s))
  /\ \A i, j \in DOMAIN w :
       i < j => Precedes(w[i], w[j].seal.key.chainKey, StartOf(w[j]))

\* How many of them decrypt(), which is at d, has taken its keys for.
ReadSoFar(s, d, w) == Gone(s, w) + IF d.at \in {"pub", "debt"} THEN 1 ELSE 0

\* The newest receiving chain rc, stored under k: as long as a frame of it is
\* on the way, or may still be sent, it has made a step for each that was read.
NewestAt(q, rc, k, s, fs, d, w) ==
  /\ k <= Gone(s, w)
  /\ SkippedArePassed(rc)
  /\ \/ rc.chainKey = HandshakeChainKey(q)
     \/ rc.nextCounter > 0 /\ \E f \in fs : f.seal.key.chainKey = rc.chainKey
  /\ \A i \in DOMAIN w : w[i].seal.key.chainKey = rc.chainKey =>
       StartOf(w[i]) = k /\ k + rc.nextCounter = ReadSoFar(s, d, w)
  /\ s.sendingChain.chainKey = rc.chainKey =>
       StartNow(s) = k /\ k + rc.nextCounter = ReadSoFar(s, d, w)

\* The reader of q's stream w, whose channel is c and whose decrypt() is at d.
Reading(q, c, d, s, fs, w) ==
  /\ d.at # "idle" => w # << >> /\ w[1].pub # NoPub
  /\ d.at \in {"read", "verify"} => Rekeys(c, w[1]) /\ d.mine \in KeyPair
  /\ c.window.highest < Gone(s, w)
  /\ \E k \in DOMAIN c.recvChains :
       /\ \A j \in DOMAIN c.recvChains : j <= k
       /\ NewestAt(q, c.recvChains[k], k, s, fs, d, w)

EachThread ==
  \A p \in Party :
    /\ KeysAndChains(p, channel[p], enc[p], sealed[p], channel[Other(p)].myRatchet.gen)
    /\ Outstanding(p, channel[p], enc[p], sealed[p], wire[Other(p)])
    /\ Reading(Other(p), channel[p], dec[p], channel[Other(p)], sealed[Other(p)], wire[p])
    /\ ChainKeysUsed(channel[p], sealed[p])
         \cap ChainKeysUsed(channel[Other(p)], sealed[Other(p)]) = {}

ThreadInv == ThreadTypes /\ EachThread /\ ThreadsReuseNoKey

-----------------------------------------------------------------------------
(* The sender's side.                                                      *)

SendingTypes(s, e, fs, w) ==
  /\ s.myRatchet \in KeyPair
  /\ s.sendCounter \in Nat
  /\ s.sendingChain.counter \in Nat
  /\ s.sendingChain.chainKey \in ChainKey
  /\ e \in EncryptState
  /\ fs \in SUBSET Frame
  /\ w \in Seq(Frame)

LEMMA ThreadTyping ==
  ASSUME ThreadTypes, NEW p \in Party
  PROVE  /\ Other(p) \in Party /\ Other(Other(p)) = p /\ Other(p) # p
         /\ IsChannel(channel[p])
         /\ SendingTypes(channel[p], enc[p], sealed[p], wire[Other(p)])
         /\ dec[p] \in DecryptState
         /\ wire[p] \in Seq(Frame)
<1>1. Other(p) \in Party /\ Other(Other(p)) = p /\ Other(p) # p
  BY TwoParties
<1>2. IsChannel(channel[p]) /\ wire[p] \in Seq(Frame) /\ wire[Other(p)] \in Seq(Frame)
  BY <1>1, LinkTypes DEF ThreadTypes
<1>3. SendingTypes(channel[p], enc[p], sealed[p], wire[Other(p)])
  BY <1>2 DEF SendingTypes, ThreadTypes, IsChannel, IsSendingChain
<1> QED
  BY <1>1, <1>2, <1>3 DEF ThreadTypes

LEMMA GenIsNat ==
  ASSUME NEW s, s.myRatchet \in KeyPair, NEW e
  PROVE  s.myRatchet.gen \in Nat /\ ChainGen(s, e) \in Nat
BY DEF ChainGen, KeyPair

LEMMA MoreKeys ==
  ASSUME NEW p, NEW n \in Nat, NEW m \in Nat, n <= m
  PROVE  /\ \A key : KeyOf(p, key, n) => KeyOf(p, key, m)
         /\ \A ck, g : MadeFor(p, ck, g, n) => MadeFor(p, ck, g, m)
BY DEF KeyOf, MadeFor, KeyPair

\* Whose keys are whose does not depend on what a step of another kind
\* changes, and the peer may have made another ratchet key.
LEMMA KeysKept ==
  ASSUME NEW p \in Party, NEW s, NEW e, NEW fs, NEW n \in Nat, KeysAndChains(p, s, e, fs, n),
         NEW t, t.myRatchet = s.myRatchet, t.sendingChain = s.sendingChain,
         NEW m \in Nat, n <= m, KeyOf(Other(p), t.peerRatchetPub, m),
         NEW e2, ChainGen(t, e2) = ChainGen(s, e),
         e2.at \in {"read", "write"} => KeyOf(Other(p), e2.peerPub, m)
  PROVE  KeysAndChains(p, t, e2, fs, m)
<1>1. MadeFor(p, t.sendingChain.chainKey, ChainGen(t, e2), m)
  BY MoreKeys DEF KeysAndChains
<1>2. ASSUME NEW f \in fs
      PROVE  /\ f.pub # NoPub => KeyOf(p, f.pub, t.myRatchet.gen)
             /\ \E g \in 0 .. ChainGen(t, e2) :
                  /\ MadeFor(p, f.seal.key.chainKey, g, m)
                  /\ g = ChainGen(t, e2) =>
                       /\ f.seal.key.chainKey = t.sendingChain.chainKey
                       /\ f.seal.key.step < t.sendingChain.counter
  <2>1. PICK g \in 0 .. ChainGen(s, e) :
                  /\ MadeFor(p, f.seal.key.chainKey, g, n)
                  /\ g = ChainGen(s, e) =>
                       /\ f.seal.key.chainKey = s.sendingChain.chainKey
                       /\ f.seal.key.step < s.sendingChain.counter
    BY DEF KeysAndChains
  <2>2. MadeFor(p, f.seal.key.chainKey, g, m)
    BY <2>1, MoreKeys
  <2>3. f.pub # NoPub => KeyOf(p, f.pub, t.myRatchet.gen)
    BY DEF KeysAndChains
  <2> QED
    BY <2>1, <2>2, <2>3
<1> QED
  BY <1>1, <1>2 DEF KeysAndChains

\* _perform_send_ratchet_step has assigned the chain ck, made with the next
\* ratchet key.
LEMMA KeysRenewed ==
  ASSUME NEW p \in Party, NEW s, NEW e, NEW fs, NEW n \in Nat, KeysAndChains(p, s, e, fs, n),
         s.myRatchet \in KeyPair, e.at # "keys",
         NEW t, t.myRatchet = s.myRatchet, t.peerRatchetPub = s.peerRatchetPub,
         NEW e2, e2.at = "keys",
         MadeFor(p, t.sendingChain.chainKey, s.myRatchet.gen + 1, n)
  PROVE  KeysAndChains(p, t, e2, fs, n)
<1>1. s.myRatchet.gen \in Nat /\ ChainGen(s, e) = s.myRatchet.gen
      /\ ChainGen(t, e2) = s.myRatchet.gen + 1
  BY DEF ChainGen, KeyPair
<1>2. ASSUME NEW f \in fs
      PROVE  \E g \in 0 .. ChainGen(t, e2) :
                  /\ MadeFor(p, f.seal.key.chainKey, g, n)
                  /\ g = ChainGen(t, e2) =>
                       /\ f.seal.key.chainKey = t.sendingChain.chainKey
                       /\ f.seal.key.step < t.sendingChain.counter
  <2>1. PICK g \in 0 .. ChainGen(s, e) : MadeFor(p, f.seal.key.chainKey, g, n)
    BY DEF KeysAndChains
  <2>2. g \in 0 .. ChainGen(t, e2) /\ g # ChainGen(t, e2)
    BY <1>1, <2>1
  <2> QED
    BY <2>1, <2>2
<1>3. \A f \in fs : f.pub # NoPub => KeyOf(p, f.pub, t.myRatchet.gen)
  BY DEF KeysAndChains
<1>4. /\ t.myRatchet.owner = p
      /\ KeyOf(Other(p), t.peerRatchetPub, n)
  BY DEF KeysAndChains
<1> QED
  BY <1>1, <1>2, <1>3, <1>4 DEF KeysAndChains

\* ... and has published it.
LEMMA KeysPublished ==
  ASSUME NEW p \in Party, NEW s, NEW e, NEW fs, NEW n \in Nat, KeysAndChains(p, s, e, fs, n),
         s.myRatchet \in KeyPair, e.at = "keys",
         NEW t, t.myRatchet.owner = p, t.myRatchet.gen = s.myRatchet.gen + 1,
         t.peerRatchetPub = s.peerRatchetPub, t.sendingChain = s.sendingChain,
         NEW e2, e2.at = "settle"
  PROVE  KeysAndChains(p, t, e2, fs, n)
<1>1. s.myRatchet.gen \in Nat /\ ChainGen(t, e2) = ChainGen(s, e)
  BY DEF ChainGen, KeyPair
<1>2. \A f \in fs : f.pub # NoPub => KeyOf(p, f.pub, t.myRatchet.gen)
  BY <1>1 DEF KeysAndChains, KeyOf, KeyPair
<1>3. /\ KeyOf(Other(p), t.peerRatchetPub, n)
      /\ MadeFor(p, t.sendingChain.chainKey, ChainGen(t, e2), n)
  BY <1>1 DEF KeysAndChains
<1>4. ASSUME NEW f \in fs
      PROVE  \E g \in 0 .. ChainGen(t, e2) :
                  /\ MadeFor(p, f.seal.key.chainKey, g, n)
                  /\ g = ChainGen(t, e2) =>
                       /\ f.seal.key.chainKey = t.sendingChain.chainKey
                       /\ f.seal.key.step < t.sendingChain.counter
  BY <1>1 DEF KeysAndChains
<1> QED
  BY <1>2, <1>3, <1>4 DEF KeysAndChains

\* p, whose channel was s, sealed f with the chain in use: its channel is d.
Seals(s, d, f) ==
  /\ d.myRatchet = s.myRatchet
  /\ d.peerRatchetPub = s.peerRatchetPub
  /\ d.sendCounter = s.sendCounter + 1
  /\ d.sendingChain.chainKey = s.sendingChain.chainKey
  /\ d.sendingChain.counter = s.sendingChain.counter + 1
  /\ f \in Frame
  /\ Genuine(f)
  /\ f.ctr = s.sendCounter
  /\ f.seal.key.chainKey = s.sendingChain.chainKey
  /\ f.seal.key.step = s.sendingChain.counter

LEMMA KeysSealed ==
  ASSUME NEW p \in Party, NEW s, NEW e, NEW fs, NEW w, NEW n \in Nat,
         KeysAndChains(p, s, e, fs, n), SendingTypes(s, e, fs, w), e.at # "keys",
         NEW d, NEW f, Seals(s, d, f), f.pub \in {NoPub, s.myRatchet},
         NEW e2, e2.at = "idle"
  PROVE  KeysAndChains(p, d, e2, fs \cup {f}, n)
<1>1. /\ s.myRatchet.gen \in Nat /\ s.sendingChain.counter \in Nat
      /\ ChainGen(s, e) = s.myRatchet.gen /\ ChainGen(d, e2) = s.myRatchet.gen
  BY DEF ChainGen, KeyPair, SendingTypes, Seals
<1>2. /\ d.myRatchet.owner = p
      /\ KeyOf(Other(p), d.peerRatchetPub, n)
      /\ MadeFor(p, d.sendingChain.chainKey, ChainGen(d, e2), n)
  BY <1>1 DEF KeysAndChains, Seals
<1>3. ASSUME NEW h \in fs \cup {f}
      PROVE  /\ h.pub # NoPub => KeyOf(p, h.pub, d.myRatchet.gen)
             /\ \E g \in 0 .. ChainGen(d, e2) :
                  /\ MadeFor(p, h.seal.key.chainKey, g, n)
                  /\ g = ChainGen(d, e2) =>
                       /\ h.seal.key.chainKey = d.sendingChain.chainKey
                       /\ h.seal.key.step < d.sendingChain.counter
  <2>1. CASE h \in fs
    <3>1. PICK g \in 0 .. ChainGen(s, e) :
                  /\ MadeFor(p, h.seal.key.chainKey, g, n)
                  /\ g = ChainGen(s, e) =>
                       /\ h.seal.key.chainKey = s.sendingChain.chainKey
                       /\ h.seal.key.step < s.sendingChain.counter
      BY <2>1 DEF KeysAndChains
    <3>2. h.seal.key.step \in Nat
      BY <2>1, FrameRoot DEF SendingTypes
    <3>3. h.pub # NoPub => KeyOf(p, h.pub, d.myRatchet.gen)
      BY <2>1 DEF KeysAndChains, Seals
    <3>4. g = ChainGen(d, e2) =>
            /\ h.seal.key.chainKey = d.sendingChain.chainKey
            /\ h.seal.key.step < d.sendingChain.counter
      BY <1>1, <3>1, <3>2 DEF Seals
    <3> QED
      BY <1>1, <3>1, <3>3, <3>4
  <2>2. CASE h = f
    <3>1. h.pub # NoPub => KeyOf(p, h.pub, d.myRatchet.gen)
      BY <1>1, <1>2, <2>2 DEF KeyOf, Seals, SendingTypes
    <3>2. /\ MadeFor(p, h.seal.key.chainKey, ChainGen(d, e2), n)
          /\ h.seal.key.chainKey = d.sendingChain.chainKey
          /\ h.seal.key.step < d.sendingChain.counter
      BY <1>1, <1>2, <2>2 DEF Seals
    <3>3. ChainGen(d, e2) \in 0 .. ChainGen(d, e2)
      BY <1>1
    <3> QED
      BY <3>1, <3>2, <3>3
  <2> QED
    BY <2>1, <2>2
<1> QED
  BY <1>2, <1>3 DEF KeysAndChains

\* A chain key made with p's next ratchet key is one nobody has used.
LEMMA ChainIsNew ==
  ASSUME NEW p \in Party, NEW s, NEW e, NEW fs, NEW t, NEW d, NEW gs, NEW n \in Nat,
         \* p's channel is s, that of the peer is t.
         s.myRatchet \in KeyPair, t.myRatchet \in KeyPair,
         KeysAndChains(p, s, e, fs, n), KeysAndChains(Other(p), t, d, gs, s.myRatchet.gen),
         e.at # "keys", NEW ck, MadeFor(p, ck, s.myRatchet.gen + 1, n)
  PROVE  ck \notin ChainKeysUsed(s, fs) /\ ck \notin ChainKeysUsed(t, gs)
<1>1. Other(p) \in Party /\ Other(Other(p)) = p
  BY TwoParties
<1>2. PICK m \in Nat : m = s.myRatchet.gen /\ ChainGen(s, e) = m
  BY DEF ChainGen, KeyPair
<1>3. PICK r \in Nat : r = ChainGen(t, d)
  BY DEF ChainGen, KeyPair
<1>4. PICK h \in Nat : MadeBy(p, ck, m + 1, h)
  BY <1>2 DEF MadeFor
<1>5. ASSUME ck \in ChainKeysUsed(s, fs) PROVE FALSE
  <2>1. \E g \in 0 .. m : MadeFor(p, ck, g, n)
    BY <1>2, <1>5 DEF ChainKeysUsed, KeysAndChains
  <2>2. PICK g \in 0 .. m, h2 \in Nat : MadeBy(p, ck, g, h2)
    BY <2>1 DEF MadeFor
  <2>3. g = m + 1
    BY <1>4, <2>2, MadeOnce
  <2> QED
    BY <2>2, <2>3
<1>6. ASSUME ck \in ChainKeysUsed(t, gs) PROVE FALSE
  <2>1. \E g \in 0 .. r : MadeFor(Other(p), ck, g, m)
    BY <1>2, <1>3, <1>6 DEF ChainKeysUsed, KeysAndChains
  <2>2. PICK g \in 0 .. r, h2 \in 0 .. m : MadeBy(Other(p), ck, g, h2)
    BY <2>1 DEF MadeFor
  <2>3. h2 < m + 1
    BY <2>2
  <2> QED
    BY <1>4, <2>2, <2>3, MadeApart
<1> QED
  BY <1>5, <1>6

\* The next key of the chain in use is one p has not sealed with.
LEMMA KeyIsNew ==
  ASSUME NEW p \in Party, NEW s, NEW e, NEW fs, NEW n \in Nat, s.myRatchet \in KeyPair,
         KeysAndChains(p, s, e, fs, n), NEW h \in fs,
         h.seal.key.chainKey = s.sendingChain.chainKey, h.seal.key.step \in Nat,
         s.sendingChain.counter \in Nat
  PROVE  h.seal.key.step # s.sendingChain.counter
<1>1. PICK m \in Nat : m = ChainGen(s, e)
  BY GenIsNat
<1>2. PICK g \in 0 .. m :
                  /\ MadeFor(p, h.seal.key.chainKey, g, n)
                  /\ g = m => h.seal.key.step < s.sendingChain.counter
  BY <1>1 DEF KeysAndChains
<1>3. MadeFor(p, s.sendingChain.chainKey, m, n)
  BY <1>1 DEF KeysAndChains
<1>4. PICK k \in Nat : MadeBy(p, s.sendingChain.chainKey, m, k)
  BY <1>3 DEF MadeFor
<1>5. PICK l \in Nat : MadeBy(p, s.sendingChain.chainKey, g, l)
  BY <1>2 DEF MadeFor
<1>6. g = m
  BY <1>2, <1>4, <1>5, MadeOnce
<1> QED
  BY <1>2, <1>6

-----------------------------------------------------------------------------
(* What has not been read.                                                 *)

FrameOut(p, s, fs, w, i) ==
  /\ w[i] \in fs
  /\ Genuine(w[i])
  /\ w[i].ctr = Gone(s, w) + i - 1
  /\ w[i].pub # NoPub => /\ w[i].seal.key.step = 0
                         /\ w[i].seal.key.chainKey # HandshakeChainKey(p)
  /\ Precedes(w[i], s.sendingChain.chainKey, StartNow(s))

FreshChain(p, s, e) ==
  e.at \in {"keys", "settle"} =>
    s.sendingChain.counter = 0 /\ s.sendingChain.chainKey # HandshakeChainKey(p)

FrameBefore(f, h) == Precedes(f, h.seal.key.chainKey, StartOf(h))

LEMMA OutstandingParts ==
  ASSUME NEW p, NEW s, NEW e, NEW fs, NEW w
  PROVE  Outstanding(p, s, e, fs, w) <=>
           /\ Len(w) <= s.sendCounter
           /\ s.sendingChain.counter <= s.sendCounter
           /\ FreshChain(p, s, e)
           /\ \A i \in DOMAIN w : FrameOut(p, s, fs, w, i)
           /\ \A i, j \in DOMAIN w : i < j => FrameBefore(w[i], w[j])
BY DEF Outstanding, FreshChain, FrameOut, FrameBefore

LEMMA OutstandingKept ==
  ASSUME NEW p, NEW s, NEW e, NEW fs, NEW w, Outstanding(p, s, e, fs, w),
         NEW t, t.sendCounter = s.sendCounter, t.sendingChain = s.sendingChain,
         NEW e2, e2.at \in {"keys", "settle"} => e.at \in {"keys", "settle"}
  PROVE  Outstanding(p, t, e2, fs, w)
<1>1. Gone(t, w) = Gone(s, w) /\ StartNow(t) = StartNow(s)
  BY DEF Gone, StartNow
<1> QED
  BY <1>1 DEF Outstanding

LEMMA OutstandingRead ==
  ASSUME NEW p, NEW s, NEW e, NEW fs, NEW w, SendingTypes(s, e, fs, w), w # << >>,
         Outstanding(p, s, e, fs, w)
  PROVE  /\ Outstanding(p, s, e, fs, Tail(w))
         /\ Gone(s, Tail(w)) = Gone(s, w) + 1
         /\ Gone(s, w) \in Nat
<1>1. /\ w \in Seq(Frame) /\ s.sendCounter \in Nat
  BY DEF SendingTypes
<1>2. /\ Len(w) > 0 /\ Len(w) \in Nat
      /\ Len(Tail(w)) = Len(w) - 1
      /\ DOMAIN w = 1 .. Len(w)
      /\ DOMAIN Tail(w) = 1 .. (Len(w) - 1)
      /\ \A i \in 1 .. (Len(w) - 1) : Tail(w)[i] = w[i + 1]
  BY <1>1, TailAt
<1>3. Gone(s, Tail(w)) = Gone(s, w) + 1 /\ Gone(s, w) \in Nat
  BY <1>1, <1>2 DEF Gone, Outstanding
<1>4. ASSUME NEW i \in DOMAIN Tail(w) PROVE FrameOut(p, s, fs, Tail(w), i)
  <2>1. i + 1 \in DOMAIN w /\ Tail(w)[i] = w[i + 1] /\ i \in Nat
    BY <1>2
  <2>2. FrameOut(p, s, fs, w, i + 1)
    BY <2>1, OutstandingParts
  <2>3. w[i + 1].ctr = Gone(s, Tail(w)) + i - 1
    BY <1>3, <2>1, <2>2 DEF FrameOut
  <2> QED
    BY <2>1, <2>2, <2>3 DEF FrameOut
<1>5. ASSUME NEW i \in DOMAIN Tail(w), NEW j \in DOMAIN Tail(w), i < j
      PROVE  FrameBefore(Tail(w)[i], Tail(w)[j])
  <2>1. /\ i + 1 \in DOMAIN w /\ Tail(w)[i] = w[i + 1] /\ i \in Nat
        /\ j + 1 \in DOMAIN w /\ Tail(w)[j] = w[j + 1] /\ j \in Nat
        /\ i + 1 < j + 1
    BY <1>2, <1>5
  <2> QED
    BY <2>1, OutstandingParts
<1>6. Len(Tail(w)) <= s.sendCounter /\ s.sendingChain.counter <= s.sendCounter
      /\ FreshChain(p, s, e)
  BY <1>1, <1>2, OutstandingParts
<1> QED
  BY <1>3, <1>4, <1>5, <1>6, OutstandingParts

LEMMA OutstandingRenewed ==
  ASSUME NEW p, NEW s, NEW e, NEW fs, NEW w, SendingTypes(s, e, fs, w),
         Outstanding(p, s, e, fs, w),
         NEW t, t.sendCounter = s.sendCounter, t.sendingChain.counter = 0,
         t.sendingChain.chainKey # HandshakeChainKey(p),
         t.sendingChain.chainKey \notin ChainKeysUsed(s, fs),
         NEW e2
  PROVE  Outstanding(p, t, e2, fs, w)
<1>1. /\ w \in Seq(Frame) /\ s.sendCounter \in Nat /\ DOMAIN w = 1 .. Len(w) /\ Len(w) \in Nat
  BY DEF SendingTypes
<1>2. Gone(t, w) = Gone(s, w) /\ StartNow(t) = s.sendCounter /\ Gone(s, w) = s.sendCounter - Len(w)
  BY <1>1 DEF Gone, StartNow
<1>3. ASSUME NEW i \in DOMAIN w PROVE FrameOut(p, t, fs, w, i)
  <2>1. FrameOut(p, s, fs, w, i)
    BY OutstandingParts
  <2>2. w[i].seal.key.chainKey # t.sendingChain.chainKey
    BY <2>1 DEF FrameOut, ChainKeysUsed
  <2>3. w[i].ctr < s.sendCounter
    BY <1>1, <1>2, <2>1 DEF FrameOut
  <2> QED
    BY <1>2, <2>1, <2>2, <2>3 DEF FrameOut, Precedes
<1>4. /\ Len(w) <= t.sendCounter /\ t.sendingChain.counter <= t.sendCounter
      /\ FreshChain(p, t, e2)
      /\ \A i, j \in DOMAIN w : i < j => FrameBefore(w[i], w[j])
  BY <1>1, OutstandingParts DEF FreshChain
<1> QED
  BY <1>3, <1>4, OutstandingParts

LEMMA BothOneUp ==
  ASSUME NEW m \in Nat, NEW n \in Nat
  PROVE  (m + 1) - (n + 1) = m - n
OBVIOUS

LEMMA OutstandingSealed ==
  ASSUME NEW p, NEW s, NEW e, NEW fs, NEW w, SendingTypes(s, e, fs, w),
         Outstanding(p, s, e, fs, w), NEW d, NEW f, Seals(s, d, f),
         f.pub = NoPub \/ e.at = "settle", NEW e2, e2.at = "idle"
  PROVE  /\ Outstanding(p, d, e2, fs \cup {f}, Append(w, f))
         /\ Gone(d, Append(w, f)) = Gone(s, w)
         /\ StartNow(d) = StartNow(s)
         /\ StartOf(f) = StartNow(s)
<1>1. /\ w \in Seq(Frame) /\ s.sendCounter \in Nat /\ s.sendingChain.counter \in Nat
      /\ f \in Frame
  BY DEF SendingTypes, Seals
<1>2. /\ Len(Append(w, f)) = Len(w) + 1 /\ Len(w) \in Nat
      /\ \A i \in 1 .. Len(w) : Append(w, f)[i] = w[i]
      /\ Append(w, f)[Len(w) + 1] = f
      /\ DOMAIN Append(w, f) = 1 .. Len(w) + 1
      /\ DOMAIN w = 1 .. Len(w)
  BY <1>1, AppendedAt
<1>3. /\ Gone(d, Append(w, f)) = Gone(s, w) /\ Gone(s, w) = s.sendCounter - Len(w)
      /\ StartNow(d) = StartNow(s) /\ StartNow(s) = s.sendCounter - s.sendingChain.counter
      /\ StartOf(f) = StartNow(s)
  <2>1. /\ d.sendCounter = s.sendCounter + 1
        /\ d.sendingChain.counter = s.sendingChain.counter + 1
        /\ f.ctr = s.sendCounter /\ f.seal.key.step = s.sendingChain.counter
    BY DEF Seals
  <2>2. /\ Gone(d, Append(w, f)) = (s.sendCounter + 1) - (Len(w) + 1)
        /\ Gone(s, w) = s.sendCounter - Len(w)
    BY <1>2, <2>1 DEF Gone
  <2>3. /\ StartNow(d) = (s.sendCounter + 1) - (s.sendingChain.counter + 1)
        /\ StartNow(s) = s.sendCounter - s.sendingChain.counter
        /\ StartOf(f) = s.sendCounter - s.sendingChain.counter
    BY <2>1 DEF StartNow, StartOf
  <2>4. (s.sendCounter + 1) - (Len(w) + 1) = s.sendCounter - Len(w)
    BY <1>1, <1>2, BothOneUp
  <2>5. (s.sendCounter + 1) - (s.sendingChain.counter + 1)
          = s.sendCounter - s.sendingChain.counter
    BY <1>1, BothOneUp
  <2> QED
    BY <2>2, <2>3, <2>4, <2>5, Zenon
<1>4. FrameOut(p, d, fs \cup {f}, Append(w, f), Len(w) + 1)
  <2>1. f.ctr = Gone(d, Append(w, f)) + (Len(w) + 1) - 1
    BY <1>1, <1>2, <1>3 DEF Seals
  <2>2. f.pub # NoPub => f.seal.key.step = 0 /\ f.seal.key.chainKey # HandshakeChainKey(p)
    BY OutstandingParts DEF FreshChain, Seals
  <2>3. Precedes(f, d.sendingChain.chainKey, StartNow(d))
    BY <1>3 DEF Precedes, Seals
  <2> QED
    BY <1>2, <2>1, <2>2, <2>3 DEF FrameOut, Seals
<1>5. ASSUME NEW i \in 1 .. Len(w) PROVE FrameOut(p, d, fs \cup {f}, Append(w, f), i)
  <2>1. FrameOut(p, s, fs, w, i) /\ Append(w, f)[i] = w[i]
    BY <1>2, OutstandingParts
  <2>2. Precedes(w[i], d.sendingChain.chainKey, StartNow(d))
    BY <1>3, <2>1 DEF FrameOut, Seals
  <2> QED
    BY <1>3, <2>1, <2>2 DEF FrameOut
<1>6. ASSUME NEW i \in DOMAIN Append(w, f), NEW j \in DOMAIN Append(w, f), i < j
      PROVE  FrameBefore(Append(w, f)[i], Append(w, f)[j])
  <2>1. i \in 1 .. Len(w) /\ Append(w, f)[i] = w[i]
    BY <1>2, <1>6
  <2>2. CASE j \in 1 .. Len(w)
    BY <1>2, <1>6, <2>1, <2>2, OutstandingParts
  <2>3. CASE j = Len(w) + 1
    <3>1. Precedes(w[i], s.sendingChain.chainKey, StartNow(s))
      BY <1>2, <2>1, OutstandingParts DEF FrameOut
    <3> QED
      BY <1>2, <1>3, <2>1, <2>3, <3>1 DEF FrameBefore, Seals
  <2> QED
    BY <1>2, <2>2, <2>3
<1>7. /\ Len(Append(w, f)) <= d.sendCounter /\ d.sendingChain.counter <= d.sendCounter
      /\ FreshChain(p, d, e2)
  BY <1>1, <1>2, OutstandingParts DEF FreshChain, Seals
<1>8. ASSUME NEW i \in DOMAIN Append(w, f) PROVE FrameOut(p, d, fs \cup {f}, Append(w, f), i)
  <2>1. i \in 1 .. Len(w) \/ i = Len(w) + 1
    BY <1>2
  <2> QED
    BY <1>4, <1>5, <2>1
<1> QED
  BY <1>3, <1>6, <1>7, <1>8, OutstandingParts

-----------------------------------------------------------------------------
(* The reader's side.                                                      *)

\* What the invariant says of the newest chain in three named parts.
ChainKnown(q, rc, fs) ==
  \/ rc.chainKey = HandshakeChainKey(q)
  \/ rc.nextCounter > 0 /\ \E f \in fs : f.seal.key.chainKey = rc.chainKey

OnChain(rc, k, r, ck, n) == ck = rc.chainKey => n = k /\ k + rc.nextCounter = r

LEMMA NewestParts ==
  ASSUME NEW q, NEW rc, NEW k, NEW s, NEW fs, NEW d, NEW w
  PROVE  NewestAt(q, rc, k, s, fs, d, w) <=>
           /\ k <= Gone(s, w)
           /\ SkippedArePassed(rc)
           /\ ChainKnown(q, rc, fs)
           /\ \A i \in DOMAIN w :
                OnChain(rc, k, ReadSoFar(s, d, w), w[i].seal.key.chainKey, StartOf(w[i]))
           /\ OnChain(rc, k, ReadSoFar(s, d, w), s.sendingChain.chainKey, StartNow(s))
BY DEF NewestAt, ChainKnown, OnChain

ReadingAt(q, c, d, s, fs, w, k) ==
  /\ k \in DOMAIN c.recvChains
  /\ \A j \in DOMAIN c.recvChains : j <= k
  /\ NewestAt(q, c.recvChains[k], k, s, fs, d, w)

ReadingPlace(c, d, w) ==
  /\ d.at # "idle" => w # << >> /\ w[1].pub # NoPub
  /\ d.at \in {"read", "verify"} => Rekeys(c, w[1]) /\ d.mine \in KeyPair

LEMMA ReadingParts ==
  ASSUME NEW q, NEW c, NEW d, NEW s, NEW fs, NEW w
  PROVE  Reading(q, c, d, s, fs, w) <=>
           /\ ReadingPlace(c, d, w)
           /\ c.window.highest < Gone(s, w)
           /\ \E k : ReadingAt(q, c, d, s, fs, w, k)
BY DEF Reading, ReadingAt, ReadingPlace

\* A step that neither reads nor sends a frame, nor makes a chain.
LEMMA ReadingKept ==
  ASSUME NEW q, NEW c, NEW d, NEW s, NEW fs, NEW w, Reading(q, c, d, s, fs, w),
         NEW b, b.recvChains = c.recvChains, b.window = c.window,
         NEW t, t.sendCounter = s.sendCounter, t.sendingChain = s.sendingChain,
         NEW d2, d2.at \in {"pub", "debt"} <=> d.at \in {"pub", "debt"},
         ReadingPlace(b, d2, w)
  PROVE  Reading(q, b, d2, t, fs, w)
<1>1. PICK k : ReadingAt(q, c, d, s, fs, w, k)
  BY ReadingParts
<1>2. /\ Gone(t, w) = Gone(s, w) /\ StartNow(t) = StartNow(s)
      /\ ReadSoFar(t, d2, w) = ReadSoFar(s, d, w)
  BY DEF Gone, StartNow, ReadSoFar
<1>3. NewestAt(q, b.recvChains[k], k, t, fs, d2, w)
  BY <1>1, <1>2 DEF ReadingAt, NewestAt
<1>4. ReadingAt(q, b, d2, t, fs, w, k)
  BY <1>1, <1>3 DEF ReadingAt
<1>5. b.window.highest < Gone(t, w)
  BY <1>2, ReadingParts
<1> QED
  BY <1>4, <1>5, ReadingParts

\* The sender has made a chain nobody knows.
LEMMA ReadingRenewed ==
  ASSUME NEW q, NEW c, NEW d, NEW s, NEW fs, NEW w, Reading(q, c, d, s, fs, w),
         NEW t, t.sendCounter = s.sendCounter,
         t.sendingChain.chainKey # HandshakeChainKey(q),
         t.sendingChain.chainKey \notin ChainKeysUsed(s, fs)
  PROVE  Reading(q, c, d, t, fs, w)
<1>1. PICK k : ReadingAt(q, c, d, s, fs, w, k)
  BY ReadingParts
<1>2. Gone(t, w) = Gone(s, w) /\ ReadSoFar(t, d, w) = ReadSoFar(s, d, w)
  BY DEF Gone, ReadSoFar
<1>3. NewestAt(q, c.recvChains[k], k, s, fs, d, w)
  BY <1>1 DEF ReadingAt
<1>4. ChainKnown(q, c.recvChains[k], fs)
  BY <1>3, NewestParts
<1>5. c.recvChains[k].chainKey # t.sendingChain.chainKey
  BY <1>4 DEF ChainKnown, ChainKeysUsed
<1>6. NewestAt(q, c.recvChains[k], k, t, fs, d, w)
  BY <1>2, <1>3, <1>5 DEF NewestAt
<1>7. ReadingAt(q, c, d, t, fs, w, k)
  BY <1>1, <1>6 DEF ReadingAt
<1>8. c.window.highest < Gone(t, w) /\ ReadingPlace(c, d, w)
  BY <1>2, ReadingParts
<1> QED
  BY <1>7, <1>8, ReadingParts

\* The sender has sealed another frame.
LEMMA ReadingSealed ==
  ASSUME NEW q, NEW c, NEW d, NEW s, NEW e, NEW fs, NEW w, Reading(q, c, d, s, fs, w),
         SendingTypes(s, e, fs, w), NEW t, NEW f, Seals(s, t, f),
         Gone(t, Append(w, f)) = Gone(s, w), StartNow(t) = StartNow(s), StartOf(f) = StartNow(s)
  PROVE  Reading(q, c, d, t, fs \cup {f}, Append(w, f))
<1>1. PICK k : ReadingAt(q, c, d, s, fs, w, k)
  BY ReadingParts
<1> PICK rc : rc = c.recvChains[k]
  OBVIOUS
<1>2. NewestAt(q, rc, k, s, fs, d, w)
  BY <1>1 DEF ReadingAt
<1>3. /\ w \in Seq(Frame) /\ f \in Frame
      /\ f.seal.key.chainKey = s.sendingChain.chainKey
      /\ t.sendingChain.chainKey = s.sendingChain.chainKey
  BY DEF SendingTypes, Seals
<1>4. /\ Len(Append(w, f)) = Len(w) + 1 /\ Len(w) \in Nat
      /\ \A i \in 1 .. Len(w) : Append(w, f)[i] = w[i]
      /\ Append(w, f)[Len(w) + 1] = f
      /\ DOMAIN Append(w, f) = 1 .. Len(w) + 1
      /\ DOMAIN w = 1 .. Len(w)
  BY <1>3, AppendedAt
<1>5. ReadSoFar(t, d, Append(w, f)) = ReadSoFar(s, d, w)
  BY DEF ReadSoFar
<1> PICK r : r = ReadSoFar(s, d, w)
  OBVIOUS
<1>6. OnChain(rc, k, r, s.sendingChain.chainKey, StartNow(s))
  BY <1>2, NewestParts
<1>7. ASSUME NEW i \in DOMAIN Append(w, f)
      PROVE  OnChain(rc, k, r, Append(w, f)[i].seal.key.chainKey, StartOf(Append(w, f)[i]))
  <2>1. i \in 1 .. Len(w) \/ i = Len(w) + 1
    BY <1>4
  <2>2. CASE i \in 1 .. Len(w)
    BY <1>2, <1>4, <2>2, NewestParts
  <2>3. CASE i = Len(w) + 1
    BY <1>3, <1>4, <1>6, <2>3
  <2> QED
    BY <2>1, <2>2, <2>3
<1>8. ChainKnown(q, rc, fs \cup {f})
  <2>1. ChainKnown(q, rc, fs)
    BY <1>2, NewestParts
  <2> QED
    BY <2>1 DEF ChainKnown
<1>9. k <= Gone(t, Append(w, f)) /\ SkippedArePassed(rc)
  BY <1>2, NewestParts
<1>10. OnChain(rc, k, r, t.sendingChain.chainKey, StartNow(t))
  BY <1>3, <1>6
<1>11. NewestAt(q, rc, k, t, fs \cup {f}, d, Append(w, f))
  BY <1>5, <1>7, <1>8, <1>9, <1>10, NewestParts
<1>12. ReadingAt(q, c, d, t, fs \cup {f}, Append(w, f), k)
  BY <1>1, <1>11 DEF ReadingAt
<1>13. ReadingPlace(c, d, Append(w, f))
  <2>1. ReadingPlace(c, d, w)
    BY ReadingParts
  <2>2. w # << >> => Append(w, f) # << >> /\ Append(w, f)[1] = w[1]
    BY <1>3, <1>4
  <2> QED
    BY <2>1, <2>2 DEF ReadingPlace
<1>14. c.window.highest < Gone(t, Append(w, f))
  BY ReadingParts
<1> QED
  BY <1>12, <1>13, <1>14, ReadingParts

-----------------------------------------------------------------------------
(* Reading a frame.                                                        *)

\* The first frame of w and those behind it.
LEMMA FirstOut ==
  ASSUME NEW q, NEW s, NEW e, NEW fs, NEW w, SendingTypes(s, e, fs, w), w # << >>,
         Outstanding(q, s, e, fs, w)
  PROVE  /\ 1 \in DOMAIN w /\ w[1] \in Frame /\ w[1].ctr \in Nat
         /\ w[1].seal.key.step \in Nat
         /\ w[1].ctr = Gone(s, w)
         /\ FrameOut(q, s, fs, w, 1)
         /\ \A i \in DOMAIN Tail(w) :
              /\ Tail(w)[i] = w[i + 1] /\ i + 1 \in DOMAIN w
              /\ FrameBefore(w[1], w[i + 1])
<1>1. w \in Seq(Frame)
  BY DEF SendingTypes
<1>2. /\ Len(w) > 0 /\ Len(w) \in Nat
      /\ DOMAIN w = 1 .. Len(w)
      /\ DOMAIN Tail(w) = 1 .. (Len(w) - 1)
      /\ \A i \in 1 .. (Len(w) - 1) : Tail(w)[i] = w[i + 1]
      /\ 1 \in DOMAIN w
  BY <1>1, TailAt
<1>3. w[1] \in Frame /\ w[1].ctr \in Nat /\ w[1].seal.key.step \in Nat
  BY <1>1, <1>2, FrameRoot
<1>4. FrameOut(q, s, fs, w, 1)
  BY <1>2, OutstandingParts
<1>5. Gone(s, w) \in Nat
  BY OutstandingRead
<1>6. w[1].ctr = Gone(s, w)
  BY <1>4, <1>5 DEF FrameOut
<1>7. ASSUME NEW i \in DOMAIN Tail(w)
      PROVE  /\ Tail(w)[i] = w[i + 1] /\ i + 1 \in DOMAIN w
             /\ FrameBefore(w[1], w[i + 1])
  <2>1. Tail(w)[i] = w[i + 1] /\ i + 1 \in DOMAIN w /\ 1 < i + 1
    BY <1>2
  <2> QED
    BY <1>2, <2>1, OutstandingParts
<1> QED
  BY <1>2, <1>3, <1>4, <1>6, <1>7

\* The newest chain rc has become rc2 while the first frame was read.
LEMMA NewestOn ==
  ASSUME NEW q, NEW s, NEW e, NEW fs, NEW w, SendingTypes(s, e, fs, w), w # << >>,
         Outstanding(q, s, e, fs, w),
         NEW rc, rc.nextCounter \in Nat, NEW k \in Nat,
         NEW d, d.at \notin {"pub", "debt"}, NewestAt(q, rc, k, s, fs, d, w),
         NEW rc2, SkippedArePassed(rc2), rc2.chainKey = rc.chainKey,
         rc2.nextCounter \in Nat, rc2.nextCounter >= rc.nextCounter,
         w[1].seal.key.chainKey = rc.chainKey => rc2.nextCounter = rc.nextCounter + 1,
         NEW d2, d2.at = "idle"
  PROVE  NewestAt(q, rc2, k, s, fs, d2, Tail(w))
<1>1. Gone(s, Tail(w)) = Gone(s, w) + 1 /\ Gone(s, w) \in Nat
  BY OutstandingRead
<1>2. /\ ReadSoFar(s, d, w) = Gone(s, w)
      /\ ReadSoFar(s, d2, Tail(w)) = Gone(s, w) + 1
  BY <1>1 DEF ReadSoFar
<1> PICK r \in Nat : r = Gone(s, w)
  BY <1>1
<1>3. /\ k <= r /\ ChainKnown(q, rc, fs)
      /\ \A i \in DOMAIN w : OnChain(rc, k, r, w[i].seal.key.chainKey, StartOf(w[i]))
      /\ OnChain(rc, k, r, s.sendingChain.chainKey, StartNow(s))
  BY <1>2, NewestParts
<1>4. /\ w[1].ctr = r /\ FrameOut(q, s, fs, w, 1)
      /\ \A i \in DOMAIN Tail(w) :
           /\ Tail(w)[i] = w[i + 1] /\ i + 1 \in DOMAIN w
           /\ FrameBefore(w[1], w[i + 1])
  BY FirstOut
<1>5. ASSUME NEW ck, NEW n, OnChain(rc, k, r, ck, n), Precedes(w[1], ck, n)
      PROVE  OnChain(rc2, k, r + 1, ck, n)
  <2>1. CASE w[1].seal.key.chainKey = rc.chainKey
    BY <1>5, <2>1 DEF OnChain
  <2>2. CASE w[1].seal.key.chainKey # rc.chainKey
    <3>1. ck # rc.chainKey
      BY <1>3, <1>4, <1>5, <2>2 DEF OnChain, Precedes
    <3> QED
      BY <3>1 DEF OnChain
  <2> QED
    BY <2>1, <2>2
<1>6. ASSUME NEW i \in DOMAIN Tail(w)
      PROVE  OnChain(rc2, k, r + 1, Tail(w)[i].seal.key.chainKey, StartOf(Tail(w)[i]))
  BY <1>3, <1>4, <1>5 DEF FrameBefore
<1>7. OnChain(rc2, k, r + 1, s.sendingChain.chainKey, StartNow(s))
  BY <1>3, <1>4, <1>5 DEF FrameOut
<1>8. ChainKnown(q, rc2, fs)
  BY <1>3 DEF ChainKnown
<1>9. k <= Gone(s, Tail(w))
  BY <1>1, <1>3
<1> QED
  BY <1>2, <1>6, <1>7, <1>8, <1>9, NewestParts

\* An announcement is the first frame of a chain the reader does not have.
LEMMA AnnouncesNewChain ==
  ASSUME NEW q, NEW s, NEW e, NEW fs, NEW w, SendingTypes(s, e, fs, w), w # << >>,
         Outstanding(q, s, e, fs, w), w[1].pub # NoPub,
         NEW rc, rc.nextCounter \in Nat, NEW k \in Nat,
         NEW d, d.at \notin {"pub", "debt"}, NewestAt(q, rc, k, s, fs, d, w)
  PROVE  w[1].seal.key.chainKey # rc.chainKey
<1>1. /\ 1 \in DOMAIN w /\ w[1].ctr = Gone(s, w) /\ w[1].ctr \in Nat
      /\ FrameOut(q, s, fs, w, 1)
  BY FirstOut
<1>2. /\ w[1].seal.key.step = 0
      /\ w[1].seal.key.chainKey # HandshakeChainKey(q)
  BY <1>1 DEF FrameOut
<1>3. StartOf(w[1]) = Gone(s, w) /\ ReadSoFar(s, d, w) = Gone(s, w)
  BY <1>1, <1>2 DEF StartOf, ReadSoFar
<1>4. ASSUME w[1].seal.key.chainKey = rc.chainKey PROVE FALSE
  <2>1. k = Gone(s, w) /\ k + rc.nextCounter = Gone(s, w)
    BY <1>1, <1>3, <1>4, NewestParts DEF OnChain
  <2>2. rc.nextCounter = 0
    BY <1>1, <2>1
  <2> QED
    BY <1>2, <1>4, <2>2, NewestParts DEF ChainKnown
<1> QED
  BY <1>4

\* The newest chain is the one that decrypt() looks a frame up in.
LEMMA NewestServes ==
  ASSUME NEW c, IsChannel(c), NEW f \in Frame, ~Rekeys(c, f),
         NEW k \in DOMAIN c.recvChains, \A j \in DOMAIN c.recvChains : j <= k, k <= f.ctr
  PROVE  /\ HasChain(c, f)
         /\ ChainStart(c, f) = k
         /\ ChainFor(c, f) = c.recvChains[k]
         /\ LocalCounter(c, f) = f.ctr - k
         /\ LocalCounter(c, f) \in Nat
<1>1. f.ctr \in Nat /\ k \in Nat
  BY FrameRoot DEF IsChannel
<1>2. k \in StartsUpTo(c, f.ctr) /\ HasChain(c, f)
  BY <1>1 DEF StartsUpTo, HasChain
<1>3. ChainStart(c, f) = k
  <2>1. /\ StartsUpTo(c, f.ctr) \in SUBSET Nat
        /\ \A j \in StartsUpTo(c, f.ctr) : j <= f.ctr /\ j <= k
    BY DEF StartsUpTo, IsChannel
  <2>2. /\ Max(StartsUpTo(c, f.ctr)) \in StartsUpTo(c, f.ctr)
        /\ \A j \in StartsUpTo(c, f.ctr) : j <= Max(StartsUpTo(c, f.ctr))
    BY <1>1, <1>2, <2>1, MaxOfBounded
  <2> QED
    BY <1>1, <1>2, <2>1, <2>2 DEF ChainStart
<1> QED
  BY <1>1, <1>2, <1>3 DEF ChainFor, LocalCounter

LEMMA StepsOn ==
  ASSUME NEW rc, IsReceivingChain(rc), SkippedArePassed(rc), NEW n \in Nat, Derivable(rc, n)
  PROVE  /\ AfterKeyFor(rc, n).chainKey = rc.chainKey
         /\ SkippedArePassed(AfterKeyFor(rc, n))
         /\ AfterKeyFor(rc, n).nextCounter \in Nat
         /\ AfterKeyFor(rc, n).nextCounter >= rc.nextCounter
         /\ n = rc.nextCounter => AfterKeyFor(rc, n).nextCounter = n + 1
<1>1. rc.nextCounter \in Nat
  BY DEF IsReceivingChain
<1>2. /\ AfterKeyFor(rc, n).chainKey = rc.chainKey
      /\ SkippedArePassed(AfterKeyFor(rc, n))
  BY StepSpends
<1>3. CASE n \in rc.skipped
  BY <1>1, <1>2, <1>3 DEF AfterKeyFor, SkippedArePassed, IsReceivingChain
<1>4. CASE n \notin rc.skipped
  <2>1. AfterKeyFor(rc, n).nextCounter = n + 1
    BY <1>4 DEF AfterKeyFor, IsReceivingChain
  <2>2. n >= rc.nextCounter
    BY <1>1, <1>4 DEF Derivable, Desynced
  <2> QED
    BY <1>1, <1>2, <2>1, <2>2
<1> QED
  BY <1>3, <1>4

StartsAt(ctr, step, k, n) ==
  /\ ctr \in Nat /\ step \in Nat /\ k \in Nat /\ n \in Nat
  /\ ctr - step = k /\ k + n = ctr
LocalAt(ctr, step, k, n) == ctr - k = n /\ step = n

LEMMA StepIsLocal ==
  ASSUME NEW ctr, NEW step, NEW k, NEW n, StartsAt(ctr, step, k, n)
  PROVE  LocalAt(ctr, step, k, n)
BY DEF StartsAt, LocalAt

\* A frame of the newest chain opens.
LEMMA KnownOpens ==
  ASSUME NEW q, NEW s, NEW e, NEW fs, NEW w, SendingTypes(s, e, fs, w), w # << >>,
         Outstanding(q, s, e, fs, w),
         NEW c, IsChannel(c), c.window.highest < Gone(s, w), ~Rekeys(c, w[1]),
         NEW d, d.at \notin {"pub", "debt"}, NEW k, ReadingAt(q, c, d, s, fs, w, k),
         w[1].seal.key.chainKey = c.recvChains[k].chainKey
  PROVE  /\ Accepts(c, w[1])
         /\ LocalCounter(c, w[1]) = c.recvChains[k].nextCounter
<1> PICK rc : rc = c.recvChains[k]
  OBVIOUS
<1> PICK f : f = w[1]
  OBVIOUS
<1>1. /\ 1 \in DOMAIN w /\ f \in Frame /\ f.ctr = Gone(s, w) /\ f.ctr \in Nat
      /\ f.seal.key.step \in Nat
      /\ FrameOut(q, s, fs, w, 1)
  BY FirstOut
<1>2. /\ k \in DOMAIN c.recvChains /\ k \in Nat
      /\ \A j \in DOMAIN c.recvChains : j <= k
      /\ IsReceivingChain(rc) /\ rc.nextCounter \in Nat
      /\ NewestAt(q, rc, k, s, fs, d, w)
  BY DEF ReadingAt, IsChannel, IsReceivingChain
<1>3. k <= f.ctr /\ SkippedArePassed(rc)
  BY <1>1, <1>2, NewestParts
<1>4. /\ HasChain(c, f) /\ ChainFor(c, f) = rc
      /\ LocalCounter(c, f) = f.ctr - k
  BY <1>1, <1>2, <1>3, NewestServes
<1>5. ReadSoFar(s, d, w) = f.ctr
  BY <1>1 DEF ReadSoFar
<1>6. StartOf(f) = k /\ k + rc.nextCounter = f.ctr
  BY <1>1, <1>2, <1>5, NewestParts DEF OnChain
<1>7. LocalCounter(c, f) = rc.nextCounter /\ f.seal.key.step = rc.nextCounter
  <2>1. StartsAt(f.ctr, f.seal.key.step, k, rc.nextCounter)
    BY <1>1, <1>2, <1>6 DEF StartOf, StartsAt
  <2>2. LocalAt(f.ctr, f.seal.key.step, k, rc.nextCounter)
    BY <2>1, StepIsLocal
  <2> QED
    BY <1>4, <2>2 DEF LocalAt
<1>8. Derivable(rc, rc.nextCounter)
  BY <1>2, <1>3, MaxSkipAssumption DEF Derivable, Desynced, SkippedArePassed, IsReceivingChain
<1>9. Opens(MessageKey(rc.chainKey, rc.nextCounter), f)
  <2>1. f.seal.key = [chainKey |-> rc.chainKey, step |-> rc.nextCounter]
    BY <1>1, <1>7, FrameRoot
  <2> QED
    BY <1>1, <2>1 DEF Opens, MessageKey, FrameOut
<1>10. Fresh(c.window, f.ctr)
  BY <1>1 DEF Fresh
<1> QED
  BY <1>4, <1>7, <1>8, <1>9, <1>10 DEF Accepts, Derives, KeyMatches

LEMMA MarksNext ==
  ASSUME NEW c, IsChannel(c), NEW n \in Nat, c.window.highest < n
  PROVE  /\ MarkSeen(c.window, n).highest < n + 1
         /\ c.window.highest < n + 1
<1>1. c.window.highest \in Int
  BY DEF IsChannel, IsWindow
<1>2. MarkSeen(c.window, n).highest = n
  BY <1>1 DEF MarkSeen
<1> QED
  BY <1>1, <1>2

\* The first frame announces nothing new and is read, whatever comes of it.
ReadPlain(c, b, f) ==
  \/ Accepts(c, f) /\ b = AfterAccept(c, f)
  \/ ~Accepts(c, f) /\ b = c
  \/ ~Accepts(c, f) /\ Derives(c, f) /\ b = AfterKeyDerivation(c, f)

LEMMA PlainSteps ==
  ASSUME NEW c, IsChannel(c), NEW f \in Frame, NEW b, ReadPlain(c, b, f), ~Rekeys(c, f),
         NEW k \in DOMAIN c.recvChains, \A j \in DOMAIN c.recvChains : j <= k, k <= f.ctr,
         SkippedArePassed(c.recvChains[k])
  PROVE  /\ b.window \in {c.window, MarkSeen(c.window, f.ctr)}
         /\ DOMAIN b.recvChains = DOMAIN c.recvChains
         /\ b.recvChains[k].chainKey = c.recvChains[k].chainKey
         /\ SkippedArePassed(b.recvChains[k])
         /\ b.recvChains[k].nextCounter \in Nat
         /\ b.recvChains[k].nextCounter >= c.recvChains[k].nextCounter
         /\ (Accepts(c, f) /\ LocalCounter(c, f) = c.recvChains[k].nextCounter)
              => b.recvChains[k].nextCounter = c.recvChains[k].nextCounter + 1
<1> PICK rc : rc = c.recvChains[k]
  OBVIOUS
<1> PICK n : n = LocalCounter(c, f)
  OBVIOUS
<1>1. /\ IsFrame(f) /\ f.ctr \in Nat /\ IsReceivingChain(rc) /\ rc.nextCounter \in Nat
  BY FrameFields, FrameRoot DEF IsChannel, IsReceivingChain
<1>2. /\ HasChain(c, f) /\ ChainStart(c, f) = k /\ ChainFor(c, f) = rc /\ n \in Nat
  BY NewestServes
<1>3. SteppedChain(c, f) = AfterKeyFor(rc, n)
  BY <1>2 DEF SteppedChain
<1>4. ASSUME Derivable(rc, n), DOMAIN b.recvChains = DOMAIN c.recvChains,
             b.recvChains[k] = AfterKeyFor(rc, n)
      PROVE  /\ b.recvChains[k].chainKey = rc.chainKey
             /\ SkippedArePassed(b.recvChains[k])
             /\ b.recvChains[k].nextCounter \in Nat
             /\ b.recvChains[k].nextCounter >= rc.nextCounter
             /\ n = rc.nextCounter => b.recvChains[k].nextCounter = rc.nextCounter + 1
  BY <1>1, <1>2, <1>4, StepsOn
<1>5. Derives(c, f) => Derivable(rc, n)
  BY <1>2 DEF Derives
<1>6. CASE Accepts(c, f) /\ b = AfterAccept(c, f)
  <2>1. Stepping(c, b, f) /\ b.window = MarkSeen(c.window, f.ctr)
    BY <1>1, <1>2, <1>6, DecryptSteps, AcceptType
  <2>2. DOMAIN b.recvChains = DOMAIN c.recvChains /\ b.recvChains[k] = AfterKeyFor(rc, n)
    BY <1>2, <1>3, <2>1 DEF Stepping
  <2>3. Derivable(rc, n)
    BY <1>5, <1>6 DEF Accepts
  <2> QED
    BY <1>4, <2>1, <2>2, <2>3
<1>7. CASE ~Accepts(c, f) /\ b = c
  BY <1>1, <1>7
<1>8. CASE ~Accepts(c, f) /\ Derives(c, f) /\ b = AfterKeyDerivation(c, f)
  <2>1. Stepping(c, b, f) /\ b.window = c.window
    BY <1>1, <1>2, <1>8, DecryptSteps, KeyDerivationType
  <2>2. DOMAIN b.recvChains = DOMAIN c.recvChains /\ b.recvChains[k] = AfterKeyFor(rc, n)
    BY <1>2, <1>3, <2>1 DEF Stepping
  <2> QED
    BY <1>4, <1>5, <1>8, <2>1, <2>2
<1> QED
  BY <1>6, <1>7, <1>8 DEF ReadPlain

LEMMA PlainReading ==
  ASSUME NEW q, NEW s, NEW e, NEW fs, NEW w, SendingTypes(s, e, fs, w), w # << >>,
         Outstanding(q, s, e, fs, w),
         NEW c, IsChannel(c), NEW d, d.at = "idle", Reading(q, c, d, s, fs, w),
         ~Rekeys(c, w[1]), NEW b, ReadPlain(c, b, w[1])
  PROVE  Reading(q, b, d, s, fs, Tail(w))
<1>1. PICK k : ReadingAt(q, c, d, s, fs, w, k)
  BY ReadingParts
<1> PICK f : f = w[1]
  OBVIOUS
<1>2. /\ f \in Frame /\ f.ctr = Gone(s, w) /\ f.ctr \in Nat
      /\ Gone(s, Tail(w)) = f.ctr + 1
  <2>1. Gone(s, Tail(w)) = Gone(s, w) + 1
    BY OutstandingRead
  <2>2. f \in Frame /\ f.ctr = Gone(s, w) /\ f.ctr \in Nat
    BY FirstOut
  <2> QED
    BY <2>1, <2>2
<1>3. c.window.highest < f.ctr
  BY <1>2, ReadingParts
<1>4. /\ k \in DOMAIN c.recvChains /\ k \in Nat
      /\ \A j \in DOMAIN c.recvChains : j <= k
      /\ c.recvChains[k].nextCounter \in Nat
      /\ NewestAt(q, c.recvChains[k], k, s, fs, d, w)
  BY <1>1 DEF ReadingAt, IsChannel, IsReceivingChain
<1>5. k <= f.ctr /\ SkippedArePassed(c.recvChains[k])
  BY <1>2, <1>4, NewestParts
<1>6. /\ b.window \in {c.window, MarkSeen(c.window, f.ctr)}
      /\ DOMAIN b.recvChains = DOMAIN c.recvChains
      /\ b.recvChains[k].chainKey = c.recvChains[k].chainKey
      /\ SkippedArePassed(b.recvChains[k])
      /\ b.recvChains[k].nextCounter \in Nat
      /\ b.recvChains[k].nextCounter >= c.recvChains[k].nextCounter
      /\ (Accepts(c, f) /\ LocalCounter(c, f) = c.recvChains[k].nextCounter)
           => b.recvChains[k].nextCounter = c.recvChains[k].nextCounter + 1
  BY <1>2, <1>4, <1>5, PlainSteps
<1>7. d.at \notin {"pub", "debt"}
  OBVIOUS
<1>8. c.window.highest < Gone(s, w)
  BY <1>2, <1>3
<1>9. f.seal.key.chainKey = c.recvChains[k].chainKey =>
        Accepts(c, f) /\ LocalCounter(c, f) = c.recvChains[k].nextCounter
  BY <1>1, <1>7, <1>8, KnownOpens
<1>10. NewestAt(q, b.recvChains[k], k, s, fs, d, Tail(w))
  BY <1>4, <1>6, <1>7, <1>9, NewestOn
<1>11. ReadingAt(q, b, d, s, fs, Tail(w), k)
  BY <1>4, <1>6, <1>10 DEF ReadingAt
<1>12. b.window.highest < Gone(s, Tail(w))
  BY <1>2, <1>3, <1>6, MarksNext
<1>13. ReadingPlace(b, d, Tail(w))
  BY DEF ReadingPlace
<1> QED
  BY <1>11, <1>12, <1>13, ReadingParts

\* The candidate of an announcement does not fit: the frame is dropped.
LEMMA DroppedReading ==
  ASSUME NEW q, NEW s, NEW e, NEW fs, NEW w, SendingTypes(s, e, fs, w), w # << >>,
         Outstanding(q, s, e, fs, w),
         NEW c, IsChannel(c), NEW d, d.at = "verify", Reading(q, c, d, s, fs, w),
         NEW d2, d2.at = "idle"
  PROVE  Reading(q, c, d2, s, fs, Tail(w))
<1>1. PICK k : ReadingAt(q, c, d, s, fs, w, k)
  BY ReadingParts
<1>2. Gone(s, w) \in Nat /\ Gone(s, Tail(w)) = Gone(s, w) + 1
  BY OutstandingRead
<1>3. c.window.highest < Gone(s, w) /\ ReadingPlace(c, d, w)
  BY ReadingParts
<1>4. /\ k \in DOMAIN c.recvChains /\ k \in Nat
      /\ \A j \in DOMAIN c.recvChains : j <= k
      /\ c.recvChains[k].nextCounter \in Nat
      /\ NewestAt(q, c.recvChains[k], k, s, fs, d, w)
  BY <1>1 DEF ReadingAt, IsChannel, IsReceivingChain
<1>5. d.at \notin {"pub", "debt"} /\ w[1].pub # NoPub
  BY <1>3 DEF ReadingPlace
<1>6. w[1].seal.key.chainKey # c.recvChains[k].chainKey
  BY <1>4, <1>5, AnnouncesNewChain
<1>7. SkippedArePassed(c.recvChains[k])
  BY <1>4, NewestParts
<1>8. c.recvChains[k].nextCounter >= c.recvChains[k].nextCounter
  BY <1>4
<1>9. NewestAt(q, c.recvChains[k], k, s, fs, d2, Tail(w))
  BY <1>4, <1>5, <1>6, <1>7, <1>8, NewestOn
<1>10. ReadingAt(q, c, d2, s, fs, Tail(w), k)
  BY <1>4, <1>9 DEF ReadingAt
<1>11. c.window.highest < Gone(s, Tail(w))
  BY <1>2, <1>3, MarksNext
<1>12. ReadingPlace(c, d2, Tail(w))
  BY DEF ReadingPlace
<1> QED
  BY <1>10, <1>11, <1>12, ReadingParts

\* The chain of an announcement was stored as b has it.
LEMMA CommittedReading ==
  ASSUME NEW q, NEW s, NEW e, NEW fs, NEW w, SendingTypes(s, e, fs, w), w # << >>,
         Outstanding(q, s, e, fs, w),
         NEW c, NEW d, d.at = "verify", Reading(q, c, d, s, fs, w),
         w[1].seal.key.step = 0,
         NEW b, b.window = c.window,
         w[1].ctr \in DOMAIN b.recvChains,
         \A j \in DOMAIN b.recvChains : j <= w[1].ctr,
         b.recvChains[w[1].ctr].chainKey = w[1].seal.key.chainKey,
         b.recvChains[w[1].ctr].nextCounter = 1,
         b.recvChains[w[1].ctr].skipped = {},
         NEW d2, d2.at = "pub"
  PROVE  Reading(q, b, d2, s, fs, w)
<1> PICK k : k = w[1].ctr
  OBVIOUS
<1> PICK rc : rc = b.recvChains[k]
  OBVIOUS
<1>1. /\ 1 \in DOMAIN w /\ k \in Nat /\ k = Gone(s, w)
      /\ FrameOut(q, s, fs, w, 1)
  BY FirstOut
<1>2. StartOf(w[1]) = k
  BY <1>1 DEF StartOf
<1>3. ReadSoFar(s, d2, w) = k + 1
  BY <1>1 DEF ReadSoFar
<1>4. ChainKnown(q, rc, fs) /\ SkippedArePassed(rc)
  BY <1>1 DEF ChainKnown, SkippedArePassed, FrameOut
<1>5. ASSUME NEW i \in DOMAIN w
      PROVE  OnChain(rc, k, k + 1, w[i].seal.key.chainKey, StartOf(w[i]))
  <2>1. w \in Seq(Frame)
    BY DEF SendingTypes
  <2>2. i = 1 \/ 1 < i
    BY <2>1
  <2>3. CASE i = 1
    BY <1>2, <2>3 DEF OnChain
  <2>4. CASE 1 < i
    <3>1. FrameBefore(w[1], w[i])
      BY <1>1, <2>4, OutstandingParts
    <3> QED
      BY <1>2, <3>1 DEF OnChain, FrameBefore, Precedes
  <2> QED
    BY <2>2, <2>3, <2>4
<1>6. OnChain(rc, k, k + 1, s.sendingChain.chainKey, StartNow(s))
  BY <1>1, <1>2 DEF OnChain, FrameOut, Precedes
<1>7. k <= Gone(s, w)
  BY <1>1
<1>8. NewestAt(q, rc, k, s, fs, d2, w)
  BY <1>3, <1>4, <1>5, <1>6, <1>7, NewestParts
<1>9. ReadingAt(q, b, d2, s, fs, w, k)
  BY <1>8 DEF ReadingAt
<1>10. b.window.highest < Gone(s, w) /\ ReadingPlace(c, d, w)
  BY ReadingParts
<1>11. ReadingPlace(b, d2, w)
  BY <1>10 DEF ReadingPlace
<1> QED
  BY <1>9, <1>10, <1>11, ReadingParts

\* decrypt() returns the message of an announcement.
LEMMA ReturnedReading ==
  ASSUME NEW q, NEW s, NEW e, NEW fs, NEW w, SendingTypes(s, e, fs, w), w # << >>,
         Outstanding(q, s, e, fs, w),
         NEW c, IsChannel(c), NEW d, d.at = "debt", Reading(q, c, d, s, fs, w),
         NEW b, b.recvChains = c.recvChains, b.window = MarkSeen(c.window, w[1].ctr),
         NEW d2, d2.at = "idle"
  PROVE  Reading(q, b, d2, s, fs, Tail(w))
<1>1. PICK k : ReadingAt(q, c, d, s, fs, w, k)
  BY ReadingParts
<1> PICK rc : rc = c.recvChains[k]
  OBVIOUS
<1>2. Gone(s, w) \in Nat /\ Gone(s, Tail(w)) = Gone(s, w) + 1
  BY OutstandingRead
<1>3. /\ w[1].ctr = Gone(s, w)
      /\ \A i \in DOMAIN Tail(w) : Tail(w)[i] = w[i + 1] /\ i + 1 \in DOMAIN w
  BY FirstOut
<1>4. ReadSoFar(s, d2, Tail(w)) = ReadSoFar(s, d, w)
  BY <1>2 DEF ReadSoFar
<1>5. NewestAt(q, rc, k, s, fs, d, w) /\ k \in Nat
  BY <1>1 DEF ReadingAt, IsChannel
<1>6. k <= Gone(s, Tail(w))
  BY <1>2, <1>5, NewestParts
<1>7. ASSUME NEW i \in DOMAIN Tail(w)
      PROVE  OnChain(rc, k, ReadSoFar(s, d, w), Tail(w)[i].seal.key.chainKey, StartOf(Tail(w)[i]))
  BY <1>3, <1>5, NewestParts
<1>8. NewestAt(q, rc, k, s, fs, d2, Tail(w))
  BY <1>4, <1>5, <1>6, <1>7, NewestParts
<1>9. ReadingAt(q, b, d2, s, fs, Tail(w), k)
  BY <1>1, <1>8 DEF ReadingAt
<1>10. c.window.highest < Gone(s, w)
  BY ReadingParts
<1>11. b.window.highest < Gone(s, Tail(w))
  BY <1>2, <1>3, <1>10, MarksNext
<1>12. ReadingPlace(b, d2, Tail(w))
  BY DEF ReadingPlace
<1> QED
  BY <1>9, <1>11, <1>12, ReadingParts

-----------------------------------------------------------------------------
(* The steps of the threads.                                               *)

\* EachThread, seen from p.
LEMMA ThreadsOf ==
  ASSUME ThreadInv, NEW p \in Party, NEW q, q = Other(p)
  PROVE  /\ q \in Party /\ Other(q) = p /\ q # p
         /\ \A r \in Party : r = p \/ r = q
         /\ KeysAndChains(p, channel[p], enc[p], sealed[p], channel[q].myRatchet.gen)
         /\ KeysAndChains(q, channel[q], enc[q], sealed[q], channel[p].myRatchet.gen)
         /\ Outstanding(p, channel[p], enc[p], sealed[p], wire[q])
         /\ Outstanding(q, channel[q], enc[q], sealed[q], wire[p])
         /\ Reading(q, channel[p], dec[p], channel[q], sealed[q], wire[p])
         /\ Reading(p, channel[q], dec[q], channel[p], sealed[p], wire[q])
         /\ ChainKeysUsed(channel[p], sealed[p]) \cap ChainKeysUsed(channel[q], sealed[q]) = {}
         /\ SendingTypes(channel[p], enc[p], sealed[p], wire[q])
         /\ SendingTypes(channel[q], enc[q], sealed[q], wire[p])
         /\ IsChannel(channel[p]) /\ IsChannel(channel[q])
         /\ channel[p].myRatchet.gen \in Nat /\ channel[q].myRatchet.gen \in Nat
         /\ dec[p] \in DecryptState
<1>1. q \in Party /\ Other(q) = p /\ q # p
  BY TwoParties
<1>2. \A r \in Party : r = p \/ r = q
  BY DEF Party, Other
<1>3. /\ SendingTypes(channel[p], enc[p], sealed[p], wire[q])
      /\ SendingTypes(channel[q], enc[q], sealed[q], wire[p])
      /\ IsChannel(channel[p]) /\ IsChannel(channel[q])
      /\ dec[p] \in DecryptState
  BY <1>1, ThreadTyping DEF ThreadInv
<1>4. channel[p].myRatchet.gen \in Nat /\ channel[q].myRatchet.gen \in Nat
  BY <1>3 DEF SendingTypes, KeyPair
<1>5. /\ KeysAndChains(p, channel[p], enc[p], sealed[p], channel[q].myRatchet.gen)
      /\ Outstanding(p, channel[p], enc[p], sealed[p], wire[q])
      /\ Reading(q, channel[p], dec[p], channel[q], sealed[q], wire[p])
      /\ ChainKeysUsed(channel[p], sealed[p]) \cap ChainKeysUsed(channel[q], sealed[q]) = {}
  BY DEF ThreadInv, EachThread
<1>6. /\ KeysAndChains(q, channel[q], enc[q], sealed[q], channel[p].myRatchet.gen)
      /\ Outstanding(q, channel[q], enc[q], sealed[q], wire[p])
      /\ Reading(p, channel[q], dec[q], channel[p], sealed[p], wire[q])
  BY <1>1 DEF ThreadInv, EachThread
<1> QED
  BY <1>1, <1>2, <1>3, <1>4, <1>5, <1>6

LEMMA ThreadsOfNext ==
  ASSUME NEW p \in Party, NEW q, q = Other(p),
         KeysAndChains(p, channel'[p], enc'[p], sealed'[p], channel'[q].myRatchet.gen),
         KeysAndChains(q, channel'[q], enc'[q], sealed'[q], channel'[p].myRatchet.gen),
         Outstanding(p, channel'[p], enc'[p], sealed'[p], wire'[q]),
         Outstanding(q, channel'[q], enc'[q], sealed'[q], wire'[p]),
         Reading(q, channel'[p], dec'[p], channel'[q], sealed'[q], wire'[p]),
         Reading(p, channel'[q], dec'[q], channel'[p], sealed'[p], wire'[q]),
         ChainKeysUsed(channel'[p], sealed'[p]) \cap ChainKeysUsed(channel'[q], sealed'[q]) = {}
  PROVE  EachThread'
<1>1. q \in Party /\ Other(q) = p /\ \A r \in Party : r = p \/ r = q
  BY TwoParties DEF Party, Other
<1>2. ChainKeysUsed(channel'[q], sealed'[q]) \cap ChainKeysUsed(channel'[p], sealed'[p]) = {}
  OBVIOUS
<1> QED
  BY <1>1, <1>2 DEF EachThread

\* A step of encrypt() in p.
SenderMoves(p, q) ==
  /\ channel'[q] = channel[q]
  /\ channel'[p].recvChains = channel[p].recvChains
  /\ channel'[p].window = channel[p].window
  /\ channel'[p].peerRatchetPub = channel[p].peerRatchetPub
  /\ enc'[q] = enc[q]
  /\ dec' = dec
  /\ sealed'[q] = sealed[q]
  /\ wire'[p] = wire[p]

LEMMA SenderStep ==
  ASSUME ThreadInv, NEW p \in Party, NEW q, q = Other(p), SenderMoves(p, q),
         channel'[p].myRatchet.gen \in Nat,
         channel[p].myRatchet.gen <= channel'[p].myRatchet.gen,
         KeysAndChains(p, channel'[p], enc'[p], sealed'[p], channel[q].myRatchet.gen),
         Outstanding(p, channel'[p], enc'[p], sealed'[p], wire'[q]),
         Reading(p, channel[q], dec[q], channel'[p], sealed'[p], wire'[q]),
         ChainKeysUsed(channel'[p], sealed'[p]) \cap ChainKeysUsed(channel[q], sealed[q]) = {}
  PROVE  EachThread'
<1> PICK n : n = channel[p].myRatchet.gen
  OBVIOUS
<1> PICK m : m = channel'[p].myRatchet.gen
  OBVIOUS
<1>1. /\ q \in Party /\ Other(q) = p
      /\ KeysAndChains(q, channel[q], enc[q], sealed[q], n)
      /\ Outstanding(q, channel[q], enc[q], sealed[q], wire[p])
      /\ Reading(q, channel[p], dec[p], channel[q], sealed[q], wire[p])
      /\ n \in Nat /\ m \in Nat /\ n <= m
  BY ThreadsOf
<1>2. KeyOf(p, channel[q].peerRatchetPub, n)
      /\ (enc[q].at \in {"read", "write"} => KeyOf(p, enc[q].peerPub, n))
  BY <1>1 DEF KeysAndChains
<1>3. KeyOf(p, channel[q].peerRatchetPub, m)
      /\ (enc[q].at \in {"read", "write"} => KeyOf(p, enc[q].peerPub, m))
  BY <1>1, <1>2, MoreKeys
<1>4. KeysAndChains(q, channel[q], enc[q], sealed[q], m)
  BY <1>1, <1>3, KeysKept
<1>5. ReadingPlace(channel'[p], dec[p], wire[p])
  <2>1. ReadingPlace(channel[p], dec[p], wire[p])
    BY <1>1, ReadingParts
  <2> QED
    BY <2>1 DEF ReadingPlace, Rekeys, SenderMoves
<1>6. Reading(q, channel'[p], dec[p], channel[q], sealed[q], wire[p])
  BY <1>1, <1>5, ReadingKept DEF SenderMoves
<1> QED
  BY <1>1, <1>4, <1>6, ThreadsOfNext DEF SenderMoves

\* A step of decrypt() in p.
ReaderMoves(p, q) ==
  /\ channel'[q] = channel[q]
  /\ channel'[p].myRatchet = channel[p].myRatchet
  /\ channel'[p].sendingChain = channel[p].sendingChain
  /\ channel'[p].sendCounter = channel[p].sendCounter
  /\ enc' = enc
  /\ dec'[q] = dec[q]
  /\ sealed' = sealed
  /\ wire'[q] = wire[q]

LEMMA ReaderStep ==
  ASSUME ThreadInv, NEW p \in Party, NEW q, q = Other(p), ReaderMoves(p, q),
         KeyOf(q, channel'[p].peerRatchetPub, channel[q].myRatchet.gen),
         wire'[p] = wire[p] \/ (wire[p] # << >> /\ wire'[p] = Tail(wire[p])),
         Reading(q, channel'[p], dec'[p], channel[q], sealed[q], wire'[p])
  PROVE  EachThread' /\ ThreadsReuseNoKey'
<1> PICK n : n = channel[q].myRatchet.gen
  OBVIOUS
<1>1. /\ q \in Party /\ Other(q) = p
      /\ KeysAndChains(p, channel[p], enc[p], sealed[p], n)
      /\ KeysAndChains(q, channel[q], enc[q], sealed[q], channel[p].myRatchet.gen)
      /\ Outstanding(p, channel[p], enc[p], sealed[p], wire[q])
      /\ Outstanding(q, channel[q], enc[q], sealed[q], wire[p])
      /\ Reading(p, channel[q], dec[q], channel[p], sealed[p], wire[q])
      /\ ChainKeysUsed(channel[p], sealed[p]) \cap ChainKeysUsed(channel[q], sealed[q]) = {}
      /\ SendingTypes(channel[q], enc[q], sealed[q], wire[p])
      /\ n \in Nat
  BY ThreadsOf
<1>2. KeysAndChains(p, channel'[p], enc[p], sealed[p], n)
  <2>1. ChainGen(channel'[p], enc[p]) = ChainGen(channel[p], enc[p])
    BY DEF ChainGen, ReaderMoves
  <2>2. enc[p].at \in {"read", "write"} => KeyOf(q, enc[p].peerPub, n)
    BY <1>1 DEF KeysAndChains
  <2>3. n <= n
    BY <1>1
  <2> QED
    BY <1>1, <2>1, <2>2, <2>3, KeysKept DEF ReaderMoves
<1>3. Outstanding(p, channel'[p], enc[p], sealed[p], wire[q])
  BY <1>1, OutstandingKept DEF ReaderMoves
<1>4. Outstanding(q, channel[q], enc[q], sealed[q], wire'[p])
  BY <1>1, OutstandingRead
<1>5. Reading(p, channel[q], dec[q], channel'[p], sealed[p], wire[q])
  <2>1. ReadingPlace(channel[q], dec[q], wire[q])
    BY <1>1, ReadingParts
  <2> QED
    BY <1>1, <2>1, ReadingKept DEF ReaderMoves
<1>6. ChainKeysUsed(channel'[p], sealed[p]) = ChainKeysUsed(channel[p], sealed[p])
  BY DEF ChainKeysUsed, ReaderMoves
<1>7. EachThread'
  BY <1>1, <1>2, <1>3, <1>4, <1>5, <1>6, ThreadsOfNext DEF ReaderMoves
<1>8. ThreadsReuseNoKey'
  BY DEF ThreadInv, ThreadsReuseNoKey, ReaderMoves
<1> QED
  BY <1>7, <1>8

\* A frame goes out.
Emits(p, q, f) ==
  /\ SenderMoves(p, q)
  /\ Seals(channel[p], channel'[p], f)
  /\ wire'[q] = Append(wire[q], f)
  /\ sealed'[p] = sealed[p] \cup {f}
  /\ enc'[p].at = "idle"
  /\ \/ enc[p].at = "idle" /\ f.pub = NoPub
     \/ enc[p].at = "settle" /\ f.pub = channel[p].myRatchet

LEMMA EmitStep ==
  ASSUME ThreadInv, NEW p \in Party, NEW q, q = Other(p), NEW f, Emits(p, q, f)
  PROVE  EachThread' /\ ThreadsReuseNoKey'
<1> PICK n : n = channel[q].myRatchet.gen
  OBVIOUS
<1> PICK s : s = channel[p]
  OBVIOUS
<1> PICK d : d = channel'[p]
  OBVIOUS
<1> PICK fs : fs = sealed[p]
  OBVIOUS
<1>1. /\ q \in Party /\ Other(q) = p /\ \A r \in Party : r = p \/ r = q
      /\ KeysAndChains(p, s, enc[p], fs, n)
      /\ Outstanding(p, s, enc[p], fs, wire[q])
      /\ Reading(p, channel[q], dec[q], s, fs, wire[q])
      /\ ChainKeysUsed(s, fs) \cap ChainKeysUsed(channel[q], sealed[q]) = {}
      /\ SendingTypes(s, enc[p], fs, wire[q])
      /\ s.myRatchet.gen \in Nat
      /\ n \in Nat
  BY ThreadsOf
<1>2. /\ Seals(s, d, f) /\ enc[p].at # "keys" /\ enc'[p].at = "idle"
      /\ f.pub \in {NoPub, s.myRatchet}
      /\ f.pub = NoPub \/ enc[p].at = "settle"
  BY DEF Emits
<1>3. KeysAndChains(p, d, enc'[p], fs \cup {f}, n)
  BY <1>1, <1>2, KeysSealed
<1>4. /\ Outstanding(p, d, enc'[p], fs \cup {f}, Append(wire[q], f))
      /\ Gone(d, Append(wire[q], f)) = Gone(s, wire[q])
      /\ StartNow(d) = StartNow(s)
      /\ StartOf(f) = StartNow(s)
  BY <1>1, <1>2, OutstandingSealed
<1>5. Reading(p, channel[q], dec[q], d, fs \cup {f}, Append(wire[q], f))
  BY <1>1, <1>2, <1>4, ReadingSealed
<1>6. ChainKeysUsed(d, fs \cup {f}) = ChainKeysUsed(s, fs)
  BY <1>2 DEF ChainKeysUsed, Seals
<1>7. d.myRatchet.gen = s.myRatchet.gen
  BY <1>2 DEF Seals
<1>8. EachThread'
  <2>1. /\ channel'[p].myRatchet.gen \in Nat
        /\ channel[p].myRatchet.gen <= channel'[p].myRatchet.gen
    BY <1>1, <1>7
  <2>2. KeysAndChains(p, channel'[p], enc'[p], sealed'[p], channel[q].myRatchet.gen)
    BY <1>3 DEF Emits
  <2>3. Outstanding(p, channel'[p], enc'[p], sealed'[p], wire'[q])
    BY <1>4 DEF Emits
  <2>4. Reading(p, channel[q], dec[q], channel'[p], sealed'[p], wire'[q])
    BY <1>5 DEF Emits
  <2>5. ChainKeysUsed(channel'[p], sealed'[p]) \cap ChainKeysUsed(channel[q], sealed[q]) = {}
    BY <1>1, <1>6 DEF Emits
  <2>6. SenderMoves(p, q)
    BY DEF Emits
  <2> QED
    BY <2>1, <2>2, <2>3, <2>4, <2>5, <2>6, SenderStep
<1>9. ASSUME NEW g \in fs PROVE g.seal.key # f.seal.key
  <2>1. g \in Frame /\ g.seal.key.step \in Nat /\ s.sendingChain.counter \in Nat
        /\ s.myRatchet \in KeyPair
    BY <1>1, FrameRoot DEF SendingTypes
  <2>2. CASE g.seal.key.chainKey = s.sendingChain.chainKey
    <3>1. g.seal.key.step # s.sendingChain.counter
      BY <1>1, <2>1, <2>2, KeyIsNew
    <3> QED
      BY <1>2, <3>1 DEF Seals
  <2>3. CASE g.seal.key.chainKey # s.sendingChain.chainKey
    BY <1>2, <2>3 DEF Seals
  <2> QED
    BY <2>2, <2>3
<1>10. ASSUME NEW g \in sealed[q] PROVE g.seal.key # f.seal.key
  <2>1. s.sendingChain.chainKey \in ChainKeysUsed(s, fs)
    BY DEF ChainKeysUsed
  <2>2. g.seal.key.chainKey \in ChainKeysUsed(channel[q], sealed[q])
    BY <1>10 DEF ChainKeysUsed
  <2>3. g.seal.key.chainKey # s.sendingChain.chainKey
    BY <1>1, <2>1, <2>2
  <2> QED
    BY <1>2, <2>3 DEF Seals
<1>11. sealed'[Initiator] \cup sealed'[Responder]
         = sealed[Initiator] \cup sealed[Responder] \cup {f}
  BY <1>1 DEF Emits, SenderMoves, Party
<1>12. \A g \in sealed[Initiator] \cup sealed[Responder] : g.seal.key # f.seal.key
  BY <1>1, <1>9, <1>10 DEF Party
<1>13. ThreadsReuseNoKey'
  BY <1>11, <1>12 DEF ThreadInv, ThreadsReuseNoKey
<1> QED
  BY <1>8, <1>13

LEMMA EncryptPlainStep ==
  ASSUME ThreadInv, NEW p \in Party, EncryptPlain(p)
  PROVE  ThreadInv'
<1> PICK q : q = Other(p)
  OBVIOUS
<1> PICK s : s = channel[p]
  OBVIOUS
<1> PICK f : f = Sealed(s, FALSE)
  OBVIOUS
<1> PICK d : d = AfterEncrypt(s, FALSE)
  OBVIOUS
<1>1. /\ q \in Party /\ Other(q) = p /\ q # p /\ \A r \in Party : r = p \/ r = q
      /\ IsChannel(s) /\ s.sendingChain.counter \in Nat
  BY ThreadsOf DEF SendingTypes
<1>2. /\ ~SendDue(s, FALSE) /\ enc[p].at = "idle"
      /\ channel' = [channel EXCEPT ![p] = d]
      /\ wire' = [wire EXCEPT ![q] = Append(@, f)]
      /\ sealed' = [sealed EXCEPT ![p] = @ \cup {f}]
      /\ shown' = shown /\ alerts' = alerts /\ enc' = enc /\ dec' = dec
  BY DEF EncryptPlain, Emit
<1>3. Continuing(s, d, f)
  BY <1>1, <1>2, EncryptContinues
<1>4. /\ IsChannel(d) /\ d.window = s.window /\ d.sendCounter = s.sendCounter + 1
      /\ Genuine(f) /\ f.ctr = s.sendCounter
  BY <1>1, EncryptType
<1>5. f \in Frame
  BY <1>1, SealedFrame
<1>6. Append(wire[q], f) \in Seq(Frame)
  BY <1>1, <1>5, AppendedAt DEF ThreadInv, ThreadTypes, TypeOK
<1>7. ThreadTypes'
  BY <1>1, <1>2, <1>4, <1>5, <1>6 DEF ThreadInv, ThreadTypes, TypeOK
<1>8. channel'[p] = d /\ channel'[q] = channel[q] /\ wire'[p] = wire[p]
      /\ wire'[q] = Append(wire[q], f)
      /\ sealed'[p] = sealed[p] \cup {f} /\ sealed'[q] = sealed[q]
  BY <1>1, <1>2 DEF ThreadInv, ThreadTypes, TypeOK
<1>9. Seals(s, d, f)
  BY <1>3, <1>4, <1>5 DEF Seals, Continuing
<1>10. SenderMoves(p, q)
  BY <1>2, <1>3, <1>4, <1>8 DEF SenderMoves, Continuing
<1>11. f.pub = NoPub
  BY <1>3 DEF Continuing
<1>12. Emits(p, q, f)
  BY <1>2, <1>8, <1>9, <1>10, <1>11 DEF Emits
<1> QED
  BY <1>7, <1>12, EmitStep DEF ThreadInv

LEMMA StartStepStep ==
  ASSUME ThreadInv, NEW p \in Party, NEW timeDue \in BOOLEAN, StartStep(p, timeDue)
  PROVE  ThreadInv'
<1> PICK q : q = Other(p)
  OBVIOUS
<1> PICK n : n = channel[q].myRatchet.gen
  OBVIOUS
<1>1. /\ q \in Party /\ Other(q) = p /\ q # p
      /\ KeysAndChains(p, channel[p], enc[p], sealed[p], n)
      /\ Outstanding(p, channel[p], enc[p], sealed[p], wire[q])
      /\ Reading(p, channel[q], dec[q], channel[p], sealed[p], wire[q])
      /\ ChainKeysUsed(channel[p], sealed[p]) \cap ChainKeysUsed(channel[q], sealed[q]) = {}
      /\ channel[p].myRatchet.gen \in Nat /\ n \in Nat
      /\ IsChannel(channel[p]) /\ channel[p].peerRatchetPub \in KeyPair
  BY ThreadsOf DEF IsChannel
<1>2. /\ enc[p].at = "idle"
      /\ enc' = [enc EXCEPT ![p].at = "read", ![p].peerPub = channel[p].peerRatchetPub]
      /\ channel' = channel /\ wire' = wire /\ shown' = shown /\ alerts' = alerts
      /\ dec' = dec /\ sealed' = sealed
  BY DEF StartStep, vars
<1>3. /\ enc'[p].at = "read" /\ enc'[p].peerPub = channel[p].peerRatchetPub
      /\ enc'[q] = enc[q] /\ enc' \in [Party -> EncryptState]
  <2>1. enc \in [Party -> EncryptState]
    BY DEF ThreadInv, ThreadTypes
  <2> QED
    BY <1>1, <1>2, <2>1 DEF EncryptState
<1>4. ThreadTypes'
  BY <1>2, <1>3 DEF ThreadInv, ThreadTypes, TypeOK
<1>5. KeysAndChains(p, channel[p], enc'[p], sealed[p], n)
  <2>1. ChainGen(channel[p], enc'[p]) = ChainGen(channel[p], enc[p])
    BY <1>2, <1>3 DEF ChainGen
  <2>2. KeyOf(q, channel[p].peerRatchetPub, n) /\ n <= n
    BY <1>1 DEF KeysAndChains
  <2> QED
    BY <1>1, <1>3, <2>1, <2>2, KeysKept
<1>6. Outstanding(p, channel[p], enc'[p], sealed[p], wire[q])
  BY <1>1, <1>3, OutstandingKept
<1>7. SenderMoves(p, q)
  BY <1>2, <1>3 DEF SenderMoves
<1>8. EachThread'
  <2>1. /\ channel'[p].myRatchet.gen \in Nat
        /\ channel[p].myRatchet.gen <= channel'[p].myRatchet.gen
        /\ KeysAndChains(p, channel'[p], enc'[p], sealed'[p], channel[q].myRatchet.gen)
        /\ Outstanding(p, channel'[p], enc'[p], sealed'[p], wire'[q])
        /\ Reading(p, channel[q], dec[q], channel'[p], sealed'[p], wire'[q])
        /\ ChainKeysUsed(channel'[p], sealed'[p]) \cap ChainKeysUsed(channel[q], sealed[q]) = {}
        /\ SenderMoves(p, q)
    BY <1>1, <1>2, <1>5, <1>6, <1>7
  <2> QED
    BY <2>1, SenderStep
<1> QED
  BY <1>2, <1>4, <1>8 DEF ThreadInv, ThreadsReuseNoKey

LEMMA ReadRootStep ==
  ASSUME ThreadInv, NEW p \in Party, ReadRoot(p)
  PROVE  ThreadInv'
<1> PICK q : q = Other(p)
  OBVIOUS
<1> PICK n : n = channel[q].myRatchet.gen
  OBVIOUS
<1>1. /\ q \in Party /\ Other(q) = p /\ q # p
      /\ KeysAndChains(p, channel[p], enc[p], sealed[p], n)
      /\ Outstanding(p, channel[p], enc[p], sealed[p], wire[q])
      /\ Reading(p, channel[q], dec[q], channel[p], sealed[p], wire[q])
      /\ ChainKeysUsed(channel[p], sealed[p]) \cap ChainKeysUsed(channel[q], sealed[q]) = {}
      /\ channel[p].myRatchet.gen \in Nat /\ n \in Nat
      /\ IsChannel(channel[p]) /\ channel[p].rootKey \in RootKey
  BY ThreadsOf DEF IsChannel
<1>2. /\ enc[p].at = "read"
      /\ enc' = [enc EXCEPT ![p].at = "write", ![p].root = channel[p].rootKey]
      /\ channel' = channel /\ wire' = wire /\ shown' = shown /\ alerts' = alerts
      /\ dec' = dec /\ sealed' = sealed
  BY DEF ReadRoot, vars
<1>3. /\ enc'[p].at = "write" /\ enc'[p].peerPub = enc[p].peerPub
      /\ enc'[q] = enc[q] /\ enc' \in [Party -> EncryptState]
  <2>1. enc \in [Party -> EncryptState]
    BY DEF ThreadInv, ThreadTypes
  <2> QED
    BY <1>1, <1>2, <2>1 DEF EncryptState
<1>4. ThreadTypes'
  BY <1>2, <1>3 DEF ThreadInv, ThreadTypes, TypeOK
<1>5. KeysAndChains(p, channel[p], enc'[p], sealed[p], n)
  <2>1. ChainGen(channel[p], enc'[p]) = ChainGen(channel[p], enc[p])
    BY <1>2, <1>3 DEF ChainGen
  <2>2. KeyOf(q, channel[p].peerRatchetPub, n) /\ n <= n /\ KeyOf(q, enc'[p].peerPub, n)
    BY <1>1, <1>2, <1>3 DEF KeysAndChains
  <2> QED
    BY <1>1, <2>1, <2>2, KeysKept
<1>6. Outstanding(p, channel[p], enc'[p], sealed[p], wire[q])
  BY <1>1, <1>3, OutstandingKept
<1>7. SenderMoves(p, q)
  BY <1>2, <1>3 DEF SenderMoves
<1>8. EachThread'
  <2>1. /\ channel'[p].myRatchet.gen \in Nat
        /\ channel[p].myRatchet.gen <= channel'[p].myRatchet.gen
        /\ KeysAndChains(p, channel'[p], enc'[p], sealed'[p], channel[q].myRatchet.gen)
        /\ Outstanding(p, channel'[p], enc'[p], sealed'[p], wire'[q])
        /\ Reading(p, channel[q], dec[q], channel'[p], sealed'[p], wire'[q])
        /\ ChainKeysUsed(channel'[p], sealed'[p]) \cap ChainKeysUsed(channel[q], sealed[q]) = {}
        /\ SenderMoves(p, q)
    BY <1>1, <1>2, <1>5, <1>6, <1>7
  <2> QED
    BY <2>1, SenderStep
<1> QED
  BY <1>2, <1>4, <1>8 DEF ThreadInv, ThreadsReuseNoKey

\* The chain key that goes with the root WriteRoot assigns.
LEMMA NextChainMade ==
  ASSUME NEW p \in Party, NEW s, s.myRatchet \in KeyPair, s.myRatchet.owner = p,
         NEW n \in Nat, NEW pub, KeyOf(Other(p), pub, n),
         NEW root \in RootKey,
         NEW after, after = RootAfter(root, DH(FreshKeyPair(s), pub))
  PROVE  /\ after \in RootKey
         /\ ChainKeyOf(after) \in ChainKey
         /\ ChainKeyOf(after) # HandshakeChainKey(p)
         /\ MadeFor(p, ChainKeyOf(after), s.myRatchet.gen + 1, n)
<1> PICK fresh : fresh = FreshKeyPair(s)
  OBVIOUS
<1> PICK g \in Nat : g = s.myRatchet.gen
  BY DEF KeyPair
<1>1. fresh = [owner |-> p, gen |-> g + 1] /\ fresh \in KeyPair
  BY DEF FreshKeyPair, KeyPair
<1>2. /\ pub \in KeyPair /\ pub = [owner |-> Other(p), gen |-> pub.gen]
      /\ pub.gen \in 0 .. n
  BY DEF KeyOf, KeyPair
<1>3. after \in RootKey /\ ChainKeyOf(after) \in ChainKey
  BY <1>1, <1>2, RootStepType
<1>4. /\ after # << >>
      /\ after[Len(after)] = {fresh, pub}
  BY <1>1, <1>2 DEF RootAfter, DH, RootKey
<1>5. ChainKeyOf(after).root = after
  BY DEF ChainKeyOf
<1>6. ChainKeyOf(after) # HandshakeChainKey(p)
  BY <1>4, <1>5 DEF HandshakeChainKey, InitialRoot
<1>7. MadeBy(p, ChainKeyOf(after), g + 1, pub.gen)
  <2>1. after # InitialRoot /\ g + 1 # 0
    BY <1>4 DEF InitialRoot
  <2>2. after[Len(after)]
          = DH([owner |-> p, gen |-> g + 1], [owner |-> Other(p), gen |-> pub.gen])
    <3>1. after[Len(after)] = DH(fresh, pub)
      BY <1>4 DEF DH
    <3> QED
      BY <1>1, <1>2, <3>1
  <2> QED
    BY <1>5, <2>1, <2>2 DEF MadeBy
<1> QED
  BY <1>2, <1>3, <1>6, <1>7 DEF MadeFor

LEMMA WriteRootStep ==
  ASSUME ThreadInv, NEW p \in Party, WriteRoot(p)
  PROVE  ThreadInv'
<1> PICK q : q = Other(p)
  OBVIOUS
<1> PICK n : n = channel[q].myRatchet.gen
  OBVIOUS
<1> PICK s : s = channel[p]
  OBVIOUS
<1> PICK root : root = RootAfter(enc[p].root, DH(FreshKeyPair(s), enc[p].peerPub))
  OBVIOUS
<1>1. /\ q \in Party /\ Other(q) = p /\ q # p
      /\ KeysAndChains(p, s, enc[p], sealed[p], n)
      /\ KeysAndChains(q, channel[q], enc[q], sealed[q], s.myRatchet.gen)
      /\ Outstanding(p, s, enc[p], sealed[p], wire[q])
      /\ Reading(p, channel[q], dec[q], s, sealed[p], wire[q])
      /\ ChainKeysUsed(s, sealed[p]) \cap ChainKeysUsed(channel[q], sealed[q]) = {}
      /\ s.myRatchet.gen \in Nat /\ n \in Nat
      /\ IsChannel(s) /\ IsChannel(channel[q])
      /\ SendingTypes(s, enc[p], sealed[p], wire[q])
  BY ThreadsOf
<1>2. /\ s.myRatchet \in KeyPair /\ channel[q].myRatchet \in KeyPair
      /\ s.myRatchet.owner = p /\ enc[p].root \in RootKey
  BY <1>1 DEF IsChannel, KeysAndChains, SendingTypes, EncryptState
<1>3. /\ enc[p].at = "write"
      /\ channel' = [channel EXCEPT
           ![p].rootKey = root, ![p].sendingChain = NewSendingChain(ChainKeyOf(root))]
      /\ enc' = [enc EXCEPT ![p].at = "keys"]
      /\ wire' = wire /\ shown' = shown /\ alerts' = alerts
      /\ dec' = dec /\ sealed' = sealed
  BY DEF WriteRoot
<1>4. KeyOf(q, enc[p].peerPub, n)
  BY <1>1, <1>3 DEF KeysAndChains
<1>5. /\ root \in RootKey
      /\ ChainKeyOf(root) \in ChainKey
      /\ ChainKeyOf(root) # HandshakeChainKey(p)
      /\ MadeFor(p, ChainKeyOf(root), s.myRatchet.gen + 1, n)
  BY <1>1, <1>2, <1>4, NextChainMade
<1>6. /\ enc'[p].at = "keys" /\ enc'[q] = enc[q] /\ enc' \in [Party -> EncryptState]
  BY <1>1, <1>3 DEF ThreadInv, ThreadTypes, EncryptState
<1> PICK d : d = channel'[p]
  OBVIOUS
<1>7. /\ channel'[q] = channel[q] /\ DOMAIN channel' = Party
      /\ d = [s EXCEPT !.rootKey = root, !.sendingChain = NewSendingChain(ChainKeyOf(root))]
  BY <1>1, <1>3 DEF ThreadInv, ThreadTypes, TypeOK
<1>8. /\ d.rootKey = root
      /\ d.sendingChain = NewSendingChain(ChainKeyOf(root))
      /\ d.myRatchet = s.myRatchet /\ d.peerRatchetPub = s.peerRatchetPub
      /\ d.recvChains = s.recvChains /\ d.window = s.window
      /\ d.sendCounter = s.sendCounter
      /\ IsChannel(d)
  BY <1>1, <1>5, <1>7 DEF IsChannel, IsSendingChain, NewSendingChain
<1>9. /\ d.sendingChain.chainKey = ChainKeyOf(root) /\ d.sendingChain.counter = 0
  BY <1>8 DEF NewSendingChain
<1>10. ThreadTypes'
  <2>1. \A r \in Party : IsChannel(channel'[r])
    BY <1>1, <1>3, <1>8 DEF ThreadInv, ThreadTypes, TypeOK
  <2> QED
    BY <1>3, <1>6, <1>7, <2>1 DEF ThreadInv, ThreadTypes, TypeOK
<1>11. KeysAndChains(p, d, enc'[p], sealed[p], n)
  <2>1. /\ KeysAndChains(p, s, enc[p], sealed[p], n) /\ n \in Nat
        /\ s.myRatchet \in KeyPair /\ enc[p].at # "keys"
        /\ d.myRatchet = s.myRatchet /\ d.peerRatchetPub = s.peerRatchetPub
        /\ enc'[p].at = "keys"
    BY <1>1, <1>2, <1>3, <1>6, <1>8
  <2>2. MadeFor(p, d.sendingChain.chainKey, s.myRatchet.gen + 1, n)
    BY <1>5, <1>9
  <2> QED
    BY <2>1, <2>2, KeysRenewed
<1>12. /\ ChainKeyOf(root) \notin ChainKeysUsed(s, sealed[p])
       /\ ChainKeyOf(root) \notin ChainKeysUsed(channel[q], sealed[q])
  <2> PICK e, fs, t, d2, gs, ck :
        /\ e = enc[p] /\ fs = sealed[p] /\ ck = ChainKeyOf(root)
        /\ t = channel[q] /\ d2 = enc[q] /\ gs = sealed[q]
    OBVIOUS
  <2>1. /\ KeysAndChains(p, s, e, fs, n) /\ n \in Nat
        /\ KeysAndChains(Other(p), t, d2, gs, s.myRatchet.gen)
        /\ s.myRatchet \in KeyPair /\ t.myRatchet \in KeyPair
        /\ e.at # "keys"
        /\ MadeFor(p, ck, s.myRatchet.gen + 1, n)
    BY <1>1, <1>2, <1>3, <1>5
  <2>2. ck \notin ChainKeysUsed(s, fs) /\ ck \notin ChainKeysUsed(t, gs)
    BY <2>1, ChainIsNew
  <2> QED
    BY <2>2
<1>13. Outstanding(p, d, enc'[p], sealed[p], wire[q])
  BY <1>1, <1>5, <1>8, <1>9, <1>12, OutstandingRenewed
<1>14. Reading(p, channel[q], dec[q], d, sealed[p], wire[q])
  BY <1>1, <1>5, <1>8, <1>9, <1>12, ReadingRenewed
<1>15. ChainKeysUsed(d, sealed[p]) \cap ChainKeysUsed(channel[q], sealed[q]) = {}
  <2>1. ChainKeysUsed(d, sealed[p]) \subseteq ChainKeysUsed(s, sealed[p]) \cup {ChainKeyOf(root)}
    BY <1>9 DEF ChainKeysUsed
  <2> QED
    BY <1>1, <1>12, <2>1
<1>16. SenderMoves(p, q)
  BY <1>3, <1>6, <1>7, <1>8 DEF SenderMoves
<1>17. EachThread'
  <2>1. /\ channel'[p].myRatchet.gen \in Nat
        /\ channel[p].myRatchet.gen <= channel'[p].myRatchet.gen
    BY <1>1, <1>8
  <2>2. KeysAndChains(p, channel'[p], enc'[p], sealed'[p], channel[q].myRatchet.gen)
    BY <1>3, <1>11
  <2>3. Outstanding(p, channel'[p], enc'[p], sealed'[p], wire'[q])
    BY <1>3, <1>13
  <2>4. Reading(p, channel[q], dec[q], channel'[p], sealed'[p], wire'[q])
    BY <1>3, <1>14
  <2>5. ChainKeysUsed(channel'[p], sealed'[p]) \cap ChainKeysUsed(channel[q], sealed[q]) = {}
    BY <1>3, <1>15
  <2> QED
    BY <1>16, <2>1, <2>2, <2>3, <2>4, <2>5, SenderStep
<1> QED
  BY <1>3, <1>10, <1>17 DEF ThreadInv, ThreadsReuseNoKey

LEMMA PublishKeysStep ==
  ASSUME ThreadInv, NEW p \in Party, PublishKeys(p)
  PROVE  ThreadInv'
<1> PICK q : q = Other(p)
  OBVIOUS
<1> PICK n : n = channel[q].myRatchet.gen
  OBVIOUS
<1> PICK s : s = channel[p]
  OBVIOUS
<1>1. /\ q \in Party /\ Other(q) = p /\ q # p
      /\ KeysAndChains(p, s, enc[p], sealed[p], n)
      /\ Outstanding(p, s, enc[p], sealed[p], wire[q])
      /\ Reading(p, channel[q], dec[q], s, sealed[p], wire[q])
      /\ ChainKeysUsed(s, sealed[p]) \cap ChainKeysUsed(channel[q], sealed[q]) = {}
      /\ s.myRatchet.gen \in Nat /\ n \in Nat
      /\ IsChannel(s)
  BY ThreadsOf
<1> s.myRatchet \in KeyPair /\ s.myRatchet.owner = p
  BY <1>1 DEF IsChannel, KeysAndChains
<1>2. /\ enc[p].at = "keys"
      /\ channel' = [channel EXCEPT ![p].myRatchet = FreshKeyPair(s)]
      /\ enc' = [enc EXCEPT ![p].at = "settle"]
      /\ wire' = wire /\ shown' = shown /\ alerts' = alerts
      /\ dec' = dec /\ sealed' = sealed
  BY DEF PublishKeys
<1>3. /\ FreshKeyPair(s) \in KeyPair
      /\ FreshKeyPair(s).owner = p /\ FreshKeyPair(s).gen = s.myRatchet.gen + 1
  BY <1>1 DEF FreshKeyPair, KeyPair
<1>4. /\ enc'[p].at = "settle" /\ enc'[q] = enc[q] /\ enc' \in [Party -> EncryptState]
  BY <1>1, <1>2 DEF ThreadInv, ThreadTypes, EncryptState
<1> PICK d : d = channel'[p]
  OBVIOUS
<1>5. /\ channel'[q] = channel[q] /\ DOMAIN channel' = Party
      /\ d = [s EXCEPT !.myRatchet = FreshKeyPair(s)]
  BY <1>1, <1>2 DEF ThreadInv, ThreadTypes, TypeOK
<1>6. /\ d.myRatchet = FreshKeyPair(s)
      /\ d.sendingChain = s.sendingChain /\ d.peerRatchetPub = s.peerRatchetPub
      /\ d.recvChains = s.recvChains /\ d.window = s.window
      /\ d.sendCounter = s.sendCounter
      /\ IsChannel(d)
  BY <1>1, <1>3, <1>5 DEF IsChannel
<1>7. ThreadTypes'
  <2>1. \A r \in Party : IsChannel(channel'[r])
    BY <1>1, <1>2, <1>6 DEF ThreadInv, ThreadTypes, TypeOK
  <2> QED
    BY <1>2, <1>4, <1>5, <2>1 DEF ThreadInv, ThreadTypes, TypeOK
<1>8. KeysAndChains(p, d, enc'[p], sealed[p], n)
  <2>1. /\ KeysAndChains(p, s, enc[p], sealed[p], n) /\ n \in Nat
        /\ enc[p].at = "keys" /\ enc'[p].at = "settle"
        /\ d.myRatchet.owner = p
        /\ d.myRatchet.gen = s.myRatchet.gen + 1
        /\ d.peerRatchetPub = s.peerRatchetPub /\ d.sendingChain = s.sendingChain
    BY <1>1, <1>2, <1>3, <1>4, <1>6
  <2> QED
    BY <2>1, KeysPublished
<1>9. Outstanding(p, d, enc'[p], sealed[p], wire[q])
  <2>1. /\ Outstanding(p, s, enc[p], sealed[p], wire[q])
        /\ d.sendCounter = s.sendCounter /\ d.sendingChain = s.sendingChain
        /\ enc[p].at = "keys"
    BY <1>1, <1>2, <1>6
  <2> QED
    BY <2>1, OutstandingKept
<1>10. Reading(p, channel[q], dec[q], d, sealed[p], wire[q])
  <2>1. ReadingPlace(channel[q], dec[q], wire[q])
    BY <1>1, ReadingParts
  <2> QED
    BY <1>1, <1>6, <2>1, ReadingKept
<1>11. ChainKeysUsed(d, sealed[p]) = ChainKeysUsed(s, sealed[p])
  BY <1>6 DEF ChainKeysUsed
<1>12. SenderMoves(p, q)
  BY <1>2, <1>4, <1>5, <1>6 DEF SenderMoves
<1>13. EachThread'
  <2>1. /\ channel'[p].myRatchet.gen \in Nat
        /\ channel[p].myRatchet.gen <= channel'[p].myRatchet.gen
    BY <1>1, <1>3, <1>6
  <2>2. KeysAndChains(p, channel'[p], enc'[p], sealed'[p], channel[q].myRatchet.gen)
    BY <1>2, <1>8
  <2>3. Outstanding(p, channel'[p], enc'[p], sealed'[p], wire'[q])
    BY <1>2, <1>9
  <2>4. Reading(p, channel[q], dec[q], channel'[p], sealed'[p], wire'[q])
    BY <1>2, <1>10
  <2>5. ChainKeysUsed(channel'[p], sealed'[p]) \cap ChainKeysUsed(channel[q], sealed[q]) = {}
    BY <1>1, <1>2, <1>11
  <2> QED
    BY <1>12, <2>1, <2>2, <2>3, <2>4, <2>5, SenderStep
<1> QED
  BY <1>2, <1>7, <1>13 DEF ThreadInv, ThreadsReuseNoKey

LEMMA SettleStep ==
  ASSUME ThreadInv, NEW p \in Party, Settle(p)
  PROVE  ThreadInv'
<1> PICK q : q = Other(p)
  OBVIOUS
<1> PICK s : s = channel[p]
  OBVIOUS
<1> PICK c : c = [s EXCEPT !.messagesSinceRekey = 0, !.sendRatchetOwed = FALSE]
  OBVIOUS
<1> PICK d : d = AfterEncrypt(c, FALSE)
  OBVIOUS
<1> PICK f : f = [pub  |-> c.myRatchet,
                  ctr  |-> c.sendCounter,
                  seal |-> [key    |-> NextMessageKey(c.sendingChain),
                            pub    |-> c.myRatchet,
                            ctr    |-> c.sendCounter,
                            intact |-> TRUE]]
  OBVIOUS
<1>1. /\ q \in Party /\ Other(q) = p /\ q # p /\ \A r \in Party : r = p \/ r = q
      /\ IsChannel(s)
  BY ThreadsOf
<1>2. /\ enc[p].at = "settle"
      /\ channel' = [channel EXCEPT ![p] = d]
      /\ wire' = [wire EXCEPT ![q] = Append(@, f)]
      /\ sealed' = [sealed EXCEPT ![p] = @ \cup {f}]
      /\ enc' = [enc EXCEPT ![p] = EncIdle]
      /\ shown' = shown /\ alerts' = alerts /\ dec' = dec
  BY <1>1 DEF Settle, Emit, ThreadInv, ThreadTypes, TypeOK
<1>3. /\ c.messagesSinceRekey = 0 /\ c.sendRatchetOwed = FALSE
      /\ c.sendingChain = s.sendingChain /\ c.myRatchet = s.myRatchet
      /\ c.peerRatchetPub = s.peerRatchetPub /\ c.recvChains = s.recvChains
      /\ c.window = s.window /\ c.sendCounter = s.sendCounter
      /\ IsChannel(c)
  BY <1>1 DEF IsChannel
<1>4. ~SendDue(c, FALSE)
  BY <1>3, RekeyAssumption DEF SendDue
<1>5. Continuing(c, d, Sealed(c, FALSE))
  BY <1>3, <1>4, EncryptContinues
<1>6. /\ IsChannel(d) /\ d.window = c.window /\ d.sendCounter = c.sendCounter + 1
  BY <1>3, EncryptType
<1>7. /\ f.pub = s.myRatchet /\ f.ctr = s.sendCounter
      /\ f.seal.key.chainKey = s.sendingChain.chainKey
      /\ f.seal.key.step = s.sendingChain.counter
      /\ Genuine(f)
  BY <1>3 DEF Genuine, NextMessageKey, MessageKey
<1>8. f \in Frame
  <2>1. NextMessageKey(c.sendingChain) \in [chainKey : ChainKey, step : Nat]
    BY <1>3 DEF IsChannel, IsSendingChain, NextMessageKey, MessageKey
  <2>2. c.myRatchet \in KeyPair \cup {NoPub} /\ c.sendCounter \in Nat
    BY <1>3 DEF IsChannel
  <2> QED
    BY <2>1, <2>2 DEF Frame
<1>9. Append(wire[q], f) \in Seq(Frame)
  BY <1>1, <1>8, AppendedAt DEF ThreadInv, ThreadTypes, TypeOK
<1>10. EncIdle \in EncryptState /\ EncIdle.at = "idle"
  BY DEF EncIdle, EncryptState, RootKey, InitialRoot
<1>11. ThreadTypes'
  BY <1>1, <1>2, <1>6, <1>8, <1>9, <1>10 DEF ThreadInv, ThreadTypes, TypeOK
<1>12. /\ channel'[p] = d /\ channel'[q] = channel[q] /\ wire'[p] = wire[p]
       /\ wire'[q] = Append(wire[q], f)
       /\ sealed'[p] = sealed[p] \cup {f} /\ sealed'[q] = sealed[q]
       /\ enc'[p] = EncIdle /\ enc'[q] = enc[q]
  <2>1. /\ DOMAIN channel = Party /\ DOMAIN wire = Party
        /\ DOMAIN sealed = Party /\ DOMAIN enc = Party
    BY DEF ThreadInv, ThreadTypes, TypeOK
  <2> QED
    BY <1>1, <1>2, <2>1
<1>13. Seals(s, d, f)
  BY <1>3, <1>5, <1>6, <1>7, <1>8 DEF Seals, Continuing
<1>14. SenderMoves(p, q)
  <2>1. /\ channel'[p].recvChains = channel[p].recvChains
        /\ channel'[p].window = channel[p].window
        /\ channel'[p].peerRatchetPub = channel[p].peerRatchetPub
    BY <1>3, <1>5, <1>6, <1>12 DEF Continuing
  <2> QED
    BY <1>2, <1>12, <2>1 DEF SenderMoves
<1>15. Emits(p, q, f)
  BY <1>2, <1>7, <1>10, <1>12, <1>13, <1>14 DEF Emits
<1> QED
  BY <1>11, <1>15, EmitStep DEF ThreadInv

\* What decrypt() in p finds.
Finds(p, q, f) ==
  /\ f \in Frame /\ IsFrame(f) /\ f = wire[p][1]
  /\ f.ctr \in Nat /\ f.ctr = Gone(channel[q], wire[p])
  /\ channel[p].window.highest < f.ctr
  /\ Fresh(channel[p].window, f.ctr)
  /\ f.pub # NoPub => KeyOf(q, f.pub, channel[q].myRatchet.gen)
  /\ KeyOf(q, channel[p].peerRatchetPub, channel[q].myRatchet.gen)
  /\ Tail(wire[p]) \in Seq(Frame)

LEMMA Finding ==
  ASSUME ThreadInv, NEW p \in Party, wire[p] # << >>
  PROVE  Finds(p, Other(p), Arriving(p))
<1> PICK q : q = Other(p)
  OBVIOUS
<1> PICK f : f = Arriving(p)
  OBVIOUS
<1>1. /\ KeysAndChains(p, channel[p], enc[p], sealed[p], channel[q].myRatchet.gen)
      /\ KeysAndChains(q, channel[q], enc[q], sealed[q], channel[p].myRatchet.gen)
      /\ Outstanding(q, channel[q], enc[q], sealed[q], wire[p])
      /\ Reading(q, channel[p], dec[p], channel[q], sealed[q], wire[p])
      /\ SendingTypes(channel[q], enc[q], sealed[q], wire[p])
      /\ IsChannel(channel[p])
  BY ThreadsOf
<1>2. wire[p] \in Seq(Frame)
  BY <1>1 DEF SendingTypes
<1>3. f = wire[p][1] /\ Tail(wire[p]) \in Seq(Frame)
  BY <1>2, TailAt DEF Arriving
<1>4. /\ f \in Frame /\ f.ctr \in Nat /\ f.ctr = Gone(channel[q], wire[p])
      /\ FrameOut(q, channel[q], sealed[q], wire[p], 1)
  BY <1>1, <1>3, FirstOut
<1>5. channel[p].window.highest < f.ctr
  BY <1>1, <1>4, ReadingParts
<1>6. Fresh(channel[p].window, f.ctr)
  BY <1>5 DEF Fresh
<1>7. f \in sealed[q]
  BY <1>3, <1>4 DEF FrameOut
<1>8. f.pub # NoPub => KeyOf(q, f.pub, channel[q].myRatchet.gen)
  BY <1>1, <1>7 DEF KeysAndChains
<1>9. KeyOf(q, channel[p].peerRatchetPub, channel[q].myRatchet.gen)
  BY <1>1 DEF KeysAndChains
<1>10. IsFrame(f)
  BY <1>4, FrameFields
<1> QED
  BY <1>3, <1>4, <1>5, <1>6, <1>8, <1>9, <1>10 DEF Finds

LEMMA DecryptPlainStep ==
  ASSUME ThreadInv, NEW p \in Party, DecryptPlain(p)
  PROVE  ThreadInv'
<1> PICK q : q = Other(p)
  OBVIOUS
<1> PICK c : c = channel[p]
  OBVIOUS
<1> PICK b : b = channel'[p]
  OBVIOUS
<1> PICK f : f = Arriving(p)
  OBVIOUS
<1>1. /\ q \in Party /\ Other(q) = p /\ q # p
      /\ Outstanding(q, channel[q], enc[q], sealed[q], wire[p])
      /\ Reading(q, c, dec[p], channel[q], sealed[q], wire[p])
      /\ SendingTypes(channel[q], enc[q], sealed[q], wire[p])
      /\ IsChannel(c)
  BY ThreadsOf
<1>2. /\ dec[p].at = "idle" /\ wire[p] # << >>
      /\ ~Rekeys(c, f)
      /\ Accept(p) \/ Reject(p)
      /\ enc' = enc /\ dec' = dec /\ sealed' = sealed
  BY DEF DecryptPlain
<1>3. Finds(p, q, f)
  BY <1>2, Finding
<1>4. f \in Frame /\ IsFrame(f) /\ f = wire[p][1]
  BY <1>3 DEF Finds
<1>5. TypeOK
  BY DEF ThreadInv, ThreadTypes
<1>6. /\ channel'[q] = channel[q]
      /\ wire'[p] = Tail(wire[p])
      /\ wire'[q] = wire[q]
      /\ Accept(p) => Accepts(c, f) /\ b = AfterAccept(c, f)
      /\ Reject(p) => /\ ~Accepts(c, f)
                      /\ b = c \/ (HasChain(c, f) /\ b = AfterKeyDerivation(c, f))
      /\ TypeOK'
  BY <1>2, <1>5, ReadEffect
<1>7. b = c \/ Stepping(c, b, f)
  <2>1. Accepts(c, f) => HasChain(c, f)
    BY DEF Accepts, Derives
  <2> QED
    BY <1>1, <1>2, <1>4, <1>6, <2>1, DecryptSteps
<1>8. ReadPlain(c, b, f)
  <2>1. CASE Accept(p)
    BY <1>6, <2>1 DEF ReadPlain
  <2>2. CASE Reject(p)
    <3>1. b = c \/ (IsForeign(c, f) /\ b = AfterKeyDerivation(c, f))
      BY <1>1, <1>5, <2>2 DEF Reject, TypeOK
    <3> QED
      BY <1>6, <2>2, <3>1 DEF ReadPlain, IsForeign
  <2> QED
    BY <1>2, <2>1, <2>2
<1>9. Reading(q, b, dec'[p], channel[q], sealed[q], wire'[p])
  BY <1>1, <1>2, <1>4, <1>6, <1>8, PlainReading
<1>10. ReaderMoves(p, q)
  BY <1>2, <1>6, <1>7 DEF ReaderMoves, Stepping, SameKeys
<1>11. KeyOf(q, channel'[p].peerRatchetPub, channel[q].myRatchet.gen)
  BY <1>3, <1>7 DEF Finds, Stepping, SameKeys
<1>12. EachThread' /\ ThreadsReuseNoKey'
  <2>1. wire[p] # << >> /\ wire'[p] = Tail(wire[p])
    BY <1>2, <1>6
  <2>2. Reading(q, channel'[p], dec'[p], channel[q], sealed[q], wire'[p])
    BY <1>9
  <2> QED
    BY <1>10, <1>11, <2>1, <2>2, ReaderStep
<1>13. ThreadTypes'
  BY <1>2, <1>6 DEF ThreadInv, ThreadTypes
<1> QED
  BY <1>12, <1>13 DEF ThreadInv

LEMMA StartDecryptStep ==
  ASSUME ThreadInv, NEW p \in Party, StartDecrypt(p)
  PROVE  ThreadInv'
<1> PICK q : q = Other(p)
  OBVIOUS
<1>1. /\ q \in Party /\ Other(q) = p /\ q # p
      /\ Reading(q, channel[p], dec[p], channel[q], sealed[q], wire[p])
      /\ channel[p].myRatchet \in KeyPair
  BY ThreadsOf DEF SendingTypes
<1>2. /\ dec[p].at = "idle" /\ wire[p] # << >>
      /\ Rekeys(channel[p], Arriving(p))
      /\ dec' = [dec EXCEPT ![p].at = "read", ![p].mine = channel[p].myRatchet]
      /\ channel' = channel /\ wire' = wire /\ shown' = shown /\ alerts' = alerts
      /\ enc' = enc /\ sealed' = sealed
  BY DEF StartDecrypt, vars
<1>3. /\ dec'[p].at = "read" /\ dec'[p].mine = channel[p].myRatchet
      /\ dec'[q] = dec[q] /\ dec' \in [Party -> DecryptState]
  BY <1>1, <1>2 DEF ThreadInv, ThreadTypes, DecryptState
<1>4. Finds(p, q, Arriving(p))
  BY <1>2, Finding
<1>5. ReadingPlace(channel[p], dec'[p], wire[p])
  BY <1>1, <1>2, <1>3, <1>4 DEF ReadingPlace, Finds, Rekeys
<1>6. Reading(q, channel'[p], dec'[p], channel[q], sealed[q], wire'[p])
  BY <1>1, <1>2, <1>3, <1>5, ReadingKept
<1>7. ReaderMoves(p, q)
  BY <1>2, <1>3 DEF ReaderMoves
<1>8. KeyOf(q, channel'[p].peerRatchetPub, channel[q].myRatchet.gen)
  BY <1>2, <1>4 DEF Finds
<1>9. EachThread' /\ ThreadsReuseNoKey'
  BY <1>2, <1>6, <1>7, <1>8, ReaderStep
<1>10. ThreadTypes'
  BY <1>2, <1>3 DEF ThreadInv, ThreadTypes, TypeOK
<1> QED
  BY <1>9, <1>10 DEF ThreadInv

LEMMA ReadRootForCandidateStep ==
  ASSUME ThreadInv, NEW p \in Party, ReadRootForCandidate(p)
  PROVE  ThreadInv'
<1> PICK q : q = Other(p)
  OBVIOUS
<1>1. /\ q \in Party /\ Other(q) = p /\ q # p
      /\ Reading(q, channel[p], dec[p], channel[q], sealed[q], wire[p])
      /\ IsChannel(channel[p])
      /\ KeysAndChains(p, channel[p], enc[p], sealed[p], channel[q].myRatchet.gen)
  BY ThreadsOf
<1>2. /\ dec[p].at = "read"
      /\ dec' = [dec EXCEPT ![p].at = "verify", ![p].root = channel[p].rootKey]
      /\ channel' = channel /\ wire' = wire /\ shown' = shown /\ alerts' = alerts
      /\ enc' = enc /\ sealed' = sealed
  BY DEF ReadRootForCandidate, vars
<1>3. channel[p].rootKey \in RootKey
  BY <1>1 DEF IsChannel
<1>4. /\ dec'[p].at = "verify" /\ dec'[p].mine = dec[p].mine
      /\ dec'[q] = dec[q] /\ dec' \in [Party -> DecryptState]
  BY <1>1, <1>2, <1>3 DEF ThreadInv, ThreadTypes, DecryptState
<1>5. ReadingPlace(channel[p], dec'[p], wire[p])
  <2>1. ReadingPlace(channel[p], dec[p], wire[p])
    BY <1>1, ReadingParts
  <2> QED
    BY <1>2, <1>4, <2>1 DEF ReadingPlace
<1>6. Reading(q, channel'[p], dec'[p], channel[q], sealed[q], wire'[p])
  BY <1>1, <1>2, <1>4, <1>5, ReadingKept
<1>7. ReaderMoves(p, q)
  BY <1>2, <1>4 DEF ReaderMoves
<1>8. KeyOf(q, channel'[p].peerRatchetPub, channel[q].myRatchet.gen)
  BY <1>1, <1>2 DEF KeysAndChains
<1>9. EachThread' /\ ThreadsReuseNoKey'
  BY <1>2, <1>6, <1>7, <1>8, ReaderStep
<1>10. ThreadTypes'
  BY <1>2, <1>4 DEF ThreadInv, ThreadTypes, TypeOK
<1> QED
  BY <1>9, <1>10 DEF ThreadInv

LEMMA IdleDecrypt == DecIdle \in DecryptState /\ DecIdle.at = "idle"
BY DEF DecIdle, DecryptState, RootKey, InitialRoot

LEMMA DropCandidateStep ==
  ASSUME ThreadInv, NEW p \in Party, DropCandidate(p)
  PROVE  ThreadInv'
<1> PICK q : q = Other(p)
  OBVIOUS
<1>1. /\ q \in Party /\ Other(q) = p /\ q # p
      /\ Outstanding(q, channel[q], enc[q], sealed[q], wire[p])
      /\ Reading(q, channel[p], dec[p], channel[q], sealed[q], wire[p])
      /\ SendingTypes(channel[q], enc[q], sealed[q], wire[p])
      /\ IsChannel(channel[p])
  BY ThreadsOf
<1>2. /\ dec[p].at = "verify"
      /\ wire' = [wire EXCEPT ![p] = Tail(@)]
      /\ alerts' = [alerts EXCEPT ![p] = @ + 1]
      /\ dec' = [dec EXCEPT ![p] = DecIdle]
      /\ channel' = channel /\ shown' = shown /\ enc' = enc /\ sealed' = sealed
  BY DEF DropCandidate
<1>3. wire[p] # << >>
  BY <1>1, <1>2, ReadingParts DEF ReadingPlace
<1>4. Finds(p, q, Arriving(p))
  BY <1>3, Finding
<1>5. /\ dec'[p].at = "idle" /\ dec'[q] = dec[q] /\ dec' \in [Party -> DecryptState]
      /\ wire'[p] = Tail(wire[p]) /\ wire'[q] = wire[q]
      /\ wire' \in [Party -> Seq(Frame)]
  BY <1>1, <1>2, <1>4, IdleDecrypt DEF ThreadInv, ThreadTypes, TypeOK, Finds
<1>6. Reading(q, channel'[p], dec'[p], channel[q], sealed[q], wire'[p])
  BY <1>1, <1>2, <1>3, <1>5, DroppedReading
<1>7. ReaderMoves(p, q)
  BY <1>2, <1>5 DEF ReaderMoves
<1>8. KeyOf(q, channel'[p].peerRatchetPub, channel[q].myRatchet.gen)
  BY <1>2, <1>4 DEF Finds
<1>9. EachThread' /\ ThreadsReuseNoKey'
  BY <1>3, <1>5, <1>6, <1>7, <1>8, ReaderStep
<1>10. ThreadTypes'
  BY <1>2, <1>5 DEF ThreadInv, ThreadTypes, TypeOK
<1> QED
  BY <1>9, <1>10 DEF ThreadInv

\* A candidate that opened its frame is stored where the frame is.
Stored(rcs, f) ==
  /\ DOMAIN rcs \in SUBSET Nat
  /\ \A k \in DOMAIN rcs : IsReceivingChain(rcs[k])
  /\ f.seal.key.step = 0
  /\ f.ctr \in DOMAIN rcs
  /\ \A j \in DOMAIN rcs : j <= f.ctr
  /\ rcs[f.ctr].chainKey = f.seal.key.chainKey
  /\ rcs[f.ctr].nextCounter = 1
  /\ rcs[f.ctr].skipped = {}

LEMMA CandidateStored ==
  ASSUME NEW c, IsChannel(c), NEW f \in Frame, Rekeys(c, f), KeyMatches(c, f),
         c.window.highest < f.ctr, \A j \in DOMAIN c.recvChains : j <= f.ctr
  PROVE  CandidateRoot(c, f) \in RootKey /\ Stored(RetainedChains(c, f), f)
<1> PICK d : d = AfterAccept(c, f)
  OBVIOUS
<1> PICK rcs : rcs = RetainedChains(c, f)
  OBVIOUS
<1>1. IsFrame(f) /\ f.ctr \in Nat
  BY FrameFields, FrameRoot
<1>2. Fresh(c.window, f.ctr) /\ HasChain(c, f)
  BY DEF Fresh, HasChain
<1>3. Derivable(ChainFor(c, f), LocalCounter(c, f))
  <2>1. ChainFor(c, f).nextCounter = 0 /\ LocalCounter(c, f) = 0
    BY DEF ChainFor, CandidateChain, NewReceivingChain, LocalCounter
  <2> QED
    BY <2>1, MaxSkipAssumption DEF Derivable, Desynced
<1>4. Accepts(c, f)
  BY <1>2, <1>3 DEF Accepts, Derives
<1>5. IsChannel(d) /\ Committing(c, d, f)
  BY <1>1, <1>4, AcceptType, DecryptCommits
<1>6. d.recvChains = rcs /\ CandidateRoot(c, f) = d.rootKey
  BY <1>5 DEF Committing, CandidateRoot, RootAfter, DH
<1>7. f.ctr \in DOMAIN rcs /\ \A j \in DOMAIN rcs : j <= f.ctr
  BY CommitNewest
<1>8. /\ rcs[f.ctr].chainKey = ChainKeyOf(d.rootKey)
      /\ rcs[f.ctr].nextCounter = 1
      /\ rcs[f.ctr].skipped = {}
      /\ ChainFor(c, f).chainKey = ChainKeyOf(d.rootKey)
      /\ LocalCounter(c, f) = 0
  BY <1>1, <1>5, <1>6, <1>7, CommitChains
<1>9. f.seal.key = MessageKey(ChainKeyOf(d.rootKey), 0)
  BY <1>8 DEF KeyMatches, Opens
<1>10. f.seal.key.step = 0 /\ f.seal.key.chainKey = ChainKeyOf(d.rootKey)
  BY <1>9 DEF MessageKey
<1>11. d.rootKey \in RootKey /\ DOMAIN rcs \in SUBSET Nat
       /\ \A k \in DOMAIN rcs : IsReceivingChain(rcs[k])
  BY <1>5, <1>6 DEF IsChannel
<1> QED
  BY <1>6, <1>7, <1>8, <1>10, <1>11 DEF Stored

LEMMA CommitRootStep ==
  ASSUME ThreadInv, NEW p \in Party, CommitRoot(p)
  PROVE  ThreadInv'
<1> PICK q : q = Other(p)
  OBVIOUS
<1> PICK c : c = channel[p]
  OBVIOUS
<1> PICK f : f = Arriving(p)
  OBVIOUS
<1> PICK seen : seen = Seen(p)
  OBVIOUS
<1>1. /\ q \in Party /\ Other(q) = p /\ q # p
      /\ Outstanding(q, channel[q], enc[q], sealed[q], wire[p])
      /\ Reading(q, c, dec[p], channel[q], sealed[q], wire[p])
      /\ SendingTypes(channel[q], enc[q], sealed[q], wire[p])
      /\ IsChannel(c) /\ dec[p] \in DecryptState
  BY ThreadsOf
<1> PICK rcs : rcs = RetainedChains(seen, f)
  OBVIOUS
<1> PICK root : root = CandidateRoot(seen, f)
  OBVIOUS
<1>2. /\ dec[p].at = "verify"
      /\ KeyMatches(seen, f)
      /\ channel' = [channel EXCEPT ![p].rootKey = root, ![p].recvChains = rcs]
      /\ dec' = [dec EXCEPT ![p].at = "pub"]
      /\ wire' = wire /\ shown' = shown /\ alerts' = alerts /\ enc' = enc /\ sealed' = sealed
  BY DEF CommitRoot
<1>3. wire[p] # << >> /\ Rekeys(c, wire[p][1]) /\ dec[p].mine \in KeyPair
  BY <1>1, <1>2, ReadingParts DEF ReadingPlace
<1>4. Finds(p, q, f)
  BY <1>3, Finding
<1>5. /\ f \in Frame /\ f = wire[p][1] /\ c.window.highest < f.ctr
      /\ f.ctr \in Nat /\ f.ctr = Gone(channel[q], wire[p])
  BY <1>4 DEF Finds
<1>6. /\ seen.peerRatchetPub = c.peerRatchetPub
      /\ seen.recvChains = c.recvChains
      /\ seen.window = c.window
      /\ IsChannel(seen)
  BY <1>1, <1>3 DEF Seen, IsChannel, DecryptState
<1>7. \A j \in DOMAIN seen.recvChains : j <= f.ctr
  <2>1. PICK k : ReadingAt(q, c, dec[p], channel[q], sealed[q], wire[p], k)
    BY <1>1, ReadingParts
  <2>2. /\ k \in Nat /\ DOMAIN c.recvChains \in SUBSET Nat
        /\ \A j \in DOMAIN c.recvChains : j <= k
        /\ NewestAt(q, c.recvChains[k], k, channel[q], sealed[q], dec[p], wire[p])
    BY <1>1, <2>1 DEF ReadingAt, IsChannel
  <2>3. k <= f.ctr
    BY <1>5, <2>2, NewestParts
  <2> QED
    BY <1>5, <1>6, <2>2, <2>3
<1>8. root \in RootKey /\ Stored(rcs, f)
  <2>1. Rekeys(seen, f) /\ seen.window.highest < f.ctr
    BY <1>3, <1>5, <1>6 DEF Rekeys
  <2> QED
    BY <1>2, <1>5, <1>6, <1>7, <2>1, CandidateStored
<1> PICK b : b = channel'[p]
  OBVIOUS
<1>9. /\ channel'[q] = channel[q] /\ DOMAIN channel' = Party
      /\ b = [c EXCEPT !.rootKey = root, !.recvChains = rcs]
  BY <1>1, <1>2 DEF ThreadInv, ThreadTypes, TypeOK
<1>10. /\ b.recvChains = rcs /\ b.window = c.window
       /\ b.peerRatchetPub = c.peerRatchetPub /\ b.myRatchet = c.myRatchet
       /\ b.sendingChain = c.sendingChain /\ b.sendCounter = c.sendCounter
       /\ IsChannel(b)
  BY <1>1, <1>8, <1>9 DEF IsChannel, Stored
<1>11. /\ dec'[p].at = "pub" /\ dec'[q] = dec[q] /\ dec' \in [Party -> DecryptState]
  BY <1>1, <1>2 DEF ThreadInv, ThreadTypes, DecryptState
<1>12. Reading(q, b, dec'[p], channel[q], sealed[q], wire[p])
  <2> PICK d, d2, s, e, fs, w :
        /\ d = dec[p] /\ d2 = dec'[p] /\ w = wire[p]
        /\ s = channel[q] /\ e = enc[q] /\ fs = sealed[q]
    OBVIOUS
  <2>1. f = w[1]
    BY <1>5
  <2>2. /\ w[1].seal.key.step = 0
        /\ w[1].ctr \in DOMAIN b.recvChains
        /\ \A j \in DOMAIN b.recvChains : j <= w[1].ctr
        /\ b.recvChains[w[1].ctr].chainKey = w[1].seal.key.chainKey
        /\ b.recvChains[w[1].ctr].nextCounter = 1
        /\ b.recvChains[w[1].ctr].skipped = {}
    BY <1>8, <1>10, <2>1 DEF Stored
  <2>3. /\ SendingTypes(s, e, fs, w) /\ w # << >> /\ Outstanding(q, s, e, fs, w)
        /\ d.at = "verify" /\ Reading(q, c, d, s, fs, w)
        /\ b.window = c.window /\ d2.at = "pub"
    BY <1>1, <1>2, <1>3, <1>10, <1>11
  <2> QED
    BY <2>2, <2>3, CommittedReading
<1>13. ReaderMoves(p, q)
  BY <1>2, <1>9, <1>10, <1>11 DEF ReaderMoves
<1>14. KeyOf(q, channel'[p].peerRatchetPub, channel[q].myRatchet.gen)
  BY <1>4, <1>10 DEF Finds
<1>15. EachThread' /\ ThreadsReuseNoKey'
  <2>1. Reading(q, channel'[p], dec'[p], channel[q], sealed[q], wire'[p])
    BY <1>2, <1>12
  <2> QED
    BY <1>2, <1>13, <1>14, <2>1, ReaderStep
<1>16. ThreadTypes'
  <2>1. \A r \in Party : IsChannel(channel'[r])
    BY <1>1, <1>2, <1>10 DEF ThreadInv, ThreadTypes, TypeOK
  <2> QED
    BY <1>2, <1>9, <1>11, <2>1 DEF ThreadInv, ThreadTypes, TypeOK
<1> QED
  BY <1>15, <1>16 DEF ThreadInv

LEMMA CommitPubStep ==
  ASSUME ThreadInv, NEW p \in Party, CommitPub(p)
  PROVE  ThreadInv'
<1> PICK q : q = Other(p)
  OBVIOUS
<1> PICK c : c = channel[p]
  OBVIOUS
<1> PICK f : f = Arriving(p)
  OBVIOUS
<1>1. /\ q \in Party /\ Other(q) = p /\ q # p
      /\ Reading(q, c, dec[p], channel[q], sealed[q], wire[p])
      /\ IsChannel(c)
  BY ThreadsOf
<1>2. /\ dec[p].at = "pub"
      /\ channel' = [channel EXCEPT ![p].peerRatchetPub = f.pub]
      /\ dec' = [dec EXCEPT ![p].at = "debt"]
      /\ wire' = wire /\ shown' = shown /\ alerts' = alerts /\ enc' = enc /\ sealed' = sealed
  BY DEF CommitPub
<1>3. wire[p] # << >> /\ wire[p][1].pub # NoPub
  BY <1>1, <1>2, ReadingParts DEF ReadingPlace
<1>4. Finds(p, q, f)
  BY <1>3, Finding
<1>5. KeyOf(q, f.pub, channel[q].myRatchet.gen) /\ f.pub \in KeyPair
  BY <1>3, <1>4 DEF Finds, KeyOf
<1> PICK b : b = channel'[p]
  OBVIOUS
<1>6. /\ channel'[q] = channel[q] /\ DOMAIN channel' = Party
      /\ b = [c EXCEPT !.peerRatchetPub = f.pub]
  BY <1>1, <1>2 DEF ThreadInv, ThreadTypes, TypeOK
<1>7. /\ b.recvChains = c.recvChains /\ b.window = c.window
      /\ b.peerRatchetPub = f.pub /\ b.myRatchet = c.myRatchet
      /\ b.sendingChain = c.sendingChain /\ b.sendCounter = c.sendCounter
      /\ IsChannel(b)
  BY <1>1, <1>5, <1>6 DEF IsChannel
<1>8. /\ dec'[p].at = "debt" /\ dec'[q] = dec[q] /\ dec' \in [Party -> DecryptState]
  BY <1>1, <1>2 DEF ThreadInv, ThreadTypes, DecryptState
<1>9. Reading(q, b, dec'[p], channel[q], sealed[q], wire[p])
  <2> PICK d, d2, s, e, fs, w :
        /\ d = dec[p] /\ d2 = dec'[p] /\ w = wire[p]
        /\ s = channel[q] /\ e = enc[q] /\ fs = sealed[q]
    OBVIOUS
  <2>1. ReadingPlace(b, d2, w)
    BY <1>3, <1>8 DEF ReadingPlace
  <2>2. /\ Reading(q, c, d, s, fs, w)
        /\ b.recvChains = c.recvChains /\ b.window = c.window
        /\ s.sendCounter = s.sendCounter /\ s.sendingChain = s.sendingChain
        /\ d2.at \in {"pub", "debt"} /\ d.at \in {"pub", "debt"}
    BY <1>1, <1>2, <1>7, <1>8
  <2> QED
    BY <2>1, <2>2, ReadingKept
<1>10. ReaderMoves(p, q)
  BY <1>2, <1>6, <1>7, <1>8 DEF ReaderMoves
<1>11. KeyOf(q, channel'[p].peerRatchetPub, channel[q].myRatchet.gen)
  BY <1>5, <1>7
<1>12. EachThread' /\ ThreadsReuseNoKey'
  <2>1. Reading(q, channel'[p], dec'[p], channel[q], sealed[q], wire'[p])
    BY <1>2, <1>9
  <2> QED
    BY <1>2, <1>10, <1>11, <2>1, ReaderStep
<1>13. ThreadTypes'
  <2>1. \A r \in Party : IsChannel(channel'[r])
    BY <1>1, <1>2, <1>7 DEF ThreadInv, ThreadTypes, TypeOK
  <2> QED
    BY <1>2, <1>6, <1>8, <2>1 DEF ThreadInv, ThreadTypes, TypeOK
<1> QED
  BY <1>12, <1>13 DEF ThreadInv

LEMMA CommitDebtStep ==
  ASSUME ThreadInv, NEW p \in Party, CommitDebt(p)
  PROVE  ThreadInv'
<1> PICK q : q = Other(p)
  OBVIOUS
<1> PICK c : c = channel[p]
  OBVIOUS
<1> PICK f : f = Arriving(p)
  OBVIOUS
<1>1. /\ q \in Party /\ Other(q) = p /\ q # p
      /\ Outstanding(q, channel[q], enc[q], sealed[q], wire[p])
      /\ Reading(q, c, dec[p], channel[q], sealed[q], wire[p])
      /\ SendingTypes(channel[q], enc[q], sealed[q], wire[p])
      /\ IsChannel(c) /\ TypeOK
  BY ThreadsOf DEF ThreadInv, ThreadTypes
<1>2. /\ dec[p].at = "debt"
      /\ channel' = [channel EXCEPT ![p].sendRatchetOwed = TRUE,
                                    ![p].window = MarkSeen(@, f.ctr)]
      /\ wire' = [wire EXCEPT ![p] = Tail(@)]
      /\ shown' = [shown EXCEPT ![p] = Append(@, f.seal.ctr)]
      /\ dec' = [dec EXCEPT ![p] = DecIdle]
      /\ alerts' = alerts /\ enc' = enc /\ sealed' = sealed
  BY DEF CommitDebt
<1>3. wire[p] # << >>
  BY <1>1, <1>2, ReadingParts DEF ReadingPlace
<1>4. Finds(p, q, f)
  BY <1>3, Finding
<1>5. IsWindow(MarkSeen(c.window, f.ctr)) /\ f.seal.ctr \in Nat
  BY <1>1, <1>4, MarkSeenType DEF Finds, IsChannel, IsFrame
<1> PICK b : b = channel'[p]
  OBVIOUS
<1>6. /\ channel'[q] = channel[q] /\ DOMAIN channel' = Party
      /\ b = [c EXCEPT !.sendRatchetOwed = TRUE, !.window = MarkSeen(@, f.ctr)]
  BY <1>1, <1>2 DEF TypeOK
<1>7. /\ b.recvChains = c.recvChains /\ b.window = MarkSeen(c.window, f.ctr)
      /\ b.peerRatchetPub = c.peerRatchetPub /\ b.myRatchet = c.myRatchet
      /\ b.sendingChain = c.sendingChain /\ b.sendCounter = c.sendCounter
      /\ IsChannel(b)
  BY <1>1, <1>5, <1>6 DEF IsChannel
<1>8. /\ dec'[p].at = "idle" /\ dec'[q] = dec[q] /\ dec' \in [Party -> DecryptState]
      /\ wire'[p] = Tail(wire[p]) /\ wire'[q] = wire[q]
      /\ wire' \in [Party -> Seq(Frame)]
  BY <1>1, <1>2, <1>4, IdleDecrypt DEF ThreadInv, ThreadTypes, TypeOK, Finds
<1>9. Reading(q, b, dec'[p], channel[q], sealed[q], wire'[p])
  <2> PICK d, d2, s, e, fs, w :
        /\ d = dec[p] /\ d2 = dec'[p] /\ w = wire[p]
        /\ s = channel[q] /\ e = enc[q] /\ fs = sealed[q]
    OBVIOUS
  <2>1. f = w[1]
    BY <1>4 DEF Finds
  <2>2. /\ SendingTypes(s, e, fs, w) /\ w # << >> /\ Outstanding(q, s, e, fs, w)
        /\ IsChannel(c) /\ d.at = "debt" /\ Reading(q, c, d, s, fs, w)
        /\ b.recvChains = c.recvChains /\ b.window = MarkSeen(c.window, w[1].ctr)
        /\ d2.at = "idle"
    BY <1>1, <1>2, <1>3, <1>7, <1>8, <2>1
  <2>3. Reading(q, b, d2, s, fs, Tail(w))
    BY <2>2, ReturnedReading
  <2> QED
    BY <1>8, <2>3
<1>10. ReaderMoves(p, q)
  BY <1>2, <1>6, <1>7, <1>8 DEF ReaderMoves
<1>11. KeyOf(q, channel'[p].peerRatchetPub, channel[q].myRatchet.gen)
  BY <1>4, <1>7 DEF Finds
<1>12. EachThread' /\ ThreadsReuseNoKey'
  <2>1. Reading(q, channel'[p], dec'[p], channel[q], sealed[q], wire'[p])
    BY <1>9
  <2> QED
    BY <1>3, <1>8, <1>10, <1>11, <2>1, ReaderStep
<1>13. ThreadTypes'
  <2>1. \A r \in Party : IsChannel(channel'[r])
    BY <1>1, <1>2, <1>7 DEF TypeOK
  <2>2. Append(shown[p], f.seal.ctr) \in Seq(Nat)
    BY <1>1, <1>5, AppendedAt DEF TypeOK
  <2>3. shown' \in [Party -> Seq(Nat)]
    BY <1>1, <1>2, <2>2 DEF TypeOK
  <2> QED
    BY <1>1, <1>2, <1>6, <1>8, <2>1, <2>3 DEF ThreadInv, ThreadTypes, TypeOK
<1> QED
  BY <1>12, <1>13 DEF ThreadInv

LEMMA InitThreads == GuiInit => ThreadInv
<1> SUFFICES ASSUME GuiInit PROVE ThreadInv
  OBVIOUS
<1>1. \A p \in Party : IsChannel(NewChannel(p))
  BY NewChannelType
<1>2. /\ channel = [p \in Party |-> NewChannel(p)]
      /\ wire = [p \in Party |-> << >>] /\ shown = [p \in Party |-> << >>]
      /\ alerts = [p \in Party |-> 0]
      /\ enc = [p \in Party |-> EncIdle] /\ dec = [p \in Party |-> DecIdle]
      /\ sealed = [p \in Party |-> {}]
  BY DEF GuiInit, Init
<1>3. TypeOK
  BY <1>1, <1>2 DEF TypeOK
<1>4. /\ EncIdle \in EncryptState /\ EncIdle.at = "idle"
      /\ DecIdle \in DecryptState /\ DecIdle.at = "idle"
  BY IdleDecrypt DEF EncIdle, EncryptState, RootKey, InitialRoot
<1>5. ThreadTypes
  BY <1>2, <1>3, <1>4 DEF ThreadTypes
<1>6. ASSUME NEW p \in Party
      PROVE  /\ KeysAndChains(p, channel[p], enc[p], sealed[p], channel[Other(p)].myRatchet.gen)
             /\ Outstanding(p, channel[p], enc[p], sealed[p], wire[Other(p)])
             /\ Reading(Other(p), channel[p], dec[p], channel[Other(p)], sealed[Other(p)], wire[p])
             /\ ChainKeysUsed(channel[p], sealed[p])
                  \cap ChainKeysUsed(channel[Other(p)], sealed[Other(p)]) = {}
  <2> PICK q : q = Other(p)
    OBVIOUS
  <2>1. q \in Party /\ Other(q) = p /\ q # p
    BY TwoParties
  <2> PICK c : c = NewChannel(p)
    OBVIOUS
  <2> PICK s : s = NewChannel(q)
    OBVIOUS
  <2>2. /\ channel[p] = c /\ channel[q] = s
        /\ wire[p] = << >> /\ wire[q] = << >>
        /\ enc[p] = EncIdle /\ dec[p] = DecIdle
        /\ sealed[p] = {} /\ sealed[q] = {}
    BY <1>2, <2>1
  <2>3. /\ c.sendCounter = 0 /\ c.sendingChain.counter = 0
        /\ c.sendingChain.chainKey = HandshakeChainKey(p)
        /\ c.myRatchet.owner = p /\ c.myRatchet.gen = 0
        /\ c.peerRatchetPub.owner = q /\ c.peerRatchetPub.gen = 0
        /\ c.window.highest = -1 /\ DOMAIN c.recvChains = {0}
        /\ c.recvChains[0].chainKey = HandshakeChainKey(q)
        /\ c.recvChains[0].nextCounter = 0 /\ c.recvChains[0].skipped = {}
        /\ c.peerRatchetPub \in KeyPair
    BY <1>1, NewChannelFields DEF IsChannel
  <2>4. /\ s.sendCounter = 0 /\ s.sendingChain.counter = 0
        /\ s.sendingChain.chainKey = HandshakeChainKey(q)
        /\ s.myRatchet.gen = 0
    BY <2>1, NewChannelFields
  <2>5. KeysAndChains(p, c, EncIdle, {}, 0)
    <3>1. ChainGen(c, EncIdle) = 0
      BY <1>4, <2>3 DEF ChainGen
    <3>2. MadeFor(p, c.sendingChain.chainKey, 0, 0)
      BY <2>3 DEF MadeFor, MadeBy
    <3>3. KeyOf(q, c.peerRatchetPub, 0)
      BY <2>3 DEF KeyOf
    <3> QED
      BY <1>4, <2>3, <3>1, <3>2, <3>3 DEF KeysAndChains
  <2>6. Gone(c, << >>) = 0 /\ Gone(s, << >>) = 0 /\ StartNow(s) = 0
    <3>1. Len(<< >>) = 0
      OBVIOUS
    <3>2. Gone(c, << >>) = c.sendCounter - 0 /\ Gone(s, << >>) = s.sendCounter - 0
      BY <3>1 DEF Gone
    <3>3. StartNow(s) = 0 - 0
      BY <2>4 DEF StartNow
    <3> QED
      BY <2>3, <2>4, <3>2, <3>3
  <2>7. Outstanding(p, c, EncIdle, {}, << >>)
    BY <1>4, <2>3 DEF Outstanding
  <2>8. Reading(q, c, DecIdle, s, {}, << >>)
    <3>1. ReadSoFar(s, DecIdle, << >>) = 0
      BY <1>4, <2>6 DEF ReadSoFar
    <3>2. NewestAt(q, c.recvChains[0], 0, s, {}, DecIdle, << >>)
      BY <2>3, <2>4, <2>6, <3>1 DEF NewestAt, SkippedArePassed
    <3> QED
      BY <1>4, <2>3, <2>6, <3>2 DEF Reading
  <2>9. ChainKeysUsed(c, {}) \cap ChainKeysUsed(s, {}) = {}
    BY <2>1, <2>3, <2>4 DEF ChainKeysUsed, HandshakeChainKey
  <2> QED
    BY <2>2, <2>4, <2>5, <2>7, <2>8, <2>9
<1>7. EachThread
  BY <1>6 DEF EachThread
<1>8. ThreadsReuseNoKey
  BY <1>2, PartyAssumption DEF ThreadsReuseNoKey, Party
<1> QED
  BY <1>5, <1>7, <1>8 DEF ThreadInv

LEMMA NextThreads == ThreadInv /\ [GuiNext]_guiVars => ThreadInv'
<1> SUFFICES ASSUME ThreadInv, [GuiNext]_guiVars PROVE ThreadInv'
  OBVIOUS
<1>1. ASSUME NEW p \in Party, EncryptPlain(p) PROVE ThreadInv'
  BY <1>1, EncryptPlainStep
<1>2. ASSUME NEW p \in Party, NEW timeDue \in BOOLEAN, StartStep(p, timeDue) PROVE ThreadInv'
  BY <1>2, StartStepStep
<1>3. ASSUME NEW p \in Party, ReadRoot(p) PROVE ThreadInv'
  BY <1>3, ReadRootStep
<1>4. ASSUME NEW p \in Party, WriteRoot(p) PROVE ThreadInv'
  BY <1>4, WriteRootStep
<1>5. ASSUME NEW p \in Party, PublishKeys(p) PROVE ThreadInv'
  BY <1>5, PublishKeysStep
<1>6. ASSUME NEW p \in Party, Settle(p) PROVE ThreadInv'
  BY <1>6, SettleStep
<1>7. ASSUME NEW p \in Party, DecryptPlain(p) PROVE ThreadInv'
  BY <1>7, DecryptPlainStep
<1>8. ASSUME NEW p \in Party, StartDecrypt(p) PROVE ThreadInv'
  BY <1>8, StartDecryptStep
<1>9. ASSUME NEW p \in Party, ReadRootForCandidate(p) PROVE ThreadInv'
  BY <1>9, ReadRootForCandidateStep
<1>10. ASSUME NEW p \in Party, DropCandidate(p) PROVE ThreadInv'
  BY <1>10, DropCandidateStep
<1>11. ASSUME NEW p \in Party, CommitRoot(p) PROVE ThreadInv'
  BY <1>11, CommitRootStep
<1>12. ASSUME NEW p \in Party, CommitPub(p) PROVE ThreadInv'
  BY <1>12, CommitPubStep
<1>13. ASSUME NEW p \in Party, CommitDebt(p) PROVE ThreadInv'
  BY <1>13, CommitDebtStep
<1>14. CASE UNCHANGED guiVars
  BY <1>14 DEF guiVars, ThreadInv, ThreadTypes, TypeOK, EachThread, ThreadsReuseNoKey
<1> QED
  BY <1>1, <1>2, <1>3, <1>4, <1>5, <1>6, <1>7, <1>8, <1>9, <1>10, <1>11, <1>12, <1>13, <1>14
     DEF GuiNext

(* Whatever the two threads of each end interleave, at every step of the   *)
(* attribute accesses gui.py leaves unguarded: the chains of an end are    *)
(* its own and the newest receiving chain has followed the stream.         *)
THEOREM ThreadInvariance == GuiSpec => []ThreadInv
<1>1. GuiInit => ThreadInv
  BY InitThreads
<1>2. ThreadInv /\ [GuiNext]_guiVars => ThreadInv'
  BY NextThreads
<1> QED
  BY <1>1, <1>2, PTL DEF GuiSpec

(* decrypt() runs without _send_lock beside encrypt(), and still no key    *)
(* seals two frames of a session.                                          *)
THEOREM ThreadsKeepNonces == GuiSpec => []ThreadsReuseNoKey
<1>1. ThreadInv => ThreadsReuseNoKey
  BY DEF ThreadInv
<1> QED
  BY <1>1, ThreadInvariance, PTL

LEMMA ThreadsRead ==
  ASSUME ThreadInv, NEW p \in Party, wire[p] # << >>, dec[p].at = "idle",
         ~Rekeys(channel[p], Arriving(p)), NEW chains, chains = channel[p].recvChains,
         chains[Max(DOMAIN chains)].chainKey = Arriving(p).seal.key.chainKey
  PROVE  Accepts(channel[p], Arriving(p))
<1> PICK q : q = Other(p)
  OBVIOUS
<1> PICK c, d, s, e, fs, w :
      /\ c = channel[p] /\ d = dec[p] /\ w = wire[p]
      /\ s = channel[q] /\ e = enc[q] /\ fs = sealed[q]
  OBVIOUS
<1>1. /\ Outstanding(q, s, e, fs, w) /\ Reading(q, c, d, s, fs, w)
      /\ SendingTypes(s, e, fs, w) /\ IsChannel(c)
  BY ThreadsOf
<1>2. Finds(p, q, Arriving(p))
  BY Finding
<1>3. w[1] = Arriving(p) /\ c.window.highest < Gone(s, w)
  BY <1>2 DEF Finds
<1>4. PICK k : ReadingAt(q, c, d, s, fs, w, k)
  BY <1>1, ReadingParts
<1>5. k = Max(DOMAIN chains)
  <2>1. /\ DOMAIN chains \in SUBSET Nat /\ k \in DOMAIN chains /\ k \in Nat
        /\ \A j \in DOMAIN chains : j <= k
    BY <1>1, <1>4 DEF ReadingAt, IsChannel
  <2>2. /\ Max(DOMAIN chains) \in DOMAIN chains
        /\ \A j \in DOMAIN chains : j <= Max(DOMAIN chains)
    BY <2>1, MaxOfBounded
  <2> QED
    BY <2>1, <2>2
<1>6. /\ w[1].seal.key.chainKey = c.recvChains[k].chainKey
      /\ ~Rekeys(c, w[1]) /\ d.at \notin {"pub", "debt"} /\ w # << >>
  BY <1>3, <1>5
<1>7. Accepts(c, w[1])
  BY <1>1, <1>3, <1>4, <1>6, KnownOpens
<1> QED
  BY <1>3, <1>7

(* A race of the two threads can spoil an announcement, never a message    *)
(* under a chain the reader already has.                                   *)
THEOREM ThreadsLoseNoKnownEpoch == GuiSpec => []KnownEpochOpens
<1>1. ThreadInv => KnownEpochOpens
  BY ThreadsRead DEF KnownEpochOpens
<1> QED
  BY <1>1, ThreadInvariance, PTL

-----------------------------------------------------------------------------
(* What the application is promised, forked or not.                        *)

\* Of the messages numbered up to n, sh are some, in the order of their
\* numbers.
InOrder(sh, n) ==
  /\ \A i \in DOMAIN sh : sh[i] < n
  /\ \A i, j \in DOMAIN sh : i < j => sh[i] < sh[j]

\* What each end has shown is what its peer sent, in the order it was sent:
\* nothing twice and nothing late.
Ordered == \A p \in Party : InOrder(shown[p], Gone(channel[Other(p)], wire[p]))

\* A message is the counter it was sealed with.
Promise == INSTANCE MessageChannel WITH
  Message    <- Nat,
  submitted  <- [p \in Party |-> {n \in Nat : n < channel[p].sendCounter}],
  deliveries <- [p \in Party |-> [n \in Nat |-> IF n \in Range(shown[p]) THEN 1 ELSE 0]]

\* The steps of both ends, as far as the numbers are concerned.
SameCounters == \A r \in Party : channel'[r].sendCounter = channel[r].sendCounter

SendsNext(p) ==
  /\ channel'[p].sendCounter = channel[p].sendCounter + 1
  /\ channel'[Other(p)].sendCounter = channel[Other(p)].sendCounter
  /\ Len(wire'[Other(p)]) = Len(wire[Other(p)]) + 1
  /\ Len(wire'[p]) = Len(wire[p])
  /\ shown' = shown

ReadsNext(p) ==
  /\ SameCounters
  /\ Len(wire[p]) > 0
  /\ Len(wire'[p]) = Len(wire[p]) - 1
  /\ Len(wire'[Other(p)]) = Len(wire[Other(p)])
  /\ \/ shown' = shown
     \/ shown' = [shown EXCEPT ![p] = Append(shown[p], Gone(channel[Other(p)], wire[p]))]

Rests == SameCounters /\ wire' = wire /\ shown' = shown

NumbersMove ==
  \/ \E p \in Party : SendsNext(p) \/ ReadsNext(p)
  \/ Rests

NumberTypes ==
  /\ shown \in [Party -> Seq(Nat)]
  /\ \A p \in Party : /\ channel[p].sendCounter \in Nat
                      /\ Len(wire[p]) \in Nat
                      /\ Len(wire[p]) <= channel[Other(p)].sendCounter

LEMMA OrderLasts ==
  ASSUME NEW sh \in Seq(Nat), NEW n \in Nat, InOrder(sh, n)
  PROVE  /\ InOrder(sh, n + 1)
         /\ InOrder(Append(sh, n), n + 1)
         /\ n \notin Range(sh)
         /\ Range(Append(sh, n)) = Range(sh) \cup {n}
<1> PICK u : u = Append(sh, n)
  OBVIOUS
<1>1. /\ DOMAIN sh = 1 .. Len(sh) /\ Len(sh) \in Nat
      /\ DOMAIN u = 1 .. Len(sh) + 1
      /\ u[Len(sh) + 1] = n
      /\ \A i \in DOMAIN sh : u[i] = sh[i] /\ sh[i] \in Nat
  BY AppendedAt
<1>2. InOrder(sh, n + 1)
  BY <1>1 DEF InOrder
<1>3. InOrder(u, n + 1)
  BY <1>1 DEF InOrder
<1>4. n \notin Range(sh)
  BY <1>1 DEF InOrder, Range
<1>5. Range(u) = Range(sh) \cup {n}
  BY <1>1 DEF Range
<1> QED
  BY <1>2, <1>3, <1>4, <1>5

LEMMA GoneType ==
  ASSUME NumberTypes, NEW p \in Party
  PROVE  Gone(channel[Other(p)], wire[p]) \in Nat
BY TwoParties DEF NumberTypes, Gone

LEMMA OrderKept ==
  ASSUME NumberTypes, Ordered, NumbersMove
  PROVE  Ordered'
<1> SUFFICES ASSUME NEW p \in Party
             PROVE  InOrder(shown'[p], Gone(channel'[Other(p)], wire'[p]))
  BY DEF Ordered
<1> PICK g \in Nat : g = Gone(channel[Other(p)], wire[p])
  BY GoneType
<1>1. InOrder(shown[p], g) /\ shown[p] \in Seq(Nat) /\ Other(p) \in Party
  BY TwoParties DEF Ordered, NumberTypes
<1>2. g = channel[Other(p)].sendCounter - Len(wire[p])
      /\ channel[Other(p)].sendCounter \in Nat /\ Len(wire[p]) \in Nat
  BY <1>1 DEF Gone, NumberTypes
<1>3. ASSUME NEW r \in Party, SendsNext(r)
      PROVE  Gone(channel'[Other(p)], wire'[p]) = g /\ shown'[p] = shown[p]
  <2>1. p = r \/ p = Other(r)
    BY DEF Party, Other
  <2>2. CASE p = r
    BY <1>2, <1>3, <2>2 DEF SendsNext, Gone
  <2>3. CASE p = Other(r)
    <3>1. Other(p) = r
      BY <2>3, TwoParties
    <3>2. Gone(channel'[r], wire'[p]) = (channel[r].sendCounter + 1) - (Len(wire[p]) + 1)
      BY <1>3, <2>3 DEF SendsNext, Gone
    <3>3. (channel[r].sendCounter + 1) - (Len(wire[p]) + 1) = channel[r].sendCounter - Len(wire[p])
      BY <1>2, <3>1, BothOneUp
    <3>4. shown'[p] = shown[p]
      BY <1>3 DEF SendsNext
    <3> QED
      BY <1>2, <3>1, <3>2, <3>3, <3>4, Zenon
  <2> QED
    BY <2>1, <2>2, <2>3
<1>4. ASSUME NEW r \in Party, ReadsNext(r), p # r
      PROVE  Gone(channel'[Other(p)], wire'[p]) = g /\ shown'[p] = shown[p]
  <2>1. p = Other(r)
    BY <1>4 DEF Party, Other
  <2>2. shown'[p] = shown[p]
    BY <1>4 DEF ReadsNext, NumberTypes
  <2> QED
    BY <1>1, <1>2, <1>4, <2>1, <2>2 DEF ReadsNext, Gone, SameCounters
<1>5. ASSUME ReadsNext(p)
      PROVE  /\ Gone(channel'[Other(p)], wire'[p]) = g + 1
             /\ shown'[p] = shown[p] \/ shown'[p] = Append(shown[p], g)
  <2>1. shown'[p] = shown[p] \/ shown'[p] = Append(shown[p], g)
    BY <1>5 DEF ReadsNext, NumberTypes
  <2>2. Gone(channel'[Other(p)], wire'[p])
          = channel[Other(p)].sendCounter - (Len(wire[p]) - 1)
    BY <1>1, <1>5 DEF ReadsNext, SameCounters, Gone
  <2> QED
    BY <1>2, <2>1, <2>2
<1>6. CASE Rests
  BY <1>1, <1>2, <1>6 DEF Rests, SameCounters, Gone
<1>7. InOrder(shown[p], g + 1) /\ InOrder(Append(shown[p], g), g + 1)
  BY <1>1, OrderLasts
<1>8. ASSUME NEW r \in Party, SendsNext(r) \/ ReadsNext(r)
      PROVE  InOrder(shown'[p], Gone(channel'[Other(p)], wire'[p]))
  BY <1>1, <1>3, <1>4, <1>5, <1>7, <1>8
<1> QED
  BY <1>6, <1>8 DEF NumbersMove

LEMMA NumbersRefine ==
  ASSUME NumberTypes, Ordered, NumbersMove
  PROVE  Promise!Next \/ UNCHANGED Promise!vars
<1> DEFINE sent(c) == {n \in Nat : n < c.sendCounter}
           seen(sh) == [n \in Nat |-> IF n \in Range(sh) THEN 1 ELSE 0]
<1>1. SameCounters => [r \in Party |-> sent(channel'[r])] = [r \in Party |-> sent(channel[r])]
  BY DEF SameCounters
<1>2. shown' = shown => [r \in Party |-> seen(shown'[r])] = [r \in Party |-> seen(shown[r])]
  OBVIOUS
<1>3. CASE SameCounters /\ shown' = shown
  BY <1>1, <1>2, <1>3 DEF Promise!vars
<1>4. ASSUME NEW p \in Party, SendsNext(p)
      PROVE  Promise!Next
  <2> PICK n : n = channel[p].sendCounter
    OBVIOUS
  <2>1. /\ n \in Nat /\ channel'[p].sendCounter = n + 1
        /\ \A r \in Party \ {p} : channel'[r].sendCounter = channel[r].sendCounter
        /\ shown' = shown
    BY <1>4 DEF SendsNext, NumberTypes, Party, Other
  <2>2. sent(channel'[p]) = sent(channel[p]) \cup {n}
    BY <2>1
  <2>3. \A r \in Party \ {p} : sent(channel'[r]) = sent(channel[r])
    BY <2>1
  <2>4. n \notin sent(channel[p])
    BY <2>1
  <2> HIDE DEF sent
  <2>5. [r \in Party |-> sent(channel'[r])]
          = [[r \in Party |-> sent(channel[r])] EXCEPT ![p] = @ \cup {n}]
    BY <2>2, <2>3
  <2>6. Promise!Submit(p, n)
    BY <1>2, <2>1, <2>4, <2>5 DEF Promise!Submit, sent
  <2> QED
    BY <2>1, <2>6 DEF Promise!Next, Promise!Party, Party
<1>5. ASSUME NEW p \in Party, ReadsNext(p), shown' # shown
      PROVE  Promise!Next
  <2> PICK n \in Nat : n = Gone(channel[Other(p)], wire[p])
    BY GoneType
  <2>1. /\ SameCounters /\ Len(wire[p]) > 0
        /\ shown' = [shown EXCEPT ![p] = Append(shown[p], n)]
    BY <1>5 DEF ReadsNext
  <2>2. n < channel[Other(p)].sendCounter
    BY <2>1, TwoParties DEF NumberTypes, Gone
  <2>3. shown[p] \in Seq(Nat) /\ InOrder(shown[p], n) /\ DOMAIN shown = Party
    BY DEF Ordered, NumberTypes
  <2>4. n \notin Range(shown[p]) /\ Range(Append(shown[p], n)) = Range(shown[p]) \cup {n}
    BY <2>3, OrderLasts
  <2>5. seen(Append(shown[p], n)) = [seen(shown[p]) EXCEPT ![n] = 1]
    BY <2>4
  <2>6. seen(shown[p])[n] = 0
    BY <2>4
  <2> HIDE DEF seen
  <2>7. [r \in Party |-> seen(shown'[r])]
          = [[r \in Party |-> seen(shown[r])] EXCEPT ![p][n] = 1]
    BY <2>1, <2>3, <2>5
  <2>8. n \in sent(channel[Other(p)]) /\ Other(p) = Promise!Peer(p) /\ Other(p) \in Party
    BY <2>2, TwoParties DEF Promise!Peer, Other
  <2>9. Promise!Deliver(p, n)
    BY <1>1, <2>1, <2>6, <2>7, <2>8 DEF Promise!Deliver, seen
  <2> QED
    BY <2>9 DEF Promise!Next, Promise!Party, Party
<1> QED
  BY <1>3, <1>4, <1>5 DEF NumbersMove, Rests, ReadsNext

LEMMA LinkNumbers ==
  ASSUME LinkInv
  PROVE  NumberTypes
<1>1. ASSUME NEW p \in Party
      PROVE  /\ channel[p].sendCounter \in Nat /\ Len(wire[p]) \in Nat
             /\ Len(wire[p]) <= channel[Other(p)].sendCounter
  <2>1. Other(p) \in Party /\ Other(Other(p)) = p
    BY TwoParties
  <2>2. channel[p].sendCounter \in Nat /\ wire[p] \in Seq(Frame)
    BY LinkTypes DEF LinkInv
  <2>3. StreamOf(Other(p), channel[Other(p)], wire[p])
    BY <2>1 DEF LinkInv, Streams
  <2> QED
    BY <2>2, <2>3, StreamParts
<1> QED
  BY <1>1 DEF NumberTypes, LinkInv, TypeOK

\* What the number of an accepted frame is, its place in the stream says.
LEMMA FirstNumber ==
  ASSUME LinkInv, NEW p \in Party, wire[p] # << >>
  PROVE  Arriving(p).seal.ctr = Gone(channel[Other(p)], wire[p])
<1> PICK q : q = Other(p)
  OBVIOUS
<1>1. q \in Party /\ Other(q) = p
  BY TwoParties
<1>2. wire[p] \in Seq(Frame) /\ channel[q].sendCounter \in Nat
  BY <1>1, LinkTypes DEF LinkInv
<1>3. 1 \in DOMAIN wire[p] /\ Arriving(p) = wire[p][1] /\ Len(wire[p]) \in Nat
  BY <1>2, TailAt DEF Arriving
<1>4. InStream(q, channel[q], wire[p], 1)
  BY <1>1, <1>3, StreamParts DEF LinkInv, Streams
<1>5. Gone(channel[q], wire[p]) \in Int
  BY <1>2, <1>3 DEF Gone
<1> QED
  BY <1>3, <1>4, <1>5 DEF InStream, Genuine

LEMMA LinkMoves ==
  ASSUME LinkInv, [Next]_vars
  PROVE  NumbersMove
<1>1. ASSUME NEW p \in Party, NEW timeDue \in BOOLEAN, Send(p, timeDue)
      PROVE  SendsNext(p)
  <2>1. Other(p) \in Party /\ wire[Other(p)] \in Seq(Frame)
    BY TwoParties, LinkTypes DEF LinkInv
  <2>2. /\ channel'[p].sendCounter = channel[p].sendCounter + 1
        /\ channel'[Other(p)] = channel[Other(p)]
        /\ wire'[Other(p)] = Append(wire[Other(p)], Sealed(channel[p], timeDue))
        /\ wire'[p] = wire[p] /\ shown' = shown
        /\ Sealed(channel[p], timeDue) \in Frame
    BY <1>1, SendEffect DEF LinkInv
  <2>3. Len(wire'[Other(p)]) = Len(wire[Other(p)]) + 1
    BY <2>1, <2>2, AppendedAt
  <2> QED
    BY <2>2, <2>3 DEF SendsNext
<1>2. ASSUME NEW p \in Party, Accept(p) \/ Reject(p)
      PROVE  ReadsNext(p)
  <2> PICK f : f = Arriving(p)
    OBVIOUS
  <2>1. /\ wire[p] # << >> /\ IsChannel(channel[p]) /\ IsFrame(f)
        /\ channel'[Other(p)] = channel[Other(p)]
        /\ wire'[p] = Tail(wire[p]) /\ wire'[Other(p)] = wire[Other(p)]
    BY <1>2, ReadEffect DEF LinkInv
  <2>2. channel'[p].sendCounter = channel[p].sendCounter
    <3>1. CASE Accept(p)
      <4>1. Accepts(channel[p], f) /\ channel'[p] = AfterAccept(channel[p], f)
        BY <3>1, ReadEffect DEF LinkInv
      <4> QED
        BY <2>1, <4>1, AcceptType
    <3>2. CASE Reject(p)
      <4>1. \/ channel'[p] = channel[p]
            \/ HasChain(channel[p], f) /\ channel'[p] = AfterKeyDerivation(channel[p], f)
        BY <3>2, ReadEffect DEF LinkInv
      <4> QED
        BY <2>1, <4>1, KeyDerivationType
    <3> QED
      BY <1>2, <3>1, <3>2
  <2>3. SameCounters
    BY <2>1, <2>2 DEF SameCounters, Party, Other
  <2>4. Len(wire[p]) > 0 /\ Len(wire'[p]) = Len(wire[p]) - 1
    BY <2>1, LinkTypes, TailAt DEF LinkInv
  <2>5. \/ shown' = shown
        \/ shown' = [shown EXCEPT ![p] = Append(shown[p], f.seal.ctr)]
    BY <1>2 DEF Accept, Reject
  <2>6. f.seal.ctr = Gone(channel[Other(p)], wire[p])
    BY <2>1, FirstNumber
  <2> QED
    BY <2>1, <2>3, <2>4, <2>5, <2>6 DEF ReadsNext
<1>3. CASE UNCHANGED vars
  BY <1>3 DEF vars, NumbersMove, Rests, SameCounters
<1> QED
  BY <1>1, <1>2, <1>3 DEF Next, NumbersMove

LEMMA InitNumbers ==
  ASSUME Init
  PROVE  Ordered /\ Promise!Init
<1>1. \A p \in Party : channel[p].sendCounter = 0 /\ shown[p] = << >>
  BY NewChannelFields DEF Init
<1>2. Ordered
  BY <1>1 DEF Ordered, InOrder
<1>3. \A p \in Party : {n \in Nat : n < channel[p].sendCounter} = {}
  BY <1>1
<1>4. \A p \in Party : Range(shown[p]) = {}
  BY <1>1 DEF Range
<1> QED
  BY <1>2, <1>3, <1>4 DEF Promise!Init, Promise!Party, Party

(* Fork or no fork, an end shows what its peer sent in the order it was    *)
(* sent, and nothing twice: what a fork costs is messages, never their     *)
(* order (secure_channel.py decrypt(), transport.py recv_bytes).           *)
THEOREM ShownInOrder == Spec => []Ordered
<1>1. Init => Ordered
  BY InitNumbers
<1>2. LinkInv /\ Ordered /\ [Next]_vars => Ordered'
  BY LinkNumbers, LinkMoves, OrderKept
<1> QED
  BY <1>1, <1>2, LinkHolds, PTL DEF Spec

(* Two endpoints on a stream keep the promise of the abstract channel that *)
(* the endpoints on a datagram link keep: a plaintext is returned at most  *)
(* once, and only if the peer sent it.                                     *)
THEOREM StreamRefinement == Spec => Promise!Spec
<1>1. Init => Promise!Init
  BY InitNumbers
<1>2. LinkInv /\ Ordered /\ [Next]_vars => [Promise!Next]_(Promise!vars)
  BY LinkNumbers, LinkMoves, NumbersRefine
<1> QED
  BY <1>1, <1>2, LinkHolds, ShownInOrder, PTL DEF Spec, Promise!Spec

-----------------------------------------------------------------------------
(* The same for a chat, which is a session that takes turns, and for the   *)
(* threads of the GUI.                                                     *)

(* The chat loops use the connection as two ends of a full-duplex session  *)
(* do: whatever holds of TcpLink's steps holds of the loops of client.py   *)
(* and server.py.                                                          *)
THEOREM ChatIsASession == ChatSpec => Spec
<1>1. ChatInit => Init
  BY DEF ChatInit
<1>2. [ChatNext]_chatVars => [Next]_vars
  <2> SUFFICES ASSUME [ChatNext]_chatVars PROVE Next \/ UNCHANGED vars
    OBVIOUS
  <2>1. ASSUME NEW p \in Party, NEW quit \in BOOLEAN, NEW timeDue \in BOOLEAN,
               Type(p, quit, timeDue)
        PROVE  Next
    BY <2>1 DEF Type, Next
  <2>2. ASSUME NEW p \in Party, NEW timeDue \in BOOLEAN, TypeInVain(p, timeDue)
        PROVE  Next
    BY <2>2 DEF TypeInVain, Next
  <2>3. ASSUME NEW p \in Party, ReadFrame(p)
        PROVE  Next
    BY <2>3 DEF ReadFrame, Next
  <2>4. ASSUME NEW p \in Party, Hangup(p) \/ Interrupt(p)
        PROVE  UNCHANGED vars
    BY <2>4 DEF Hangup, Interrupt
  <2>5. CASE UNCHANGED chatVars
    BY <2>5 DEF chatVars, vars
  <2> QED
    BY <2>1, <2>2, <2>3, <2>4, <2>5 DEF ChatNext
<1> QED
  BY <1>1, <1>2, PTL DEF ChatSpec, Spec

\* No message is missing from what an end shows.
ShownWithoutGaps == \A p \in Party : shown[p] = [i \in 1 .. Len(shown[p]) |-> i - 1]

(* What is shown in a chat is all that was read, from the first message    *)
(* on: between ends that take turns no frame is refused, so no message is  *)
(* lost (client.py and server.py after decrypt()).                         *)
THEOREM ChatShowsAll == ChatSpec => []ShownWithoutGaps
<1>1. OpensUnlessForked /\ ChatNeverAlerts => ShownWithoutGaps
  BY Zenon DEF OpensUnlessForked, ChatNeverAlerts, ShownWithoutGaps
<1> QED
  BY <1>1, ChatIsASession, OpensUntilFork, ChatIsQuiet, PTL

LEMMA ThreadNumbers ==
  ASSUME ThreadInv
  PROVE  NumberTypes
<1>1. ASSUME NEW p \in Party
      PROVE  /\ channel[p].sendCounter \in Nat /\ Len(wire[p]) \in Nat
             /\ Len(wire[p]) <= channel[Other(p)].sendCounter
  <2>1. Outstanding(Other(p), channel[Other(p)], enc[Other(p)], sealed[Other(p)], wire[p])
    BY ThreadsOf
  <2>2. channel[p].sendCounter \in Nat /\ wire[p] \in Seq(Frame)
    BY LinkTypes DEF ThreadInv, ThreadTypes
  <2> QED
    BY <2>1, <2>2, OutstandingParts
<1> QED
  BY <1>1 DEF NumberTypes, ThreadInv, ThreadTypes, TypeOK

LEMMA FirstThreadNumber ==
  ASSUME ThreadInv, NEW p \in Party, wire[p] # << >>
  PROVE  /\ Arriving(p).seal.ctr = Gone(channel[Other(p)], wire[p])
         /\ IsFrame(Arriving(p))
<1> PICK q : q = Other(p)
  OBVIOUS
<1>1. /\ Outstanding(q, channel[q], enc[q], sealed[q], wire[p])
      /\ SendingTypes(channel[q], enc[q], sealed[q], wire[p])
  BY ThreadsOf
<1>2. /\ wire[p][1] \in Frame /\ wire[p][1].ctr = Gone(channel[q], wire[p])
      /\ FrameOut(q, channel[q], sealed[q], wire[p], 1)
  BY <1>1, FirstOut
<1>3. Arriving(p) = wire[p][1]
  BY <1>1, TailAt DEF Arriving, SendingTypes
<1> QED
  BY <1>2, <1>3, FrameFields DEF FrameOut, Genuine

\* A step that leaves the channels' counters alone.
LEMMA KeysAlone ==
  ASSUME ThreadInv, NEW p \in Party, NEW b, b.sendCounter = channel[p].sendCounter,
         channel' = [channel EXCEPT ![p] = b]
  PROVE  SameCounters
BY DEF SameCounters, ThreadInv, ThreadTypes, TypeOK

LEMMA FrameGoes ==
  ASSUME ThreadInv, NEW p \in Party, NEW d, d.sendCounter = channel[p].sendCounter + 1,
         channel' = [channel EXCEPT ![p] = d], NEW f,
         wire' = [wire EXCEPT ![Other(p)] = Append(@, f)], shown' = shown
  PROVE  SendsNext(p)
<1>1. /\ Other(p) \in Party /\ Other(p) # p
      /\ DOMAIN channel = Party /\ DOMAIN wire = Party
      /\ wire[Other(p)] \in Seq(Frame)
  BY TwoParties, LinkTypes DEF ThreadInv, ThreadTypes, TypeOK
<1>2. Len(Append(wire[Other(p)], f)) = Len(wire[Other(p)]) + 1
  BY <1>1
<1> QED
  BY <1>1, <1>2 DEF SendsNext

LEMMA FrameComes ==
  ASSUME ThreadInv, NEW p \in Party, wire[p] # << >>, SameCounters,
         wire' = [wire EXCEPT ![p] = Tail(@)],
         \/ shown' = shown
         \/ shown' = [shown EXCEPT ![p] = Append(@, Arriving(p).seal.ctr)]
  PROVE  ReadsNext(p)
<1>1. /\ Other(p) \in Party /\ Other(p) # p
      /\ DOMAIN wire = Party /\ wire[p] \in Seq(Frame)
  BY TwoParties, LinkTypes DEF ThreadInv, ThreadTypes, TypeOK
<1>2. Len(wire[p]) > 0 /\ Len(Tail(wire[p])) = Len(wire[p]) - 1
  BY <1>1, TailAt
<1> QED
  BY <1>1, <1>2, FirstThreadNumber DEF ReadsNext

LEMMA EncryptNumbers ==
  ASSUME ThreadInv, NEW p \in Party, EncryptPlain(p) \/ Settle(p)
  PROVE  SendsNext(p)
<1>1. IsChannel(channel[p])
  BY ThreadsOf
<1>2. CASE EncryptPlain(p)
  <2>1. /\ channel' = [channel EXCEPT ![p] = AfterEncrypt(channel[p], FALSE)]
        /\ wire' = [wire EXCEPT ![Other(p)] = Append(@, Sealed(channel[p], FALSE))]
        /\ shown' = shown
    BY <1>2 DEF EncryptPlain, Emit
  <2>2. AfterEncrypt(channel[p], FALSE).sendCounter = channel[p].sendCounter + 1
    BY <1>1, EncryptType
  <2> QED
    BY <2>1, <2>2, FrameGoes
<1>3. CASE Settle(p)
  <2> PICK c : c = [channel[p] EXCEPT !.messagesSinceRekey = 0, !.sendRatchetOwed = FALSE]
    OBVIOUS
  <2>1. PICK f : /\ channel' = [channel EXCEPT ![p] = AfterEncrypt(c, FALSE)]
                 /\ wire' = [wire EXCEPT ![Other(p)] = Append(@, f)]
                 /\ shown' = shown
    BY <1>3 DEF Settle, Emit
  <2>2. IsChannel(c) /\ c.sendCounter = channel[p].sendCounter
    BY <1>1 DEF IsChannel
  <2>3. AfterEncrypt(c, FALSE).sendCounter = channel[p].sendCounter + 1
    BY <2>2, EncryptType
  <2> QED
    BY <2>1, <2>3, FrameGoes
<1> QED
  BY <1>2, <1>3

LEMMA DecryptNumbers ==
  ASSUME ThreadInv, NEW p \in Party, DecryptPlain(p) \/ DropCandidate(p) \/ CommitDebt(p)
  PROVE  ReadsNext(p)
<1>1. IsChannel(channel[p]) /\ TypeOK
      /\ Reading(Other(p), channel[p], dec[p], channel[Other(p)], sealed[Other(p)], wire[p])
  BY ThreadsOf DEF ThreadInv, ThreadTypes
<1>2. CASE DecryptPlain(p)
  <2>1. wire[p] # << >> /\ (Accept(p) \/ Reject(p))
    BY <1>2 DEF DecryptPlain
  <2>2. IsFrame(Arriving(p))
    BY <2>1, FirstThreadNumber
  <2>3. SameCounters
    <3>1. CASE Accept(p)
      <4>1. /\ Accepts(channel[p], Arriving(p))
            /\ channel' = [channel EXCEPT ![p] = AfterAccept(channel[p], Arriving(p))]
        BY <3>1 DEF Accept
      <4>2. AfterAccept(channel[p], Arriving(p)).sendCounter = channel[p].sendCounter
        BY <1>1, <2>2, <4>1, AcceptType
      <4> QED
        BY <4>1, <4>2, KeysAlone
    <3>2. CASE Reject(p)
      <4>1. \/ channel' = channel
            \/ /\ HasChain(channel[p], Arriving(p))
               /\ channel' = [channel EXCEPT ![p] = AfterKeyDerivation(channel[p], Arriving(p))]
        BY <3>2 DEF Reject, IsForeign, Derives
      <4>2. HasChain(channel[p], Arriving(p))
              => AfterKeyDerivation(channel[p], Arriving(p)).sendCounter = channel[p].sendCounter
        BY <1>1, <2>2, KeyDerivationType
      <4>3. channel' = channel => SameCounters
        BY DEF SameCounters
      <4> QED
        BY <4>1, <4>2, <4>3, KeysAlone
    <3> QED
      BY <2>1, <3>1, <3>2
  <2>4. /\ wire' = [wire EXCEPT ![p] = Tail(@)]
        /\ \/ shown' = shown
           \/ shown' = [shown EXCEPT ![p] = Append(@, Arriving(p).seal.ctr)]
    BY <2>1 DEF Accept, Reject
  <2> QED
    BY <2>1, <2>3, <2>4, FrameComes
<1>3. CASE DropCandidate(p)
  <2>1. /\ dec[p].at # "idle" /\ wire' = [wire EXCEPT ![p] = Tail(@)]
        /\ shown' = shown /\ channel' = channel
    BY <1>3 DEF DropCandidate
  <2>2. wire[p] # << >>
    BY <1>1, <2>1, ReadingParts DEF ReadingPlace
  <2> QED
    BY <2>1, <2>2, FrameComes DEF SameCounters
<1>4. CASE CommitDebt(p)
  <2> PICK b : b = [channel[p] EXCEPT !.sendRatchetOwed = TRUE,
                                      !.window = MarkSeen(@, Arriving(p).ctr)]
    OBVIOUS
  <2>1. /\ dec[p].at # "idle" /\ wire' = [wire EXCEPT ![p] = Tail(@)]
        /\ shown' = [shown EXCEPT ![p] = Append(@, Arriving(p).seal.ctr)]
        /\ channel' = [channel EXCEPT ![p] = b]
    BY <1>1, <1>4 DEF CommitDebt, TypeOK
  <2>2. wire[p] # << >>
    BY <1>1, <2>1, ReadingParts DEF ReadingPlace
  <2>3. b.sendCounter = channel[p].sendCounter
    BY <1>1 DEF IsChannel
  <2>4. SameCounters
    BY <2>1, <2>3, KeysAlone
  <2> QED
    BY <2>1, <2>2, <2>4, FrameComes
<1> QED
  BY <1>2, <1>3, <1>4

\* An access to an attribute, between the frames.
LEMMA AccessNumbers ==
  ASSUME ThreadInv, NEW p \in Party,
         \/ WriteRoot(p) \/ PublishKeys(p) \/ CommitRoot(p) \/ CommitPub(p)
  PROVE  Rests
<1>1. IsChannel(channel[p]) /\ TypeOK
  BY ThreadsOf DEF ThreadInv, ThreadTypes
<1>2. wire' = wire /\ shown' = shown
  BY DEF WriteRoot, PublishKeys, CommitRoot, CommitPub
<1>3. SameCounters
  <2>1. CASE WriteRoot(p)
    <3>1. PICK root : channel' = [channel EXCEPT ![p].rootKey = root,
                                    ![p].sendingChain = NewSendingChain(ChainKeyOf(root))]
      BY <2>1, Zenon DEF WriteRoot
    <3> PICK b : b = [channel[p] EXCEPT !.rootKey = root,
                                        !.sendingChain = NewSendingChain(ChainKeyOf(root))]
      OBVIOUS
    <3>2. channel' = [channel EXCEPT ![p] = b]
      BY <1>1, <3>1 DEF TypeOK
    <3>3. b.sendCounter = channel[p].sendCounter
      BY <1>1 DEF IsChannel
    <3> QED
      BY <3>2, <3>3, KeysAlone
  <2>2. CASE PublishKeys(p)
    <3> PICK b : b = [channel[p] EXCEPT !.myRatchet = FreshKeyPair(channel[p])]
      OBVIOUS
    <3>1. channel' = [channel EXCEPT ![p] = b]
      BY <1>1, <2>2 DEF PublishKeys, TypeOK
    <3>2. b.sendCounter = channel[p].sendCounter
      BY <1>1 DEF IsChannel
    <3> QED
      BY <3>1, <3>2, KeysAlone
  <2>3. CASE CommitRoot(p)
    <3>1. channel' = [channel EXCEPT ![p].rootKey    = CandidateRoot(Seen(p), Arriving(p)),
                                     ![p].recvChains = RetainedChains(Seen(p), Arriving(p))]
      BY <2>3, Zenon DEF CommitRoot
    <3> PICK root, chains : /\ root = CandidateRoot(Seen(p), Arriving(p))
                            /\ chains = RetainedChains(Seen(p), Arriving(p))
      OBVIOUS
    <3> PICK b : b = [channel[p] EXCEPT !.rootKey = root, !.recvChains = chains]
      OBVIOUS
    <3>2. channel' = [channel EXCEPT ![p] = b]
      BY <1>1, <3>1 DEF TypeOK
    <3>3. b.sendCounter = channel[p].sendCounter
      BY <1>1 DEF IsChannel
    <3> QED
      BY <3>2, <3>3, KeysAlone
  <2>4. CASE CommitPub(p)
    <3> PICK b : b = [channel[p] EXCEPT !.peerRatchetPub = Arriving(p).pub]
      OBVIOUS
    <3>1. channel' = [channel EXCEPT ![p] = b]
      BY <1>1, <2>4 DEF CommitPub, TypeOK
    <3>2. b.sendCounter = channel[p].sendCounter
      BY <1>1 DEF IsChannel
    <3> QED
      BY <3>1, <3>2, KeysAlone
  <2> QED
    BY <2>1, <2>2, <2>3, <2>4
<1> QED
  BY <1>2, <1>3 DEF Rests

LEMMA ThreadsMove ==
  ASSUME ThreadInv, [GuiNext]_guiVars
  PROVE  NumbersMove
<1>1. ASSUME NEW p \in Party, EncryptPlain(p) \/ Settle(p)
      PROVE  NumbersMove
  BY <1>1, EncryptNumbers DEF NumbersMove
<1>2. ASSUME NEW p \in Party, DecryptPlain(p) \/ DropCandidate(p) \/ CommitDebt(p)
      PROVE  NumbersMove
  BY <1>2, DecryptNumbers DEF NumbersMove
<1>3. ASSUME NEW p \in Party, WriteRoot(p) \/ PublishKeys(p) \/ CommitRoot(p) \/ CommitPub(p)
      PROVE  NumbersMove
  BY <1>3, AccessNumbers DEF NumbersMove
<1>4. ASSUME NEW p \in Party, NEW timeDue \in BOOLEAN, StartStep(p, timeDue)
      PROVE  UNCHANGED vars
  BY <1>4 DEF StartStep
<1>5. ASSUME NEW p \in Party, ReadRoot(p) \/ StartDecrypt(p) \/ ReadRootForCandidate(p)
      PROVE  UNCHANGED vars
  BY <1>5 DEF ReadRoot, StartDecrypt, ReadRootForCandidate
<1>6. UNCHANGED guiVars => UNCHANGED vars
  BY DEF guiVars, vars
<1>7. UNCHANGED vars => NumbersMove
  BY DEF vars, NumbersMove, Rests, SameCounters
<1> QED
  BY <1>1, <1>2, <1>3, <1>4, <1>5, <1>6, <1>7 DEF GuiNext

(* However the two threads of an end interleave, and whatever rekeys they  *)
(* tear, the reader shows the peer's messages in the order they were sent  *)
(* and none twice (gui.py _recv_loop beside _send_raw).                    *)
THEOREM ThreadsShowInOrder == GuiSpec => []Ordered
<1>1. GuiInit => Ordered
  BY InitNumbers DEF GuiInit
<1>2. ThreadInv /\ Ordered /\ [GuiNext]_guiVars => Ordered'
  BY ThreadNumbers, ThreadsMove, OrderKept
<1> QED
  BY <1>1, <1>2, ThreadInvariance, PTL DEF GuiSpec

(* The threads of the GUI keep the promise of the abstract channel, step   *)
(* by step of their attribute accesses.                                    *)
THEOREM ThreadRefinement == GuiSpec => Promise!Spec
<1>1. GuiInit => Promise!Init
  BY InitNumbers DEF GuiInit
<1>2. ThreadInv /\ Ordered /\ [GuiNext]_guiVars => [Promise!Next]_(Promise!vars)
  BY ThreadNumbers, ThreadsMove, NumbersRefine
<1> QED
  BY <1>1, <1>2, ThreadInvariance, ThreadsShowInOrder, PTL DEF GuiSpec, Promise!Spec
=============================================================================
