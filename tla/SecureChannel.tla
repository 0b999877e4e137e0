--------------------------- MODULE SecureChannel ---------------------------
(***************************************************************************)
(* class SecureChannel (secure_channel.py): one endpoint of an established *)
(* session, as a record with a field per attribute and an operator per     *)
(* step of encrypt() and decrypt().  The modules that put two endpoints on *)
(* a link (DatagramLink, TcpLink, CliChat) hold the record in a variable.  *)
(*                                                                         *)
(* A frame is [pub, ctr, seal]: the announced ratchet key or NoPub (the    *)
(* flag byte), the wire counter, and the AES-GCM ciphertext.  A ciphertext *)
(* is named by what was sealed: the message key, the header passed as      *)
(* associated data, and whether its bytes are still those encrypt() made.  *)
(* The plaintext of a frame is identified by the counter it was sealed     *)
(* under.  Padding is lossless on the payloads pad() makes, so it leaves   *)
(* no trace here.                                                          *)
(***************************************************************************)
EXTENDS Ratchet, ReplayWindow, FiniteSetsExt

CONSTANTS
  Initiator, Responder,   \* the two ends of the session
  NoPub,                  \* FLAG_NO_REKEY: the frame announces no key
  RekeyInterval,          \* messages per sending epoch
  MaxRetainedChains       \* MAX_RETAINED_CHAINS

ASSUME PartyAssumption == Initiator # Responder
ASSUME RekeyAssumption == RekeyInterval \in Nat \ {0}
ASSUME RetainedAssumption == MaxRetainedChains \in Nat \ {0}

Party == {Initiator, Responder}

Other(p) == IF p = Initiator THEN Responder ELSE Initiator

\* The n-th ratchet key pair a party generated.  One name serves for the
\* private and for the public half.
KeyPair == [owner : Party, gen : Nat]

ASSUME NoPubAssumption == NoPub \notin KeyPair

\* derive_shared_secret: symmetric in the two key pairs.
DH(mine, theirs) == {mine, theirs}

\* __init__, with the keys _derive_channel hands over: a chain per
\* direction, one root, the handshake's ephemeral keys as ratchet keys.
NewChannel(p) ==
  [sendingChain       |-> NewSendingChain(HandshakeChainKey(p)),
   recvChains         |-> [k \in {0} |-> NewReceivingChain(HandshakeChainKey(Other(p)))],
   rootKey            |-> InitialRoot,
   myRatchet          |-> [owner |-> p, gen |-> 0],
   peerRatchetPub     |-> [owner |-> Other(p), gen |-> 0],
   messagesSinceRekey |-> 0,
   sendRatchetOwed    |-> FALSE,
   sendCounter        |-> 0,
   window             |-> EmptyWindow]

-----------------------------------------------------------------------------
(* encrypt()                                                               *)

SendDue(c, timeDue) ==
  \/ c.sendRatchetOwed
  \/ c.messagesSinceRekey >= RekeyInterval
  \/ timeDue

FreshKeyPair(c) == [c.myRatchet EXCEPT !.gen = @ + 1]

\* _perform_send_ratchet_step.
AfterSendStep(c) ==
  LET fresh == FreshKeyPair(c)
      root  == RootAfter(c.rootKey, DH(fresh, c.peerRatchetPub))
  IN  [c EXCEPT !.rootKey            = root,
                !.sendingChain       = NewSendingChain(ChainKeyOf(root)),
                !.myRatchet          = fresh,
                !.messagesSinceRekey = 0,
                !.sendRatchetOwed    = FALSE]

ReadyToSeal(c, timeDue) == IF SendDue(c, timeDue) THEN AfterSendStep(c) ELSE c

AfterEncrypt(c, timeDue) ==
  [ReadyToSeal(c, timeDue) EXCEPT !.sendCounter        = @ + 1,
                                  !.messagesSinceRekey = @ + 1,
                                  !.sendingChain       = NextStep(@)]

\* The frame encrypt() returns.
Sealed(c, timeDue) ==
  LET ready == ReadyToSeal(c, timeDue)
      pub   == IF SendDue(c, timeDue) THEN ready.myRatchet ELSE NoPub
  IN  [pub  |-> pub,
       ctr  |-> c.sendCounter,
       seal |-> [key    |-> NextMessageKey(ready.sendingChain),
                 pub    |-> pub,
                 ctr    |-> c.sendCounter,
                 intact |-> TRUE]]

\* The frame is as some encrypt() made it.
Genuine(f) == f.seal.intact /\ f.pub = f.seal.pub /\ f.ctr = f.seal.ctr

-----------------------------------------------------------------------------
(* decrypt()                                                               *)

\* The header announces a key that is not the one already in use.
Rekeys(c, f) == f.pub # NoPub /\ f.pub # c.peerRatchetPub

\* _compute_receive_ratchet_step: computed, not yet applied.
CandidateRoot(c, f) == RootAfter(c.rootKey, DH(c.myRatchet, f.pub))

CandidateChain(c, f) == NewReceivingChain(ChainKeyOf(CandidateRoot(c, f)))

\* Mutant: < for <= in the chain lookup.
StartsBelow(c, n) == {k \in DOMAIN c.recvChains : k < n}

StartsUpTo(c, n) == {k \in DOMAIN c.recvChains : k <= n}

\* decrypt() finds a chain; without one max() raises ValueError.
HasChain(c, f) == Rekeys(c, f) \/ StartsUpTo(c, f.ctr) # {}

ChainStart(c, f) == Max(StartsUpTo(c, f.ctr))

ChainFor(c, f) ==
  IF Rekeys(c, f) THEN CandidateChain(c, f) ELSE c.recvChains[ChainStart(c, f)]

LocalCounter(c, f) == IF Rekeys(c, f) THEN 0 ELSE f.ctr - ChainStart(c, f)

\* Mutant: the tag is not verified.
OpensAnything(key, f) == TRUE

\* Mutant: the header is not passed as associated data.
OpensAnyHeader(key, f) == f.seal.intact /\ f.seal.key = key

\* aes_gcm_decrypt verifies the tag: same key, same nonce and header, and
\* ciphertext bytes that were not touched.
Opens(key, f) == Genuine(f) /\ f.seal.key = key

KeyMatches(c, f) ==
  Opens(MessageKey(ChainFor(c, f).chainKey, LocalCounter(c, f)), f)

SteppedChain(c, f) == AfterKeyFor(ChainFor(c, f), LocalCounter(c, f))

\* key_for steps a stored chain in place; a candidate chain is a local
\* object, dropped unless the frame authenticates.
AfterKeyDerivation(c, f) ==
  IF Rekeys(c, f)
  THEN c
  ELSE [c EXCEPT !.recvChains[ChainStart(c, f)] = SteppedChain(c, f)]

\* Mutant: the chain is stored under the next counter.
RetainedChainsLate(c, f) ==
  [k \in Newest(DOMAIN c.recvChains \cup {f.ctr + 1}, MaxRetainedChains) |->
     IF k = f.ctr + 1 THEN SteppedChain(c, f) ELSE c.recvChains[k]]

\* The chains after the candidate was stored and the oldest were pruned.
RetainedChains(c, f) ==
  [k \in Newest(DOMAIN c.recvChains \cup {f.ctr}, MaxRetainedChains) |->
     IF k = f.ctr THEN SteppedChain(c, f) ELSE c.recvChains[k]]

\* Mutants of the commit: the peer's new key, the new root key or the debt
\* is forgotten.
AfterCommitKeyLost(c, f) ==
  [c EXCEPT !.rootKey         = CandidateRoot(c, f),
            !.recvChains      = RetainedChains(c, f),
            !.sendRatchetOwed = TRUE]

AfterCommitRootLost(c, f) ==
  [c EXCEPT !.recvChains      = RetainedChains(c, f),
            !.peerRatchetPub  = f.pub,
            !.sendRatchetOwed = TRUE]

AfterCommitNoDebt(c, f) ==
  [c EXCEPT !.rootKey         = CandidateRoot(c, f),
            !.recvChains      = RetainedChains(c, f),
            !.peerRatchetPub  = f.pub]

\* _commit_receive_ratchet_step with _prune_old_recv_chains.
AfterCommit(c, f) ==
  [c EXCEPT !.rootKey         = CandidateRoot(c, f),
            !.recvChains      = RetainedChains(c, f),
            !.peerRatchetPub  = f.pub,
            !.sendRatchetOwed = TRUE]

AfterAccept(c, f) ==
  [(IF Rekeys(c, f) THEN AfterCommit(c, f) ELSE AfterKeyDerivation(c, f))
     EXCEPT !.window = MarkSeen(@, f.ctr)]

-----------------------------------------------------------------------------
(* The outcomes of decrypt(f) on the channel c, one per exit.              *)

IsStale(c, f) == ~Fresh(c.window, f.ctr)                  \* ReplayError

IsOrphan(c, f) == Fresh(c.window, f.ctr) /\ ~HasChain(c, f) \* ValueError

IsPassed(c, f) ==                                         \* TamperError
  /\ Fresh(c.window, f.ctr)
  /\ HasChain(c, f)
  /\ Desynced(ChainFor(c, f), LocalCounter(c, f))

Derives(c, f) ==
  /\ Fresh(c.window, f.ctr)
  /\ HasChain(c, f)
  /\ Derivable(ChainFor(c, f), LocalCounter(c, f))

IsForeign(c, f) == Derives(c, f) /\ ~KeyMatches(c, f)     \* TamperError

Accepts(c, f) == Derives(c, f) /\ KeyMatches(c, f)        \* the plaintext

-----------------------------------------------------------------------------
(* The epochs of the proofs: p sealed under the chain key ck while its     *)
(* ratchet key was its g-th and, when it made it, the newest one it had of *)
(* the peer was the h-th.                                                  *)
MadeBy(p, ck, g, h) ==
  IF g = 0
  THEN ck = HandshakeChainKey(p)
  ELSE /\ ck.root # InitialRoot
       /\ ck.root[Len(ck.root)]
            = DH([owner |-> p, gen |-> g], [owner |-> Other(p), gen |-> h])

-----------------------------------------------------------------------------
(* The types, field by field.                                              *)

RootKey == Seq(SUBSET KeyPair)

ChainKey == [label : Party \cup {"dh-ratchet-step"}, root : RootKey]

IsSendingChain(sc) ==
  /\ DOMAIN sc = {"chainKey", "counter"}
  /\ sc.chainKey \in ChainKey
  /\ sc.counter \in Nat

IsReceivingChain(rc) ==
  /\ DOMAIN rc = {"chainKey", "nextCounter", "skipped"}
  /\ rc.chainKey \in ChainKey
  /\ rc.nextCounter \in Nat
  /\ rc.skipped \in SUBSET Nat

IsWindow(w) ==
  /\ DOMAIN w = {"highest", "bitmap"}
  /\ w.highest \in Nat \cup {-1}
  /\ w.bitmap \in SUBSET (0 .. (WindowSize - 1))

IsChannel(c) ==
  /\ DOMAIN c = {"sendingChain", "recvChains", "rootKey", "myRatchet",
                 "peerRatchetPub", "messagesSinceRekey", "sendRatchetOwed",
                 "sendCounter", "window"}
  /\ IsSendingChain(c.sendingChain)
  /\ DOMAIN c.recvChains \in SUBSET Nat
  /\ \A k \in DOMAIN c.recvChains : IsReceivingChain(c.recvChains[k])
  /\ c.rootKey \in RootKey
  /\ c.myRatchet \in KeyPair
  /\ c.peerRatchetPub \in KeyPair
  /\ c.messagesSinceRekey \in Nat
  /\ c.sendRatchetOwed \in BOOLEAN
  /\ c.sendCounter \in Nat
  /\ IsWindow(c.window)

IsFrame(f) ==
  /\ DOMAIN f = {"pub", "ctr", "seal"}
  /\ DOMAIN f.seal = {"key", "pub", "ctr", "intact"}
  /\ f.pub \in KeyPair \cup {NoPub}
  /\ f.ctr \in Nat
  /\ f.seal.key \in [chainKey : ChainKey, step : Nat]
  /\ f.seal.pub \in KeyPair \cup {NoPub}
  /\ f.seal.ctr \in Nat
  /\ f.seal.intact \in BOOLEAN

Frame ==
  [pub  : KeyPair \cup {NoPub},
   ctr  : Nat,
   seal : [key    : [chainKey : ChainKey, step : Nat],
           pub    : KeyPair \cup {NoPub},
           ctr    : Nat,
           intact : BOOLEAN]]
=============================================================================
