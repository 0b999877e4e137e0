------------------------------ MODULE Ratchet ------------------------------
(***************************************************************************)
(* The two ratchets of ratchet.py, as operators on chain objects.          *)
(*                                                                         *)
(* Keys are symbolic.  HMAC and HKDF are injective and one-way, so a value *)
(* is named by what it was derived from: a root key is the sequence of the *)
(* Diffie-Hellman outputs mixed into it, a message key is a chain together *)
(* with the number of steps taken from its head.  Two keys are equal in    *)
(* the program exactly when their names are equal here.                    *)
(***************************************************************************)
EXTENDS Integers, Sequences, FiniteSets

CONSTANT MaxSkip    \* ReceivingChain.MAX_SKIP

ASSUME MaxSkipAssumption == MaxSkip \in Nat

\* The n largest elements of a finite set of integers: what is left of a
\* dict once the code has deleted its sorted()[:excess] keys.
Newest(S, n) == {k \in S : Cardinality({j \in S : j > k}) < n}

-----------------------------------------------------------------------------
(* dh_ratchet_step: one HKDF expansion, a new root and a new chain key.    *)

InitialRoot == << >>

RootAfter(root, dh) == Append(root, dh)

\* The chain keys the handshake hands over are labelled by their direction;
\* every later one is the second half of the expansion that made `root`.
HandshakeChainKey(direction) == [label |-> direction, root |-> InitialRoot]

ChainKeyOf(root) == [label |-> "dh-ratchet-step", root |-> root]

MessageKey(chainKey, n) == [chainKey |-> chainKey, step |-> n]

-----------------------------------------------------------------------------
(* SendingChain: strictly sequential.                                      *)

NewSendingChain(chainKey) == [chainKey |-> chainKey, counter |-> 0]

NextMessageKey(sc) == MessageKey(sc.chainKey, sc.counter)

\* Mutant: the counter of the chain is not advanced.
NextStepStuck(sc) == sc

NextStep(sc) == [sc EXCEPT !.counter = @ + 1]

-----------------------------------------------------------------------------
(* ReceivingChain.  The cached key of a skipped step is determined by the  *)
(* step, so the dict _skipped is the set of its keys.                      *)

NewReceivingChain(chainKey) ==
  [chainKey |-> chainKey, nextCounter |-> 0, skipped |-> {}]

\* key_for raises ChainDesync.
Desynced(rc, n) ==
  /\ n \notin rc.skipped
  /\ \/ n < rc.nextCounter
     \/ n - rc.nextCounter > MaxSkip

\* Mutant: the sort is reversed, so the newest keys go.
EvictNewestSkipped(skipped) ==
  {k \in skipped : Cardinality({j \in skipped : j < k}) < MaxSkip}

EvictExcessSkipped(skipped) == Newest(skipped, MaxSkip)

\* Mutant: a cached key is read with [] instead of pop().
AfterKeyForNoPop(rc, n) ==
  IF n \in rc.skipped
  THEN rc
  ELSE [rc EXCEPT !.nextCounter = n + 1,
                  !.skipped =
                     EvictExcessSkipped(@ \cup (rc.nextCounter .. (n - 1)))]

\* Mutant: stepped-over keys are dropped.
AfterKeyForNoCache(rc, n) ==
  IF n \in rc.skipped
  THEN [rc EXCEPT !.skipped = @ \ {n}]
  ELSE [rc EXCEPT !.nextCounter = n + 1]

\* The chain after key_for(n) returned: a cached key is popped; otherwise
\* the chain is stepped through n and every step before n is cached.
AfterKeyFor(rc, n) ==
  IF n \in rc.skipped
  THEN [rc EXCEPT !.skipped = @ \ {n}]
  ELSE [rc EXCEPT !.nextCounter = n + 1,
                  !.skipped =
                     EvictExcessSkipped(@ \cup (rc.nextCounter .. (n - 1)))]

\* A chain can still produce the key of step n.
Derivable(rc, n) == ~Desynced(rc, n)
=============================================================================
