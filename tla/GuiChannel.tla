----------------------------- MODULE GuiChannel -----------------------------
(***************************************************************************)
(* The SecureChannel of a GUI session in the hands of its threads: the GUI *)
(* thread and the file threads encrypt, one at a time, under _send_lock    *)
(* (gui.py _send_raw); the worker thread decrypts without it (_recv_loop). *)
(* TcpLink takes encrypt() and decrypt() as one step each.  Here a step is *)
(* an access to an attribute both sides use: _root_key, _my_ratchet_priv,  *)
(* _peer_ratchet_pub_bytes and _send_ratchet_owed.  What only one side     *)
(* uses (the sending chain and counters; the receiving chains and window)  *)
(* goes with the step before it.                                           *)
(***************************************************************************)
EXTENDS TcpLink

VARIABLES
  enc,         \* enc[p]: the progress of encrypt() and its local variables
  dec,         \* dec[p]: the same for decrypt()
  sealed       \* sealed[p]: every frame p has sent

guiVars == <<channel, wire, shown, alerts, enc, dec, sealed>>

EncIdle == [at |-> "idle", peerPub |-> NoPub, root |-> InitialRoot]
DecIdle == [at |-> "idle", mine |-> NoPub, root |-> InitialRoot]

GuiInit ==
  /\ Init
  /\ enc = [p \in Party |-> EncIdle]
  /\ dec = [p \in Party |-> DecIdle]
  /\ sealed = [p \in Party |-> {}]

-----------------------------------------------------------------------------
(* encrypt(), in the thread that holds _send_lock.                         *)

Emit(p, f) ==
  /\ wire' = [wire EXCEPT ![Other(p)] = Append(@, f)]
  /\ sealed' = [sealed EXCEPT ![p] = @ \cup {f}]

\* No step is due: nothing the other side uses is touched.
EncryptPlain(p) ==
  /\ enc[p].at = "idle"
  /\ channel[p].sendCounter < Quota[p]
  /\ ~SendDue(channel[p], FALSE)
  /\ channel' = [channel EXCEPT ![p] = AfterEncrypt(@, FALSE)]
  /\ Emit(p, Sealed(channel[p], FALSE))
  /\ UNCHANGED <<shown, alerts, enc, dec>>

\* _perform_send_ratchet_step reads _peer_ratchet_pub_bytes ...
StartStep(p, timeDue) ==
  /\ enc[p].at = "idle"
  /\ channel[p].sendCounter < Quota[p]
  /\ SendDue(channel[p], timeDue)
  /\ enc' = [enc EXCEPT ![p].at = "read",
                        ![p].peerPub = channel[p].peerRatchetPub]
  /\ UNCHANGED <<vars, dec, sealed>>

\* ... and _root_key, ...
ReadRoot(p) ==
  /\ enc[p].at = "read"
  /\ enc' = [enc EXCEPT ![p].at = "write", ![p].root = channel[p].rootKey]
  /\ UNCHANGED <<vars, dec, sealed>>

\* ... assigns _root_key and _sending_chain, ...
WriteRoot(p) ==
  LET root == RootAfter(enc[p].root,
                        DH(FreshKeyPair(channel[p]), enc[p].peerPub))
  IN  /\ enc[p].at = "write"
      /\ channel' = [channel EXCEPT
           ![p].rootKey      = root,
           ![p].sendingChain = NewSendingChain(ChainKeyOf(root))]
      /\ enc' = [enc EXCEPT ![p].at = "keys"]
      /\ UNCHANGED <<wire, shown, alerts, dec, sealed>>

\* ... then _my_ratchet_priv, ...
PublishKeys(p) ==
  /\ enc[p].at = "keys"
  /\ channel' = [channel EXCEPT ![p].myRatchet = FreshKeyPair(channel[p])]
  /\ enc' = [enc EXCEPT ![p].at = "settle"]
  /\ UNCHANGED <<wire, shown, alerts, dec, sealed>>

\* ... and clears _send_ratchet_owed; the rest of encrypt() and send_bytes()
\* is the sender's own.
Settle(p) ==
  LET c == [channel[p] EXCEPT !.messagesSinceRekey = 0,
                              !.sendRatchetOwed    = FALSE]
      pub == c.myRatchet
  IN  /\ enc[p].at = "settle"
      /\ channel' = [channel EXCEPT ![p] = AfterEncrypt(c, FALSE)]
      /\ Emit(p, [pub  |-> pub,
                  ctr  |-> c.sendCounter,
                  seal |-> [key    |-> NextMessageKey(c.sendingChain),
                            pub    |-> pub,
                            ctr    |-> c.sendCounter,
                            intact |-> TRUE]])
      /\ enc' = [enc EXCEPT ![p] = EncIdle]
      /\ UNCHANGED <<shown, alerts, dec>>

-----------------------------------------------------------------------------
(* decrypt(), in the worker thread.                                        *)

\* A frame that announces nothing meets only what the worker owns.
DecryptPlain(p) ==
  /\ dec[p].at = "idle"
  /\ wire[p] # << >>
  /\ ~Rekeys(channel[p], Arriving(p))
  /\ Accept(p) \/ Reject(p)
  /\ UNCHANGED <<enc, dec, sealed>>

\* _compute_receive_ratchet_step reads _my_ratchet_priv ...
StartDecrypt(p) ==
  /\ dec[p].at = "idle"
  /\ wire[p] # << >>
  /\ Rekeys(channel[p], Arriving(p))
  /\ Fresh(channel[p].window, Arriving(p).ctr)
  /\ dec' = [dec EXCEPT ![p].at = "read", ![p].mine = channel[p].myRatchet]
  /\ UNCHANGED <<vars, enc, sealed>>

\* ... and _root_key.
ReadRootForCandidate(p) ==
  /\ dec[p].at = "read"
  /\ dec' = [dec EXCEPT ![p].at = "verify", ![p].root = channel[p].rootKey]
  /\ UNCHANGED <<vars, enc, sealed>>

\* The channel as decrypt() has read it.
Seen(p) ==
  [channel[p] EXCEPT !.myRatchet = dec[p].mine, !.rootKey = dec[p].root]

\* The tag does not verify: TamperError, the candidate is dropped.
DropCandidate(p) ==
  /\ dec[p].at = "verify"
  /\ ~KeyMatches(Seen(p), Arriving(p))
  /\ wire' = [wire EXCEPT ![p] = Tail(@)]
  /\ alerts' = [alerts EXCEPT ![p] = @ + 1]
  /\ dec' = [dec EXCEPT ![p] = DecIdle]
  /\ UNCHANGED <<channel, shown, enc, sealed>>

\* It does: _commit_receive_ratchet_step assigns _root_key and stores the
\* chain, ...
CommitRoot(p) ==
  LET f == Arriving(p) IN
  /\ dec[p].at = "verify"
  /\ KeyMatches(Seen(p), f)
  /\ channel' = [channel EXCEPT ![p].rootKey    = CandidateRoot(Seen(p), f),
                                ![p].recvChains = RetainedChains(Seen(p), f)]
  /\ dec' = [dec EXCEPT ![p].at = "pub"]
  /\ UNCHANGED <<wire, shown, alerts, enc, sealed>>

\* ... then _peer_ratchet_pub_bytes, ...
CommitPub(p) ==
  /\ dec[p].at = "pub"
  /\ channel' = [channel EXCEPT ![p].peerRatchetPub = Arriving(p).pub]
  /\ dec' = [dec EXCEPT ![p].at = "debt"]
  /\ UNCHANGED <<wire, shown, alerts, enc, sealed>>

\* ... then _send_ratchet_owed; the window is the worker's own.
CommitDebt(p) ==
  /\ dec[p].at = "debt"
  /\ channel' = [channel EXCEPT
       ![p].sendRatchetOwed = TRUE,
       ![p].window = MarkSeen(@, Arriving(p).ctr)]
  /\ wire' = [wire EXCEPT ![p] = Tail(@)]
  /\ shown' = [shown EXCEPT ![p] = Append(@, Arriving(p).seal.ctr)]
  /\ dec' = [dec EXCEPT ![p] = DecIdle]
  /\ UNCHANGED <<alerts, enc, sealed>>

GuiNext ==
  \E p \in Party :
    \/ EncryptPlain(p)
    \/ \E timeDue \in BOOLEAN : StartStep(p, timeDue)
    \/ ReadRoot(p)
    \/ WriteRoot(p)
    \/ PublishKeys(p)
    \/ Settle(p)
    \/ DecryptPlain(p)
    \/ StartDecrypt(p)
    \/ ReadRootForCandidate(p)
    \/ DropCandidate(p)
    \/ CommitRoot(p)
    \/ CommitPub(p)
    \/ CommitDebt(p)

GuiSpec == GuiInit /\ [][GuiNext]_guiVars

-----------------------------------------------------------------------------
GuiTypeOK ==
  /\ TypeOK
  /\ \A p \in Party :
       /\ enc[p].at \in {"idle", "read", "write", "keys", "settle"}
       /\ dec[p].at \in {"idle", "read", "verify", "pub", "debt"}
       /\ enc[p].root \in RootKey /\ dec[p].root \in RootKey
       /\ \A f \in sealed[p] : IsFrame(f)

(* The race of the two threads costs no nonce: whatever they overwrite, no *)
(* key seals two frames.                                                   *)
ThreadsReuseNoKey ==
  \A f, g \in sealed[Initiator] \cup sealed[Responder] :
    f.seal.key = g.seal.key => f = g

AtRest(p) == enc[p].at = "idle" /\ dec[p].at = "idle"

(* _send_lock is there so that no two threads "tear a rekey step in half": *)
(* with no call under way, an end's root contains the step its sending     *)
(* chain was made by.                                                      *)
RekeyNotTorn ==
  \A p \in Party : AtRest(p) => RootHoldsChain(p)

(* What an end has a chain for, it can read: a race spoils announcements,  *)
(* never the messages of an epoch both ends are in.                        *)
KnownEpochOpens ==
  \A p \in Party :
    (/\ wire[p] # << >>
     /\ dec[p].at = "idle"
     /\ ~Rekeys(channel[p], Arriving(p))
     /\ LET chains == channel[p].recvChains IN
        chains[Max(DOMAIN chains)].chainKey = Arriving(p).seal.key.chainKey)
      => Accepts(channel[p], Arriving(p))
=============================================================================
