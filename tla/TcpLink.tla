------------------------------ MODULE TcpLink ------------------------------
(***************************************************************************)
(* Two SecureChannel endpoints on a TCP connection (transport.py's         *)
(* send_bytes and recv_bytes), both talking whenever they like, as the two *)
(* ends of a GUI session do: a worker thread receives while the user's     *)
(* thread sends.  Frames arrive once, in order, undamaged.                 *)
(***************************************************************************)
EXTENDS SecureChannel, SequencesExt

CONSTANT Quota       \* Quota[p]: how many messages p sends

ASSUME QuotaAssumption == Quota \in [Party -> Nat]

VARIABLES
  channel,     \* channel[p]: the SecureChannel object of p
  wire,        \* wire[p]: the frames in the TCP stream towards p
  shown,       \* shown[p]: the messages p's decrypt() returned, in order
  alerts       \* alerts[p]: how many frames p's decrypt() rejected

vars == <<channel, wire, shown, alerts>>

Init ==
  /\ channel = [p \in Party |-> NewChannel(p)]
  /\ wire = [p \in Party |-> << >>]
  /\ shown = [p \in Party |-> << >>]
  /\ alerts = [p \in Party |-> 0]

Send(p, timeDue) ==
  /\ channel[p].sendCounter < Quota[p]
  /\ channel' = [channel EXCEPT ![p] = AfterEncrypt(channel[p], timeDue)]
  /\ wire' = [wire EXCEPT ![Other(p)] = Append(@, Sealed(channel[p], timeDue))]
  /\ UNCHANGED <<shown, alerts>>

\* The frame p reads next.
Arriving(p) == Head(wire[p])

Accept(p) ==
  /\ wire[p] # << >>
  /\ Accepts(channel[p], Arriving(p))
  /\ channel' = [channel EXCEPT ![p] = AfterAccept(channel[p], Arriving(p))]
  /\ wire' = [wire EXCEPT ![p] = Tail(@)]
  /\ shown' = [shown EXCEPT ![p] = Append(@, Arriving(p).seal.ctr)]
  /\ UNCHANGED alerts

\* decrypt() raises TamperError or ReplayError; the reader shows an alert
\* and reads on.
Reject(p) ==
  /\ wire[p] # << >>
  /\ \/ /\ IsForeign(channel[p], Arriving(p))
        /\ channel' = [channel EXCEPT ![p] =
                         AfterKeyDerivation(channel[p], Arriving(p))]
     \/ /\ IsStale(channel[p], Arriving(p)) \/ IsPassed(channel[p], Arriving(p))
        /\ UNCHANGED channel
  /\ wire' = [wire EXCEPT ![p] = Tail(@)]
  /\ alerts' = [alerts EXCEPT ![p] = @ + 1]
  /\ UNCHANGED shown

Next ==
  \E p \in Party :
    \/ \E timeDue \in BOOLEAN : Send(p, timeDue)
    \/ Accept(p)
    \/ Reject(p)

Spec == Init /\ [][Next]_vars

\* The reader thread of each end blocks in recv_bytes and nothing else, so
\* what is in the stream is read.
FairSpec == Spec /\ \A p \in Party : WF_vars(Accept(p) \/ Reject(p))

-----------------------------------------------------------------------------
TypeOK ==
  /\ DOMAIN channel = Party
  /\ \A p \in Party : IsChannel(channel[p])
  /\ wire \in [Party -> Seq(Frame)]
  /\ shown \in [Party -> Seq(Nat)]
  /\ alerts \in [Party -> Nat]

\* Each end mixed a step into the root that the other one did not know of
\* when it made its own: neither root continues the other.
Forked ==
  /\ ~IsPrefix(channel[Initiator].rootKey, channel[Responder].rootKey)
  /\ ~IsPrefix(channel[Responder].rootKey, channel[Initiator].rootKey)

(* The one thing that can go wrong on a reliable stream is that two rekeys *)
(* cross: until that happens every frame opens, nothing is ever rejected   *)
(* and both ends show a gapless prefix of what the other one sent.         *)
OpensUnlessForked ==
  ~Forked =>
    \A p \in Party :
      /\ wire[p] # << >> => Accepts(channel[p], Arriving(p))
      /\ alerts[p] = 0
      /\ shown[p] = [i \in 1 .. Len(shown[p]) |-> i - 1]

(* No step ends a fork, and no announcement is accepted after one: the     *)
(* session can no longer rekey.                                            *)
ForkIsForEver ==
  [][Forked => /\ Forked'
               /\ \A p \in Party :
                    channel'[p].peerRatchetPub = channel[p].peerRatchetPub]_vars

(* The module docstring's "Either way, the peer detects a new ratchet      *)
(* public key attached to an incoming message and performs the matching DH *)
(* step": an arriving announcement opens.                                  *)
AnnouncementsOpen ==
  \A p \in Party :
    (wire[p] # << >> /\ Rekeys(channel[p], Arriving(p)))
      => Accepts(channel[p], Arriving(p))

\* The chain p seals with was made by a step that is part of its root.
RootHoldsChain(p) ==
  IsPrefix(channel[p].sendingChain.chainKey.root, channel[p].rootKey)

(* Two ends that have read everything and did not fork agree on the root,  *)
(* and each end's next message is one the other end can derive the key of. *)
AgreeWhenQuiet ==
  (~Forked /\ \A p \in Party : wire[p] = << >>)
    => /\ channel[Initiator].rootKey = channel[Responder].rootKey
       /\ \A p \in Party : \A timeDue \in BOOLEAN :
            Accepts(channel[Other(p)], Sealed(channel[p], timeDue))

(* Every frame is read in the end, forked or not: the reader answers it    *)
(* with a message or an alert and never dies of one.  Together with        *)
(* OpensUnlessForked: everything sent is shown unless the session forks.   *)
ReadInTheEnd ==
  \A p \in Party :
    [](channel[p].sendCounter = Quota[p]
         => <>(Len(shown[Other(p)]) + alerts[Other(p)] = Quota[p]))
=============================================================================
