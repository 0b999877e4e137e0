------------------------------ MODULE CliChat ------------------------------
(***************************************************************************)
(* The encrypted chat loops of client.py (the Initiator) and server.py     *)
(* (the Responder) once the handshake is complete.  Each loop is single    *)
(* threaded: it blocks in input() or in recv_bytes(), so the two sides     *)
(* take turns.  A side leaves by sending or reading "/quit", because the   *)
(* connection ended, or because its user interrupts it.                    *)
(***************************************************************************)
EXTENDS TcpLink

VARIABLES
  pc,          \* pc[p]: where p's loop blocks: "prompt", "recv" or "done"
  quitAt       \* quitAt[p]: the number of p's "/quit" message, -1 if none

chatVars == <<channel, wire, shown, alerts, pc, quitAt>>

Client == Initiator
Server == Responder

ChatInit ==
  /\ Init
  /\ pc = [p \in Party |-> IF p = Client THEN "prompt" ELSE "recv"]
  /\ quitAt = [p \in Party |-> -1]

\* input(), encrypt, send_bytes; break after a "/quit".  The last message
\* of the quota is a "/quit".
Type(p, quit, timeDue) ==
  /\ pc[p] = "prompt"
  /\ quit \/ channel[p].sendCounter + 1 < Quota[p]
  /\ Send(p, timeDue)
  /\ pc' = [pc EXCEPT ![p] = IF quit THEN "done" ELSE "recv"]
  /\ quitAt' = [quitAt EXCEPT ![p] = IF quit THEN channel[p].sendCounter ELSE @]

\* The same, but the peer is gone and send_bytes raises.  The bytes may
\* have entered the stream; nobody reads them.
TypeInVain(p, timeDue) ==
  /\ pc[p] = "prompt"
  /\ pc[Other(p)] = "done"
  /\ Send(p, timeDue)
  /\ pc' = [pc EXCEPT ![p] = "done"]
  /\ UNCHANGED quitAt

\* Mutant: the server reads on without answering.
AfterReadNoAnswer(p) ==
  IF Accepts(channel[p], Arriving(p))
  THEN IF Arriving(p).seal.ctr = quitAt[Other(p)] THEN "done"
       ELSE IF p = Client THEN "prompt" ELSE "recv"
  ELSE IF p = Client THEN "prompt" ELSE "recv"

\* Mutant: a "/quit" is shown like any other message.
AfterReadQuitIgnored(p) ==
  IF Accepts(channel[p], Arriving(p)) \/ p = Client THEN "prompt" ELSE "recv"

\* Where the loop goes after decrypt(): a rejected frame is `continue`,
\* back to input() on the client and to recv_bytes() on the server.
AfterRead(p) ==
  IF Accepts(channel[p], Arriving(p))
  THEN IF Arriving(p).seal.ctr = quitAt[Other(p)] THEN "done" ELSE "prompt"
  ELSE IF p = Client THEN "prompt" ELSE "recv"

ReadFrame(p) ==
  /\ pc[p] = "recv"
  /\ Accept(p) \/ Reject(p)
  /\ pc' = [pc EXCEPT ![p] = AfterRead(p)]
  /\ UNCHANGED quitAt

\* Mutant: the end of the stream is taken for an empty read.
HangupIgnored(p) ==
  /\ pc[p] = "recv"
  /\ wire[p] = << >>
  /\ pc[Other(p)] = "done"
  /\ UNCHANGED chatVars

\* recv_bytes finds the stream ended: ConnectionError.
Hangup(p) ==
  /\ pc[p] = "recv"
  /\ wire[p] = << >>
  /\ pc[Other(p)] = "done"
  /\ pc' = [pc EXCEPT ![p] = "done"]
  /\ UNCHANGED <<vars, quitAt>>

\* Ctrl+C, or the process or the connection dies.
Interrupt(p) ==
  /\ pc[p] # "done"
  /\ pc' = [pc EXCEPT ![p] = "done"]
  /\ UNCHANGED <<vars, quitAt>>

Over == \A p \in Party : pc[p] = "done"

ChatNext ==
  \/ \E p \in Party :
       \/ \E quit, timeDue \in BOOLEAN : Type(p, quit, timeDue)
       \/ \E timeDue \in BOOLEAN : TypeInVain(p, timeDue)
       \/ ReadFrame(p)
       \/ Hangup(p)
       \/ Interrupt(p)
  \/ Over /\ UNCHANGED chatVars

\* The loops run and TCP delivers; users may never type again.
ChatSpec ==
  /\ ChatInit /\ [][ChatNext]_chatVars
  /\ \A p \in Party : WF_chatVars(ReadFrame(p) \/ Hangup(p))

-----------------------------------------------------------------------------
ChatTypeOK ==
  /\ TypeOK
  /\ pc \in [Party -> {"prompt", "recv", "done"}]
  /\ quitAt \in [Party -> Nat \cup {-1}]

(* Turn-taking keeps rekeys from crossing, whichever of the reactive, the  *)
(* count and the time trigger causes them: no chat ever sees an alert.     *)
ChatNeverAlerts ==
  /\ ~Forked
  /\ \A p \in Party : alerts[p] = 0

(* The two loops never both block in recv_bytes with nothing in the stream *)
(* (the server's `continue` after an alert would do just that).            *)
NoMutualWait ==
  (\A p \in Party : pc[p] = "recv")
    => \E p \in Party : wire[p] # << >>

(* A "/quit" ends both loops.                                              *)
QuitEndsBoth ==
  \A p \in Party : quitAt[p] # -1 ~> Over

(* A side never waits for ever in recv_bytes for a peer that is gone.      *)
HangupIsNoticed ==
  \A p \in Party : (pc[p] = "done") ~> (pc[Other(p)] # "recv")
=============================================================================
