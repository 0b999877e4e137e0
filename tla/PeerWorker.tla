----------------------------- MODULE PeerWorker -----------------------------
(***************************************************************************)
(* class PeerWorker (gui.py): the worker thread of a session, which        *)
(* connects or listens, runs the handshake, receives, and starts over when *)
(* the connection is lost; and the GUI thread, which answers its trust     *)
(* prompts and calls stop() at any moment.  The two share the attributes   *)
(* sock, channel, _srv and _stop_event without a lock: a step is an access *)
(* to one of them, or a blocking call.                                     *)
(*                                                                         *)
(* Connections are numbered; the channel a handshake makes has the number  *)
(* of its connection.  How a blocking call ends is up to the network, the  *)
(* peer and the clock; bytes that arrived before a connection broke or was *)
(* shut down can still be read, and a write into it can still succeed.     *)
(***************************************************************************)
EXTENDS Integers

CONSTANT MaxConnections     \* bound: how many TCP connections come about

ASSUME ConnectionsAssumption == MaxConnections \in Nat

None == 0

VARIABLES
  role,        \* "connect" or "host"
  pc,          \* where the worker thread is
  sock,        \* self.sock
  channel,     \* self.channel
  srv,         \* self._srv: "none", or the state of the socket it refers to
  stop,        \* _stop_event.is_set()
  made,        \* how many connections there have been
  alive,       \* the connections that are not broken, shut down or closed
  prompt,      \* "none", "shown", or the answer "yes" / "no"
  gui          \* how far stop() is, and its local sock and srv

worker == <<role, pc, sock, channel, srv, made, prompt>>
vars == <<role, pc, sock, channel, srv, stop, made, alive, prompt, gui>>

Init ==
  /\ role \in {"connect", "host"}
  /\ pc = "loop"
  /\ sock = None
  /\ channel = None
  /\ srv = "none"
  /\ stop = FALSE
  /\ made = 0
  /\ alive = {}
  /\ prompt = "none"
  /\ gui = [at |-> "idle", sock |-> None, srv |-> FALSE]

-----------------------------------------------------------------------------
(* Getting a connection: _run_loop, _run_connect, _run_host.               *)

\* while not self._stop_event.is_set(): ...
LoopTop ==
  /\ pc = "loop"
  /\ pc' = IF stop THEN "done" ELSE IF role = "connect" THEN "connect" ELSE "listen"
  /\ UNCHANGED <<role, sock, channel, srv, stop, made, alive, prompt, gui>>

NewConnection ==
  /\ made < MaxConnections
  /\ made' = made + 1
  /\ alive' = alive \cup {made + 1}
  /\ sock' = made + 1
  /\ pc' = "greet"
  /\ UNCHANGED <<role, channel, srv, stop, prompt, gui>>

\* self.sock is assigned only after connect() returned.
Connect ==
  /\ pc = "connect"
  /\ \/ NewConnection
     \/ /\ pc' = "failed"
        /\ UNCHANGED <<role, sock, channel, srv, stop, made, alive, prompt, gui>>

\* bind and listen, unless _srv survives from before; the port may be taken.
Listen ==
  /\ pc = "listen"
  /\ \/ /\ srv' = IF srv = "none" THEN "open" ELSE srv
        /\ pc' = "accept"
     \/ /\ srv = "none"
        /\ pc' = "failed"
        /\ UNCHANGED srv
  /\ UNCHANGED <<role, sock, channel, stop, made, alive, prompt, gui>>

\* The condition of the accept loop; without a connection _run_host returns
\* False and the thread ends.
AcceptLoop ==
  /\ pc = "accept"
  /\ pc' = IF stop THEN "done" ELSE "accepting"
  /\ UNCHANGED <<role, sock, channel, srv, stop, made, alive, prompt, gui>>

\* accept() times out after half a second, or finds its socket closed.
AcceptNothing ==
  /\ pc = "accepting"
  /\ \/ pc' = "accept"
     \/ srv = "closed" /\ pc' = "failed"
  /\ UNCHANGED <<role, sock, channel, srv, stop, made, alive, prompt, gui>>

\* accept() returns a connection.  (A rate-limited address loses it at once,
\* which is as if accept() had timed out.)
Accept ==
  /\ pc = "accepting"
  /\ srv = "open"
  /\ NewConnection

-----------------------------------------------------------------------------
(* The handshake on self.sock, with a time-out on every read.              *)

\* Failing is not the end for a host: it closes the connection and accepts
\* the next one.
NextPeer ==
  /\ role = "host"
  /\ alive' = alive \ {sock}
  /\ sock' = None
  /\ pc' = "accept"

\* Mutant: no time-out is set on the connection.
TimeOutNever ==
  /\ pc \in {"greet", "handshake"}
  /\ sock \notin alive
  /\ \/ NextPeer
     \/ role = "connect" /\ pc' = "failed" /\ UNCHANGED <<alive, sock>>
  /\ UNCHANGED <<role, channel, srv, stop, made, prompt, gui>>

\* The peer is silent for HANDSHAKE_TIMEOUT.
TimeOut ==
  /\ pc \in {"greet", "handshake"}
  /\ \/ NextPeer
     \/ role = "connect" /\ pc' = "failed" /\ UNCHANGED <<alive, sock>>
  /\ UNCHANGED <<role, channel, srv, stop, made, prompt, gui>>

\* HandshakeError: the key is not the one on file, a signature is wrong.
HandshakeFails ==
  /\ pc \in {"greet", "handshake"}
  /\ \/ NextPeer
     \/ role = "connect" /\ pc' = "done" /\ UNCHANGED <<alive, sock>>
  /\ UNCHANGED <<role, channel, srv, stop, made, prompt, gui>>

\* FrameError, KeyError, ...: an "Unexpected error" in the handshake, and in a
\* session an exception nobody handles.  Either way the thread ends, with
\* self.sock and self.channel as they are.
PeerMakesNoSense ==
  /\ pc \in {"greet", "handshake", "receiving"}
  /\ pc' = "done"
  /\ UNCHANGED <<role, sock, channel, srv, stop, made, alive, prompt, gui>>

\* ConnectionError or another OSError: to the handler of _run_loop, with
\* self.sock and self.channel as they are.
ConnectionFails ==
  /\ pc \in {"greet", "handshake", "msg3"}
  /\ sock \notin alive
  /\ pc' = "failed"
  /\ UNCHANGED <<role, sock, channel, srv, stop, made, alive, prompt, gui>>

\* _exchange_identity_and_pin: the peer is known and its key the one on
\* file, or unknown and the user is asked.
Greet ==
  /\ pc = "greet"
  /\ \/ pc' = "handshake" /\ UNCHANGED prompt
     \/ pc' = "ask" /\ prompt' = "shown"
  /\ UNCHANGED <<role, sock, channel, srv, stop, made, alive, gui>>

\* _ask_trust: event.wait() returned.  Declining a peer is a HandshakeError,
\* after the socket was closed.
Asked ==
  /\ pc = "ask"
  /\ prompt \in {"yes", "no"}
  /\ prompt' = "none"
  /\ \/ prompt = "yes" /\ pc' = "handshake" /\ UNCHANGED <<alive, sock>>
     \/ prompt = "no" /\ NextPeer
     \/ /\ prompt = "no" /\ role = "connect"
        /\ alive' = alive \ {sock}
        /\ pc' = "done"
        /\ UNCHANGED sock
  /\ UNCHANGED <<role, channel, srv, stop, made, gui>>

\* Mutant: a channel that is there is kept.
HandshakeKeepsChannel ==
  /\ pc = "handshake"
  /\ channel' = IF channel = None THEN sock ELSE channel
  /\ pc' = IF role = "connect" THEN "msg3" ELSE "recv"
  /\ UNCHANGED <<role, sock, srv, stop, made, alive, prompt, gui>>

\* The three messages.  The connecting side has its channel before its last
\* message is sent.
Handshake ==
  /\ pc = "handshake"
  /\ channel' = sock
  /\ pc' = IF role = "connect" THEN "msg3" ELSE "recv"
  /\ UNCHANGED <<role, sock, srv, stop, made, alive, prompt, gui>>

SendMessage3 ==
  /\ pc = "msg3"
  /\ pc' = "recv"
  /\ UNCHANGED <<role, sock, channel, srv, stop, made, alive, prompt, gui>>

-----------------------------------------------------------------------------
(* The session: _recv_loop and what follows it in _run_loop.               *)

\* Mutant: the event is not looked at between two frames.
RecvLoopUnchecked ==
  /\ pc = "recv"
  /\ pc' = "receiving"
  /\ UNCHANGED <<role, sock, channel, srv, stop, made, alive, prompt, gui>>

RecvLoop ==
  /\ pc = "recv"
  /\ pc' = IF stop THEN "cleanup" ELSE "receiving"
  /\ UNCHANGED <<role, sock, channel, srv, stop, made, alive, prompt, gui>>

\* recv_bytes returns a frame, which is handled.
Frame ==
  /\ pc = "receiving"
  /\ pc' = "recv"
  /\ UNCHANGED <<role, sock, channel, srv, stop, made, alive, prompt, gui>>

\* recv_bytes raises.
ConnectionLost ==
  /\ pc = "receiving"
  /\ sock \notin alive
  /\ pc' = "cleanup"
  /\ UNCHANGED <<role, sock, channel, srv, stop, made, alive, prompt, gui>>

\* Mutant: the channel is kept.
ForgetChannelNot ==
  /\ pc = "cleanup"
  /\ alive' = alive \ {sock}
  /\ pc' = "clear"
  /\ UNCHANGED <<role, sock, channel, srv, stop, made, prompt, gui>>

\* self.sock.close(), self.channel = None, ...
ForgetChannel ==
  /\ pc = "cleanup"
  /\ alive' = alive \ {sock}
  /\ channel' = None
  /\ pc' = "clear"
  /\ UNCHANGED <<role, sock, srv, stop, made, prompt, gui>>

\* ... self.sock = None.
ForgetSock ==
  /\ pc = "clear"
  /\ sock' = None
  /\ pc' = IF stop THEN "done" ELSE "wait"
  /\ UNCHANGED <<role, channel, srv, stop, made, alive, prompt, gui>>

\* The handler of ConnectionError and OSError in _run_loop.
Failed ==
  /\ pc = "failed"
  /\ pc' = IF stop THEN "done" ELSE "wait"
  /\ UNCHANGED <<role, sock, channel, srv, stop, made, alive, prompt, gui>>

\* _reconnect_wait looks at the event every 200 ms.
ReconnectWait ==
  /\ pc = "wait"
  /\ pc' = IF stop THEN "done" ELSE "loop"
  /\ UNCHANGED <<role, sock, channel, srv, stop, made, alive, prompt, gui>>

-----------------------------------------------------------------------------
(* stop(), in the GUI thread.                                              *)

StopSet ==
  /\ gui.at = "idle"
  /\ stop' = TRUE
  /\ gui' = [gui EXCEPT !.at = "sock"]
  /\ UNCHANGED <<worker, alive>>

StopSnapshotSock ==
  /\ gui.at = "sock"
  /\ gui' = [gui EXCEPT !.at = "srv", !.sock = sock]
  /\ UNCHANGED <<worker, stop, alive>>

StopSnapshotSrv ==
  /\ gui.at = "srv"
  /\ gui' = [gui EXCEPT !.at = "shutdown", !.srv = (srv # "none")]
  /\ UNCHANGED <<worker, stop, alive>>

\* Mutant: only close(), which does not wake the reader.
StopShutdownNot ==
  /\ gui.at = "shutdown"
  /\ gui' = [gui EXCEPT !.at = "close"]
  /\ UNCHANGED <<worker, stop, alive>>

\* sock.shutdown(SHUT_RDWR), sock.close().
StopShutdown ==
  /\ gui.at = "shutdown"
  /\ alive' = alive \ {gui.sock}
  /\ gui' = [gui EXCEPT !.at = "close"]
  /\ UNCHANGED <<worker, stop>>

StopCloseSrv ==
  /\ gui.at = "close"
  /\ srv' = IF gui.srv THEN "closed" ELSE srv
  /\ gui' = [gui EXCEPT !.at = "stopped"]
  /\ UNCHANGED <<role, pc, sock, channel, stop, made, alive, prompt>>

\* The GUI thread handles the trust_prompt event when it is not in stop().
AnswerPrompt ==
  /\ prompt = "shown"
  /\ gui.at \in {"idle", "stopped"}
  /\ prompt' \in {"yes", "no"}
  /\ UNCHANGED <<role, pc, sock, channel, srv, stop, made, alive, gui>>

\* The peer hangs up or the network fails.
Break ==
  /\ \E n \in alive : alive' = alive \ {n}
  /\ UNCHANGED <<worker, stop, gui>>

-----------------------------------------------------------------------------
\* What the worker does by itself or by the clock.
WorkerRuns ==
  \/ LoopTop \/ Connect \/ Listen \/ AcceptLoop \/ AcceptNothing
  \/ TimeOut \/ ConnectionFails \/ Asked \/ SendMessage3
  \/ RecvLoop \/ ConnectionLost \/ ForgetChannel \/ ForgetSock
  \/ Failed \/ ReconnectWait

\* What it does when its peer lets it.
PeerActs ==
  Accept \/ Greet \/ Handshake \/ HandshakeFails \/ PeerMakesNoSense \/ Frame

StopRuns == StopSnapshotSock \/ StopSnapshotSrv \/ StopShutdown \/ StopCloseSrv

Next == WorkerRuns \/ PeerActs \/ StopSet \/ StopRuns \/ AnswerPrompt \/ Break

Spec == Init /\ [][Next]_vars

-----------------------------------------------------------------------------
WorkerPc ==
  {"loop", "connect", "listen", "accept", "accepting", "greet", "ask",
   "handshake", "msg3", "recv", "receiving", "cleanup", "clear", "failed",
   "wait", "done"}

TypeOK ==
  /\ role \in {"connect", "host"}
  /\ pc \in WorkerPc
  /\ made \in Nat
  /\ sock \in 0 .. made
  /\ channel \in 0 .. made
  /\ srv \in {"none", "open", "closed"}
  /\ stop \in BOOLEAN
  /\ alive \subseteq 1 .. made
  /\ prompt \in {"none", "shown", "yes", "no"}
  /\ gui.at \in {"idle", "sock", "srv", "shutdown", "close", "stopped"}
  /\ gui.sock \in 0 .. made
  /\ gui.srv \in BOOLEAN

(* In a session the worker reads with the channel of the connection it     *)
(* reads from.                                                             *)
ReadsOwnSession ==
  pc \in {"msg3", "recv", "receiving"} => sock # None /\ channel = sock

(* Once stop() has returned the worker does not sit in recv_bytes() on a   *)
(* live connection, whenever the two threads read each other's variables.  *)
StopUnblocks ==
  (gui.at = "stopped" /\ pc = "receiving") => sock \notin alive

(* stop() ends the thread, wherever it is.                                 *)
StopEnds == stop ~> (pc = "done")

(* A peer that stalls in the handshake does not hang the worker.           *)
HandshakeEnds == (pc \in {"greet", "ask", "handshake"}) ~>
                 (pc \notin {"greet", "ask", "handshake"})

(* The inductive invariant: stop() finds the socket the worker is, or will *)
(* be, blocked on, because the worker looks at the event after it assigned *)
(* the socket and stop() looks at the socket after it set the event.       *)
WorkerInv ==
  /\ TypeOK
  /\ ReadsOwnSession
  /\ StopUnblocks
  /\ pc \in {"greet", "ask", "handshake"} => sock # None
  /\ gui.at # "idle" => stop
  /\ gui.at \in {"srv", "shutdown"} /\ pc = "receiving" => gui.sock = sock
  /\ gui.at = "close" /\ pc = "receiving" => sock \notin alive
=============================================================================
