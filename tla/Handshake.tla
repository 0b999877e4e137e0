----------------------------- MODULE Handshake -----------------------------
(***************************************************************************)
(* From a TCP connection to a SecureChannel: the exchange of identities,   *)
(* trust on first use, and the three signed messages of handshake.py, as   *)
(* driven by a connecting and a listening program.  Either may be one of   *)
(* the terminal programs (client.py, server.py) or a worker of gui.py,     *)
(* which gives up waiting after HANDSHAKE_TIMEOUT and connects again.      *)
(*                                                                         *)
(* The listening side serves one connection at a time; connections wait in *)
(* its backlog, and a connection given up by one side may still be served  *)
(* by the other.  Between runs of a program its user may lose its key or   *)
(* clear its trust store.  Keys and signatures are symbolic.               *)
(***************************************************************************)
EXTENDS Integers, SequencesExt

CONSTANTS
  Client, Server,  \* the connecting and the listening side, and their names
  MaxConnections,  \* bound: how many TCP connections come about
  MaxQuits,        \* bound: how often a program is quit or killed
  MaxEdits,        \* bound: how often a user changes key or trust store
  MaxAttempts      \* failed attempts after which the listener blocks

ASSUME SidesAssumption == Client # Server

Side == {Client, Server}
Other(p) == IF p = Client THEN Server ELSE Client

VARIABLES
  kind,      \* kind[p]: "cli" or "gui"
  key,       \* key[p]: which identity key p has, a new number for each
  trust,     \* trust[p]: the key p has pinned for the other's name, or NoKey
  at,        \* at[p]: where p's program is, on which connection, the message
             \* it acts on, and the channel it has made
  conns,     \* the connections: bytes on the way, and who has closed it
  backlog,   \* connections the listener has not accepted yet
  strikes,   \* failures the limiter has on record for the client's address
  quits, edits

files == <<kind, key, trust, edits>>
vars == <<files, at, conns, backlog, strikes, quits>>

NoKey == 0
NoMessage == [type |-> "none"]
NoChannel == [root |-> {}]
Off == [pc |-> "off", conn |-> 0, got |-> NoMessage, chan |-> NoChannel]

-----------------------------------------------------------------------------
(* The cryptography of handshake.py.                                       *)

\* Every handshake generates a new X25519 key pair.
Epk(p, n) == [owner |-> p, conn |-> n]

Transcript(epkInitiator, epkResponder) == <<epkInitiator, epkResponder>>

Sign(identity, text) == [by |-> identity, over |-> text]

Verify(identity, sig, text) == sig = Sign(identity, text)

Hkdf(shared, salt, info) == [shared |-> shared, salt |-> salt, info |-> info]

Channel(send, receive, shared, salt, mine, peers) ==
  [send |-> Hkdf(shared, salt, send), recv |-> Hkdf(shared, salt, receive),
   root |-> Hkdf(shared, salt, "root-key"), mine |-> mine, peers |-> peers]

\* Mutant: both ends take the initiator's view of the directions.
DeriveChannelOneWay(epkInitiator, epkResponder, isInitiator) ==
  LET mine  == IF isInitiator THEN epkInitiator ELSE epkResponder
      peers == IF isInitiator THEN epkResponder ELSE epkInitiator
  IN  Channel("i2r", "r2i", {mine, peers},
              <<epkInitiator, epkResponder>>, mine, peers)

\* Diffie-Hellman yields the same secret from either half: it is named by the
\* two halves.
DeriveChannel(epkInitiator, epkResponder, isInitiator) ==
  LET shared == {epkInitiator, epkResponder}
      salt   == <<epkInitiator, epkResponder>>
  IN  IF isInitiator
      THEN Channel("i2r", "r2i", shared, salt, epkInitiator, epkResponder)
      ELSE Channel("r2i", "i2r", shared, salt, epkResponder, epkInitiator)

Intro(p) == [type |-> "intro", identity |-> key[p]]

Message1(n) == [type |-> "msg1", epk |-> Epk(Client, n)]

\* Mutant: the responder signs the keys in its own order.
Message2Swapped(n, msg1) ==
  [type |-> "msg2", epk |-> Epk(Server, n),
   sig |-> Sign(key[Server], Transcript(Epk(Server, n), msg1.epk))]

Message2(n, msg1) ==
  [type |-> "msg2", epk |-> Epk(Server, n),
   sig |-> Sign(key[Server], Transcript(msg1.epk, Epk(Server, n)))]

Message3(n, msg2) ==
  [type |-> "msg3",
   sig |-> Sign(key[Client], Transcript(Epk(Client, n), msg2.epk))]

\* What initiator_finish and responder_finish check, with the pinned key.
Message2Verifies(n, msg2) ==
  /\ trust[Client] # NoKey
  /\ Verify(trust[Client], msg2.sig, Transcript(Epk(Client, n), msg2.epk))

Message3Verifies(n, msg1, msg3) ==
  /\ trust[Server] # NoKey
  /\ Verify(trust[Server], msg3.sig, Transcript(msg1.epk, Epk(Server, n)))

-----------------------------------------------------------------------------
(* Connections.                                                            *)

Conn(p) == conns[at[p].conn]
Inbox(p) == Conn(p).to[p]
OtherClosed(p) == Other(p) \in Conn(p).closed

\* p closes its connection, if it has one.
ClosedBy(p, cs) ==
  IF at[p].conn = 0 THEN cs
  ELSE [cs EXCEPT ![at[p].conn].closed = @ \cup {p}]

\* p has read a message and sends the given ones.
Exchanged(p, replies) ==
  [conns EXCEPT ![at[p].conn].to[p] = Tail(@),
                ![at[p].conn].to[Other(p)] = @ \o replies]

Sent(p, replies) ==
  [conns EXCEPT ![at[p].conn].to[Other(p)] = @ \o replies]

GoTo(p, pc, got) == at' = [at EXCEPT ![p].pc = pc, ![p].got = got]

\* Where a program goes when an attempt is over: client.py ends, and so does
\* the thread of a connecting worker; a listener turns to its next peer.
Leaves(p, next) ==
  at' = [at EXCEPT ![p] = IF next = "off" THEN Off ELSE [Off EXCEPT !.pc = next]]

AttemptOver(p) == IF p = Server THEN "accept" ELSE "off"

\* A worker whose connection failed keeps the socket until the next one
\* replaces it.
KeepsSocket(p, next) ==
  at' = [at EXCEPT ![p] = [Off EXCEPT !.pc = next, !.conn = at[p].conn]]

-----------------------------------------------------------------------------
(* Starting, connecting, accepting.                                        *)

Init ==
  /\ kind \in [Side -> {"cli", "gui"}]
  /\ key = [p \in Side |-> 1]
  /\ trust = [p \in Side |-> NoKey]
  /\ at = [p \in Side |-> Off]
  /\ conns = << >>
  /\ backlog = << >>
  /\ strikes = 0
  /\ quits = 0
  /\ edits = 0

Start(p) ==
  /\ at[p].pc = "off"
  /\ at' = [at EXCEPT ![p].pc = IF p = Client THEN "connect" ELSE "accept"]
  /\ UNCHANGED <<files, conns, backlog, strikes, quits>>

\* Without a key file a new identity is made; without a trust store nobody
\* is trusted.
EditFiles(p) ==
  /\ at[p].pc = "off"
  /\ edits < MaxEdits
  /\ edits' = edits + 1
  /\ \E newKey, clear \in BOOLEAN :
       /\ newKey \/ clear
       /\ key' = IF newKey THEN [key EXCEPT ![p] = @ + 1] ELSE key
       /\ trust' = IF clear THEN [trust EXCEPT ![p] = NoKey] ELSE trust
  /\ UNCHANGED <<kind, at, conns, backlog, strikes, quits>>

NewConnection ==
  [to |-> [p \in Side |-> IF p = Server THEN <<Intro(Client)>> ELSE << >>],
   closed |-> {}]

\* Mutant: the connection of the attempt before stays open.
ConnectLeaks ==
  /\ at[Client].pc = "connect"
  /\ at[Server].pc # "off"
  /\ Len(conns) < MaxConnections
  /\ conns' = Append(conns, NewConnection)
  /\ backlog' = Append(backlog, Len(conns) + 1)
  /\ at' = [at EXCEPT ![Client].pc = "intro", ![Client].conn = Len(conns) + 1]
  /\ UNCHANGED <<files, strikes, quits>>

\* connect() needs no accept().  The new socket replaces the one of the
\* attempt before, and the client's introduction goes out.
Connect ==
  /\ at[Client].pc = "connect"
  /\ at[Server].pc # "off"
  /\ Len(conns) < MaxConnections
  /\ conns' = Append(ClosedBy(Client, conns), NewConnection)
  /\ backlog' = Append(backlog, Len(conns) + 1)
  /\ at' = [at EXCEPT ![Client].pc = "intro", ![Client].conn = Len(conns) + 1]
  /\ UNCHANGED <<files, strikes, quits>>

\* Nobody listens: client.py ends, a worker tries again later.
ConnectRefused ==
  /\ at[Client].pc = "connect"
  /\ at[Server].pc = "off"
  /\ kind[Client] = "cli"
  /\ Leaves(Client, "off")
  /\ UNCHANGED <<files, conns, backlog, strikes, quits>>

\* A blocked address loses its connection at once.
Reject ==
  /\ at[Server].pc = "accept"
  /\ backlog # << >>
  /\ strikes >= MaxAttempts
  /\ conns' = [conns EXCEPT ![Head(backlog)].closed = @ \cup {Server}]
  /\ backlog' = Tail(backlog)
  /\ UNCHANGED <<files, at, strikes, quits>>

\* A worker introduces itself at once, server.py when it has read, and
\* trusts, the other's introduction.
Accept ==
  /\ at[Server].pc = "accept"
  /\ backlog # << >>
  /\ strikes < MaxAttempts
  /\ at' = [at EXCEPT ![Server].pc = "intro", ![Server].conn = Head(backlog)]
  /\ conns' = [ClosedBy(Server, conns) EXCEPT ![Head(backlog)].to[Client] =
                 IF kind[Server] = "gui" THEN Append(@, Intro(Server)) ELSE @]
  /\ backlog' = Tail(backlog)
  /\ UNCHANGED <<files, strikes, quits>>

\* Attempts leave the limiter's time window, or its cooldown ends.
Cool ==
  /\ strikes > 0
  /\ strikes' = 0
  /\ UNCHANGED <<files, at, conns, backlog, quits>>

-----------------------------------------------------------------------------
(* Failing.                                                                *)

Strike == strikes' = strikes + 1

\* Mutant: whoever is declined is counted.
PenaltyAlways(p, declined) ==
  IF p = Server THEN Strike ELSE UNCHANGED strikes

\* server.py forgives a peer its user declined; a worker counts every
\* HandshakeError.
Penalty(p, declined) ==
  IF p = Server /\ ~(declined /\ kind[p] = "cli")
  THEN Strike
  ELSE UNCHANGED strikes

\* The peer is not trusted, or its signature is wrong.  (A connecting worker
\* leaves the socket open after a wrong signature.)
HandshakeError(p, declined, signature) ==
  /\ Leaves(p, AttemptOver(p))
  /\ conns' = IF signature /\ p = Client /\ kind[p] = "gui"
              THEN conns ELSE ClosedBy(p, conns)
  /\ Penalty(p, declined)

Waiting == {"intro", "msg1", "msg2", "msg3"}

\* A worker waits no longer than HANDSHAKE_TIMEOUT for a message.
TimeOut(p) ==
  /\ kind[p] = "gui"
  /\ at[p].pc \in Waiting
  /\ Inbox(p) = << >>
  /\ IF p = Server
     THEN /\ Leaves(p, "accept")
          /\ conns' = ClosedBy(p, conns)
          /\ Strike
     ELSE /\ KeepsSocket(p, "connect")
          /\ UNCHANGED <<conns, strikes>>
  /\ UNCHANGED <<files, backlog, quits>>

\* ConnectionError: the other side is gone, with or without what it had sent.
ConnectionFails(p) ==
  /\ at[p].pc \in Waiting
  /\ OtherClosed(p)
  /\ IF kind[p] = "gui"
     THEN /\ KeepsSocket(p, IF p = Server THEN "accept" ELSE "connect")
          /\ UNCHANGED conns
     ELSE /\ Leaves(p, AttemptOver(p))
          /\ conns' = ClosedBy(p, conns)
  /\ UNCHANGED <<files, backlog, strikes, quits>>

-----------------------------------------------------------------------------
(* The handshake.                                                          *)

\* The peer is trusted: the client sends message 1, server.py its own
\* introduction.
NextWait(p) == IF p = Client THEN "msg2" ELSE "msg1"

Replies(p) ==
  IF p = Client THEN <<Message1(at[p].conn)>>
  ELSE IF kind[p] = "cli" THEN <<Intro(p)>> ELSE << >>

\* The other's introduction is read and compared with the trust store.
ReadIntro(p) ==
  /\ at[p].pc = "intro"
  /\ Inbox(p) # << >>
  /\ LET intro == Head(Inbox(p)) IN
     \/ /\ trust[p] = NoKey
        /\ GoTo(p, "ask", intro)
        /\ conns' = Exchanged(p, << >>)
        /\ UNCHANGED strikes
     \/ /\ trust[p] = intro.identity
        /\ GoTo(p, NextWait(p), NoMessage)
        /\ conns' = Exchanged(p, Replies(p))
        /\ UNCHANGED strikes
     \/ /\ trust[p] \notin {NoKey, intro.identity}
        /\ HandshakeError(p, FALSE, FALSE)
  /\ UNCHANGED <<files, backlog, quits>>

\* The user compares fingerprints and pins the key, ...
Trust(p) ==
  /\ at[p].pc = "ask"
  /\ trust' = [trust EXCEPT ![p] = at[p].got.identity]
  /\ GoTo(p, NextWait(p), NoMessage)
  /\ conns' = Sent(p, Replies(p))
  /\ UNCHANGED <<kind, key, edits, backlog, strikes, quits>>

\* ... or declines.
Decline(p) ==
  /\ at[p].pc = "ask"
  /\ HandshakeError(p, TRUE, FALSE)
  /\ UNCHANGED <<files, backlog, quits>>

\* responder_respond.
ReadMessage1 ==
  /\ at[Server].pc = "msg1"
  /\ Inbox(Server) # << >>
  /\ LET msg1 == Head(Inbox(Server)) IN
     /\ GoTo(Server, "msg3", msg1)
     /\ conns' = Exchanged(Server, <<Message2(at[Server].conn, msg1)>>)
  /\ UNCHANGED <<files, backlog, strikes, quits>>

GoesUp(p, chan) ==
  at' = [at EXCEPT ![p].pc = "up", ![p].got = NoMessage, ![p].chan = chan]

\* initiator_finish: the client has its channel before it knows whether its
\* own signature is accepted.
ReadMessage2 ==
  /\ at[Client].pc = "msg2"
  /\ Inbox(Client) # << >>
  /\ LET n    == at[Client].conn
         msg2 == Head(Inbox(Client))
     IN  IF Message2Verifies(n, msg2)
         THEN /\ GoesUp(Client, DeriveChannel(Epk(Client, n), msg2.epk, TRUE))
              /\ conns' = Exchanged(Client, <<Message3(n, msg2)>>)
              /\ UNCHANGED strikes
         ELSE HandshakeError(Client, FALSE, TRUE)
  /\ UNCHANGED <<files, backlog, quits>>

\* responder_finish; a success clears the client's record.
ReadMessage3 ==
  /\ at[Server].pc = "msg3"
  /\ Inbox(Server) # << >>
  /\ LET n    == at[Server].conn
         msg1 == at[Server].got
         msg3 == Head(Inbox(Server))
     IN  IF Message3Verifies(n, msg1, msg3)
         THEN /\ GoesUp(Server, DeriveChannel(msg1.epk, Epk(Server, n), FALSE))
              /\ conns' = Exchanged(Server, << >>)
              /\ strikes' = 0
         ELSE HandshakeError(Server, FALSE, TRUE)
  /\ UNCHANGED <<files, backlog, quits>>

-----------------------------------------------------------------------------
(* The session, as far as the next handshake depends on it.                *)

\* The other side is gone: client.py ends, a worker connects or listens anew.
\* (A program of the terminal that is in input() finds out when its user has
\* typed a line, if ever.)
SessionLost(p) ==
  /\ at[p].pc = "up"
  /\ OtherClosed(p)
  /\ Leaves(p, IF p = Client /\ kind[p] = "gui" THEN "connect" ELSE AttemptOver(p))
  /\ conns' = ClosedBy(p, conns)
  /\ UNCHANGED <<files, backlog, strikes, quits>>

\* /quit in the terminal.
Hangup(p) ==
  /\ at[p].pc = "up"
  /\ kind[p] = "cli"
  /\ Leaves(p, AttemptOver(p))
  /\ conns' = ClosedBy(p, conns)
  /\ UNCHANGED <<files, backlog, strikes, quits>>

\* The program is quit, killed or, in the window, disconnected: its sockets
\* close, those in the listener's backlog included.
Quit(p) ==
  /\ at[p].pc # "off"
  /\ quits < MaxQuits
  /\ quits' = quits + 1
  /\ at' = [at EXCEPT ![p] = Off]
  /\ LET unserved == IF p = Server THEN ToSet(backlog) ELSE {}
         open     == ClosedBy(p, conns)
     IN  conns' = [n \in DOMAIN conns |->
                     IF n \in unserved THEN [open[n] EXCEPT !.closed = @ \cup {p}]
                     ELSE open[n]]
  /\ backlog' = IF p = Server THEN << >> ELSE backlog
  /\ UNCHANGED <<files, strikes>>

-----------------------------------------------------------------------------
\* What a running program does by itself, by the clock or when it is written
\* to.
Runs(p) ==
  \/ p = Client /\ (Connect \/ ConnectRefused \/ ReadMessage2)
  \/ p = Server /\ (Reject \/ Accept \/ ReadMessage1 \/ ReadMessage3)
  \/ TimeOut(p) \/ ConnectionFails(p) \/ ReadIntro(p)
  \/ kind[p] = "gui" /\ SessionLost(p)

Answer(p) == Trust(p) \/ Decline(p)

Next ==
  \/ Cool
  \/ \E p \in Side :
       \/ Start(p) \/ EditFiles(p)
       \/ Runs(p) \/ Answer(p)
       \/ SessionLost(p) \/ Hangup(p) \/ Quit(p)

Spec == Init /\ [][Next]_vars

\* Programs run while they are up, and users answer what they are asked.
\* Nobody is assumed to type a line into a session.
FairSpec ==
  Spec /\ \A p \in Side : WF_vars(Runs(p)) /\ WF_vars(Answer(p))

-----------------------------------------------------------------------------
\* p is in a handshake or a session on connection n.
On(p, n) == at[p].conn = n /\ at[p].pc \in Waiting \cup {"ask", "up"}

BothUp(n) == \A p \in Side : On(p, n) /\ at[p].pc = "up"

Places == Waiting \cup {"off", "connect", "accept", "ask", "up"}

Half == [owner : Side, conn : Nat]
Signature == [by : Nat, over : Half \X Half]

Message ==
  [type : {"intro"}, identity : Nat]
    \cup [type : {"msg1"}, epk : Half]
    \cup [type : {"msg2"}, epk : Half, sig : Signature]
    \cup [type : {"msg3"}, sig : Signature]

Key == [shared : SUBSET Half, salt : Half \X Half, info : {"i2r", "r2i", "root-key"}]

Channels ==
  [send : Key, recv : Key, root : Key, mine : Half, peers : Half] \cup {NoChannel}

TypeOK ==
  /\ key \in [Side -> Nat]
  /\ trust \in [Side -> Nat]
  /\ at \in [Side -> [pc : Places, conn : Nat,
                     got : Message \cup {NoMessage}, chan : Channels]]
  /\ conns \in Seq([to : [Side -> Seq(Message)], closed : SUBSET Side])
  /\ backlog \in Seq(Nat)
  /\ strikes \in Nat

(* Two ends in a session on one connection hold the two halves of one      *)
(* channel: what SecureChannel, and every model of it, starts from.        *)
KeysMeet ==
  \A n \in DOMAIN conns : BothUp(n) =>
    LET c == at[Client].chan
        s == at[Server].chan
    IN  /\ c.send = s.recv /\ c.recv = s.send /\ c.send # c.recv
        /\ c.root = s.root
        /\ c.mine = s.peers /\ c.peers = s.mine

(* Whoever gets as far as a signature, in whatever order connections were  *)
(* given up, keys replaced and stores cleared, has pinned the key it was   *)
(* made with: between honest ends "possible MITM attack" is never shown.   *)
NoFalseAlarm ==
  /\ (at[Client].pc = "msg2" /\ Inbox(Client) # << >>)
       => Message2Verifies(at[Client].conn, Head(Inbox(Client)))
  /\ (at[Server].pc = "msg3" /\ Inbox(Server) # << >>)
       => Message3Verifies(at[Server].conn, at[Server].got, Head(Inbox(Server)))

(* server.py: "Only a key mismatch [...] counts against the rate limiter". *)
(* Of honest peers it counts those only whose key is not the pinned one.   *)
PenaltyIsDeserved ==
  [][(kind[Server] = "cli" /\ strikes' > strikes)
       => trust[Server] \notin {NoKey, key[Client]}]_vars

\* A program of the terminal is in a session that the other side has left.
Abandoned(n) ==
  \E p \in Side : kind[p] = "cli" /\ On(p, n) /\ at[p].pc = "up" /\ OtherClosed(p)

(* An accepted connection does not hang: in the end both sides are in a    *)
(* session on it or neither uses it, although a program of the terminal    *)
(* waits without a time-out, the client believes in a session before the   *)
(* server has verified its signature, and workers give up and try again.   *)
(* All that can hold one is the user of a terminal program that got its    *)
(* channel, was left by the other side, and sits in input().               *)
(* (And a worker without connections left, MaxConnections, cannot replace, *)
(* and so close, the last one it gave up.)                                 *)
Settles ==
  \A n \in 1 .. MaxConnections :
    (n \in DOMAIN conns /\ n \notin ToSet(backlog) /\ \E p \in Side : On(p, n))
      ~> (\/ BothUp(n)
          \/ \A p \in Side : ~On(p, n)
          \/ Abandoned(n)
          \/ n = MaxConnections /\ at[Client].pc = "connect")
=============================================================================
