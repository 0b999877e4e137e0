------------------------- MODULE HandshakeTheorems -------------------------
(***************************************************************************)
(* For any number of connections, kills, changes of keys and failures: two *)
(* ends in a session on one connection hold the two halves of one channel, *)
(* honest ends never see an alarm, and nobody is charged for a failure     *)
(* that was not his.                                                       *)
(***************************************************************************)
EXTENDS Handshake, TLAPS

-----------------------------------------------------------------------------
(* What makes the keys meet, and keeps the alarm silent: how far the two   *)
(* sides are on a connection, and what is on the way then.                 *)

ClientAt(n) == IF On(Client, n) THEN at[Client].pc ELSE "gone"

ServerAt(n) ==
  IF n \in ToSet(backlog) THEN "queued"
  ELSE IF On(Server, n) THEN at[Server].pc ELSE "gone"

\* Connections are served once each, and not before they are made.
Served ==
  /\ \A i, j \in DOMAIN backlog : backlog[i] = backlog[j] => i = j
  /\ \A i \in DOMAIN backlog : backlog[i] \in DOMAIN conns /\ ~On(Server, backlog[i])
  /\ \A p \in Side :
       /\ at[p].conn \in 0 .. Len(conns)
       /\ at[p].pc \in Waiting \cup {"ask", "up"} => at[p].conn # 0

\* What the client can still read: the server sends its introduction once and
\* then, having read message 1, message 2.
ToClient(n) ==
  LET wire == conns[n].to[Client] IN
  /\ ClientAt(n) = "intro" =>
       wire = << >> \/ (Len(wire) = 1 /\ wire[1].type = "intro")
  /\ ClientAt(n) \in {"ask", "msg2"} =>
       wire = << >> \/ (Len(wire) = 1 /\ wire[1].epk = Epk(Server, n))
  /\ ServerAt(n) \in {"queued", "intro", "ask", "msg1"} =>
       ClientAt(n) # "up" /\ (ClientAt(n) \in {"ask", "msg2"} => wire = << >>)
  /\ (ServerAt(n) = "queued" \/ (ServerAt(n) \in {"intro", "ask"} /\ kind[Server] = "cli")) =>
       ClientAt(n) = "gone" \/ (ClientAt(n) = "intro" /\ wire = << >>)

\* What the server can still read: the client's introduction and, if the
\* client trusts it, message 1.
ToServer(n) ==
  LET wire == conns[n].to[Server] IN
  /\ ServerAt(n) \in {"queued", "intro"} =>
       /\ wire # << >> /\ wire[1].type = "intro"
       /\ \/ Len(wire) = 1
          \/ Len(wire) = 2 /\ wire[2] = Message1(n) /\ ClientAt(n) \notin {"intro", "ask"}
  /\ ServerAt(n) \in {"ask", "msg1"} =>
       \/ wire = << >>
       \/ Len(wire) = 1 /\ wire[1] = Message1(n) /\ ClientAt(n) \notin {"intro", "ask"}
  /\ ServerAt(n) \in {"msg3", "up"} => ClientAt(n) \notin {"intro", "ask"}

Derived(n) ==
  /\ ClientAt(n) = "ask" => at[Client].got.type = "intro"
  /\ ServerAt(n) = "ask" => at[Server].got.type = "intro"
  /\ ServerAt(n) = "msg3" => at[Server].got = Message1(n)
  /\ ClientAt(n) = "up" =>
       at[Client].chan = DeriveChannel(Epk(Client, n), Epk(Server, n), TRUE)
  /\ ServerAt(n) = "up" =>
       at[Server].chan = DeriveChannel(Epk(Client, n), Epk(Server, n), FALSE)

Stages ==
  Served /\ \A n \in DOMAIN conns : ToClient(n) /\ ToServer(n) /\ Derived(n)

\* No program is without an identity.
KeysExist == \A p \in Side : key[p] # NoKey

\* The key in the introduction on n that the server has not read.
Announced(n) == conns[n].to[Server][1].identity

\* The client pins the key of the program that serves it, and message 2 is
\* signed with the pinned one.
ClientPins ==
  LET n    == at[Client].conn
      wire == conns[n].to[Client]
      pc   == at[Client].pc
  IN  /\ (pc = "intro" /\ On(Server, n) /\ wire # << >>) => wire[1].identity = key[Server]
      /\ pc = "ask" => wire = << >>
      /\ (pc = "ask" /\ On(Server, n)) => at[Client].got.identity = key[Server]
      /\ (pc \in {"msg2", "up"} /\ On(Server, n)) => trust[Client] = key[Server]
      /\ (pc = "msg2" /\ wire # << >>) =>
           /\ trust[Client] # NoKey
           /\ wire[1].sig = Sign(trust[Client], Transcript(Epk(Client, n), Epk(Server, n)))

\* The server pins the key of the program that is connected, and message 3
\* is signed with the pinned one, even if its sender is gone.
ServerPins ==
  LET n    == at[Server].conn
      wire == conns[n].to[Server]
      pc   == at[Server].pc
  IN  /\ (pc = "intro" /\ On(Client, n)) => Announced(n) = key[Client]
      /\ (pc = "ask" /\ On(Client, n)) => at[Server].got.identity = key[Client]
      /\ (pc \in {"msg1", "msg3", "up"} /\ On(Client, n)) => trust[Server] = key[Client]
      /\ (pc = "msg3" /\ On(Client, n) /\ at[Client].pc # "up") => wire = << >>
      /\ (pc = "up" /\ On(Client, n)) => at[Client].pc = "up"
      /\ (pc = "msg3" /\ wire # << >>) =>
           /\ trust[Server] # NoKey
           /\ wire[1].sig = Sign(trust[Server], Transcript(Epk(Client, n), Epk(Server, n)))

\* The server looks at the client's keys in the order the client had them.
QueuePins ==
  /\ trust[Server] <= key[Client]
  /\ \A i \in DOMAIN backlog :
       /\ On(Client, backlog[i]) => Announced(backlog[i]) = key[Client]
       /\ trust[Server] <= Announced(backlog[i])
       /\ Announced(backlog[i]) <= key[Client]
  /\ \A i, j \in DOMAIN backlog : i <= j => Announced(backlog[i]) <= Announced(backlog[j])

\* A key it looks at is not older than the pinned one, and not newer than the
\* client's or one that is still queued.
NotBefore(identity) ==
  /\ trust[Server] <= identity
  /\ identity <= key[Client]
  /\ \A i \in DOMAIN backlog : identity <= Announced(backlog[i])

LookPins ==
  /\ at[Server].pc = "intro" => NotBefore(Announced(at[Server].conn))
  /\ at[Server].pc = "ask" => NotBefore(at[Server].got.identity)

Pins == KeysExist /\ ClientPins /\ ServerPins /\ QueuePins /\ LookPins

HandshakeInv == TypeOK /\ Stages /\ Pins

Connection == [to : [Side -> Seq(Message)], closed : SUBSET Side]
Position == [pc : Places, conn : Nat, got : Message \cup {NoMessage}, chan : Channels]

LEMMA Sides ==
  /\ Side = {Client, Server}
  /\ Client # Server
  /\ Other(Client) = Server /\ Other(Server) = Client
BY SidesAssumption DEF Side, Other

LEMMA MapIsSequence ==
  ASSUME NEW S, NEW n \in Nat, NEW f \in [1 .. n -> S]
  PROVE  f \in Seq(S) /\ Len(f) = n
OBVIOUS

-----------------------------------------------------------------------------
(* What the steps do to the connections.                                   *)

\* Nothing is read or written.
SameStreams(cs) ==
  /\ cs \in Seq(Connection)
  /\ Len(cs) = Len(conns)
  /\ \A n \in DOMAIN conns : cs[n].to = conns[n].to

LEMMA ClosedByFacts ==
  ASSUME conns \in Seq(Connection), NEW p \in Side, at[p].conn \in 0 .. Len(conns)
  PROVE  SameStreams(ClosedBy(p, conns))
<1>1. CASE at[p].conn = 0
  BY <1>1 DEF ClosedBy, SameStreams
<1>2. CASE at[p].conn # 0
  <2> DEFINE c == at[p].conn
             closing == [conns[c] EXCEPT !.closed = @ \cup {p}]
  <2>1. c \in 1 .. Len(conns) /\ Len(conns) \in Nat /\ conns[c] \in Connection
    BY <1>2
  <2>2. closing \in Connection /\ closing.to = conns[c].to
    BY <2>1 DEF Connection
  <2>3. ClosedBy(p, conns) = [conns EXCEPT ![c] = closing]
    BY <1>2 DEF ClosedBy
  <2> HIDE DEF c, closing
  <2> QED
    BY <2>1, <2>2, <2>3 DEF SameStreams
<1> QED
  BY <1>1, <1>2

\* p has read a message of its connection and written some.
Writes(p, cs, read, replies) ==
  LET c == at[p].conn IN
  /\ cs \in Seq(Connection)
  /\ Len(cs) = Len(conns)
  /\ \A n \in DOMAIN conns : n # c => cs[n] = conns[n]
  /\ cs[c].to[p] = IF read THEN Tail(conns[c].to[p]) ELSE conns[c].to[p]
  /\ cs[c].to[Other(p)] = conns[c].to[Other(p)] \o replies

LEMMA Concatenated ==
  ASSUME NEW S, NEW s \in Seq(S), NEW t \in Seq(S)
  PROVE  s \o t \in Seq(S)
OBVIOUS

LEMMA WithoutFirst ==
  ASSUME NEW S, NEW s \in Seq(S), s # << >>
  PROVE  Tail(s) \in Seq(S)
OBVIOUS

LEMMA SentFacts ==
  ASSUME conns \in Seq(Connection), NEW p \in Side, at[p].conn \in DOMAIN conns,
         NEW replies \in Seq(Message)
  PROVE  Writes(p, Sent(p, replies), FALSE, replies)
<1> DEFINE c == at[p].conn
           q == Other(p)
           out == conns[c].to[q] \o replies
           to == [conns[c].to EXCEPT ![q] = out]
           conn == [conns[c] EXCEPT !.to = to]
<1>1. c \in 1 .. Len(conns) /\ conns[c] \in Connection /\ q \in Side /\ q # p
  BY Sides
<1>2. out \in Seq(Message)
  <2>1. conns[c].to[q] \in Seq(Message)
    BY <1>1 DEF Connection
  <2> QED
    BY <2>1, Concatenated
<1>3. Sent(p, replies) = [conns EXCEPT ![c] = conn]
  BY <1>1 DEF Sent
<1> HIDE DEF out
<1>4. to \in [Side -> Seq(Message)] /\ to[q] = out /\ to[p] = conns[c].to[p]
  BY <1>1, <1>2 DEF Connection
<1> HIDE DEF to
<1>5. conn \in Connection /\ conn.to = to
  BY <1>1, <1>4 DEF Connection
<1> HIDE DEF conn, c, q
<1>6. /\ Sent(p, replies) \in Seq(Connection)
      /\ Len(Sent(p, replies)) = Len(conns)
      /\ Sent(p, replies)[c] = conn
      /\ \A n \in DOMAIN conns : n # c => Sent(p, replies)[n] = conns[n]
  BY <1>1, <1>3, <1>5
<1> QED
  BY <1>4, <1>5, <1>6 DEF Writes, out, c, q

LEMMA ExchangedFacts ==
  ASSUME conns \in Seq(Connection), NEW p \in Side, at[p].conn \in DOMAIN conns,
         Inbox(p) # << >>, NEW replies \in Seq(Message)
  PROVE  Writes(p, Exchanged(p, replies), TRUE, replies)
<1> DEFINE c == at[p].conn
           q == Other(p)
           in == Tail(conns[c].to[p])
           out == conns[c].to[q] \o replies
           to == [conns[c].to EXCEPT ![p] = in, ![q] = out]
           conn == [conns[c] EXCEPT !.to = to]
<1>1. c \in 1 .. Len(conns) /\ conns[c] \in Connection /\ q \in Side /\ q # p
  BY Sides
<1>2. out \in Seq(Message) /\ in \in Seq(Message)
  <2>1. /\ conns[c].to[q] \in Seq(Message) /\ conns[c].to[p] \in Seq(Message)
        /\ conns[c].to[p] # << >>
    BY <1>1 DEF Connection, Inbox, Conn
  <2> QED
    BY <2>1, Concatenated, WithoutFirst
<1>3. Exchanged(p, replies) = [conns EXCEPT ![c] = conn]
  BY <1>1 DEF Exchanged, Connection
<1> HIDE DEF out, in
<1>4. to \in [Side -> Seq(Message)] /\ to[q] = out /\ to[p] = in
  BY <1>1, <1>2 DEF Connection
<1> HIDE DEF to
<1>5. conn \in Connection /\ conn.to = to
  BY <1>1, <1>4 DEF Connection
<1> HIDE DEF conn, c, q
<1>6. /\ Exchanged(p, replies) \in Seq(Connection)
      /\ Len(Exchanged(p, replies)) = Len(conns)
      /\ Exchanged(p, replies)[c] = conn
      /\ \A n \in DOMAIN conns : n # c => Exchanged(p, replies)[n] = conns[n]
  BY <1>1, <1>3, <1>5
<1> QED
  BY <1>4, <1>5, <1>6 DEF Writes, out, in, c, q

-----------------------------------------------------------------------------
(* Messages and channels have their types.                                 *)

LEMMA MessageTypes ==
  ASSUME key \in [Side -> Nat], NEW n \in Nat
  PROVE  /\ \A p \in Side : Intro(p) \in Message
         /\ Message1(n) \in Message
         /\ \A m : m.epk \in Half => Message2(n, m) \in Message /\ Message3(n, m) \in Message
         /\ NewConnection \in Connection
         /\ NewConnection.to[Client] = << >>
         /\ Len(NewConnection.to[Server]) = 1
         /\ NewConnection.to[Server][1].type = "intro"
<1>1. \A p \in Side : Intro(p) \in Message
  BY DEF Intro, Message
<1>2. Message1(n) \in Message
  BY Sides DEF Message1, Epk, Half, Message
<1>3. ASSUME NEW m, m.epk \in Half
      PROVE  Message2(n, m) \in Message /\ Message3(n, m) \in Message
  <2>1. Epk(Server, n) \in Half /\ Epk(Client, n) \in Half
    BY Sides DEF Epk, Half
  <2>2. \A p \in Side, a \in Half, b \in Half : Sign(key[p], Transcript(a, b)) \in Signature
    BY DEF Sign, Transcript, Signature
  <2> QED
    BY <1>3, <2>1, <2>2, Sides DEF Message2, Message3, Message
<1>4. /\ <<Intro(Client)>> \in Seq(Message) /\ Len(<<Intro(Client)>>) = 1
      /\ <<Intro(Client)>>[1].type = "intro"
  BY <1>1, Sides DEF Intro
<1>5. NewConnection \in Connection /\ NewConnection.to[Client] = << >>
      /\ NewConnection.to[Server] = <<Intro(Client)>>
  BY <1>4, Sides DEF NewConnection, Connection
<1> QED
  BY <1>1, <1>2, <1>3, <1>4, <1>5

LEMMA ChannelTypes ==
  ASSUME NEW c \in Half, NEW s \in Half, NEW i \in BOOLEAN
  PROVE  DeriveChannel(c, s, i) \in Channels
<1>1. ASSUME NEW x \in {"i2r", "r2i", "root-key"} PROVE Hkdf({c, s}, <<c, s>>, x) \in Key
  BY DEF Hkdf, Key
<1> QED
  BY <1>1, Zenon DEF DeriveChannel, Channel, Channels

LEMMA EpkType ==
  ASSUME NEW n \in Nat
  PROVE  Epk(Client, n) \in Half /\ Epk(Server, n) \in Half
BY Sides DEF Epk, Half

\* The conjuncts of TypeOK in the terms used here.
LEMMA Typed ==
  TypeOK <=> /\ key \in [Side -> Nat]
             /\ trust \in [Side -> Nat]
             /\ at \in [Side -> Position]
             /\ conns \in Seq(Connection)
             /\ backlog \in Seq(Nat)
             /\ strikes \in Nat
BY DEF TypeOK, Position, Connection

-----------------------------------------------------------------------------
(* Connections on which nothing happens, or which a side leaves.           *)

Stage(n) == ToClient(n) /\ ToServer(n) /\ Derived(n)

LEMMA StageKept ==
  ASSUME NEW n, Stage(n), conns'[n].to = conns[n].to, kind' = kind,
         ClientAt(n)' \in {ClientAt(n), "gone"},
         ServerAt(n)' \in {ServerAt(n), "gone"},
         ClientAt(n)' \in {"ask", "up"} =>
           at'[Client].got = at[Client].got /\ at'[Client].chan = at[Client].chan,
         ServerAt(n)' \in {"ask", "msg3", "up"} =>
           at'[Server].got = at[Server].got /\ at'[Server].chan = at[Server].chan
  PROVE  Stage(n)'
<1>1. ToClient(n)'
  BY DEF Stage, ToClient
<1>2. ToServer(n)'
  BY DEF Stage, ToServer
<1>3. Derived(n)'
  BY DEF Stage, Derived
<1> QED
  BY <1>1, <1>2, <1>3 DEF Stage

\* Streams and positions stay as they are.
LEMMA Unmoved ==
  ASSUME TypeOK, Stages, at' = at, backlog' = backlog, kind' = kind, conns' = conns
  PROVE  Stages'
<1>1. Served'
  BY DEF Stages, Served, On
<1>2. ASSUME NEW n \in DOMAIN conns PROVE Stage(n)'
  BY <1>2, StageKept DEF Stages, Stage, ClientAt, ServerAt, On
<1> QED
  BY <1>1, <1>2 DEF Stages, Stage

\* Where a side is that is on no connection.
Elsewhere == {"off", "connect", "accept"}

\* p is not on a connection any more, or it never was; connections may leave
\* the backlog.
LEMMA Departed ==
  ASSUME TypeOK, Stages, NEW p \in Side,
         at' \in [Side -> Position], at'[Other(p)] = at[Other(p)],
         at'[p].pc \in Elsewhere, at'[p].conn \in {0, at[p].conn},
         kind' = kind, SameStreams(conns'),
         backlog' \in Seq(Nat),
         \/ backlog' = backlog
         \/ backlog' = << >>
         \/ backlog # << >> /\ backlog' = Tail(backlog)
  PROVE  Stages'
<1>0. /\ at \in [Side -> Position]
      /\ conns \in Seq(Connection)
      /\ backlog \in Seq(Nat)
  BY Typed
<1>1. /\ DOMAIN conns' = DOMAIN conns
      /\ DOMAIN conns = 1 .. Len(conns)
      /\ Len(conns') = Len(conns)
      /\ \A n \in DOMAIN conns : conns'[n].to = conns[n].to
  BY <1>0 DEF SameStreams
<1>2. /\ \A i \in DOMAIN backlog' : \E j \in DOMAIN backlog : backlog'[i] = backlog[j]
      /\ \A i, j \in DOMAIN backlog' : backlog'[i] = backlog'[j] => i = j
  <2>1. \A i, j \in DOMAIN backlog : backlog[i] = backlog[j] => i = j
    BY DEF Stages, Served
  <2>2. CASE backlog' = backlog
    BY <2>1, <2>2
  <2>3. CASE backlog' = << >>
    BY <2>3
  <2>4. CASE backlog # << >> /\ backlog' = Tail(backlog)
    <3>1. \A i \in DOMAIN backlog' : i + 1 \in DOMAIN backlog /\ backlog'[i] = backlog[i + 1]
      BY <1>0, <2>4
    <3>2. DOMAIN backlog' \subseteq Nat
      BY <1>0, <2>4
    <3>3. \A i, j \in DOMAIN backlog' : backlog'[i] = backlog'[j] => i = j
      <4> SUFFICES ASSUME NEW i \in DOMAIN backlog', NEW j \in DOMAIN backlog',
                          backlog'[i] = backlog'[j]
                   PROVE  i = j
        OBVIOUS
      <4>1. i + 1 = j + 1
        BY <2>1, <3>1
      <4> QED
        BY <3>2, <4>1
    <3> QED
      BY <3>1, <3>3
  <2> QED
    BY <2>2, <2>3, <2>4
<1>3. ToSet(backlog') \subseteq ToSet(backlog)
  <2> SUFFICES ASSUME NEW e \in ToSet(backlog') PROVE e \in ToSet(backlog)
    OBVIOUS
  <2>1. PICK i \in DOMAIN backlog' : e = backlog'[i]
    BY DEF ToSet
  <2>2. PICK j \in DOMAIN backlog : backlog'[i] = backlog[j]
    BY <1>2
  <2> QED
    BY <2>1, <2>2 DEF ToSet
<1>4. /\ \A n : ~On(p, n)'
      /\ \A n : On(Other(p), n)' <=> On(Other(p), n)
      /\ {p, Other(p)} = Side
  BY Sides DEF On, Elsewhere, Waiting
<1>5. Served'
  <2>1. ASSUME NEW i \in DOMAIN backlog'
        PROVE  /\ backlog'[i] \in DOMAIN conns'
               /\ ~(at'[Server].conn = backlog'[i]
                     /\ at'[Server].pc \in Waiting \cup {"ask", "up"})
    <3>1. PICK j \in DOMAIN backlog : backlog'[i] = backlog[j]
      BY <1>2
    <3>2. backlog[j] \in DOMAIN conns /\ ~On(Server, backlog[j])
      BY DEF Stages, Served
    <3>3. CASE p = Server
      BY <1>1, <3>1, <3>2, <3>3 DEF Elsewhere, Waiting
    <3>4. CASE at'[Server] = at[Server]
      BY <1>1, <3>1, <3>2, <3>4 DEF On
    <3> QED
      BY <3>3, <3>4, Sides
  <2>2. ASSUME NEW q \in Side
        PROVE  /\ at'[q].conn \in 0 .. Len(conns')
               /\ at'[q].pc \in Waiting \cup {"ask", "up"} => at'[q].conn # 0
    <3>0. /\ at[q].conn \in 0 .. Len(conns)
          /\ at[q].pc \in Waiting \cup {"ask", "up"} => at[q].conn # 0
          /\ Len(conns) \in Nat
      BY <1>0 DEF Stages, Served
    <3>1. CASE q = p
      BY <1>1, <3>0, <3>1 DEF Elsewhere, Waiting
    <3>2. CASE q = Other(p)
      BY <1>1, <3>0, <3>2
    <3> QED
      BY <1>4, <3>1, <3>2
  <2> QED
    BY <1>2, <2>1, <2>2 DEF Served, On
<1>6. ASSUME NEW n \in DOMAIN conns PROVE Stage(n)'
  <2>1. Stage(n) /\ conns'[n].to = conns[n].to
    BY <1>1 DEF Stages, Stage
  <2>2. ClientAt(n)' \in {ClientAt(n), "gone"}
    BY <1>4, Sides DEF ClientAt
  <2>3. ServerAt(n)' \in {ServerAt(n), "gone"}
    <3>1. CASE On(Server, n)'
      <4>1. n \notin ToSet(backlog)
        BY <1>4, <3>1, Sides DEF Stages, Served, ToSet
      <4> QED
        BY <1>3, <1>4, <3>1, <4>1, Sides DEF ServerAt
    <3>2. CASE ~On(Server, n)'
      BY <1>3, <3>2 DEF ServerAt
    <3> QED
      BY <3>1, <3>2
  <2>4. ClientAt(n)' \in {"ask", "up"} =>
          at'[Client].got = at[Client].got /\ at'[Client].chan = at[Client].chan
    BY <1>4, Sides DEF ClientAt
  <2>5. ServerAt(n)' \in {"ask", "msg3", "up"} =>
          at'[Server].got = at[Server].got /\ at'[Server].chan = at[Server].chan
    BY <1>4, Sides DEF ServerAt
  <2> QED
    BY <2>1, <2>2, <2>3, <2>4, <2>5, StageKept
<1> QED
  BY <1>1, <1>5, <1>6 DEF Stages, Stage

-----------------------------------------------------------------------------
(* Steps on a connection.                                                  *)

OnOne == Waiting \cup {"ask", "up"}

LEMMA OwnConnection ==
  ASSUME TypeOK, Stages, NEW p \in Side, at[p].pc \in OnOne
  PROVE  /\ at[p].conn \in DOMAIN conns
         /\ at[p].conn \in Nat
         /\ On(p, at[p].conn)
         /\ Stage(at[p].conn)
<1>1. conns \in Seq(Connection)
  BY Typed
<1>2. at[p].conn \in 0 .. Len(conns) /\ at[p].conn # 0
  BY DEF Stages, Served, OnOne
<1>3. at[p].conn \in 1 .. Len(conns) /\ DOMAIN conns = 1 .. Len(conns)
  BY <1>1, <1>2
<1> QED
  BY <1>3 DEF On, OnOne, Stages, Stage

\* Where a side is on a connection that it is on.
LEMMA WhereItIs ==
  ASSUME TypeOK, Stages, NEW n
  PROVE  /\ On(Client, n) => ClientAt(n) = at[Client].pc
         /\ On(Server, n) => ServerAt(n) = at[Server].pc
<1>1. On(Server, n) => n \notin ToSet(backlog)
  BY DEF Stages, Served, ToSet
<1> QED
  BY <1>1 DEF ClientAt, ServerAt

LEMMA MovesOn ==
  ASSUME TypeOK, Stages, NEW p \in Side, at[p].pc \in OnOne,
         at' \in [Side -> Position], at'[Other(p)] = at[Other(p)],
         at'[p].pc \in OnOne, at'[p].conn = at[p].conn,
         conns' \in Seq(Connection), Len(conns') = Len(conns),
         \A n \in DOMAIN conns : n # at[p].conn => conns'[n] = conns[n],
         kind' = kind, backlog' = backlog,
         Stage(at[p].conn)'
  PROVE  Stages'
<1>0. conns \in Seq(Connection)
  BY Typed
<1>1. DOMAIN conns' = DOMAIN conns
  BY <1>0
<1>2. /\ \A n : On(Other(p), n)' <=> On(Other(p), n)
      /\ \A n : On(p, n)' <=> On(p, n)
      /\ {p, Other(p)} = Side
  BY Sides DEF On, OnOne
<1>3. Served'
  <2>1. \A q \in Side : at'[q].conn = at[q].conn
                       /\ (at'[q].pc \in OnOne <=> at[q].pc \in OnOne)
    BY <1>2
  <2>2. Server \in Side
    BY Sides
  <2> QED
    BY <1>1, <2>1, <2>2 DEF Stages, Served, On, OnOne
<1>4. ASSUME NEW n \in DOMAIN conns, n # at[p].conn PROVE Stage(n)'
  <2>1. Stage(n) /\ conns'[n].to = conns[n].to
    BY <1>4 DEF Stages, Stage
  <2>2. ~On(p, n) /\ ~On(p, n)'
    BY <1>2, <1>4 DEF On
  <2>3. /\ ClientAt(n)' = ClientAt(n)
        /\ ServerAt(n)' = ServerAt(n)
        /\ ClientAt(n) # "gone" => at'[Client] = at[Client]
        /\ ServerAt(n) \notin {"gone", "queued"} => at'[Server] = at[Server]
    BY <1>2, <2>2, Sides DEF ClientAt, ServerAt
  <2> QED
    BY <2>1, <2>3, StageKept
<1> QED
  <2>1. at[p].conn \in DOMAIN conns
    BY OwnConnection
  <2>2. \A n \in DOMAIN conns' : Stage(n)'
    BY <1>1, <1>4
  <2> QED
    BY <1>3, <2>2 DEF Stages, Stage

-----------------------------------------------------------------------------
(* What is pinned, while connections end.                                  *)

PinsKept == Pins => Pins'

\* The backlog has lost its first k connections, or all of them.
Shift(k) ==
  \A i \in DOMAIN backlog' :
    i \in Nat /\ i + k \in DOMAIN backlog /\ backlog'[i] = backlog[i + k]

LEMMA Shifts ==
  ASSUME backlog \in Seq(Nat),
         \/ backlog' = backlog
         \/ backlog' = << >>
         \/ backlog # << >> /\ backlog' = Tail(backlog)
  PROVE  \E k \in Nat : Shift(k)
<1>1. CASE backlog' = backlog
  <2>1. Shift(0)
    BY <1>1 DEF Shift
  <2> QED
    BY <2>1
<1>2. CASE backlog' = << >>
  <2>1. Shift(0)
    BY <1>2 DEF Shift
  <2> QED
    BY <2>1
<1>3. CASE backlog # << >> /\ backlog' = Tail(backlog)
  <2>1. Shift(1)
    BY <1>3 DEF Shift
  <2> QED
    BY <2>1
<1> QED
  BY <1>1, <1>2, <1>3

\* The introductions in the backlog stay what they are.
SameQueue ==
  \A i \in DOMAIN backlog :
    conns'[backlog[i]].to[Server][1] = conns[backlog[i]].to[Server][1]

LEMMA QueueKept ==
  ASSUME QueuePins, NEW k \in Nat, Shift(k), SameQueue, key' = key,
         trust'[Server] = trust[Server] \/ NotBefore(trust'[Server]),
         \A n : On(Client, n)' => On(Client, n)
  PROVE  QueuePins'
<1>1. /\ trust'[Server] <= key'[Client]
      /\ \A i \in DOMAIN backlog : trust'[Server] <= Announced(backlog[i])
  BY DEF QueuePins, NotBefore
<1>2. \A i \in DOMAIN backlog' :
        /\ i \in Nat /\ i + k \in DOMAIN backlog /\ backlog'[i] = backlog[i + k]
        /\ conns'[backlog'[i]].to[Server][1].identity = Announced(backlog[i + k])
  BY DEF Shift, SameQueue, Announced
<1>3. ASSUME NEW i \in DOMAIN backlog'
      PROVE  LET told == conns'[backlog'[i]].to[Server][1].identity IN
             /\ at'[Client].conn = backlog'[i] /\ at'[Client].pc \in Waiting \cup {"ask", "up"}
                  => told = key'[Client]
             /\ trust'[Server] <= told
             /\ told <= key'[Client]
  <2>1. \A n : at'[Client].conn = n /\ at'[Client].pc \in Waiting \cup {"ask", "up"}
                => On(Client, n)
    BY DEF On
  <2>2. On(Client, backlog[i + k]) => Announced(backlog[i + k]) = key[Client]
    BY <1>2 DEF QueuePins
  <2>3. Announced(backlog[i + k]) <= key[Client]
    BY <1>2 DEF QueuePins
  <2> QED
    BY <1>1, <1>2, <2>1, <2>2, <2>3
<1>4. ASSUME NEW i \in DOMAIN backlog', NEW j \in DOMAIN backlog', i <= j
      PROVE  conns'[backlog'[i]].to[Server][1].identity
               <= conns'[backlog'[j]].to[Server][1].identity
  <2>1. i + k <= j + k
    BY <1>2, <1>4
  <2>2. Announced(backlog[i + k]) <= Announced(backlog[j + k])
    BY <1>2, <2>1 DEF QueuePins
  <2> QED
    BY <1>2, <2>2
<1> QED
  BY <1>1, <1>3, <1>4 DEF QueuePins, On, Announced

LEMMA NotBeforeKept ==
  ASSUME NEW k \in Nat, Shift(k), SameQueue, key' = key, trust'[Server] = trust[Server],
         NEW identity, NotBefore(identity)
  PROVE  NotBefore(identity)'
<1>1. \A i \in DOMAIN backlog' :
        /\ i + k \in DOMAIN backlog
        /\ conns'[backlog'[i]].to[Server][1].identity = Announced(backlog[i + k])
  BY DEF Shift, SameQueue, Announced
<1>2. \A i \in DOMAIN backlog' :
        identity <= conns'[backlog'[i]].to[Server][1].identity
  BY <1>1 DEF NotBefore
<1> QED
  BY <1>2 DEF NotBefore, Announced

\* A connection that is queued has been made.
LEMMA QueuedExist ==
  ASSUME TypeOK, Stages, NEW i \in DOMAIN backlog
  PROVE  /\ backlog[i] \in DOMAIN conns
         /\ ServerAt(backlog[i]) = "queued"
         /\ Stage(backlog[i])
<1>1. backlog[i] \in DOMAIN conns /\ backlog[i] \in ToSet(backlog)
  BY DEF Stages, Served, ToSet
<1> QED
  BY <1>1 DEF Stages, Stage, ServerAt

\* p leaves its connection.
LEMMA PinsDeparted ==
  ASSUME TypeOK, Stages, NEW p \in Side,
         at'[Other(p)] = at[Other(p)], at'[p].pc \in Elsewhere,
         key' = key, trust' = trust, SameStreams(conns'),
         \/ backlog' = backlog
         \/ backlog' = << >>
         \/ backlog # << >> /\ backlog' = Tail(backlog)
  PROVE  PinsKept
<1> SUFFICES ASSUME Pins PROVE Pins'
  BY DEF PinsKept
<1>1. /\ \A n : ~On(p, n)'
      /\ \A n : On(Other(p), n)' <=> On(Other(p), n)
      /\ p = Client \/ p = Server
  BY Sides DEF On, Elsewhere, Waiting
<1>2. \A n \in DOMAIN conns : conns'[n].to = conns[n].to
  BY DEF SameStreams
<1>3. KeysExist'
  BY DEF Pins, KeysExist
<1>4. ClientPins'
  <2>1. CASE p = Client
    BY <2>1 DEF ClientPins, Elsewhere
  <2>2. CASE p = Server
    <3>1. at'[Client] = at[Client] /\ \A n : ~On(Server, n)'
      BY <1>1, <2>2, Sides
    <3>2. at[Client].pc \in {"intro", "ask", "msg2"} =>
            conns'[at[Client].conn].to = conns[at[Client].conn].to
      BY <1>2, OwnConnection, Sides DEF OnOne, Waiting
    <3>3. ClientPins /\ trust'[Client] = trust[Client]
      BY DEF Pins
    <3> QED
      BY <3>1, <3>2, <3>3 DEF ClientPins, Epk, On
  <2> QED
    BY <1>1, <2>1, <2>2
<1>5. ServerPins'
  <2>1. CASE p = Server
    BY <2>1 DEF ServerPins, Elsewhere
  <2>2. CASE p = Client
    <3>1. at'[Server] = at[Server] /\ \A n : ~On(Client, n)'
      BY <1>1, <2>2, Sides
    <3>2. at[Server].pc = "msg3" =>
            conns'[at[Server].conn].to = conns[at[Server].conn].to
      BY <1>2, OwnConnection, Sides DEF OnOne, Waiting
    <3>3. ServerPins /\ trust'[Server] = trust[Server]
      BY DEF Pins
    <3> QED
      BY <3>1, <3>2, <3>3 DEF ServerPins, Epk, On
  <2> QED
    BY <1>1, <2>1, <2>2
<1>6. SameQueue
  BY <1>2, QueuedExist DEF SameQueue
<1>7. PICK k \in Nat : Shift(k)
  BY Shifts, Typed
<1>8. QueuePins'
  <2>1. \A n : On(Client, n)' => On(Client, n)
    BY <1>1, Sides
  <2> QED
    BY <1>6, <1>7, <2>1, QueueKept DEF Pins
<1>9. LookPins'
  <2>1. CASE p = Server
    BY <2>1 DEF LookPins, Elsewhere
  <2>2. CASE p = Client
    <3>1. at'[Server] = at[Server]
      BY <2>2, Sides
    <3>2. \A identity : NotBefore(identity) => NotBefore(identity)'
      BY <1>6, <1>7, NotBeforeKept
    <3>3. CASE at[Server].pc = "intro"
      <4>1. PICK m : m = Announced(at[Server].conn)
        OBVIOUS
      <4>2. Announced(at[Server].conn)' = m
        BY <1>2, <3>1, <3>3, <4>1, OwnConnection, Sides DEF Announced, OnOne, Waiting
      <4>3. NotBefore(m)'
        BY <3>2, <3>3, <4>1 DEF Pins, LookPins
      <4> QED
        BY <3>1, <3>3, <4>2, <4>3 DEF LookPins
    <3>4. CASE at[Server].pc = "ask"
      <4>1. PICK m : m = at[Server].got.identity
        OBVIOUS
      <4>2. NotBefore(m)'
        BY <3>2, <3>4, <4>1 DEF Pins, LookPins
      <4> QED
        BY <3>1, <3>4, <4>1, <4>2 DEF LookPins
    <3> QED
      BY <3>1, <3>3, <3>4 DEF LookPins
  <2> QED
    BY <1>1, <2>1, <2>2
<1> QED
  BY <1>3, <1>4, <1>5, <1>8, <1>9 DEF Pins

LEMMA Departure ==
  ASSUME TypeOK, Stages, NEW p \in Side,
         at' \in [Side -> Position], at'[Other(p)] = at[Other(p)],
         at'[p].pc \in Elsewhere, at'[p].conn \in {0, at[p].conn},
         kind' = kind, key' = key, trust' = trust, SameStreams(conns'),
         backlog' \in Seq(Nat),
         \/ backlog' = backlog
         \/ backlog' = << >>
         \/ backlog # << >> /\ backlog' = Tail(backlog)
  PROVE  Stages' /\ PinsKept
BY Departed, PinsDeparted

-----------------------------------------------------------------------------
(* Steps that begin or end an attempt.                                     *)

LEMMA Resting ==
  Off \in Position /\ Off.pc = "off" /\ Off.conn = 0
BY DEF Off, Position, Places, NoChannel, Channels

LEMMA LeavesFacts ==
  ASSUME at \in [Side -> Position], NEW p \in Side, NEW next \in Elsewhere,
         Leaves(p, next)
  PROVE  /\ at' \in [Side -> Position]
         /\ at'[Other(p)] = at[Other(p)]
         /\ at'[p].pc \in Elsewhere /\ at'[p].conn = 0
<1> DEFINE there == IF next = "off" THEN Off ELSE [Off EXCEPT !.pc = next]
<1>1. there \in Position /\ there.pc = next /\ there.conn = 0
  BY Resting DEF Position, Elsewhere, Places, Waiting
<1>2. at' = [at EXCEPT ![p] = there]
  BY DEF Leaves
<1> HIDE DEF there
<1>3. Other(p) \in Side /\ Other(p) # p
  BY Sides
<1> QED
  BY <1>1, <1>2, <1>3

LEMMA KeepsSocketFacts ==
  ASSUME at \in [Side -> Position], NEW p \in Side, NEW next \in Elsewhere,
         KeepsSocket(p, next)
  PROVE  /\ at' \in [Side -> Position]
         /\ at'[Other(p)] = at[Other(p)]
         /\ at'[p].pc \in Elsewhere /\ at'[p].conn = at[p].conn
<1> DEFINE there == [Off EXCEPT !.pc = next, !.conn = at[p].conn]
<1>1. there \in Position /\ there.pc = next /\ there.conn = at[p].conn
  BY Resting DEF Position, Elsewhere, Places, Waiting
<1>2. at' = [at EXCEPT ![p] = there]
  BY DEF KeepsSocket
<1> HIDE DEF there
<1>3. Other(p) \in Side /\ Other(p) # p
  BY Sides
<1> QED
  BY <1>1, <1>2, <1>3

\* What every step starts from.
LEMMA Before ==
  ASSUME TypeOK, Stages
  PROVE  /\ at \in [Side -> Position]
         /\ conns \in Seq(Connection)
         /\ Len(conns) \in Nat /\ DOMAIN conns = 1 .. Len(conns)
         /\ backlog \in Seq(Nat)
         /\ strikes \in Nat
         /\ \A p \in Side : at[p].conn \in 0 .. Len(conns)
         /\ \A p \in Side : SameStreams(ClosedBy(p, conns))
         /\ SameStreams(conns)
<1>1. conns \in Seq(Connection)
  BY Typed
<1>2. \A p \in Side : at[p].conn \in 0 .. Len(conns)
  BY DEF Stages, Served
<1>3. \A p \in Side : SameStreams(ClosedBy(p, conns))
  BY <1>1, <1>2, ClosedByFacts
<1>4. SameStreams(conns)
  BY <1>1 DEF SameStreams
<1> QED
  BY <1>1, <1>2, <1>3, <1>4, Typed

LEMMA TypedAfter ==
  ASSUME TypeOK, key' = key, trust' \in [Side -> Nat], at' \in [Side -> Position],
         conns' \in Seq(Connection), backlog' \in Seq(Nat), strikes' \in Nat
  PROVE  TypeOK'
BY DEF TypeOK, Position, Connection

LEMMA HandshakeErrorKeeps ==
  ASSUME TypeOK, Stages, NEW p \in Side, NEW declined \in BOOLEAN, NEW signature \in BOOLEAN,
         HandshakeError(p, declined, signature), UNCHANGED <<files, backlog>>
  PROVE  TypeOK' /\ Stages' /\ PinsKept
<1>1. Leaves(p, AttemptOver(p)) /\ AttemptOver(p) \in Elsewhere
  BY DEF HandshakeError, AttemptOver, Elsewhere
<1>2. SameStreams(conns') /\ strikes' \in Nat
  BY Before DEF HandshakeError, Penalty, Strike
<1>3. Stages' /\ PinsKept /\ at' \in [Side -> Position]
  BY <1>1, <1>2, Before, LeavesFacts, Departure DEF files
<1> QED
  BY <1>2, <1>3, Typed, TypedAfter DEF files, SameStreams

LEMMA StartKeeps ==
  ASSUME TypeOK, Stages, NEW p \in Side, Start(p)
  PROVE  TypeOK' /\ Stages' /\ PinsKept
<1> DEFINE there == [at[p] EXCEPT !.pc = IF p = Client THEN "connect" ELSE "accept"]
<1>1. there \in Position /\ there.pc \in Elsewhere /\ there.conn = at[p].conn
  BY Before DEF Position, Elsewhere, Places, Waiting
<1>2. at' = [at EXCEPT ![p] = there]
  BY DEF Start
<1> HIDE DEF there
<1>3. /\ at' \in [Side -> Position] /\ at'[Other(p)] = at[Other(p)]
      /\ at'[p] = there
  BY <1>1, <1>2, Before, Sides
<1>4. Stages' /\ PinsKept
  BY <1>1, <1>3, Before, Departure DEF Start, files
<1> QED
  BY <1>3, <1>4, Before, Typed, TypedAfter DEF Start, files

\* The keys that are announced or asked about.
LEMMA AnnouncedTypes ==
  ASSUME TypeOK, Stages
  PROVE  /\ \A i \in DOMAIN backlog : Announced(backlog[i]) \in Nat
         /\ at[Server].pc = "intro" => Announced(at[Server].conn) \in Nat
         /\ at[Server].pc = "ask" => at[Server].got.identity \in Nat
<1>1. ASSUME NEW n \in DOMAIN conns, Stage(n), ServerAt(n) \in {"queued", "intro"}
      PROVE  Announced(n) \in Nat
  <2>1. conns[n].to[Server] # << >> /\ conns[n].to[Server][1].type = "intro"
    BY <1>1 DEF Stage, ToServer
  <2>2. conns[n].to[Server] \in Seq(Message)
    <3>1. conns[n] \in Connection
      BY Typed
    <3> QED
      BY <3>1, Sides DEF Connection
  <2>3. conns[n].to[Server][1] \in Message
    BY <2>1, <2>2
  <2> QED
    BY <2>1, <2>3 DEF Announced, Message
<1>2. at[Server].pc = "intro" => Announced(at[Server].conn) \in Nat
  BY <1>1, OwnConnection, WhereItIs, Sides DEF OnOne, Waiting
<1>3. ASSUME at[Server].pc = "ask" PROVE at[Server].got.identity \in Nat
  <2>1. at[Server].got.type = "intro"
    BY <1>3, OwnConnection, WhereItIs, Sides DEF OnOne, Stage, Derived
  <2>2. at[Server].got \in Message \cup {NoMessage}
    BY Typed, Sides DEF Position
  <2> QED
    BY <2>1, <2>2 DEF Message, NoMessage
<1> QED
  BY <1>1, <1>2, <1>3, QueuedExist

\* The program of p is not running while its files change.
LEMMA EditFilesKeeps ==
  ASSUME TypeOK, Stages, NEW p \in Side, EditFiles(p)
  PROVE  TypeOK' /\ Stages' /\ PinsKept
<1>1. key' \in [Side -> Nat] /\ trust' \in [Side -> Nat]
  BY Typed DEF EditFiles, NoKey
<1>2. Stages'
  BY Unmoved DEF EditFiles
<1>3. ASSUME Pins PROVE Pins'
  <2>1. /\ at[p].pc = "off" /\ at' = at /\ conns' = conns /\ backlog' = backlog
        /\ key'[Other(p)] = key[Other(p)] /\ trust'[Other(p)] = trust[Other(p)]
        /\ key[p] \in Nat /\ key'[p] \in Nat /\ key[p] <= key'[p]
        /\ trust'[p] = trust[p] \/ trust'[p] = 0
    BY Typed, Sides DEF EditFiles, NoKey
  <2>2. /\ \A n : ~On(p, n)
        /\ \A q \in Side : key[q] \in Nat /\ trust[q] \in Nat
    BY <2>1, Typed DEF On, Waiting
  <2>3. KeysExist'
    <3>1. key[p] # 0 /\ key[Other(p)] # 0
      BY <1>3, Sides DEF Pins, KeysExist, NoKey
    <3>2. key'[p] # 0 /\ key'[Other(p)] # 0
      BY <2>1, <3>1
    <3> QED
      BY <3>2, Sides DEF KeysExist, NoKey
  <2>4. ClientPins'
    <3>1. CASE p = Client
      BY <2>1, <3>1 DEF ClientPins
    <3>2. CASE p = Server
      BY <1>3, <2>1, <2>2, <3>2, Sides DEF Pins, ClientPins, On, Epk
    <3> QED
      BY <3>1, <3>2, Sides
  <2>5. ServerPins'
    <3>1. CASE p = Server
      BY <2>1, <3>1 DEF ServerPins
    <3>2. CASE p = Client
      BY <1>3, <2>1, <2>2, <3>2, Sides DEF Pins, ServerPins, On, Epk
    <3> QED
      BY <3>1, <3>2, Sides
  <2>6. /\ trust'[Server] <= trust[Server] /\ key[Client] <= key'[Client]
        /\ trust'[Server] \in Nat /\ trust[Server] \in Nat
        /\ key[Client] \in Nat /\ key'[Client] \in Nat
    BY <1>1, <2>1, <2>2, Sides
  <2>7. \A identity \in Nat : NotBefore(identity) => NotBefore(identity)'
    <3> SUFFICES ASSUME NEW identity \in Nat, NotBefore(identity)
                 PROVE  NotBefore(identity)'
      OBVIOUS
    <3>1. trust'[Server] <= identity /\ identity <= key'[Client]
      BY <2>6 DEF NotBefore
    <3> QED
      BY <2>1, <3>1 DEF NotBefore, Announced
  <2>8. QueuePins'
    <3>1. trust'[Server] <= key'[Client]
      BY <1>3, <2>6 DEF Pins, QueuePins
    <3>2. ASSUME NEW i \in DOMAIN backlog
          PROVE  /\ trust'[Server] <= Announced(backlog[i])
                 /\ Announced(backlog[i]) <= key'[Client]
      BY <1>3, <2>6, AnnouncedTypes DEF Pins, QueuePins
    <3>3. ASSUME NEW i \in DOMAIN backlog, On(Client, backlog[i])
          PROVE  Announced(backlog[i]) = key'[Client]
      BY <1>3, <2>1, <2>2, <3>3, Sides DEF Pins, QueuePins
    <3> QED
      BY <1>3, <2>1, <3>1, <3>2, <3>3 DEF Pins, QueuePins, Announced, On
  <2>9. LookPins'
    <3>1. CASE at[Server].pc = "intro"
      BY <1>3, <2>1, <2>7, <3>1, AnnouncedTypes DEF Pins, LookPins, Announced, NotBefore
    <3>2. CASE at[Server].pc = "ask"
      BY <1>3, <2>1, <2>7, <3>2, AnnouncedTypes DEF Pins, LookPins, Announced, NotBefore
    <3> QED
      BY <2>1, <3>1, <3>2 DEF LookPins
  <2> QED
    BY <1>3, <2>3, <2>4, <2>5, <2>8, <2>9 DEF Pins
<1> QED
  BY <1>1, <1>2, <1>3 DEF EditFiles, TypeOK, PinsKept

\* Only counters move.
LEMMA PinsUnmoved ==
  ASSUME UNCHANGED <<key, trust, at, conns, backlog>>
  PROVE  PinsKept
BY DEF PinsKept, Pins, KeysExist, ClientPins, ServerPins, QueuePins, LookPins,
       NotBefore, Announced, On, Epk

LEMMA CoolKeeps ==
  ASSUME TypeOK, Stages, Cool
  PROVE  TypeOK' /\ Stages' /\ PinsKept
<1>1. Stages'
  BY Unmoved DEF Cool, files
<1>2. PinsKept
  BY PinsUnmoved DEF Cool, files
<1> QED
  BY <1>1, <1>2 DEF Cool, files, TypeOK

LEMMA ConnectRefusedKeeps ==
  ASSUME TypeOK, Stages, ConnectRefused
  PROVE  TypeOK' /\ Stages' /\ PinsKept
<1>1. Leaves(Client, "off") /\ "off" \in Elsewhere /\ Client \in Side
  BY Sides DEF ConnectRefused, Elsewhere
<1>2. Stages' /\ PinsKept /\ at' \in [Side -> Position]
  BY <1>1, Before, LeavesFacts, Departure DEF ConnectRefused, files
<1> QED
  BY <1>2, Before, Typed, TypedAfter DEF ConnectRefused, files

LEMMA TimeOutKeeps ==
  ASSUME TypeOK, Stages, NEW p \in Side, TimeOut(p)
  PROVE  TypeOK' /\ Stages' /\ PinsKept
<1>1. SameStreams(conns') /\ strikes' \in Nat
  BY Before DEF TimeOut, Strike
<1>2. /\ at' \in [Side -> Position]
      /\ at'[Other(p)] = at[Other(p)]
      /\ at'[p].pc \in Elsewhere /\ at'[p].conn \in {0, at[p].conn}
  <2>1. CASE p = Server
    BY <2>1, Before, LeavesFacts DEF TimeOut, Elsewhere
  <2>2. CASE p # Server
    BY <2>2, Before, KeepsSocketFacts DEF TimeOut, Elsewhere
  <2> QED
    BY <2>1, <2>2
<1>3. Stages' /\ PinsKept
  BY <1>1, <1>2, Before, Departure DEF TimeOut, files
<1> QED
  BY <1>1, <1>2, <1>3, Before, Typed, TypedAfter DEF TimeOut, files, SameStreams

LEMMA ConnectionFailsKeeps ==
  ASSUME TypeOK, Stages, NEW p \in Side, ConnectionFails(p)
  PROVE  TypeOK' /\ Stages' /\ PinsKept
<1>1. SameStreams(conns')
  BY Before DEF ConnectionFails
<1>2. /\ at' \in [Side -> Position]
      /\ at'[Other(p)] = at[Other(p)]
      /\ at'[p].pc \in Elsewhere /\ at'[p].conn \in {0, at[p].conn}
  <2>1. CASE kind[p] = "gui"
    <3>1. PICK next \in Elsewhere : KeepsSocket(p, next)
      BY <2>1 DEF ConnectionFails, Elsewhere
    <3> QED
      BY <3>1, Before, KeepsSocketFacts
  <2>2. CASE kind[p] # "gui"
    <3>1. Leaves(p, AttemptOver(p)) /\ AttemptOver(p) \in Elsewhere
      BY <2>2 DEF ConnectionFails, AttemptOver, Elsewhere
    <3> QED
      BY <3>1, Before, LeavesFacts
  <2> QED
    BY <2>1, <2>2
<1>3. Stages' /\ PinsKept
  BY <1>1, <1>2, Before, Departure DEF ConnectionFails, files
<1> QED
  BY <1>1, <1>2, <1>3, Before, Typed, TypedAfter DEF ConnectionFails, files, SameStreams

\* A session ends on both sides of the code alike.
LEMMA SessionEndKeeps ==
  ASSUME TypeOK, Stages, NEW p \in Side, SessionLost(p) \/ Hangup(p)
  PROVE  TypeOK' /\ Stages' /\ PinsKept
<1>1. PICK next \in Elsewhere : Leaves(p, next)
  BY DEF SessionLost, Hangup, AttemptOver, Elsewhere
<1>2. SameStreams(conns') /\ UNCHANGED <<files, backlog, strikes>>
  BY Before DEF SessionLost, Hangup
<1>3. Stages' /\ PinsKept /\ at' \in [Side -> Position]
  BY <1>1, <1>2, Before, LeavesFacts, Departure DEF files
<1> QED
  BY <1>2, <1>3, Before, Typed, TypedAfter DEF files, SameStreams

LEMMA RejectKeeps ==
  ASSUME TypeOK, Stages, Reject
  PROVE  TypeOK' /\ Stages' /\ PinsKept
<1> DEFINE n == Head(backlog)
           closing == [conns[n] EXCEPT !.closed = @ \cup {Server}]
<1>1. n \in DOMAIN conns
  BY Before DEF Reject, Stages, Served
<1>2. conns' = [conns EXCEPT ![n] = closing]
  BY DEF Reject
<1> HIDE DEF n
<1>3. closing \in Connection /\ closing.to = conns[n].to
  <2>1. conns[n] \in Connection
    BY <1>1, Before
  <2> QED
    BY <2>1, Sides DEF Connection
<1> HIDE DEF closing
<1>4. SameStreams(conns')
  BY <1>1, <1>2, <1>3, Before DEF SameStreams
<1>5. /\ backlog' \in Seq(Nat) /\ backlog # << >> /\ backlog' = Tail(backlog)
      /\ Server \in Side /\ at'[Server] = at[Server] /\ at' = at
      /\ at[Server].pc \in Elsewhere
  BY Before, Sides DEF Reject, Elsewhere
<1>6. Stages' /\ PinsKept
  BY <1>4, <1>5, Before, Departure DEF Reject, files
<1> QED
  BY <1>4, <1>5, <1>6, Before, Typed, TypedAfter DEF Reject, files, SameStreams

LEMMA ClosedByOneMore ==
  ASSUME NEW k \in Connection, NEW p \in Side
  PROVE  LET more == [k EXCEPT !.closed = @ \cup {p}]
         IN  more \in Connection /\ more.to = k.to
BY DEF Connection

LEMMA QuitKeeps ==
  ASSUME TypeOK, Stages, NEW p \in Side, Quit(p)
  PROVE  TypeOK' /\ Stages' /\ PinsKept
<1> DEFINE unserved == IF p = Server THEN ToSet(backlog) ELSE {}
           open == ClosedBy(p, conns)
           end(n) == IF n \in unserved THEN [open[n] EXCEPT !.closed = @ \cup {p}]
                     ELSE open[n]
<1>1. SameStreams(open)
  BY Before
<1>2. ASSUME NEW n \in 1 .. Len(conns)
      PROVE  end(n) \in Connection /\ end(n).to = conns[n].to
  <2> HIDE DEF open, unserved
  <2>0. DOMAIN conns = 1 .. Len(conns) /\ Len(conns) \in Nat
    BY Before
  <2>1. open[n] \in Connection /\ open[n].to = conns[n].to
    <3>1. open \in Seq(Connection) /\ Len(open) = Len(conns) /\ open[n].to = conns[n].to
      BY <1>1, <2>0, Zenon DEF SameStreams
    <3> QED
      BY <3>1
  <2>2. PICK k \in Connection : k = open[n]
    BY <2>1
  <2>3. LET more == [k EXCEPT !.closed = @ \cup {p}]
        IN  more \in Connection /\ more.to = k.to
    BY ClosedByOneMore
  <2> QED
    BY <2>1, <2>2, <2>3
<1>3. conns' = [n \in 1 .. Len(conns) |-> end(n)]
  BY Before DEF Quit
<1> HIDE DEF end
<1>4. SameStreams(conns')
  <2>1. conns' \in [1 .. Len(conns) -> Connection] /\ Len(conns) \in Nat
    BY <1>2, <1>3, Before
  <2>2. conns' \in Seq(Connection) /\ Len(conns') = Len(conns)
    BY <2>1, MapIsSequence
  <2> QED
    BY <1>2, <1>3, <2>2, Before DEF SameStreams
<1>5. /\ at' \in [Side -> Position] /\ at'[Other(p)] = at[Other(p)]
      /\ at'[p].pc \in Elsewhere /\ at'[p].conn = 0
  BY Before, Resting, Sides DEF Quit, Elsewhere
<1>6. backlog' \in Seq(Nat) /\ (backlog' = backlog \/ backlog' = << >>)
  BY Before DEF Quit
<1>7. Stages' /\ PinsKept
  BY <1>4, <1>5, <1>6, Before, Departure DEF Quit, files
<1> QED
  BY <1>4, <1>5, <1>6, <1>7, Before, Typed, TypedAfter DEF Quit, files, SameStreams

-----------------------------------------------------------------------------
(* Steps of the handshake.                                                 *)

LEMMA Shorter ==
  ASSUME NEW S, NEW s \in Seq(S), NEW t \in Seq(S), Len(t) = Len(s) - 1,
         \A i \in 1 .. Len(s) - 1 : t[i] = s[i + 1]
  PROVE  /\ Len(s) = 1 => t = << >>
         /\ Len(s) = 2 => Len(t) = 1 /\ t[1] = s[2]
<1>1. Len(s) = 1 => t = << >>
  <2>1. Len(s) = 1 => Len(t) = 0
    OBVIOUS
  <2> QED
    BY <2>1
<1>2. Len(s) = 2 => Len(t) = 1 /\ t[1] = s[2]
  OBVIOUS
<1> QED
  BY <1>1, <1>2

LEMMA OneLess ==
  ASSUME NEW S, NEW s \in Seq(S), s # << >>
  PROVE  /\ Head(s) = s[1] /\ Head(s) \in S
         /\ Len(s) = 1 => Tail(s) = << >>
         /\ Len(s) = 2 => Len(Tail(s)) = 1 /\ Tail(s)[1] = s[2]
<1>1. Head(s) = s[1] /\ Head(s) \in S
  OBVIOUS
<1>2. Tail(s) \in Seq(S) /\ Len(Tail(s)) = Len(s) - 1
  OBVIOUS
<1>3. \A i \in 1 .. Len(s) - 1 : Tail(s)[i] = s[i + 1]
  OBVIOUS
<1> QED
  BY <1>1, <1>2, <1>3, Shorter, Zenon

LEMMA AloneInFront ==
  ASSUME NEW m
  PROVE  (<< >> \o <<m>>)[1] = m
OBVIOUS

LEMMA OneMore ==
  ASSUME NEW S, NEW s \in Seq(S), NEW m \in S
  PROVE  /\ s \o << >> = s
         /\ s \o <<m>> # << >>
         /\ s = << >> => Len(s \o <<m>>) = 1 /\ (s \o <<m>>)[1] = m
         /\ Len(s) = 1 =>
              Len(s \o <<m>>) = 2 /\ (s \o <<m>>)[1] = s[1] /\ (s \o <<m>>)[2] = m
OBVIOUS

LEMMA GoToFacts ==
  ASSUME at \in [Side -> Position], NEW p \in Side, NEW pc \in Places,
         NEW got \in Message \cup {NoMessage}, GoTo(p, pc, got)
  PROVE  /\ at' \in [Side -> Position] /\ at'[Other(p)] = at[Other(p)]
         /\ at'[p].pc = pc /\ at'[p].conn = at[p].conn /\ at'[p].got = got
<1> DEFINE there == [at[p] EXCEPT !.pc = pc, !.got = got]
<1>1. /\ there \in Position
      /\ there.pc = pc /\ there.conn = at[p].conn /\ there.got = got
  BY DEF Position
<1>2. at' = [at EXCEPT ![p] = there]
  BY DEF GoTo
<1> HIDE DEF there
<1> QED
  BY <1>1, <1>2, Sides

LEMMA GoesUpFacts ==
  ASSUME at \in [Side -> Position], NEW p \in Side, NEW chan \in Channels,
         GoesUp(p, chan)
  PROVE  /\ at' \in [Side -> Position] /\ at'[Other(p)] = at[Other(p)]
         /\ at'[p].pc = "up" /\ at'[p].conn = at[p].conn /\ at'[p].chan = chan
<1> DEFINE there == [at[p] EXCEPT !.pc = "up", !.got = NoMessage, !.chan = chan]
<1>1. /\ there \in Position
      /\ there.pc = "up" /\ there.conn = at[p].conn /\ there.chan = chan
  BY DEF Position, Places
<1>2. at' = [at EXCEPT ![p] = there]
  BY DEF GoesUp
<1> HIDE DEF there
<1> QED
  BY <1>1, <1>2, Sides

\* Where the sides are after a step of one of them on its connection.
LEMMA Positions ==
  ASSUME TypeOK, Stages, NEW p \in Side, at[p].pc \in OnOne,
         at'[Other(p)] = at[Other(p)], at'[p].pc \in OnOne, at'[p].conn = at[p].conn,
         backlog' = backlog
  PROVE  LET c == at[p].conn IN
         /\ p = Client => /\ ClientAt(c) = at[Client].pc
                          /\ ClientAt(c)' = at'[Client].pc
                          /\ ServerAt(c)' = ServerAt(c)
                          /\ at'[Server] = at[Server]
         /\ p = Server => /\ ServerAt(c) = at[Server].pc
                          /\ ServerAt(c)' = at'[Server].pc
                          /\ ClientAt(c)' = ClientAt(c)
                          /\ at'[Client] = at[Client]
<1> DEFINE c == at[p].conn
<1>1. On(p, c) /\ On(p, c)' /\ (On(Other(p), c)' <=> On(Other(p), c))
  BY DEF On, OnOne
<1>2. p = Server => c \notin ToSet(backlog)
  BY <1>1 DEF Stages, Served, ToSet
<1>3. CASE p = Client
  BY <1>1, <1>3, Sides DEF ClientAt, ServerAt
<1>4. CASE p = Server
  BY <1>1, <1>2, <1>4, Sides DEF ClientAt, ServerAt
<1> QED
  BY <1>3, <1>4, Sides

\* What p may read is a message, and its streams are sequences of them.
LEMMA Streams ==
  ASSUME TypeOK, Stages, NEW p \in Side, at[p].pc \in OnOne
  PROVE  /\ conns[at[p].conn].to[Client] \in Seq(Message)
         /\ conns[at[p].conn].to[Server] \in Seq(Message)
         /\ Inbox(p) = conns[at[p].conn].to[p]
<1>1. conns[at[p].conn] \in Connection
  BY OwnConnection, Before
<1> QED
  BY <1>1, Sides DEF Connection, Inbox, Conn

\* What holds of a step that reads or writes on the connection of p.
LEMMA StepOnConnection ==
  ASSUME TypeOK, Stages, NEW p \in Side, at[p].pc \in OnOne,
         at' \in [Side -> Position], at'[Other(p)] = at[Other(p)],
         at'[p].pc \in OnOne, at'[p].conn = at[p].conn,
         NEW read \in BOOLEAN, NEW replies, Writes(p, conns', read, replies),
         kind' = kind, backlog' = backlog, key' = key,
         trust' \in [Side -> Nat], strikes' \in Nat,
         Stage(at[p].conn)'
  PROVE  TypeOK' /\ Stages'
<1>1. Stages'
  BY MovesOn, Zenon DEF Writes
<1> QED
  BY <1>1, Before, TypedAfter, Zenon DEF Writes

\* The client, having read an introduction, asks its user or sends message 1.
LEMMA ClientProceeds ==
  ASSUME TypeOK, Stages, at[Client].pc \in {"intro", "ask"},
         NEW read \in BOOLEAN, read => Inbox(Client) # << >>,
         read <=> at[Client].pc = "intro",
         NEW replies, Writes(Client, conns', read, replies),
         at' \in [Side -> Position], at'[Server] = at[Server],
         at'[Client].conn = at[Client].conn,
         kind' = kind, backlog' = backlog,
         \/ /\ at'[Client].pc = "ask" /\ replies = << >>
            /\ at'[Client].got.type = "intro"
         \/ at'[Client].pc = "msg2" /\ replies = <<Message1(at[Client].conn)>>
  PROVE  Stage(at[Client].conn)'
<1> DEFINE c == at[Client].conn
           in == conns[c].to[Client]
           out == conns[c].to[Server]
           after == conns'[c].to[Client]
           sent == conns'[c].to[Server]
<1>1. /\ ClientAt(c) = at[Client].pc /\ ClientAt(c)' = at'[Client].pc
      /\ ServerAt(c)' = ServerAt(c)
      /\ Stage(c)
  BY Positions, OwnConnection, Sides DEF OnOne, Waiting
<1>2. /\ in \in Seq(Message) /\ out \in Seq(Message)
      /\ read => in # << >>
      /\ after = IF read THEN Tail(in) ELSE in
      /\ sent = out \o replies
  BY Streams, Sides, Zenon DEF Writes, OnOne, Waiting
<1> HIDE DEF in, out, after, sent
<1>3. ToClient(c)'
  <2>1. CASE read
    <3>1. Len(in) = 1 /\ in # << >>
      BY <1>1, <1>2, <2>1 DEF Stage, ToClient, in
    <3>2. after = << >>
      BY <1>2, <2>1, <3>1, OneLess
    <3>3. /\ ServerAt(c) # "queued"
          /\ ~(ServerAt(c) \in {"intro", "ask"} /\ kind[Server] = "cli")
      BY <1>1, <2>1, <3>1 DEF Stage, ToClient, in
    <3> QED
      BY <1>1, <3>2, <3>3 DEF ToClient, after
  <2>2. CASE ~read
    BY <1>1, <1>2, <2>2 DEF Stage, ToClient, in, after
  <2> QED
    BY <2>1, <2>2
<1>4. ToServer(c)'
  <2>1. CASE at'[Client].pc = "ask" /\ replies = << >>
    <3>1. sent = out
      BY <1>2, <2>1, OneMore
    <3> QED
      BY <1>1, <2>1, <3>1 DEF Stage, ToServer, out, sent
  <2>2. CASE at'[Client].pc = "msg2" /\ replies = <<Message1(c)>>
    <3>1. Message1(c) \in Message
      BY MessageTypes, Typed, OwnConnection, Sides DEF OnOne, Waiting
    <3>2. /\ out = << >> => Len(sent) = 1 /\ sent[1] = Message1(c)
          /\ Len(out) = 1 => Len(sent) = 2 /\ sent[1] = out[1] /\ sent[2] = Message1(c)
          /\ sent # << >>
      BY <1>2, <2>2, <3>1, OneMore
    <3> QED
      BY <1>1, <2>2, <3>2 DEF Stage, ToServer, out, sent, Message1, Epk
  <2> QED
    BY <2>1, <2>2
<1>5. Derived(c)'
  BY <1>1 DEF Stage, Derived
<1> QED
  BY <1>3, <1>4, <1>5 DEF Stage

\* The server, having read an introduction, asks its user or waits for
\* message 1.
LEMMA ServerProceeds ==
  ASSUME TypeOK, Stages, at[Server].pc \in {"intro", "ask"},
         NEW read \in BOOLEAN, read => Inbox(Server) # << >>,
         read <=> at[Server].pc = "intro",
         NEW replies, Writes(Server, conns', read, replies),
         at' \in [Side -> Position], at'[Client] = at[Client],
         at'[Server].conn = at[Server].conn,
         kind' = kind, backlog' = backlog,
         \/ /\ at'[Server].pc = "ask" /\ replies = << >>
            /\ at'[Server].got.type = "intro"
         \/ at'[Server].pc = "msg1" /\ replies = Replies(Server)
  PROVE  Stage(at[Server].conn)'
<1> DEFINE c == at[Server].conn
           in == conns[c].to[Server]
           out == conns[c].to[Client]
           after == conns'[c].to[Server]
           sent == conns'[c].to[Client]
<1>1. /\ ServerAt(c) = at[Server].pc /\ ServerAt(c)' = at'[Server].pc
      /\ ClientAt(c)' = ClientAt(c) /\ at'[Client] = at[Client]
      /\ Stage(c)
  BY Positions, OwnConnection, Sides DEF OnOne, Waiting
<1>2. /\ in \in Seq(Message) /\ out \in Seq(Message)
      /\ read => in # << >>
      /\ after = IF read THEN Tail(in) ELSE in
      /\ sent = out \o replies
  BY Streams, Sides, Zenon DEF Writes, OnOne, Waiting
<1> HIDE DEF in, out, after, sent
<1>3. ToClient(c)'
  <2>1. CASE replies = << >>
    <3>1. sent = out
      BY <1>2, <2>1, OneMore
    <3>2. at'[Server].pc = "ask" \/ kind[Server] # "cli"
      BY <2>1, Sides DEF Replies
    <3> QED
      BY <1>1, <3>1, <3>2 DEF Stage, ToClient, out, sent
  <2>2. CASE replies # << >>
    <3>1. /\ replies = <<Intro(Server)>> /\ kind[Server] = "cli"
          /\ at'[Server].pc = "msg1"
      BY <2>2, Sides DEF Replies
    <3>2. ClientAt(c) = "gone" \/ (ClientAt(c) = "intro" /\ out = << >>)
      BY <1>1, <3>1 DEF Stage, ToClient, out
    <3>3. Intro(Server) \in Message /\ Intro(Server).type = "intro"
      BY MessageTypes, Typed, Sides DEF Intro
    <3>4. ClientAt(c) = "intro" => Len(sent) = 1 /\ sent[1].type = "intro"
      BY <1>2, <3>1, <3>2, <3>3, OneMore
    <3> QED
      BY <1>1, <3>1, <3>2, <3>4 DEF ToClient, sent
  <2> QED
    BY <2>1, <2>2
<1>4. ToServer(c)'
  <2>1. CASE read
    <3>1. /\ in # << >>
          /\ \/ Len(in) = 1
             \/ Len(in) = 2 /\ in[2] = Message1(c) /\ ClientAt(c) \notin {"intro", "ask"}
      BY <1>1, <1>2, <2>1 DEF Stage, ToServer, in
    <3>2. \/ after = << >>
          \/ Len(after) = 1 /\ after[1] = Message1(c) /\ ClientAt(c) \notin {"intro", "ask"}
      BY <1>2, <2>1, <3>1, OneLess
    <3> QED
      BY <1>1, <3>2 DEF ToServer, after, Message1, Epk
  <2>2. CASE ~read
    BY <1>1, <1>2, <2>2 DEF Stage, ToServer, in, after, Message1, Epk
  <2> QED
    BY <2>1, <2>2
<1>5. Derived(c)'
  BY <1>1 DEF Stage, Derived
<1> QED
  BY <1>3, <1>4, <1>5 DEF Stage

\* The introduction at the head of a stream, and the one that is asked about.
LEMMA Introduced ==
  ASSUME TypeOK, Stages, NEW p \in Side
  PROVE  /\ at[p].pc = "intro" /\ Inbox(p) # << >> =>
              Head(Inbox(p)) \in Message /\ Head(Inbox(p)).type = "intro"
         /\ at[p].pc = "ask" => at[p].got.type = "intro" /\ at[p].got.identity \in Nat
<1> DEFINE c == at[p].conn
<1>1. ASSUME at[p].pc \in {"intro", "ask"}
      PROVE  /\ Stage(c)
             /\ p = Client => ClientAt(c) = at[p].pc
             /\ p = Server => ServerAt(c) = at[p].pc
  BY <1>1, OwnConnection, WhereItIs DEF OnOne, Waiting
<1>2. ASSUME at[p].pc = "intro", Inbox(p) # << >>
      PROVE  Head(Inbox(p)) \in Message /\ Head(Inbox(p)).type = "intro"
  <2>1. Inbox(p) = conns[c].to[p] /\ Inbox(p) \in Seq(Message)
    BY <1>2, Streams, Sides DEF OnOne, Waiting
  <2>2. Head(Inbox(p)) = Inbox(p)[1] /\ Head(Inbox(p)) \in Message
    BY <1>2, <2>1, OneLess
  <2>3. CASE p = Client
    BY <1>1, <1>2, <2>1, <2>2, <2>3 DEF Stage, ToClient
  <2>4. CASE p = Server
    BY <1>1, <1>2, <2>1, <2>2, <2>4 DEF Stage, ToServer
  <2> QED
    BY <2>2, <2>3, <2>4, Sides
<1>3. ASSUME at[p].pc = "ask"
      PROVE  at[p].got.type = "intro" /\ at[p].got.identity \in Nat
  <2>1. at[p].got.type = "intro"
    BY <1>1, <1>3, Sides DEF Stage, Derived
  <2>2. at[p].got \in Message \cup {NoMessage}
    BY Before DEF Position
  <2> QED
    BY <2>1, <2>2 DEF Message, NoMessage
<1> QED
  BY <1>2, <1>3

LEMMA RepliesTypes ==
  ASSUME TypeOK, Stages, NEW p \in Side, at[p].pc \in OnOne
  PROVE  Replies(p) \in Seq(Message) /\ << >> \in Seq(Message)
<1>1. Message1(at[p].conn) \in Message /\ Intro(p) \in Message
  BY MessageTypes, OwnConnection, Typed
<1> QED
  BY <1>1 DEF Replies

LEMMA ReadIntroKeeps ==
  ASSUME TypeOK, Stages, NEW p \in Side, ReadIntro(p)
  PROVE  TypeOK' /\ Stages'
<1> DEFINE intro == Head(Inbox(p))
<1>1. /\ at[p].pc = "intro" /\ Inbox(p) # << >>
      /\ at[p].pc \in OnOne
      /\ UNCHANGED <<files, backlog>>
  BY DEF ReadIntro, OnOne, Waiting
<1>2. intro \in Message /\ intro.type = "intro"
  BY <1>1, Introduced
<1>3. /\ Replies(p) \in Seq(Message) /\ << >> \in Seq(Message)
      /\ at[p].conn \in DOMAIN conns
  BY <1>1, RepliesTypes, OwnConnection
<1>4. NextWait(p) \in {"msg1", "msg2"}
  BY DEF NextWait
<1>5. ASSUME GoTo(p, "ask", intro), conns' = Exchanged(p, << >>), UNCHANGED strikes
      PROVE  TypeOK' /\ Stages'
  <2>1. Writes(p, conns', TRUE, << >>)
    BY <1>1, <1>3, <1>5, Before, ExchangedFacts
  <2>2. /\ at' \in [Side -> Position] /\ at'[Other(p)] = at[Other(p)]
        /\ at'[p].pc = "ask" /\ at'[p].conn = at[p].conn /\ at'[p].got = intro
    BY <1>2, <1>5, Before, GoToFacts DEF Places
  <2> HIDE DEF intro
  <2>3. CASE p = Client
    <3>1. Stage(at[Client].conn)'
      BY <1>1, <1>2, <2>1, <2>2, <2>3, Sides, ClientProceeds DEF files
    <3> QED
      BY <1>1, <1>5, <2>1, <2>2, <2>3, <3>1, StepOnConnection, Typed DEF files, OnOne
  <2>4. CASE p = Server
    <3>1. Stage(at[Server].conn)'
      BY <1>1, <1>2, <2>1, <2>2, <2>4, Sides, ServerProceeds DEF files
    <3> QED
      BY <1>1, <1>5, <2>1, <2>2, <2>4, <3>1, StepOnConnection, Typed DEF files, OnOne
  <2> QED
    BY <2>3, <2>4, Sides
<1>6. ASSUME GoTo(p, NextWait(p), NoMessage), conns' = Exchanged(p, Replies(p)),
             UNCHANGED strikes
      PROVE  TypeOK' /\ Stages'
  <2>1. Writes(p, conns', TRUE, Replies(p))
    BY <1>1, <1>3, <1>6, Before, ExchangedFacts
  <2>2. /\ at' \in [Side -> Position] /\ at'[Other(p)] = at[Other(p)]
        /\ at'[p].pc = NextWait(p) /\ at'[p].conn = at[p].conn
    BY <1>4, <1>6, Before, GoToFacts DEF Places, Waiting
  <2>3. CASE p = Client
    <3>1. Stage(at[Client].conn)'
      BY <1>1, <2>1, <2>2, <2>3, Sides, ClientProceeds DEF files, Replies, NextWait
    <3> QED
      BY <1>1, <1>4, <1>6, <2>1, <2>2, <2>3, <3>1, StepOnConnection, Typed
      DEF files, OnOne, Waiting
  <2>4. CASE p = Server
    <3>1. Stage(at[Server].conn)'
      BY <1>1, <2>1, <2>2, <2>4, Sides, ServerProceeds DEF files, NextWait
    <3> QED
      BY <1>1, <1>4, <1>6, <2>1, <2>2, <2>4, <3>1, StepOnConnection, Typed
      DEF files, OnOne, Waiting
  <2> QED
    BY <2>3, <2>4, Sides
<1>7. ASSUME HandshakeError(p, FALSE, FALSE)
      PROVE  TypeOK' /\ Stages'
  BY <1>1, <1>7, HandshakeErrorKeeps
<1> QED
  BY <1>5, <1>6, <1>7 DEF ReadIntro

LEMMA TrustKeeps ==
  ASSUME TypeOK, Stages, NEW p \in Side, Trust(p)
  PROVE  TypeOK' /\ Stages'
<1>1. at[p].pc = "ask" /\ at[p].pc \in OnOne
  BY DEF Trust, OnOne
<1>2. trust' \in [Side -> Nat]
  BY <1>1, Introduced, Typed DEF Trust
<1>3. Writes(p, conns', FALSE, Replies(p))
  BY <1>1, Before, RepliesTypes, OwnConnection, SentFacts DEF Trust
<1>4. NextWait(p) \in {"msg1", "msg2"}
  BY DEF NextWait
<1>5. /\ at' \in [Side -> Position] /\ at'[Other(p)] = at[Other(p)]
      /\ at'[p].pc = NextWait(p) /\ at'[p].conn = at[p].conn
  BY <1>4, Before, GoToFacts DEF Trust, Places, Waiting
<1>6. kind' = kind /\ backlog' = backlog /\ key' = key /\ strikes' \in Nat
  BY Typed DEF Trust
<1>7. CASE p = Client
  <2>1. Stage(at[Client].conn)'
    BY <1>1, <1>3, <1>5, <1>6, <1>7, Sides, ClientProceeds DEF Replies, NextWait
  <2> QED
    BY <1>1, <1>2, <1>3, <1>4, <1>5, <1>6, <1>7, <2>1, StepOnConnection DEF OnOne, Waiting
<1>8. CASE p = Server
  <2>1. Stage(at[Server].conn)'
    BY <1>1, <1>3, <1>5, <1>6, <1>8, Sides, ServerProceeds DEF NextWait
  <2> QED
    BY <1>1, <1>2, <1>3, <1>4, <1>5, <1>6, <1>8, <2>1, StepOnConnection DEF OnOne, Waiting
<1> QED
  BY <1>7, <1>8, Sides

LEMMA ReadMessage1Keeps ==
  ASSUME TypeOK, Stages, ReadMessage1
  PROVE  TypeOK' /\ Stages'
<1> DEFINE c == at[Server].conn
           msg1 == Head(Inbox(Server))
           reply == Message2(c, msg1)
           in == conns[c].to[Server]
           out == conns[c].to[Client]
           after == conns'[c].to[Server]
           sent == conns'[c].to[Client]
<1>1. /\ at[Server].pc = "msg1" /\ at[Server].pc \in OnOne
      /\ Server \in Side /\ Other(Server) = Client
      /\ Inbox(Server) # << >>
      /\ GoTo(Server, "msg3", msg1)
      /\ conns' = Exchanged(Server, <<reply>>)
      /\ UNCHANGED <<files, backlog, strikes>>
  BY Sides DEF ReadMessage1, OnOne, Waiting
<1>2. /\ ServerAt(c) = "msg1" /\ Stage(c)
      /\ c \in DOMAIN conns /\ c \in Nat
      /\ in \in Seq(Message) /\ out \in Seq(Message) /\ in = Inbox(Server)
  BY <1>1, WhereItIs, OwnConnection, Streams
<1>3. /\ Len(in) = 1 /\ in[1] = Message1(c) /\ ClientAt(c) \notin {"intro", "ask"}
      /\ in # << >>
  BY <1>1, <1>2 DEF Stage, ToServer
<1>4. msg1 = Message1(c) /\ Tail(in) = << >>
  BY <1>2, <1>3, OneLess
<1>5. reply \in Message /\ reply.epk = Epk(Server, c) /\ msg1 \in Message
  BY <1>2, <1>4, MessageTypes, Typed, EpkType DEF Message1, Message2
<1> HIDE DEF msg1, reply
<1>6. Writes(Server, conns', TRUE, <<reply>>)
  <2>1. <<reply>> \in Seq(Message)
    BY <1>5
  <2> QED
    BY <1>1, <1>2, <2>1, Before, ExchangedFacts
<1>7. /\ at' \in [Side -> Position] /\ at'[Client] = at[Client]
      /\ at'[Server].pc = "msg3" /\ at'[Server].conn = c /\ at'[Server].got = msg1
  BY <1>1, <1>5, Before, GoToFacts DEF Places, Waiting
<1>8. /\ ServerAt(c)' = "msg3" /\ ClientAt(c)' = ClientAt(c)
  BY <1>1, <1>7, Positions, Sides DEF OnOne, Waiting
<1>9. after = << >> /\ sent = out \o <<reply>>
  BY <1>1, <1>4, <1>6, Zenon DEF Writes
<1> HIDE DEF in, out, after, sent
<1>10. ToClient(c)'
  <2>1. ClientAt(c) \in {"ask", "msg2"} => out = << >>
    BY <1>2 DEF Stage, ToClient, out
  <2>2. out = << >> => Len(sent) = 1 /\ sent[1] = reply
    BY <1>2, <1>5, <1>9, OneMore
  <2> QED
    BY <1>3, <1>5, <1>7, <1>8, <2>1, <2>2 DEF ToClient, sent, Epk
<1>11. ToServer(c)'
  BY <1>3, <1>8 DEF ToServer
<1>12. Derived(c)'
  BY <1>2, <1>4, <1>7, <1>8 DEF Stage, Derived, Message1, Epk
<1>13. Stage(c)'
  BY <1>10, <1>11, <1>12 DEF Stage
<1> QED
  BY <1>1, <1>6, <1>7, <1>13, StepOnConnection, Typed DEF files, OnOne, Waiting

LEMMA ReadMessage2Keeps ==
  ASSUME TypeOK, Stages, ReadMessage2
  PROVE  TypeOK' /\ Stages'
<1> DEFINE c == at[Client].conn
           msg2 == Head(Inbox(Client))
           reply == Message3(c, msg2)
           chan == DeriveChannel(Epk(Client, c), msg2.epk, TRUE)
           in == conns[c].to[Client]
<1>1. /\ at[Client].pc = "msg2" /\ at[Client].pc \in OnOne
      /\ Client \in Side /\ Other(Client) = Server
      /\ Inbox(Client) # << >>
      /\ UNCHANGED <<files, backlog>>
  BY Sides DEF ReadMessage2, OnOne, Waiting
<1>2. /\ ClientAt(c) = "msg2" /\ Stage(c)
      /\ c \in DOMAIN conns /\ c \in Nat
      /\ in \in Seq(Message) /\ in = Inbox(Client)
  BY <1>1, WhereItIs, OwnConnection, Streams
<1>3. /\ Len(in) = 1 /\ in[1].epk = Epk(Server, c) /\ in # << >>
      /\ ServerAt(c) \notin {"queued", "intro", "ask", "msg1"}
  BY <1>1, <1>2 DEF Stage, ToClient
<1>4. msg2.epk = Epk(Server, c)
  BY <1>2, <1>3, OneLess
<1>5. reply \in Message /\ chan \in Channels
  BY <1>2, <1>4, MessageTypes, Typed, EpkType, ChannelTypes
<1> HIDE DEF in, reply
<1>6. ASSUME GoesUp(Client, chan), conns' = Exchanged(Client, <<reply>>), UNCHANGED strikes
      PROVE  TypeOK' /\ Stages'
  <2>1. chan = DeriveChannel(Epk(Client, c), Epk(Server, c), TRUE)
    BY <1>4
  <2> HIDE DEF chan, msg2
  <2>2. Writes(Client, conns', TRUE, <<reply>>)
    <3>1. <<reply>> \in Seq(Message)
      BY <1>5
    <3> QED
      BY <1>1, <1>2, <1>6, <3>1, Before, ExchangedFacts
  <2>3. /\ at' \in [Side -> Position] /\ at'[Server] = at[Server]
        /\ at'[Client].pc = "up" /\ at'[Client].conn = c /\ at'[Client].chan = chan
    BY <1>1, <1>5, <1>6, Before, GoesUpFacts
  <2>4. ClientAt(c)' = "up" /\ ServerAt(c)' = ServerAt(c)
    BY <1>1, <2>3, Positions, Sides DEF OnOne
  <2>5. ToClient(c)'
    BY <1>1, <1>3, <2>4 DEF ToClient
  <2>6. ToServer(c)'
    BY <1>3, <2>4 DEF ToServer
  <2>7. Derived(c)'
    BY <1>2, <2>1, <2>3, <2>4 DEF Stage, Derived, DeriveChannel, Message1, Epk
  <2>8. Stage(c)'
    BY <2>5, <2>6, <2>7 DEF Stage
  <2> QED
    BY <1>1, <1>6, <2>2, <2>3, <2>8, StepOnConnection, Typed DEF files, OnOne
<1>7. ASSUME HandshakeError(Client, FALSE, TRUE)
      PROVE  TypeOK' /\ Stages'
  BY <1>1, <1>7, HandshakeErrorKeeps
<1> QED
  BY <1>6, <1>7 DEF ReadMessage2, reply

LEMMA ReadMessage3Keeps ==
  ASSUME TypeOK, Stages, ReadMessage3
  PROVE  TypeOK' /\ Stages'
<1> DEFINE c == at[Server].conn
           msg1 == at[Server].got
           chan == DeriveChannel(msg1.epk, Epk(Server, c), FALSE)
<1>1. /\ at[Server].pc = "msg3" /\ at[Server].pc \in OnOne
      /\ Server \in Side /\ Other(Server) = Client
      /\ Inbox(Server) # << >>
      /\ UNCHANGED <<files, backlog>>
  BY Sides DEF ReadMessage3, OnOne, Waiting
<1>2. /\ ServerAt(c) = "msg3" /\ Stage(c)
      /\ c \in DOMAIN conns /\ c \in Nat
      /\ conns[c].to[Client] \in Seq(Message)
  BY <1>1, WhereItIs, OwnConnection, Streams
<1>3. msg1.epk = Epk(Client, c) /\ ClientAt(c) \notin {"intro", "ask"}
  BY <1>2 DEF Stage, Derived, ToServer, Message1
<1>4. chan \in Channels
  BY <1>2, <1>3, EpkType, ChannelTypes
<1>5. ASSUME GoesUp(Server, chan), conns' = Exchanged(Server, << >>), strikes' = 0
      PROVE  TypeOK' /\ Stages'
  <2>1. chan = DeriveChannel(Epk(Client, c), Epk(Server, c), FALSE)
    BY <1>3
  <2> HIDE DEF chan
  <2>2. Writes(Server, conns', TRUE, << >>)
    <3>1. << >> \in Seq(Message)
      OBVIOUS
    <3> QED
      BY <1>1, <1>2, <1>5, <3>1, Before, ExchangedFacts
  <2>3. /\ at' \in [Side -> Position] /\ at'[Client] = at[Client]
        /\ at'[Server].pc = "up" /\ at'[Server].conn = c /\ at'[Server].chan = chan
    BY <1>1, <1>4, <1>5, Before, GoesUpFacts
  <2>4. ServerAt(c)' = "up" /\ ClientAt(c)' = ClientAt(c)
    BY <1>1, <2>3, Positions, Sides DEF OnOne
  <2>5. conns'[c].to[Client] = conns[c].to[Client]
    BY <1>1, <1>2, <2>2 DEF Writes
  <2>6. ToClient(c)'
    BY <1>2, <2>3, <2>4, <2>5 DEF Stage, ToClient, Epk
  <2>7. ToServer(c)'
    BY <1>3, <2>4 DEF ToServer
  <2>8. Derived(c)'
    BY <1>2, <2>1, <2>3, <2>4 DEF Stage, Derived, DeriveChannel, Epk
  <2>9. Stage(c)'
    BY <2>6, <2>7, <2>8 DEF Stage
  <2> QED
    BY <1>1, <1>5, <2>2, <2>3, <2>9, StepOnConnection, Typed DEF files, OnOne
<1>6. ASSUME HandshakeError(Server, FALSE, TRUE)
      PROVE  TypeOK' /\ Stages'
  BY <1>1, <1>6, HandshakeErrorKeeps
<1> QED
  BY <1>5, <1>6 DEF ReadMessage3

-----------------------------------------------------------------------------
(* What is pinned, while the handshake goes on.                            *)

\* The server's steps elsewhere do not disturb what the client has pinned.
LEMMA ClientPinsKept ==
  ASSUME TypeOK, Stages, ClientPins,
         at'[Client] = at[Client], key' = key, trust'[Client] = trust[Client],
         at[Client].pc \in {"intro", "ask", "msg2"} =>
           conns'[at[Client].conn].to[Client] = conns[at[Client].conn].to[Client],
         On(Server, at[Client].conn)' => On(Server, at[Client].conn)
  PROVE  ClientPins'
<1> PICK c : c = at[Client].conn
  OBVIOUS
<1>1. at'[Client].conn = c /\ (On(Server, c)' => On(Server, c))
  BY DEF On
<1> QED
  BY <1>1 DEF ClientPins, Epk, On

\* Nor the client's steps what the server has pinned.
LEMMA ServerPinsKept ==
  ASSUME TypeOK, Stages, ServerPins,
         at'[Server] = at[Server], key' = key, trust'[Server] = trust[Server],
         at[Server].pc = "intro" =>
           conns'[at[Server].conn].to[Server][1] = conns[at[Server].conn].to[Server][1],
         at[Server].pc = "msg3" =>
           conns'[at[Server].conn].to[Server] = conns[at[Server].conn].to[Server],
         On(Client, at[Server].conn)' =>
           /\ On(Client, at[Server].conn)
           /\ at[Client].pc = "up" => at'[Client].pc = "up"
  PROVE  ServerPins'
<1> PICK c : c = at[Server].conn
  OBVIOUS
<1>1. /\ at'[Server].conn = c
      /\ On(Client, c)' => On(Client, c) /\ (at[Client].pc = "up" => at'[Client].pc = "up")
  BY DEF On
<1> QED
  BY <1>1 DEF ServerPins, Announced, Epk, On

LEMMA FirstStays ==
  ASSUME NEW S, NEW s \in Seq(S), NEW t \in Seq(S), s # << >>
  PROVE  (s \o t)[1] = s[1]
OBVIOUS

\* What the client writes leaves the introductions in their places.
LEMMA ClientWrites ==
  ASSUME TypeOK, Stages, at[Client].pc \in OnOne,
         NEW read \in BOOLEAN, NEW replies \in Seq(Message),
         Writes(Client, conns', read, replies)
  PROVE  /\ SameQueue
         /\ at[Server].pc = "intro" =>
              conns'[at[Server].conn].to[Server][1] = conns[at[Server].conn].to[Server][1]
<1> DEFINE c == at[Client].conn
<1>1. ASSUME NEW n \in DOMAIN conns, Stage(n), ServerAt(n) \in {"queued", "intro"}
      PROVE  conns'[n].to[Server][1] = conns[n].to[Server][1]
  <2>1. CASE n = c
    <3>1. conns'[n].to[Server] = conns[n].to[Server] \o replies
      BY <2>1, Sides, Zenon DEF Writes
    <3>2. conns[n].to[Server] # << >>
      BY <1>1 DEF Stage, ToServer
    <3>3. conns[n].to[Server] \in Seq(Message)
      BY <2>1, Streams, Sides
    <3> QED
      BY <3>1, <3>2, <3>3, FirstStays
  <2>2. CASE n # c
    BY <1>1, <2>2, Zenon DEF Writes
  <2> QED
    BY <2>1, <2>2
<1>2. SameQueue
  BY <1>1, QueuedExist DEF SameQueue
<1>3. at[Server].pc = "intro" =>
        conns'[at[Server].conn].to[Server][1] = conns[at[Server].conn].to[Server][1]
  BY <1>1, OwnConnection, WhereItIs, Sides DEF OnOne, Waiting
<1> QED
  BY <1>2, <1>3

LEMMA QueueStays ==
  ASSUME backlog' = backlog, backlog \in Seq(Nat)
  PROVE  Shift(0)
BY DEF Shift

\* A step of the client on its connection.
LEMMA ClientStepPins ==
  ASSUME TypeOK, Stages, Pins, at[Client].pc \in OnOne,
         at'[Server] = at[Server], at'[Client].pc \in OnOne,
         at'[Client].conn = at[Client].conn,
         NEW read \in BOOLEAN, NEW replies \in Seq(Message),
         Writes(Client, conns', read, replies),
         key' = key, trust'[Server] = trust[Server], backlog' = backlog,
         ClientPins',
         at[Client].pc = "up" => at'[Client].pc = "up",
         (at[Server].pc = "msg3" /\ at[Server].conn = at[Client].conn) =>
           /\ at'[Client].pc = "up" /\ trust[Server] # NoKey
           /\ conns'[at[Client].conn].to[Server][1].sig =
                Sign(trust[Server], Transcript(Epk(Client, at[Client].conn),
                                               Epk(Server, at[Client].conn)))
  PROVE  Pins'
<1>1. KeysExist'
  BY DEF Pins, KeysExist
<1>2. /\ SameQueue
      /\ at[Server].pc = "intro" =>
           conns'[at[Server].conn].to[Server][1] = conns[at[Server].conn].to[Server][1]
  BY ClientWrites
<1>3. Shift(0) /\ \A n : On(Client, n)' <=> On(Client, n)
  BY QueueStays, Typed DEF On, OnOne
<1>4. QueuePins'
  BY <1>2, <1>3, QueueKept DEF Pins
<1>5. \A identity : NotBefore(identity) => NotBefore(identity)'
  BY <1>2, <1>3, NotBeforeKept
<1>6. LookPins'
  <2>1. CASE at[Server].pc = "intro"
    <3>1. PICK m : m = Announced(at[Server].conn)
      OBVIOUS
    <3>2. Announced(at[Server].conn)' = m
      BY <1>2, <2>1, <3>1 DEF Announced
    <3>3. NotBefore(m)'
      BY <1>5, <2>1, <3>1 DEF Pins, LookPins
    <3> QED
      BY <2>1, <3>2, <3>3 DEF LookPins
  <2>2. CASE at[Server].pc = "ask"
    <3>1. PICK m : m = at[Server].got.identity
      OBVIOUS
    <3>2. NotBefore(m)'
      BY <1>5, <2>2, <3>1 DEF Pins, LookPins
    <3> QED
      BY <2>2, <3>1, <3>2 DEF LookPins
  <2> QED
    BY <2>1, <2>2 DEF LookPins
<1>7. ServerPins'
  <2>1. CASE at[Server].pc = "msg3" /\ at[Server].conn = at[Client].conn
    <3> PICK c : c = at[Client].conn
      OBVIOUS
    <3>1. (On(Client, c) => trust[Server] = key[Client]) /\ at'[Server].conn = c
      BY <2>1 DEF Pins, ServerPins
    <3> QED
      BY <1>3, <2>1, <3>1 DEF ServerPins, Epk, On
  <2>2. CASE ~(at[Server].pc = "msg3" /\ at[Server].conn = at[Client].conn)
    <3>1. at[Server].pc = "msg3" =>
            conns'[at[Server].conn].to[Server] = conns[at[Server].conn].to[Server]
      BY <2>2, OwnConnection, Sides, Zenon DEF Writes, OnOne, Waiting
    <3>2. On(Client, at[Server].conn)' =>
            /\ On(Client, at[Server].conn)
            /\ at[Client].pc = "up" => at'[Client].pc = "up"
      BY <1>3 DEF On
    <3> QED
      BY <1>2, <3>1, <3>2, ServerPinsKept DEF Pins
  <2> QED
    BY <2>1, <2>2
<1> QED
  BY <1>1, <1>4, <1>6, <1>7 DEF Pins

\* A step of the server on its connection.
LEMMA ServerStepPins ==
  ASSUME TypeOK, Stages, Pins, at[Server].pc \in OnOne,
         at'[Client] = at[Client], at'[Server].pc \in OnOne,
         at'[Server].conn = at[Server].conn,
         NEW read \in BOOLEAN, NEW replies,
         Writes(Server, conns', read, replies),
         key' = key, backlog' = backlog, trust'[Client] = trust[Client],
         trust'[Server] = trust[Server] \/ NotBefore(trust'[Server]),
         ServerPins', LookPins',
         \/ replies = << >>
         \/ at[Client].conn = at[Server].conn => ClientPins'
  PROVE  Pins'
<1>1. KeysExist'
  BY DEF Pins, KeysExist
<1>2. SameQueue
  <2>1. ASSUME NEW i \in DOMAIN backlog PROVE backlog[i] # at[Server].conn
    <3>1. ~On(Server, backlog[i]) /\ On(Server, at[Server].conn)
      BY OwnConnection, Sides DEF Stages, Served
    <3> QED
      BY <3>1
  <2> QED
    BY <2>1, QueuedExist, Zenon DEF SameQueue, Writes
<1>3. Shift(0) /\ (\A n : On(Client, n)' <=> On(Client, n))
      /\ (\A n : On(Server, n)' <=> On(Server, n))
  BY QueueStays, Typed DEF On, OnOne
<1>4. QueuePins'
  BY <1>2, <1>3, QueueKept DEF Pins
<1>5. ClientPins'
  <2>1. CASE at[Client].conn = at[Server].conn /\ replies # << >>
    BY <2>1
  <2>2. CASE at[Client].conn = at[Server].conn /\ replies = << >>
    <3>1. conns[at[Server].conn].to[Client] \in Seq(Message)
      BY Streams, Sides
    <3>2. conns'[at[Server].conn].to[Client] = conns[at[Server].conn].to[Client]
      BY <2>2, <3>1, OneMore, Sides DEF Writes
    <3>3. On(Server, at[Client].conn)' => On(Server, at[Client].conn)
      BY <1>3 DEF On
    <3> QED
      BY <2>2, <3>2, <3>3, ClientPinsKept DEF Pins
  <2>3. CASE at[Client].conn # at[Server].conn
    <3>1. at[Client].pc \in {"intro", "ask", "msg2"} =>
            conns'[at[Client].conn].to[Client] = conns[at[Client].conn].to[Client]
      BY <2>3, OwnConnection, Sides, Zenon DEF Writes, OnOne, Waiting
    <3>2. On(Server, at[Client].conn)' => On(Server, at[Client].conn)
      BY <1>3 DEF On
    <3> QED
      BY <3>1, <3>2, ClientPinsKept DEF Pins
  <2> QED
    BY <2>1, <2>2, <2>3
<1> QED
  BY <1>1, <1>4, <1>5 DEF Pins

\* server.py introduces itself, on a connection that the client is on as well.
LEMMA ServerIntroduces ==
  ASSUME TypeOK, Stages, at[Server].pc \in {"intro", "ask"}, kind[Server] = "cli",
         at[Client].conn = at[Server].conn, at'[Client] = at[Client], key' = key,
         conns'[at[Server].conn].to[Client] =
           conns[at[Server].conn].to[Client] \o <<Intro(Server)>>
  PROVE  ClientPins'
<1> PICK c : c = at[Server].conn
  OBVIOUS
<1>1. Stage(c) /\ ServerAt(c) \in {"intro", "ask"}
  BY OwnConnection, WhereItIs, Sides DEF OnOne, Waiting
<1>2. ClientAt(c) = "gone" \/ (ClientAt(c) = "intro" /\ conns[c].to[Client] = << >>)
  BY <1>1 DEF Stage, ToClient
<1>3. at[Client].pc \in OnOne => at[Client].pc = "intro" /\ conns[c].to[Client] = << >>
  <2>1. at[Client].pc \in OnOne => On(Client, c)
    BY Zenon DEF On, OnOne
  <2> QED
    BY <1>2, <2>1, WhereItIs, Zenon DEF OnOne, Waiting
<1>4. CASE at[Client].pc = "intro"
  <2> PICK m : m = Intro(Server)
    BY Zenon
  <2>1. m.identity = key[Server]
    BY Zenon DEF Intro
  <2>2. conns'[c].to[Client] = << >> \o <<m>>
    BY <1>3, <1>4, Zenon DEF OnOne, Waiting
  <2>3. (<< >> \o <<m>>)[1] = m
    BY AloneInFront, Zenon
  <2> QED
    BY <1>4, <2>1, <2>2, <2>3, Zenon DEF ClientPins
<1>5. CASE at[Client].pc # "intro"
  BY <1>3, <1>5 DEF ClientPins, OnOne, Waiting
<1> QED
  BY <1>4, <1>5

LEMMA ReadIntroPins ==
  ASSUME TypeOK, Stages, NEW p \in Side, ReadIntro(p)
  PROVE  PinsKept
<1> SUFFICES ASSUME Pins PROVE Pins'
  BY DEF PinsKept
<1>1. /\ at[p].pc = "intro" /\ Inbox(p) # << >> /\ at[p].pc \in OnOne
      /\ key' = key /\ trust' = trust /\ backlog' = backlog
  BY DEF ReadIntro, OnOne, Waiting, files
<1> PICK c : c = at[p].conn
  OBVIOUS
<1> PICK intro : intro = Head(Inbox(p))
  OBVIOUS
<1>2. /\ intro \in Message /\ intro.type = "intro"
      /\ c \in DOMAIN conns /\ Stage(c) /\ On(p, c)
      /\ Inbox(p) = conns[c].to[p] /\ Inbox(p) \in Seq(Message) /\ intro = conns[c].to[p][1]
  BY <1>1, Introduced, OwnConnection, Streams, OneLess, Sides
<1>3. /\ Replies(p) \in Seq(Message) /\ << >> \in Seq(Message)
  BY <1>1, RepliesTypes
<1>4. CASE HandshakeError(p, FALSE, FALSE)
  BY <1>1, <1>4, HandshakeErrorKeeps DEF ReadIntro, PinsKept
<1>5. CASE ~HandshakeError(p, FALSE, FALSE)
  <2>1. PICK pc \in {"ask", "msg1", "msg2"}, got \in Message \cup {NoMessage},
             replies \in Seq(Message) :
          /\ GoTo(p, pc, got)
          /\ conns' = Exchanged(p, replies)
          /\ pc = "ask" => got = intro /\ replies = << >>
          /\ pc # "ask" => /\ pc = NextWait(p) /\ replies = Replies(p)
                           /\ trust[p] = intro.identity
    <3>1. CASE GoTo(p, "ask", intro) /\ conns' = Exchanged(p, << >>)
      BY <1>2, <1>3, <3>1
    <3>2. CASE /\ trust[p] = intro.identity
               /\ GoTo(p, NextWait(p), NoMessage)
               /\ conns' = Exchanged(p, Replies(p))
      BY <1>3, <3>2 DEF NextWait
    <3> QED
      BY <1>2, <1>5, <3>1, <3>2, Zenon DEF ReadIntro
  <2>2. /\ at'[Other(p)] = at[Other(p)]
        /\ at'[p].pc = pc /\ at'[p].conn = c /\ at'[p].got = got
    BY <2>1, Before, GoToFacts DEF Places, Waiting
  <2>3. Writes(p, conns', TRUE, replies)
    BY <1>1, <1>2, <2>1, Before, ExchangedFacts
  <2>4. pc \in OnOne
    BY <2>1 DEF OnOne, Waiting
  <2>5. CASE p = Client
    <3>1. /\ ClientAt(c) = "intro" /\ conns[c].to[Client] # << >>
          /\ c = at[Client].conn /\ ClientPins /\ at[Client].pc = "intro"
      BY <1>1, <1>2, <2>5, WhereItIs DEF Pins
    <3>2. Len(conns[c].to[Client]) = 1
      BY <1>2, <3>1 DEF Stage, ToClient
    <3>3. conns'[c].to[Client] = << >>
      <4>1. conns'[c].to[Client] = Tail(conns[c].to[Client])
        BY <1>1, <2>3, <2>5, Zenon DEF Writes
      <4>2. conns[c].to[Client] \in Seq(Message) /\ conns[c].to[Client] # << >>
        BY <1>2, <2>5, <3>1, Zenon
      <4> QED
        BY <3>2, <4>1, <4>2, OneLess, Zenon
    <3>4. On(Server, c) => intro.identity = key[Server]
      BY <1>2, <2>5, <3>1 DEF ClientPins
    <3>5. On(Server, c)' <=> On(Server, c)
      BY <2>2, <2>5, Sides DEF On
    <3>6. ClientPins'
      BY <1>1, <2>1, <2>2, <2>5, <3>3, <3>4, <3>5 DEF ClientPins, NextWait, On
    <3>7. ~(at[Server].pc = "msg3" /\ at[Server].conn = at[Client].conn)
      <4> SUFFICES ASSUME at[Server].pc = "msg3", at[Server].conn = at[Client].conn
                   PROVE  FALSE
        OBVIOUS
      <4>1. On(Server, c)
        BY <3>1 DEF On, Waiting
      <4>2. ServerAt(c) = "msg3"
        BY <4>1, WhereItIs
      <4> QED
        BY <1>2, <3>1, <4>2 DEF Stage, ToServer
    <3> QED
      BY <1>1, <2>2, <2>3, <2>4, <2>5, <3>1, <3>6, <3>7, ClientStepPins, Sides
  <2>6. CASE p = Server
    <3>1. /\ ServerAt(c) = "intro" /\ c = at[Server].conn /\ at[Server].pc = "intro"
          /\ ServerPins /\ LookPins /\ intro.identity = Announced(c)
      BY <1>1, <1>2, <2>6, WhereItIs DEF Pins, Announced
    <3>2. On(Client, c)' <=> On(Client, c)
      BY <2>2, <2>6, Sides DEF On
    <3>3. ServerPins'
      BY <1>1, <2>1, <2>2, <2>6, <3>1, <3>2 DEF ServerPins, NextWait, On
    <3>4. SameQueue
      <4>1. ASSUME NEW i \in DOMAIN backlog PROVE backlog[i] # at[Server].conn
        <5>1. ~On(Server, backlog[i]) /\ On(Server, at[Server].conn)
          BY <1>2, <2>6, <3>1 DEF Stages, Served
        <5> QED
          BY <5>1
      <4> QED
        BY <2>3, <2>6, <4>1, QueuedExist, Zenon DEF SameQueue, Writes
    <3>5. LookPins'
      <4>1. NotBefore(intro.identity)'
        <5> PICK identity : identity = intro.identity
          OBVIOUS
        <5>1. NotBefore(identity)
          BY <3>1 DEF LookPins
        <5>2. NotBefore(identity)'
          BY <1>1, <3>4, <5>1, NotBeforeKept, QueueStays, Typed
        <5> QED
          BY <5>2
      <4> QED
        BY <2>1, <2>2, <2>6, <4>1 DEF LookPins
    <3>6. replies = << >> \/ (at[Client].conn = at[Server].conn => ClientPins')
      <4> SUFFICES ASSUME replies # << >>, at[Client].conn = at[Server].conn
                   PROVE  ClientPins'
        OBVIOUS
      <4>1. replies = <<Intro(Server)>> /\ kind[Server] = "cli"
        BY <2>1, <2>6, Sides DEF Replies
      <4>2. conns'[c].to[Client] = conns[c].to[Client] \o <<Intro(Server)>>
        BY <2>3, <2>6, <3>1, <4>1, Sides, Zenon DEF Writes
      <4> QED
        BY <1>1, <2>2, <2>6, <3>1, <4>1, <4>2, ServerIntroduces, Sides, Zenon
    <3> QED
      BY <1>1, <2>2, <2>3, <2>4, <2>6, <3>1, <3>3, <3>5, <3>6, ServerStepPins, Sides
  <2> QED
    BY <2>5, <2>6, Sides
<1> QED
  BY <1>4, <1>5

LEMMA TrustPins ==
  ASSUME TypeOK, Stages, NEW p \in Side, Trust(p)
  PROVE  PinsKept
<1> SUFFICES ASSUME Pins PROVE Pins'
  BY DEF PinsKept
<1> PICK c : c = at[p].conn
  OBVIOUS
<1>1. /\ at[p].pc = "ask" /\ at[p].pc \in OnOne
      /\ key' = key /\ backlog' = backlog
      /\ trust'[p] = at[p].got.identity /\ trust'[Other(p)] = trust[Other(p)]
  BY Typed, Sides DEF Trust, OnOne
<1>2. /\ c \in DOMAIN conns /\ Stage(c) /\ On(p, c)
      /\ Replies(p) \in Seq(Message)
  BY <1>1, OwnConnection, RepliesTypes
<1>3. NextWait(p) \in {"msg1", "msg2"} /\ NextWait(p) \in OnOne
  BY DEF NextWait, OnOne, Waiting
<1>4. /\ at'[Other(p)] = at[Other(p)]
      /\ at'[p].pc = NextWait(p) /\ at'[p].conn = c
  BY <1>3, Before, GoToFacts DEF Trust, Places, Waiting
<1>5. Writes(p, conns', FALSE, Replies(p))
  BY <1>1, <1>2, Before, SentFacts DEF Trust
<1>6. CASE p = Client
  <2>1. /\ ClientAt(c) = "ask" /\ c = at[Client].conn /\ ClientPins
    BY <1>1, <1>2, <1>6, WhereItIs DEF Pins
  <2>2. conns'[c].to[Client] = << >>
    BY <1>1, <1>5, <1>6, <2>1, Zenon DEF ClientPins, Writes
  <2>3. On(Server, c)' <=> On(Server, c)
    BY <1>4, <1>6, Sides DEF On
  <2>4. On(Server, c) => trust'[Client] = key[Server]
    BY <1>1, <1>6, <2>1 DEF ClientPins
  <2>5. ClientPins'
    BY <1>1, <1>4, <1>6, <2>2, <2>3, <2>4 DEF ClientPins, NextWait, On
  <2>6. ~(at[Server].pc = "msg3" /\ at[Server].conn = at[Client].conn)
    <3> SUFFICES ASSUME at[Server].pc = "msg3", at[Server].conn = at[Client].conn
                 PROVE  FALSE
      OBVIOUS
    <3>1. On(Server, c)
      BY <2>1 DEF On, Waiting
    <3>2. ServerAt(c) = "msg3"
      BY <3>1, WhereItIs
    <3> QED
      BY <1>2, <2>1, <3>2 DEF Stage, ToServer
  <2> QED
    BY <1>1, <1>2, <1>3, <1>4, <1>5, <1>6, <2>1, <2>5, <2>6, ClientStepPins, Sides
<1>7. CASE p = Server
  <2>1. /\ ServerAt(c) = "ask" /\ c = at[Server].conn /\ at[Server].pc = "ask"
        /\ ServerPins /\ LookPins
    BY <1>1, <1>2, <1>7, WhereItIs DEF Pins
  <2>2. On(Client, c)' <=> On(Client, c)
    BY <1>4, <1>7, Sides DEF On
  <2>3. ServerPins'
    BY <1>1, <1>4, <1>7, <2>1, <2>2 DEF ServerPins, NextWait, On
  <2>4. NotBefore(trust'[Server]) /\ LookPins'
    BY <1>1, <1>3, <1>4, <1>7, <2>1 DEF LookPins, NextWait
  <2>5. Replies(Server) = << >> \/ (at[Client].conn = at[Server].conn => ClientPins')
    <3> SUFFICES ASSUME Replies(Server) # << >>, at[Client].conn = at[Server].conn
                 PROVE  ClientPins'
      OBVIOUS
    <3>1. Replies(Server) = <<Intro(Server)>> /\ kind[Server] = "cli"
      BY Sides DEF Replies
    <3>2. conns'[c].to[Client] = conns[c].to[Client] \o <<Intro(Server)>>
      BY <1>5, <1>7, <2>1, <3>1, Sides, Zenon DEF Writes
    <3> QED
      BY <1>1, <1>4, <1>7, <2>1, <3>1, <3>2, ServerIntroduces, Sides, Zenon
  <2> QED
    BY <1>1, <1>3, <1>4, <1>5, <1>7, <2>1, <2>3, <2>4, <2>5, ServerStepPins, Sides
<1> QED
  BY <1>6, <1>7, Sides

LEMMA ReadMessage1Pins ==
  ASSUME TypeOK, Stages, ReadMessage1
  PROVE  PinsKept
<1> SUFFICES ASSUME Pins PROVE Pins'
  BY DEF PinsKept
<1> PICK c : c = at[Server].conn
  OBVIOUS
<1> PICK msg1 : msg1 = Head(Inbox(Server))
  OBVIOUS
<1> PICK reply : reply = Message2(c, msg1)
  OBVIOUS
<1>1. /\ at[Server].pc = "msg1" /\ at[Server].pc \in OnOne
      /\ Server \in Side /\ Other(Server) = Client
      /\ Inbox(Server) # << >>
      /\ GoTo(Server, "msg3", msg1)
      /\ conns' = Exchanged(Server, <<reply>>)
      /\ key' = key /\ trust' = trust /\ backlog' = backlog
  BY Sides DEF ReadMessage1, OnOne, Waiting, files
<1>2. /\ ServerAt(c) = "msg1" /\ Stage(c) /\ On(Server, c)
      /\ c \in DOMAIN conns /\ c \in Nat
      /\ conns[c].to[Server] \in Seq(Message) /\ conns[c].to[Server] = Inbox(Server)
  BY <1>1, WhereItIs, OwnConnection, Streams
<1>3. /\ Len(conns[c].to[Server]) = 1 /\ conns[c].to[Server][1] = Message1(c)
      /\ ClientAt(c) \notin {"intro", "ask", "up"}
      /\ ClientAt(c) = "msg2" => conns[c].to[Client] = << >>
  BY <1>1, <1>2 DEF Stage, ToServer, ToClient
<1>4. msg1 = Message1(c) /\ Tail(conns[c].to[Server]) = << >>
  BY <1>1, <1>2, <1>3, OneLess
<1>5. /\ reply \in Message /\ msg1 \in Message
      /\ reply.sig = Sign(key[Server], Transcript(Epk(Client, c), Epk(Server, c)))
  BY <1>2, <1>4, MessageTypes, Typed, EpkType DEF Message1, Message2
<1>6. Writes(Server, conns', TRUE, <<reply>>)
  <2>1. <<reply>> \in Seq(Message)
    BY <1>5
  <2> QED
    BY <1>1, <1>2, <2>1, Before, ExchangedFacts
<1>7. /\ at'[Client] = at[Client]
      /\ at'[Server].pc = "msg3" /\ at'[Server].conn = c
  BY <1>1, <1>5, Before, GoToFacts DEF Places, Waiting
<1>8. /\ conns'[c].to[Server] = << >>
      /\ conns'[c].to[Client] = conns[c].to[Client] \o <<reply>>
  BY <1>1, <1>4, <1>6, Zenon DEF Writes
<1>9. ServerPins'
  <2>1. On(Client, c)' => On(Client, c)
    BY <1>7 DEF On
  <2>2. On(Client, c) => trust[Server] = key[Client]
    BY <1>1 DEF Pins, ServerPins
  <2> QED
    BY <1>1, <1>7, <1>8, <2>1, <2>2, Zenon DEF ServerPins, On
<1>10. at[Client].conn = at[Server].conn => ClientPins'
  <2> SUFFICES ASSUME at[Client].conn = c PROVE ClientPins'
    OBVIOUS
  <2>1. at[Client].pc \in OnOne => ClientAt(c) = at[Client].pc
    BY WhereItIs DEF On, OnOne
  <2>2. CASE at[Client].pc = "msg2"
    <3>1. conns'[c].to[Client] = << >> \o <<reply>>
      BY <1>3, <1>8, <2>1, <2>2, Zenon DEF OnOne, Waiting
    <3>2. (<< >> \o <<reply>>)[1] = reply
      OBVIOUS
    <3>3. trust[Client] = key[Server] /\ key[Server] # NoKey
      BY <1>1, <1>2, <2>2 DEF Pins, ClientPins, KeysExist
    <3> QED
      BY <1>1, <1>5, <1>7, <2>2, <3>1, <3>2, <3>3 DEF ClientPins, Epk
  <2>3. CASE at[Client].pc # "msg2"
    BY <1>3, <1>7, <2>1, <2>3 DEF ClientPins, OnOne, Waiting
  <2> QED
    BY <2>2, <2>3
<1>11. LookPins'
  BY <1>7 DEF LookPins
<1> QED
  BY <1>1, <1>6, <1>7, <1>9, <1>10, <1>11, ServerStepPins DEF OnOne, Waiting

\* The signature of message 2 is always good.
LEMMA Message2IsGood ==
  ASSUME TypeOK, Stages, Pins, at[Client].pc = "msg2", Inbox(Client) # << >>
  PROVE  Message2Verifies(at[Client].conn, Head(Inbox(Client)))
<1> PICK c : c = at[Client].conn
  OBVIOUS
<1>1. /\ ClientAt(c) = "msg2" /\ Stage(c)
      /\ Inbox(Client) = conns[c].to[Client] /\ Inbox(Client) \in Seq(Message)
  BY WhereItIs, OwnConnection, Streams, Sides DEF OnOne, Waiting
<1>2. Head(Inbox(Client)) = conns[c].to[Client][1]
  BY <1>1, OneLess
<1>3. conns[c].to[Client][1].epk = Epk(Server, c)
  BY <1>1 DEF Stage, ToClient
<1> QED
  BY <1>1, <1>2, <1>3 DEF Pins, ClientPins, Message2Verifies, Verify

\* And so is that of message 3.
LEMMA Message3IsGood ==
  ASSUME TypeOK, Stages, Pins, at[Server].pc = "msg3", Inbox(Server) # << >>
  PROVE  Message3Verifies(at[Server].conn, at[Server].got, Head(Inbox(Server)))
<1> PICK c : c = at[Server].conn
  OBVIOUS
<1>1. /\ ServerAt(c) = "msg3" /\ Stage(c)
      /\ Inbox(Server) = conns[c].to[Server] /\ Inbox(Server) \in Seq(Message)
  BY WhereItIs, OwnConnection, Streams, Sides DEF OnOne, Waiting
<1>2. Head(Inbox(Server)) = conns[c].to[Server][1]
  BY <1>1, OneLess
<1>3. at[Server].got.epk = Epk(Client, c)
  BY <1>1 DEF Stage, Derived, Message1
<1> QED
  BY <1>1, <1>2, <1>3 DEF Pins, ServerPins, Message3Verifies, Verify

LEMMA ReadMessage2Pins ==
  ASSUME TypeOK, Stages, ReadMessage2
  PROVE  PinsKept
<1> SUFFICES ASSUME Pins PROVE Pins'
  BY DEF PinsKept
<1> PICK c : c = at[Client].conn
  OBVIOUS
<1> PICK msg2 : msg2 = Head(Inbox(Client))
  OBVIOUS
<1> PICK reply : reply = Message3(c, msg2)
  OBVIOUS
<1> PICK chan : chan = DeriveChannel(Epk(Client, c), msg2.epk, TRUE)
  OBVIOUS
<1>1. /\ at[Client].pc = "msg2" /\ at[Client].pc \in OnOne
      /\ Client \in Side /\ Other(Client) = Server
      /\ Inbox(Client) # << >>
      /\ key' = key /\ trust' = trust /\ backlog' = backlog
  BY Sides DEF ReadMessage2, OnOne, Waiting, files
<1>2. /\ ClientAt(c) = "msg2" /\ Stage(c) /\ On(Client, c)
      /\ c \in DOMAIN conns /\ c \in Nat
      /\ conns[c].to[Client] \in Seq(Message) /\ conns[c].to[Client] = Inbox(Client)
      /\ conns[c].to[Server] \in Seq(Message)
  BY <1>1, WhereItIs, OwnConnection, Streams
<1>3. msg2.epk = Epk(Server, c)
  <2>1. conns[c].to[Client][1].epk = Epk(Server, c)
    BY <1>1, <1>2 DEF Stage, ToClient
  <2> QED
    BY <1>1, <1>2, <2>1, OneLess
<1>4. GoesUp(Client, chan) /\ conns' = Exchanged(Client, <<reply>>)
  BY <1>1, Message2IsGood DEF ReadMessage2
<1>5. /\ reply \in Message /\ chan \in Channels
      /\ reply.sig = Sign(key[Client], Transcript(Epk(Client, c), Epk(Server, c)))
  BY <1>2, <1>3, MessageTypes, Typed, EpkType, ChannelTypes DEF Message3
<1>6. <<reply>> \in Seq(Message)
  BY <1>5
<1>7. Writes(Client, conns', TRUE, <<reply>>)
  BY <1>1, <1>2, <1>4, <1>6, Before, ExchangedFacts
<1>8. /\ at'[Server] = at[Server]
      /\ at'[Client].pc = "up" /\ at'[Client].conn = c
  BY <1>1, <1>4, <1>5, Before, GoesUpFacts
<1>9. ClientPins'
  <2>1. On(Server, c)' => trust'[Client] = key'[Server]
    BY <1>1, <1>8 DEF Pins, ClientPins, On
  <2> QED
    BY <1>8, <2>1 DEF ClientPins
<1>10. ASSUME at[Server].pc = "msg3", at[Server].conn = c
       PROVE  /\ trust[Server] # NoKey
              /\ conns'[c].to[Server][1].sig =
                   Sign(trust[Server], Transcript(Epk(Client, c), Epk(Server, c)))
  <2>1. trust[Server] = key[Client] /\ key[Client] # NoKey /\ conns[c].to[Server] = << >>
    BY <1>1, <1>2, <1>10 DEF Pins, ServerPins, KeysExist
  <2>2. conns'[c].to[Server] = << >> \o <<reply>>
    BY <1>1, <1>7, <2>1 DEF Writes
  <2>3. (<< >> \o <<reply>>)[1] = reply
    OBVIOUS
  <2> QED
    BY <1>5, <2>1, <2>2, <2>3
<1> QED
  BY <1>1, <1>6, <1>7, <1>8, <1>9, <1>10, ClientStepPins DEF OnOne, Waiting

LEMMA ReadMessage3Pins ==
  ASSUME TypeOK, Stages, ReadMessage3
  PROVE  PinsKept
<1> SUFFICES ASSUME Pins PROVE Pins'
  BY DEF PinsKept
<1> PICK c : c = at[Server].conn
  OBVIOUS
<1> PICK chan : chan = DeriveChannel(at[Server].got.epk, Epk(Server, c), FALSE)
  OBVIOUS
<1>1. /\ at[Server].pc = "msg3" /\ at[Server].pc \in OnOne
      /\ Server \in Side /\ Other(Server) = Client
      /\ Inbox(Server) # << >>
      /\ key' = key /\ trust' = trust /\ backlog' = backlog
  BY Sides DEF ReadMessage3, OnOne, Waiting, files
<1>2. /\ ServerAt(c) = "msg3" /\ Stage(c)
      /\ c \in DOMAIN conns /\ c \in Nat
  BY <1>1, WhereItIs, OwnConnection
<1>3. at[Server].got.epk = Epk(Client, c)
  BY <1>2 DEF Stage, Derived, Message1
<1>4. chan \in Channels
  BY <1>2, <1>3, EpkType, ChannelTypes
<1>5. GoesUp(Server, chan) /\ conns' = Exchanged(Server, << >>)
  BY <1>1, Message3IsGood DEF ReadMessage3
<1>6. Writes(Server, conns', TRUE, << >>)
  <2>1. << >> \in Seq(Message)
    OBVIOUS
  <2> QED
    BY <1>1, <1>2, <1>5, <2>1, Before, ExchangedFacts
<1>7. /\ at'[Client] = at[Client]
      /\ at'[Server].pc = "up" /\ at'[Server].conn = c
  BY <1>1, <1>4, <1>5, Before, GoesUpFacts
<1>8. ServerPins' /\ LookPins'
  <2>1. On(Client, c) => trust[Server] = key[Client] /\ at[Client].pc = "up"
    <3>1. conns[c].to[Server] # << >>
      BY <1>1 DEF Inbox, Conn
    <3> QED
      BY <1>1, <3>1 DEF Pins, ServerPins
  <2>2. On(Client, c)' => trust'[Server] = key'[Client] /\ at'[Client].pc = "up"
    BY <1>1, <1>7, <2>1 DEF On
  <2> QED
    BY <1>7, <2>2 DEF ServerPins, LookPins
<1> QED
  BY <1>1, <1>6, <1>7, <1>8, ServerStepPins DEF OnOne, Waiting

-----------------------------------------------------------------------------
(* A connection comes about, and is accepted.                              *)

LEMMA Appended ==
  ASSUME NEW S, NEW s \in Seq(S), NEW m \in S
  PROVE  /\ Append(s, m) \in Seq(S)
         /\ Len(Append(s, m)) = Len(s) + 1
         /\ DOMAIN Append(s, m) = DOMAIN s \cup {Len(s) + 1}
         /\ \A i \in DOMAIN s : Append(s, m)[i] = s[i]
         /\ Append(s, m)[Len(s) + 1] = m
OBVIOUS

LEMMA ConnectKeeps ==
  ASSUME TypeOK, Stages, Connect
  PROVE  TypeOK' /\ Stages' /\ PinsKept
<1>0. PICK new \in Nat : new = Len(conns) + 1
  BY Before
<1> DEFINE there == [at[Client] EXCEPT !.pc = "intro", !.conn = new]
           closed == ClosedBy(Client, conns)
<1>1. /\ at[Client].pc = "connect"
      /\ Client \in Side /\ Server \in Side /\ Client # Server
      /\ new \in Nat \ {0} /\ new \notin DOMAIN conns
      /\ UNCHANGED <<files, strikes, quits>>
  BY <1>0, Before, Sides DEF Connect
<1>2. /\ closed \in Seq(Connection) /\ Len(closed) = Len(conns)
      /\ DOMAIN closed = DOMAIN conns
      /\ \A n \in DOMAIN conns : closed[n].to = conns[n].to
  BY <1>1, Before DEF SameStreams
<1>3. /\ NewConnection \in Connection
      /\ NewConnection.to[Client] = << >>
      /\ Len(NewConnection.to[Server]) = 1
      /\ NewConnection.to[Server][1].type = "intro"
  BY MessageTypes, Typed
<1>4. conns' = Append(closed, NewConnection) /\ backlog' = Append(backlog, new)
  BY <1>0 DEF Connect
<1> HIDE DEF closed
<1>5. /\ conns' \in Seq(Connection) /\ Len(conns') = new
      /\ DOMAIN conns' = DOMAIN conns \cup {new}
      /\ \A n \in DOMAIN conns : conns'[n].to = conns[n].to
      /\ conns'[new] = NewConnection
  <2>1. PICK cs \in Seq(Connection), k \in Connection :
          cs = closed /\ k = NewConnection
    BY <1>2, <1>3
  <2>2. /\ Append(cs, k) \in Seq(Connection)
        /\ Len(Append(cs, k)) = Len(cs) + 1
        /\ DOMAIN Append(cs, k) = DOMAIN cs \cup {Len(cs) + 1}
        /\ \A n \in DOMAIN cs : Append(cs, k)[n] = cs[n]
        /\ Append(cs, k)[Len(cs) + 1] = k
    BY Appended
  <2>3. /\ conns' \in Seq(Connection) /\ Len(conns') = Len(closed) + 1
        /\ DOMAIN conns' = DOMAIN closed \cup {Len(closed) + 1}
        /\ \A n \in DOMAIN closed : conns'[n] = closed[n]
        /\ conns'[Len(closed) + 1] = NewConnection
    BY <1>4, <2>1, <2>2, Zenon
  <2>4. Len(closed) + 1 = new
    BY <1>0, <1>2
  <2> QED
    BY <1>2, <2>3, <2>4, Zenon
<1>6. /\ backlog' \in Seq(Nat)
      /\ DOMAIN backlog' = DOMAIN backlog \cup {Len(backlog) + 1}
      /\ \A i \in DOMAIN backlog : backlog'[i] = backlog[i]
      /\ backlog'[Len(backlog) + 1] = new
  <2>1. PICK b \in Seq(Nat), m \in Nat : b = backlog /\ m = new
    BY Before
  <2>2. /\ Append(b, m) \in Seq(Nat)
        /\ DOMAIN Append(b, m) = DOMAIN b \cup {Len(b) + 1}
        /\ \A i \in DOMAIN b : Append(b, m)[i] = b[i]
        /\ Append(b, m)[Len(b) + 1] = m
    BY Appended
  <2> QED
    BY <1>4, <2>1, <2>2, Zenon
<1>7. /\ at' \in [Side -> Position] /\ at'[Server] = at[Server]
      /\ at'[Client].pc = "intro" /\ at'[Client].conn = new
  <2>1. there \in Position /\ there.pc = "intro" /\ there.conn = new
    BY <1>1, Before DEF Position, Places, Waiting
  <2>2. at' = [at EXCEPT ![Client] = there]
    BY <1>0 DEF Connect
  <2> HIDE DEF there
  <2> QED
    BY <1>1, <2>1, <2>2, Before
<1>8. /\ \A i, j \in DOMAIN backlog : backlog[i] = backlog[j] => i = j
      /\ \A i \in DOMAIN backlog : backlog[i] \in DOMAIN conns /\ ~On(Server, backlog[i])
      /\ at[Server].conn \in 0 .. Len(conns)
      /\ at[Server].pc \in OnOne => at[Server].conn # 0
  BY <1>1 DEF Stages, Served, OnOne
<1>9. /\ \A n : On(Server, n)' <=> On(Server, n)
      /\ ~On(Server, new)
      /\ \A n : n \in ToSet(backlog') <=> n \in ToSet(backlog) \/ n = new
  <2>1. \A n : On(Server, n)' <=> On(Server, n)
    BY <1>7 DEF On
  <2>2. ~On(Server, new)
    BY <1>0, <1>8, Before DEF On
  <2>3. ASSUME NEW n \in ToSet(backlog') PROVE n \in ToSet(backlog) \/ n = new
    <3>1. PICK i \in DOMAIN backlog' : n = backlog'[i]
      BY <2>3 DEF ToSet
    <3> QED
      BY <1>6, <3>1 DEF ToSet
  <2>4. ASSUME NEW n \in ToSet(backlog) PROVE n \in ToSet(backlog')
    <3>1. PICK i \in DOMAIN backlog : n = backlog[i]
      BY <2>4 DEF ToSet
    <3>2. i \in DOMAIN backlog' /\ n = backlog'[i]
      BY <1>6, <3>1
    <3> QED
      BY <3>2 DEF ToSet
  <2>5. new \in ToSet(backlog')
    <3>1. Len(backlog) + 1 \in DOMAIN backlog' /\ new = backlog'[Len(backlog) + 1]
      BY <1>6
    <3> QED
      BY <3>1, Zenon DEF ToSet
  <2> QED
    BY <2>1, <2>2, <2>3, <2>4, <2>5
<1>10. Served'
  <2>1. \A i, j \in DOMAIN backlog' : backlog'[i] = backlog'[j] => i = j
    BY <1>1, <1>6, <1>8
  <2>2. ASSUME NEW i \in DOMAIN backlog'
        PROVE  /\ backlog'[i] \in DOMAIN conns'
               /\ ~(at'[Server].conn = backlog'[i]
                     /\ at'[Server].pc \in Waiting \cup {"ask", "up"})
    <3>1. CASE i \in DOMAIN backlog
      BY <1>5, <1>6, <1>7, <1>8, <3>1 DEF On
    <3>2. CASE i = Len(backlog) + 1
      BY <1>5, <1>6, <1>7, <1>9, <3>2 DEF On
    <3> QED
      BY <1>6, <3>1, <3>2
  <2>3. ASSUME NEW q \in Side
        PROVE  /\ at'[q].conn \in 0 .. Len(conns')
               /\ at'[q].pc \in Waiting \cup {"ask", "up"} => at'[q].conn # 0
    <3>1. CASE q = Client
      BY <1>1, <1>5, <1>7, <3>1
    <3>2. CASE q = Server
      <4>1. Len(conns') = Len(conns) + 1 /\ Len(conns) \in Nat
        BY <1>0, <1>5, Before
      <4> QED
        BY <1>7, <1>8, <3>2, <4>1 DEF OnOne
    <3> QED
      BY <3>1, <3>2, Sides
  <2> QED
    BY <2>1, <2>2, <2>3 DEF Served, On
<1>11. ASSUME NEW n \in DOMAIN conns PROVE Stage(n)'
  <2>1. Stage(n) /\ conns'[n].to = conns[n].to /\ n # new
    BY <1>1, <1>5 DEF Stages, Stage
  <2>2. ClientAt(n) = "gone" /\ ClientAt(n)' = "gone"
    BY <1>1, <1>7, <2>1 DEF ClientAt, On, Waiting
  <2>3. ServerAt(n)' = ServerAt(n)
    BY <1>7, <1>9, <2>1 DEF ServerAt
  <2>4. ServerAt(n)' \in {"ask", "msg3", "up"} =>
          at'[Server].got = at[Server].got /\ at'[Server].chan = at[Server].chan
    BY <1>7
  <2> QED
    BY <1>1, <2>1, <2>2, <2>3, <2>4, StageKept DEF files
<1>12. Stage(new)'
  <2>1. ClientAt(new)' = "intro"
    BY <1>7 DEF ClientAt, On, Waiting
  <2>2. ServerAt(new)' = "queued"
    BY <1>9 DEF ServerAt
  <2>3. ToClient(new)'
    BY <1>3, <1>5, <2>1, <2>2 DEF ToClient
  <2>4. ToServer(new)'
    BY <1>3, <1>5, <2>1, <2>2 DEF ToServer
  <2>5. Derived(new)'
    BY <2>1, <2>2 DEF Derived
  <2> QED
    BY <2>3, <2>4, <2>5 DEF Stage
<1>13. Stages'
  BY <1>5, <1>10, <1>11, <1>12 DEF Stages, Stage
<1>14. ASSUME Pins PROVE Pins'
  <2> DEFINE Told(n) == conns'[n].to[Server][1].identity
  <2>1. /\ key' = key /\ trust' = trust
        /\ backlog \in Seq(Nat) /\ Len(backlog) \in Nat
        /\ DOMAIN backlog = 1 .. Len(backlog)
        /\ key[Client] \in Nat
    BY <1>1, Typed DEF files
  <2>2. KeysExist'
    BY <1>14, <2>1 DEF Pins, KeysExist
  <2>3. ClientPins'
    <3>1. ~On(Server, new)'
      BY <1>9
    <3> QED
      BY <1>7, <3>1 DEF ClientPins, On
  <2>4. ServerPins'
    <3>1. at[Server].pc \in OnOne => at[Server].conn \in DOMAIN conns
      BY <1>1, OwnConnection
    <3>2. ~On(Client, at[Server].conn)'
      BY <1>0, <1>7, <1>8, Before DEF On
    <3> QED
      BY <1>5, <1>7, <1>14, <2>1, <3>1, <3>2, ServerPinsKept DEF Pins, OnOne, Waiting
  <2>5. Told(new) = key[Client]
    <3> PICK m : m = Intro(Client)
      OBVIOUS
    <3>1. NewConnection.to[Server] = <<m>> /\ m.identity = key[Client]
      BY <1>1 DEF NewConnection, Intro
    <3>2. <<m>>[1] = m
      OBVIOUS
    <3> QED
      BY <1>5, <3>1, <3>2
  <2>6. \A i \in DOMAIN backlog : Told(backlog[i]) = Announced(backlog[i])
    BY <1>5, <1>8 DEF Announced
  <2> HIDE DEF Told
  <2>7. \A i \in DOMAIN backlog' :
          \/ i \in DOMAIN backlog /\ backlog'[i] = backlog[i]
          \/ i = Len(backlog) + 1 /\ backlog'[i] = new
    BY <1>6
  <2>8. ASSUME NEW i \in DOMAIN backlog'
        PROVE  /\ at'[Client].conn = backlog'[i] => Told(backlog'[i]) = key[Client]
               /\ trust[Server] <= Told(backlog'[i])
               /\ Told(backlog'[i]) <= key[Client]
    <3>1. CASE i \in DOMAIN backlog /\ backlog'[i] = backlog[i]
      BY <1>1, <1>7, <1>8, <1>14, <2>6, <3>1 DEF Pins, QueuePins
    <3>2. CASE backlog'[i] = new
      BY <1>14, <2>1, <2>5, <3>2 DEF Pins, QueuePins
    <3> QED
      BY <2>7, <3>1, <3>2
  <2>9. ASSUME NEW i \in DOMAIN backlog', NEW j \in DOMAIN backlog', i <= j
        PROVE  Told(backlog'[i]) <= Told(backlog'[j])
    <3>1. CASE j \in DOMAIN backlog /\ backlog'[j] = backlog[j]
      <4>1. i \in DOMAIN backlog /\ backlog'[i] = backlog[i]
        BY <2>1, <2>7, <2>9, <3>1
      <4> QED
        BY <1>14, <2>6, <2>9, <3>1, <4>1 DEF Pins, QueuePins
    <3>2. CASE backlog'[j] = new
      BY <2>5, <2>8, <3>2
    <3> QED
      BY <2>7, <3>1, <3>2
  <2>10. QueuePins'
    <3>1. trust[Server] <= key[Client]
      BY <1>14 DEF Pins, QueuePins
    <3> QED
      BY <2>1, <2>8, <2>9, <3>1 DEF QueuePins, Announced, On, Told
  <2>11. ASSUME NEW identity, NotBefore(identity) PROVE NotBefore(identity)'
    <3>1. \A i \in DOMAIN backlog' : identity <= Told(backlog'[i])
      BY <2>5, <2>6, <2>7, <2>11 DEF NotBefore
    <3> QED
      BY <2>1, <2>11, <3>1 DEF NotBefore, Announced, Told
  <2>12. LookPins'
    <3>1. CASE at[Server].pc = "intro"
      <4>1. PICK m : m = Announced(at[Server].conn)
        OBVIOUS
      <4>2. at[Server].conn \in DOMAIN conns
        BY <1>1, <3>1, OwnConnection DEF OnOne, Waiting
      <4>3. Announced(at[Server].conn)' = m
        BY <1>5, <1>7, <4>1, <4>2 DEF Announced
      <4>4. NotBefore(m)'
        BY <1>14, <2>11, <3>1, <4>1 DEF Pins, LookPins
      <4> QED
        BY <1>7, <3>1, <4>3, <4>4 DEF LookPins
    <3>2. CASE at[Server].pc = "ask"
      <4>1. PICK m : m = at[Server].got.identity
        OBVIOUS
      <4>2. NotBefore(m)'
        BY <1>14, <2>11, <3>2, <4>1 DEF Pins, LookPins
      <4> QED
        BY <1>7, <3>2, <4>1, <4>2 DEF LookPins
    <3> QED
      BY <1>7, <3>1, <3>2 DEF LookPins
  <2> QED
    BY <2>2, <2>3, <2>4, <2>10, <2>12 DEF Pins
<1> QED
  BY <1>1, <1>5, <1>6, <1>7, <1>13, <1>14, Before, Typed, TypedAfter DEF files, PinsKept

LEMMA AcceptKeeps ==
  ASSUME TypeOK, Stages, Accept
  PROVE  TypeOK' /\ Stages' /\ PinsKept
<1>1. /\ at[Server].pc = "accept" /\ backlog # << >>
      /\ Client \in Side /\ Server \in Side /\ Client # Server
      /\ UNCHANGED <<files, strikes, quits>>
  BY Sides DEF Accept
<1>2. PICK c \in Nat : c = Head(backlog) /\ c = backlog[1] /\ 1 \in DOMAIN backlog
  BY <1>1, Before
<1> DEFINE there == [at[Server] EXCEPT !.pc = "intro", !.conn = c]
           closed == ClosedBy(Server, conns)
           old == closed[c].to[Client]
           wire == IF kind[Server] = "gui" THEN Append(old, Intro(Server)) ELSE old
           to == [closed[c].to EXCEPT ![Client] = wire]
           conn == [closed[c] EXCEPT !.to = to]
<1>3. /\ \A i, j \in DOMAIN backlog : backlog[i] = backlog[j] => i = j
      /\ \A i \in DOMAIN backlog : backlog[i] \in DOMAIN conns /\ ~On(Server, backlog[i])
      /\ at[Client].conn \in 0 .. Len(conns)
      /\ at[Client].pc \in OnOne => at[Client].conn # 0
  BY <1>1 DEF Stages, Served, OnOne
<1>4. /\ c \in DOMAIN conns /\ c \in ToSet(backlog) /\ c # 0 /\ c \in 0 .. Len(conns)
      /\ Stage(c) /\ ServerAt(c) = "queued"
  <2>1. c \in DOMAIN conns /\ c \in ToSet(backlog)
    BY <1>2, <1>3 DEF ToSet
  <2> QED
    BY <2>1, Before DEF Stages, Stage, ServerAt
<1>5. /\ closed \in Seq(Connection) /\ Len(closed) = Len(conns)
      /\ DOMAIN closed = DOMAIN conns
      /\ \A n \in DOMAIN conns : closed[n].to = conns[n].to
  BY <1>1, Before DEF SameStreams
<1>6. conns' = [closed EXCEPT ![c] = conn]
  BY <1>2, <1>4, <1>5 DEF Accept, Connection
<1> HIDE DEF closed
<1>7. Intro(Server) \in Message /\ Intro(Server).type = "intro"
  BY <1>1, MessageTypes, Typed DEF Intro
<1>8. closed[c] \in Connection /\ old = conns[c].to[Client] /\ old \in Seq(Message)
  <2>1. closed[c] \in Connection
    BY <1>4, <1>5
  <2> QED
    BY <1>1, <1>4, <1>5, <2>1 DEF Connection
<1>9. /\ ClientAt(c) = "gone" \/ (ClientAt(c) = "intro" /\ old = << >>)
  BY <1>4, <1>8 DEF Stage, ToClient
<1>10. /\ wire \in Seq(Message)
       /\ kind[Server] # "gui" => wire = old
       /\ old = << >> => wire = << >> \/ (Len(wire) = 1 /\ wire[1].type = "intro")
  <2>1. CASE kind[Server] # "gui"
    BY <1>8, <2>1
  <2>2. CASE kind[Server] = "gui"
    <3>1. PICK o \in Seq(Message), m \in Message : o = old /\ m = Intro(Server)
      BY <1>7, <1>8
    <3>2. /\ Append(o, m) \in Seq(Message)
          /\ o = << >> => Len(Append(o, m)) = 1 /\ Append(o, m)[1] = m
      BY Appended
    <3>3. wire = Append(o, m)
      BY <2>2, <3>1
    <3> QED
      BY <1>7, <2>2, <3>1, <3>2, <3>3
  <2> QED
    BY <2>1, <2>2
<1> HIDE DEF old, wire
<1>11. /\ to \in [Side -> Seq(Message)] /\ to[Client] = wire
       /\ to[Server] = conns[c].to[Server]
  BY <1>1, <1>4, <1>5, <1>8, <1>10 DEF Connection
<1> HIDE DEF to
<1>12. conn \in Connection /\ conn.to = to
  BY <1>8, <1>11 DEF Connection
<1> HIDE DEF conn
<1>13. /\ conns' \in Seq(Connection) /\ Len(conns') = Len(conns)
       /\ DOMAIN conns' = DOMAIN conns
       /\ \A n \in DOMAIN conns : n # c => conns'[n].to = conns[n].to
       /\ conns'[c] = conn
  BY <1>4, <1>5, <1>6, <1>12
<1>14. /\ at' \in [Side -> Position] /\ at'[Client] = at[Client]
       /\ at'[Server].pc = "intro" /\ at'[Server].conn = c
  <2>1. there \in Position /\ there.pc = "intro" /\ there.conn = c
    BY <1>1, Before DEF Position, Places, Waiting
  <2>2. at' = [at EXCEPT ![Server] = there]
    BY <1>2 DEF Accept
  <2> HIDE DEF there
  <2> QED
    BY <1>1, <2>1, <2>2, Before
<1>15. /\ backlog' \in Seq(Nat)
       /\ DOMAIN backlog' \subseteq Nat \ {0}
       /\ \A i \in DOMAIN backlog' : i + 1 \in DOMAIN backlog /\ backlog'[i] = backlog[i + 1]
       /\ \A j \in DOMAIN backlog : j = 1 \/ \E i \in DOMAIN backlog' : backlog'[i] = backlog[j]
  <2>1. backlog' = Tail(backlog)
    BY DEF Accept
  <2>2. /\ backlog' \in Seq(Nat)
        /\ DOMAIN backlog' = 1 .. Len(backlog) - 1
        /\ DOMAIN backlog = 1 .. Len(backlog) /\ Len(backlog) \in Nat
        /\ \A i \in DOMAIN backlog' : backlog'[i] = backlog[i + 1]
    BY <1>1, <2>1, Before
  <2>3. ASSUME NEW j \in DOMAIN backlog, j # 1
        PROVE  \E i \in DOMAIN backlog' : backlog'[i] = backlog[j]
    <3>1. j - 1 \in DOMAIN backlog' /\ backlog'[j - 1] = backlog[j]
      BY <2>2, <2>3
    <3> QED
      BY <3>1
  <2> QED
    BY <2>2, <2>3
<1>16. \A i \in DOMAIN backlog' : backlog'[i] # c
  <2> SUFFICES ASSUME NEW i \in DOMAIN backlog', backlog'[i] = c PROVE FALSE
    OBVIOUS
  <2>1. i + 1 = 1
    BY <1>2, <1>3, <1>15
  <2> QED
    BY <1>15, <2>1
<1>17. \A n : n \in ToSet(backlog') <=> n \in ToSet(backlog) /\ n # c
  <2>1. ASSUME NEW n \in ToSet(backlog') PROVE n \in ToSet(backlog) /\ n # c
    <3>1. PICK i \in DOMAIN backlog' : n = backlog'[i]
      BY <2>1 DEF ToSet
    <3>2. i + 1 \in DOMAIN backlog /\ n = backlog[i + 1]
      BY <1>15, <3>1
    <3> QED
      BY <1>16, <3>1, <3>2 DEF ToSet
  <2>2. ASSUME NEW n \in ToSet(backlog), n # c PROVE n \in ToSet(backlog')
    <3>1. PICK j \in DOMAIN backlog : n = backlog[j]
      BY <2>2 DEF ToSet
    <3>2. PICK i \in DOMAIN backlog' : backlog'[i] = backlog[j]
      BY <1>2, <1>15, <2>2, <3>1
    <3> QED
      BY <3>1, <3>2 DEF ToSet
  <2> QED
    BY <2>1, <2>2
<1>18. /\ \A n : On(Client, n)' <=> On(Client, n)
       /\ \A n : ~On(Server, n)
       /\ \A n : On(Server, n)' <=> n = c
  BY <1>1, <1>14 DEF On, Waiting
<1>19. Served'
  <2>1. ASSUME NEW i \in DOMAIN backlog', NEW j \in DOMAIN backlog', backlog'[i] = backlog'[j]
        PROVE  i = j
    <3>1. i + 1 = j + 1 /\ i \in Nat /\ j \in Nat
      BY <1>3, <1>15, <2>1
    <3> QED
      BY <3>1
  <2>2. ASSUME NEW i \in DOMAIN backlog'
        PROVE  backlog'[i] \in DOMAIN conns' /\ at'[Server].conn # backlog'[i]
    BY <1>3, <1>13, <1>14, <1>15, <1>16
  <2>3. ASSUME NEW q \in Side
        PROVE  /\ at'[q].conn \in 0 .. Len(conns')
               /\ at'[q].pc \in Waiting \cup {"ask", "up"} => at'[q].conn # 0
    <3>1. CASE q = Server
      BY <1>4, <1>13, <1>14, <3>1
    <3>2. CASE q = Client
      BY <1>3, <1>13, <1>14, <3>2 DEF OnOne
    <3> QED
      BY <3>1, <3>2, Sides
  <2> QED
    BY <2>1, <2>2, <2>3 DEF Served, On
<1>20. ASSUME NEW n \in DOMAIN conns, n # c PROVE Stage(n)'
  <2>1. Stage(n) /\ conns'[n].to = conns[n].to
    BY <1>13, <1>20 DEF Stages, Stage
  <2>2. /\ ClientAt(n)' = ClientAt(n)
        /\ at'[Client].got = at[Client].got /\ at'[Client].chan = at[Client].chan
    BY <1>14, <1>18 DEF ClientAt
  <2>3. ServerAt(n)' = ServerAt(n) /\ ServerAt(n) \in {"queued", "gone"}
    BY <1>17, <1>18, <1>20 DEF ServerAt
  <2> QED
    BY <1>1, <2>1, <2>2, <2>3, StageKept DEF files
<1>21. Stage(c)'
  <2>1. /\ ClientAt(c)' = ClientAt(c) /\ ServerAt(c)' = "intro"
        /\ kind' = kind /\ at'[Client] = at[Client]
    BY <1>1, <1>14, <1>17, <1>18 DEF ClientAt, ServerAt, files
  <2>2. conns'[c].to[Client] = wire /\ conns'[c].to[Server] = conns[c].to[Server]
    BY <1>11, <1>12, <1>13
  <2>3. ToClient(c)'
    <3>1. kind[Server] = "cli" => wire = old
      BY <1>10
    <3> QED
      BY <1>9, <1>10, <2>1, <2>2, <3>1 DEF ToClient
  <2>4. ToServer(c)'
    BY <1>4, <2>1, <2>2 DEF Stage, ToServer, Message1, Epk
  <2>5. Derived(c)'
    BY <1>9, <2>1 DEF Derived
  <2> QED
    BY <2>3, <2>4, <2>5 DEF Stage
<1>22. Stages'
  BY <1>13, <1>19, <1>20, <1>21 DEF Stages, Stage
<1>23. ASSUME Pins PROVE Pins'
  <2>1. /\ key' = key /\ trust' = trust
        /\ conns'[c].to[Server] = conns[c].to[Server]
        /\ conns'[c].to[Client] = wire
    BY <1>1, <1>11, <1>12, <1>13 DEF files
  <2>2. KeysExist'
    BY <1>23, <2>1 DEF Pins, KeysExist
  <2>3. ClientPins'
    <3>1. CASE at[Client].conn = c
      <4>1. at[Client].pc \in OnOne => at[Client].pc = "intro" /\ old = << >>
        <5>1. at[Client].pc \in OnOne => On(Client, c)
          BY <3>1 DEF On, OnOne
        <5> QED
          BY <1>9, <5>1, WhereItIs DEF OnOne, Waiting
      <4>2. CASE at[Client].pc = "intro"
        <5>1. wire # << >> => wire = Append(old, Intro(Server)) /\ old = << >>
          BY <4>1, <4>2 DEF wire, OnOne, Waiting
        <5>2. wire # << >> => wire[1].identity = key[Server]
          <6> SUFFICES ASSUME wire # << >> PROVE wire[1].identity = key[Server]
            OBVIOUS
          <6> PICK m : m = Intro(Server)
            OBVIOUS
          <6>1. wire = Append(<< >>, m) /\ m.identity = key[Server]
            BY <5>1 DEF Intro
          <6>2. Append(<< >>, m)[1] = m
            OBVIOUS
          <6> QED
            BY <6>1, <6>2
        <5> QED
          BY <1>14, <2>1, <3>1, <4>2, <5>2 DEF ClientPins
      <4>3. CASE at[Client].pc # "intro"
        BY <1>14, <4>1, <4>3 DEF ClientPins, OnOne, Waiting
      <4> QED
        BY <4>2, <4>3
    <3>2. CASE at[Client].conn # c
      <4>1. ~On(Server, at[Client].conn)'
        BY <1>14, <3>2 DEF On
      <4>2. at[Client].pc \in {"intro", "ask", "msg2"} =>
              conns'[at[Client].conn].to[Client] = conns[at[Client].conn].to[Client]
        BY <1>1, <1>13, <3>2, OwnConnection DEF OnOne, Waiting
      <4> QED
        BY <1>14, <1>23, <2>1, <4>1, <4>2, ClientPinsKept DEF Pins
    <3> QED
      BY <3>1, <3>2
  <2>4. Announced(c)' = Announced(c)
    BY <2>1 DEF Announced
  <2>5. ServerPins'
    <3>1. On(Client, c)' => Announced(c) = key[Client]
      BY <1>2, <1>18, <1>23 DEF Pins, QueuePins
    <3> QED
      BY <1>14, <2>1, <2>4, <3>1 DEF ServerPins, On, Announced
  <2>6. /\ SameQueue /\ Shift(1)
        /\ \A n : On(Client, n)' => On(Client, n)
    <3>1. \A n \in DOMAIN conns : conns'[n].to[Server] = conns[n].to[Server]
      BY <1>13, <2>1
    <3>2. \A i \in DOMAIN backlog' : i \in Nat
      BY <1>15
    <3> QED
      BY <1>3, <1>15, <1>18, <3>1, <3>2 DEF SameQueue, Shift
  <2>7. QueuePins'
    BY <1>23, <2>1, <2>6, QueueKept DEF Pins
  <2>8. LookPins'
    <3> PICK m : m = Announced(c)
      OBVIOUS
    <3>1. /\ trust[Server] <= m /\ m <= key[Client]
          /\ \A i \in DOMAIN backlog : m <= Announced(backlog[i])
      <4>1. \A i \in DOMAIN backlog : 1 <= i
        BY Before
      <4> QED
        BY <1>2, <1>23, <4>1 DEF Pins, QueuePins
    <3>2. NotBefore(m)'
      BY <2>1, <2>6, <3>1, NotBeforeKept DEF NotBefore
    <3> QED
      BY <1>14, <2>4, <3>2 DEF LookPins, Announced
  <2> QED
    BY <2>2, <2>3, <2>5, <2>7, <2>8 DEF Pins
<1> QED
  BY <1>1, <1>13, <1>14, <1>15, <1>22, <1>23, Before, Typed, TypedAfter DEF files, PinsKept

-----------------------------------------------------------------------------
(* The theorems.                                                           *)

LEMMA InitStages ==
  Init => TypeOK /\ Stages
<1> SUFFICES ASSUME Init PROVE TypeOK /\ Stages
  OBVIOUS
<1>1. TypeOK
  <2>1. at \in [Side -> Position]
    BY Resting DEF Init
  <2>2. /\ conns \in Seq(Connection) /\ backlog \in Seq(Nat) /\ strikes \in Nat
        /\ key \in [Side -> Nat] /\ trust \in [Side -> Nat]
    BY DEF Init, NoKey
  <2> QED
    BY <2>1, <2>2, Typed
<1>2. DOMAIN conns = {} /\ DOMAIN backlog = {} /\ Len(conns) = 0
  BY DEF Init
<1>3. Served
  BY <1>2, Resting DEF Init, Served, Waiting
<1> QED
  BY <1>1, <1>2, <1>3 DEF Stages

LEMMA NextStages ==
  TypeOK /\ Stages /\ [Next]_vars => (TypeOK /\ Stages)'
<1> SUFFICES ASSUME TypeOK, Stages, [Next]_vars PROVE TypeOK' /\ Stages'
  OBVIOUS
<1>1. CASE Cool
  BY <1>1, CoolKeeps
<1>2. ASSUME NEW p \in Side, Start(p) PROVE TypeOK' /\ Stages'
  BY <1>2, StartKeeps
<1>3. ASSUME NEW p \in Side, EditFiles(p) PROVE TypeOK' /\ Stages'
  BY <1>3, EditFilesKeeps
<1>4. ASSUME NEW p \in Side, Runs(p) PROVE TypeOK' /\ Stages'
  <2>1. CASE Connect
    BY <2>1, ConnectKeeps
  <2>2. CASE ConnectRefused
    BY <2>2, ConnectRefusedKeeps
  <2>3. CASE Reject
    BY <2>3, RejectKeeps
  <2>4. CASE Accept
    BY <2>4, AcceptKeeps
  <2>5. CASE ReadMessage1
    BY <2>5, ReadMessage1Keeps
  <2>6. CASE ReadMessage2
    BY <2>6, ReadMessage2Keeps
  <2>7. CASE ReadMessage3
    BY <2>7, ReadMessage3Keeps
  <2>8. CASE TimeOut(p)
    BY <2>8, TimeOutKeeps
  <2>9. CASE ConnectionFails(p)
    BY <2>9, ConnectionFailsKeeps
  <2>10. CASE ReadIntro(p)
    BY <2>10, ReadIntroKeeps
  <2>11. CASE SessionLost(p)
    BY <2>11, SessionEndKeeps
  <2> QED
    BY <1>4, <2>1, <2>2, <2>3, <2>4, <2>5, <2>6, <2>7, <2>8, <2>9, <2>10, <2>11 DEF Runs
<1>5. ASSUME NEW p \in Side, Answer(p) PROVE TypeOK' /\ Stages'
  <2>1. CASE Trust(p)
    BY <2>1, TrustKeeps
  <2>2. CASE Decline(p)
    BY <2>2, HandshakeErrorKeeps DEF Decline
  <2> QED
    BY <1>5, <2>1, <2>2 DEF Answer
<1>6. ASSUME NEW p \in Side, SessionLost(p) \/ Hangup(p) PROVE TypeOK' /\ Stages'
  BY <1>6, SessionEndKeeps
<1>7. ASSUME NEW p \in Side, Quit(p) PROVE TypeOK' /\ Stages'
  BY <1>7, QuitKeeps
<1>8. CASE UNCHANGED vars
  <2>1. Stages'
    BY <1>8, Unmoved DEF vars, files
  <2> QED
    BY <1>8, <2>1 DEF vars, files, TypeOK
<1> QED
  BY <1>1, <1>2, <1>3, <1>4, <1>5, <1>6, <1>7, <1>8 DEF Next

(* On every connection, at every time, the positions of the two sides and  *)
(* the messages on the way belong together (TypeOK, Stages): connect(),    *)
(* handle_connection and the workers of gui.py serve a connection once,    *)
(* and a message is only read where handshake.py expects its kind.         *)
THEOREM StagesHold == Spec => [](TypeOK /\ Stages)
<1>1. Init => TypeOK /\ Stages
  BY InitStages
<1>2. (TypeOK /\ Stages) /\ [Next]_vars => (TypeOK /\ Stages)'
  BY NextStages
<1> QED
  BY <1>1, <1>2, PTL DEF Spec

LEMMA InitPins ==
  Init => Pins
<1> SUFFICES ASSUME Init PROVE Pins
  OBVIOUS
<1>1. /\ key[Client] = 1 /\ key[Server] = 1 /\ trust[Server] = 0
      /\ at[Client].pc = "off" /\ at[Server].pc = "off"
      /\ DOMAIN backlog = {}
  BY Sides DEF Init, Off, NoKey
<1>2. KeysExist
  BY <1>1, Sides DEF KeysExist, NoKey
<1> QED
  BY <1>1, <1>2 DEF Pins, ClientPins, ServerPins, QueuePins, LookPins

LEMMA NextPins ==
  TypeOK /\ Stages /\ Pins /\ [Next]_vars => Pins'
<1> SUFFICES ASSUME TypeOK, Stages, Pins, [Next]_vars PROVE PinsKept
  BY DEF PinsKept
<1>1. CASE Cool
  BY <1>1, CoolKeeps
<1>2. ASSUME NEW p \in Side, Start(p) PROVE PinsKept
  BY <1>2, StartKeeps
<1>3. ASSUME NEW p \in Side, EditFiles(p) PROVE PinsKept
  BY <1>3, EditFilesKeeps
<1>4. ASSUME NEW p \in Side, Runs(p) PROVE PinsKept
  <2>1. CASE Connect
    BY <2>1, ConnectKeeps
  <2>2. CASE ConnectRefused
    BY <2>2, ConnectRefusedKeeps
  <2>3. CASE Reject
    BY <2>3, RejectKeeps
  <2>4. CASE Accept
    BY <2>4, AcceptKeeps
  <2>5. CASE ReadMessage1
    BY <2>5, ReadMessage1Pins
  <2>6. CASE ReadMessage2
    BY <2>6, ReadMessage2Pins
  <2>7. CASE ReadMessage3
    BY <2>7, ReadMessage3Pins
  <2>8. CASE TimeOut(p)
    BY <2>8, TimeOutKeeps
  <2>9. CASE ConnectionFails(p)
    BY <2>9, ConnectionFailsKeeps
  <2>10. CASE ReadIntro(p)
    BY <2>10, ReadIntroPins
  <2>11. CASE SessionLost(p)
    BY <2>11, SessionEndKeeps
  <2> QED
    BY <1>4, <2>1, <2>2, <2>3, <2>4, <2>5, <2>6, <2>7, <2>8, <2>9, <2>10, <2>11 DEF Runs
<1>5. ASSUME NEW p \in Side, Answer(p) PROVE PinsKept
  <2>1. CASE Trust(p)
    BY <2>1, TrustPins
  <2>2. CASE Decline(p)
    BY <2>2, HandshakeErrorKeeps DEF Decline
  <2> QED
    BY <1>5, <2>1, <2>2 DEF Answer
<1>6. ASSUME NEW p \in Side, SessionLost(p) \/ Hangup(p) PROVE PinsKept
  BY <1>6, SessionEndKeeps
<1>7. ASSUME NEW p \in Side, Quit(p) PROVE PinsKept
  BY <1>7, QuitKeeps
<1>8. CASE UNCHANGED vars
  BY <1>8, PinsUnmoved DEF vars, files
<1> QED
  BY <1>1, <1>2, <1>3, <1>4, <1>5, <1>6, <1>7, <1>8 DEF Next

(* The inductive invariant of the handshake: the stages, and with them     *)
(* that each side has pinned, or is about to pin, the key of the program   *)
(* at the other end (identity.py's trust store), and that the listener     *)
(* sees the client's keys in the order the client had them.                *)
THEOREM HandshakeInvariance == Spec => []HandshakeInv
<1>1. Init => HandshakeInv
  BY InitStages, InitPins DEF HandshakeInv
<1>2. HandshakeInv /\ [Next]_vars => HandshakeInv'
  BY NextStages, NextPins DEF HandshakeInv
<1> QED
  BY <1>1, <1>2, PTL DEF Spec

(* Between honest ends the alarm of initiator_finish and responder_finish  *)
(* is never raised: the signature that is waiting to be read verifies with *)
(* the pinned key, whatever was given up, replaced or cleared before.      *)
THEOREM NoAlarm == Spec => []NoFalseAlarm
<1>1. HandshakeInv => NoFalseAlarm
  BY Message2IsGood, Message3IsGood DEF HandshakeInv, NoFalseAlarm
<1> QED
  BY <1>1, HandshakeInvariance, PTL

LEMMA PenaltyStep ==
  ASSUME HandshakeInv, Next, kind[Server] = "cli", strikes' > strikes
  PROVE  trust[Server] \notin {NoKey, key[Client]}
<1>0. TypeOK /\ Stages /\ Pins /\ strikes \in Nat /\ ~(0 > strikes)
  BY Typed DEF HandshakeInv
<1>1. strikes' # strikes /\ strikes' # 0
  BY <1>0
<1>2. PICK p \in Side : Runs(p) \/ Answer(p)
  BY <1>1 DEF Next, Cool, Start, EditFiles, SessionLost, Hangup, Quit
<1>3. ~(p = Client /\ (Connect \/ ConnectRefused)) /\ ~(p = Server /\ (Reject \/ Accept))
  BY <1>1 DEF Connect, ConnectRefused, Reject, Accept
<1>4. ~(p = Client /\ ReadMessage2)
  BY <1>1, Sides DEF ReadMessage2, HandshakeError, Penalty
<1>5. ~(p = Server /\ (ReadMessage1 \/ ReadMessage3))
  BY <1>0, <1>1, Message3IsGood DEF ReadMessage1, ReadMessage3
<1>6. ~TimeOut(p) /\ ~ConnectionFails(p) /\ ~SessionLost(p)
  BY <1>1 DEF TimeOut, ConnectionFails, SessionLost
<1>7. ~Answer(p)
  BY <1>1 DEF Answer, Trust, Decline, HandshakeError, Penalty
<1>8. ReadIntro(p)
  BY <1>2, <1>3, <1>4, <1>5, <1>6, <1>7 DEF Runs
<1>9. /\ p = Server /\ at[Server].pc = "intro" /\ Inbox(Server) # << >>
      /\ trust[Server] # NoKey /\ trust[Server] # Head(Inbox(Server)).identity
  BY <1>1, <1>8 DEF ReadIntro, HandshakeError, Penalty
<1> PICK c : c = at[Server].conn
  OBVIOUS
<1>10. Head(Inbox(Server)).identity = Announced(c)
  <2>1. Inbox(Server) = conns[c].to[Server] /\ Inbox(Server) \in Seq(Message)
    BY <1>0, <1>9, Streams, Sides DEF OnOne, Waiting
  <2> QED
    BY <1>9, <2>1, OneLess DEF Announced
<1>11. trust[Server] <= Announced(c) /\ Announced(c) <= key[Client]
  BY <1>0, <1>9 DEF Pins, LookPins, NotBefore
<1>12. trust[Server] \in Nat /\ Announced(c) \in Nat /\ key[Client] \in Nat
  BY <1>0, <1>9, AnnouncedTypes, Typed, Sides
<1> QED
  BY <1>9, <1>10, <1>11, <1>12

(* server.py counts a failure against an address only when the client that *)
(* is to be charged has another key than the pinned one: neither a declined *)
(* prompt nor a connection that was given up costs an honest client a try. *)
THEOREM OnlyMismatchesCount == Spec => PenaltyIsDeserved
<1>1. HandshakeInv /\ [Next]_vars =>
        [(kind[Server] = "cli" /\ strikes' > strikes)
           => trust[Server] \notin {NoKey, key[Client]}]_vars
  BY PenaltyStep
<1> QED
  BY <1>1, HandshakeInvariance, PTL DEF Spec, PenaltyIsDeserved

LEMMA StagesMeet ==
  Stages => KeysMeet
<1> SUFFICES ASSUME Stages, NEW n \in DOMAIN conns, BothUp(n)
             PROVE  LET c == at[Client].chan
                        s == at[Server].chan
                    IN  /\ c.send = s.recv /\ c.recv = s.send /\ c.send # c.recv
                        /\ c.root = s.root
                        /\ c.mine = s.peers /\ c.peers = s.mine
  BY DEF KeysMeet
<1>1. /\ On(Client, n) /\ at[Client].pc = "up"
      /\ On(Server, n) /\ at[Server].pc = "up"
  BY Sides DEF BothUp
<1>2. n \notin ToSet(backlog)
  BY <1>1 DEF Stages, Served, ToSet
<1>3. ClientAt(n) = "up" /\ ServerAt(n) = "up"
  BY <1>1, <1>2 DEF ClientAt, ServerAt
<1>4. /\ at[Client].chan = DeriveChannel(Epk(Client, n), Epk(Server, n), TRUE)
      /\ at[Server].chan = DeriveChannel(Epk(Client, n), Epk(Server, n), FALSE)
  BY <1>3 DEF Stages, Derived
<1> QED
  BY <1>4 DEF DeriveChannel, Channel, Hkdf

\* On the connection n each side is in a session with the program whose key it
\* has pinned, and neither believes in a session the other knows nothing of:
\* the listener only when the connecting side is in it, the connecting side
\* when the listener waits for no more than its signature.
Mutual(n) ==
  /\ BothUp(n) => \A p \in Side : trust[p] = key[Other(p)]
  /\ (On(Client, n) /\ On(Server, n)) =>
       /\ at[Server].pc = "up" => at[Client].pc = "up"
       /\ at[Client].pc = "up" => at[Server].pc \notin {"intro", "ask", "msg1"}

LEMMA PinsMeet ==
  ASSUME HandshakeInv, NEW n \in DOMAIN conns
  PROVE  Mutual(n)
<1>1. BothUp(n) => \A p \in Side : trust[p] = key[Other(p)]
  <2> SUFFICES ASSUME BothUp(n) PROVE \A p \in Side : trust[p] = key[Other(p)]
    OBVIOUS
  <2>1. /\ On(Client, n) /\ at[Client].pc = "up" /\ at[Client].conn = n
        /\ On(Server, n) /\ at[Server].pc = "up" /\ at[Server].conn = n
    BY Sides DEF BothUp, On
  <2>2. trust[Client] = key[Server] /\ trust[Server] = key[Client]
    BY <2>1 DEF HandshakeInv, Pins, ClientPins, ServerPins
  <2> QED
    BY <2>2, Sides
<1>2. ASSUME On(Client, n), On(Server, n), at[Server].pc = "up"
      PROVE  at[Client].pc = "up"
  <2>1. at[Server].conn = n
    BY <1>2 DEF On
  <2> QED
    BY <1>2, <2>1 DEF HandshakeInv, Pins, ServerPins
<1>3. ASSUME On(Client, n), On(Server, n), at[Client].pc = "up"
      PROVE  at[Server].pc \notin {"intro", "ask", "msg1"}
  <2>1. ClientAt(n) = "up" /\ ToClient(n)
    BY <1>3 DEF ClientAt, HandshakeInv, Stages
  <2>2. ServerAt(n) = at[Server].pc
    BY <1>3 DEF ServerAt, HandshakeInv, Stages, Served, ToSet
  <2> QED
    BY <2>1, <2>2 DEF ToClient
<1> QED
  BY <1>1, <1>2, <1>3 DEF Mutual

(* Mutual authentication, whatever was given up, killed, lost or cleared   *)
(* before: in a session each end has pinned the key the other one has, and *)
(* responder_finish does not return before initiator_finish has.           *)
THEOREM SessionsAreMutual == Spec => [](\A n \in DOMAIN conns : Mutual(n))
<1>1. HandshakeInv => \A n \in DOMAIN conns : Mutual(n)
  BY PinsMeet
<1> QED
  BY <1>1, HandshakeInvariance, PTL

(* Two ends that are in a session on one connection (_derive_channel has   *)
(* run on both) have made the two halves of one channel: each sends with   *)
(* the key the other receives with, the two directions differ, and the     *)
(* root key and the ratchet's public keys agree.                           *)
THEOREM KeysOfBothEnds == Spec => []KeysMeet
BY StagesHold, StagesMeet, PTL
=============================================================================
