------------------------ MODULE FileReceiverTheorems ------------------------
(***************************************************************************)
(* For any number of workers, transfers, lost connections and failures,    *)
(* and for files of any size: a file reported as received is the file that *)
(* was offered, every other file in the directory is under way or could    *)
(* not be removed, and a slot whose transfer has no frame on the way is    *)
(* owed chunks that were not sent.                                         *)
(***************************************************************************)
EXTENDS FileReceiver, FiniteSetTheorems, TLAPS

-----------------------------------------------------------------------------
(* An invariant that implies them and that every step keeps.               *)

Chunk == [transfer : Transfer, part : Nat, same : BOOLEAN]
Frame == [kind : {"offer"}, transfer : Transfer]
           \cup [kind : {"chunk"}, transfer : Transfer, data : Chunk]

Shapes ==
  /\ to \in [Transfer -> Worker]
  /\ sender \in [Transfer -> [at : {"idle", "offer", "chunks", "over"},
                              session : Int, sent : Nat]]
  /\ session \in [Worker -> Int]
  /\ wire \in [Worker -> Seq(Frame)]
  /\ at \in [Worker -> {Receiving, [pc |-> "dead"]}
                \cup [pc : {"look", "open"}, transfer : Transfer, path : Nat]]
  /\ DOMAIN inbound = Worker
  /\ \A w \in Worker : \A t \in DOMAIN inbound[w] :
       inbound[w][t] \in [path : Nat, digest : Seq(Chunk)]
  /\ reported \subseteq [transfer : Transfer, path : Nat]

\* Everything a worker has to do with a transfer goes to that worker.
Making(a, t) == a.pc \in {"look", "open"} /\ a.transfer = t
Routed ==
  \A w \in Worker :
    /\ \A i \in DOMAIN wire[w] : to[wire[w][i].transfer] = w
    /\ \A t \in DOMAIN inbound[w] : t \in Transfer /\ to[t] = w
    /\ \A t \in Transfer : Making(at[w], t) => to[t] = w

\* The frames of t on a wire: an offer is the first, the chunks are in order.
IsOffer(m, t) == m.kind = "offer" /\ m.transfer = t
IsChunk(m, t) == m.kind = "chunk" /\ m.transfer = t
InOrder(frames, t, sent) ==
  /\ \A i \in DOMAIN frames :
       IsChunk(frames[i], t) => frames[i].data.part \in 1 .. sent
  /\ \A i, j \in DOMAIN frames :
       (i < j /\ frames[i].transfer = t /\ frames[j].transfer = t) =>
         /\ IsChunk(frames[j], t)
         /\ IsChunk(frames[i], t) => frames[i].data.part < frames[j].data.part

\* The chunks of t from one to another are all on the wire.
OnWire(frames, t, first, last) ==
  \A k \in first .. last : \E i \in DOMAIN frames :
    IsChunk(frames[i], t) /\ frames[i].data.part = k

\* A transfer is offered once, and from its offer on no chunk is lost while
\* the connection lasts and the worker lives.
Unsent(frames, s, a, slots, t) ==
  s.at \in {"idle", "offer"} =>
    /\ s.sent = 0
    /\ \A i \in DOMAIN frames : frames[i].transfer # t
    /\ ~Making(a, t)
    /\ t \notin DOMAIN slots
Announced(frames, s, a, slots, t) ==
  (\E i \in DOMAIN frames : IsOffer(frames[i], t)) =>
    /\ ~Making(a, t)
    /\ t \notin DOMAIN slots
    /\ OnWire(frames, t, 1, s.sent)
Accepted(frames, s, a, slots, t) ==
  Making(a, t) => t \notin DOMAIN slots /\ OnWire(frames, t, 1, s.sent)
Waiting(frames, s, a, slots, t) ==
  (t \in DOMAIN slots /\ a.pc # "dead") =>
    /\ Len(slots[t].digest) < Size
    /\ OnWire(frames, t, Len(slots[t].digest) + 1, s.sent)
Transit(frames, s, a, slots, t) ==
  /\ InOrder(frames, t, s.sent)
  /\ Unsent(frames, s, a, slots, t)
  /\ Announced(frames, s, a, slots, t)
  /\ Accepted(frames, s, a, slots, t)
  /\ Waiting(frames, s, a, slots, t)
Transits ==
  \A t \in Transfer :
    Transit(wire[to[t]], sender[t], at[to[t]], inbound[to[t]], t)

\* There is a slot for what the worker is making.
SlotsFit ==
  \A w \in Worker :
    /\ IsFiniteSet(DOMAIN inbound[w])
    /\ Cardinality(DOMAIN inbound[w]) <= MaxInbound
    /\ at[w].pc \in {"look", "open"} => Cardinality(DOMAIN inbound[w]) < MaxInbound

\* A path that no two workers opened belongs to one slot or one report.
Owned ==
  \A w \in Worker : \A t \in DOMAIN inbound[w] :
    inbound[w][t].path \notin overrun =>
      /\ inbound[w][t].path \in DOMAIN disk
      /\ disk[inbound[w][t].path] = inbound[w][t].digest
Apart ==
  \A w, v \in Worker : \A t \in DOMAIN inbound[w], u \in DOMAIN inbound[v] :
    (inbound[w][t].path = inbound[v][u].path /\ inbound[w][t].path \notin overrun)
      => t = u
Settled ==
  \A r \in reported : r.path \notin overrun =>
    \A w \in Worker : \A t \in DOMAIN inbound[w] : inbound[w][t].path # r.path
Accounted ==
  \A p \in DOMAIN disk \ overrun : Received(p) \/ UnderWay(p) \/ p \in stuck
StuckApart ==
  \A p \in stuck \ overrun : ~Received(p) /\ ~UnderWay(p)
Fresh ==
  \A w \in Worker : (at[w].pc = "open" /\ at[w].path \notin overrun) =>
    /\ \A t \in DOMAIN inbound[w] : inbound[w][t].path # at[w].path
    /\ \A r \in reported : to[r.transfer] = w => r.path # at[w].path

Paths ==
  Owned /\ Apart /\ ReceivedIsWhole /\ Settled /\ Accounted /\ StuckApart /\ Fresh

FileReceiverInv == Shapes /\ Routed /\ Transits /\ SlotsFit /\ Paths

-----------------------------------------------------------------------------
(* Frames on a wire.                                                       *)

LEMMA FrameFacts ==
  ASSUME NEW m \in Frame
  PROVE  /\ m.transfer \in Transfer
         /\ m.kind \in {"offer", "chunk"}
         /\ m.kind = "chunk" => m.data \in Chunk /\ m.data.part \in Nat
BY DEF Frame, Chunk

LEMMA AppendFacts ==
  ASSUME NEW S, NEW q \in Seq(S), NEW m \in S
  PROVE  /\ Append(q, m) \in Seq(S)
         /\ DOMAIN Append(q, m) = 1 .. Len(q) + 1
         /\ DOMAIN q = 1 .. Len(q)
         /\ Len(q) \in Nat
         /\ \A i \in 1 .. Len(q) : Append(q, m)[i] = q[i]
         /\ Append(q, m)[Len(q) + 1] = m
OBVIOUS

LEMMA TailFacts ==
  ASSUME NEW S, NEW q \in Seq(S), q # << >>
  PROVE  /\ Head(q) \in S
         /\ Head(q) = q[1]
         /\ Tail(q) \in Seq(S)
         /\ DOMAIN q = 1 .. Len(q)
         /\ DOMAIN Tail(q) = 1 .. Len(q) - 1
         /\ Len(q) \in Nat \ {0}
         /\ \A i \in 1 .. Len(q) - 1 : Tail(q)[i] = q[i + 1]
OBVIOUS

\* How the frames of r, one more than q, stand: in q, or as the last.
OneFrameMore(r, q, m) ==
  /\ r \in Seq(Frame)
  /\ Len(q) \in Nat /\ DOMAIN q = 1 .. Len(q) /\ DOMAIN r = 1 .. Len(q) + 1
  /\ \A i \in 1 .. Len(q) : r[i] = q[i]
  /\ r[Len(q) + 1] = m

LEMMA FrameAppended ==
  ASSUME NEW q \in Seq(Frame), NEW m \in Frame
  PROVE  OneFrameMore(Append(q, m), q, m)
BY AppendFacts DEF OneFrameMore

\* In such frames those of t stay in order when m is not of t, or comes after.
LEMMA LastInOrder ==
  ASSUME NEW q \in Seq(Frame), NEW m \in Frame, NEW r, OneFrameMore(r, q, m),
         NEW t \in Transfer, NEW n \in Nat, NEW k \in Nat, n <= k,
         InOrder(q, t, n),
         IsChunk(m, t) => m.data.part \in 1 .. k,
         \A i \in DOMAIN q : m.transfer = t /\ q[i].transfer = t =>
           /\ IsChunk(m, t)
           /\ IsChunk(q[i], t) => q[i].data.part < m.data.part
  PROVE  InOrder(r, t, k)
<1>1. \A i \in DOMAIN r : (i \in DOMAIN q /\ r[i] = q[i]) \/ (i = Len(q) + 1 /\ r[i] = m)
  BY DEF OneFrameMore
<1>2. \A i, j \in DOMAIN r : i < j => i \in DOMAIN q /\ r[i] = q[i]
  BY DEF OneFrameMore
<1>3. ASSUME NEW i \in DOMAIN r, IsChunk(r[i], t)
      PROVE  r[i].data.part \in 1 .. k
  <2>1. CASE i \in DOMAIN q /\ r[i] = q[i]
    BY <1>3, <2>1 DEF InOrder
  <2>2. CASE r[i] = m
    BY <1>3, <2>2
  <2> QED
    BY <1>1, <2>1, <2>2
<1>4. ASSUME NEW i \in DOMAIN r, NEW j \in DOMAIN r, i < j,
             r[i].transfer = t, r[j].transfer = t
      PROVE  /\ IsChunk(r[j], t)
             /\ IsChunk(r[i], t) => r[i].data.part < r[j].data.part
  <2>1. i \in DOMAIN q /\ r[i] = q[i]
    BY <1>2, <1>4
  <2>2. CASE j \in DOMAIN q /\ r[j] = q[j]
    BY <1>4, <2>1, <2>2 DEF InOrder
  <2>3. CASE r[j] = m
    BY <1>4, <2>1, <2>3
  <2> QED
    BY <1>1, <2>2, <2>3
<1> QED
  BY <1>3, <1>4 DEF InOrder

LEMMA AppendOther ==
  ASSUME NEW q \in Seq(Frame), NEW m \in Frame, NEW t \in Transfer, NEW n \in Nat,
         m.transfer # t, InOrder(q, t, n)
  PROVE  InOrder(Append(q, m), t, n)
<1>1. n <= n /\ ~IsChunk(m, t)
  BY DEF IsChunk
<1> QED
  BY <1>1, FrameAppended, LastInOrder

LEMMA AppendOffer ==
  ASSUME NEW q \in Seq(Frame), NEW m \in Frame, NEW t \in Transfer, NEW n \in Nat,
         IsOffer(m, t), \A i \in DOMAIN q : q[i].transfer # t
  PROVE  InOrder(Append(q, m), t, n)
BY AppendFacts DEF InOrder, IsChunk, IsOffer

LEMMA AppendChunk ==
  ASSUME NEW q \in Seq(Frame), NEW m \in Frame, NEW t \in Transfer, NEW n \in Nat,
         IsChunk(m, t), m.data.part = n + 1, InOrder(q, t, n)
  PROVE  InOrder(Append(q, m), t, n + 1)
<1>1. n + 1 \in Nat /\ n <= n + 1 /\ m.data.part \in 1 .. n + 1
  OBVIOUS
<1>2. \A i \in DOMAIN q : IsChunk(q[i], t) => q[i].data.part < m.data.part
  BY DEF InOrder
<1> QED
  BY <1>1, <1>2, FrameAppended, LastInOrder

LEMMA TailInOrder ==
  ASSUME NEW q \in Seq(Frame), q # << >>, NEW t \in Transfer, NEW n \in Nat,
         InOrder(q, t, n)
  PROVE  InOrder(Tail(q), t, n)
<1>0. PICK v : v = Tail(q)
  OBVIOUS
<1>1. \A i \in DOMAIN v : i \in Nat /\ i + 1 \in DOMAIN q /\ v[i] = q[i + 1]
  BY <1>0, TailFacts
<1>2. \A i, j \in DOMAIN v : i < j => i + 1 < j + 1
  BY <1>1
<1>3. InOrder(v, t, n)
  BY <1>1, <1>2 DEF InOrder, IsChunk
<1> QED
  BY <1>0, <1>3, Zenon

\* After a frame of t, what is still on the wire of t are chunks.
LEMMA NoOfferLater ==
  ASSUME NEW q \in Seq(Frame), q # << >>, NEW t \in Transfer, NEW n \in Nat,
         InOrder(q, t, n), Head(q).transfer = t
  PROVE  ~ \E i \in DOMAIN Tail(q) : IsOffer(Tail(q)[i], t)
BY TailFacts DEF InOrder, IsChunk, IsOffer

LEMMA OnWireAppend ==
  ASSUME NEW q \in Seq(Frame), NEW m \in Frame, NEW t \in Transfer,
         NEW a \in Nat, NEW n \in Nat, OnWire(q, t, a, n)
  PROVE  OnWire(Append(q, m), t, a, n)
BY AppendFacts DEF OnWire

LEMMA OnWireChunk ==
  ASSUME NEW q \in Seq(Frame), NEW m \in Frame, NEW t \in Transfer,
         NEW a \in Nat, NEW n \in Nat, OnWire(q, t, a, n),
         IsChunk(m, t), m.data.part = n + 1
  PROVE  OnWire(Append(q, m), t, a, n + 1)
<1> SUFFICES ASSUME NEW k \in a .. n + 1
             PROVE  \E i \in DOMAIN Append(q, m) :
                      IsChunk(Append(q, m)[i], t) /\ Append(q, m)[i].data.part = k
  BY DEF OnWire
<1>1. CASE k = n + 1
  BY <1>1, AppendFacts
<1>2. CASE k # n + 1
  <2>1. k \in a .. n
    BY <1>2
  <2>2. PICK i \in DOMAIN q : IsChunk(q[i], t) /\ q[i].data.part = k
    BY <2>1 DEF OnWire
  <2> QED
    BY <2>2, AppendFacts
<1> QED
  BY <1>1, <1>2

LEMMA OnWireTail ==
  ASSUME NEW q \in Seq(Frame), q # << >>, NEW t \in Transfer,
         NEW a \in Nat, NEW n \in Nat, OnWire(q, t, a, n), ~ IsChunk(Head(q), t)
  PROVE  OnWire(Tail(q), t, a, n)
<1> SUFFICES ASSUME NEW k \in a .. n
             PROVE  \E i \in DOMAIN Tail(q) :
                      IsChunk(Tail(q)[i], t) /\ Tail(q)[i].data.part = k
  BY DEF OnWire
<1>1. PICK i \in DOMAIN q : IsChunk(q[i], t) /\ q[i].data.part = k
  BY DEF OnWire
<1>2. i # 1 /\ i - 1 \in DOMAIN Tail(q) /\ Tail(q)[i - 1] = q[i]
  BY <1>1, TailFacts
<1> QED
  BY <1>1, <1>2

\* Reading the first of them leaves the others.
LEMMA OnWireRead ==
  ASSUME NEW q \in Seq(Frame), q # << >>, NEW t \in Transfer,
         NEW a \in Nat, NEW n \in Nat, InOrder(q, t, n), OnWire(q, t, a, n),
         IsChunk(Head(q), t)
  PROVE  OnWire(Tail(q), t, a + 1, n)
<1> SUFFICES ASSUME NEW k \in a + 1 .. n
             PROVE  \E i \in DOMAIN Tail(q) :
                      IsChunk(Tail(q)[i], t) /\ Tail(q)[i].data.part = k
  BY DEF OnWire
<1>1. k \in a .. n /\ k - 1 \in a .. n
  OBVIOUS
<1>2. PICK i \in DOMAIN q : IsChunk(q[i], t) /\ q[i].data.part = k
  BY <1>1 DEF OnWire
<1>3. PICK j \in DOMAIN q : IsChunk(q[j], t) /\ q[j].data.part = k - 1
  BY <1>1 DEF OnWire
<1>4. i # 1
  <2> SUFFICES ASSUME i = 1
               PROVE  FALSE
    OBVIOUS
  <2>1. j > 1
    BY <1>2, <1>3, TailFacts
  <2>2. q[i].data.part < q[j].data.part
    BY <1>2, <1>3, <2>1 DEF InOrder, IsChunk
  <2> QED
    BY <1>2, <1>3, <2>2
<1>5. i - 1 \in DOMAIN Tail(q) /\ Tail(q)[i - 1] = q[i]
  BY <1>4, TailFacts
<1> QED
  BY <1>2, <1>5

-----------------------------------------------------------------------------
(* A transfer at the steps of others.                                      *)

\* Nothing of t is read or written, nor its slot changed, unless given up.
LeavesAlone(q, r, a, b, slots, rest, t) ==
  /\ \/ r = q
     \/ q # << >> /\ r = Tail(q) /\ Head(q).transfer # t
     \/ \E m \in Frame : m.transfer # t /\ r = Append(q, m)
  /\ Making(b, t) => Making(a, t)
  /\ a.pc = "dead" => b.pc = "dead"
  /\ t \in DOMAIN rest => t \in DOMAIN slots /\ rest[t] = slots[t]

LEMMA OfferElsewhere ==
  ASSUME NEW q \in Seq(Frame), NEW r, NEW t \in Transfer,
         \/ r = q
         \/ q # << >> /\ r = Tail(q) /\ Head(q).transfer # t
         \/ \E m \in Frame : m.transfer # t /\ r = Append(q, m),
         NEW i \in DOMAIN r, r[i].transfer = t
  PROVE  \E j \in DOMAIN q : q[j] = r[i]
<1>1. CASE r = q
  BY <1>1
<1>2. CASE q # << >> /\ r = Tail(q) /\ Head(q).transfer # t
  <2>1. i + 1 \in DOMAIN q /\ q[i + 1] = r[i]
    BY <1>2, TailFacts
  <2> QED
    BY <2>1
<1>3. CASE \E m \in Frame : m.transfer # t /\ r = Append(q, m)
  <2>1. PICK m \in Frame : m.transfer # t /\ r = Append(q, m)
    BY <1>3
  <2>2. i \in DOMAIN q /\ q[i] = r[i]
    BY <2>1, AppendFacts
  <2> QED
    BY <2>2
<1> QED
  BY <1>1, <1>2, <1>3

LEMMA InOrderElsewhere ==
  ASSUME NEW q \in Seq(Frame), NEW r, NEW t \in Transfer, NEW n \in Nat,
         \/ r = q
         \/ q # << >> /\ r = Tail(q) /\ Head(q).transfer # t
         \/ \E m \in Frame : m.transfer # t /\ r = Append(q, m),
         InOrder(q, t, n)
  PROVE  InOrder(r, t, n)
<1>1. CASE r = q
  BY <1>1
<1>2. CASE q # << >> /\ r = Tail(q)
  BY <1>2, TailInOrder
<1>3. CASE \E m \in Frame : m.transfer # t /\ r = Append(q, m)
  <2>1. PICK m \in Frame : m.transfer # t /\ r = Append(q, m)
    BY <1>3
  <2> QED
    BY <2>1, AppendOther
<1> QED
  BY <1>1, <1>2, <1>3

LEMMA OnWireElsewhere ==
  ASSUME NEW q \in Seq(Frame), NEW r, NEW t \in Transfer, NEW c \in Nat, NEW n \in Nat,
         \/ r = q
         \/ q # << >> /\ r = Tail(q) /\ Head(q).transfer # t
         \/ \E m \in Frame : m.transfer # t /\ r = Append(q, m),
         OnWire(q, t, c, n)
  PROVE  OnWire(r, t, c, n)
<1>1. CASE r = q
  BY <1>1
<1>2. CASE q # << >> /\ r = Tail(q) /\ Head(q).transfer # t
  <2>1. ~ IsChunk(Head(q), t)
    BY <1>2 DEF IsChunk
  <2> QED
    BY <1>2, <2>1, OnWireTail
<1>3. CASE \E m \in Frame : m.transfer # t /\ r = Append(q, m)
  <2>1. PICK m \in Frame : m.transfer # t /\ r = Append(q, m)
    BY <1>3
  <2> QED
    BY <2>1, OnWireAppend
<1> QED
  BY <1>1, <1>2, <1>3

LEMMA TransitElsewhere ==
  ASSUME NEW q \in Seq(Frame), NEW r, NEW t \in Transfer, NEW s, s.sent \in Nat,
         NEW a, NEW b, NEW slots, NEW rest,
         t \in DOMAIN slots => Len(slots[t].digest) \in Nat,
         LeavesAlone(q, r, a, b, slots, rest, t),
         Transit(q, s, a, slots, t)
  PROVE  Transit(r, s, b, rest, t)
<1>1. /\ Making(b, t) => Making(a, t)
      /\ a.pc = "dead" => b.pc = "dead"
      /\ t \in DOMAIN rest => t \in DOMAIN slots /\ rest[t] = slots[t]
  BY DEF LeavesAlone
<1>2. \/ r = q
      \/ q # << >> /\ r = Tail(q) /\ Head(q).transfer # t
      \/ \E m \in Frame : m.transfer # t /\ r = Append(q, m)
  BY DEF LeavesAlone
<1>3. \A i \in DOMAIN r : r[i].transfer = t => \E j \in DOMAIN q : q[j] = r[i]
  BY <1>2, OfferElsewhere
<1>4. \A c \in Nat : OnWire(q, t, c, s.sent) => OnWire(r, t, c, s.sent)
  BY <1>2, OnWireElsewhere
<1>5. InOrder(r, t, s.sent)
  BY <1>2, InOrderElsewhere DEF Transit
<1>6. Unsent(r, s, b, rest, t)
  BY <1>1, <1>3 DEF Transit, Unsent
<1>7. Announced(r, s, b, rest, t)
  <2>1. (\E i \in DOMAIN r : IsOffer(r[i], t)) => \E j \in DOMAIN q : IsOffer(q[j], t)
    BY <1>3 DEF IsOffer
  <2> QED
    BY <1>1, <1>4, <2>1 DEF Transit, Announced
<1>8. Accepted(r, s, b, rest, t)
  BY <1>1, <1>4 DEF Transit, Accepted
<1>9. Waiting(r, s, b, rest, t)
  BY <1>1, <1>4 DEF Transit, Waiting
<1> QED
  BY <1>5, <1>6, <1>7, <1>8, <1>9 DEF Transit

-----------------------------------------------------------------------------
(* A transfer at its own steps.                                            *)

LEMMA TransitOffered ==
  ASSUME NEW q \in Seq(Frame), NEW m \in Frame, NEW t \in Transfer, NEW s, NEW u,
         NEW a, NEW slots,
         s.at = "offer", u.at \notin {"idle", "offer"}, u.sent = s.sent,
         IsOffer(m, t), Transit(q, s, a, slots, t)
  PROVE  Transit(Append(q, m), u, a, slots, t)
<1>1. /\ u.sent = 0
      /\ \A i \in DOMAIN q : q[i].transfer # t
      /\ ~Making(a, t)
      /\ t \notin DOMAIN slots
  BY DEF Transit, Unsent
<1>2. InOrder(Append(q, m), t, u.sent)
  BY <1>1, AppendOffer
<1>3. OnWire(Append(q, m), t, 1, u.sent)
  BY <1>1 DEF OnWire
<1> QED
  BY <1>1, <1>2, <1>3 DEF Transit, Unsent, Announced, Accepted, Waiting

LEMMA TransitSent ==
  ASSUME NEW q \in Seq(Frame), NEW m \in Frame, NEW t \in Transfer, NEW s, NEW u,
         NEW a, NEW slots,
         t \in DOMAIN slots => Len(slots[t].digest) \in Nat,
         u.at \notin {"idle", "offer"}, s.sent \in Nat, u.sent = s.sent + 1,
         IsChunk(m, t), m.data.part = u.sent, Transit(q, s, a, slots, t)
  PROVE  Transit(Append(q, m), u, a, slots, t)
<1>1. InOrder(Append(q, m), t, u.sent)
  BY AppendChunk DEF Transit
<1>2. \A c \in Nat : OnWire(q, t, c, s.sent) => OnWire(Append(q, m), t, c, u.sent)
  BY OnWireChunk
<1>3. (\E i \in DOMAIN Append(q, m) : IsOffer(Append(q, m)[i], t))
        => \E i \in DOMAIN q : IsOffer(q[i], t)
  BY AppendFacts DEF IsOffer, IsChunk
<1>4. Announced(Append(q, m), u, a, slots, t)
  BY <1>2, <1>3 DEF Transit, Announced
<1>5. Accepted(Append(q, m), u, a, slots, t)
  BY <1>2 DEF Transit, Accepted
<1>6. Waiting(Append(q, m), u, a, slots, t)
  BY <1>2 DEF Transit, Waiting
<1>7. Unsent(Append(q, m), u, a, slots, t)
  BY DEF Unsent
<1> QED
  BY <1>1, <1>4, <1>5, <1>6, <1>7 DEF Transit

\* A frame of t is read.
LEMMA TransitRead ==
  ASSUME NEW q \in Seq(Frame), q # << >>, NEW t \in Transfer, NEW s, s.sent \in Nat,
         NEW a, NEW slots, NEW b, NEW rest,
         Head(q).transfer = t, Transit(q, s, a, slots, t),
         Accepted(Tail(q), s, b, rest, t), Waiting(Tail(q), s, b, rest, t)
  PROVE  Transit(Tail(q), s, b, rest, t)
<1>1. InOrder(Tail(q), t, s.sent)
  BY TailInOrder DEF Transit
<1>2. Announced(Tail(q), s, b, rest, t)
  BY NoOfferLater DEF Transit, Announced
<1>3. s.at \notin {"idle", "offer"}
  BY TailFacts DEF Transit, Unsent
<1> QED
  BY <1>1, <1>2, <1>3 DEF Transit, Unsent

-----------------------------------------------------------------------------
(* Shapes.                                                                 *)

Position == {Receiving, [pc |-> "dead"]}
              \cup [pc : {"look", "open"}, transfer : Transfer, path : Nat]
Sender == [at : {"idle", "offer", "chunks", "over"}, session : Int, sent : Nat]
Holding == [path : Nat, digest : Seq(Chunk)]

LEMMA ArrivingFacts ==
  ASSUME NEW w \in Worker, Shapes, Routed, wire[w] # << >>
  PROVE  /\ wire[w] \in Seq(Frame)
         /\ Arriving(w) \in Frame
         /\ Arriving(w).transfer \in Transfer
         /\ to[Arriving(w).transfer] = w
         /\ Tail(wire[w]) \in Seq(Frame)
<1>1. wire[w] \in Seq(Frame)
  BY DEF Shapes
<1>2. Head(wire[w]) \in Frame /\ Head(wire[w]) = wire[w][1] /\ 1 \in DOMAIN wire[w]
      /\ Tail(wire[w]) \in Seq(Frame)
  BY <1>1, TailFacts
<1> QED
  BY <1>1, <1>2, FrameFacts DEF Arriving, Routed

LEMMA ReadShape ==
  ASSUME NEW w \in Worker, Shapes, Routed, wire[w] # << >>, Read(w)
  PROVE  /\ wire' \in [Worker -> Seq(Frame)]
         /\ wire'[w] = Tail(wire[w])
         /\ \A v \in Worker : v # w => wire'[v] = wire[v]
BY ArrivingFacts DEF Shapes, Read

LEMMA TransmitShape ==
  ASSUME NEW t \in Transfer, NEW m \in Frame, Shapes, Transmit(t, m)
  PROVE  /\ to[t] \in Worker
         /\ wire' \in [Worker -> Seq(Frame)]
         /\ wire'[to[t]] = Append(wire[to[t]], m)
         /\ \A v \in Worker : v # to[t] => wire'[v] = wire[v]
BY DEF Shapes, Transmit

\* The slots of one worker after a step of it.
NewSlots(slots) ==
  \A t \in DOMAIN slots : slots[t] \in Holding

LEMMA SlotsShape ==
  ASSUME NEW w \in Worker, Shapes, NEW slots, NewSlots(slots),
         inbound' = [inbound EXCEPT ![w] = slots]
  PROVE  /\ DOMAIN inbound' = Worker
         /\ \A v \in Worker : \A t \in DOMAIN inbound'[v] : inbound'[v][t] \in Holding
         /\ inbound'[w] = slots
         /\ \A v \in Worker : v # w => inbound'[v] = inbound[v]
<1>1. DOMAIN inbound' = Worker
      /\ inbound'[w] = slots
      /\ \A v \in Worker : v # w => inbound'[v] = inbound[v]
  BY DEF Shapes
<1>2. \A v \in Worker : \A t \in DOMAIN inbound[v] : inbound[v][t] \in Holding
  BY DEF Shapes, Holding
<1>3. ASSUME NEW v \in Worker, NEW t \in DOMAIN inbound'[v]
      PROVE  inbound'[v][t] \in Holding
  <2>1. CASE v = w
    BY <2>1, <1>1 DEF NewSlots
  <2>2. CASE v # w
    BY <2>2, <1>1, <1>2
  <2> QED
    BY <2>1, <2>2
<1> QED
  BY <1>1, <1>3

\* The slots of a worker after each of its steps.
Opened(w) ==
  [t \in DOMAIN inbound[w] \cup {at[w].transfer} |->
     IF t = at[w].transfer THEN [path |-> at[w].path, digest |-> << >>]
     ELSE inbound[w][t]]

LEMMA MakingFacts ==
  ASSUME NEW w \in Worker, Shapes, at[w].pc \in {"look", "open"}
  PROVE  /\ at[w] \in [pc : {"look", "open"}, transfer : Transfer, path : Nat]
         /\ at[w].transfer \in Transfer
         /\ at[w].path \in Nat
<1>1. at[w] \in Position
  BY DEF Shapes, Position
<1>2. at[w] # Receiving /\ at[w] # [pc |-> "dead"]
  BY DEF Receiving
<1>3. at[w] \in [pc : {"look", "open"}, transfer : Transfer, path : Nat]
  BY <1>1, <1>2 DEF Position
<1> QED
  BY <1>3

LEMMA OpenedSlots ==
  ASSUME NEW w \in Worker, Shapes, at[w].pc = "open"
  PROVE  NewSlots(Opened(w))
<1>1. at[w].path \in Nat
  BY MakingFacts
<1> QED
  BY <1>1 DEF Shapes, NewSlots, Opened, Holding

LEMMA DiscardedSlots ==
  ASSUME NEW w \in Worker, Shapes, NEW t
  PROVE  NewSlots(Without(inbound[w], t))
BY DEF Shapes, NewSlots, Without, Holding

LEMMA GotShape ==
  ASSUME NEW w \in Worker, Shapes, Routed, wire[w] # << >>,
         Arriving(w).kind = "chunk", Offered(w)
  PROVE  /\ Slot(w) \in Holding
         /\ Slot(w).digest \in Seq(Chunk)
         /\ Arriving(w).data \in Chunk
         /\ Got(w) \in Seq(Chunk)
         /\ Len(Got(w)) = Len(Slot(w).digest) + 1
<1>1. Slot(w) \in Holding
  BY DEF Shapes, Slot, Offered, Holding
<1>2. Slot(w).digest \in Seq(Chunk)
  BY <1>1 DEF Holding
<1>3. Arriving(w).data \in Chunk
  BY ArrivingFacts, FrameFacts
<1> QED
  BY <1>1, <1>2, <1>3 DEF Got

Kept(w) ==
  [inbound[w] EXCEPT ![Arriving(w).transfer].digest = Got(w)]

LEMMA KeptSlots ==
  ASSUME NEW w \in Worker, Shapes, Routed, wire[w] # << >>,
         Arriving(w).kind = "chunk", Offered(w)
  PROVE  /\ NewSlots(Kept(w))
         /\ DOMAIN Kept(w) = DOMAIN inbound[w]
         /\ Kept(w)[Arriving(w).transfer].path = Slot(w).path
         /\ Kept(w)[Arriving(w).transfer].digest = Got(w)
         /\ \A t \in DOMAIN inbound[w] :
              t # Arriving(w).transfer => Kept(w)[t] = inbound[w][t]
<1> DEFINE a == Arriving(w).transfer
           filled == [inbound[w][a] EXCEPT !.digest = Got(w)]
<1>1. Slot(w) \in Holding /\ Got(w) \in Seq(Chunk)
  BY GotShape
<1>2. /\ filled \in Holding
      /\ filled.path = Slot(w).path
      /\ filled.digest = Got(w)
  BY <1>1 DEF Holding, Slot
<1>3. Kept(w) = [inbound[w] EXCEPT ![a] = filled]
  BY DEF Kept
<1>4. a \in DOMAIN inbound[w]
  BY DEF Offered
<1>5. \A t \in DOMAIN inbound[w] : inbound[w][t] \in Holding
  BY DEF Shapes, Holding
<1> HIDE DEF filled
<1>6. /\ DOMAIN Kept(w) = DOMAIN inbound[w]
      /\ Kept(w)[a] = filled
      /\ \A t \in DOMAIN inbound[w] : t # a => Kept(w)[t] = inbound[w][t]
  BY <1>3, <1>4
<1> QED
  BY <1>2, <1>5, <1>6 DEF NewSlots

LEMMA StepShapes ==
  ASSUME NEW w \in Worker, Shapes, NEW slots, NewSlots(slots),
         inbound' = [inbound EXCEPT ![w] = slots],
         wire' \in [Worker -> Seq(Frame)],
         at' \in [Worker -> Position],
         UNCHANGED <<to, sender>>, session' \in [Worker -> Int],
         reported' \subseteq [transfer : Transfer, path : Nat]
  PROVE  Shapes'
<1>1. /\ DOMAIN inbound' = Worker
      /\ \A v \in Worker : \A t \in DOMAIN inbound'[v] : inbound'[v][t] \in Holding
  BY SlotsShape
<1> QED
  BY <1>1 DEF Shapes, Holding, Position

LEMMA SendShapes ==
  ASSUME NEW t \in Transfer, Shapes, UNCHANGED <<to, session, at, store>>,
         sender' \in [Transfer -> Sender], wire' \in [Worker -> Seq(Frame)]
  PROVE  Shapes'
BY DEF Shapes, Sender, store

-----------------------------------------------------------------------------
(* One worker's part of the invariant.                                     *)

Local(w, frames, here, slots) ==
  /\ frames \in Seq(Frame)
  /\ here \in Position
  /\ NewSlots(slots)
  /\ \A i \in DOMAIN frames : to[frames[i].transfer] = w
  /\ \A t \in DOMAIN slots : t \in Transfer /\ to[t] = w
  /\ \A t \in Transfer : Making(here, t) => to[t] = w
  /\ \A t \in Transfer : to[t] = w => Transit(frames, sender[t], here, slots, t)
  /\ IsFiniteSet(DOMAIN slots)
  /\ Cardinality(DOMAIN slots) <= MaxInbound
  /\ here.pc \in {"look", "open"} => Cardinality(DOMAIN slots) < MaxInbound

\* A step of w, and what w has after it.
WorkerStep(w, frames, here, slots) ==
  /\ wire' = [wire EXCEPT ![w] = frames]
  /\ at' = [at EXCEPT ![w] = here]
  /\ \/ inbound' = [inbound EXCEPT ![w] = slots]
     \/ slots = inbound[w] /\ UNCHANGED inbound
  /\ UNCHANGED <<to, sender>>
  /\ session' \in [Worker -> Int]
  /\ reported' \subseteq [transfer : Transfer, path : Nat]

InvHere == Shapes /\ Routed /\ Transits /\ SlotsFit

LEMMA LocalFacts ==
  ASSUME NEW w \in Worker, InvHere
  PROVE  Local(w, wire[w], at[w], inbound[w])
<1>1. wire[w] \in Seq(Frame) /\ at[w] \in Position /\ NewSlots(inbound[w])
  BY DEF InvHere, Shapes, Position, NewSlots, Holding
<1>2. \A t \in Transfer : to[t] = w => Transit(wire[w], sender[t], at[w], inbound[w], t)
  BY DEF InvHere, Transits
<1> QED
  BY <1>1, <1>2 DEF InvHere, Local, Routed, SlotsFit

LEMMA WorkerStepHolds ==
  ASSUME NEW w \in Worker, NEW frames, NEW here, NEW slots, InvHere,
         WorkerStep(w, frames, here, slots), Local(w, frames, here, slots)
  PROVE  InvHere'
<1>1. /\ wire' \in [Worker -> Seq(Frame)]
      /\ wire'[w] = frames
      /\ \A v \in Worker : v # w => wire'[v] = wire[v]
  BY DEF InvHere, Shapes, WorkerStep, Local
<1>2. /\ at' \in [Worker -> Position]
      /\ at'[w] = here
      /\ \A v \in Worker : v # w => at'[v] = at[v]
  BY DEF InvHere, Shapes, WorkerStep, Local, Position
<1>3. /\ DOMAIN inbound' = Worker
      /\ inbound'[w] = slots
      /\ \A v \in Worker : v # w => inbound'[v] = inbound[v]
  BY DEF InvHere, Shapes, WorkerStep
<1>4. /\ to' = to /\ sender' = sender
      /\ session' \in [Worker -> Int]
      /\ reported' \subseteq [transfer : Transfer, path : Nat]
  BY DEF WorkerStep
<1>5. Shapes'
  <2>1. \A v \in Worker : NewSlots(inbound'[v])
    BY <1>3 DEF InvHere, Shapes, Local, NewSlots, Holding
  <2> QED
    BY <1>1, <1>2, <1>3, <1>4, <2>1 DEF InvHere, Shapes, Position, NewSlots, Holding
<1>6. Routed'
  <2>1. ASSUME NEW v \in Worker
        PROVE  /\ \A i \in DOMAIN wire'[v] : to[wire'[v][i].transfer] = v
               /\ \A t \in DOMAIN inbound'[v] : t \in Transfer /\ to[t] = v
               /\ \A t \in Transfer : Making(at'[v], t) => to[t] = v
    <3>1. CASE v = w
      BY <3>1, <1>1, <1>2, <1>3 DEF Local
    <3>2. CASE v # w
      BY <3>2, <1>1, <1>2, <1>3 DEF InvHere, Routed
    <3> QED
      BY <3>1, <3>2
  <2> QED
    BY <2>1, <1>4 DEF Routed
<1>7. Transits'
  <2>1. ASSUME NEW t \in Transfer
        PROVE  Transit(wire'[to[t]], sender[t], at'[to[t]], inbound'[to[t]], t)
    <3>1. to[t] \in Worker
      BY DEF InvHere, Shapes
    <3>2. CASE to[t] = w
      BY <3>2, <1>1, <1>2, <1>3 DEF Local
    <3>3. CASE to[t] # w
      <4>1. Transit(wire[to[t]], sender[t], at[to[t]], inbound[to[t]], t)
        BY DEF InvHere, Transits
      <4> QED
        BY <3>1, <3>3, <4>1, <1>1, <1>2, <1>3
    <3> QED
      BY <3>2, <3>3
  <2> QED
    BY <2>1, <1>4 DEF Transits
<1>8. SlotsFit'
  <2>1. ASSUME NEW v \in Worker
        PROVE  /\ IsFiniteSet(DOMAIN inbound'[v])
               /\ Cardinality(DOMAIN inbound'[v]) <= MaxInbound
               /\ at'[v].pc \in {"look", "open"} =>
                    Cardinality(DOMAIN inbound'[v]) < MaxInbound
    <3>1. CASE v = w
      BY <3>1, <1>2, <1>3 DEF Local
    <3>2. CASE v # w
      BY <3>2, <1>2, <1>3 DEF InvHere, SlotsFit
    <3> QED
      BY <3>1, <3>2
  <2> QED
    BY <2>1 DEF SlotsFit
<1> QED
  BY <1>5, <1>6, <1>7, <1>8 DEF InvHere

\* A step of w that is about one transfer.
About(t, w, frames, here, slots) ==
  /\ t \in Transfer /\ to[t] = w
  /\ \/ frames = wire[w]
     \/ wire[w] # << >> /\ frames = Tail(wire[w]) /\ Arriving(w).transfer = t
  /\ here \in Position
  /\ NewSlots(slots)
  /\ DOMAIN slots \subseteq DOMAIN inbound[w] \cup {t}
  /\ \A u \in DOMAIN slots : u # t => slots[u] = inbound[w][u]
  /\ \A u \in Transfer : u # t /\ Making(here, u) => Making(at[w], u)
  /\ at[w].pc = "dead" => here.pc = "dead"

Fits(here, slots) ==
  /\ IsFiniteSet(DOMAIN slots)
  /\ Cardinality(DOMAIN slots) <= MaxInbound
  /\ here.pc \in {"look", "open"} => Cardinality(DOMAIN slots) < MaxInbound

LEMMA SlotLength ==
  ASSUME NEW w \in Worker, NEW t \in DOMAIN inbound[w], Shapes
  PROVE  inbound[w][t].digest \in Seq(Chunk) /\ Len(inbound[w][t].digest) \in Nat
BY DEF Shapes

LEMMA SenderFacts ==
  ASSUME NEW t \in Transfer, Shapes
  PROVE  /\ sender[t].sent \in Nat
         /\ sender[t].at \in {"idle", "offer", "chunks", "over"}
         /\ to[t] \in Worker
BY DEF Shapes

LEMMA AboutHolds ==
  ASSUME NEW w \in Worker, NEW t, NEW frames, NEW here, NEW slots, InvHere,
         About(t, w, frames, here, slots), Fits(here, slots),
         Transit(frames, sender[t], here, slots, t)
  PROVE  Local(w, frames, here, slots)
<1>1. Local(w, wire[w], at[w], inbound[w])
  BY LocalFacts
<1>2. Shapes /\ Routed
  BY DEF InvHere
<1>3. frames \in Seq(Frame) /\ \A i \in DOMAIN frames : to[frames[i].transfer] = w
  <2>1. CASE frames = wire[w]
    BY <2>1, <1>1 DEF Local
  <2>2. CASE wire[w] # << >> /\ frames = Tail(wire[w])
    <3>1. \A i \in DOMAIN Tail(wire[w]) :
            i + 1 \in DOMAIN wire[w] /\ Tail(wire[w])[i] = wire[w][i + 1]
      BY <2>2, <1>1, TailFacts DEF Local
    <3> QED
      BY <2>2, <3>1, <1>1, TailFacts DEF Local
  <2> QED
    BY <2>1, <2>2 DEF About
<1>4. \A u \in DOMAIN slots : u \in Transfer /\ to[u] = w
  BY <1>1 DEF About, Local
<1>5. \A u \in Transfer : Making(here, u) => to[u] = w
  BY <1>1 DEF About, Local
<1>6. ASSUME NEW u \in Transfer, to[u] = w
      PROVE  Transit(frames, sender[u], here, slots, u)
  <2>1. CASE u = t
    BY <2>1
  <2>2. CASE u # t
    <3>1. LeavesAlone(wire[w], frames, at[w], here, inbound[w], slots, u)
      BY <2>2 DEF About, LeavesAlone, Arriving
    <3>2. Transit(wire[w], sender[u], at[w], inbound[w], u)
      BY <1>1, <1>6 DEF Local
    <3>3. wire[w] \in Seq(Frame) /\ sender[u].sent \in Nat
      BY <1>1, <1>2, SenderFacts DEF Local
    <3>4. u \in DOMAIN inbound[w] => Len(inbound[w][u].digest) \in Nat
      BY <1>2, SlotLength
    <3> QED
      BY <3>1, <3>2, <3>3, <3>4, TransitElsewhere
  <2> QED
    BY <2>1, <2>2
<1> QED
  BY <1>3, <1>4, <1>5, <1>6 DEF About, Fits, Local

-----------------------------------------------------------------------------
(* Each step of a worker.                                                  *)

LEMMA ReadOfferHolds ==
  ASSUME NEW w \in Worker, InvHere, ReadOffer(w)
  PROVE  InvHere'
<1> DEFINE t == Arriving(w).transfer
           frames == Tail(wire[w])
           here == IF Cardinality(DOMAIN inbound[w]) >= MaxInbound THEN Receiving
                   ELSE [pc |-> "look", transfer |-> t, path |-> 0]
<1>1. Shapes /\ Routed /\ Local(w, wire[w], at[w], inbound[w])
  BY LocalFacts DEF InvHere
<1>2. wire[w] # << >> /\ at[w] = Receiving /\ Arriving(w).kind = "offer"
  BY DEF ReadOffer
<1>3. wire[w] \in Seq(Frame) /\ t \in Transfer /\ to[t] = w
  BY <1>1, <1>2, ArrivingFacts
<1>4. Transit(wire[w], sender[t], at[w], inbound[w], t) /\ sender[t].sent \in Nat
  BY <1>1, <1>3, SenderFacts DEF Local
<1>5. /\ t \notin DOMAIN inbound[w]
      /\ OnWire(wire[w], t, 1, sender[t].sent)
  <2>1. 1 \in DOMAIN wire[w] /\ IsOffer(wire[w][1], t)
    BY <1>2, <1>3, TailFacts DEF Arriving, IsOffer
  <2> QED
    BY <2>1, <1>4 DEF Transit, Announced
<1>6. OnWire(frames, t, 1, sender[t].sent)
  <2>1. ~ IsChunk(Head(wire[w]), t)
    BY <1>2 DEF IsChunk, Arriving
  <2> QED
    BY <1>2, <1>3, <1>4, <1>5, <2>1, OnWireTail
<1>7. Accepted(frames, sender[t], here, inbound[w], t)
      /\ Waiting(frames, sender[t], here, inbound[w], t)
  BY <1>5, <1>6 DEF Accepted, Waiting
<1>8. Transit(frames, sender[t], here, inbound[w], t)
  <2> HIDE DEF here
  <2> QED
    BY <1>2, <1>3, <1>4, <1>7, TransitRead DEF Arriving
<1>9. here \in Position
  BY <1>3 DEF Position
<1>10. About(t, w, frames, here, inbound[w])
  BY <1>1, <1>2, <1>3, <1>9 DEF About, Local, Making, Receiving
<1>11. Fits(here, inbound[w])
  <2>1. IsFiniteSet(DOMAIN inbound[w]) /\ Cardinality(DOMAIN inbound[w]) <= MaxInbound
    BY <1>1 DEF Local
  <2>2. Cardinality(DOMAIN inbound[w]) \in Nat
    BY <2>1, FS_CardinalityType
  <2> QED
    BY <2>1, <2>2, MaxInboundAssumption DEF Fits, Receiving
<1>12. WorkerStep(w, frames, here, inbound[w])
  BY <1>1 DEF ReadOffer, Read, WorkerStep, peer, store, Shapes
<1> HIDE DEF here, frames, t
<1>13. Local(w, frames, here, inbound[w])
  BY <1>8, <1>10, <1>11, AboutHolds
<1> QED
  BY <1>12, <1>13, WorkerStepHolds

LEMMA LookHolds ==
  ASSUME NEW w \in Worker, InvHere, Look(w) \/ OpenFails(w)
  PROVE  InvHere'
<1>1. Shapes /\ Routed /\ Local(w, wire[w], at[w], inbound[w])
  BY LocalFacts DEF InvHere
<1>2. at[w].pc \in {"look", "open"}
  BY DEF Look, OpenFails
<1>3. at[w] \in [pc : {"look", "open"}, transfer : Transfer, path : Nat]
  BY <1>1, <1>2, MakingFacts
<1>4. PICK here \in Position :
        /\ at' = [at EXCEPT ![w] = here]
        /\ \/ here = Receiving
           \/ here.pc \in {"look", "open"} /\ here.transfer = at[w].transfer
  <2>1. CASE OpenFails(w)
    BY <2>1 DEF OpenFails, Position
  <2>2. CASE Look(w) /\ at[w].path \in DOMAIN disk
    <3> DEFINE here == [at[w] EXCEPT !.path = @ + 1]
    <3>1. /\ here \in [pc : {"look", "open"}, transfer : Transfer, path : Nat]
          /\ here.transfer = at[w].transfer
      BY <1>3
    <3>2. at' = [at EXCEPT ![w] = here]
      BY <2>2 DEF Look
    <3> HIDE DEF here
    <3> QED
      BY <3>1, <3>2 DEF Position
  <2>3. CASE Look(w) /\ at[w].path \notin DOMAIN disk
    <3> DEFINE here == [at[w] EXCEPT !.pc = "open"]
    <3>1. /\ here \in [pc : {"look", "open"}, transfer : Transfer, path : Nat]
          /\ here.transfer = at[w].transfer
      BY <1>3
    <3>2. at' = [at EXCEPT ![w] = here]
      BY <2>3 DEF Look
    <3> HIDE DEF here
    <3> QED
      BY <3>1, <3>2 DEF Position
  <2> QED
    BY <2>1, <2>2, <2>3
<1>5. \A t \in Transfer : Making(here, t) => Making(at[w], t)
  BY <1>2, <1>4 DEF Making, Receiving
<1>6. ASSUME NEW t \in Transfer, to[t] = w
      PROVE  Transit(wire[w], sender[t], here, inbound[w], t)
  <2>1. LeavesAlone(wire[w], wire[w], at[w], here, inbound[w], inbound[w], t)
    BY <1>2, <1>5 DEF LeavesAlone
  <2>2. Transit(wire[w], sender[t], at[w], inbound[w], t) /\ sender[t].sent \in Nat
        /\ wire[w] \in Seq(Frame)
    BY <1>1, <1>6, SenderFacts DEF Local
  <2>3. t \in DOMAIN inbound[w] => Len(inbound[w][t].digest) \in Nat
    BY <1>1, SlotLength
  <2> QED
    BY <2>1, <2>2, <2>3, TransitElsewhere
<1>7. Local(w, wire[w], here, inbound[w])
  BY <1>1, <1>2, <1>4, <1>5, <1>6 DEF Local, Receiving
<1>8. WorkerStep(w, wire[w], here, inbound[w])
  BY <1>1, <1>4 DEF Look, OpenFails, WorkerStep, peer, store, Shapes
<1> QED
  BY <1>7, <1>8, WorkerStepHolds

LEMMA OpenHolds ==
  ASSUME NEW w \in Worker, InvHere, Open(w)
  PROVE  InvHere'
<1> DEFINE t == at[w].transfer
<1>1. Shapes /\ Routed /\ Local(w, wire[w], at[w], inbound[w])
  BY LocalFacts DEF InvHere
<1>2. at[w].pc = "open"
  BY DEF Open
<1>3. t \in Transfer /\ to[t] = w /\ Making(at[w], t) /\ wire[w] \in Seq(Frame)
  BY <1>1, <1>2, MakingFacts DEF Local, Making
<1>4. Transit(wire[w], sender[t], at[w], inbound[w], t) /\ sender[t].sent \in Nat
  BY <1>1, <1>3, SenderFacts DEF Local
<1>5. t \notin DOMAIN inbound[w] /\ OnWire(wire[w], t, 1, sender[t].sent)
  BY <1>3, <1>4 DEF Transit, Accepted
<1>6. /\ DOMAIN Opened(w) = DOMAIN inbound[w] \cup {t}
      /\ Opened(w)[t].digest = << >>
      /\ \A u \in DOMAIN Opened(w) : u # t => Opened(w)[u] = inbound[w][u]
  BY DEF Opened
<1>7. Waiting(wire[w], sender[t], Receiving, Opened(w), t)
  <2>1. Len(Opened(w)[t].digest) = 0
    BY <1>6
  <2> QED
    BY <1>5, <2>1, SizeAssumption DEF Waiting
<1>8. Transit(wire[w], sender[t], Receiving, Opened(w), t)
  BY <1>3, <1>4, <1>7 DEF Transit, Unsent, Announced, Accepted, Making, Receiving
<1>9. About(t, w, wire[w], Receiving, Opened(w))
  <2>1. NewSlots(Opened(w))
    BY <1>1, <1>2, OpenedSlots
  <2> QED
    BY <1>2, <1>3, <1>6, <2>1 DEF About, Position, Making, Receiving
<1>10. Fits(Receiving, Opened(w))
  <2>1. IsFiniteSet(DOMAIN inbound[w]) /\ Cardinality(DOMAIN inbound[w]) < MaxInbound
    BY <1>1, <1>2 DEF Local
  <2>2. Cardinality(DOMAIN inbound[w]) \in Nat
    BY <2>1, FS_CardinalityType
  <2>3. /\ IsFiniteSet(DOMAIN inbound[w] \cup {t})
        /\ Cardinality(DOMAIN inbound[w] \cup {t}) = Cardinality(DOMAIN inbound[w]) + 1
    BY <1>5, <2>1, FS_AddElement
  <2> QED
    BY <1>6, <2>1, <2>2, <2>3, MaxInboundAssumption DEF Fits, Receiving
<1>11. WorkerStep(w, wire[w], Receiving, Opened(w))
  <2>1. inbound' = [inbound EXCEPT ![w] = Opened(w)]
    BY <1>1 DEF Open, Opened, Shapes
  <2> QED
    BY <1>1, <2>1 DEF Open, WorkerStep, peer, Shapes
<1> HIDE DEF t
<1>12. Local(w, wire[w], Receiving, Opened(w))
  BY <1>8, <1>9, <1>10, AboutHolds
<1> QED
  BY <1>11, <1>12, WorkerStepHolds

\* A chunk is read, and the transfer keeps no slot.
LEMMA ChunkDroppedHolds ==
  ASSUME NEW w \in Worker, NEW slots, InvHere, ArrivingChunk(w), Read(w),
         NewSlots(slots),
         DOMAIN slots = DOMAIN inbound[w] \ {Arriving(w).transfer},
         \A u \in DOMAIN slots : slots[u] = inbound[w][u],
         \/ inbound' = [inbound EXCEPT ![w] = slots]
         \/ slots = inbound[w] /\ UNCHANGED inbound,
         UNCHANGED <<peer, at>>,
         reported' \subseteq [transfer : Transfer, path : Nat]
  PROVE  InvHere'
<1> DEFINE t == Arriving(w).transfer
           frames == Tail(wire[w])
<1>1. Shapes /\ Routed /\ Local(w, wire[w], at[w], inbound[w])
  BY LocalFacts DEF InvHere
<1>2. wire[w] # << >> /\ at[w] = Receiving /\ Arriving(w).kind = "chunk"
  BY DEF ArrivingChunk
<1>3. wire[w] \in Seq(Frame) /\ t \in Transfer /\ to[t] = w
  BY <1>1, <1>2, ArrivingFacts
<1>4. Transit(wire[w], sender[t], at[w], inbound[w], t) /\ sender[t].sent \in Nat
  BY <1>1, <1>3, SenderFacts DEF Local
<1>5. Accepted(frames, sender[t], at[w], slots, t)
      /\ Waiting(frames, sender[t], at[w], slots, t)
  BY <1>2 DEF Accepted, Waiting, Making, Receiving
<1>6. Transit(frames, sender[t], at[w], slots, t)
  BY <1>2, <1>3, <1>4, <1>5, TransitRead DEF Arriving
<1>7. About(t, w, frames, at[w], slots)
  BY <1>1, <1>2, <1>3 DEF About, Local
<1>8. Fits(at[w], slots)
  <2>1. IsFiniteSet(DOMAIN inbound[w]) /\ Cardinality(DOMAIN inbound[w]) <= MaxInbound
    BY <1>1 DEF Local
  <2>2. DOMAIN slots \in SUBSET DOMAIN inbound[w]
    OBVIOUS
  <2>3. IsFiniteSet(DOMAIN slots)
        /\ Cardinality(DOMAIN slots) <= Cardinality(DOMAIN inbound[w])
    BY <2>1, <2>2, FS_Subset
  <2>4. Cardinality(DOMAIN slots) \in Nat /\ Cardinality(DOMAIN inbound[w]) \in Nat
    BY <2>1, <2>3, FS_CardinalityType
  <2> QED
    BY <1>2, <2>1, <2>3, <2>4, MaxInboundAssumption DEF Fits, Receiving
<1>9. WorkerStep(w, frames, at[w], slots)
  BY <1>1 DEF Read, WorkerStep, peer, Shapes
<1> HIDE DEF frames, t
<1>10. Local(w, frames, at[w], slots)
  BY <1>6, <1>7, <1>8, AboutHolds
<1> QED
  BY <1>9, <1>10, WorkerStepHolds

LEMMA DropChunkHolds ==
  ASSUME NEW w \in Worker, InvHere, DropChunk(w)
  PROVE  InvHere'
<1>1. Shapes /\ NewSlots(inbound[w])
  BY LocalFacts DEF InvHere, Local
<1>2. DOMAIN inbound[w] = DOMAIN inbound[w] \ {Arriving(w).transfer}
  BY DEF DropChunk, Offered
<1>3. reported' \subseteq [transfer : Transfer, path : Nat]
  BY <1>1 DEF Shapes, DropChunk, store
<1>4. ArrivingChunk(w) /\ Read(w) /\ UNCHANGED <<peer, at>> /\ UNCHANGED inbound
  BY DEF DropChunk, store
<1> QED
  BY <1>1, <1>2, <1>3, <1>4, ChunkDroppedHolds

LEMMA DiscardHolds ==
  ASSUME NEW w \in Worker, InvHere, ArrivingChunk(w), Read(w), UNCHANGED <<peer, at>>,
         inbound' = [inbound EXCEPT ![w] = Without(@, Arriving(w).transfer)],
         reported' \subseteq [transfer : Transfer, path : Nat]
  PROVE  InvHere'
<1> DEFINE slots == Without(inbound[w], Arriving(w).transfer)
<1>1. Shapes /\ NewSlots(slots)
  BY DiscardedSlots DEF InvHere
<1>2. /\ DOMAIN slots = DOMAIN inbound[w] \ {Arriving(w).transfer}
      /\ \A u \in DOMAIN slots : slots[u] = inbound[w][u]
  BY DEF Without
<1>3. inbound' = [inbound EXCEPT ![w] = slots]
  OBVIOUS
<1> HIDE DEF slots
<1> QED
  BY <1>1, <1>2, <1>3, ChunkDroppedHolds

LEMMA StoreHolds ==
  ASSUME NEW w \in Worker, InvHere, Store(w)
  PROVE  InvHere'
<1> DEFINE t == Arriving(w).transfer
           frames == Tail(wire[w])
<1>1. Shapes /\ Routed /\ Local(w, wire[w], at[w], inbound[w])
  BY LocalFacts DEF InvHere
<1>2. wire[w] # << >> /\ at[w] = Receiving /\ Arriving(w).kind = "chunk"
      /\ Offered(w) /\ ~Completes(w)
  BY DEF Store, ArrivingChunk
<1>3. wire[w] \in Seq(Frame) /\ t \in Transfer /\ to[t] = w
  BY <1>1, <1>2, ArrivingFacts
<1>4. Transit(wire[w], sender[t], at[w], inbound[w], t) /\ sender[t].sent \in Nat
  BY <1>1, <1>3, SenderFacts DEF Local
<1>5. /\ NewSlots(Kept(w))
      /\ DOMAIN Kept(w) = DOMAIN inbound[w]
      /\ Kept(w)[t].digest = Got(w)
      /\ \A u \in DOMAIN inbound[w] : u # t => Kept(w)[u] = inbound[w][u]
  BY <1>1, <1>2, KeptSlots
<1>6. Len(Got(w)) = Len(Slot(w).digest) + 1 /\ Len(Slot(w).digest) \in Nat
  BY <1>1, <1>2, GotShape
<1>7. OnWire(wire[w], t, Len(Slot(w).digest) + 1, sender[t].sent)
  BY <1>2, <1>4 DEF Transit, Waiting, Offered, Slot, Receiving
<1>8. OnWire(frames, t, Len(Slot(w).digest) + 2, sender[t].sent)
  <2>1. IsChunk(Head(wire[w]), t)
    BY <1>2 DEF IsChunk, Arriving
  <2>2. InOrder(wire[w], t, sender[t].sent)
    BY <1>4 DEF Transit
  <2>3. Len(Slot(w).digest) + 1 \in Nat
    BY <1>6
  <2>4. OnWire(frames, t, (Len(Slot(w).digest) + 1) + 1, sender[t].sent)
    BY <1>2, <1>3, <1>4, <1>7, <2>1, <2>2, <2>3, OnWireRead
  <2>5. (Len(Slot(w).digest) + 1) + 1 = Len(Slot(w).digest) + 2
    BY <1>6
  <2> QED
    BY <2>4, <2>5
<1>9. Waiting(frames, sender[t], at[w], Kept(w), t)
  <2>1. Len(Got(w)) < Size
    BY <1>2, <1>6, SizeAssumption DEF Completes
  <2>2. Len(Got(w)) + 1 = Len(Slot(w).digest) + 2
    BY <1>6
  <2> QED
    BY <1>5, <1>8, <2>1, <2>2 DEF Waiting
<1>10. Accepted(frames, sender[t], at[w], Kept(w), t)
  BY <1>2 DEF Accepted, Making, Receiving
<1>11. Transit(frames, sender[t], at[w], Kept(w), t)
  BY <1>2, <1>3, <1>4, <1>9, <1>10, TransitRead DEF Arriving
<1>12. About(t, w, frames, at[w], Kept(w))
  BY <1>1, <1>2, <1>3, <1>5 DEF About, Local
<1>13. Fits(at[w], Kept(w))
  BY <1>1, <1>5 DEF Fits, Local
<1>14. WorkerStep(w, frames, at[w], Kept(w))
  <2>1. inbound' = [inbound EXCEPT ![w] = Kept(w)]
    BY <1>1 DEF Store, Kept, Shapes
  <2> QED
    BY <1>1, <2>1 DEF Store, Read, WorkerStep, peer, Shapes
<1> HIDE DEF frames, t
<1>15. Local(w, frames, at[w], Kept(w))
  BY <1>11, <1>12, <1>13, AboutHolds
<1> QED
  BY <1>14, <1>15, WorkerStepHolds

LEMMA WriteFailsHolds ==
  ASSUME NEW w \in Worker, InvHere, WriteFails(w)
  PROVE  InvHere'
<1>1. ArrivingChunk(w) /\ Read(w) /\ UNCHANGED <<peer, at>>
  BY DEF WriteFails
<1>2. inbound' = [inbound EXCEPT ![w] = Without(@, Arriving(w).transfer)]
  BY DEF WriteFails, Discard
<1>3. reported' \subseteq [transfer : Transfer, path : Nat]
  BY DEF WriteFails, InvHere, Shapes
<1> QED
  BY <1>1, <1>2, <1>3, DiscardHolds

LEMMA CompleteHolds ==
  ASSUME NEW w \in Worker, InvHere, Complete(w)
  PROVE  InvHere'
<1>1. ArrivingChunk(w) /\ Read(w) /\ UNCHANGED <<peer, at>> /\ Offered(w)
  BY DEF Complete
<1>2. inbound' = [inbound EXCEPT ![w] = Without(@, Arriving(w).transfer)]
  BY DEF Complete, Discard
<1>3. reported' \subseteq [transfer : Transfer, path : Nat]
  <2>1. Shapes /\ Routed
    BY DEF InvHere
  <2>2. Slot(w).path \in Nat /\ Arriving(w).transfer \in Transfer
    BY <1>1, <2>1, GotShape, ArrivingFacts DEF ArrivingChunk, Holding
  <2>3. reported' = reported
        \/ reported' = reported \cup {[transfer |-> Arriving(w).transfer,
                                       path |-> Slot(w).path]}
    BY DEF Complete
  <2> QED
    BY <2>1, <2>2, <2>3 DEF Shapes
<1> QED
  BY <1>1, <1>2, <1>3, DiscardHolds

LEMMA DiesHolds ==
  ASSUME NEW w \in Worker, InvHere, Dies(w)
  PROVE  InvHere'
<1> DEFINE t == Arriving(w).transfer
           frames == Tail(wire[w])
           here == [pc |-> "dead"]
<1>1. Shapes /\ Routed /\ Local(w, wire[w], at[w], inbound[w])
  BY LocalFacts DEF InvHere
<1>2. wire[w] # << >> /\ at[w] = Receiving
  BY DEF Dies
<1>3. wire[w] \in Seq(Frame) /\ t \in Transfer /\ to[t] = w
  BY <1>1, <1>2, ArrivingFacts
<1>4. Transit(wire[w], sender[t], at[w], inbound[w], t) /\ sender[t].sent \in Nat
  BY <1>1, <1>3, SenderFacts DEF Local
<1>5. Accepted(frames, sender[t], here, inbound[w], t)
      /\ Waiting(frames, sender[t], here, inbound[w], t)
  BY DEF Accepted, Waiting, Making
<1>6. Transit(frames, sender[t], here, inbound[w], t)
  BY <1>2, <1>3, <1>4, <1>5, TransitRead DEF Arriving
<1>7. About(t, w, frames, here, inbound[w])
  BY <1>1, <1>2, <1>3 DEF About, Local, Position, Making
<1>8. Fits(here, inbound[w])
  BY <1>1 DEF Fits, Local
<1>9. WorkerStep(w, frames, here, inbound[w])
  BY <1>1 DEF Dies, Read, WorkerStep, peer, store, Shapes
<1> HIDE DEF here, frames, t
<1>10. Local(w, frames, here, inbound[w])
  BY <1>6, <1>7, <1>8, AboutHolds
<1> QED
  BY <1>9, <1>10, WorkerStepHolds

LEMMA ReconnectHolds ==
  ASSUME NEW w \in Worker, InvHere, Reconnect(w)
  PROVE  InvHere'
<1>1. Shapes /\ Local(w, wire[w], at[w], inbound[w])
  BY LocalFacts DEF InvHere
<1>2. at[w] = Receiving
  BY DEF Reconnect
<1>3. PICK none : none = << >>
  OBVIOUS
<1>4. none \in Seq(Frame) /\ DOMAIN none = {}
  BY <1>3
<1>5. ASSUME NEW t \in Transfer, to[t] = w
      PROVE  Transit(none, sender[t], at[w], none, t)
  <2>1. Transit(wire[w], sender[t], at[w], inbound[w], t)
    BY <1>1, <1>5 DEF Local
  <2>2. ~Making(at[w], t)
    BY <1>2 DEF Making, Receiving
  <2> QED
    BY <1>4, <2>1, <2>2
    DEF Transit, InOrder, Unsent, Announced, Accepted, Waiting
<1>6. Local(w, none, at[w], none)
  <2>1. IsFiniteSet(DOMAIN none) /\ Cardinality(DOMAIN none) = 0
    BY <1>4, FS_EmptySet
  <2>2. NewSlots(none)
    BY <1>4 DEF NewSlots
  <2> QED
    BY <1>1, <1>2, <1>4, <1>5, <2>1, <2>2, MaxInboundAssumption
    DEF Local, Making, Receiving
<1>7. WorkerStep(w, none, at[w], none)
  <2>1. /\ wire' = [wire EXCEPT ![w] = none]
        /\ inbound' = [inbound EXCEPT ![w] = none]
        /\ UNCHANGED <<to, sender, at, reported>>
    BY <1>3 DEF Reconnect, AbortInboundTransfers
  <2>2. session' \in [Worker -> Int]
    <3>1. session' = [session EXCEPT ![w] = @ + 1]
      BY DEF Reconnect
    <3>2. session \in [Worker -> Int]
      BY <1>1 DEF Shapes
    <3> QED
      BY <3>1, <3>2
  <2>3. at' = [at EXCEPT ![w] = at[w]]
    BY <1>1, <2>1 DEF Shapes
  <2> QED
    BY <1>1, <2>1, <2>2, <2>3 DEF WorkerStep, Shapes
<1> QED
  BY <1>6, <1>7, WorkerStepHolds

-----------------------------------------------------------------------------
(* The steps of a sending thread.                                          *)

SenderStep(t, s, frames) ==
  /\ sender' = [sender EXCEPT ![t] = s]
  /\ wire' = [wire EXCEPT ![to[t]] = frames]
  /\ UNCHANGED <<to, session, at, store>>

LEMMA SenderStepHolds ==
  ASSUME NEW t \in Transfer, NEW s \in Sender, NEW frames \in Seq(Frame), InvHere,
         SenderStep(t, s, frames),
         \/ frames = wire[to[t]]
         \/ \E m \in Frame : m.transfer = t /\ frames = Append(wire[to[t]], m),
         Transit(frames, s, at[to[t]], inbound[to[t]], t)
  PROVE  InvHere'
<1> DEFINE w == to[t]
<1>1. Shapes /\ w \in Worker /\ wire[w] \in Seq(Frame)
  BY DEF InvHere, Shapes
<1>2. /\ wire' \in [Worker -> Seq(Frame)]
      /\ wire'[w] = frames
      /\ \A v \in Worker : v # w => wire'[v] = wire[v]
  BY <1>1 DEF SenderStep, Shapes
<1>3. /\ sender' \in [Transfer -> Sender]
      /\ sender'[t] = s
      /\ \A u \in Transfer : u # t => sender'[u] = sender[u]
  BY <1>1 DEF SenderStep, Shapes, Sender
<1>4. UNCHANGED <<to, session, at, inbound, reported>>
  BY DEF SenderStep, store
<1>5. Shapes'
  BY <1>1, <1>2, <1>3, <1>4 DEF Shapes, Sender
<1>6. Routed'
  <2>1. ASSUME NEW i \in DOMAIN frames
        PROVE  to[frames[i].transfer] = w
    <3>1. CASE frames = wire[w]
      BY <3>1, <1>1 DEF InvHere, Routed
    <3>2. CASE \E m \in Frame : m.transfer = t /\ frames = Append(wire[w], m)
      <4>1. PICK m \in Frame : m.transfer = t /\ frames = Append(wire[w], m)
        BY <3>2
      <4>2. frames[i] = m \/ (i \in DOMAIN wire[w] /\ frames[i] = wire[w][i])
        BY <4>1, <1>1, AppendFacts
      <4> QED
        BY <4>1, <4>2, <1>1 DEF InvHere, Routed
    <3> QED
      BY <3>1, <3>2
  <2>2. ASSUME NEW v \in Worker, NEW i \in DOMAIN wire'[v]
        PROVE  to[wire'[v][i].transfer] = v
    <3>1. CASE v = w
      BY <3>1, <2>1, <1>2
    <3>2. CASE v # w
      BY <3>2, <1>2 DEF InvHere, Routed
    <3> QED
      BY <3>1, <3>2
  <2> QED
    BY <2>2, <1>4 DEF InvHere, Routed
<1>7. Transits'
  <2>1. ASSUME NEW u \in Transfer
        PROVE  Transit(wire'[to[u]], sender'[u], at[to[u]], inbound[to[u]], u)
    <3>1. to[u] \in Worker /\ sender[u].sent \in Nat
          /\ Transit(wire[to[u]], sender[u], at[to[u]], inbound[to[u]], u)
      BY <1>1, SenderFacts DEF InvHere, Transits
    <3>2. CASE u = t
      BY <3>2, <1>2, <1>3
    <3>3. CASE u # t /\ to[u] # w
      BY <3>1, <3>3, <1>2, <1>3
    <3>4. CASE u # t /\ to[u] = w
      <4>1. LeavesAlone(wire[w], frames, at[w], at[w], inbound[w], inbound[w], u)
        <5>1. CASE frames = wire[w]
          BY <5>1 DEF LeavesAlone
        <5>2. CASE \E m \in Frame : m.transfer = t /\ frames = Append(wire[w], m)
          BY <5>2, <3>4 DEF LeavesAlone
        <5> QED
          BY <5>1, <5>2
      <4>2. u \in DOMAIN inbound[w] => Len(inbound[w][u].digest) \in Nat
        BY <1>1, SlotLength
      <4>3. Transit(wire[w], sender[u], at[w], inbound[w], u)
        BY <3>1, <3>4
      <4>4. Transit(frames, sender[u], at[w], inbound[w], u)
        BY <4>1, <4>2, <4>3, <3>1, <1>1, TransitElsewhere
      <4> QED
        BY <4>4, <3>4, <1>2, <1>3
    <3> QED
      BY <3>2, <3>3, <3>4
  <2> QED
    BY <2>1, <1>4 DEF Transits
<1>8. SlotsFit'
  BY <1>4 DEF InvHere, SlotsFit
<1> QED
  BY <1>5, <1>6, <1>7, <1>8 DEF InvHere

LEMMA PinHolds ==
  ASSUME NEW t \in Transfer, InvHere, Pin(t)
  PROVE  InvHere'
<1> DEFINE s == [sender[t] EXCEPT !.at = "offer", !.session = session[to[t]]]
<1>1. Shapes /\ Transit(wire[to[t]], sender[t], at[to[t]], inbound[to[t]], t)
      /\ sender[t].at = "idle"
  BY DEF InvHere, Transits, Pin
<1>2. sender[t] \in Sender /\ session[to[t]] \in Int
  BY <1>1 DEF Shapes, Sender
<1>3. s \in Sender /\ s.sent = sender[t].sent /\ s.at = "offer"
  BY <1>2 DEF Sender
<1>4. sender' = [sender EXCEPT ![t] = s]
  BY DEF Pin
<1>5. wire[to[t]] \in Seq(Frame)
  BY <1>1 DEF Shapes
<1> HIDE DEF s
<1>6. Transit(wire[to[t]], s, at[to[t]], inbound[to[t]], t)
  BY <1>1, <1>3 DEF Transit, Unsent, Announced, Accepted, Waiting
<1>7. SenderStep(t, s, wire[to[t]])
  BY <1>1, <1>4 DEF SenderStep, Pin, Shapes
<1> QED
  BY <1>3, <1>5, <1>6, <1>7, SenderStepHolds

LEMMA SendOfferHolds ==
  ASSUME NEW t \in Transfer, InvHere, SendOffer(t)
  PROVE  InvHere'
<1> DEFINE s == [sender[t] EXCEPT !.at = Stays(t, "chunks")]
           m == [kind |-> "offer", transfer |-> t]
<1>1. Shapes /\ Transit(wire[to[t]], sender[t], at[to[t]], inbound[to[t]], t)
      /\ sender[t].at = "offer"
  BY DEF InvHere, Transits, SendOffer
<1>2. sender[t] \in Sender /\ Stays(t, "chunks") \in {"chunks", "over"}
  BY <1>1 DEF Shapes, Sender, Stays
<1>3. s \in Sender /\ s.sent = sender[t].sent /\ s.at \notin {"idle", "offer"}
  BY <1>2 DEF Sender
<1>4. m \in Frame /\ IsOffer(m, t)
  BY DEF Frame, IsOffer
<1>5. wire[to[t]] \in Seq(Frame)
  BY <1>1 DEF Shapes
<1>6. SenderStep(t, s, Append(wire[to[t]], m))
  BY DEF SenderStep, SendOffer, Transmit
<1> HIDE DEF s, m
<1>7. Transit(Append(wire[to[t]], m), s, at[to[t]], inbound[to[t]], t)
  BY <1>1, <1>3, <1>4, <1>5, TransitOffered
<1>8. m.transfer = t /\ Append(wire[to[t]], m) \in Seq(Frame)
  BY <1>4, <1>5 DEF IsOffer
<1> QED
  BY <1>3, <1>4, <1>6, <1>7, <1>8, SenderStepHolds

LEMMA SendChunkHolds ==
  ASSUME NEW t \in Transfer, NEW same \in BOOLEAN, InvHere, SendChunk(t, same)
  PROVE  InvHere'
<1> DEFINE i == sender[t].sent + 1
           s == [sender[t] EXCEPT !.at = Stays(t, "chunks"), !.sent = i]
           m == [kind |-> "chunk", transfer |-> t, data |-> Part(t, i, same)]
<1>1. Shapes /\ Transit(wire[to[t]], sender[t], at[to[t]], inbound[to[t]], t)
  BY DEF InvHere, Transits
<1>2. sender[t] \in Sender /\ Stays(t, "chunks") \in {"chunks", "over"}
      /\ sender[t].sent \in Nat
  BY <1>1, SenderFacts DEF Shapes, Sender, Stays, SendChunk
<1>3. s \in Sender /\ s.sent = i /\ s.at \notin {"idle", "offer"}
  <2>1. i \in Nat
    BY <1>2
  <2>2. PICK place : place = Stays(t, "chunks")
    OBVIOUS
  <2>3. s = [sender[t] EXCEPT !.at = place, !.sent = i]
    BY <2>2
  <2>4. place \in {"chunks", "over"}
    BY <1>2, <2>2
  <2> HIDE DEF s, i
  <2>5. s.sent = i /\ s.at = place /\ s \in Sender
    BY <1>2, <2>1, <2>3, <2>4 DEF Sender
  <2> QED
    BY <2>4, <2>5
<1>4. m \in Frame /\ IsChunk(m, t) /\ m.data.part = i
  <2>1. Part(t, i, same) \in Chunk /\ Part(t, i, same).part = i
    BY <1>2 DEF Part, Chunk
  <2> QED
    BY <2>1 DEF Frame, IsChunk
<1>5. /\ to[t] \in Worker
      /\ wire[to[t]] \in Seq(Frame)
      /\ t \in DOMAIN inbound[to[t]] => Len(inbound[to[t]][t].digest) \in Nat
  BY <1>1, SlotLength, SenderFacts DEF Shapes
<1>6. SenderStep(t, s, Append(wire[to[t]], m))
  BY DEF SenderStep, SendChunk, Transmit
<1> HIDE DEF s, m
<1>7. Transit(Append(wire[to[t]], m), s, at[to[t]], inbound[to[t]], t)
  BY <1>1, <1>2, <1>3, <1>4, <1>5, TransitSent
<1>8. m.transfer = t /\ Append(wire[to[t]], m) \in Seq(Frame)
  BY <1>4, <1>5 DEF IsChunk
<1> QED
  BY <1>3, <1>4, <1>6, <1>7, <1>8, SenderStepHolds

-----------------------------------------------------------------------------
(* The files.                                                              *)

LEMMA WrittenAtEnd ==
  ASSUME NEW S, NEW file \in Seq(S), NEW data \in S
  PROVE  Written(file, Len(file) + 1, data) = Append(file, data)
<1> DEFINE n == Len(file) + 1
<1>1. Max({Len(file), n}) = n
  <2>1. n \in {Len(file), n} /\ \A y \in {Len(file), n} : n >= y
    OBVIOUS
  <2>2. \A x \in {Len(file), n} : (\A y \in {Len(file), n} : x >= y) => x = n
    OBVIOUS
  <2> QED
    BY <2>1, <2>2 DEF Max
<1>2. Written(file, n, data) =
        [i \in 1 .. n |-> IF i = n THEN data ELSE IF i <= Len(file) THEN file[i] ELSE Hole]
  BY <1>1 DEF Written
<1> DEFINE written == Written(file, n, data)
           longer == Append(file, data)
<1>3. /\ longer \in Seq(S) /\ DOMAIN longer = 1 .. n
      /\ \A i \in 1 .. Len(file) : longer[i] = file[i]
      /\ longer[n] = data
  BY AppendFacts
<1>4. /\ written \in [1 .. n -> S]
      /\ \A i \in 1 .. n : written[i] = longer[i]
  BY <1>2, <1>3
<1>5. longer \in [1 .. n -> S]
  <2>1. \A q \in Seq(S) : q \in [1 .. Len(q) -> S]
    OBVIOUS
  <2>2. Len(longer) = n
    OBVIOUS
  <2> QED
    BY <1>3, <2>1, <2>2
<1> HIDE DEF written, longer
<1>6. written = longer
  BY <1>4, <1>5
<1> QED
  BY <1>6 DEF written, longer

\* Files, slots and reports are as they were, and nobody is about to open
\* another path.
LEMMA PathsSame ==
  ASSUME Shapes, Paths, UNCHANGED <<to, store>>,
         \A w \in Worker : at'[w].pc = "open" => at'[w] = at[w]
  PROVE  Paths'
<1>1. UNCHANGED <<to, inbound, disk, reported, stuck, overrun>>
  BY DEF store
<1>2. Owned' /\ Apart' /\ Settled'
  BY <1>1 DEF Paths, Owned, Apart, Settled
<1>3. ReceivedIsWhole' /\ Accounted' /\ StuckApart'
  BY <1>1 DEF Paths, ReceivedIsWhole, Accounted, StuckApart, Received, UnderWay
<1>4. Fresh'
  BY <1>1 DEF Paths, Fresh
<1> QED
  BY <1>2, <1>3, <1>4 DEF Paths

LEMMA LookPaths ==
  ASSUME NEW w \in Worker, Shapes, Paths, Look(w)
  PROVE  Paths'
<1>1. CASE at[w].path \in DOMAIN disk
  <2>1. at' = [at EXCEPT ![w].path = @ + 1]
    BY <1>1 DEF Look
  <2>2. at'[w].pc = "look"
    <3>1. at[w] \in [pc : {"look", "open"}, transfer : Transfer, path : Nat]
          /\ at[w].pc = "look"
      BY MakingFacts DEF Look
    <3>2. [at[w] EXCEPT !.path = @ + 1].pc = "look"
      BY <3>1
    <3> QED
      BY <2>1, <3>2 DEF Shapes
  <2>3. \A v \in Worker : v # w => at'[v] = at[v]
    BY <2>1 DEF Shapes
  <2>4. UNCHANGED <<to, store>>
    BY DEF Look, peer
  <2> QED
    BY <2>2, <2>3, <2>4, PathsSame
<1>2. CASE at[w].path \notin DOMAIN disk
  <2>1. at' = [at EXCEPT ![w].pc = "open"]
    BY <1>2 DEF Look
  <2>2. at'[w].path = at[w].path
    <3>1. at[w] \in [pc : {"look", "open"}, transfer : Transfer, path : Nat]
      BY MakingFacts DEF Look
    <3>2. [at[w] EXCEPT !.pc = "open"].path = at[w].path
      BY <3>1
    <3> QED
      BY <2>1, <3>2 DEF Shapes
  <2>3. \A v \in Worker : v # w => at'[v] = at[v]
    BY <2>1 DEF Shapes
  <2>4. UNCHANGED <<to, inbound, disk, reported, stuck, overrun>>
    BY DEF Look, peer, store
  <2>5. Owned' /\ Apart' /\ Settled'
    BY <2>4 DEF Paths, Owned, Apart, Settled
  <2>6. ReceivedIsWhole' /\ Accounted' /\ StuckApart'
    BY <2>4 DEF Paths, ReceivedIsWhole, Accounted, StuckApart, Received, UnderWay
  <2>7. ASSUME NEW v \in Worker, at'[v].pc = "open", at'[v].path \notin overrun
        PROVE  /\ \A t \in DOMAIN inbound[v] : inbound[v][t].path # at'[v].path
               /\ \A r \in reported : to[r.transfer] = v => r.path # at'[v].path
    <3>1. CASE v = w
      BY <3>1, <2>2, <2>7, <1>2 DEF Paths, Owned, ReceivedIsWhole
    <3>2. CASE v # w
      BY <3>2, <2>3, <2>7 DEF Paths, Fresh
    <3> QED
      BY <3>1, <3>2
  <2>8. Fresh'
    BY <2>4, <2>7 DEF Fresh
  <2> QED
    BY <2>5, <2>6, <2>8 DEF Paths
<1> QED
  BY <1>1, <1>2

LEMMA OpenPaths ==
  ASSUME NEW w \in Worker, InvHere, Paths, Open(w)
  PROVE  Paths'
<1> DEFINE p == at[w].path
           t == at[w].transfer
<1>1. Shapes /\ at[w].pc = "open" /\ t \in Transfer
  BY MakingFacts DEF InvHere, Open
<1>2. t \notin DOMAIN inbound[w]
  <2>1. Local(w, wire[w], at[w], inbound[w]) /\ Making(at[w], t)
    BY <1>1, LocalFacts DEF Making
  <2> QED
    BY <1>1, <2>1 DEF Local, Transit, Accepted
<1>3. /\ DOMAIN disk' = DOMAIN disk \cup {p}
      /\ disk'[p] = << >>
      /\ \A q \in DOMAIN disk : q # p => disk'[q] = disk[q]
  BY DEF Open
<1>4. /\ \A v \in Worker : v # w => inbound'[v] = inbound[v]
      /\ DOMAIN inbound'[w] = DOMAIN inbound[w] \cup {t}
      /\ inbound'[w][t].path = p
      /\ inbound'[w][t].digest = << >>
      /\ \A u \in DOMAIN inbound[w] : inbound'[w][u] = inbound[w][u]
  <2>1. inbound' = [inbound EXCEPT ![w] = Opened(w)]
    BY <1>1 DEF Open, Opened, Shapes
  <2>2. inbound'[w] = Opened(w) /\ \A v \in Worker : v # w => inbound'[v] = inbound[v]
    BY <1>1, <2>1 DEF Shapes
  <2> QED
    BY <1>2, <2>2 DEF Opened
<1>5. /\ overrun \subseteq overrun'
      /\ p \notin overrun' =>
           \/ p \notin DOMAIN disk
           \/ /\ ~UsedByOthers(w, p)
              /\ \A r \in reported : r.path = p => to[r.transfer] = w
  BY DEF Open
<1>6. UNCHANGED <<to, reported>> /\ stuck' = stuck \ {p} /\ at'[w] = Receiving
      /\ \A v \in Worker : v # w => at'[v] = at[v]
  BY <1>1 DEF Open, peer, Shapes
<1> HIDE DEF p, t
<1>7. ASSUME p \notin overrun'
      PROVE  /\ \A v \in Worker : \A u \in DOMAIN inbound[v] : inbound[v][u].path # p
             /\ \A r \in reported : r.path # p
  <2>1. p \notin overrun
    BY <1>5, <1>7
  <2>2. CASE p \notin DOMAIN disk
    BY <2>1, <2>2 DEF Paths, Owned, ReceivedIsWhole
  <2>3. CASE ~UsedByOthers(w, p) /\ \A r \in reported : r.path = p => to[r.transfer] = w
    BY <1>1, <2>1, <2>3 DEF Paths, Fresh, UsedByOthers, p
  <2> QED
    BY <1>5, <1>7, <2>2, <2>3
<1>8. \A v \in Worker : \A u \in DOMAIN inbound'[v] :
        \/ v = w /\ u = t
        \/ u \in DOMAIN inbound[v] /\ inbound'[v][u] = inbound[v][u]
  BY <1>4
<1>9. Owned'
  <2>1. ASSUME NEW v \in Worker, NEW u \in DOMAIN inbound'[v],
               inbound'[v][u].path \notin overrun'
        PROVE  /\ inbound'[v][u].path \in DOMAIN disk'
               /\ disk'[inbound'[v][u].path] = inbound'[v][u].digest
    <3>1. CASE v = w /\ u = t
      BY <3>1, <1>3, <1>4
    <3>2. CASE u \in DOMAIN inbound[v] /\ inbound'[v][u] = inbound[v][u]
      BY <3>2, <2>1, <1>3, <1>5, <1>7 DEF Paths, Owned
    <3> QED
      BY <3>1, <3>2, <1>8
  <2> QED
    BY <2>1 DEF Owned
<1>10. Apart'
  <2>1. ASSUME NEW v \in Worker, NEW x \in Worker,
               NEW u \in DOMAIN inbound'[v], NEW y \in DOMAIN inbound'[x],
               inbound'[v][u].path = inbound'[x][y].path,
               inbound'[v][u].path \notin overrun'
        PROVE  u = y
    <3>1. CASE (v = w /\ u = t) /\ (x = w /\ y = t)
      BY <3>1
    <3>2. CASE (v = w /\ u = t) /\ (y \in DOMAIN inbound[x] /\ inbound'[x][y] = inbound[x][y])
      BY <3>2, <2>1, <1>4, <1>7
    <3>3. CASE (u \in DOMAIN inbound[v] /\ inbound'[v][u] = inbound[v][u]) /\ (x = w /\ y = t)
      BY <3>3, <2>1, <1>4, <1>7
    <3>4. CASE /\ u \in DOMAIN inbound[v] /\ inbound'[v][u] = inbound[v][u]
               /\ y \in DOMAIN inbound[x] /\ inbound'[x][y] = inbound[x][y]
      BY <3>4, <2>1, <1>5 DEF Paths, Apart
    <3> QED
      BY <3>1, <3>2, <3>3, <3>4, <1>8
  <2> QED
    BY <2>1 DEF Apart
<1>11. ReceivedIsWhole'
  <2>1. ASSUME NEW r \in reported, r.path \notin overrun'
        PROVE  r.path \in DOMAIN disk' /\ disk'[r.path] = Content(r.transfer)
    BY <2>1, <1>3, <1>5, <1>7 DEF Paths, ReceivedIsWhole
  <2> QED
    BY <2>1, <1>6 DEF ReceivedIsWhole
<1>12. Settled'
  <2>1. ASSUME NEW r \in reported, r.path \notin overrun',
               NEW v \in Worker, NEW u \in DOMAIN inbound'[v]
        PROVE  inbound'[v][u].path # r.path
    <3>1. CASE v = w /\ u = t
      BY <3>1, <2>1, <1>4, <1>7
    <3>2. CASE u \in DOMAIN inbound[v] /\ inbound'[v][u] = inbound[v][u]
      BY <3>2, <2>1, <1>5 DEF Paths, Settled
    <3> QED
      BY <3>1, <3>2, <1>8
  <2> QED
    BY <2>1, <1>6 DEF Settled
<1>13. Accounted'
  <2>1. ASSUME NEW q \in DOMAIN disk', q \notin overrun'
        PROVE  \/ \E r \in reported : r.path = q
               \/ \E v \in Worker : \E u \in DOMAIN inbound'[v] : inbound'[v][u].path = q
               \/ q \in stuck'
    <3>1. CASE q = p
      BY <3>1, <1>4
    <3>2. CASE q # p
      <4>1. q \in DOMAIN disk \ overrun
        BY <2>1, <3>2, <1>3, <1>5
      <4>2. CASE Received(q)
        BY <4>2 DEF Received
      <4>3. CASE UnderWay(q)
        <5>1. PICK v \in Worker : \E u \in DOMAIN inbound[v] : inbound[v][u].path = q
          BY <4>3 DEF UnderWay
        <5>2. PICK u \in DOMAIN inbound[v] : inbound[v][u].path = q
          BY <5>1
        <5>3. u \in DOMAIN inbound'[v] /\ inbound'[v][u] = inbound[v][u]
          BY <1>4
        <5> QED
          BY <5>2, <5>3
      <4>4. CASE q \in stuck
        BY <4>4, <3>2, <1>6
      <4> QED
        BY <4>1, <4>2, <4>3, <4>4 DEF Paths, Accounted
    <3> QED
      BY <3>1, <3>2
  <2> QED
    BY <2>1, <1>6 DEF Accounted, Received, UnderWay
<1>15. StuckApart'
  <2>1. ASSUME NEW q \in stuck', q \notin overrun'
        PROVE  /\ \A r \in reported : r.path # q
               /\ \A v \in Worker : \A u \in DOMAIN inbound'[v] : inbound'[v][u].path # q
    <3>1. q \in stuck \ overrun /\ q # p
      BY <2>1, <1>5, <1>6
    <3>2. /\ \A r \in reported : r.path # q
          /\ \A v \in Worker : \A u \in DOMAIN inbound[v] : inbound[v][u].path # q
      BY <3>1 DEF Paths, StuckApart, Received, UnderWay
    <3> QED
      BY <3>1, <3>2, <1>4, <1>8
  <2> QED
    BY <2>1, <1>6 DEF StuckApart, Received, UnderWay
<1>14. Fresh'
  <2>1. ASSUME NEW v \in Worker, at'[v].pc = "open", at'[v].path \notin overrun'
        PROVE  /\ \A u \in DOMAIN inbound'[v] : inbound'[v][u].path # at'[v].path
               /\ \A r \in reported : to[r.transfer] = v => r.path # at'[v].path
    <3>1. v # w
      BY <2>1, <1>6 DEF Receiving
    <3> QED
      BY <2>1, <3>1, <1>4, <1>5, <1>6 DEF Paths, Fresh
  <2> QED
    BY <2>1, <1>6 DEF Fresh
<1> QED
  BY <1>9, <1>10, <1>11, <1>12, <1>13, <1>14, <1>15 DEF Paths

\* What Unlink does: it disturbs no other path.
Removed(paths) ==
  /\ DOMAIN disk' \subseteq DOMAIN disk
  /\ DOMAIN disk \ paths \subseteq DOMAIN disk'
  /\ \A q \in DOMAIN disk' : disk'[q] = disk[q]
  /\ DOMAIN disk' \cap paths \subseteq stuck'
  /\ stuck \ paths \subseteq stuck'
  /\ stuck' \subseteq stuck \cup paths

LEMMA UnlinkRemoves ==
  ASSUME NEW paths, Unlink(paths)
  PROVE  Removed(paths)
<1>1. PICK stay \in SUBSET (paths \cap DOMAIN disk) :
        /\ stuck' = (stuck \ paths) \cup stay
        /\ disk' = [p \in DOMAIN disk \ (paths \ stay) |-> disk[p]]
  BY DEF Unlink
<1>2. /\ DOMAIN disk' = DOMAIN disk \ (paths \ stay)
      /\ \A q \in DOMAIN disk' : disk'[q] = disk[q]
  BY <1>1
<1> QED
  BY <1>1, <1>2 DEF Removed

\* w gives up some of its transfers; their files go or are known to be stuck.
GivesUp(w, gone) ==
  /\ gone \subseteq DOMAIN inbound[w]
  /\ \A v \in Worker : v # w => inbound'[v] = inbound[v]
  /\ DOMAIN inbound'[w] = DOMAIN inbound[w] \ gone
  /\ \A u \in DOMAIN inbound[w] \ gone : inbound'[w][u] = inbound[w][u]
  /\ Removed({inbound[w][u].path : u \in gone})
  /\ UNCHANGED <<to, reported, overrun>>
  /\ \A v \in Worker : at'[v].pc = "open" => at'[v] = at[v]

LEMMA GivesUpPaths ==
  ASSUME NEW w \in Worker, NEW gone, InvHere, Paths, GivesUp(w, gone)
  PROVE  Paths'
<1>1. Shapes /\ Routed
  BY DEF InvHere
<1>2. UNCHANGED <<to, reported, overrun>>
      /\ \A v \in Worker : at'[v].pc = "open" => at'[v] = at[v]
  BY DEF GivesUp
<1>3. \A v \in Worker : \A u \in DOMAIN inbound'[v] :
        /\ u \in DOMAIN inbound[v] /\ inbound'[v][u] = inbound[v][u]
        /\ u \notin gone
  <2>1. ASSUME NEW v \in Worker, v # w, NEW u \in DOMAIN inbound[v]
        PROVE  u \notin gone
    BY <2>1, <1>1 DEF GivesUp, Routed
  <2> QED
    BY <2>1 DEF GivesUp
<1>4. ASSUME NEW q \in DOMAIN disk,
             \A u \in gone : inbound[w][u].path # q
      PROVE  q \in DOMAIN disk' /\ disk'[q] = disk[q]
  <2>1. q \notin {inbound[w][u].path : u \in gone}
    BY <1>4
  <2> QED
    BY <2>1 DEF GivesUp, Removed
<1>5. \A u \in gone : u \in DOMAIN inbound[w]
  BY DEF GivesUp
<1>6. Owned'
  <2>1. ASSUME NEW v \in Worker, NEW u \in DOMAIN inbound'[v],
               inbound'[v][u].path \notin overrun
        PROVE  /\ inbound'[v][u].path \in DOMAIN disk'
               /\ disk'[inbound'[v][u].path] = inbound'[v][u].digest
    <3>1. u \in DOMAIN inbound[v] /\ inbound'[v][u] = inbound[v][u] /\ u \notin gone
      BY <1>3
    <3>2. inbound[v][u].path \in DOMAIN disk
          /\ disk[inbound[v][u].path] = inbound[v][u].digest
      BY <2>1, <3>1 DEF Paths, Owned
    <3>3. \A y \in gone : inbound[w][y].path # inbound[v][u].path
      BY <2>1, <3>1, <1>5 DEF Paths, Apart
    <3> QED
      BY <3>1, <3>2, <3>3, <1>4
  <2> QED
    BY <2>1, <1>2 DEF Owned
<1>7. Apart'
  <2>1. ASSUME NEW v \in Worker, NEW x \in Worker,
               NEW u \in DOMAIN inbound'[v], NEW y \in DOMAIN inbound'[x],
               inbound'[v][u].path = inbound'[x][y].path,
               inbound'[v][u].path \notin overrun
        PROVE  u = y
    BY <2>1, <1>3 DEF Paths, Apart
  <2> QED
    BY <2>1, <1>2 DEF Apart
<1>8. ReceivedIsWhole'
  <2>1. ASSUME NEW r \in reported, r.path \notin overrun
        PROVE  r.path \in DOMAIN disk' /\ disk'[r.path] = Content(r.transfer)
    <3>1. r.path \in DOMAIN disk /\ disk[r.path] = Content(r.transfer)
      BY <2>1 DEF Paths, ReceivedIsWhole
    <3>2. \A y \in gone : inbound[w][y].path # r.path
      BY <2>1, <1>5 DEF Paths, Settled
    <3> QED
      BY <3>1, <3>2, <1>4
  <2> QED
    BY <2>1, <1>2 DEF ReceivedIsWhole
<1>9. Settled'
  BY <1>2, <1>3 DEF Paths, Settled
<1>10. Accounted'
  <2>1. ASSUME NEW q \in DOMAIN disk', q \notin overrun, q \notin stuck'
        PROVE  \/ \E r \in reported : r.path = q
               \/ \E v \in Worker : \E u \in DOMAIN inbound'[v] : inbound'[v][u].path = q
    <3>1. /\ q \in DOMAIN disk \ overrun /\ q \notin stuck
          /\ \A u \in gone : inbound[w][u].path # q
      BY <2>1 DEF GivesUp, Removed
    <3>2. CASE Received(q)
      BY <3>2 DEF Received
    <3>3. CASE UnderWay(q)
      <4>1. PICK v \in Worker : \E u \in DOMAIN inbound[v] : inbound[v][u].path = q
        BY <3>3 DEF UnderWay
      <4>2. PICK u \in DOMAIN inbound[v] : inbound[v][u].path = q
        BY <4>1
      <4>3. v # w \/ u \notin gone
        BY <3>1, <4>2
      <4>4. u \in DOMAIN inbound'[v] /\ inbound'[v][u] = inbound[v][u]
        BY <4>3 DEF GivesUp
      <4> QED
        BY <4>2, <4>4
    <3> QED
      BY <3>1, <3>2, <3>3 DEF Paths, Accounted
  <2> QED
    BY <2>1, <1>2 DEF Accounted, Received, UnderWay
<1>12. StuckApart'
  <2>1. ASSUME NEW q \in stuck', q \notin overrun
        PROVE  /\ \A r \in reported : r.path # q
               /\ \A v \in Worker : \A u \in DOMAIN inbound'[v] : inbound'[v][u].path # q
    <3>1. CASE q \in stuck
      BY <2>1, <3>1, <1>3 DEF Paths, StuckApart, Received, UnderWay
    <3>2. CASE q \notin stuck
      <4>1. q \in {inbound[w][y].path : y \in gone}
        BY <2>1, <3>2 DEF GivesUp, Removed
      <4>2. PICK y \in gone : inbound[w][y].path = q
        BY <4>1
      <4>3. \A r \in reported : r.path # q
        BY <2>1, <4>2, <1>5 DEF Paths, Settled
      <4>4. ASSUME NEW v \in Worker, NEW u \in DOMAIN inbound'[v]
            PROVE  inbound'[v][u].path # q
        <5>1. u \in DOMAIN inbound[v] /\ inbound'[v][u] = inbound[v][u] /\ u # y
          BY <1>3
        <5> QED
          BY <5>1, <4>2, <2>1, <1>5 DEF Paths, Apart
      <4> QED
        BY <4>3, <4>4
    <3> QED
      BY <3>1, <3>2
  <2> QED
    BY <2>1, <1>2 DEF StuckApart, Received, UnderWay
<1>11. Fresh'
  BY <1>2, <1>3 DEF Paths, Fresh
<1> QED
  BY <1>6, <1>7, <1>8, <1>9, <1>10, <1>11, <1>12 DEF Paths

LEMMA DiscardPaths ==
  ASSUME NEW w \in Worker, InvHere, Paths, Offered(w),
         Discard(w, Arriving(w).transfer), UNCHANGED <<to, at, reported, overrun>>
  PROVE  Paths'
<1> DEFINE t == Arriving(w).transfer
<1>1. Shapes
  BY DEF InvHere
<1>2. inbound'[w] = Without(inbound[w], t)
      /\ \A v \in Worker : v # w => inbound'[v] = inbound[v]
  BY <1>1 DEF Discard, Shapes
<1>3. DOMAIN inbound'[w] = DOMAIN inbound[w] \ {t}
      /\ \A u \in DOMAIN inbound[w] \ {t} : inbound'[w][u] = inbound[w][u]
  BY <1>2 DEF Without
<1>4. Removed({inbound[w][t].path})
  BY UnlinkRemoves DEF Discard
<1>5. {inbound[w][u].path : u \in {t}} = {inbound[w][t].path}
  OBVIOUS
<1>6. GivesUp(w, {t})
  BY <1>2, <1>3, <1>4, <1>5 DEF GivesUp, Offered
<1> QED
  BY <1>6, GivesUpPaths

LEMMA ReconnectPaths ==
  ASSUME NEW w \in Worker, InvHere, Paths, Reconnect(w)
  PROVE  Paths'
<1>1. Shapes
  BY DEF InvHere
<1>2. AbortInboundTransfers(w) /\ UNCHANGED <<to, at, reported, overrun>>
  BY DEF Reconnect
<1>3. inbound'[w] = << >> /\ \A v \in Worker : v # w => inbound'[v] = inbound[v]
  BY <1>1, <1>2 DEF AbortInboundTransfers, Shapes
<1>4. Removed({inbound[w][u].path : u \in DOMAIN inbound[w]})
  BY <1>2, UnlinkRemoves DEF AbortInboundTransfers
<1>5. DOMAIN inbound'[w] = {}
  BY <1>3
<1>6. GivesUp(w, DOMAIN inbound[w])
  BY <1>2, <1>3, <1>4, <1>5 DEF GivesUp
<1> QED
  BY <1>6, GivesUpPaths

LEMMA WriteChunkFacts ==
  ASSUME NEW w \in Worker, InvHere, Paths, ArrivingChunk(w), Offered(w), WriteChunk(w)
  PROVE  /\ DOMAIN disk' = DOMAIN disk
         /\ \A q \in DOMAIN disk : q # Slot(w).path => disk'[q] = disk[q]
         /\ Slot(w).path \notin overrun =>
              Slot(w).path \in DOMAIN disk /\ disk'[Slot(w).path] = Got(w)
<1> DEFINE path == Slot(w).path
<1>1. DOMAIN disk' = DOMAIN disk
      /\ \A q \in DOMAIN disk : q # path => disk'[q] = disk[q]
  BY DEF WriteChunk
<1>2. ASSUME path \notin overrun
      PROVE  path \in DOMAIN disk /\ disk'[path] = Got(w)
  <2>1. path \in DOMAIN disk /\ disk[path] = Slot(w).digest
    BY <1>2 DEF Paths, Owned, Slot, Offered
  <2>2. /\ Slot(w).digest \in Seq(Chunk)
        /\ Arriving(w).data \in Chunk
        /\ Len(Got(w)) = Len(Slot(w).digest) + 1
    BY GotShape DEF InvHere, ArrivingChunk
  <2>3. disk'[path] = Written(disk[path], Len(Got(w)), Arriving(w).data)
    BY <2>1 DEF WriteChunk
  <2>4. Written(Slot(w).digest, Len(Slot(w).digest) + 1, Arriving(w).data) = Got(w)
    BY <2>2, WrittenAtEnd DEF Got
  <2> QED
    BY <2>1, <2>2, <2>3, <2>4
<1> QED
  BY <1>1, <1>2

LEMMA StorePaths ==
  ASSUME NEW w \in Worker, InvHere, Paths, Store(w)
  PROVE  Paths'
<1> DEFINE t == Arriving(w).transfer
           path == Slot(w).path
<1>1. /\ Shapes /\ Routed
      /\ ArrivingChunk(w) /\ Offered(w) /\ WriteChunk(w)
      /\ UNCHANGED <<to, at, reported, stuck, overrun>>
  BY DEF InvHere, Store, peer
<1>2. /\ DOMAIN disk' = DOMAIN disk
      /\ \A q \in DOMAIN disk : q # path => disk'[q] = disk[q]
      /\ path \notin overrun => path \in DOMAIN disk /\ disk'[path] = Got(w)
  BY <1>1, WriteChunkFacts
<1>3. inbound'[w] = Kept(w) /\ \A v \in Worker : v # w => inbound'[v] = inbound[v]
  BY <1>1 DEF Store, Kept, Shapes
<1>4. /\ DOMAIN inbound'[w] = DOMAIN inbound[w]
      /\ inbound'[w][t].path = path /\ inbound'[w][t].digest = Got(w)
      /\ \A u \in DOMAIN inbound[w] : u # t => inbound'[w][u] = inbound[w][u]
  BY <1>1, <1>3, KeptSlots DEF ArrivingChunk
<1>5. t \in DOMAIN inbound[w] /\ inbound[w][t].path = path
  BY <1>1 DEF Offered, Slot
<1> HIDE DEF t, path
<1>6. \A v \in Worker :
        /\ DOMAIN inbound'[v] = DOMAIN inbound[v]
        /\ \A u \in DOMAIN inbound[v] : inbound'[v][u].path = inbound[v][u].path
        /\ \A u \in DOMAIN inbound[v] : u # t => inbound'[v][u] = inbound[v][u]
  BY <1>3, <1>4, <1>5
<1>7. \A v \in Worker : t \in DOMAIN inbound[v] => v = w
  BY <1>1, <1>5 DEF Routed
<1>8. Owned'
  <2>1. ASSUME NEW v \in Worker, NEW u \in DOMAIN inbound[v],
               inbound[v][u].path \notin overrun
        PROVE  /\ inbound'[v][u].path \in DOMAIN disk'
               /\ disk'[inbound'[v][u].path] = inbound'[v][u].digest
    <3>1. CASE u = t
      BY <2>1, <3>1, <1>2, <1>4, <1>5, <1>7
    <3>2. CASE u # t
      <4>1. inbound[v][u].path \in DOMAIN disk
            /\ disk[inbound[v][u].path] = inbound[v][u].digest
        BY <2>1 DEF Paths, Owned
      <4>2. inbound[v][u].path # path
        BY <2>1, <3>2, <1>5 DEF Paths, Apart
      <4> QED
        BY <4>1, <4>2, <3>2, <1>2, <1>6
    <3> QED
      BY <3>1, <3>2
  <2> QED
    BY <2>1, <1>1, <1>6 DEF Owned
<1>9. Apart'
  BY <1>1, <1>6 DEF Paths, Apart
<1>10. ReceivedIsWhole'
  <2>1. ASSUME NEW r \in reported, r.path \notin overrun
        PROVE  r.path \in DOMAIN disk' /\ disk'[r.path] = Content(r.transfer)
    <3>1. r.path # path
      BY <2>1, <1>5 DEF Paths, Settled
    <3> QED
      BY <2>1, <3>1, <1>2 DEF Paths, ReceivedIsWhole
  <2> QED
    BY <2>1, <1>1 DEF ReceivedIsWhole
<1>11. Settled'
  BY <1>1, <1>6 DEF Paths, Settled
<1>12. Accounted' /\ StuckApart'
  BY <1>1, <1>2, <1>6 DEF Paths, Accounted, StuckApart, Received, UnderWay
<1>13. Fresh'
  BY <1>1, <1>6 DEF Paths, Fresh
<1> QED
  BY <1>8, <1>9, <1>10, <1>11, <1>12, <1>13 DEF Paths

LEMMA CompletePaths ==
  ASSUME NEW w \in Worker, InvHere, Paths, Complete(w)
  PROVE  Paths'
<1> DEFINE t == Arriving(w).transfer
           path == Slot(w).path
           new == [transfer |-> t, path |-> path]
<1>1. /\ Shapes /\ Routed
      /\ ArrivingChunk(w) /\ Offered(w) /\ at[w] = Receiving
      /\ UNCHANGED <<to, at, overrun>>
  BY DEF InvHere, Complete, ArrivingChunk, peer
<1>2. CASE Got(w) # Content(t) /\ Discard(w, t) /\ UNCHANGED reported
  BY <1>1, <1>2, DiscardPaths
<1>3. CASE /\ Got(w) = Content(t)
           /\ WriteChunk(w)
           /\ inbound' = [inbound EXCEPT ![w] = Without(@, t)]
           /\ reported' = reported \cup {new}
           /\ UNCHANGED stuck
  <2>1. /\ DOMAIN disk' = DOMAIN disk
        /\ \A q \in DOMAIN disk : q # path => disk'[q] = disk[q]
        /\ path \notin overrun => path \in DOMAIN disk /\ disk'[path] = Got(w)
    BY <1>1, <1>3, WriteChunkFacts
  <2>2. inbound'[w] = Without(inbound[w], t)
        /\ \A v \in Worker : v # w => inbound'[v] = inbound[v]
    BY <1>1, <1>3 DEF Shapes
  <2>3. DOMAIN inbound'[w] = DOMAIN inbound[w] \ {t}
        /\ \A u \in DOMAIN inbound[w] \ {t} : inbound'[w][u] = inbound[w][u]
    BY <2>2 DEF Without
  <2>4. /\ t \in DOMAIN inbound[w] /\ inbound[w][t].path = path
        /\ new.path = path /\ new.transfer = t /\ to[t] = w
    BY <1>1 DEF Offered, Slot, Routed
  <2>5. Got(w) = Content(t) /\ reported' = reported \cup {new} /\ UNCHANGED stuck
    BY <1>3
  <2> HIDE DEF t, path, new
  <2>6. \A v \in Worker : \A u \in DOMAIN inbound'[v] :
          u \in DOMAIN inbound[v] /\ u # t /\ inbound'[v][u] = inbound[v][u]
    BY <1>1, <2>2, <2>3, <2>4 DEF Routed
  <2>7. \A v \in Worker : \A u \in DOMAIN inbound[v] :
          u # t => u \in DOMAIN inbound'[v] /\ inbound'[v][u] = inbound[v][u]
    BY <2>2, <2>3
  <2>8. ASSUME NEW v \in Worker, NEW u \in DOMAIN inbound'[v],
               inbound'[v][u].path \notin overrun
        PROVE  inbound'[v][u].path # path
    BY <2>4, <2>6, <2>8 DEF Paths, Apart
  <2>9. Owned'
    <3>1. ASSUME NEW v \in Worker, NEW u \in DOMAIN inbound'[v],
                 inbound'[v][u].path \notin overrun
          PROVE  /\ inbound'[v][u].path \in DOMAIN disk'
                 /\ disk'[inbound'[v][u].path] = inbound'[v][u].digest
      <4>1. inbound'[v][u].path # path
        BY <3>1, <2>8
      <4>2. inbound[v][u].path \in DOMAIN disk
            /\ disk[inbound[v][u].path] = inbound[v][u].digest
        BY <3>1, <2>6 DEF Paths, Owned
      <4> QED
        BY <4>1, <4>2, <2>1, <2>6
    <3> QED
      BY <3>1, <1>1 DEF Owned
  <2>10. Apart'
    <3>1. ASSUME NEW v \in Worker, NEW x \in Worker,
                 NEW u \in DOMAIN inbound'[v], NEW y \in DOMAIN inbound'[x],
                 inbound'[v][u].path = inbound'[x][y].path,
                 inbound'[v][u].path \notin overrun
          PROVE  u = y
      BY <3>1, <2>6 DEF Paths, Apart
    <3> QED
      BY <3>1, <1>1 DEF Apart
  <2>11. ReceivedIsWhole'
    <3>1. ASSUME NEW r \in reported', r.path \notin overrun
          PROVE  r.path \in DOMAIN disk' /\ disk'[r.path] = Content(r.transfer)
      <4>1. CASE r = new
        BY <3>1, <4>1, <2>1, <2>4, <2>5
      <4>2. CASE r \in reported
        <5>1. r.path # path
          BY <3>1, <4>2, <2>4 DEF Paths, Settled
        <5> QED
          BY <3>1, <4>2, <5>1, <2>1 DEF Paths, ReceivedIsWhole
      <4> QED
        BY <4>1, <4>2, <2>5
    <3> QED
      BY <3>1, <1>1 DEF ReceivedIsWhole
  <2>12. Settled'
    <3>1. ASSUME NEW r \in reported', r.path \notin overrun,
                 NEW v \in Worker, NEW u \in DOMAIN inbound'[v]
          PROVE  inbound'[v][u].path # r.path
      <4>1. CASE r = new
        BY <3>1, <4>1, <2>4, <2>8
      <4>2. CASE r \in reported
        BY <3>1, <4>2, <2>6 DEF Paths, Settled
      <4> QED
        BY <4>1, <4>2, <2>5
    <3> QED
      BY <3>1, <1>1 DEF Settled
  <2>13. Accounted'
    <3>1. ASSUME NEW q \in DOMAIN disk', q \notin overrun, q \notin stuck
          PROVE  \/ \E r \in reported' : r.path = q
                 \/ \E v \in Worker : \E u \in DOMAIN inbound'[v] : inbound'[v][u].path = q
      <4>1. CASE q = path
        BY <4>1, <2>4, <2>5
      <4>2. CASE q # path
        <5>1. CASE Received(q)
          BY <5>1, <2>5 DEF Received
        <5>2. CASE UnderWay(q)
          <6>1. PICK v \in Worker : \E u \in DOMAIN inbound[v] : inbound[v][u].path = q
            BY <5>2 DEF UnderWay
          <6>2. PICK u \in DOMAIN inbound[v] : inbound[v][u].path = q
            BY <6>1
          <6>3. u # t
            BY <6>2, <4>2, <1>1, <2>4 DEF Routed
          <6> QED
            BY <6>2, <6>3, <2>7
        <5> QED
          BY <3>1, <5>1, <5>2, <2>1 DEF Paths, Accounted
      <4> QED
        BY <4>1, <4>2
    <3> QED
      BY <3>1, <1>1, <2>5 DEF Accounted, Received, UnderWay
  <2>15. StuckApart'
    <3>1. ASSUME NEW q \in stuck, q \notin overrun
          PROVE  /\ \A r \in reported' : r.path # q
                 /\ \A v \in Worker : \A u \in DOMAIN inbound'[v] : inbound'[v][u].path # q
      <4>1. /\ \A r \in reported : r.path # q
            /\ \A v \in Worker : \A u \in DOMAIN inbound[v] : inbound[v][u].path # q
        BY <3>1 DEF Paths, StuckApart, Received, UnderWay
      <4>2. path # q
        BY <4>1, <2>4
      <4> QED
        BY <4>1, <4>2, <2>4, <2>5, <2>6
    <3> QED
      BY <3>1, <1>1, <2>5 DEF StuckApart, Received, UnderWay
  <2>14. Fresh'
    <3>1. ASSUME NEW v \in Worker, at[v].pc = "open", at[v].path \notin overrun
          PROVE  /\ \A u \in DOMAIN inbound'[v] : inbound'[v][u].path # at[v].path
                 /\ \A r \in reported' : to[r.transfer] = v => r.path # at[v].path
      <4>1. v # w
        BY <3>1, <1>1 DEF Receiving
      <4>2. \A r \in reported' : to[r.transfer] = v => r \in reported
        BY <4>1, <2>4, <2>5
      <4> QED
        BY <3>1, <4>2, <2>6 DEF Paths, Fresh
    <3> QED
      BY <3>1, <1>1 DEF Fresh
  <2> QED
    BY <2>9, <2>10, <2>11, <2>12, <2>13, <2>14, <2>15 DEF Paths
<1> QED
  BY <1>2, <1>3 DEF Complete

-----------------------------------------------------------------------------
(* Init, every step, and what follows.                                     *)

LEMMA InitHolds ==
  ASSUME Init
  PROVE  FileReceiverInv
<1>1. PICK none : none = << >>
  OBVIOUS
<1>2. none \in Seq(Frame) /\ DOMAIN none = {}
  BY <1>1
<1>3. /\ to \in [Transfer -> Worker]
      /\ sender = [t \in Transfer |-> [at |-> "idle", session |-> 0, sent |-> 0]]
      /\ session = [w \in Worker |-> 1]
      /\ wire = [w \in Worker |-> none]
      /\ at = [w \in Worker |-> Receiving]
      /\ inbound = [w \in Worker |-> none]
      /\ disk = none
      /\ reported = {} /\ stuck = {}
  BY <1>1, RoutesAssumption DEF Init
<1>4. Shapes
  BY <1>2, <1>3 DEF Shapes
<1>5. \A t \in Transfer : ~Making(Receiving, t)
  BY DEF Making, Receiving
<1>6. Routed
  BY <1>2, <1>3, <1>5 DEF Routed
<1>7. Transits
  <2>1. ASSUME NEW t \in Transfer
        PROVE  Transit(wire[to[t]], sender[t], at[to[t]], inbound[to[t]], t)
    <3>1. Transit(none, [at |-> "idle", session |-> 0, sent |-> 0], Receiving, none, t)
      BY <1>2, <1>5 DEF Transit, InOrder, Unsent, Announced, Accepted, Waiting
    <3>2. to[t] \in Worker
      BY <1>3
    <3> QED
      BY <3>1, <3>2, <1>3
  <2> QED
    BY <2>1 DEF Transits
<1>8. SlotsFit
  <2>1. IsFiniteSet(DOMAIN none) /\ Cardinality(DOMAIN none) = 0
    BY <1>2, FS_EmptySet
  <2> QED
    BY <1>3, <2>1, MaxInboundAssumption DEF SlotsFit, Receiving
<1>9. Paths
  BY <1>2, <1>3
  DEF Paths, Owned, Apart, ReceivedIsWhole, Settled, Accounted, StuckApart, Fresh, Receiving
<1> QED
  BY <1>4, <1>6, <1>7, <1>8, <1>9 DEF FileReceiverInv

LEMMA StepHolds ==
  ASSUME FileReceiverInv, [Next]_vars
  PROVE  FileReceiverInv'
<1>1. Shapes /\ InvHere /\ Paths
  BY DEF FileReceiverInv, InvHere
<1>2. ASSUME NEW t \in Transfer, Send(t)
      PROVE  InvHere' /\ Paths'
  <2>1. UNCHANGED <<to, at, store>>
    BY <1>2 DEF Send, Pin, SendOffer, SendChunk
  <2>2. Paths'
    BY <1>1, <2>1, PathsSame
  <2>3. InvHere'
    BY <1>1, <1>2, PinHolds, SendOfferHolds, SendChunkHolds DEF Send
  <2> QED
    BY <2>2, <2>3
<1>3. ASSUME NEW w \in Worker, Receive(w) \/ Reconnect(w)
      PROVE  InvHere' /\ Paths'
  <2>1. CASE ReadOffer(w)
    <3>1. UNCHANGED <<to, store>> /\ \A v \in Worker : at'[v].pc = "open" => at'[v] = at[v]
      BY <1>1, <2>1 DEF ReadOffer, peer, Shapes, Receiving
    <3> QED
      BY <1>1, <2>1, <3>1, PathsSame, ReadOfferHolds
  <2>2. CASE Look(w)
    BY <1>1, <2>2, LookPaths, LookHolds
  <2>3. CASE Open(w)
    BY <1>1, <2>3, OpenPaths, OpenHolds
  <2>4. CASE OpenFails(w)
    <3>1. UNCHANGED <<to, store>> /\ \A v \in Worker : at'[v].pc = "open" => at'[v] = at[v]
      BY <1>1, <2>4 DEF OpenFails, peer, Shapes, Receiving
    <3> QED
      BY <1>1, <2>4, <3>1, PathsSame, LookHolds
  <2>5. CASE DropChunk(w)
    <3>1. UNCHANGED <<to, at, store>>
      BY <2>5 DEF DropChunk, peer
    <3> QED
      BY <1>1, <2>5, <3>1, PathsSame, DropChunkHolds
  <2>6. CASE WriteFails(w)
    <3>1. /\ Offered(w) /\ Discard(w, Arriving(w).transfer)
          /\ UNCHANGED <<to, at, reported, overrun>>
      BY <2>6 DEF WriteFails, peer
    <3> QED
      BY <1>1, <2>6, <3>1, DiscardPaths, WriteFailsHolds
  <2>7. CASE Store(w)
    BY <1>1, <2>7, StorePaths, StoreHolds
  <2>8. CASE Complete(w)
    BY <1>1, <2>8, CompletePaths, CompleteHolds
  <2>9. CASE Dies(w)
    <3>1. UNCHANGED <<to, store>> /\ \A v \in Worker : at'[v].pc = "open" => at'[v] = at[v]
      BY <1>1, <2>9 DEF Dies, peer, Shapes
    <3> QED
      BY <1>1, <2>9, <3>1, PathsSame, DiesHolds
  <2>10. CASE Reconnect(w)
    BY <1>1, <2>10, ReconnectPaths, ReconnectHolds
  <2> QED
    BY <1>3, <2>1, <2>2, <2>3, <2>4, <2>5, <2>6, <2>7, <2>8, <2>9, <2>10 DEF Receive
<1>4. ASSUME UNCHANGED vars
      PROVE  InvHere' /\ Paths'
  <2>1. UNCHANGED <<to, sender, session, wire, at, inbound, disk, reported, stuck, overrun>>
    BY <1>4 DEF vars, peer, store
  <2>2. Shapes' /\ Routed' /\ SlotsFit'
    BY <1>1, <2>1 DEF InvHere, Shapes, Routed, SlotsFit
  <2>3. Transits'
    BY <1>1, <2>1 DEF InvHere, Transits
  <2>4. Paths'
    BY <1>1, <2>1, PathsSame DEF store
  <2> QED
    BY <2>2, <2>3, <2>4 DEF InvHere
<1>5. InvHere' /\ Paths'
  BY <1>2, <1>3, <1>4 DEF Next
<1> QED
  BY <1>5 DEF FileReceiverInv, InvHere

(* The whole of it is inductive: where the frames of a transfer are, what  *)
(* its slot still waits for, and which path belongs to whom.               *)
THEOREM ReceiverInvariance == Spec => []FileReceiverInv
<1>1. Init => FileReceiverInv
  BY InitHolds
<1>2. FileReceiverInv /\ [Next]_vars => FileReceiverInv'
  BY StepHolds
<1> QED
  BY <1>1, <1>2, PTL DEF Spec

(* _handle_file_chunk reports a file only when it holds, byte for byte,    *)
(* what was offered, and nothing later touches that file, however many     *)
(* transfers, workers and connections there are; files two workers opened  *)
(* at one path excepted.                                                   *)
THEOREM ReceivedFilesAreWhole == Spec => []ReceivedIsWhole
<1>1. FileReceiverInv => ReceivedIsWhole
  BY DEF FileReceiverInv, Paths
<1> QED
  BY <1>1, ReceiverInvariance, PTL

(* Refusals, full disks, mismatched digests, lost connections and dying    *)
(* threads forget no file: what is in FILE_RECV_DIR was reported, is under *)
(* way, or is a file whose unlink() failed, which the code ignores; and    *)
(* none is two of these.  Files two workers opened at one path excepted.   *)
THEOREM DirectoryIsAccountedFor == Spec => []FilesAccountedFor
<1>1. FileReceiverInv => FilesAccountedFor
  <2>1. FileReceiverInv => Paths
    BY DEF FileReceiverInv
  <2>2. ASSUME Paths, NEW p \in DOMAIN disk \ overrun, NEW r \in reported, r.path = p
        PROVE  ~UnderWay(p)
    BY <2>2 DEF Paths, Settled, UnderWay
  <2> QED
    BY <2>1, <2>2 DEF Paths, Accounted, StuckApart, FilesAccountedFor, Received
<1> QED
  BY <1>1, ReceiverInvariance, PTL

(* There are never more than MAX_CONCURRENT_INBOUND_TRANSFERS slots taken, *)
(* and one that is still taken when all frames are read waits for a chunk  *)
(* the sender never sent: the receiver loses and repeats none.             *)
THEOREM SlotsAreNotLost == Spec => []SlotsAreOwed
<1>1. FileReceiverInv => SlotsAreOwed
  <2> SUFFICES ASSUME FileReceiverInv, NEW w \in Worker
               PROVE  /\ Cardinality(DOMAIN inbound[w]) <= MaxInbound
                      /\ (wire[w] = << >> /\ at[w].pc # "dead") =>
                           \A t \in DOMAIN inbound[w] : sender[t].sent < Size
    BY DEF SlotsAreOwed
  <2>1. InvHere /\ Shapes /\ Local(w, wire[w], at[w], inbound[w])
    BY LocalFacts DEF FileReceiverInv, InvHere
  <2>2. ASSUME wire[w] = << >>, at[w].pc # "dead", NEW t \in DOMAIN inbound[w]
        PROVE  sender[t].sent < Size
    <3>1. t \in Transfer /\ to[t] = w
      BY <2>1 DEF Local
    <3>2. /\ Len(inbound[w][t].digest) < Size
          /\ OnWire(wire[w], t, Len(inbound[w][t].digest) + 1, sender[t].sent)
      BY <2>1, <2>2, <3>1 DEF Local, Transit, Waiting
    <3>3. Len(inbound[w][t].digest) \in Nat /\ sender[t].sent \in Nat
      BY <2>1, <3>1, SlotLength, SenderFacts
    <3>4. DOMAIN wire[w] = {}
      BY <2>2
    <3>5. ~ (sender[t].sent \in Len(inbound[w][t].digest) + 1 .. sender[t].sent)
      BY <3>2, <3>4 DEF OnWire
    <3> QED
      BY <3>2, <3>3, <3>5, SizeAssumption
  <2> QED
    BY <2>1, <2>2 DEF Local
<1> QED
  BY <1>1, ReceiverInvariance, PTL
=============================================================================
