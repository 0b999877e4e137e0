------------------------ MODULE DatagramLinkTheorems ------------------------
(***************************************************************************)
(* What holds of two endpoints on the unreliable link for every quota,     *)
(* window, skip bound, rekey interval and amount of damage.                *)
(***************************************************************************)
EXTENDS DatagramLink, SecureChannelTheorems

LEMMA MessageNumbers ==
  /\ Message \subseteq Nat
  /\ \A p \in Party : \A n \in Nat : n < Quota[p] => n \in Message
<1> DEFINE Q == {Quota[p] : p \in Party}
<1>1. PICK q \in Nat : \A k \in Q : k <= q
  <2>1. Quota[Initiator] \in Nat /\ Quota[Responder] \in Nat
    BY QuotaAssumption DEF Party
  <2>2. CASE Quota[Initiator] <= Quota[Responder]
    BY <2>1, <2>2 DEF Party
  <2>3. CASE Quota[Responder] <= Quota[Initiator]
    BY <2>1, <2>3 DEF Party
  <2> QED
    BY <2>1, <2>2, <2>3
<1>2. Q \in SUBSET Nat /\ Q # {}
  BY QuotaAssumption DEF Party
<1> HIDE DEF Q
<1>3. Max(Q) \in Q /\ \A k \in Q : k <= Max(Q)
  BY <1>1, <1>2, MaxOfBounded
<1>4. Message = 0 .. (Max(Q) - 1)
  BY DEF Message, Q
<1>5. \A p \in Party : Quota[p] \in Q
  BY DEF Q
<1>6. Max(Q) \in Nat
  BY <1>2, <1>3
<1>7. ASSUME NEW p \in Party, NEW n \in Nat, n < Quota[p]
      PROVE  n \in 0 .. (Max(Q) - 1)
  <2>1. Quota[p] <= Max(Q) /\ Quota[p] \in Nat
    BY <1>3, <1>5, QuotaAssumption
  <2> QED
    BY <1>6, <1>7, <2>1
<1> QED
  BY <1>4, <1>6, <1>7

\* A damaged copy is still a frame, made from what was sealed.
LEMMA DamagedCopyType ==
  ASSUME NEW f, IsFrame(f), NEW g \in DamagedCopies(f)
  PROVE  IsFrame(g) /\ g.seal.ctr = f.seal.ctr
<1>1. Message \subseteq Nat
  BY MessageNumbers
<1>2. CASE g = [f EXCEPT !.seal.intact = FALSE]
  BY <1>2 DEF IsFrame
<1>3. CASE g = [f EXCEPT !.pub = NoPub]
  BY <1>3 DEF IsFrame
<1>4. ASSUME NEW n \in Message, g = [f EXCEPT !.ctr = n]
      PROVE  IsFrame(g) /\ g.seal.ctr = f.seal.ctr
  BY <1>1, <1>4 DEF IsFrame
<1> QED
  BY <1>2, <1>3, <1>4 DEF DamagedCopies

-----------------------------------------------------------------------------
LEMMA InitInvariant == Init => IInv
<1> SUFFICES ASSUME Init PROVE IInv
  OBVIOUS
<1>1. \A p \in Party : IsChannel(channel[p])
  BY NewChannelType DEF Init
<1>2. TypeOK
  BY <1>1 DEF Init, TypeOK
<1>3. /\ \A p \in Party : channel[p].sendCounter = 0
      /\ \A p \in Party : channel[p].window = EmptyWindow
  BY DEF Init, NewChannel
<1>4. WindowExact
  BY <1>3, MessageNumbers, WindowSizeAssumption
     DEF Init, WindowExact, EmptyWindow, Fresh
<1>5. \A p \in Party : channel[p].sendCounter <= Quota[p]
  BY <1>3, QuotaAssumption
<1> QED
  BY <1>2, <1>4, <1>5 DEF IInv, Init

\* A step that leaves the windows and the deliveries alone.
LEMMA WindowsUntouched ==
  ASSUME WindowExact, UNCHANGED deliveries,
         \A p \in Party : channel'[p].window = channel[p].window
  PROVE  WindowExact'
BY DEF WindowExact

LEMMA SendInvariant ==
  ASSUME IInv, NEW p \in Party, NEW timeDue \in BOOLEAN, Send(p, timeDue)
  PROVE  IInv'
<1> DEFINE c == channel[p]
           f == Sealed(c, timeDue)
           q == Other(p)
<1>1. p \in Party /\ q \in Party /\ Other(q) = p /\ q # p
  BY PartyAssumption DEF Party, Other
<1>2. /\ IsChannel(AfterEncrypt(c, timeDue))
      /\ IsFrame(f)
      /\ f.seal.ctr = c.sendCounter
      /\ AfterEncrypt(c, timeDue).sendCounter = c.sendCounter + 1
      /\ AfterEncrypt(c, timeDue).window = c.window
  BY EncryptType DEF IInv, TypeOK
<1> HIDE DEF f, q
<1>3. /\ channel' = [channel EXCEPT ![p] = AfterEncrypt(c, timeDue)]
      /\ net' = [net EXCEPT ![q] = @ \cup {f}]
      /\ UNCHANGED deliveries
      /\ c.sendCounter < Quota[p]
  BY DEF Send, f, q
<1>4. TypeOK'
  BY <1>1, <1>2, <1>3 DEF IInv, TypeOK
<1>5. WindowExact'
  <2>1. \A r \in Party : channel'[r].window = channel[r].window
    BY <1>2, <1>3 DEF IInv, TypeOK
  <2> QED
    BY <1>3, <2>1, WindowsUntouched DEF IInv
<1>6. \A r \in Party : /\ channel[r].sendCounter \in Nat
                       /\ channel'[r].sendCounter \in Nat
                       /\ channel[r].sendCounter <= channel'[r].sendCounter
                       /\ channel'[r].sendCounter <= Quota[r]
  <2>1. c.sendCounter \in Nat /\ Quota[p] \in Nat
    BY QuotaAssumption DEF IInv, TypeOK, IsChannel
  <2>2. channel'[p].sendCounter = c.sendCounter + 1
    BY <1>2, <1>3 DEF IInv, TypeOK
  <2>3. \A r \in Party : r # p => channel'[r] = channel[r]
    BY <1>3 DEF IInv, TypeOK
  <2>4. \A r \in Party : channel[r].sendCounter \in Nat /\ channel[r].sendCounter <= Quota[r]
    BY DEF IInv, TypeOK, IsChannel
  <2> QED
    BY <1>3, <2>1, <2>2, <2>3, <2>4
<1>7. \A r \in Party : \A g \in net'[r] :
        g.seal.ctr < channel'[Other(r)].sendCounter
  <2> SUFFICES ASSUME NEW r \in Party, NEW g \in net'[r]
               PROVE  g.seal.ctr < channel'[Other(r)].sendCounter
    OBVIOUS
  <2>1. CASE g \in net[r]
    <3>1. Other(r) \in Party /\ g.seal.ctr \in Nat
      BY <2>1 DEF Party, Other, IInv, TypeOK, IsFrame
    <3>2. g.seal.ctr < channel[Other(r)].sendCounter
      BY <2>1 DEF IInv
    <3> QED
      BY <1>6, <3>1, <3>2
  <2>2. CASE g \notin net[r]
    <3>1. r = q /\ g = f
      BY <1>1, <1>3, <2>2 DEF IInv, TypeOK
    <3>2. channel'[p].sendCounter = c.sendCounter + 1
      BY <1>2, <1>3 DEF IInv, TypeOK
    <3>3. c.sendCounter \in Nat
      BY DEF IInv, TypeOK, IsChannel
    <3> QED
      BY <1>1, <1>2, <3>1, <3>2, <3>3
  <2> QED
    BY <2>1, <2>2
<1> QED
  BY <1>4, <1>5, <1>6, <1>7 DEF IInv

LEMMA DamageInvariant ==
  ASSUME IInv, NEW p \in Party, Damage(p)
  PROVE  IInv'
<1>0. PICK f \in net[p] : \E g \in DamagedCopies(f) :
        net' = [net EXCEPT ![p] = @ \cup {g}]
  BY DEF Damage
<1>1. PICK g \in DamagedCopies(f) : net' = [net EXCEPT ![p] = @ \cup {g}]
  BY <1>0
<1>2. UNCHANGED <<channel, deliveries>>
  BY DEF Damage
<1>3. IsFrame(f)
  BY DEF IInv, TypeOK
<1>4. IsFrame(g) /\ g.seal.ctr = f.seal.ctr
  BY <1>3, DamagedCopyType
<1>5. TypeOK'
  BY <1>1, <1>2, <1>4 DEF IInv, TypeOK
<1>6. WindowExact'
  BY <1>2, WindowsUntouched DEF IInv
<1>7. \A r \in Party : \A h \in net'[r] :
        h \in net[r] \/ (r = p /\ h = g)
  BY <1>1 DEF IInv, TypeOK
<1> QED
  BY <1>2, <1>4, <1>5, <1>6, <1>7 DEF IInv

LEMMA RejectInvariant ==
  ASSUME IInv, NEW p \in Party, NEW f \in net[p], RejectTag(p, f)
  PROVE  IInv'
<1> DEFINE d == AfterKeyDerivation(channel[p], f)
<1>1. IsFrame(f) /\ IsChannel(channel[p]) /\ HasChain(channel[p], f)
  BY DEF IInv, TypeOK, RejectTag, IsForeign, Derives
<1>2. /\ IsChannel(d)
      /\ d.sendCounter = channel[p].sendCounter
      /\ d.window = channel[p].window
  BY <1>1, KeyDerivationType
<1> HIDE DEF d
<1>3. channel' = [channel EXCEPT ![p] = d] /\ UNCHANGED <<net, deliveries>>
  BY DEF RejectTag, d
<1>4. TypeOK'
  BY <1>2, <1>3 DEF IInv, TypeOK
<1>5. \A r \in Party : /\ channel'[r].window = channel[r].window
                       /\ channel'[r].sendCounter = channel[r].sendCounter
  BY <1>2, <1>3 DEF IInv, TypeOK
<1>6. WindowExact'
  BY <1>3, <1>5, WindowsUntouched DEF IInv
<1>7. \A r \in Party : Other(r) \in Party
  BY DEF Party, Other
<1> QED
  BY <1>3, <1>4, <1>5, <1>6, <1>7 DEF IInv

\* An accepted frame carries a message of the peer that was not yet
\* delivered.
LEMMA AcceptedIsNew ==
  ASSUME IInv, NEW p \in Party, NEW f \in net[p], Accept(p, f)
  PROVE  /\ f.ctr = f.seal.ctr
         /\ f.ctr \in Message
         /\ f.ctr < channel[Other(p)].sendCounter
         /\ deliveries[p][f.ctr] = 0
<1>1. f.ctr = f.seal.ctr /\ Fresh(channel[p].window, f.ctr) /\ f.ctr \in Nat
  BY DEF Accept, Accepts, Derives, KeyMatches, Opens, Genuine, IInv, TypeOK, IsFrame
<1>2. f.ctr < channel[Other(p)].sendCounter
  BY <1>1 DEF IInv
<1>3. Other(p) \in Party
  BY DEF Party, Other
<1>4. /\ channel[Other(p)].sendCounter \in Nat
      /\ Quota[Other(p)] \in Nat
      /\ channel[Other(p)].sendCounter <= Quota[Other(p)]
  BY <1>3, QuotaAssumption DEF IInv, TypeOK, IsChannel
<1>5. f.ctr \in Message
  <2>1. f.ctr < Quota[Other(p)]
    BY <1>1, <1>2, <1>4
  <2> QED
    BY <1>1, <1>3, <2>1, MessageNumbers
<1>6. deliveries[p][f.ctr] = 0
  BY <1>1, <1>5 DEF IInv, WindowExact
<1> QED
  BY <1>1, <1>2, <1>5, <1>6

LEMMA AcceptInvariant ==
  ASSUME IInv, NEW p \in Party, NEW f \in net[p], Accept(p, f)
  PROVE  IInv'
<1> DEFINE d == AfterAccept(channel[p], f)
           w == channel[p].window
           n == f.ctr
<1>1. IsFrame(f) /\ IsChannel(channel[p]) /\ IsWindow(w) /\ n \in Nat
  BY DEF IInv, TypeOK, IsFrame, IsChannel
<1>2. n = f.seal.ctr /\ n \in Message /\ deliveries[p][n] = 0
  BY AcceptedIsNew
<1>3. /\ IsChannel(d)
      /\ d.sendCounter = channel[p].sendCounter
      /\ d.window = MarkSeen(w, n)
  BY <1>1, AcceptType DEF Accept
<1> HIDE DEF d
<1>4. /\ channel' = [channel EXCEPT ![p] = d]
      /\ deliveries' = [deliveries EXCEPT ![p][n] = 1]
      /\ UNCHANGED net
  BY <1>2 DEF Accept, d, IInv, TypeOK
<1>5. TypeOK'
  BY <1>2, <1>3, <1>4 DEF IInv, TypeOK
<1>6. WindowExact'
  <2> SUFFICES ASSUME NEW r \in Party, NEW m \in Message
               PROVE  Fresh(channel'[r].window, m)
                        <=> /\ deliveries'[r][m] = 0
                            /\ channel'[r].window.highest - m < WindowSize
    BY DEF WindowExact
  <2>1. m \in Nat
    BY MessageNumbers
  <2>2. Fresh(channel[r].window, m)
          <=> /\ deliveries[r][m] = 0
              /\ channel[r].window.highest - m < WindowSize
    BY DEF IInv, WindowExact
  <2>3. CASE r # p
    <3>1. channel'[r] = channel[r] /\ deliveries'[r] = deliveries[r]
      BY <1>4, <2>3 DEF IInv, TypeOK
    <3> QED
      BY <2>2, <3>1
  <2>4. CASE r = p
    <3>1. channel'[p].window = MarkSeen(w, n)
      BY <1>3, <1>4 DEF IInv, TypeOK
    <3>2. deliveries'[p][m] = 0 <=> m # n /\ deliveries[p][m] = 0
      BY <1>2, <1>4 DEF IInv, TypeOK
    <3>3. Fresh(MarkSeen(w, n), m)
            <=> /\ m # n
                /\ Fresh(w, m)
                /\ MarkSeen(w, n).highest - m < WindowSize
      BY <1>1, <2>1, MarkSeenExact
    <3>4. MarkSeen(w, n).highest - m < WindowSize => w.highest - m < WindowSize
      <4>1. /\ MarkSeen(w, n).highest \in Int
            /\ MarkSeen(w, n).highest >= w.highest
            /\ w.highest \in Int
        <5>1. w.highest \in Int
          BY <1>1 DEF IsWindow
        <5> QED
          BY <1>1, <5>1, MarkSeenAdvances
      <4> QED
        BY <2>1, <4>1, WindowSizeAssumption
    <3> QED
      BY <2>2, <2>4, <3>1, <3>2, <3>3, <3>4
  <2> QED
    BY <2>3, <2>4
<1>7. \A r \in Party : channel'[r].sendCounter = channel[r].sendCounter
  BY <1>3, <1>4 DEF IInv, TypeOK
<1>8. \A r \in Party : Other(r) \in Party
  BY DEF Party, Other
<1> QED
  BY <1>4, <1>5, <1>6, <1>7, <1>8 DEF IInv

LEMMA NextInvariant ==
  ASSUME IInv, [Next]_vars
  PROVE  IInv'
<1>1. ASSUME NEW p \in Party, NEW timeDue \in BOOLEAN, Send(p, timeDue)
      PROVE  IInv'
  BY <1>1, SendInvariant
<1>2. ASSUME NEW p \in Party, Damage(p)
      PROVE  IInv'
  BY <1>2, DamageInvariant
<1>3. ASSUME NEW p \in Party, NEW f \in net[p], RejectTag(p, f)
      PROVE  IInv'
  BY <1>3, RejectInvariant
<1>4. ASSUME NEW p \in Party, NEW f \in net[p], Accept(p, f)
      PROVE  IInv'
  BY <1>4, AcceptInvariant
<1>5. CASE UNCHANGED vars
  BY <1>5 DEF vars, IInv, TypeOK, WindowExact
<1> QED
  BY <1>1, <1>2, <1>3, <1>4, <1>5 DEF Next, Receive, Refuse

(* The inductive invariant holds for every value of the constants.         *)
THEOREM Invariance == Spec => []IInv
<1>1. Init => IInv
  BY InitInvariant
<1>2. IInv /\ [Next]_vars => IInv'
  BY NextInvariant
<1> QED
  BY <1>1, <1>2, PTL DEF Spec

(* Every endpoint, frame and delivery count stays well-typed.              *)
THEOREM TypeCorrectness == Spec => []TypeOK
<1>1. IInv => TypeOK
  BY DEF IInv
<1> QED
  BY <1>1, Invariance, PTL

(* The replay window refuses exactly what was delivered or is too old, on  *)
(* any link: secure_channel.py's _check_freshness and _mark_seen agree     *)
(* with the history of the session, damaged and rejected frames included.  *)
THEOREM WindowIsExact == Spec => []WindowExact
<1>1. IInv => WindowExact
  BY DEF IInv
<1> QED
  BY <1>1, Invariance, PTL

-----------------------------------------------------------------------------
(* Refinement of MessageChannel.                                           *)

LEMMA InitRefines == Init => Abstract!Init
<1> SUFFICES ASSUME Init PROVE Abstract!Init
  OBVIOUS
<1>1. \A p \in Party : channel[p].sendCounter = 0
  BY DEF Init, NewChannel
<1>2. \A p \in Party : {n \in Message : n < channel[p].sendCounter} = {}
  <2>1. \A n \in Message : n \in Nat /\ ~(n < 0)
    BY MessageNumbers
  <2> QED
    BY <1>1, <2>1
<1> QED
  BY <1>2 DEF Init, Abstract!Init, Abstract!Party, Party

LEMMA SendRefines ==
  ASSUME IInv, NEW p \in Party, NEW timeDue \in BOOLEAN, Send(p, timeDue)
  PROVE  Abstract!Next
<1> DEFINE sent(c) == {m \in Message : m < c.sendCounter}
<1>0. channel[p].sendCounter \in Nat
  BY DEF IInv, TypeOK, IsChannel
<1> PICK n \in Nat : n = channel[p].sendCounter
  BY <1>0
<1>1. n < Quota[p]
  BY DEF Send
<1>2. n \in Message
  BY <1>1, MessageNumbers
<1>3. channel'[p].sendCounter = n + 1
  BY EncryptType DEF Send, IInv, TypeOK
<1>4. sent(channel'[p]) = sent(channel[p]) \cup {n}
  <2>1. \A m \in Message : m \in Nat
    BY MessageNumbers
  <2>2. \A m \in Message : m < n + 1 <=> m < n \/ m = n
    BY <1>1, <2>1
  <2> QED
    BY <1>2, <1>3, <2>2
<1>5. \A r \in Party : r # p => channel'[r] = channel[r]
  BY DEF Send, IInv, TypeOK
<1>6. [r \in Party |-> sent(channel'[r])]
        = [[r \in Party |-> sent(channel[r])] EXCEPT ![p] = @ \cup {n}]
  BY <1>4, <1>5
<1>7. n \notin sent(channel[p])
  BY <1>1
<1>8. UNCHANGED deliveries
  BY DEF Send
<1>9. Abstract!Submit(p, n)
  BY <1>6, <1>7, <1>8 DEF Abstract!Submit
<1> QED
  BY <1>2, <1>9 DEF Abstract!Next, Abstract!Party, Party

LEMMA AcceptRefines ==
  ASSUME IInv, NEW p \in Party, NEW f \in net[p], Accept(p, f)
  PROVE  Abstract!Next
<1> DEFINE n == f.ctr
           sent(c) == {m \in Message : m < c.sendCounter}
<1>1. /\ n = f.seal.ctr
      /\ n \in Message
      /\ n < channel[Other(p)].sendCounter
      /\ deliveries[p][n] = 0
  BY AcceptedIsNew
<1>2. Other(p) = Abstract!Peer(p) /\ Other(p) \in Party
  BY DEF Party, Other, Abstract!Peer
<1>3. n \in sent(channel[Other(p)])
  BY <1>1
<1>4. deliveries' = [deliveries EXCEPT ![p][n] = 1]
  BY <1>1 DEF Accept, IInv, TypeOK
<1>5. \A r \in Party : channel'[r].sendCounter = channel[r].sendCounter
  BY AcceptType DEF Accept, IInv, TypeOK
<1>6. [r \in Party |-> sent(channel'[r])] = [r \in Party |-> sent(channel[r])]
  BY <1>5
<1>7. Abstract!Deliver(p, n)
  BY <1>1, <1>2, <1>3, <1>4, <1>6 DEF Abstract!Deliver
<1> QED
  BY <1>1, <1>7 DEF Abstract!Next, Abstract!Party, Party

\* Every other step leaves the abstract channel as it is.
LEMMA OtherStepsStutter ==
  ASSUME IInv,
         \/ \E p \in Party : Damage(p)
         \/ \E p \in Party : \E f \in net[p] : RejectTag(p, f)
         \/ UNCHANGED vars
  PROVE  UNCHANGED Abstract!vars
<1> DEFINE sent(c) == {m \in Message : m < c.sendCounter}
<1>1. ASSUME NEW p \in Party, NEW f \in net[p], RejectTag(p, f)
      PROVE  \A r \in Party : channel'[r].sendCounter = channel[r].sendCounter
  <2>1. /\ IsFrame(f) /\ IsChannel(channel[p]) /\ HasChain(channel[p], f)
        /\ channel' = [channel EXCEPT ![p] = AfterKeyDerivation(channel[p], f)]
    BY <1>1 DEF IInv, TypeOK, RejectTag, IsForeign, Derives
  <2>2. AfterKeyDerivation(channel[p], f).sendCounter = channel[p].sendCounter
    BY <2>1, KeyDerivationType
  <2> QED
    BY <2>1, <2>2 DEF IInv, TypeOK
<1>2. \A r \in Party : channel'[r].sendCounter = channel[r].sendCounter
  BY <1>1 DEF Damage, vars
<1>3. UNCHANGED deliveries
  BY DEF Damage, RejectTag, vars
<1>4. [r \in Party |-> sent(channel'[r])] = [r \in Party |-> sent(channel[r])]
  BY <1>2
<1> QED
  BY <1>3, <1>4 DEF Abstract!vars

(* Over a link that loses, repeats, reorders and damages frames, decrypt() *)
(* returns a message at most once, and only one the peer encrypted.        *)
THEOREM Refinement == Spec => ImplementsMessageChannel
<1>1. Init => Abstract!Init
  BY InitRefines
<1>2. IInv /\ [Next]_vars => [Abstract!Next]_(Abstract!vars)
  <2> SUFFICES ASSUME IInv, [Next]_vars
               PROVE  Abstract!Next \/ UNCHANGED Abstract!vars
    OBVIOUS
  <2>1. ASSUME NEW p \in Party, NEW timeDue \in BOOLEAN, Send(p, timeDue)
        PROVE  Abstract!Next
    BY <2>1, SendRefines
  <2>2. ASSUME NEW p \in Party, NEW f \in net[p], Accept(p, f)
        PROVE  Abstract!Next
    BY <2>2, AcceptRefines
  <2> QED
    BY <2>1, <2>2, OtherStepsStutter DEF Next, Receive, Refuse
<1> QED
  BY <1>1, <1>2, Invariance, PTL DEF Spec, ImplementsMessageChannel, Abstract!Spec
-----------------------------------------------------------------------------
(* The steps, as the ledger sees them.                                     *)

LEMMA SendEffect ==
  ASSUME IInv, NEW p \in Party, NEW timeDue \in BOOLEAN, Send(p, timeDue),
         NEW f, f = Sealed(channel[p], timeDue)
  PROVE  /\ channel'[p] = AfterEncrypt(channel[p], timeDue)
         /\ channel'[Other(p)] = channel[Other(p)]
         /\ net'[Other(p)] = net[Other(p)] \cup {f}
         /\ net'[p] = net[p]
         /\ deliveries' = deliveries
         /\ channel'[p].sendCounter = channel[p].sendCounter + 1
         /\ IsFrame(f) /\ Genuine(f)
         /\ f.ctr = channel[p].sendCounter
         /\ f.seal.pub = f.pub
         /\ channel[p].sendCounter < Quota[p]
<1>1. Other(p) \in Party /\ Other(p) # p
  BY TwoParties
<1>2. IsFrame(f) /\ Genuine(f) /\ f.ctr = channel[p].sendCounter
      /\ AfterEncrypt(channel[p], timeDue).sendCounter = channel[p].sendCounter + 1
  BY EncryptType DEF IInv, TypeOK
<1>3. f.seal.pub = f.pub
  BY <1>2 DEF Genuine
<1> QED
  BY <1>1, <1>2, <1>3 DEF Send, IInv, TypeOK

LEMMA DamageEffect ==
  ASSUME IInv, NEW p \in Party, Damage(p)
  PROVE  \E f \in net[p] : \E g :
           /\ Genuine(f) /\ ~Genuine(g)
           /\ IsFrame(f) /\ IsFrame(g)
           /\ g.seal.key = f.seal.key
           /\ g.seal.pub = f.seal.pub
           /\ net'[p] = net[p] \cup {g}
           /\ net'[Other(p)] = net[Other(p)]
           /\ UNCHANGED <<channel, deliveries>>
<1>1. PICK f \in net[p] : \E g \in DamagedCopies(f) :
        /\ Genuine(f) /\ ~Genuine(g)
        /\ net' = [net EXCEPT ![p] = @ \cup {g}]
  BY DEF Damage
<1>2. PICK g \in DamagedCopies(f) :
        /\ Genuine(f) /\ ~Genuine(g)
        /\ net' = [net EXCEPT ![p] = @ \cup {g}]
  BY <1>1
<1>3. IsFrame(f) /\ IsFrame(g)
  BY DamagedCopyType DEF IInv, TypeOK
<1>4. g.seal.key = f.seal.key /\ g.seal.pub = f.seal.pub
  <2>1. CASE g = [f EXCEPT !.seal.intact = FALSE]
    BY <1>3, <2>1 DEF IsFrame
  <2>2. CASE g = [f EXCEPT !.pub = NoPub]
    BY <1>3, <2>2 DEF IsFrame
  <2>3. ASSUME NEW n \in Message, g = [f EXCEPT !.ctr = n]
        PROVE  g.seal.key = f.seal.key /\ g.seal.pub = f.seal.pub
    BY <1>3, <2>3 DEF IsFrame
  <2> QED
    BY <2>1, <2>2, <2>3 DEF DamagedCopies
<1>5. /\ net'[p] = net[p] \cup {g}
      /\ net'[Other(p)] = net[Other(p)]
  BY <1>2, TwoParties DEF IInv, TypeOK
<1> QED
  BY <1>2, <1>3, <1>4, <1>5 DEF Damage

LEMMA ReceiveEffect ==
  ASSUME IInv, NEW p \in Party, NEW f \in net[p], RejectTag(p, f) \/ Accept(p, f)
  PROVE  /\ IsChannel(channel[p]) /\ IsFrame(f) /\ HasChain(channel[p], f)
         /\ Fresh(channel[p].window, f.ctr)
         /\ Derivable(ChainFor(channel[p], f), LocalCounter(channel[p], f))
         /\ channel'[Other(p)] = channel[Other(p)]
         /\ net' = net
         /\ channel'[p] = IF Accept(p, f) THEN AfterAccept(channel[p], f)
                                          ELSE AfterKeyDerivation(channel[p], f)
         /\ Accept(p, f) =>
              /\ Genuine(f)
              /\ f.seal.key = MessageKey(ChainFor(channel[p], f).chainKey,
                                         LocalCounter(channel[p], f))
              /\ f.ctr \in Message
              /\ deliveries[p][f.ctr] = 0
              /\ deliveries' = [deliveries EXCEPT ![p][f.ctr] = 1]
              /\ f.ctr < channel[Other(p)].sendCounter
         /\ ~Accept(p, f) =>
              /\ deliveries' = deliveries
              /\ Genuine(f) => f.seal.key # MessageKey(ChainFor(channel[p], f).chainKey,
                                                       LocalCounter(channel[p], f))
<1>1. IsChannel(channel[p]) /\ IsFrame(f)
  BY DEF IInv, TypeOK
<1>2. Derives(channel[p], f) /\ net' = net
  BY DEF RejectTag, Accept, IsForeign, Accepts
<1>3. CASE Accept(p, f)
  <2>1. /\ f.ctr = f.seal.ctr
        /\ f.ctr \in Message
        /\ deliveries[p][f.ctr] = 0
        /\ f.ctr < channel[Other(p)].sendCounter
    BY <1>3, AcceptedIsNew
  <2>2. deliveries' = [deliveries EXCEPT ![p][f.ctr] = 1]
    BY <1>3, <2>1 DEF Accept, IInv, TypeOK
  <2>3. KeyMatches(channel[p], f)
    BY <1>3 DEF Accept, Accepts
  <2>4. channel' = [channel EXCEPT ![p] = AfterAccept(channel[p], f)]
    BY <1>3 DEF Accept
  <2> QED
    BY <1>1, <1>2, <1>3, <2>1, <2>2, <2>3, <2>4, TwoParties
       DEF Derives, KeyMatches, Opens, IInv, TypeOK
<1>4. CASE ~Accept(p, f)
  <2>1. RejectTag(p, f)
    BY <1>4
  <2>2. channel' = [channel EXCEPT ![p] = AfterKeyDerivation(channel[p], f)]
        /\ deliveries' = deliveries
        /\ ~KeyMatches(channel[p], f)
    BY <2>1 DEF RejectTag, IsForeign
  <2> QED
    BY <1>1, <1>2, <1>4, <2>2, TwoParties
       DEF Derives, KeyMatches, Opens, IInv, TypeOK
<1> QED
  BY <1>3, <1>4
-----------------------------------------------------------------------------
(* Epochs: whose key is it, and which one.                                 *)

Epochs == KeysInOrder /\ SealedInOrder /\ NoKeyShared /\ NoKeyReuse

LEMMA GenType ==
  ASSUME IInv, NEW p \in Party
  PROVE  /\ channel[p].myRatchet \in KeyPair
         /\ channel[p].peerRatchetPub \in KeyPair
         /\ channel[p].myRatchet.gen \in Nat
         /\ channel[p].peerRatchetPub.gen \in Nat
         /\ channel[p].sendCounter \in Nat
         /\ channel[p].sendingChain.counter \in Nat
         /\ channel[p].rootKey \in Seq(SUBSET KeyPair)
BY DEF IInv, TypeOK, IsChannel, KeyPair, IsSendingChain, RootKey

\* Every chain key a party has used belongs to one of its ratchet keys.
LEMMA SendingKeysMade ==
  ASSUME IInv, Epochs, NEW p \in Party, NEW k \in SendingKeys(p)
  PROVE  \E g \in 0 .. channel[p].myRatchet.gen : MadeSoFar(p, k, g)
<1>1. Other(p) \in Party /\ Other(Other(p)) = p
  BY TwoParties
<1>2. CASE k = channel[p].sendingChain.chainKey
  <2>1. channel[p].myRatchet.gen \in 0 .. channel[p].myRatchet.gen
    BY GenType
  <2> QED
    BY <1>2, <2>1 DEF Epochs, KeysInOrder
<1>3. ASSUME NEW f \in net[Other(p)], k = f.seal.key.chainKey
      PROVE  \E g \in 0 .. channel[p].myRatchet.gen : MadeSoFar(p, k, g)
  BY <1>1, <1>3 DEF Epochs, SealedInOrder
<1> QED
  BY <1>2, <1>3 DEF SendingKeys

\* A chain key made with the next ratchet key is one nobody has used.
LEMMA NextKeyIsNew ==
  ASSUME IInv, Epochs, NEW p \in Party, NEW ck, NEW h \in Nat,
         MadeBy(p, ck, channel[p].myRatchet.gen + 1, h)
  PROVE  ck \notin SendingKeys(p) /\ ck \notin SendingKeys(Other(p))
<1> DEFINE q == Other(p)
<1> PICK m \in Nat : m = channel[p].myRatchet.gen
  BY GenType
<1>1. q \in Party /\ Other(q) = p
  BY TwoParties
<1> PICK n \in Nat : n = channel[q].myRatchet.gen
  BY <1>1, GenType
<1> HIDE DEF q
<1>2. ASSUME ck \in SendingKeys(p) PROVE FALSE
  <2>1. PICK g \in 0 .. m : MadeSoFar(p, ck, g)
    BY <1>2, SendingKeysMade
  <2>2. PICK h2 \in Nat : MadeBy(p, ck, g, h2)
    BY <2>1, <1>1, GenType DEF MadeSoFar, q
  <2>3. g = m + 1
    BY <2>2, MadeOnce
  <2> QED
    BY <2>3
<1>3. ASSUME ck \in SendingKeys(q) PROVE FALSE
  <2>1. PICK g \in 0 .. n : MadeSoFar(q, ck, g)
    BY <1>1, <1>3, SendingKeysMade
  <2>2. PICK h2 \in 0 .. m : MadeBy(q, ck, g, h2)
    BY <2>1, <1>1 DEF MadeSoFar
  <2> QED
    BY <2>2, MadeApart DEF q
<1> QED
  BY <1>2, <1>3 DEF q

\* What encrypt() seals under: the chain in use, or a new one made with the
\* next ratchet key and the newest one of the peer.
LEMMA SendMakes ==
  ASSUME IInv, Epochs, NEW p \in Party, NEW timeDue \in BOOLEAN, Send(p, timeDue),
         NEW f, f = Sealed(channel[p], timeDue)
  PROVE  /\ channel'[p].myRatchet \in KeyPair
         /\ channel'[p].myRatchet.owner = p
         /\ channel'[p].peerRatchetPub = channel[p].peerRatchetPub
         /\ channel'[p].sendingChain.chainKey = f.seal.key.chainKey
         /\ channel'[p].sendingChain.counter = f.seal.key.step + 1
         /\ f.pub \in {NoPub, channel'[p].myRatchet}
         /\ \E h \in 0 .. channel[Other(p)].myRatchet.gen :
              MadeBy(p, f.seal.key.chainKey, channel'[p].myRatchet.gen, h)
         /\ \/ /\ channel'[p].myRatchet.gen = channel[p].myRatchet.gen
               /\ f.seal.key.chainKey = channel[p].sendingChain.chainKey
               /\ f.seal.key.step = channel[p].sendingChain.counter
            \/ /\ channel'[p].myRatchet.gen = channel[p].myRatchet.gen + 1
               /\ f.seal.key.chainKey \notin SendingKeys(p)
               /\ f.seal.key.chainKey \notin SendingKeys(Other(p))
<1> DEFINE c == channel[p]
           n == channel[Other(p)].myRatchet.gen
<1>1. /\ Other(p) \in Party
      /\ IsChannel(c)
      /\ channel'[p] = AfterEncrypt(c, timeDue)
  BY TwoParties, SendEffect DEF IInv, TypeOK
<1>2. PICK m \in Nat : m = c.myRatchet.gen /\ c.myRatchet = [owner |-> p, gen |-> m]
  BY GenType DEF Epochs, KeysInOrder, KeyPair
<1>3. PICK h \in 0 .. n : c.peerRatchetPub = [owner |-> Other(p), gen |-> h]
  <2>1. /\ c.peerRatchetPub \in KeyPair
        /\ c.peerRatchetPub.owner = Other(p)
        /\ c.peerRatchetPub.gen \in 0 .. n
    BY <1>1, GenType DEF Epochs, KeysInOrder
  <2> QED
    BY <2>1 DEF KeyPair
<1> DEFINE d == AfterEncrypt(c, timeDue)
<1>0. IsChannel(c) /\ d = AfterEncrypt(c, timeDue) /\ f = Sealed(c, timeDue)
  BY <1>1
<1> HIDE DEF c, n, d
<1>4. CASE SendDue(c, timeDue)
  <2> DEFINE ck == ChainKeyOf(d.rootKey)
  <2>1. /\ d.myRatchet \in KeyPair
        /\ d.myRatchet.owner = c.myRatchet.owner
        /\ d.myRatchet.gen = c.myRatchet.gen + 1
        /\ d.peerRatchetPub = c.peerRatchetPub
        /\ d.rootKey = Append(c.rootKey, {d.myRatchet, c.peerRatchetPub})
        /\ d.sendingChain.chainKey = ck
        /\ d.sendingChain.counter = 1
        /\ f.pub = d.myRatchet
        /\ f.seal.key.chainKey = ck
        /\ f.seal.key.step = 0
    <3>1. Announcing(c, d, f)
      BY <1>0, <1>4, EncryptAnnounces
    <3> QED
      BY <3>1 DEF Announcing
  <2>0. d.myRatchet = [owner |-> p, gen |-> m + 1]
    BY <1>2, <2>1 DEF KeyPair
  <2>2. MadeBy(p, ck, m + 1, h)
    <3>1. c.rootKey \in Seq(SUBSET KeyPair)
      BY GenType DEF c
    <3>2. {d.myRatchet, c.peerRatchetPub} \in SUBSET KeyPair
      BY <2>0, <1>3, TwoParties DEF KeyPair
    <3>3. /\ d.rootKey # << >>
          /\ d.rootKey[Len(d.rootKey)] = {d.myRatchet, c.peerRatchetPub}
      BY <2>1, <3>1, <3>2
    <3>4. ck.root = d.rootKey
      BY DEF ChainKeyOf
    <3>5. m + 1 # 0
      OBVIOUS
    <3> HIDE DEF ck
    <3> QED
      BY <1>3, <2>0, <3>3, <3>4, <3>5 DEF MadeBy, InitialRoot, DH
  <2> HIDE DEF ck
  <2>3. ck \notin SendingKeys(p) /\ ck \notin SendingKeys(Other(p))
    BY <1>2, <2>2, NextKeyIsNew DEF c
  <2>4. d.myRatchet.gen = m + 1 /\ d.myRatchet.owner = p
    BY <2>0
  <2> QED
    BY <1>1, <2>1, <2>2, <2>3, <2>4 DEF c, n, d
<1>5. CASE ~SendDue(c, timeDue)
  <2>1. /\ d.myRatchet = c.myRatchet
        /\ d.peerRatchetPub = c.peerRatchetPub
        /\ d.sendingChain.chainKey = c.sendingChain.chainKey
        /\ d.sendingChain.counter = c.sendingChain.counter + 1
        /\ f.pub = NoPub
        /\ f.seal.key.chainKey = c.sendingChain.chainKey
        /\ f.seal.key.step = c.sendingChain.counter
    <3>1. Continuing(c, d, f)
      BY <1>0, <1>5, EncryptContinues
    <3> QED
      BY <3>1 DEF Continuing
  <2>2. PICK h2 \in 0 .. n : MadeBy(p, c.sendingChain.chainKey, m, h2)
    BY <1>2 DEF Epochs, KeysInOrder, MadeSoFar, c, n
  <2>3. f.seal.key.chainKey = c.sendingChain.chainKey
    BY <2>1
  <2>4. f.seal.key.step = c.sendingChain.counter
    BY <2>1
  <2>5. d.myRatchet \in KeyPair /\ d.myRatchet.gen = m /\ d.myRatchet.owner = p
    BY <1>2, <2>1, <1>0 DEF IsChannel
  <2> QED
    BY <1>1, <1>2, <2>1, <2>2, <2>3, <2>4, <2>5 DEF c, n, d
<1> QED
  BY <1>4, <1>5

LEMMA SendEpochs ==
  ASSUME IInv, Epochs, NEW p \in Party, NEW timeDue \in BOOLEAN, Send(p, timeDue)
  PROVE  Epochs'
<1> PICK f : f = Sealed(channel[p], timeDue)
  OBVIOUS
<1> DEFINE q  == Other(p)
           ck == f.seal.key.chainKey
<1>1. q \in Party /\ Other(q) = p /\ q # p /\ \A r \in Party : r = p \/ r = q
  BY TwoParties DEF Party, Other
<1>2. /\ channel'[q] = channel[q]
      /\ net'[q] = net[q] \cup {f}
      /\ net'[p] = net[p]
      /\ IsFrame(f) /\ Genuine(f) /\ f.seal.pub = f.pub
  BY SendEffect
<1>3. /\ channel'[p].myRatchet \in KeyPair
      /\ channel'[p].myRatchet.owner = p
      /\ channel'[p].peerRatchetPub = channel[p].peerRatchetPub
      /\ channel'[p].sendingChain.chainKey = ck
      /\ channel'[p].sendingChain.counter = f.seal.key.step + 1
      /\ f.pub \in {NoPub, channel'[p].myRatchet}
      /\ \E h \in 0 .. channel[q].myRatchet.gen :
           MadeBy(p, ck, channel'[p].myRatchet.gen, h)
      /\ \/ /\ channel'[p].myRatchet.gen = channel[p].myRatchet.gen
            /\ ck = channel[p].sendingChain.chainKey
            /\ f.seal.key.step = channel[p].sendingChain.counter
         \/ /\ channel'[p].myRatchet.gen = channel[p].myRatchet.gen + 1
            /\ ck \notin SendingKeys(p)
            /\ ck \notin SendingKeys(q)
  BY SendMakes
<1>4. /\ channel[p].myRatchet.gen \in Nat
      /\ channel[q].myRatchet.gen \in Nat
      /\ channel'[p].myRatchet.gen \in Nat
      /\ channel[p].sendingChain.counter \in Nat
      /\ f.seal.key.step \in Nat
  BY <1>1, <1>2, <1>3, GenType DEF KeyPair, IsFrame
<1> HIDE DEF q, ck
\* What a party made so far it still made.
<1>5. ASSUME NEW r \in Party, NEW k, NEW g, MadeSoFar(r, k, g)
      PROVE  MadeSoFar(r, k, g)'
  <2>1. PICK h \in 0 .. channel[Other(r)].myRatchet.gen : MadeBy(r, k, g, h)
    BY <1>5 DEF MadeSoFar
  <2>2. h \in 0 .. channel'[Other(r)].myRatchet.gen
    <3>1. CASE Other(r) = p
      BY <1>3, <1>4, <2>1, <3>1
    <3>2. CASE Other(r) = q
      BY <1>2, <2>1, <3>2
    <3> QED
      BY <1>1, <3>1, <3>2, TwoParties
  <2> QED
    BY <2>1, <2>2 DEF MadeSoFar
<1>6. KeysInOrder'
  <2>1. MadeSoFar(p, channel[p].sendingChain.chainKey, channel[p].myRatchet.gen)'
    BY <1>1, <1>2, <1>3 DEF MadeSoFar, q
  <2>2. MadeSoFar(q, channel[q].sendingChain.chainKey, channel[q].myRatchet.gen)'
    BY <1>1, <1>2, <1>5 DEF Epochs, KeysInOrder
  <2>3. /\ channel'[p].peerRatchetPub.owner = Other(p)
        /\ channel'[p].peerRatchetPub.gen <= channel'[q].myRatchet.gen
        /\ channel'[q].myRatchet.owner = q
        /\ channel'[q].peerRatchetPub.owner = Other(q)
    BY <1>1, <1>2, <1>3 DEF Epochs, KeysInOrder, q
  <2>4. channel'[q].peerRatchetPub.gen <= channel'[p].myRatchet.gen
    <3>1. /\ channel[q].peerRatchetPub.gen <= channel[p].myRatchet.gen
          /\ channel[q].peerRatchetPub.gen \in Nat
      BY <1>1, GenType DEF Epochs, KeysInOrder
    <3> QED
      BY <1>2, <1>3, <1>4, <3>1
  <2> QED
    BY <1>1, <1>3, <2>1, <2>2, <2>3, <2>4 DEF KeysInOrder, q
<1>7. SealedInOrder'
  <2> SUFFICES ASSUME NEW r \in Party, NEW g \in net'[r]
               PROVE  /\ g.seal.pub # NoPub =>
                           /\ g.seal.pub.owner = Other(r)
                           /\ g.seal.pub.gen <= channel'[Other(r)].myRatchet.gen
                      /\ \E i \in 0 .. channel'[Other(r)].myRatchet.gen :
                           /\ MadeSoFar(Other(r), g.seal.key.chainKey, i)'
                           /\ i = channel'[Other(r)].myRatchet.gen =>
                                /\ g.seal.key.chainKey = channel'[Other(r)].sendingChain.chainKey
                                /\ g.seal.key.step < channel'[Other(r)].sendingChain.counter
    BY DEF SealedInOrder
  <2>1. CASE g \in net[r]
    <3>1. /\ IsFrame(g)
          /\ g.seal.pub # NoPub =>
               /\ g.seal.pub.owner = Other(r)
               /\ g.seal.pub.gen <= channel[Other(r)].myRatchet.gen
      BY <2>1 DEF IInv, TypeOK, Epochs, SealedInOrder
    <3>2. PICK i \in 0 .. channel[Other(r)].myRatchet.gen :
            /\ MadeSoFar(Other(r), g.seal.key.chainKey, i)
            /\ i = channel[Other(r)].myRatchet.gen =>
                 /\ g.seal.key.chainKey = channel[Other(r)].sendingChain.chainKey
                 /\ g.seal.key.step < channel[Other(r)].sendingChain.counter
      BY <2>1 DEF Epochs, SealedInOrder
    <3>3. MadeSoFar(Other(r), g.seal.key.chainKey, i)'
      BY <1>5, <3>2, TwoParties
    <3>4. g.seal.pub # NoPub => g.seal.pub.gen \in Nat
      BY <3>1 DEF IsFrame, KeyPair
    <3>5. g.seal.key.step \in Nat
      BY <3>1 DEF IsFrame
    <3>6. CASE r = p
      BY <1>1, <1>2, <3>1, <3>2, <3>3, <3>6 DEF q
    <3>7. CASE r = q
      BY <1>1, <1>2, <1>3, <1>4, <3>1, <3>2, <3>3, <3>4, <3>5, <3>7
    <3> QED
      BY <1>1, <3>6, <3>7
  <2>2. CASE g \notin net[r]
    <3>1. r = q /\ g = f
      BY <1>1, <1>2, <2>2
    <3>2. PICK i \in 0 .. channel'[p].myRatchet.gen : i = channel'[p].myRatchet.gen
      BY <1>4
    <3>3. MadeSoFar(p, ck, i)'
      BY <1>2, <1>3, <3>2 DEF MadeSoFar, q
    <3>4. g.seal.pub # NoPub => g.seal.pub = channel'[p].myRatchet
      BY <1>2, <1>3, <3>1
    <3>5. /\ ck = channel'[p].sendingChain.chainKey
          /\ g.seal.key.step < channel'[p].sendingChain.counter
      BY <1>3, <1>4, <3>1
    <3>6. g.seal.key.chainKey = ck
      BY <3>1 DEF ck
    <3> QED
      BY <1>1, <1>3, <1>4, <3>1, <3>2, <3>3, <3>4, <3>5, <3>6
  <2> QED
    BY <2>1, <2>2
<1>8. SendingKeys(p)' \subseteq SendingKeys(p) \cup {ck} /\ SendingKeys(q)' = SendingKeys(q)
  <2>1. SendingKeys(p)' \subseteq SendingKeys(p) \cup {ck}
    BY <1>1, <1>2, <1>3 DEF SendingKeys, ck, q
  <2>2. net'[Other(q)] = net[Other(q)] /\ channel'[q].sendingChain = channel[q].sendingChain
    BY <1>1, <1>2
  <2>3. SendingKeys(q)' = SendingKeys(q)
    BY <2>2 DEF SendingKeys
  <2> QED
    BY <2>1, <2>3
<1>9. ck \in SendingKeys(p) \/ ck \notin SendingKeys(q)
  BY <1>3 DEF SendingKeys
<1>10. SendingKeys(p)' \cap SendingKeys(q)' = {}
  <2>1. SendingKeys(p) \cap SendingKeys(q) = {}
    BY DEF Epochs, NoKeyShared, q
  <2> QED
    BY <1>8, <1>9, <2>1
<1>11. NoKeyShared'
  <2>1. SendingKeys(q)' \cap SendingKeys(p)' = {}
    BY <1>10
  <2> SUFFICES ASSUME NEW r \in Party PROVE SendingKeys(r)' \cap SendingKeys(Other(r))' = {}
    BY DEF NoKeyShared
  <2>2. CASE r = p
    BY <1>10, <2>2 DEF q
  <2>3. CASE r = q
    BY <1>1, <2>1, <2>3
  <2> QED
    BY <1>1, <2>2, <2>3
<1>12. ASSUME NEW g \in net[q], g.seal.key = f.seal.key
       PROVE  FALSE
  <2>1. g.seal.key.chainKey = ck /\ g.seal.key.step = f.seal.key.step
    BY <1>12 DEF ck
  <2>2. ck \in SendingKeys(p)
    BY <2>1 DEF SendingKeys, q
  <2>3. /\ ck = channel[p].sendingChain.chainKey
        /\ f.seal.key.step = channel[p].sendingChain.counter
    BY <1>3, <2>2
  <2>4. PICK i \in 0 .. channel[p].myRatchet.gen :
          /\ MadeSoFar(p, ck, i)
          /\ i = channel[p].myRatchet.gen => g.seal.key.step < channel[p].sendingChain.counter
    BY <1>1, <2>1 DEF Epochs, SealedInOrder
  <2>5. PICK h \in Nat : MadeBy(p, ck, i, h)
    BY <1>1, <1>4, <2>4 DEF MadeSoFar, q
  <2>6. PICK h2 \in Nat : MadeBy(p, ck, channel[p].myRatchet.gen, h2)
    BY <1>1, <1>4, <2>3 DEF Epochs, KeysInOrder, MadeSoFar, q
  <2>7. i = channel[p].myRatchet.gen
    BY <1>4, <2>5, <2>6, MadeOnce
  <2> QED
    BY <1>4, <2>1, <2>3, <2>4, <2>7
<1>13. NoKeyReuse'
  <2> SUFFICES ASSUME NEW r \in Party, NEW r2 \in Party, NEW g \in net'[r], NEW g2 \in net'[r2],
                      Genuine(g), Genuine(g2), g.seal.key = g2.seal.key
               PROVE  g = g2
    BY DEF NoKeyReuse
  <2>1. CASE g \in net[r] /\ g2 \in net[r2]
    BY <2>1 DEF Epochs, NoKeyReuse
  <2>2. CASE r = q /\ r2 = q
    BY <1>2, <1>12, <2>1, <2>2
  <2>3. CASE r = p /\ r2 = p
    BY <1>2, <2>1, <2>3
  <2>4. ASSUME NEW e \in net'[p], NEW e2 \in net'[q], e.seal.key = e2.seal.key PROVE FALSE
    <3>1. e.seal.key.chainKey \in SendingKeys(q)'
      BY <1>1, <2>4 DEF SendingKeys
    <3>2. e2.seal.key.chainKey \in SendingKeys(p)'
      BY <2>4 DEF SendingKeys, q
    <3> QED
      BY <1>10, <2>4, <3>1, <3>2
  <2> QED
    BY <1>1, <2>2, <2>3, <2>4
<1> QED
  BY <1>6, <1>7, <1>11, <1>13 DEF Epochs

\* A step that seals nothing and gives no party a new ratchet key: what is
\* on the link was there before, but for the damage.
LEMMA QuietEpochs ==
  ASSUME IInv, Epochs, NEW p \in Party,
         \A r \in Party : /\ channel'[r].myRatchet = channel[r].myRatchet
                          /\ channel'[r].sendingChain = channel[r].sendingChain,
         channel'[p].peerRatchetPub.owner = Other(p),
         channel'[p].peerRatchetPub.gen <= channel[Other(p)].myRatchet.gen,
         channel'[Other(p)].peerRatchetPub = channel[Other(p)].peerRatchetPub,
         \A r \in Party : \A g \in net'[r] : \E f \in net[r] :
           /\ g.seal.key = f.seal.key
           /\ g.seal.pub = f.seal.pub
           /\ Genuine(g) => g = f
  PROVE  Epochs'
<1>1. \A r \in Party : r = p \/ r = Other(p)
  BY DEF Party, Other
<1>2. ASSUME NEW r \in Party, NEW k, NEW g, MadeSoFar(r, k, g)
      PROVE  MadeSoFar(r, k, g)'
  BY <1>2, TwoParties DEF MadeSoFar
<1>3. KeysInOrder'
  <2> SUFFICES ASSUME NEW r \in Party
               PROVE  /\ channel'[r].myRatchet.owner = r
                      /\ channel'[r].peerRatchetPub.owner = Other(r)
                      /\ channel'[r].peerRatchetPub.gen <= channel'[Other(r)].myRatchet.gen
                      /\ MadeSoFar(r, channel[r].sendingChain.chainKey, channel[r].myRatchet.gen)'
    BY DEF KeysInOrder
  <2>1. PICK k, g : k = channel[r].sendingChain.chainKey /\ g = channel[r].myRatchet.gen
    OBVIOUS
  <2>2. MadeSoFar(r, k, g)'
    BY <1>2, <2>1 DEF Epochs, KeysInOrder
  <2> QED
    BY <1>1, <2>1, <2>2, TwoParties DEF Epochs, KeysInOrder, MadeSoFar
<1>4. SealedInOrder'
  <2> SUFFICES ASSUME NEW r \in Party, NEW g \in net'[r]
               PROVE  /\ g.seal.pub # NoPub =>
                           /\ g.seal.pub.owner = Other(r)
                           /\ g.seal.pub.gen <= channel'[Other(r)].myRatchet.gen
                      /\ \E i \in 0 .. channel'[Other(r)].myRatchet.gen :
                           /\ MadeSoFar(Other(r), g.seal.key.chainKey, i)'
                           /\ i = channel'[Other(r)].myRatchet.gen =>
                                /\ g.seal.key.chainKey = channel'[Other(r)].sendingChain.chainKey
                                /\ g.seal.key.step < channel'[Other(r)].sendingChain.counter
    BY DEF SealedInOrder
  <2>1. PICK f \in net[r] : g.seal.key = f.seal.key /\ g.seal.pub = f.seal.pub
    OBVIOUS
  <2>2. PICK i \in 0 .. channel[Other(r)].myRatchet.gen :
          /\ MadeSoFar(Other(r), f.seal.key.chainKey, i)
          /\ i = channel[Other(r)].myRatchet.gen =>
               /\ f.seal.key.chainKey = channel[Other(r)].sendingChain.chainKey
               /\ f.seal.key.step < channel[Other(r)].sendingChain.counter
    BY DEF Epochs, SealedInOrder
  <2>3. MadeSoFar(Other(r), g.seal.key.chainKey, i)'
    BY <1>2, <2>1, <2>2, TwoParties
  <2>4. Other(r) \in Party
    BY TwoParties
  <2> QED
    BY <2>1, <2>2, <2>3, <2>4 DEF Epochs, SealedInOrder
<1>5. ASSUME NEW r \in Party PROVE SendingKeys(r)' \subseteq SendingKeys(r)
  BY TwoParties DEF SendingKeys
<1>6. NoKeyShared'
  BY <1>5, TwoParties DEF Epochs, NoKeyShared
<1>7. NoKeyReuse'
  <2> SUFFICES ASSUME NEW r \in Party, NEW r2 \in Party, NEW g \in net'[r], NEW g2 \in net'[r2],
                      Genuine(g), Genuine(g2), g.seal.key = g2.seal.key
               PROVE  g = g2
    BY DEF NoKeyReuse
  <2>1. g \in net[r] /\ g2 \in net[r2]
    OBVIOUS
  <2> QED
    BY <2>1 DEF Epochs, NoKeyReuse
<1> QED
  BY <1>3, <1>4, <1>6, <1>7 DEF Epochs

LEMMA DamageEpochs ==
  ASSUME IInv, Epochs, NEW p \in Party, Damage(p)
  PROVE  Epochs'
<1>1. PICK f, g :
        /\ f \in net[p]
        /\ Genuine(f) /\ ~Genuine(g)
        /\ g.seal.key = f.seal.key
        /\ g.seal.pub = f.seal.pub
        /\ net'[p] = net[p] \cup {g}
        /\ net'[Other(p)] = net[Other(p)]
        /\ UNCHANGED <<channel, deliveries>>
  BY DamageEffect
<1>2. \A r \in Party : r = p \/ r = Other(p)
  BY DEF Party, Other
<1>3. \A r \in Party : \A h \in net'[r] : \E e \in net[r] :
         h.seal.key = e.seal.key /\ h.seal.pub = e.seal.pub /\ (Genuine(h) => h = e)
  BY <1>1, <1>2
<1>4. /\ channel[p].peerRatchetPub.owner = Other(p)
      /\ channel[p].peerRatchetPub.gen <= channel[Other(p)].myRatchet.gen
  BY DEF Epochs, KeysInOrder
<1> QED
  BY <1>1, <1>3, <1>4, QuietEpochs

LEMMA ReceiveEpochs ==
  ASSUME IInv, Epochs, NEW p \in Party, NEW f \in net[p], RejectTag(p, f) \/ Accept(p, f)
  PROVE  Epochs'
<1>1. /\ IsChannel(channel[p]) /\ IsFrame(f) /\ HasChain(channel[p], f)
      /\ channel'[Other(p)] = channel[Other(p)]
      /\ net' = net
      /\ Accept(p, f) => Genuine(f)
      /\ channel'[p] = IF Accept(p, f) THEN AfterAccept(channel[p], f)
                                       ELSE AfterKeyDerivation(channel[p], f)
  BY ReceiveEffect
<1>2. /\ channel[p].peerRatchetPub.owner = Other(p)
      /\ channel[p].peerRatchetPub.gen <= channel[Other(p)].myRatchet.gen
  BY DEF Epochs, KeysInOrder
<1>3. /\ channel'[p].myRatchet = channel[p].myRatchet
      /\ channel'[p].sendingChain = channel[p].sendingChain
      /\ channel'[p].peerRatchetPub.owner = Other(p)
      /\ channel'[p].peerRatchetPub.gen <= channel[Other(p)].myRatchet.gen
  <2>1. CASE ~Rekeys(channel[p], f)
    <3>1. Stepping(channel[p], channel'[p], f)
      BY <1>1, <2>1, DecryptSteps
    <3> QED
      BY <1>2, <3>1 DEF Stepping, SameKeys
  <2>2. CASE Rekeys(channel[p], f) /\ ~Accept(p, f)
    BY <1>1, <1>2, <2>2 DEF AfterKeyDerivation
  <2>3. CASE Rekeys(channel[p], f) /\ Accept(p, f)
    <3>1. Committing(channel[p], channel'[p], f)
      BY <1>1, <2>3, DecryptCommits
    <3>2. f.pub = f.seal.pub /\ f.pub # NoPub
      BY <1>1, <2>3 DEF Genuine, Rekeys
    <3> QED
      BY <3>1, <3>2 DEF Committing, Epochs, SealedInOrder
  <2> QED
    BY <2>1, <2>2, <2>3
<1>4. \A r \in Party : r = p \/ r = Other(p)
  BY DEF Party, Other
<1>5. \A r \in Party : \A h \in net'[r] : \E e \in net[r] :
         h.seal.key = e.seal.key /\ h.seal.pub = e.seal.pub /\ (Genuine(h) => h = e)
  BY <1>1
<1>6. \A r \in Party : /\ channel'[r].myRatchet = channel[r].myRatchet
                       /\ channel'[r].sendingChain = channel[r].sendingChain
  BY <1>1, <1>3, <1>4
<1> QED
  BY <1>1, <1>3, <1>5, <1>6, QuietEpochs

LEMMA InitEpochs == Init => Epochs
<1> SUFFICES ASSUME Init PROVE Epochs
  OBVIOUS
<1>1. ASSUME NEW p \in Party
      PROVE  /\ channel[p] = NewChannel(p)
             /\ channel[p].sendingChain.chainKey = HandshakeChainKey(p)
             /\ net[p] = {}
  BY DEF Init, NewChannel, NewSendingChain
<1>2. KeysInOrder
  <2> SUFFICES ASSUME NEW p \in Party
               PROVE  /\ channel[p].myRatchet.owner = p
                      /\ channel[p].peerRatchetPub.owner = Other(p)
                      /\ channel[p].peerRatchetPub.gen <= channel[Other(p)].myRatchet.gen
                      /\ MadeSoFar(p, channel[p].sendingChain.chainKey, channel[p].myRatchet.gen)
    BY DEF KeysInOrder
  <2>1. /\ channel[p].myRatchet.gen = 0 /\ channel[Other(p)].myRatchet.gen = 0
        /\ channel[p].peerRatchetPub.gen = 0
        /\ channel[p].myRatchet.owner = p
        /\ channel[p].peerRatchetPub.owner = Other(p)
    <3>1. \A r \in Party : /\ NewChannel(r).myRatchet.owner = r
                           /\ NewChannel(r).myRatchet.gen = 0
                           /\ NewChannel(r).peerRatchetPub.owner = Other(r)
                           /\ NewChannel(r).peerRatchetPub.gen = 0
      BY DEF NewChannel
    <3>2. channel[Other(p)] = NewChannel(Other(p)) /\ Other(p) \in Party
      BY <1>1, TwoParties
    <3> QED
      BY <1>1, <3>1, <3>2
  <2>2. MadeBy(p, channel[p].sendingChain.chainKey, 0, 0)
    BY <1>1 DEF MadeBy
  <2> QED
    BY <2>1, <2>2 DEF MadeSoFar
<1>3. \A p \in Party : SendingKeys(p) = {HandshakeChainKey(p)}
  BY <1>1, TwoParties DEF SendingKeys
<1>4. \A p \in Party : HandshakeChainKey(p) # HandshakeChainKey(Other(p))
  BY TwoParties DEF HandshakeChainKey
<1> QED
  BY <1>1, <1>2, <1>3, <1>4, TwoParties
     DEF Epochs, SealedInOrder, NoKeyShared, NoKeyReuse

-----------------------------------------------------------------------------
(* Counters and chains, on the sending side.                               *)

LEMMA SendShape ==
  ASSUME IInv, Epochs, NEW p \in Party, NEW timeDue \in BOOLEAN, Send(p, timeDue),
         NEW f, f = Sealed(channel[p], timeDue)
  PROVE  \/ /\ Announcing(channel[p], channel'[p], f)
            /\ f.seal.key.chainKey \notin SendingKeys(p)
         \/ Continuing(channel[p], channel'[p], f)
<1>1. channel'[p] = AfterEncrypt(channel[p], timeDue) /\ IsChannel(channel[p])
  BY SendEffect DEF IInv, TypeOK
<1>2. CASE SendDue(channel[p], timeDue)
  <2>1. Announcing(channel[p], channel'[p], f)
    BY <1>1, <1>2, EncryptAnnounces
  <2>2. /\ channel'[p].myRatchet.gen = channel[p].myRatchet.gen + 1
        /\ channel[p].myRatchet.gen \in Nat
    BY <2>1, GenType DEF Announcing
  <2> QED
    BY <2>1, <2>2, SendMakes
<1>3. CASE ~SendDue(channel[p], timeDue)
  BY <1>1, <1>3, EncryptContinues
<1> QED
  BY <1>2, <1>3

LEMMA SendHeals ==
  ASSUME IInv, Epochs, HealsOnReply, NEW p \in Party, NEW timeDue \in BOOLEAN, Send(p, timeDue)
  PROVE  HealsOnReply'
<1> PICK f : f = Sealed(channel[p], timeDue)
  OBVIOUS
<1>1. channel'[Other(p)] = channel[Other(p)]
  BY SendEffect
<1> SUFFICES ASSUME NEW r \in Party,
                    channel'[r].peerRatchetPub.gen > 0, ~channel'[r].sendRatchetOwed
             PROVE  LET root == channel'[r].sendingChain.chainKey.root IN
                    root # InitialRoot /\ channel'[r].peerRatchetPub \in root[Len(root)]
  BY DEF HealsOnReply
<1>2. CASE r = Other(p)
  BY <1>1, <1>2 DEF HealsOnReply
<1>3. CASE r = p /\ Continuing(channel[p], channel'[p], f)
  BY <1>3 DEF HealsOnReply, Continuing
<1>4. CASE r = p /\ Announcing(channel[p], channel'[p], f)
  <2>1. /\ channel[p].rootKey \in Seq(SUBSET KeyPair)
        /\ channel[p].peerRatchetPub \in KeyPair
        /\ channel'[p].myRatchet \in KeyPair
        /\ channel'[p].peerRatchetPub = channel[p].peerRatchetPub
        /\ channel'[p].rootKey
             = Append(channel[p].rootKey, {channel'[p].myRatchet, channel[p].peerRatchetPub})
        /\ channel'[p].sendingChain.chainKey.root = channel'[p].rootKey
    BY <1>4, GenType DEF Announcing, ChainKeyOf
  <2>2. /\ channel'[p].rootKey # << >>
        /\ channel'[p].rootKey[Len(channel'[p].rootKey)]
             = {channel'[p].myRatchet, channel[p].peerRatchetPub}
    BY <2>1
  <2> QED
    BY <1>4, <2>1, <2>2 DEF InitialRoot
<1>5. r = p \/ r = Other(p)
  BY DEF Party, Other
<1> QED
  BY <1>2, <1>3, <1>4, <1>5, SendShape

\* What a received frame can do to the keys.
LEMMA ReceiveShape ==
  ASSUME IInv, NEW p \in Party, NEW f \in net[p], RejectTag(p, f) \/ Accept(p, f)
  PROVE  \/ ~Rekeys(channel[p], f) /\ Stepping(channel[p], channel'[p], f)
         \/ Rekeys(channel[p], f) /\ ~Accept(p, f) /\ channel'[p] = channel[p]
         \/ Rekeys(channel[p], f) /\ Accept(p, f) /\ Committing(channel[p], channel'[p], f)
<1>1. /\ IsChannel(channel[p]) /\ IsFrame(f) /\ HasChain(channel[p], f)
      /\ channel'[p] = IF Accept(p, f) THEN AfterAccept(channel[p], f)
                                       ELSE AfterKeyDerivation(channel[p], f)
  BY ReceiveEffect
<1>2. CASE ~Rekeys(channel[p], f)
  BY <1>1, <1>2, DecryptSteps
<1>3. CASE Rekeys(channel[p], f) /\ ~Accept(p, f)
  BY <1>1, <1>3 DEF AfterKeyDerivation
<1>4. CASE Rekeys(channel[p], f) /\ Accept(p, f)
  BY <1>1, <1>4, DecryptCommits
<1> QED
  BY <1>2, <1>3, <1>4

LEMMA ReceiveHeals ==
  ASSUME IInv, HealsOnReply, NEW p \in Party, NEW f \in net[p], RejectTag(p, f) \/ Accept(p, f)
  PROVE  HealsOnReply'
<1>1. channel'[Other(p)] = channel[Other(p)]
  BY ReceiveEffect
<1>2. \/ SameKeys(channel[p], channel'[p])
      \/ channel'[p].sendRatchetOwed = TRUE
  BY ReceiveShape DEF Stepping, Committing, SameKeys
<1>3. \A r \in Party : r = p \/ r = Other(p)
  BY DEF Party, Other
<1> QED
  BY <1>1, <1>2, <1>3 DEF HealsOnReply, SameKeys

LEMMA SendCounters ==
  ASSUME IInv, OneFramePerCounter, NEW p \in Party, NEW timeDue \in BOOLEAN, Send(p, timeDue)
  PROVE  OneFramePerCounter'
<1> PICK f : f = Sealed(channel[p], timeDue)
  OBVIOUS
<1> PICK n \in Nat : n = channel[p].sendCounter
  BY GenType
<1>1. /\ channel'[Other(p)] = channel[Other(p)]
      /\ net'[Other(p)] = net[Other(p)] \cup {f}
      /\ net'[p] = net[p]
      /\ deliveries' = deliveries
      /\ channel'[p].sendCounter = n + 1
      /\ f.ctr = n
  BY SendEffect
<1>2. \A r \in Party : r = p \/ r = Other(p)
  BY DEF Party, Other
<1>3. Other(p) \in Party /\ Other(Other(p)) = p
  BY TwoParties
<1>4. ASSUME NEW g \in net[Other(p)], Genuine(g) PROVE g.ctr \in Nat /\ g.ctr < n
  BY <1>3, <1>4 DEF IInv, TypeOK, IsFrame, Genuine
<1>5. ASSUME NEW r \in Party, NEW g \in net'[r], NEW g2 \in net'[r],
             Genuine(g), Genuine(g2), g.ctr = g2.ctr
      PROVE  g = g2
  <2>1. CASE g \in net[r] /\ g2 \in net[r]
    BY <1>5, <2>1 DEF OneFramePerCounter
  <2>2. CASE r = Other(p) /\ ~(g \in net[r] /\ g2 \in net[r])
    BY <1>1, <1>4, <1>5, <2>2
  <2> QED
    BY <1>1, <1>2, <2>1, <2>2
<1>6. ASSUME NEW r \in Party, NEW m \in Message, deliveries'[r][m] > 0
      PROVE  m < channel'[Other(r)].sendCounter
  <2>1. m < channel[Other(r)].sendCounter /\ m \in Nat
    BY <1>1, <1>6, MessageNumbers DEF OneFramePerCounter
  <2> QED
    BY <1>1, <1>2, <1>3, <2>1
<1> QED
  BY <1>5, <1>6 DEF OneFramePerCounter

LEMMA ReceiveCounters ==
  ASSUME IInv, OneFramePerCounter, NEW p \in Party, NEW f \in net[p],
         RejectTag(p, f) \/ Accept(p, f)
  PROVE  OneFramePerCounter'
<1>1. /\ net' = net
      /\ channel'[Other(p)] = channel[Other(p)]
      /\ Accept(p, f) =>
           /\ f.ctr \in Message
           /\ deliveries' = [deliveries EXCEPT ![p][f.ctr] = 1]
           /\ f.ctr < channel[Other(p)].sendCounter
      /\ ~Accept(p, f) => deliveries' = deliveries
  BY ReceiveEffect
<1>2. channel'[p].sendCounter = channel[p].sendCounter
  BY ReceiveShape DEF Stepping, Committing, SameKeys
<1>3. \A r \in Party : r = p \/ r = Other(p)
  BY DEF Party, Other
<1>4. \A r \in Party : channel'[r].sendCounter = channel[r].sendCounter
  BY <1>1, <1>2, <1>3
<1>5. ASSUME NEW r \in Party, NEW m \in Message, deliveries'[r][m] > 0
      PROVE  m < channel'[Other(r)].sendCounter
  <2>1. CASE deliveries'[r][m] = deliveries[r][m]
    BY <1>4, <1>5, <2>1, TwoParties DEF OneFramePerCounter
  <2>2. CASE deliveries'[r][m] # deliveries[r][m]
    <3>1. r = p /\ m = f.ctr /\ Accept(p, f)
      BY <1>1, <2>2 DEF IInv, TypeOK
    <3> QED
      BY <1>1, <1>4, <3>1, TwoParties
  <2> QED
    BY <2>1, <2>2
<1> QED
  BY <1>1, <1>5 DEF OneFramePerCounter

\* Damage adds no genuine frame.
LEMMA DamageAddsNone ==
  ASSUME IInv, NEW p \in Party, Damage(p)
  PROVE  /\ UNCHANGED <<channel, deliveries>>
         /\ \A r \in Party : \A g \in net'[r] : Genuine(g) => g \in net[r]
         /\ \A r \in Party : net[r] \subseteq net'[r]
<1>1. PICK g : /\ ~Genuine(g)
               /\ net'[p] = net[p] \cup {g}
               /\ net'[Other(p)] = net[Other(p)]
               /\ UNCHANGED <<channel, deliveries>>
  BY DamageEffect
<1>2. \A r \in Party : r = p \/ r = Other(p)
  BY DEF Party, Other
<1> QED
  BY <1>1, <1>2

LEMMA SendOrder ==
  ASSUME IInv, Epochs, ChainsInOrder, NEW p \in Party, NEW timeDue \in BOOLEAN, Send(p, timeDue)
  PROVE  ChainsInOrder'
<1> PICK f : f = Sealed(channel[p], timeDue)
  OBVIOUS
<1> DEFINE q == Other(p)
<1>1. q \in Party /\ Other(q) = p /\ \A r \in Party : r = p \/ r = q
  BY TwoParties DEF Party, Other
<1> PICK n \in Nat : n = channel[p].sendCounter
  BY GenType
<1> PICK k \in Nat : k = channel[p].sendingChain.counter
  BY GenType
<1> PICK ck : ck = channel[p].sendingChain.chainKey
  OBVIOUS
<1>2. /\ channel'[q] = channel[q]
      /\ net'[q] = net[q] \cup {f}
      /\ net'[p] = net[p]
      /\ channel'[p].sendCounter = n + 1
      /\ IsFrame(f) /\ Genuine(f)
      /\ f.ctr = n
  BY SendEffect
<1> DEFINE sent == {g \in net[q] : Genuine(g)}
<1>3. /\ k <= n
      /\ ck = HandshakeChainKey(p) => n - k = 0
      /\ \A g \in sent :
           /\ g.seal.key.step <= g.ctr
           /\ StartOf(g) <= n - k
           /\ g.pub # NoPub => /\ g.seal.key.step = 0
                               /\ g.seal.key.chainKey # HandshakeChainKey(p)
           /\ g.seal.key.chainKey = HandshakeChainKey(p) => StartOf(g) = 0
           /\ g.seal.key.chainKey = ck => StartOf(g) = n - k
      /\ \A g, g2 \in sent : g.ctr <= g2.ctr => StartOf(g) <= StartOf(g2)
      /\ \A g, g2 \in sent :
           g.seal.key.chainKey = g2.seal.key.chainKey => StartOf(g) = StartOf(g2)
  <2>1. SentInOrder(p, channel[p], SentBy(p)) /\ SentBy(p) = sent
    BY DEF ChainsInOrder, SentBy
  <2> HIDE DEF sent
  <2> QED
    BY <2>1 DEF SentInOrder
<1>4. \A g \in sent : /\ g.ctr \in Nat /\ g.ctr < n
                      /\ g.seal.key.step \in Nat
                      /\ StartOf(g) \in Int
                      /\ g.seal.key.chainKey \in SendingKeys(p)
  BY <1>1 DEF IInv, TypeOK, IsFrame, Genuine, StartOf, SendingKeys
\* The new chain, or the old one with one more step.
<1> DEFINE nk    == channel'[p].sendingChain.chainKey
           start == channel'[p].sendCounter - channel'[p].sendingChain.counter
<1>5. /\ f.seal.key.chainKey = nk
      /\ start \in Nat /\ n - k <= start
      /\ channel'[p].sendingChain.counter <= channel'[p].sendCounter
      /\ nk = HandshakeChainKey(p) => start = 0
      /\ f.seal.key.step <= f.ctr
      /\ StartOf(f) = start
      /\ f.pub # NoPub => /\ f.seal.key.step = 0
                          /\ nk # HandshakeChainKey(p)
      /\ \A g \in sent : g.seal.key.chainKey = nk => StartOf(g) = start
  <2>1. CASE Announcing(channel[p], channel'[p], f) /\ f.seal.key.chainKey \notin SendingKeys(p)
    <3>1. /\ nk = ChainKeyOf(channel'[p].rootKey)
          /\ channel'[p].sendingChain.counter = 1
          /\ f.seal.key.chainKey = nk
          /\ f.seal.key.step = 0
          /\ channel'[p].rootKey
               = Append(channel[p].rootKey, {channel'[p].myRatchet, channel[p].peerRatchetPub})
      BY <2>1 DEF Announcing
    <3>2. nk # HandshakeChainKey(p)
      <4>1. /\ channel[p].rootKey \in Seq(SUBSET KeyPair)
            /\ {channel'[p].myRatchet, channel[p].peerRatchetPub} \in SUBSET KeyPair
        BY <2>1, GenType DEF Announcing
      <4>2. channel'[p].rootKey # << >>
        BY <3>1, <4>1
      <4> QED
        BY <3>1, <4>2 DEF ChainKeyOf, HandshakeChainKey, InitialRoot
    <3>3. start = n
      BY <1>2, <3>1
    <3>4. \A g \in sent : g.seal.key.chainKey # nk
      BY <1>4, <2>1, <3>1
    <3>5. StartOf(f) = n /\ f.seal.key.step <= f.ctr
      BY <1>2, <3>1 DEF StartOf
    <3>6. /\ start \in Nat /\ n - k <= start
          /\ channel'[p].sendingChain.counter <= channel'[p].sendCounter
      BY <1>2, <1>3, <3>1, <3>3
    <3> HIDE DEF nk, start, sent
    <3> QED
      BY <3>1, <3>2, <3>3, <3>4, <3>5, <3>6
  <2>2. CASE Continuing(channel[p], channel'[p], f)
    <3>1. /\ nk = ck
          /\ channel'[p].sendingChain.counter = k + 1
          /\ f.seal.key.chainKey = ck
          /\ f.seal.key.step = k
          /\ f.pub = NoPub
      BY <2>2 DEF Continuing
    <3>2. start = n - k
      BY <1>2, <3>1
    <3> HIDE DEF nk, start
    <3> QED
      BY <1>2, <1>3, <3>1, <3>2 DEF StartOf, start
  <2> QED
    BY <2>1, <2>2, SendShape
<1> DEFINE sentNow == {g \in net'[q] : Genuine(g)}
<1>6. sentNow = sent \cup {f}
  BY <1>2
<1>7. /\ \A g \in sentNow :
           /\ g.seal.key.step <= g.ctr
           /\ StartOf(g) <= start
           /\ g.pub # NoPub => /\ g.seal.key.step = 0
                               /\ g.seal.key.chainKey # HandshakeChainKey(p)
           /\ g.seal.key.chainKey = HandshakeChainKey(p) => StartOf(g) = 0
           /\ g.seal.key.chainKey = nk => StartOf(g) = start
      /\ \A g, g2 \in sentNow : g.ctr <= g2.ctr => StartOf(g) <= StartOf(g2)
      /\ \A g, g2 \in sentNow :
           g.seal.key.chainKey = g2.seal.key.chainKey => StartOf(g) = StartOf(g2)
  <2> HIDE DEF nk, start, sent, sentNow
  <2>1. ASSUME NEW g \in sentNow
        PROVE  /\ g.seal.key.step <= g.ctr
               /\ StartOf(g) <= start
               /\ g.pub # NoPub => /\ g.seal.key.step = 0
                                   /\ g.seal.key.chainKey # HandshakeChainKey(p)
               /\ g.seal.key.chainKey = HandshakeChainKey(p) => StartOf(g) = 0
               /\ g.seal.key.chainKey = nk => StartOf(g) = start
    BY <1>3, <1>4, <1>5, <1>6
  <2>2. ASSUME NEW g \in sentNow, NEW g2 \in sentNow, g.ctr <= g2.ctr
        PROVE  StartOf(g) <= StartOf(g2)
    BY <1>2, <1>3, <1>4, <1>5, <1>6, <2>2
  <2>3. ASSUME NEW g \in sentNow, NEW g2 \in sentNow, g.seal.key.chainKey = g2.seal.key.chainKey
        PROVE  StartOf(g) = StartOf(g2)
    BY <1>3, <1>5, <1>6, <2>3
  <2> QED
    BY <2>1, <2>2, <2>3
<1>8. SentInOrder(p, channel'[p], SentBy(p)')
  <2>1. SentBy(p)' = sentNow
    BY DEF SentBy
  <2> HIDE DEF sent, sentNow
  <2> QED
    BY <1>5, <1>7, <2>1 DEF SentInOrder
<1>9. SentInOrder(q, channel'[q], SentBy(q)')
  <2>1. SentBy(q)' = SentBy(q)
    BY <1>1, <1>2 DEF SentBy
  <2> QED
    BY <1>1, <1>2, <2>1 DEF ChainsInOrder
<1>10. ASSUME NEW r \in Party
       PROVE  SentInOrder(r, channel'[r], SentBy(r)')
  <2>1. CASE r = p
    BY <1>8, <2>1
  <2>2. CASE r = q
    BY <1>9, <2>2
  <2> QED
    BY <1>1, <2>1, <2>2
<1> QED
  BY <1>10 DEF ChainsInOrder

\* Fewer frames and the same chain are still in order.
LEMMA OrderKept ==
  ASSUME NEW p, NEW c, NEW d, NEW sent, NEW fewer \in SUBSET sent, SentInOrder(p, c, sent),
         d.sendCounter = c.sendCounter, d.sendingChain = c.sendingChain
  PROVE  SentInOrder(p, d, fewer)
BY DEF SentInOrder

LEMMA QuietOrder ==
  ASSUME ChainsInOrder,
         \A r \in Party : /\ channel'[r].sendCounter = channel[r].sendCounter
                          /\ channel'[r].sendingChain = channel[r].sendingChain,
         \A r \in Party : \A g \in net'[r] : Genuine(g) => g \in net[r]
  PROVE  ChainsInOrder'
<1>1. \A r \in Party : SentBy(r)' \subseteq SentBy(r)
  BY TwoParties DEF SentBy
<1>2. \A r \in Party : SentInOrder(r, channel[r], SentBy(r))
  BY DEF ChainsInOrder
<1>3. \A r \in Party : SentInOrder(r, channel'[r], SentBy(r)')
  BY <1>1, <1>2, OrderKept
<1> QED
  BY <1>3 DEF ChainsInOrder

-----------------------------------------------------------------------------
(* Keys that were used, on the receiving side.                             *)

Spending == ChainsApart /\ UsedKeysAreGone

\* The frames whose message p returned.
Opened(p) == {f \in net[p] : Genuine(f) /\ deliveries[p][f.ctr] > 0}

\* Spending, of one endpoint and the frames it opened.
SpendingOf(c, opened) ==
  /\ \A k \in DOMAIN c.recvChains :
       /\ RootLength(c.recvChains[k].chainKey) <= Len(c.rootKey)
       /\ SkippedArePassed(c.recvChains[k])
  /\ \A k, l \in DOMAIN c.recvChains :
       RootLength(c.recvChains[k].chainKey) = RootLength(c.recvChains[l].chainKey) => k = l
  /\ \A f \in opened : RootLength(f.seal.key.chainKey) <= Len(c.rootKey)
  /\ \A f \in opened : \A k \in DOMAIN c.recvChains :
       c.recvChains[k].chainKey = f.seal.key.chainKey
         => Spent(c.recvChains[k], f.seal.key.step)

LEMMA SpendingByParty == Spending <=> \A p \in Party : SpendingOf(channel[p], Opened(p))
BY DEF Spending, ChainsApart, UsedKeysAreGone, SpendingOf, Opened, Spent, SkippedArePassed

LEMMA SpendingByPartyNext ==
  (\A p \in Party : SpendingOf(channel'[p], Opened(p)')) => Spending'
BY DEF Spending, ChainsApart, UsedKeysAreGone, SpendingOf, Opened, Spent, SkippedArePassed

\* decrypt() looks a chain up and steps it.
LEMMA StepSpending ==
  ASSUME NEW c, IsChannel(c), NEW d, NEW f, IsFrame(f), HasChain(c, f), ~Rekeys(c, f),
         Stepping(c, d, f), Derivable(ChainFor(c, f), LocalCounter(c, f)),
         NEW opened, NEW now, SpendingOf(c, opened), \A g \in opened : IsFrame(g),
         \/ now = opened
         \/ /\ now = opened \cup {f}
            /\ f.seal.key = MessageKey(ChainFor(c, f).chainKey, LocalCounter(c, f))
  PROVE  SpendingOf(d, now)
<1> DEFINE k0 == ChainStart(c, f)
           rc == c.recvChains[k0]
           n  == LocalCounter(c, f)
<1>1. /\ k0 \in DOMAIN c.recvChains /\ k0 \in Nat /\ k0 <= f.ctr /\ f.ctr \in Nat
      /\ ChainFor(c, f) = rc /\ n = f.ctr - k0
      /\ IsReceivingChain(rc)
  BY ChainStartFound DEF ChainFor, LocalCounter, IsChannel, IsFrame
<1>2. n \in Nat
  BY <1>1
<1> HIDE DEF k0, rc, n
<1>3. /\ d.recvChains[k0].chainKey = rc.chainKey
      /\ SkippedArePassed(d.recvChains[k0])
      /\ Spent(d.recvChains[k0], n)
      /\ \A m \in Nat : Spent(rc, m) => Spent(d.recvChains[k0], m)
  <2>1. SkippedArePassed(rc) /\ Derivable(rc, n)
    BY <1>1 DEF SpendingOf, rc, n
  <2>2. d.recvChains[k0] = AfterKeyFor(rc, n)
    BY <1>1 DEF Stepping, SteppedChain, k0, n
  <2> QED
    BY <1>1, <1>2, <2>1, <2>2, StepSpends
<1>4. /\ DOMAIN d.recvChains = DOMAIN c.recvChains
      /\ d.rootKey = c.rootKey
      /\ \A k \in DOMAIN c.recvChains : k # k0 => d.recvChains[k] = c.recvChains[k]
  BY DEF Stepping, SameKeys, k0
<1>5. \A k \in DOMAIN c.recvChains :
        /\ d.recvChains[k].chainKey = c.recvChains[k].chainKey
        /\ SkippedArePassed(d.recvChains[k])
        /\ \A m \in Nat : Spent(c.recvChains[k], m) => Spent(d.recvChains[k], m)
  BY <1>3, <1>4 DEF SpendingOf, rc
<1>6. \A g \in opened : g.seal.key.step \in Nat
  BY DEF IsFrame
<1>7. SpendingOf(d, opened)
  BY <1>4, <1>5, <1>6 DEF SpendingOf
<1>8. ASSUME f.seal.key = MessageKey(rc.chainKey, n)
      PROVE  /\ RootLength(f.seal.key.chainKey) <= Len(d.rootKey)
             /\ \A k \in DOMAIN d.recvChains : d.recvChains[k].chainKey = f.seal.key.chainKey
                  => Spent(d.recvChains[k], f.seal.key.step)
  <2>1. f.seal.key.chainKey = rc.chainKey /\ f.seal.key.step = n
    BY <1>8 DEF MessageKey
  <2>2. ASSUME NEW k \in DOMAIN d.recvChains, d.recvChains[k].chainKey = rc.chainKey
        PROVE  k = k0
    BY <1>1, <1>4, <1>5, <2>2 DEF SpendingOf, rc
  <2> QED
    BY <1>1, <1>3, <1>4, <2>1, <2>2 DEF SpendingOf, rc
<1> QED
  BY <1>1, <1>7, <1>8 DEF SpendingOf, n

\* decrypt() adopts an announcement.
LEMMA CommitSpending ==
  ASSUME NEW c, IsChannel(c), NEW d, NEW f, IsFrame(f), Rekeys(c, f), Committing(c, d, f),
         f.seal.key = MessageKey(ChainFor(c, f).chainKey, LocalCounter(c, f)),
         NEW opened, SpendingOf(c, opened), \A g \in opened : IsFrame(g)
  PROVE  SpendingOf(d, opened \cup {f})
<1> DEFINE ck == ChainKeyOf(d.rootKey)
<1>1. /\ \A k \in DOMAIN d.recvChains : k # f.ctr =>
           k \in DOMAIN c.recvChains /\ d.recvChains[k] = c.recvChains[k]
      /\ f.ctr \in DOMAIN d.recvChains =>
           /\ d.recvChains[f.ctr].chainKey = ck
           /\ d.recvChains[f.ctr].nextCounter = 1
           /\ d.recvChains[f.ctr].skipped = {}
      /\ f.seal.key = MessageKey(ck, 0)
      /\ Len(d.rootKey) = Len(c.rootKey) + 1
      /\ RootLength(ck) = Len(d.rootKey)
  BY CommitChains DEF RootLength
<1>2. f.seal.key.chainKey = ck /\ f.seal.key.step = 0
  BY <1>1 DEF MessageKey
<1> PICK n \in Nat : n = Len(c.rootKey)
  BY DEF IsChannel, RootKey
<1> HIDE DEF ck
<1>3. \A k \in DOMAIN c.recvChains : /\ RootLength(c.recvChains[k].chainKey) \in Nat
                                     /\ RootLength(c.recvChains[k].chainKey) <= n
  BY DEF IsChannel, IsReceivingChain, RootLength, ChainKey, RootKey, SpendingOf
<1>4. \A g \in opened : /\ RootLength(g.seal.key.chainKey) \in Nat
                       /\ RootLength(g.seal.key.chainKey) <= n
  BY DEF IsFrame, RootLength, ChainKey, RootKey, SpendingOf
<1>5. f.ctr \in DOMAIN d.recvChains =>
        /\ SkippedArePassed(d.recvChains[f.ctr])
        /\ Spent(d.recvChains[f.ctr], 0)
  BY <1>1 DEF SkippedArePassed, Spent
<1>6. \A k \in DOMAIN d.recvChains :
        /\ RootLength(d.recvChains[k].chainKey) <= Len(d.rootKey)
        /\ SkippedArePassed(d.recvChains[k])
  BY <1>1, <1>3, <1>5 DEF SpendingOf
<1>7. ASSUME NEW k \in DOMAIN d.recvChains, NEW l \in DOMAIN d.recvChains,
             RootLength(d.recvChains[k].chainKey) = RootLength(d.recvChains[l].chainKey)
      PROVE  k = l
  <2>1. CASE k # f.ctr /\ l # f.ctr
    BY <1>1, <1>7, <2>1 DEF SpendingOf
  <2>2. CASE (k = f.ctr) # (l = f.ctr)
    BY <1>1, <1>3, <1>7, <2>2
  <2> QED
    BY <2>1, <2>2
<1>8. \A g \in opened \cup {f} : RootLength(g.seal.key.chainKey) <= Len(d.rootKey)
  BY <1>1, <1>2, <1>4
<1>9. ASSUME NEW g \in opened \cup {f}, NEW k \in DOMAIN d.recvChains,
             d.recvChains[k].chainKey = g.seal.key.chainKey
      PROVE  Spent(d.recvChains[k], g.seal.key.step)
  <2>1. CASE k # f.ctr
    <3>1. k \in DOMAIN c.recvChains /\ d.recvChains[k] = c.recvChains[k]
      BY <1>1, <2>1
    <3>2. g # f
      BY <1>1, <1>2, <1>3, <1>9, <3>1
    <3> QED
      BY <1>9, <3>1, <3>2 DEF SpendingOf
  <2>2. CASE k = f.ctr
    <3>1. g = f
      BY <1>1, <1>4, <1>9, <2>2
    <3> QED
      BY <1>2, <1>5, <2>2, <3>1
  <2> QED
    BY <2>1, <2>2
<1> QED
  BY <1>6, <1>7, <1>8, <1>9 DEF SpendingOf

LEMMA GenuineNumbered ==
  ASSUME IInv, NEW p \in Party, NEW g \in net[p], Genuine(g)
  PROVE  /\ IsFrame(g)
         /\ g.ctr \in Message
         /\ g.ctr < channel[Other(p)].sendCounter
         /\ deliveries[p][g.ctr] \in Nat
<1>1. IsFrame(g) /\ g.ctr \in Nat /\ g.ctr < channel[Other(p)].sendCounter
  BY DEF IInv, TypeOK, IsFrame, Genuine
<1>2. /\ Other(p) \in Party
      /\ channel[Other(p)].sendCounter \in Nat
      /\ Quota[Other(p)] \in Nat
      /\ channel[Other(p)].sendCounter <= Quota[Other(p)]
  BY TwoParties, GenType, QuotaAssumption DEF IInv
<1>3. g.ctr < Quota[Other(p)]
  BY <1>1, <1>2
<1>4. g.ctr \in Message
  BY <1>1, <1>2, <1>3, MessageNumbers
<1> QED
  BY <1>1, <1>4 DEF IInv, TypeOK

\* Sending opens nothing and touches no receiving chain.
LEMMA SendOpensNone ==
  ASSUME IInv, OneFramePerCounter, NEW p \in Party, NEW timeDue \in BOOLEAN, Send(p, timeDue)
  PROVE  /\ Opened(Other(p))' = Opened(Other(p))
         /\ Opened(p)' = Opened(p)
         /\ channel'[p].recvChains = channel[p].recvChains
<1> PICK f : f = Sealed(channel[p], timeDue)
  OBVIOUS
<1>1. /\ net'[Other(p)] = net[Other(p)] \cup {f}
      /\ net'[p] = net[p]
      /\ deliveries' = deliveries
      /\ f.ctr = channel[p].sendCounter /\ channel[p].sendCounter < Quota[p]
      /\ channel'[p] = AfterEncrypt(channel[p], timeDue)
  BY SendEffect
<1>2. Other(p) \in Party /\ Other(Other(p)) = p
  BY TwoParties
<1>3. ~(deliveries[Other(p)][f.ctr] > 0)
  <2>1. f.ctr \in Message
    BY <1>1, GenType, MessageNumbers
  <2>2. f.ctr \in Nat
    BY <1>1, GenType
  <2> QED
    BY <1>1, <1>2, <2>1, <2>2 DEF OneFramePerCounter
<1>4. channel'[p].recvChains = channel[p].recvChains
  <2>1. IsChannel(channel[p])
    BY DEF IInv, TypeOK
  <2>2. \/ Announcing(channel[p], channel'[p], f)
        \/ Continuing(channel[p], channel'[p], f)
    BY <1>1, <2>1, EncryptAnnounces, EncryptContinues
  <2> QED
    BY <2>2 DEF Announcing, Continuing
<1> QED
  BY <1>1, <1>3, <1>4 DEF Opened

\* Receiving opens the frame that is accepted, and nothing else.
LEMMA ReceiveOpens ==
  ASSUME IInv, OneFramePerCounter, NEW p \in Party, NEW f \in net[p],
         RejectTag(p, f) \/ Accept(p, f)
  PROVE  /\ Opened(Other(p))' = Opened(Other(p))
         /\ ~Accept(p, f) => Opened(p)' = Opened(p)
         /\ Accept(p, f) => Opened(p)' = Opened(p) \cup {f}
<1>1. /\ net' = net
      /\ Accept(p, f) =>
           /\ Genuine(f)
           /\ f.ctr \in Message
           /\ deliveries' = [deliveries EXCEPT ![p][f.ctr] = 1]
      /\ ~Accept(p, f) => deliveries' = deliveries
  BY ReceiveEffect
<1>2. Other(p) # p /\ Other(p) \in Party
  BY TwoParties
<1>3. deliveries'[Other(p)] = deliveries[Other(p)]
  BY <1>1, <1>2 DEF IInv, TypeOK
<1>4. Accept(p, f) => Opened(p)' = Opened(p) \cup {f}
  <2> SUFFICES ASSUME Accept(p, f) PROVE Opened(p)' = Opened(p) \cup {f}
    OBVIOUS
  <2>1. deliveries'[p][f.ctr] = 1
    BY <1>1 DEF IInv, TypeOK
  <2>2. ASSUME NEW g \in net[p], Genuine(g)
        PROVE  deliveries'[p][g.ctr] > 0 <=> deliveries[p][g.ctr] > 0 \/ g = f
    <3>1. g.ctr \in Message
      BY <2>2, GenuineNumbered
    <3>2. g.ctr = f.ctr <=> g = f
      BY <1>1, <2>2 DEF OneFramePerCounter
    <3>3. g.ctr # f.ctr => deliveries'[p][g.ctr] = deliveries[p][g.ctr]
      BY <1>1, <3>1 DEF IInv, TypeOK
    <3> QED
      BY <2>1, <3>2, <3>3
  <2> QED
    BY <1>1, <2>2 DEF Opened
<1> QED
  BY <1>1, <1>3, <1>4 DEF Opened

LEMMA SendSpending ==
  ASSUME IInv, Epochs, OneFramePerCounter, Spending,
         NEW p \in Party, NEW timeDue \in BOOLEAN, Send(p, timeDue)
  PROVE  Spending'
<1> PICK f : f = Sealed(channel[p], timeDue)
  OBVIOUS
<1>1. /\ channel'[Other(p)] = channel[Other(p)]
      /\ net'[Other(p)] = net[Other(p)] \cup {f}
      /\ net'[p] = net[p]
      /\ deliveries' = deliveries
      /\ f.ctr = channel[p].sendCounter /\ channel[p].sendCounter < Quota[p]
      /\ IsFrame(f)
  BY SendEffect
<1>2. Other(p) \in Party /\ Other(Other(p)) = p /\ \A r \in Party : r = p \/ r = Other(p)
  BY TwoParties DEF Party, Other
<1>4. Opened(Other(p))' = Opened(Other(p)) /\ Opened(p)' = Opened(p)
  BY SendOpensNone
<1>5. /\ channel'[p].recvChains = channel[p].recvChains
      /\ Len(channel[p].rootKey) \in Nat
      /\ Len(channel'[p].rootKey) \in Nat
      /\ Len(channel[p].rootKey) <= Len(channel'[p].rootKey)
  <2>1. channel[p].rootKey \in Seq(SUBSET KeyPair) /\ channel[p].peerRatchetPub \in KeyPair
    BY GenType
  <2>2. CASE Announcing(channel[p], channel'[p], f)
    <3>1. /\ channel'[p].rootKey
               = Append(channel[p].rootKey, {channel'[p].myRatchet, channel[p].peerRatchetPub})
          /\ {channel'[p].myRatchet, channel[p].peerRatchetPub} \in SUBSET KeyPair
          /\ channel'[p].recvChains = channel[p].recvChains
      BY <2>1, <2>2 DEF Announcing
    <3> QED
      BY <2>1, <3>1
  <2>3. CASE Continuing(channel[p], channel'[p], f)
    BY <2>1, <2>3 DEF Continuing
  <2> QED
    BY <2>2, <2>3, SendShape
<1>6. SpendingOf(channel'[p], Opened(p)')
  <2>1. SpendingOf(channel[p], Opened(p))
    BY SpendingByParty
  <2>2. \A k \in DOMAIN channel[p].recvChains :
          RootLength(channel[p].recvChains[k].chainKey) \in Nat
    BY DEF IInv, TypeOK, IsChannel, IsReceivingChain, RootLength, ChainKey, RootKey
  <2>3. \A g \in Opened(p) : RootLength(g.seal.key.chainKey) \in Nat
    BY DEF IInv, TypeOK, IsFrame, RootLength, ChainKey, RootKey, Opened
  <2> QED
    BY <1>4, <1>5, <2>1, <2>2, <2>3 DEF SpendingOf
<1>7. SpendingOf(channel'[Other(p)], Opened(Other(p))')
  BY <1>1, <1>2, <1>4, SpendingByParty
<1>8. \A r \in Party : SpendingOf(channel'[r], Opened(r)')
  <2> SUFFICES ASSUME NEW r \in Party PROVE SpendingOf(channel'[r], Opened(r)')
    OBVIOUS
  <2>1. CASE r = p
    BY <1>6, <2>1
  <2>2. CASE r = Other(p)
    BY <1>7, <2>2
  <2> QED
    BY <1>2, <2>1, <2>2
<1> QED
  BY <1>8, SpendingByPartyNext

LEMMA DamageSpending ==
  ASSUME IInv, Spending, NEW p \in Party, Damage(p)
  PROVE  Spending'
<1>1. /\ UNCHANGED <<channel, deliveries>>
      /\ \A r \in Party : \A g \in net'[r] : Genuine(g) => g \in net[r]
      /\ \A r \in Party : net[r] \subseteq net'[r]
  BY DamageAddsNone
<1>2. \A r \in Party : Opened(r)' = Opened(r)
  BY <1>1 DEF Opened
<1>3. \A r \in Party : SpendingOf(channel'[r], Opened(r)')
  BY <1>1, <1>2, SpendingByParty
<1> QED
  BY <1>3, SpendingByPartyNext

LEMMA ReceiveSpending ==
  ASSUME IInv, OneFramePerCounter, Spending, NEW p \in Party, NEW f \in net[p],
         RejectTag(p, f) \/ Accept(p, f)
  PROVE  Spending'
<1>1. /\ IsChannel(channel[p]) /\ IsFrame(f) /\ HasChain(channel[p], f)
      /\ Derivable(ChainFor(channel[p], f), LocalCounter(channel[p], f))
      /\ channel'[Other(p)] = channel[Other(p)]
      /\ net' = net
      /\ Accept(p, f) =>
           /\ Genuine(f)
           /\ f.seal.key = MessageKey(ChainFor(channel[p], f).chainKey,
                                      LocalCounter(channel[p], f))
           /\ f.ctr \in Message
           /\ deliveries' = [deliveries EXCEPT ![p][f.ctr] = 1]
      /\ ~Accept(p, f) => deliveries' = deliveries
  BY ReceiveEffect
<1>2. Other(p) # p /\ Other(p) \in Party /\ \A r \in Party : r = p \/ r = Other(p)
  BY TwoParties DEF Party, Other
<1>4. Opened(Other(p))' = Opened(Other(p))
  BY ReceiveOpens
<1>5. ~Accept(p, f) => Opened(p)' = Opened(p)
  BY ReceiveOpens
<1>6. Accept(p, f) => Opened(p)' = Opened(p) \cup {f}
  BY ReceiveOpens
<1>7. SpendingOf(channel[p], Opened(p)) /\ \A g \in Opened(p) : IsFrame(g)
  BY SpendingByParty, GenuineNumbered DEF Opened
<1>8. SpendingOf(channel'[p], Opened(p)')
  <2>1. CASE ~Rekeys(channel[p], f) /\ Stepping(channel[p], channel'[p], f)
    <3>1. \/ Opened(p)' = Opened(p)
          \/ /\ Opened(p)' = Opened(p) \cup {f}
             /\ f.seal.key = MessageKey(ChainFor(channel[p], f).chainKey,
                                        LocalCounter(channel[p], f))
      BY <1>1, <1>5, <1>6
    <3> QED
      BY <1>1, <1>7, <2>1, <3>1, StepSpending
  <2>2. CASE ~Accept(p, f) /\ channel'[p] = channel[p]
    BY <1>5, <1>7, <2>2
  <2>3. CASE Rekeys(channel[p], f) /\ Accept(p, f) /\ Committing(channel[p], channel'[p], f)
    BY <1>1, <1>6, <1>7, <2>3, CommitSpending
  <2> QED
    BY <2>1, <2>2, <2>3, ReceiveShape
<1>9. SpendingOf(channel'[Other(p)], Opened(Other(p))')
  BY <1>1, <1>2, <1>4, SpendingByParty
<1>10. \A r \in Party : SpendingOf(channel'[r], Opened(r)')
  <2> SUFFICES ASSUME NEW r \in Party PROVE SpendingOf(channel'[r], Opened(r)')
    OBVIOUS
  <2>1. CASE r = p
    BY <1>8, <2>1
  <2>2. CASE r = Other(p)
    BY <1>9, <2>2
  <2> QED
    BY <1>2, <2>1, <2>2
<1> QED
  BY <1>10, SpendingByPartyNext

-----------------------------------------------------------------------------
(* The chains an endpoint retains, against what was sent.                  *)

\* ChainsAnnounced, of one endpoint.
AnnouncedTo(p, c, opened) ==
  \A k \in DOMAIN c.recvChains :
    \/ k = 0 /\ c.recvChains[k].chainKey = HandshakeChainKey(Other(p))
    \/ \E f \in opened : /\ f.ctr = k
                        /\ f.pub # NoPub
                        /\ f.seal.key.chainKey = c.recvChains[k].chainKey

\* StepsAccountedFor, of one endpoint that received of the n frames sent.
AccountedFor(c, n, sent, opened) ==
  \A k \in DOMAIN c.recvChains :
    /\ k + c.recvChains[k].nextCounter <= n
    /\ \A f \in sent \ opened :
         f.seal.key.chainKey = c.recvChains[k].chainKey
           => ~Missing(c.recvChains[k], f.seal.key.step)

LEMMA AnnouncedByParty ==
  ChainsAnnounced <=> \A p \in Party : AnnouncedTo(p, channel[p], Opened(p))
BY DEF ChainsAnnounced, AnnouncedTo, Opened

LEMMA AnnouncedByPartyNext ==
  (\A p \in Party : AnnouncedTo(p, channel'[p], Opened(p)')) => ChainsAnnounced'
BY DEF ChainsAnnounced, AnnouncedTo, Opened

LEMMA AccountedByParty ==
  ASSUME IInv
  PROVE  StepsAccountedFor <=>
           (DamagedFrames = {} => \A p \in Party :
              AccountedFor(channel[p], channel[Other(p)].sendCounter, SentBy(Other(p)), Opened(p)))
<1>1. \A p \in Party : Other(p) \in Party /\ Other(Other(p)) = p
  BY TwoParties
<1>2. ASSUME NEW p \in Party, NEW f \in net[p], Genuine(f)
      PROVE  /\ deliveries[p][f.ctr] = 0 <=> ~(deliveries[p][f.ctr] > 0)
             /\ f.seal.key.step \in Nat
  BY <1>2, GenuineNumbered DEF IsFrame
<1>3. \A p \in Party : \A k \in DOMAIN channel[p].recvChains :
         channel[p].recvChains[k].nextCounter \in Nat
  BY DEF IInv, TypeOK, IsChannel, IsReceivingChain
<1> QED
  BY <1>1, <1>2, <1>3, MaxSkipAssumption
     DEF StepsAccountedFor, AccountedFor, SentBy, Opened, Missing, Spent

LEMMA AccountedByPartyNext ==
  ASSUME IInv, IInv',
         DamagedFrames' = {} => \A p \in Party :
           AccountedFor(channel'[p], channel'[Other(p)].sendCounter, SentBy(Other(p))', Opened(p)')
  PROVE  StepsAccountedFor'
<1>1. \A p \in Party : Other(p) \in Party /\ Other(Other(p)) = p
  BY TwoParties
<1>2. ASSUME NEW p \in Party, NEW f \in net'[p], Genuine(f)
      PROVE  /\ deliveries'[p][f.ctr] = 0 => ~(deliveries'[p][f.ctr] > 0)
             /\ f.seal.key.step \in Nat
  BY <1>2 DEF IInv, TypeOK, IsFrame
<1>3. \A p \in Party : \A k \in DOMAIN channel'[p].recvChains :
         channel'[p].recvChains[k].nextCounter \in Nat
  BY DEF IInv, TypeOK, IsChannel, IsReceivingChain
<1> SUFFICES ASSUME DamagedFrames' = {}, NEW p \in Party, NEW k \in DOMAIN channel'[p].recvChains
             PROVE  /\ k + channel'[p].recvChains[k].nextCounter <= channel'[Other(p)].sendCounter
                    /\ \A f \in net'[p] :
                         (/\ Genuine(f)
                          /\ deliveries'[p][f.ctr] = 0
                          /\ f.seal.key.chainKey = channel'[p].recvChains[k].chainKey)
                           => \/ f.seal.key.step \in channel'[p].recvChains[k].skipped
                              \/ f.seal.key.step >= channel'[p].recvChains[k].nextCounter
                              \/ f.seal.key.step + MaxSkip + 1
                                   < channel'[p].recvChains[k].nextCounter
  BY DEF StepsAccountedFor
<1>4. AccountedFor(channel'[p], channel'[Other(p)].sendCounter, SentBy(Other(p))', Opened(p)')
  OBVIOUS
<1> QED
  BY <1>1, <1>2, <1>3, <1>4, MaxSkipAssumption DEF AccountedFor, SentBy, Opened, Missing, Spent

\* A frame of a retained chain was sent under the counter the receiver
\* works out for its step.
LEMMA StartsMatch ==
  ASSUME NEW p \in Party, NEW c, NEW sent, SentInOrder(Other(p), c, sent),
         NEW r, NEW opened \in SUBSET sent, AnnouncedTo(p, r, opened),
         \A g \in sent : g.ctr \in Nat /\ g.seal.key.step \in Nat,
         NEW k \in DOMAIN r.recvChains, NEW f \in sent,
         f.seal.key.chainKey = r.recvChains[k].chainKey
  PROVE  /\ k \in Nat
         /\ f.ctr = k + f.seal.key.step
         /\ f.pub # NoPub => f.ctr = k /\ \E g \in opened : g.ctr = k
<1>1. CASE k = 0 /\ r.recvChains[k].chainKey = HandshakeChainKey(Other(p))
  BY <1>1 DEF SentInOrder, StartOf
<1>2. CASE \E g \in opened : /\ g.ctr = k
                            /\ g.pub # NoPub
                            /\ g.seal.key.chainKey = r.recvChains[k].chainKey
  <2>1. PICK g \in opened : /\ g.ctr = k
                           /\ g.pub # NoPub
                           /\ g.seal.key.chainKey = r.recvChains[k].chainKey
    BY <1>2
  <2>2. g.seal.key.step = 0 /\ StartOf(f) = StartOf(g)
    BY <2>1 DEF SentInOrder
  <2>3. f.pub # NoPub => f.seal.key.step = 0
    BY DEF SentInOrder
  <2> QED
    BY <2>1, <2>2, <2>3 DEF StartOf
<1> QED
  BY <1>1, <1>2 DEF AnnouncedTo

\* Looking a chain up and stepping it changes no chain key.
LEMMA StepChainKeys ==
  ASSUME NEW c, IsChannel(c), NEW d, NEW f, IsFrame(f), HasChain(c, f), ~Rekeys(c, f),
         Stepping(c, d, f), Derivable(ChainFor(c, f), LocalCounter(c, f)),
         \A k \in DOMAIN c.recvChains : SkippedArePassed(c.recvChains[k])
  PROVE  /\ DOMAIN d.recvChains = DOMAIN c.recvChains
         /\ \A k \in DOMAIN c.recvChains :
              d.recvChains[k].chainKey = c.recvChains[k].chainKey
<1> PICK k0 : k0 = ChainStart(c, f)
  OBVIOUS
<1> PICK rc : rc = c.recvChains[k0]
  OBVIOUS
<1> PICK n : n = f.ctr - k0
  OBVIOUS
<1>1. /\ k0 \in DOMAIN c.recvChains
      /\ n \in Nat
      /\ IsReceivingChain(rc)
      /\ ChainFor(c, f) = rc /\ LocalCounter(c, f) = n
  BY ChainStartFound DEF IsFrame, IsChannel, ChainFor, LocalCounter
<1>2. d.recvChains[k0] = AfterKeyFor(rc, n)
  BY <1>1 DEF Stepping, SteppedChain
<1>3. AfterKeyFor(rc, n).chainKey = rc.chainKey
  BY <1>1, StepSpends
<1> QED
  BY <1>2, <1>3 DEF Stepping

LEMMA AnnouncedKept ==
  ASSUME NEW p, NEW c, NEW d, NEW opened, NEW more, opened \subseteq more,
         AnnouncedTo(p, c, opened),
         \A k \in DOMAIN d.recvChains :
           /\ k \in DOMAIN c.recvChains
           /\ d.recvChains[k].chainKey = c.recvChains[k].chainKey
  PROVE  AnnouncedTo(p, d, more)
BY DEF AnnouncedTo

LEMMA CommitAnnounced ==
  ASSUME NEW p, NEW c, IsChannel(c), NEW d, NEW f, IsFrame(f), Rekeys(c, f), Committing(c, d, f),
         f.seal.key.chainKey = ChainFor(c, f).chainKey,
         NEW opened, AnnouncedTo(p, c, opened)
  PROVE  AnnouncedTo(p, d, opened \cup {f})
<1>1. /\ \A k \in DOMAIN d.recvChains : k # f.ctr =>
           k \in DOMAIN c.recvChains /\ d.recvChains[k] = c.recvChains[k]
      /\ f.ctr \in DOMAIN d.recvChains =>
           d.recvChains[f.ctr].chainKey = f.seal.key.chainKey
  BY CommitChains
<1>2. f.pub # NoPub
  BY DEF Rekeys
<1> QED
  BY <1>1, <1>2 DEF AnnouncedTo

LEMMA SendAnnounced ==
  ASSUME IInv, OneFramePerCounter, ChainsAnnounced,
         NEW p \in Party, NEW timeDue \in BOOLEAN, Send(p, timeDue)
  PROVE  ChainsAnnounced'
<1>1. /\ Opened(Other(p))' = Opened(Other(p)) /\ Opened(p)' = Opened(p)
      /\ channel'[p].recvChains = channel[p].recvChains
  BY SendOpensNone
<1>2. channel'[Other(p)] = channel[Other(p)]
  BY SendEffect
<1>3. \A r \in Party : r = p \/ r = Other(p)
  BY DEF Party, Other
<1>4. ASSUME NEW r \in Party PROVE AnnouncedTo(r, channel'[r], Opened(r)')
  <2>1. AnnouncedTo(r, channel[r], Opened(r))
    BY AnnouncedByParty
  <2>2. channel'[r].recvChains = channel[r].recvChains
    BY <1>1, <1>2, <1>3
  <2>3. CASE r = p
    BY <1>1, <2>1, <2>2, <2>3, AnnouncedKept
  <2>4. CASE r = Other(p)
    BY <1>1, <2>1, <2>2, <2>4, AnnouncedKept
  <2> QED
    BY <1>3, <2>3, <2>4
<1> QED
  BY <1>4, AnnouncedByPartyNext

LEMMA DamageAnnounced ==
  ASSUME IInv, ChainsAnnounced, NEW p \in Party, Damage(p)
  PROVE  ChainsAnnounced'
<1>1. /\ UNCHANGED <<channel, deliveries>>
      /\ \A r \in Party : net[r] \subseteq net'[r]
  BY DamageAddsNone
<1>2. \A r \in Party : Opened(r) \subseteq Opened(r)'
  BY <1>1 DEF Opened
<1>3. \A r \in Party : AnnouncedTo(r, channel'[r], Opened(r)')
  BY <1>1, <1>2, AnnouncedByParty, AnnouncedKept
<1> QED
  BY <1>3, AnnouncedByPartyNext

LEMMA ReceiveAnnounced ==
  ASSUME IInv, OneFramePerCounter, Spending, ChainsAnnounced, NEW p \in Party, NEW f \in net[p],
         RejectTag(p, f) \/ Accept(p, f)
  PROVE  ChainsAnnounced'
<1>1. /\ IsChannel(channel[p]) /\ IsFrame(f) /\ HasChain(channel[p], f)
      /\ Derivable(ChainFor(channel[p], f), LocalCounter(channel[p], f))
      /\ channel'[Other(p)] = channel[Other(p)]
      /\ Accept(p, f) => f.seal.key = MessageKey(ChainFor(channel[p], f).chainKey,
                                                 LocalCounter(channel[p], f))
  BY ReceiveEffect
<1>2. /\ Opened(Other(p))' = Opened(Other(p))
      /\ ~Accept(p, f) => Opened(p)' = Opened(p)
      /\ Accept(p, f) => Opened(p)' = Opened(p) \cup {f}
  BY ReceiveOpens
<1>3. Other(p) \in Party /\ \A r \in Party : r = p \/ r = Other(p)
  BY DEF Party, Other
<1>4. AnnouncedTo(p, channel[p], Opened(p)) /\ Opened(p) \subseteq Opened(p)'
  BY <1>2, AnnouncedByParty
<1>5. AnnouncedTo(p, channel'[p], Opened(p)')
  <2>1. CASE ~Rekeys(channel[p], f) /\ Stepping(channel[p], channel'[p], f)
    <3>1. \A k \in DOMAIN channel[p].recvChains : SkippedArePassed(channel[p].recvChains[k])
      BY SpendingByParty DEF SpendingOf
    <3>2. /\ DOMAIN channel'[p].recvChains = DOMAIN channel[p].recvChains
          /\ \A k \in DOMAIN channel[p].recvChains :
               channel'[p].recvChains[k].chainKey = channel[p].recvChains[k].chainKey
      BY <1>1, <2>1, <3>1, StepChainKeys
    <3> QED
      BY <1>4, <3>2, AnnouncedKept
  <2>2. CASE channel'[p] = channel[p]
    BY <1>4, <2>2, AnnouncedKept
  <2>3. CASE Rekeys(channel[p], f) /\ Accept(p, f) /\ Committing(channel[p], channel'[p], f)
    <3>1. f.seal.key.chainKey = ChainFor(channel[p], f).chainKey
      BY <1>1, <2>3 DEF MessageKey
    <3> QED
      BY <1>1, <1>2, <1>4, <2>3, <3>1, CommitAnnounced
  <2> QED
    BY <2>1, <2>2, <2>3, ReceiveShape
<1>6. AnnouncedTo(Other(p), channel'[Other(p)], Opened(Other(p))')
  BY <1>1, <1>2, <1>3, AnnouncedByParty
<1>7. ASSUME NEW r \in Party PROVE AnnouncedTo(r, channel'[r], Opened(r)')
  <2>1. CASE r = p
    BY <1>5, <2>1
  <2>2. CASE r = Other(p)
    BY <1>6, <2>2
  <2> QED
    BY <1>3, <2>1, <2>2
<1> QED
  BY <1>7, AnnouncedByPartyNext

\* One more frame was sent, under the next counter.
LEMMA SentAccounted ==
  ASSUME NEW c, IsChannel(c), NEW d, d.recvChains = c.recvChains,
         NEW n \in Nat, NEW sent, NEW opened, AccountedFor(c, n, sent, opened),
         NEW f, f.seal.key.step \in Nat,
         \A k \in DOMAIN c.recvChains :
           f.seal.key.chainKey = c.recvChains[k].chainKey => n = k + f.seal.key.step
  PROVE  AccountedFor(d, n + 1, sent \cup {f}, opened)
<1>1. \A k \in DOMAIN c.recvChains : k \in Nat /\ c.recvChains[k].nextCounter \in Nat
  BY DEF IsChannel, IsReceivingChain
<1>2. ASSUME NEW k \in DOMAIN c.recvChains, f.seal.key.chainKey = c.recvChains[k].chainKey
      PROVE  ~Missing(c.recvChains[k], f.seal.key.step)
  BY <1>1, <1>2 DEF AccountedFor, Missing, Spent
<1> QED
  BY <1>1, <1>2 DEF AccountedFor

LEMMA AccountedKept ==
  ASSUME NEW c, NEW d, d.recvChains = c.recvChains, NEW n, NEW sent, NEW opened,
         AccountedFor(c, n, sent, opened)
  PROVE  AccountedFor(d, n, sent, opened)
BY DEF AccountedFor

\* A chain was stepped for f, and f was opened if the key was right.
LEMMA StepAccounted ==
  ASSUME NEW p \in Party, NEW c, IsChannel(c), NEW d, NEW f, IsFrame(f),
         HasChain(c, f), ~Rekeys(c, f), Stepping(c, d, f),
         Derivable(ChainFor(c, f), LocalCounter(c, f)),
         \A k \in DOMAIN c.recvChains : SkippedArePassed(c.recvChains[k]),
         NEW s, NEW sent, SentInOrder(Other(p), s, sent),
         NEW opened \in SUBSET sent, AnnouncedTo(p, c, opened),
         \A g \in sent : IsFrame(g),
         \A g \in sent : g.ctr = f.ctr => g = f,
         NEW n \in Nat, f.ctr < n, AccountedFor(c, n, sent, opened),
         NEW now, opened \subseteq now,
         f.seal.key = MessageKey(ChainFor(c, f).chainKey, LocalCounter(c, f)) => f \in now
  PROVE  AccountedFor(d, n, sent, now)
<1> PICK k0 : k0 = ChainStart(c, f)
  OBVIOUS
<1> PICK rc : rc = c.recvChains[k0]
  OBVIOUS
<1> PICK m : m = f.ctr - k0
  OBVIOUS
<1>1. /\ k0 \in DOMAIN c.recvChains /\ k0 \in Nat /\ f.ctr \in Nat
      /\ m \in Nat /\ f.ctr = k0 + m
      /\ IsReceivingChain(rc) /\ SkippedArePassed(rc)
      /\ ChainFor(c, f) = rc /\ LocalCounter(c, f) = m
      /\ Derivable(rc, m)
  BY ChainStartFound DEF IsFrame, IsChannel, ChainFor, LocalCounter
<1>2. d.recvChains[k0] = AfterKeyFor(rc, m)
  BY <1>1 DEF Stepping, SteppedChain
<1>3. /\ AfterKeyFor(rc, m).chainKey = rc.chainKey
      /\ AfterKeyFor(rc, m).nextCounter \in {rc.nextCounter, m + 1}
  BY <1>1, StepSpends
<1>4. /\ DOMAIN d.recvChains = DOMAIN c.recvChains
      /\ \A k \in DOMAIN c.recvChains : k # k0 => d.recvChains[k] = c.recvChains[k]
  BY DEF Stepping
<1>6. k0 + d.recvChains[k0].nextCounter <= n
  <2>1. k0 + rc.nextCounter <= n
    BY <1>1 DEF AccountedFor
  <2>2. k0 + (m + 1) <= n
    BY <1>1
  <2>3. \/ d.recvChains[k0].nextCounter = rc.nextCounter
        \/ d.recvChains[k0].nextCounter = m + 1
    BY <1>2, <1>3
  <2> QED
    BY <2>1, <2>2, <2>3
<1>7. ASSUME NEW g \in sent \ now, g.seal.key.chainKey = rc.chainKey
      PROVE  ~Missing(AfterKeyFor(rc, m), g.seal.key.step)
  <2>1. g.seal.key.step \in Nat /\ g.ctr \in Nat /\ g.seal.key \in [chainKey : ChainKey, step : Nat]
    BY DEF IsFrame
  <2>2. ~Missing(rc, g.seal.key.step)
    BY <1>1, <1>7 DEF AccountedFor
  <2>3. g.seal.key.step # m
    <3> SUFFICES ASSUME g.seal.key.step = m PROVE FALSE
      OBVIOUS
    <3>1. \A h \in sent : h.ctr \in Nat /\ h.seal.key.step \in Nat
      BY DEF IsFrame
    <3>2. g.ctr = k0 + g.seal.key.step
      BY <1>1, <1>7, <3>1, StartsMatch
    <3>3. g = f
      BY <1>1, <3>2
    <3>4. g.seal.key = MessageKey(rc.chainKey, m)
      BY <1>7, <2>1 DEF MessageKey
    <3> QED
      BY <1>1, <3>3, <3>4
  <2> QED
    BY <1>1, <2>1, <2>2, <2>3, StepKeepsOthers
<1>8. ASSUME NEW k \in DOMAIN d.recvChains
      PROVE  /\ k + d.recvChains[k].nextCounter <= n
             /\ \A g \in sent \ now :
                  g.seal.key.chainKey = d.recvChains[k].chainKey
                    => ~Missing(d.recvChains[k], g.seal.key.step)
  <2>1. CASE k = k0
    BY <1>2, <1>3, <1>6, <1>7, <2>1
  <2>2. CASE k # k0
    <3>1. k \in DOMAIN c.recvChains /\ d.recvChains[k] = c.recvChains[k]
      BY <1>4, <2>2
    <3>2. \A g \in sent \ now : g \in sent \ opened
      OBVIOUS
    <3> QED
      BY <3>1, <3>2 DEF AccountedFor
  <2> QED
    BY <2>1, <2>2
<1> QED
  BY <1>8 DEF AccountedFor

\* A chain was added for the announcement f.
LEMMA CommitAccounted ==
  ASSUME NEW p, NEW c, IsChannel(c), NEW d, NEW f, IsFrame(f), Rekeys(c, f), Committing(c, d, f),
         f.seal.key = MessageKey(ChainFor(c, f).chainKey, LocalCounter(c, f)),
         NEW s, NEW sent, SentInOrder(p, s, sent), f \in sent,
         \A g \in sent : IsFrame(g),
         \A g \in sent : g.ctr = f.ctr => g = f,
         NEW n \in Nat, f.ctr < n, NEW opened, AccountedFor(c, n, sent, opened)
  PROVE  AccountedFor(d, n, sent, opened \cup {f})
<1>1. /\ \A k \in DOMAIN d.recvChains : k # f.ctr =>
           k \in DOMAIN c.recvChains /\ d.recvChains[k] = c.recvChains[k]
      /\ f.ctr \in DOMAIN d.recvChains =>
           /\ d.recvChains[f.ctr].chainKey = ChainKeyOf(d.rootKey)
           /\ d.recvChains[f.ctr].nextCounter = 1
           /\ d.recvChains[f.ctr].skipped = {}
      /\ f.seal.key = MessageKey(ChainKeyOf(d.rootKey), 0)
  BY CommitChains
<1>2. f.seal.key.chainKey = ChainKeyOf(d.rootKey) /\ f.seal.key.step = 0 /\ f.ctr \in Nat
  BY <1>1 DEF MessageKey, IsFrame
<1>3. f.ctr + 1 <= n
  BY <1>2
<1>4. ASSUME NEW g \in sent \ (opened \cup {f}), g.seal.key.chainKey = ChainKeyOf(d.rootKey),
             f.ctr \in DOMAIN d.recvChains
      PROVE  ~Missing(d.recvChains[f.ctr], g.seal.key.step)
  <2>1. g.ctr \in Nat /\ g.seal.key.step \in Nat
    BY DEF IsFrame
  <2>2. StartOf(g) = StartOf(f)
    BY <1>2, <1>4 DEF SentInOrder
  <2>3. g.seal.key.step # 0
    BY <1>2, <1>4, <2>1, <2>2 DEF StartOf
  <2> QED
    BY <1>1, <1>4, <2>1, <2>3 DEF Missing, Spent
<1> QED
  BY <1>1, <1>3, <1>4 DEF AccountedFor

LEMMA SendAccounted ==
  ASSUME IInv, IInv', OneFramePerCounter, ChainsInOrder', ChainsAnnounced, StepsAccountedFor,
         NEW p \in Party, NEW timeDue \in BOOLEAN, Send(p, timeDue)
  PROVE  StepsAccountedFor'
<1> PICK f : f = Sealed(channel[p], timeDue)
  OBVIOUS
<1> PICK n \in Nat : n = channel[p].sendCounter
  BY GenType
<1> PICK q : q = Other(p)
  OBVIOUS
<1>1. /\ channel'[q] = channel[q]
      /\ net'[q] = net[q] \cup {f}
      /\ net'[p] = net[p]
      /\ deliveries' = deliveries
      /\ channel'[p].sendCounter = n + 1
      /\ IsFrame(f) /\ Genuine(f) /\ f.ctr = n
  BY SendEffect
<1>2. q \in Party /\ Other(q) = p /\ \A r \in Party : r = p \/ r = q
  BY TwoParties DEF Party, Other
<1>3. /\ Opened(q)' = Opened(q) /\ Opened(p)' = Opened(p)
      /\ channel'[p].recvChains = channel[p].recvChains
  BY SendOpensNone
<1>4. SentBy(p)' = SentBy(p) \cup {f} /\ SentBy(q)' = SentBy(q)
  BY <1>1, <1>2 DEF SentBy
<1> SUFFICES ASSUME DamagedFrames' = {}
             PROVE  \A r \in Party :
                      AccountedFor(channel'[r], channel'[Other(r)].sendCounter,
                                   SentBy(Other(r))', Opened(r)')
  BY AccountedByPartyNext
<1>5. DamagedFrames = {}
  <2>1. \A r \in Party : net[r] \subseteq net'[r]
    BY <1>1, <1>2
  <2> QED
    BY <2>1 DEF DamagedFrames
<1>6. /\ AccountedFor(channel[p], channel[q].sendCounter, SentBy(q), Opened(p))
      /\ AccountedFor(channel[q], n, SentBy(p), Opened(q))
  BY <1>2, <1>5, AccountedByParty
<1>7. AccountedFor(channel'[p], channel'[q].sendCounter, SentBy(q)', Opened(p)')
  BY <1>1, <1>3, <1>4, <1>6, AccountedKept
<1>8. AccountedFor(channel'[q], channel'[p].sendCounter, SentBy(p)', Opened(q)')
  <2>1. \A g \in SentBy(p)' : g.ctr \in Nat /\ g.seal.key.step \in Nat
    BY <1>2 DEF SentBy, IInv, TypeOK, IsFrame
  <2>2. SentInOrder(p, channel'[p], SentBy(p)')
    BY DEF ChainsInOrder
  <2>3. AnnouncedTo(q, channel[q], Opened(q))
    BY <1>2, AnnouncedByParty
  <2>4. Opened(q) \in SUBSET SentBy(p)' /\ f \in SentBy(p)'
    BY <1>2, <1>4 DEF Opened, SentBy
  <2>5. ASSUME NEW k \in DOMAIN channel[q].recvChains,
               f.seal.key.chainKey = channel[q].recvChains[k].chainKey
        PROVE  n = k + f.seal.key.step
    <3> PICK s : s = channel'[p]
      OBVIOUS
    <3> PICK r : r = channel[q]
      OBVIOUS
    <3> PICK sent : sent = SentBy(p)'
      OBVIOUS
    <3> PICK opened : opened = Opened(q)
      OBVIOUS
    <3>1. f.ctr = k + f.seal.key.step
      BY <1>2, <2>1, <2>2, <2>3, <2>4, <2>5, StartsMatch
    <3> QED
      BY <1>1, <3>1
  <2>6. IsChannel(channel[q]) /\ f.seal.key.step \in Nat
    BY <1>1, <1>2 DEF IInv, TypeOK, IsFrame
  <2>7. AccountedFor(channel'[q], n + 1, SentBy(p) \cup {f}, Opened(q))
    BY <1>1, <1>6, <2>5, <2>6, SentAccounted
  <2> QED
    BY <1>1, <1>3, <1>4, <2>7
<1> SUFFICES ASSUME NEW r \in Party
             PROVE  AccountedFor(channel'[r], channel'[Other(r)].sendCounter,
                                 SentBy(Other(r))', Opened(r)')
  OBVIOUS
<1>9. CASE r = p
  BY <1>7, <1>9
<1>10. CASE r = q
  BY <1>2, <1>8, <1>10
<1> QED
  BY <1>2, <1>9, <1>10

\* The link has damaged something: the claim is about other links.
LEMMA DamageAccounted ==
  ASSUME IInv, NEW p \in Party, Damage(p)
  PROVE  StepsAccountedFor'
<1>1. PICK g : ~Genuine(g) /\ g \in net'[p]
  BY DamageEffect
<1>2. DamagedFrames' # {}
  BY <1>1 DEF DamagedFrames
<1> QED
  BY <1>2 DEF StepsAccountedFor

LEMMA ReceiveAccounted ==
  ASSUME IInv, IInv', OneFramePerCounter, Spending, ChainsInOrder, ChainsAnnounced,
         StepsAccountedFor, NEW p \in Party, NEW f \in net[p], RejectTag(p, f) \/ Accept(p, f)
  PROVE  StepsAccountedFor'
<1> PICK q : q = Other(p)
  OBVIOUS
<1> PICK n \in Nat : n = channel[q].sendCounter
  BY TwoParties, GenType
<1>1. /\ IsChannel(channel[p]) /\ IsFrame(f) /\ HasChain(channel[p], f)
      /\ Derivable(ChainFor(channel[p], f), LocalCounter(channel[p], f))
      /\ channel'[q] = channel[q]
      /\ net' = net
      /\ Accept(p, f) =>
           f.seal.key = MessageKey(ChainFor(channel[p], f).chainKey,
                                   LocalCounter(channel[p], f))
      /\ ~Accept(p, f) /\ Genuine(f) =>
           f.seal.key # MessageKey(ChainFor(channel[p], f).chainKey,
                                   LocalCounter(channel[p], f))
  BY ReceiveEffect
<1>2. q \in Party /\ Other(q) = p /\ \A r \in Party : r = p \/ r = q
  BY TwoParties DEF Party, Other
<1>3. /\ Opened(q)' = Opened(q)
      /\ ~Accept(p, f) => Opened(p)' = Opened(p)
      /\ Accept(p, f) => Opened(p)' = Opened(p) \cup {f}
  BY ReceiveOpens
<1>4. channel'[p].sendCounter = channel[p].sendCounter
  BY ReceiveShape DEF Stepping, Committing, SameKeys
<1>5. SentBy(p)' = SentBy(p) /\ SentBy(q)' = SentBy(q)
  BY <1>1 DEF SentBy
<1> SUFFICES ASSUME DamagedFrames' = {}
             PROVE  \A r \in Party :
                      AccountedFor(channel'[r], channel'[Other(r)].sendCounter,
                                   SentBy(Other(r))', Opened(r)')
  BY AccountedByPartyNext
<1>6. DamagedFrames = {}
  BY <1>1 DEF DamagedFrames
<1>7. Genuine(f) /\ f \in SentBy(q)
  BY <1>2, <1>6 DEF DamagedFrames, SentBy
<1>8. f.ctr < n
  BY <1>7, GenuineNumbered
<1>9. /\ AccountedFor(channel[p], n, SentBy(q), Opened(p))
      /\ AccountedFor(channel[q], channel[p].sendCounter, SentBy(p), Opened(q))
  BY <1>2, <1>6, AccountedByParty
<1>10. AccountedFor(channel'[q], channel'[p].sendCounter, SentBy(p)', Opened(q)')
  BY <1>1, <1>3, <1>4, <1>5, <1>9
<1>11. AccountedFor(channel'[p], n, SentBy(q), Opened(p)')
  <2>1. /\ SentInOrder(Other(p), channel[q], SentBy(q))
        /\ AnnouncedTo(p, channel[p], Opened(p))
        /\ Opened(p) \in SUBSET SentBy(q)
    BY <1>2, AnnouncedByParty DEF ChainsInOrder, Opened, SentBy
  <2>2. /\ \A g \in SentBy(q) : IsFrame(g)
        /\ \A g \in SentBy(q) : g.ctr = f.ctr => g = f
    BY <1>2, <1>7 DEF SentBy, IInv, TypeOK, OneFramePerCounter
  <2>3. \A k \in DOMAIN channel[p].recvChains : SkippedArePassed(channel[p].recvChains[k])
    BY SpendingByParty DEF SpendingOf
  <2>4. Opened(p) \subseteq Opened(p)'
    BY <1>3
  <2>5. f.seal.key = MessageKey(ChainFor(channel[p], f).chainKey, LocalCounter(channel[p], f))
          => f \in Opened(p)'
    BY <1>1, <1>3, <1>7
  <2>6. CASE ~Rekeys(channel[p], f) /\ Stepping(channel[p], channel'[p], f)
    BY <1>1, <1>8, <1>9, <2>1, <2>2, <2>3, <2>4, <2>5, <2>6, StepAccounted
  <2>7. CASE channel'[p] = channel[p] /\ ~Accept(p, f)
    BY <1>3, <1>9, <2>7
  <2>8. CASE Rekeys(channel[p], f) /\ Accept(p, f) /\ Committing(channel[p], channel'[p], f)
    BY <1>1, <1>3, <1>7, <1>8, <1>9, <2>1, <2>2, <2>8, CommitAccounted
  <2> QED
    BY <2>6, <2>7, <2>8, ReceiveShape
<1> SUFFICES ASSUME NEW r \in Party
             PROVE  AccountedFor(channel'[r], channel'[Other(r)].sendCounter,
                                 SentBy(Other(r))', Opened(r)')
  OBVIOUS
<1>12. CASE r = p
  BY <1>1, <1>5, <1>11, <1>12
<1>13. CASE r = q
  BY <1>2, <1>10, <1>13
<1> QED
  BY <1>2, <1>12, <1>13

-----------------------------------------------------------------------------
(* The ledger.                                                             *)

LEMMA InitLedger == Init => Ledger
<1> SUFFICES ASSUME Init PROVE Ledger
  OBVIOUS
<1>1. IInv /\ Epochs
  BY InitInvariant, InitEpochs
<1>2. /\ \A p \in Party : channel[p] = NewChannel(p) /\ net[p] = {}
      /\ \A p \in Party : \A n \in Message : deliveries[p][n] = 0
  BY DEF Init
<1>3. \A p \in Party : Opened(p) = {} /\ SentBy(p) = {}
  BY <1>2, TwoParties DEF Opened, SentBy
<1>4. OneFramePerCounter
  BY <1>2 DEF OneFramePerCounter
<1>5. Spending
  <2> SUFFICES ASSUME NEW p \in Party PROVE SpendingOf(channel[p], Opened(p))
    BY SpendingByParty
  <2>1. /\ DOMAIN channel[p].recvChains = {0}
        /\ channel[p].recvChains[0].chainKey = HandshakeChainKey(Other(p))
        /\ channel[p].recvChains[0].skipped = {}
        /\ channel[p].rootKey = << >>
    BY <1>2, NewChannelFields
  <2>2. HandshakeChainKey(Other(p)).root = << >>
    BY DEF HandshakeChainKey, InitialRoot
  <2> HIDE DEF HandshakeChainKey
  <2>3. Len(<< >>) = 0
    OBVIOUS
  <2>4. RootLength(channel[p].recvChains[0].chainKey) = 0 /\ Len(channel[p].rootKey) = 0
    BY <2>1, <2>2, <2>3 DEF RootLength
  <2> QED
    BY <1>3, <2>1, <2>4 DEF SpendingOf, SkippedArePassed
<1>6. HealsOnReply
  BY <1>2, NewChannelFields DEF HealsOnReply
<1>7. ChainsInOrder
  <2> SUFFICES ASSUME NEW p \in Party PROVE SentInOrder(p, channel[p], SentBy(p))
    BY DEF ChainsInOrder
  <2>1. channel[p].sendCounter = 0 /\ channel[p].sendingChain.counter = 0
    BY <1>2, NewChannelFields
  <2> QED
    BY <1>3, <2>1 DEF SentInOrder
<1>8. ChainsAnnounced
  <2> SUFFICES ASSUME NEW p \in Party PROVE AnnouncedTo(p, channel[p], Opened(p))
    BY AnnouncedByParty
  <2> QED
    BY <1>2, NewChannelFields DEF AnnouncedTo
<1>9. StepsAccountedFor
  <2> SUFFICES ASSUME NEW p \in Party
               PROVE  AccountedFor(channel[p], channel[Other(p)].sendCounter,
                                   SentBy(Other(p)), Opened(p))
    BY <1>1, AccountedByParty
  <2>1. /\ DOMAIN channel[p].recvChains = {0}
        /\ channel[p].recvChains[0].nextCounter = 0
        /\ channel[Other(p)].sendCounter = 0
        /\ SentBy(Other(p)) = {}
    BY <1>2, <1>3, NewChannelFields, TwoParties
  <2> QED
    BY <2>1 DEF AccountedFor
<1> QED
  BY <1>1, <1>4, <1>5, <1>6, <1>7, <1>8, <1>9 DEF Ledger, Epochs, Spending

LEMMA SendLedger ==
  ASSUME Ledger, IInv', NEW p \in Party, NEW timeDue \in BOOLEAN, Send(p, timeDue)
  PROVE  Ledger'
<1>1. IInv /\ Epochs /\ Spending
  BY DEF Ledger, Epochs, Spending
<1>2. Epochs'
  BY <1>1, SendEpochs
<1>3. OneFramePerCounter'
  BY <1>1, SendCounters DEF Ledger
<1>4. Spending'
  BY <1>1, SendSpending DEF Ledger
<1>5. HealsOnReply'
  BY <1>1, SendHeals DEF Ledger
<1>6. ChainsInOrder'
  BY <1>1, SendOrder DEF Ledger
<1>7. ChainsAnnounced'
  BY <1>1, SendAnnounced DEF Ledger
<1>8. StepsAccountedFor'
  BY <1>1, <1>6, SendAccounted DEF Ledger
<1> QED
  BY <1>2, <1>3, <1>4, <1>5, <1>6, <1>7, <1>8 DEF Ledger, Epochs, Spending

LEMMA DamageLedger ==
  ASSUME Ledger, IInv', NEW p \in Party, Damage(p)
  PROVE  Ledger'
<1>1. IInv /\ Epochs /\ Spending
  BY DEF Ledger, Epochs, Spending
<1>2. /\ UNCHANGED <<channel, deliveries>>
      /\ \A r \in Party : \A g \in net'[r] : Genuine(g) => g \in net[r]
  BY <1>1, DamageAddsNone
<1>3. Epochs'
  BY <1>1, DamageEpochs
<1>4. OneFramePerCounter'
  BY <1>2 DEF Ledger, OneFramePerCounter
<1>5. Spending'
  BY <1>1, DamageSpending
<1>6. HealsOnReply'
  BY <1>2 DEF Ledger, HealsOnReply
<1>7. ChainsInOrder'
  BY <1>2, QuietOrder DEF Ledger
<1>8. ChainsAnnounced'
  BY <1>1, DamageAnnounced DEF Ledger
<1>9. StepsAccountedFor'
  BY <1>1, DamageAccounted
<1> QED
  BY <1>3, <1>4, <1>5, <1>6, <1>7, <1>8, <1>9 DEF Ledger, Epochs, Spending

LEMMA ReceiveLedger ==
  ASSUME Ledger, IInv', NEW p \in Party, NEW f \in net[p], RejectTag(p, f) \/ Accept(p, f)
  PROVE  Ledger'
<1>1. IInv /\ Epochs /\ Spending
  BY DEF Ledger, Epochs, Spending
<1>2. /\ net' = net
      /\ channel'[Other(p)] = channel[Other(p)]
  BY <1>1, ReceiveEffect
<1>3. /\ channel'[p].sendCounter = channel[p].sendCounter
      /\ channel'[p].sendingChain = channel[p].sendingChain
  BY <1>1, ReceiveShape DEF Stepping, Committing, SameKeys
<1>4. \A r \in Party : r = p \/ r = Other(p)
  BY DEF Party, Other
<1>5. Epochs'
  BY <1>1, ReceiveEpochs
<1>6. OneFramePerCounter'
  BY <1>1, ReceiveCounters DEF Ledger
<1>7. Spending'
  BY <1>1, ReceiveSpending DEF Ledger
<1>8. HealsOnReply'
  BY <1>1, ReceiveHeals DEF Ledger
<1>9. ChainsInOrder'
  <2>1. \A r \in Party : /\ channel'[r].sendCounter = channel[r].sendCounter
                         /\ channel'[r].sendingChain = channel[r].sendingChain
    BY <1>2, <1>3, <1>4
  <2> QED
    BY <1>2, <2>1, QuietOrder DEF Ledger
<1>10. ChainsAnnounced'
  BY <1>1, ReceiveAnnounced DEF Ledger
<1>11. StepsAccountedFor'
  BY <1>1, ReceiveAccounted DEF Ledger
<1> QED
  BY <1>5, <1>6, <1>7, <1>8, <1>9, <1>10, <1>11 DEF Ledger, Epochs, Spending

LEMMA StutterLedger ==
  ASSUME Ledger, UNCHANGED vars
  PROVE  Ledger'
<1>1. UNCHANGED <<channel, net, deliveries>>
  BY DEF vars
<1>2. IInv' /\ OneFramePerCounter'
  BY <1>1 DEF Ledger, IInv, TypeOK, WindowExact, OneFramePerCounter
<1>3. KeysInOrder' /\ SealedInOrder'
  BY <1>1 DEF Ledger, KeysInOrder, SealedInOrder, MadeSoFar
<1>4. NoKeyShared' /\ NoKeyReuse'
  <2>1. \A p \in Party : SendingKeys(p)' = SendingKeys(p)
    BY <1>1 DEF SendingKeys
  <2>2. NoKeyShared'
    BY <2>1 DEF Ledger, NoKeyShared, Party, Other
  <2>3. UNION {net'[p] : p \in Party} = UNION {net[p] : p \in Party}
    BY <1>1
  <2>4. NoKeyReuse'
    BY <2>3 DEF Ledger, NoKeyReuse
  <2> QED
    BY <2>2, <2>4
<1>5. ChainsApart' /\ UsedKeysAreGone' /\ HealsOnReply'
  <2>1. ChainsApart'
    BY <1>1 DEF Ledger, ChainsApart
  <2>2. UsedKeysAreGone'
    BY <1>1 DEF Ledger, UsedKeysAreGone
  <2>3. HealsOnReply'
    BY <1>1 DEF Ledger, HealsOnReply
  <2> QED
    BY <2>1, <2>2, <2>3
<1>6. ChainsInOrder' /\ ChainsAnnounced'
  <2>1. \A p \in Party : SentBy(p)' = SentBy(p)
    BY <1>1 DEF SentBy
  <2>2. ChainsInOrder'
    BY <1>1, <2>1 DEF Ledger, ChainsInOrder
  <2>3. ChainsAnnounced'
    BY <1>1, <2>1 DEF Ledger, ChainsAnnounced
  <2> QED
    BY <2>2, <2>3
<1>7. StepsAccountedFor'
  BY <1>1 DEF Ledger, StepsAccountedFor, DamagedFrames
<1> QED
  BY <1>2, <1>3, <1>4, <1>5, <1>6, <1>7 DEF Ledger

LEMMA NextLedger ==
  ASSUME Ledger, [Next]_vars
  PROVE  Ledger'
<1>1. IInv'
  BY NextInvariant DEF Ledger
<1>2. ASSUME NEW p \in Party, NEW timeDue \in BOOLEAN, Send(p, timeDue)
      PROVE  Ledger'
  BY <1>1, <1>2, SendLedger
<1>3. ASSUME NEW p \in Party, Damage(p)
      PROVE  Ledger'
  BY <1>1, <1>3, DamageLedger
<1>4. ASSUME NEW p \in Party, NEW f \in net[p], RejectTag(p, f) \/ Accept(p, f)
      PROVE  Ledger'
  BY <1>1, <1>4, ReceiveLedger
<1>5. CASE UNCHANGED vars
  BY <1>5, StutterLedger
<1> QED
  BY <1>2, <1>3, <1>4, <1>5 DEF Next, Receive, Refuse

(* What the endpoints and the link know of every chain is an invariant.    *)
THEOREM LedgerHolds == Spec => []Ledger
<1>1. Init => Ledger
  BY InitLedger
<1>2. Ledger /\ [Next]_vars => Ledger'
  BY NextLedger
<1> QED
  BY <1>1, <1>2, PTL DEF Spec

(* No message key seals two frames, of either direction, so the counter    *)
(* may serve as the GCM nonce.                                             *)
THEOREM NonceIsSafe == Spec => []NoKeyReuse
<1>1. Ledger => NoKeyReuse
  BY DEF Ledger
<1> QED
  BY <1>1, LedgerHolds, PTL

(* Once a message was returned, its key cannot be derived any more from    *)
(* the endpoint that decrypted it.                                         *)
THEOREM ForwardSecrecy == Spec => []UsedKeysAreGone
<1>1. Ledger => UsedKeysAreGone
  BY DEF Ledger
<1> QED
  BY <1>1, LedgerHolds, PTL

(* From its next message on, an endpoint seals under keys that the newest  *)
(* key of the peer it accepted was mixed into.                             *)
THEOREM HealingIsPrompt == Spec => []HealsOnReply
<1>1. Ledger => HealsOnReply
  BY DEF Ledger
<1> QED
  BY <1>1, LedgerHolds, PTL

-----------------------------------------------------------------------------
(* What still opens.                                                       *)

\* What decrypt() looks up for f, a frame of the chain retained under k.
LookedUp(c, f, k) ==
  /\ k \in Nat
  /\ f.ctr = k + f.seal.key.step
  /\ ~Rekeys(c, f)
  /\ HasChain(c, f)
  /\ ChainStart(c, f) = k
  /\ f.seal.key = MessageKey(c.recvChains[k].chainKey, f.seal.key.step)

\* A frame of a retained chain that was not opened finds its chain.
LEMMA ChainLookedUp ==
  ASSUME NEW p \in Party, NEW c, IsChannel(c),
         NEW s, NEW sent, SentInOrder(Other(p), s, sent),
         NEW opened \in SUBSET sent, AnnouncedTo(p, c, opened),
         \A g \in sent : IsFrame(g),
         NEW f \in sent \ opened, \A g \in sent : g.ctr = f.ctr => g = f,
         NEW k \in DOMAIN c.recvChains, f.seal.key.chainKey = c.recvChains[k].chainKey
  PROVE  LookedUp(c, f, k)
<1>1. \A g \in sent : g.ctr \in Nat /\ g.seal.key.step \in Nat
  BY DEF IsFrame
<1>2. /\ k \in Nat
      /\ f.ctr = k + f.seal.key.step
      /\ f.pub # NoPub => f.ctr = k /\ \E g \in opened : g.ctr = k
  BY <1>1, StartsMatch
<1>3. f.pub = NoPub
  BY <1>2
<1>4. ~Rekeys(c, f)
  BY <1>3 DEF Rekeys
<1>5. k \in StartsUpTo(c, f.ctr)
  BY <1>1, <1>2 DEF StartsUpTo
<1>6. HasChain(c, f)
  BY <1>5 DEF HasChain
<1> PICK k0 : k0 = ChainStart(c, f)
  OBVIOUS
<1>7. k0 \in DOMAIN c.recvChains /\ k0 \in Nat /\ k0 <= f.ctr /\ k <= k0
  <2>1. IsFrame(f)
    OBVIOUS
  <2>2. k0 \in DOMAIN c.recvChains /\ k0 \in Nat /\ k0 <= f.ctr
    BY <1>4, <1>6, <2>1, ChainStartFound
  <2>3. /\ StartsUpTo(c, f.ctr) \in SUBSET Nat
        /\ StartsUpTo(c, f.ctr) # {}
        /\ \A j \in StartsUpTo(c, f.ctr) : j <= f.ctr
    BY <1>5 DEF StartsUpTo, IsChannel
  <2>4. \A j \in StartsUpTo(c, f.ctr) : j <= Max(StartsUpTo(c, f.ctr))
    BY <1>1, <2>3, MaxOfBounded
  <2> QED
    BY <1>5, <2>2, <2>4 DEF ChainStart
<1>8. k0 = k
  <2> SUFFICES ASSUME k0 # k PROVE FALSE
    OBVIOUS
  <2>1. k0 # 0
    BY <1>2, <1>7
  <2>2. PICK g \in opened : g.ctr = k0 /\ g.pub # NoPub
    BY <1>7, <2>1 DEF AnnouncedTo
  <2>3. g.seal.key.step = 0 /\ StartOf(g) <= StartOf(f)
    BY <1>7, <2>2 DEF SentInOrder
  <2> QED
    BY <1>1, <1>2, <1>7, <2>2, <2>3 DEF StartOf
<1>9. f.seal.key = MessageKey(c.recvChains[k].chainKey, f.seal.key.step)
  <2>1. f.seal.key \in [chainKey : ChainKey, step : Nat]
    BY DEF IsFrame
  <2> QED
    BY <2>1 DEF MessageKey
<1> QED
  BY <1>2, <1>4, <1>6, <1>8, <1>9 DEF LookedUp

\* Within MaxSkip steps of where the chain is, it finds its key as well.
LEMMA ChainFound ==
  ASSUME NEW p \in Party, NEW c, IsChannel(c),
         NEW s, NEW sent, SentInOrder(Other(p), s, sent),
         NEW opened \in SUBSET sent, AnnouncedTo(p, c, opened),
         \A g \in sent : IsFrame(g),
         NEW f \in sent \ opened, \A g \in sent : g.ctr = f.ctr => g = f,
         NEW n \in Nat, AccountedFor(c, n, sent, opened),
         NEW k \in DOMAIN c.recvChains, f.seal.key.chainKey = c.recvChains[k].chainKey,
         c.recvChains[k].nextCounter - f.seal.key.step \in -MaxSkip .. MaxSkip + 1
  PROVE  /\ HasChain(c, f)
         /\ Derivable(ChainFor(c, f), LocalCounter(c, f))
         /\ f.seal.key = MessageKey(ChainFor(c, f).chainKey, LocalCounter(c, f))
<1>1. LookedUp(c, f, k)
  BY ChainLookedUp
<1>2. f.ctr \in Nat /\ f.seal.key.step \in Nat
  BY DEF IsFrame
<1> PICK rc : rc = c.recvChains[k]
  OBVIOUS
<1>3. ChainFor(c, f) = rc /\ LocalCounter(c, f) = f.seal.key.step
  BY <1>1, <1>2 DEF LookedUp, ChainFor, LocalCounter
<1>4. ~Missing(rc, f.seal.key.step) /\ rc.nextCounter \in Nat
  BY DEF AccountedFor, IsChannel, IsReceivingChain
<1>5. Derivable(rc, f.seal.key.step)
  BY <1>2, <1>4, MaxSkipAssumption DEF Derivable, Desynced, Missing, Spent
<1> QED
  BY <1>1, <1>3, <1>5 DEF LookedUp

LEMMA LedgerOpensLate ==
  ASSUME Ledger
  PROVE  LateFrameOpens
<1> SUFFICES ASSUME DamagedFrames = {}, NEW p \in Party, NEW f \in net[p], Genuine(f),
                    deliveries[p][f.ctr] = 0,
                    channel[p].window.highest - f.ctr < WindowSize,
                    NEW k \in DOMAIN channel[p].recvChains,
                    channel[p].recvChains[k].chainKey = f.seal.key.chainKey,
                    channel[p].recvChains[k].nextCounter - f.seal.key.step
                      \in -MaxSkip .. MaxSkip + 1
             PROVE  Accepts(channel[p], f)
  BY DEF LateFrameOpens, ChainsOf
<1> PICK q : q = Other(p)
  OBVIOUS
<1>1. IInv /\ q \in Party /\ Other(q) = p
  BY TwoParties DEF Ledger
<1> PICK n \in Nat : n = channel[q].sendCounter
  BY <1>1, GenType
<1>2. IsFrame(f) /\ f.ctr \in Message
  BY <1>1, GenuineNumbered
<1>4. Fresh(channel[p].window, f.ctr)
  BY <1>1, <1>2 DEF IInv, WindowExact
<1>5. /\ SentInOrder(Other(p), channel[q], SentBy(q))
      /\ AnnouncedTo(p, channel[p], Opened(p))
      /\ Opened(p) \in SUBSET SentBy(q)
  BY <1>1, AnnouncedByParty DEF Ledger, ChainsInOrder, Opened, SentBy
<1>6. /\ \A g \in SentBy(q) : IsFrame(g)
      /\ \A g \in SentBy(q) : g.ctr = f.ctr => g = f
      /\ f \in SentBy(q) \ Opened(p)
  BY <1>1 DEF Ledger, SentBy, Opened, IInv, TypeOK, OneFramePerCounter
<1>7. AccountedFor(channel[p], n, SentBy(q), Opened(p)) /\ IsChannel(channel[p])
  BY <1>1, AccountedByParty DEF Ledger, IInv, TypeOK
<1>8. /\ HasChain(channel[p], f)
      /\ Derivable(ChainFor(channel[p], f), LocalCounter(channel[p], f))
      /\ f.seal.key = MessageKey(ChainFor(channel[p], f).chainKey, LocalCounter(channel[p], f))
  BY <1>2, <1>5, <1>6, <1>7, ChainFound
<1> QED
  BY <1>4, <1>8 DEF Accepts, Derives, KeyMatches, Opens

(* A frame that arrives late but inside the window opens as long as its    *)
(* chain is retained and within MAX_SKIP steps of it, whatever the size of *)
(* the session, the window and the cache.                                  *)
THEOREM LateFramesOpen == Spec => []LateFrameOpens
<1>1. Ledger => LateFrameOpens
  BY LedgerOpensLate
<1> QED
  BY <1>1, LedgerHolds, PTL

\* A lookup that failed to authenticate leaves every other key in place, or
\* the cache full of newer ones.
LEMMA StepKeepsAccepting ==
  ASSUME NEW c, IsChannel(c), NEW d, NEW h, IsFrame(h), HasChain(c, h), ~Rekeys(c, h),
         Stepping(c, d, h), d.window = c.window,
         Derivable(ChainFor(c, h), LocalCounter(c, h)),
         \A k \in DOMAIN c.recvChains : SkippedArePassed(c.recvChains[k]),
         NEW f, IsFrame(f), f.ctr # h.ctr, Accepts(c, f)
  PROVE  Accepts(d, f) \/ Crowded(d, f)
<1>1. /\ d.rootKey = c.rootKey /\ d.myRatchet = c.myRatchet
      /\ d.peerRatchetPub = c.peerRatchetPub
      /\ DOMAIN d.recvChains = DOMAIN c.recvChains
      /\ Rekeys(d, f) = Rekeys(c, f)
  BY DEF Stepping, SameKeys, Rekeys
<1>2. /\ StartsUpTo(d, f.ctr) = StartsUpTo(c, f.ctr)
      /\ ChainStart(d, f) = ChainStart(c, f)
      /\ LocalCounter(d, f) = LocalCounter(c, f)
      /\ HasChain(d, f) = HasChain(c, f)
  BY <1>1 DEF StartsUpTo, ChainStart, LocalCounter, HasChain
<1>3. HasChain(c, f) /\ Fresh(d.window, f.ctr)
  BY DEF Accepts, Derives
<1>4. CASE Rekeys(c, f)
  <2>1. ChainFor(d, f) = ChainFor(c, f)
    BY <1>1, <1>4 DEF ChainFor, CandidateChain, CandidateRoot
  <2> QED
    BY <1>2, <1>3, <2>1 DEF Accepts, Derives, KeyMatches
<1>5. CASE ~Rekeys(c, f)
  <2> PICK k : k = ChainStart(c, f)
    OBVIOUS
  <2> PICK n : n = f.ctr - k
    OBVIOUS
  <2> PICK rc : rc = c.recvChains[k]
    OBVIOUS
  <2>1. /\ k \in DOMAIN c.recvChains /\ k \in Nat /\ f.ctr \in Nat /\ n \in Nat
        /\ ChainFor(c, f) = rc /\ LocalCounter(c, f) = n
        /\ IsReceivingChain(rc)
    BY <1>3, <1>5, ChainStartFound
       DEF ChainFor, LocalCounter, IsChannel, IsFrame
  <2>2. ChainFor(d, f) = d.recvChains[k] /\ LocalCounter(d, f) = n
    BY <1>1, <1>2, <1>5, <2>1 DEF ChainFor
  <2>3. /\ d.recvChains[k].chainKey = rc.chainKey
        /\ \/ Derivable(d.recvChains[k], n)
           \/ Cardinality({s \in d.recvChains[k].skipped : s > n}) >= MaxSkip
    <3>1. CASE k # ChainStart(c, h)
      BY <2>1, <3>1 DEF Stepping, Accepts, Derives
    <3>2. CASE k = ChainStart(c, h)
      <4> PICK m : m = h.ctr - k
        OBVIOUS
      <4>1. m \in Nat /\ m # n /\ ChainFor(c, h) = rc /\ LocalCounter(c, h) = m
        BY <2>1, <3>2, ChainStartFound DEF ChainFor, LocalCounter, IsFrame
      <4>2. d.recvChains[k] = AfterKeyFor(rc, m)
        BY <3>2, <4>1 DEF Stepping, SteppedChain
      <4>3. SkippedArePassed(rc) /\ Derivable(rc, m) /\ Derivable(rc, n)
        BY <2>1, <4>1 DEF Accepts, Derives
      <4> QED
        BY <2>1, <4>1, <4>2, <4>3, StepKeepsOrCrowds, StepSpends
    <3> QED
      BY <3>1, <3>2
  <2>4. f.seal.key.chainKey = rc.chainKey /\ f.seal.key.step = n
    BY <2>1 DEF Accepts, KeyMatches, Opens, MessageKey
  <2>5. k \in ChainsOf(d, f)
    BY <1>1, <2>1, <2>3, <2>4 DEF ChainsOf
  <2>6. CASE Derivable(d.recvChains[k], n)
    BY <1>2, <1>3, <2>1, <2>2, <2>3, <2>6 DEF Accepts, Derives, KeyMatches
  <2>7. CASE Cardinality({s \in d.recvChains[k].skipped : s > n}) >= MaxSkip
    BY <2>4, <2>5, <2>7 DEF Crowded
  <2> QED
    BY <2>3, <2>6, <2>7
<1> QED
  BY <1>4, <1>5

LEMMA RejectBurnsNothing ==
  ASSUME Ledger, [Next]_vars, DamagedFrames = {}, UNCHANGED <<net, deliveries>>,
         NEW p \in Party, NEW f \in net[p], Genuine(f), Accepts(channel[p], f)
  PROVE  Accepts(channel'[p], f) \/ Crowded(channel'[p], f)
<1>1. IInv /\ OneFramePerCounter /\ Spending
  BY DEF Ledger, Spending
<1>2. ASSUME NEW r \in Party, NEW g \in net[r]
      PROVE  IsFrame(g) /\ Genuine(g)
  BY <1>1 DEF DamagedFrames, IInv, TypeOK
<1>3. ASSUME NEW r \in Party, NEW timeDue \in BOOLEAN, Send(r, timeDue)
      PROVE  FALSE
  <2> PICK e : e = Sealed(channel[r], timeDue)
    OBVIOUS
  <2>1. e \in net'[Other(r)] /\ e.ctr = channel[r].sendCounter /\ Genuine(e)
    BY <1>1, <1>3, SendEffect
  <2>2. Other(r) \in Party /\ Other(Other(r)) = r
    BY TwoParties
  <2>3. e \in net[Other(r)]
    BY <2>1
  <2>4. e.ctr < channel[r].sendCounter
    BY <1>1, <2>1, <2>2, <2>3, GenuineNumbered
  <2> QED
    BY <1>1, <2>1, <2>4, GenType
<1>4. ASSUME NEW r \in Party, Damage(r)
      PROVE  FALSE
  <2>1. PICK g : ~Genuine(g) /\ g \in net'[r]
    BY <1>1, <1>4, DamageEffect
  <2> QED
    BY <1>2, <2>1
<1>5. ASSUME NEW r \in Party, NEW h \in net[r], RejectTag(r, h) \/ Accept(r, h)
      PROVE  Accepts(channel'[p], f) \/ Crowded(channel'[p], f)
  <2>1. /\ channel'[Other(r)] = channel[Other(r)]
        /\ IsChannel(channel[r]) /\ IsFrame(h) /\ HasChain(channel[r], h)
        /\ Derivable(ChainFor(channel[r], h), LocalCounter(channel[r], h))
        /\ Accept(r, h) => deliveries' = [deliveries EXCEPT ![r][h.ctr] = 1]
                           /\ deliveries[r][h.ctr] = 0 /\ h.ctr \in Message
        /\ channel'[r] = IF Accept(r, h) THEN AfterAccept(channel[r], h)
                                         ELSE AfterKeyDerivation(channel[r], h)
    BY <1>1, <1>5, ReceiveEffect
  <2>2. ~Accept(r, h)
    <3> SUFFICES ASSUME Accept(r, h) PROVE FALSE
      OBVIOUS
    <3>1. deliveries'[r][h.ctr] = 1
      BY <1>1, <2>1 DEF IInv, TypeOK
    <3> QED
      BY <2>1, <3>1
  <2>3. channel'[r] = AfterKeyDerivation(channel[r], h) /\ ~Accepts(channel[r], h)
    BY <1>5, <2>1, <2>2 DEF RejectTag, IsForeign, Accepts
  <2>4. CASE p = Other(r)
    BY <2>1, <2>4
  <2>5. CASE p = r /\ Rekeys(channel[r], h)
    BY <2>3, <2>5 DEF AfterKeyDerivation
  <2>6. CASE p = r /\ ~Rekeys(channel[r], h)
    <3>1. f.ctr # h.ctr
      BY <1>1, <1>2, <2>3, <2>6 DEF OneFramePerCounter
    <3>2. Stepping(channel[r], channel'[r], h)
      BY <2>1, <2>3, <2>6, DecryptSteps
    <3>3. channel'[r].window = channel[r].window
      BY <2>1, <2>3, KeyDerivationType
    <3>4. \A k \in DOMAIN channel[r].recvChains : SkippedArePassed(channel[r].recvChains[k])
      BY <1>1, SpendingByParty DEF SpendingOf
    <3>5. IsFrame(f)
      BY <1>2
    <3> QED
      BY <2>1, <2>6, <3>1, <3>2, <3>3, <3>4, <3>5, StepKeepsAccepting
  <2> QED
    BY <2>4, <2>5, <2>6 DEF Party, Other
<1>6. CASE UNCHANGED vars
  BY <1>6 DEF vars
<1> QED
  BY <1>3, <1>4, <1>5, <1>6 DEF Next, Receive, Refuse

(* A genuine frame that decrypt() rejects costs no other frame its turn,   *)
(* but one that MAX_SKIP newer keys crowd out.                             *)
THEOREM RejectionIsFree == Spec => RejectionBurnsNothing
<1>1. Ledger /\ [Next]_vars =>
        [(DamagedFrames = {} /\ UNCHANGED <<net, deliveries>>) =>
           \A p \in Party : \A f \in net[p] :
             (Genuine(f) /\ Accepts(channel[p], f))
               => Accepts(channel[p], f)' \/ Crowded(channel[p], f)']_vars
  <2> SUFFICES ASSUME Ledger, [Next]_vars, DamagedFrames = {}, UNCHANGED <<net, deliveries>>,
                      NEW p \in Party, NEW f \in net[p], Genuine(f), Accepts(channel[p], f)
               PROVE  Accepts(channel[p], f)' \/ Crowded(channel[p], f)'
    OBVIOUS
  <2>1. Accepts(channel'[p], f) \/ Crowded(channel'[p], f)
    BY RejectBurnsNothing
  <2> QED
    BY <2>1
<1> QED
  BY <1>1, LedgerHolds, PTL DEF Spec, RejectionBurnsNothing
-----------------------------------------------------------------------------
(* The cache of skipped keys at its limit.                                 *)

LookupsFound ==
  \A p \in Party : \A f \in net[p] : \A k \in ChainsOf(channel[p], f) :
    (Genuine(f) /\ Fresh(channel[p].window, f.ctr)) => LookedUp(channel[p], f, k)

LEMMA LedgerLooksUp == Ledger => LookupsFound
<1> SUFFICES ASSUME Ledger, NEW p \in Party, NEW f \in net[p], NEW k \in ChainsOf(channel[p], f),
                    Genuine(f), Fresh(channel[p].window, f.ctr)
             PROVE  LookedUp(channel[p], f, k)
  BY DEF LookupsFound
<1> PICK q : q = Other(p)
  OBVIOUS
<1>1. IInv /\ OneFramePerCounter /\ q \in Party /\ Other(q) = p
  BY TwoParties DEF Ledger
<1>2. IsFrame(f) /\ f.ctr \in Message
  BY <1>1, GenuineNumbered
<1>3. deliveries[p][f.ctr] = 0
  BY <1>1, <1>2 DEF IInv, WindowExact
<1>4. /\ SentInOrder(Other(p), channel[q], SentBy(q))
      /\ AnnouncedTo(p, channel[p], Opened(p))
      /\ Opened(p) \in SUBSET SentBy(q)
  BY <1>1, AnnouncedByParty DEF Ledger, ChainsInOrder, Opened, SentBy
<1>5. /\ \A g \in SentBy(q) : IsFrame(g)
      /\ \A g \in SentBy(q) : g.ctr = f.ctr => g = f
      /\ f \in SentBy(q) \ Opened(p)
  BY <1>1, <1>3 DEF SentBy, Opened, IInv, TypeOK, OneFramePerCounter
<1>6. IsChannel(channel[p])
  BY <1>1 DEF IInv, TypeOK
<1>7. /\ k \in DOMAIN channel[p].recvChains
      /\ f.seal.key.chainKey = channel[p].recvChains[k].chainKey
  BY DEF ChainsOf
<1> QED
  BY <1>4, <1>5, <1>6, <1>7, ChainLookedUp

\* What a step does to a chain it leaves in place: nothing, or key_for() for
\* a step other than that of a frame that stays fresh.
LEMMA ChainStepped ==
  ASSUME Ledger, LookupsFound, [Next]_vars, DamagedFrames = {},
         NEW p \in Party, NEW f \in net[p], Genuine(f), Accepts(channel[p], f),
         Fresh(channel'[p].window, f.ctr),
         NEW k \in ChainsOf(channel[p], f), k \in ChainsOf(channel'[p], f)
  PROVE  \/ channel'[p].recvChains[k] = channel[p].recvChains[k]
         \/ \E n \in Nat :
              /\ n # f.seal.key.step
              /\ Derivable(channel[p].recvChains[k], n)
              /\ channel'[p].recvChains[k] = AfterKeyFor(channel[p].recvChains[k], n)
<1> PICK c : c = channel[p]
  OBVIOUS
<1> PICK d : d = channel'[p]
  OBVIOUS
<1>1. IInv /\ OneFramePerCounter /\ ChainsApart
  BY DEF Ledger
<1>2. IsFrame(f) /\ f.ctr \in Nat /\ f.seal.key.step \in Nat
  BY <1>1 DEF IInv, TypeOK, IsFrame
<1>3. /\ k \in DOMAIN c.recvChains /\ c.recvChains[k].chainKey = f.seal.key.chainKey
      /\ k \in DOMAIN d.recvChains /\ d.recvChains[k].chainKey = f.seal.key.chainKey
  BY DEF ChainsOf
<1>4. LookedUp(c, f, k)
  BY DEF LookupsFound, Accepts, Derives
<1>5. IsChannel(c)
  BY <1>1 DEF IInv, TypeOK
<1>6. ASSUME NEW r \in Party, NEW timeDue \in BOOLEAN, Send(r, timeDue)
      PROVE  d.recvChains = c.recvChains
  <2>1. /\ channel'[r].recvChains = channel[r].recvChains
        /\ channel'[Other(r)] = channel[Other(r)]
    BY <1>1, <1>6, SendOpensNone, SendEffect
  <2> QED
    BY <2>1 DEF Party, Other
<1>7. ASSUME NEW r \in Party, Damage(r)
      PROVE  d.recvChains = c.recvChains
  BY <1>7 DEF Damage
<1>8. ASSUME NEW r \in Party, NEW h \in net[r], RejectTag(r, h) \/ Accept(r, h), r # p
      PROVE  d.recvChains = c.recvChains
  <2>1. channel'[Other(r)] = channel[Other(r)]
    BY <1>1, <1>8, ReceiveEffect
  <2> QED
    BY <1>8, <2>1 DEF Party, Other
<1>9. ASSUME NEW h \in net[p], RejectTag(p, h) \/ Accept(p, h), d.recvChains[k] # c.recvChains[k]
      PROVE  \E n \in Nat : /\ n # f.seal.key.step
                            /\ Derivable(c.recvChains[k], n)
                            /\ d.recvChains[k] = AfterKeyFor(c.recvChains[k], n)
  <2>1. /\ IsFrame(h) /\ HasChain(c, h) /\ Genuine(h) /\ h.ctr \in Nat
        /\ Derivable(ChainFor(c, h), LocalCounter(c, h))
        /\ d = IF Accept(p, h) THEN AfterAccept(c, h) ELSE AfterKeyDerivation(c, h)
    BY <1>1, <1>9, ReceiveEffect DEF DamagedFrames, IsFrame
  <2>2. h # f
    <3> SUFFICES ASSUME h = f PROVE FALSE
      OBVIOUS
    <3>1. Accept(p, f)
      BY <1>9 DEF RejectTag, IsForeign, Accepts
    <3>2. d.window = MarkSeen(c.window, f.ctr)
      BY <1>2, <1>5, <2>1, <3>1, AcceptType
    <3>3. ~Fresh(MarkSeen(c.window, f.ctr), f.ctr)
      BY <1>2, <1>5, MarkSeenExact DEF IsChannel
    <3> QED
      BY <3>2, <3>3
  <2>3. h.ctr # f.ctr
    BY <1>1, <2>1, <2>2 DEF OneFramePerCounter
  <2>4. CASE ~Rekeys(c, h) /\ Stepping(c, d, h)
    <3> PICK n : n = h.ctr - k
      OBVIOUS
    <3>1. k = ChainStart(c, h)
      BY <1>3, <1>9, <2>4 DEF Stepping
    <3>2. n \in Nat /\ n # f.seal.key.step
      <4>1. k \in Nat /\ k <= h.ctr
        BY <1>5, <2>1, <2>4, <3>1, ChainStartFound
      <4> QED
        BY <1>2, <1>4, <2>1, <2>3, <4>1 DEF LookedUp
    <3>3. ChainFor(c, h) = c.recvChains[k] /\ LocalCounter(c, h) = n
      BY <2>4, <3>1 DEF ChainFor, LocalCounter
    <3>4. d.recvChains[k] = AfterKeyFor(c.recvChains[k], n)
      BY <2>4, <3>1, <3>3 DEF Stepping, SteppedChain
    <3> QED
      BY <2>1, <3>2, <3>3, <3>4
  <2>5. CASE Rekeys(c, h) /\ Committing(c, d, h)
    <3>1. k = h.ctr
      BY <1>3, <1>5, <1>9, <2>1, <2>5, CommitChains
    <3>2. /\ d.recvChains[k].chainKey = ChainKeyOf(d.rootKey)
          /\ d.rootKey \in RootKey
          /\ Len(d.rootKey) = Len(c.rootKey) + 1
          /\ ChainKeyOf(d.rootKey).root = d.rootKey
      BY <1>3, <1>5, <2>1, <2>5, <3>1, CommitChains
    <3>3. RootLength(c.recvChains[k].chainKey) <= Len(c.rootKey)
      BY <1>1, <1>3 DEF ChainsApart
    <3>4. RootLength(c.recvChains[k].chainKey) = Len(c.rootKey) + 1
      BY <1>3, <3>2 DEF RootLength
    <3>5. Len(c.rootKey) \in Nat
      BY <1>5 DEF IsChannel, RootKey
    <3> QED
      BY <3>3, <3>4, <3>5
  <2> QED
    BY <1>1, <1>9, <2>4, <2>5, ReceiveShape
<1>10. CASE UNCHANGED vars
  BY <1>10 DEF vars
<1> QED
  BY <1>6, <1>7, <1>8, <1>9, <1>10 DEF Next, Receive, Refuse

LEMMA NetGrows ==
  ASSUME IInv, [Next]_vars, NEW r \in Party
  PROVE  net[r] \subseteq net'[r]
<1>1. ASSUME NEW p \in Party, NEW timeDue \in BOOLEAN, Send(p, timeDue)
      PROVE  net[r] \subseteq net'[r]
  <2>1. net'[Other(p)] = net[Other(p)] \cup {Sealed(channel[p], timeDue)} /\ net'[p] = net[p]
    BY <1>1, SendEffect
  <2> QED
    BY <2>1 DEF Party, Other
<1>2. ASSUME NEW p \in Party, Damage(p)
      PROVE  net[r] \subseteq net'[r]
  BY <1>2, DamageAddsNone
<1>3. ASSUME NEW p \in Party, NEW f \in net[p], Receive(p, f)
      PROVE  net[r] \subseteq net'[r]
  BY <1>3 DEF Receive, Refuse, RejectTag, Accept, vars
<1>4. CASE UNCHANGED vars
  BY <1>4 DEF vars
<1> QED
  BY <1>1, <1>2, <1>3, <1>4 DEF Next

LEMMA StepEvictsExcess ==
  ASSUME Ledger, LookupsFound, LookupsFound', [Next]_vars, DamagedFrames = {},
         NEW p \in Party, NEW f \in net[p], Genuine(f), Accepts(channel[p], f),
         ChainsOf(channel[p], f) # {},
         Fresh(channel'[p].window, f.ctr), ChainsOf(channel'[p], f) # {}
  PROVE  Accepts(channel'[p], f) \/ Crowded(channel'[p], f)
<1> PICK c : c = channel[p]
  OBVIOUS
<1> PICK d : d = channel'[p]
  OBVIOUS
<1> PICK m : m = f.seal.key.step
  OBVIOUS
<1> PICK k \in ChainsOf(c, f) : TRUE
  OBVIOUS
<1> PICK l \in ChainsOf(d, f) : TRUE
  OBVIOUS
<1>1. IInv /\ ChainsApart
  BY DEF Ledger
<1>2. IsFrame(f) /\ f.ctr \in Nat /\ m \in Nat
  BY <1>1 DEF IInv, TypeOK, IsFrame
<1>3. f \in net'[p]
  <2>1. \A r \in Party : net[r] \subseteq net'[r]
    BY <1>1, NetGrows
  <2> QED
    BY <2>1
<1>4. LookedUp(c, f, k) /\ LookedUp(d, f, l)
  BY <1>3 DEF LookupsFound, Accepts, Derives
<1>5. l = k
  BY <1>2, <1>4 DEF LookedUp
<1> PICK rc : rc = c.recvChains[k]
  OBVIOUS
<1> PICK rd : rd = d.recvChains[k]
  OBVIOUS
<1>6. ChainFor(c, f) = rc /\ LocalCounter(c, f) = m /\ ChainFor(d, f) = rd /\ LocalCounter(d, f) = m
  BY <1>2, <1>4, <1>5 DEF LookedUp, ChainFor, LocalCounter
<1>7. Derivable(rc, m)
  BY <1>6 DEF Accepts, Derives
<1>8. IsReceivingChain(rc) /\ SkippedArePassed(rc)
  BY <1>1 DEF IInv, TypeOK, IsChannel, ChainsOf, ChainsApart, SkippedArePassed
<1>9. Derivable(rd, m) => Accepts(d, f)
  BY <1>4, <1>5, <1>6 DEF LookedUp, Accepts, Derives, KeyMatches, Opens
<1>10. rd = rc \/ \E n \in Nat : n # m /\ Derivable(rc, n) /\ rd = AfterKeyFor(rc, n)
  BY <1>5, ChainStepped
<1>11. Derivable(rd, m) \/ Cardinality({s \in rd.skipped : s > m}) >= MaxSkip
  BY <1>2, <1>7, <1>8, <1>10, StepKeepsOrCrowds
<1> QED
  BY <1>5, <1>9, <1>11 DEF Crowded

(* Whatever the size of the cache, a frame of a retained chain loses its   *)
(* key to another one only when MAX_SKIP keys newer than its own are       *)
(* cached: _evict_excess_skipped drops the oldest, and no more than it     *)
(* has to.                                                                 *)
THEOREM EvictionIsExact == Spec => OnlyExcessIsEvicted
<1>1. Ledger /\ LookupsFound /\ LookupsFound' /\ [Next]_vars =>
        [DamagedFrames = {} => \A p \in Party : \A f \in net[p] :
           (Genuine(f) /\ Accepts(channel[p], f) /\ ChainsOf(channel[p], f) # {})
             => \/ Accepts(channel[p], f)'
                \/ ~Fresh(channel[p].window, f.ctr)'
                \/ ChainsOf(channel[p], f)' = {}
                \/ Crowded(channel[p], f)']_vars
  BY StepEvictsExcess
<1> QED
  BY <1>1, LedgerLooksUp, LedgerHolds, PTL DEF Spec, OnlyExcessIsEvicted
=============================================================================
