----------------------------- MODULE GuiTheorems -----------------------------
(***************************************************************************)
(* gui.py.  The worker thread and stop() (PeerWorker): the invariant of    *)
(* their handshake over _stop_event and self.sock, for any number of       *)
(* connections.  Then what _send_file's comparison with the pinned session *)
(* guarantees (FileSender), for transfers of any length over any number of *)
(* reconnects.  Then the window (SessionTabs), for any number of sessions  *)
(* and an event queue of any length.  Last, what the chunks and all other  *)
(* messages are padded to (padding.py, transport.py), for every length.    *)
(***************************************************************************)
EXTENDS FileSender, SessionTabs, Padding, SequenceTheorems, TLAPS

-----------------------------------------------------------------------------
(* The inductive invariant behind StrayIsLast: channels only get newer, so *)
(* once a frame was sealed by another channel the pinned one is gone.      *)
NewConnectionNewChannel ==
  pc \in {"greet", "ask", "handshake"} => sock = made /\ channel < made

NothingFromTheFuture ==
  /\ sender.at = "write" => sender.chan # None
  /\ channel # None =>
       /\ sender.at = "write" => sender.chan <= channel
       /\ \A i \in 1 .. Len(wire) : wire[i].chan <= channel

NothingBeforeThePin ==
  sender.live =>
    /\ sender.session # None
    /\ channel # None => sender.session <= channel
    /\ sender.at = "write" => sender.session <= sender.chan
    /\ \A i \in 1 .. Len(wire) : sender.session <= wire[i].chan

CheckedSoFar ==
  sender.live /\ sender.at \in {"guard", "guardsock", "encrypt", "write"} =>
    \A i \in 1 .. Len(wire) : wire[i].chan = sender.session

SenderInv ==
  /\ WorkerInv
  /\ SenderTypeOK
  /\ sender.at \in {"idle", "chosen"} => ~sender.live /\ wire = <<>>
  /\ NewConnectionNewChannel
  /\ NothingFromTheFuture
  /\ NothingBeforeThePin
  /\ CheckedSoFar
  /\ StrayIsLast

-----------------------------------------------------------------------------
(* The worker and stop().                                                  *)

LEMMA InitHolds == Init => WorkerInv
<1> SUFFICES ASSUME Init PROVE WorkerInv
  OBVIOUS
<1>1. gui.at = "idle" /\ gui.sock = 0 /\ gui.srv \in BOOLEAN
  BY DEF Init, None
<1>2. TypeOK
  <2>1. /\ role \in {"connect", "host"}
        /\ pc \in WorkerPc
        /\ srv \in {"none", "open", "closed"}
        /\ stop \in BOOLEAN
        /\ prompt \in {"none", "shown", "yes", "no"}
    BY DEF Init, WorkerPc
  <2>2. made = 0 /\ sock = 0 /\ channel = 0 /\ alive = {}
    BY DEF Init, None
  <2> QED
    BY <1>1, <2>1, <2>2 DEF TypeOK
<1> QED
  BY <1>1, <1>2 DEF Init, WorkerInv, ReadsOwnSession, StopUnblocks

LEMMA StepHolds == WorkerInv /\ [Next]_vars => WorkerInv'
<1> SUFFICES ASSUME WorkerInv, [Next]_vars PROVE WorkerInv'
  OBVIOUS
<1> USE ConnectionsAssumption
    DEF WorkerInv, TypeOK, ReadsOwnSession, StopUnblocks, WorkerPc, None
<1>1. CASE WorkerRuns
  <2>1. CASE LoopTop          BY <2>1 DEF LoopTop
  <2>2. CASE Connect
    <3>1. CASE NewConnection  BY <2>2, <3>1 DEF Connect, NewConnection
    <3>2. CASE ~NewConnection BY <2>2, <3>2 DEF Connect
    <3> QED                   BY <3>1, <3>2
  <2>3. CASE Listen           BY <2>3 DEF Listen
  <2>4. CASE AcceptLoop       BY <2>4 DEF AcceptLoop
  <2>5. CASE AcceptNothing    BY <2>5 DEF AcceptNothing
  <2>6. CASE TimeOut
    <3>1. CASE NextPeer       BY <2>6, <3>1 DEF TimeOut, NextPeer
    <3>2. CASE ~NextPeer      BY <2>6, <3>2 DEF TimeOut
    <3> QED                   BY <3>1, <3>2
  <2>7. CASE ConnectionFails  BY <2>7 DEF ConnectionFails
  <2>8. CASE Asked
    <3>1. CASE NextPeer       BY <2>8, <3>1 DEF Asked, NextPeer
    <3>2. CASE prompt = "yes" BY <2>8, <3>2 DEF Asked, NextPeer
    <3>3. CASE ~NextPeer /\ prompt # "yes"
      <4>1. /\ pc' = "done"
            /\ alive' = alive \ {sock}
            /\ prompt' = "none"
            /\ UNCHANGED <<role, sock, channel, srv, stop, made, gui>>
        BY <2>8, <3>3 DEF Asked
      <4> QED                 BY <4>1
    <3> QED                   BY <3>1, <3>2, <3>3
  <2>9. CASE SendMessage3     BY <2>9 DEF SendMessage3
  <2>10. CASE RecvLoop        BY <2>10 DEF RecvLoop
  <2>11. CASE ConnectionLost  BY <2>11 DEF ConnectionLost
  <2>12. CASE ForgetChannel   BY <2>12 DEF ForgetChannel
  <2>13. CASE ForgetSock      BY <2>13 DEF ForgetSock
  <2>14. CASE Failed          BY <2>14 DEF Failed
  <2>15. CASE ReconnectWait   BY <2>15 DEF ReconnectWait
  <2> QED
    BY <1>1, <2>1, <2>2, <2>3, <2>4, <2>5, <2>6, <2>7, <2>8, <2>9, <2>10,
       <2>11, <2>12, <2>13, <2>14, <2>15 DEF WorkerRuns
<1>2. CASE PeerActs
  <2>1. CASE Accept           BY <2>1 DEF Accept, NewConnection
  <2>2. CASE Greet            BY <2>2 DEF Greet
  <2>3. CASE Handshake        BY <2>3 DEF Handshake
  <2>4. CASE HandshakeFails
    <3>1. CASE NextPeer       BY <2>4, <3>1 DEF HandshakeFails, NextPeer
    <3>2. CASE ~NextPeer      BY <2>4, <3>2 DEF HandshakeFails
    <3> QED                   BY <3>1, <3>2
  <2>5. CASE PeerMakesNoSense BY <2>5 DEF PeerMakesNoSense
  <2>6. CASE Frame            BY <2>6 DEF Frame
  <2> QED
    BY <1>2, <2>1, <2>2, <2>3, <2>4, <2>5, <2>6 DEF PeerActs
<1>3. CASE StopSet            BY <1>3 DEF StopSet, worker
<1>4. CASE StopRuns
  <2>1. CASE StopSnapshotSock BY <2>1 DEF StopSnapshotSock, worker
  <2>2. CASE StopSnapshotSrv  BY <2>2 DEF StopSnapshotSrv, worker
  <2>3. CASE StopShutdown     BY <2>3 DEF StopShutdown, worker
  <2>4. CASE StopCloseSrv     BY <2>4 DEF StopCloseSrv
  <2> QED
    BY <1>4, <2>1, <2>2, <2>3, <2>4 DEF StopRuns
<1>5. CASE AnswerPrompt       BY <1>5 DEF AnswerPrompt
<1>6. CASE Break              BY <1>6 DEF Break, worker
<1>7. CASE UNCHANGED vars     BY <1>7 DEF vars
<1> QED
  BY <1>1, <1>2, <1>3, <1>4, <1>5, <1>6, <1>7 DEF Next

(* The worker and stop() keep WorkerInv, whatever the peers, the network   *)
(* and the clock do: gui.py's _run_loop against stop().                    *)
THEOREM WorkerInvariance == Spec => []WorkerInv
  BY InitHolds, StepHolds, PTL DEF Spec

(* A worker never reads a connection with the channel of another one: the  *)
(* channel _recv_loop decrypts with belongs to self.sock.                  *)
THEOREM OwnSession == Spec => []ReadsOwnSession
<1>1. WorkerInv => ReadsOwnSession
  BY DEF WorkerInv
<1> QED
  BY WorkerInvariance, <1>1, PTL

(* stop() never returns leaving the worker blocked in recv_bytes() on a    *)
(* live connection: its one snapshot of self.sock is the right one.        *)
THEOREM StopNeverMisses == Spec => []StopUnblocks
<1>1. WorkerInv => StopUnblocks
  BY DEF WorkerInv
<1> QED
  BY WorkerInvariance, <1>1, PTL

-----------------------------------------------------------------------------
(* _send_file.                                                             *)

Frames(n) == [chan : 1 .. n, conn : 1 .. n]

LEMMA FileInitHolds == FileInit => SenderInv
<1> SUFFICES ASSUME FileInit PROVE SenderInv
  OBVIOUS
<1>1. WorkerInv
  BY InitHolds DEF FileInit
<1>2. /\ sender.at = "idle" /\ sender.session = 0 /\ ~sender.live
      /\ sender.live \in BOOLEAN /\ sender.chan = 0
      /\ wire = <<>> /\ pc = "loop" /\ channel = 0 /\ made = 0
  BY DEF FileInit, Init, None
<1>3. SenderTypeOK
  BY <1>2 DEF SenderTypeOK
<1> QED
  BY <1>1, <1>2, <1>3
  DEF SenderInv, NewConnectionNewChannel, NothingFromTheFuture,
      NothingBeforeThePin, CheckedSoFar, StrayIsLast, None

-----------------------------------------------------------------------------
(* A step of the worker or of stop() keeps the channel, drops it, or puts  *)
(* a newer one in its place: _run_loop never goes back to an old session.  *)
LEMMA ChannelMoves ==
  ASSUME TypeOK, NewConnectionNewChannel, Next
  PROVE  /\ made' \in Nat /\ made <= made'
         /\ \/ channel' = channel
            \/ channel' = None
            \/ channel' = made /\ channel < made
         /\ NewConnectionNewChannel'
<1> USE DEF TypeOK, NewConnectionNewChannel, WorkerPc, None
<1>1. CASE WorkerRuns
  <2>1. CASE LoopTop          BY <2>1 DEF LoopTop
  <2>2. CASE Connect          BY <2>2 DEF Connect, NewConnection
  <2>3. CASE Listen           BY <2>3 DEF Listen
  <2>4. CASE AcceptLoop       BY <2>4 DEF AcceptLoop
  <2>5. CASE AcceptNothing    BY <2>5 DEF AcceptNothing
  <2>6. CASE TimeOut          BY <2>6 DEF TimeOut, NextPeer
  <2>7. CASE ConnectionFails  BY <2>7 DEF ConnectionFails
  <2>8. CASE Asked            BY <2>8 DEF Asked, NextPeer
  <2>9. CASE SendMessage3     BY <2>9 DEF SendMessage3
  <2>10. CASE RecvLoop        BY <2>10 DEF RecvLoop
  <2>11. CASE ConnectionLost  BY <2>11 DEF ConnectionLost
  <2>12. CASE ForgetChannel   BY <2>12 DEF ForgetChannel
  <2>13. CASE ForgetSock      BY <2>13 DEF ForgetSock
  <2>14. CASE Failed          BY <2>14 DEF Failed
  <2>15. CASE ReconnectWait   BY <2>15 DEF ReconnectWait
  <2> QED
    BY <1>1, <2>1, <2>2, <2>3, <2>4, <2>5, <2>6, <2>7, <2>8, <2>9, <2>10,
       <2>11, <2>12, <2>13, <2>14, <2>15 DEF WorkerRuns
<1>2. CASE PeerActs
  <2>1. CASE Accept           BY <2>1 DEF Accept, NewConnection
  <2>2. CASE Greet            BY <2>2 DEF Greet
  <2>3. CASE Handshake        BY <2>3 DEF Handshake
  <2>4. CASE HandshakeFails   BY <2>4 DEF HandshakeFails, NextPeer
  <2>5. CASE PeerMakesNoSense BY <2>5 DEF PeerMakesNoSense
  <2>6. CASE Frame            BY <2>6 DEF Frame
  <2> QED
    BY <1>2, <2>1, <2>2, <2>3, <2>4, <2>5, <2>6 DEF PeerActs
<1>3. CASE StopSet            BY <1>3 DEF StopSet, worker
<1>4. CASE StopRuns
  BY <1>4 DEF StopRuns, StopSnapshotSock, StopSnapshotSrv, StopShutdown,
              StopCloseSrv, worker
<1>5. CASE AnswerPrompt       BY <1>5 DEF AnswerPrompt
<1>6. CASE Break              BY <1>6 DEF Break, worker
<1> QED
  BY <1>1, <1>2, <1>3, <1>4, <1>5, <1>6 DEF Next

LEMMA WorkerKeeps == SenderInv /\ Next /\ UNCHANGED fileVars => SenderInv'
<1> SUFFICES ASSUME SenderInv, Next, UNCHANGED fileVars PROVE SenderInv'
  OBVIOUS
<1>1. WorkerInv' /\ TypeOK /\ TypeOK'
  BY StepHolds DEF SenderInv, WorkerInv
<1>2. /\ made' \in Nat /\ made <= made'
      /\ \/ channel' = channel
         \/ channel' = None
         \/ channel' = made /\ channel < made
      /\ NewConnectionNewChannel'
  BY <1>1, ChannelMoves DEF SenderInv
<1>3. sender' = sender /\ wire' = wire /\ SenderTypeOK
  BY DEF fileVars, SenderInv
<1>4. made \in Nat /\ channel \in 0 .. made
  BY <1>1 DEF TypeOK
<1>5. Len(wire) \in Nat
      /\ \A i \in 1 .. Len(wire) : wire[i].chan \in 1 .. made
  <2>1. wire \in Seq(Frames(made))
    BY <1>3 DEF SenderTypeOK, Frames
  <2>2. Len(wire) \in Nat
    BY <2>1, LenProperties
  <2>3. \A i \in 1 .. Len(wire) : wire[i] \in Frames(made)
    BY <2>1, ElementOfSeq
  <2> QED
    BY <2>2, <2>3 DEF Frames
<1>6. SenderTypeOK'
  <2>1. Frames(made) \subseteq Frames(made')
    <3>1. 1 .. made \subseteq 1 .. made'
      BY <1>2, <1>4
    <3> QED
      BY <3>1 DEF Frames
  <2>2. wire \in Seq(Frames(made))
    BY <1>3 DEF SenderTypeOK, Frames
  <2>3. wire \in Seq(Frames(made'))
    BY <2>1, <2>2, SeqMonotonic
  <2>4. wire' \in Seq([chan : 1 .. made', conn : 1 .. made'])
    BY <1>3, <2>3 DEF Frames
  <2> QED
    BY <1>2, <1>3, <1>4, <2>4 DEF SenderTypeOK
<1>7. NothingFromTheFuture'
  <2>1. sender.at = "write" => sender.chan # None /\ sender.chan \in 0 .. made
    BY <1>3 DEF SenderInv, NothingFromTheFuture, SenderTypeOK
  <2>2. ASSUME channel # None, channel' = channel
        PROVE  /\ sender.at = "write" => sender.chan <= channel'
               /\ \A i \in 1 .. Len(wire) : wire[i].chan <= channel'
    BY <2>2 DEF SenderInv, NothingFromTheFuture
  <2>3. ASSUME channel' = made
        PROVE  /\ sender.at = "write" => sender.chan <= channel'
               /\ \A i \in 1 .. Len(wire) : wire[i].chan <= channel'
    <3>1. \A i \in 1 .. Len(wire) : wire[i].chan <= made
      BY <1>4, <1>5
    <3>2. sender.at = "write" => sender.chan <= made
      BY <1>4, <2>1
    <3> QED
      BY <2>3, <3>1, <3>2
  <2> QED
    BY <1>2, <1>3, <2>1, <2>2, <2>3 DEF NothingFromTheFuture
<1>8. NothingBeforeThePin'
  BY <1>2, <1>3, <1>4
  DEF SenderInv, NothingBeforeThePin, SenderTypeOK, None
<1> QED
  BY <1>1, <1>2, <1>3, <1>6, <1>7, <1>8
  DEF SenderInv, CheckedSoFar, StrayIsLast

-----------------------------------------------------------------------------
(* A step that writes nothing: only where the sender is changes, and what  *)
(* it then knows is shown by the step.                                     *)
LEMMA QuietStep ==
  ASSUME SenderInv, UNCHANGED <<vars, wire>>,
         sender'.at \in {"chosen", "check", "guard", "guardsock", "encrypt",
                         "failed", "dead"},
         sender'.at = "chosen" => sender.at = "idle",
         sender'.session = sender.session, sender'.live = sender.live,
         sender'.chan = sender.chan,
         sender.at = "idle" => sender'.at = "chosen",
         CheckedSoFar'
  PROVE  SenderInv'
<1>1. WorkerInv' /\ TypeOK /\ NewConnectionNewChannel'
  <2>1. WorkerInv'
    BY StepHolds DEF SenderInv, vars
  <2> QED
    BY <2>1 DEF SenderInv, WorkerInv, NewConnectionNewChannel, vars
<1>2. wire' = wire /\ made' = made /\ channel' = channel /\ pc' = pc
  BY DEF vars
<1>3. SenderTypeOK'
  BY <1>2 DEF SenderInv, SenderTypeOK
<1>4. sender'.at \in {"idle", "chosen"} => ~sender'.live /\ wire' = <<>>
  BY <1>2 DEF SenderInv
<1>5. NothingFromTheFuture' /\ NothingBeforeThePin' /\ StrayIsLast'
  BY <1>2 DEF SenderInv, NothingFromTheFuture, NothingBeforeThePin, StrayIsLast
<1> QED
  BY <1>1, <1>3, <1>4, <1>5 DEF SenderInv

LEMMA SenderKeeps == SenderInv /\ SenderRuns /\ UNCHANGED vars => SenderInv'
<1> SUFFICES ASSUME SenderInv, SenderRuns, UNCHANGED vars PROVE SenderInv'
  OBVIOUS
<1>1. /\ WorkerInv' /\ TypeOK /\ NewConnectionNewChannel'
      /\ wire \in Seq(Frames(made)) /\ sender.live \in BOOLEAN
      /\ made' = made /\ channel' = channel /\ pc' = pc
  <2>1. WorkerInv'
    BY StepHolds DEF SenderInv
  <2> QED
    BY <2>1 DEF SenderInv, WorkerInv, NewConnectionNewChannel, SenderTypeOK,
                Frames, vars
<1>2. /\ Len(wire) \in Nat
      /\ \A i \in 1 .. Len(wire) : wire[i].chan \in 1 .. made
  <2>1. \A i \in 1 .. Len(wire) : wire[i] \in Frames(made)
    BY <1>1, ElementOfSeq
  <2>2. Len(wire) \in Nat
    BY <1>1, LenProperties
  <2> QED
    BY <2>1, <2>2 DEF Frames
<1>3. CASE Choose
  BY <1>3, QuietStep DEF Choose, SenderAt, CheckedSoFar
<1>4. CASE Pin
  <2>1. /\ wire = <<>> /\ wire' = <<>> /\ sender'.at = "check"
        /\ sender'.session = channel /\ sender'.chan = sender.chan
    BY <1>4 DEF Pin, SenderInv
  <2>2. sender'.live = (pc \in {"recv", "receiving"})
    BY <1>4 DEF Pin
  <2>3. sender'.live => channel # None
    BY <2>2 DEF SenderInv, WorkerInv, ReadsOwnSession
  <2>4. SenderTypeOK'
    <3>1. sender'.live \in BOOLEAN
      BY <2>2
    <3>2. wire' \in Seq([chan : 1 .. made', conn : 1 .. made'])
      BY <1>1, <1>4 DEF Pin, Frames
    <3> QED
      BY <1>1, <2>1, <3>1, <3>2 DEF TypeOK, SenderTypeOK, SenderInv
  <2>5. Len(wire') = 0
    BY <2>1
  <2>6. channel \in Nat
    BY <1>1 DEF TypeOK
  <2>7. NothingFromTheFuture' /\ NothingBeforeThePin' /\ CheckedSoFar'
        /\ StrayIsLast'
    BY <1>1, <2>1, <2>3, <2>5, <2>6
    DEF NothingFromTheFuture, NothingBeforeThePin, CheckedSoFar, StrayIsLast
  <2> QED
    BY <1>1, <2>1, <2>4, <2>7 DEF SenderInv
<1>5. CASE Check
  <2>1. /\ wire' = wire /\ sender.at = "check"
        /\ sender' = [sender EXCEPT !.at =
                        IF channel = sender.session THEN "guard" ELSE "failed"]
    BY <1>5 DEF Check, SenderAt
  <2>2. ASSUME sender.live, channel = sender.session
        PROVE  \A i \in 1 .. Len(wire) : wire[i].chan = sender.session
    <3>1. channel # None /\ sender.session \in Nat
      BY <2>2 DEF SenderInv, NothingBeforeThePin, SenderTypeOK
    <3>2. \A i \in 1 .. Len(wire) : wire[i].chan <= channel
      BY <3>1 DEF SenderInv, NothingFromTheFuture
    <3>3. \A i \in 1 .. Len(wire) : sender.session <= wire[i].chan
      BY <2>2 DEF SenderInv, NothingBeforeThePin
    <3> QED
      BY <1>2, <2>2, <3>1, <3>2, <3>3
  <2>3. CheckedSoFar'
    BY <1>1, <2>1, <2>2 DEF CheckedSoFar
  <2> QED
    BY <1>5, <2>1, <2>3, QuietStep
<1>6. CASE GuardChannel
  BY <1>1, <1>6, QuietStep DEF GuardChannel, SenderAt, CheckedSoFar, SenderInv
<1>7. CASE GuardSock
  BY <1>1, <1>7, QuietStep DEF GuardSock, SenderAt, CheckedSoFar, SenderInv
<1>8. CASE Encrypt
  <2>1. CASE channel = None
    BY <1>1, <1>8, <2>1, QuietStep DEF Encrypt, CheckedSoFar
  <2>2. CASE channel # None
    <3>1. /\ wire' = wire /\ sender.at = "encrypt" /\ sender'.at = "write"
          /\ sender'.session = sender.session /\ sender'.live = sender.live
          /\ sender'.chan = channel
      BY <1>8, <2>2 DEF Encrypt
    <3>2. SenderTypeOK'
      BY <1>1, <3>1 DEF SenderInv, SenderTypeOK, TypeOK
    <3>3. channel \in Nat
      BY <1>1 DEF TypeOK
    <3>4. NothingFromTheFuture' /\ NothingBeforeThePin' /\ CheckedSoFar'
          /\ StrayIsLast'
      BY <1>1, <2>2, <3>1, <3>3
      DEF SenderInv, NothingFromTheFuture, NothingBeforeThePin, CheckedSoFar,
          StrayIsLast
    <3> QED
      BY <1>1, <3>1, <3>2, <3>4 DEF SenderInv
  <2> QED
    BY <2>1, <2>2
<1>9. CASE WriteToNone
  BY <1>1, <1>9, QuietStep DEF WriteToNone, SenderAt, CheckedSoFar
<1>10. CASE WriteFails
  BY <1>1, <1>10, QuietStep DEF WriteFails, SenderAt, CheckedSoFar
<1>11. CASE Write
  <2> DEFINE frame == [chan |-> sender.chan, conn |-> sock]
  <2>1. /\ sender.at = "write" /\ wire' = Append(wire, frame)
        /\ sender'.at \in {"check", "sent"} /\ sender'.session = sender.session
        /\ sender'.live = sender.live /\ sender'.chan = sender.chan
    BY <1>11 DEF Write, SenderAt
  <2>2. frame \in Frames(made) /\ frame.chan = sender.chan
    <3>1. sender.chan \in 1 .. made
      BY <1>1, <2>1 DEF SenderInv, NothingFromTheFuture, SenderTypeOK, TypeOK,
                        None
    <3>2. sock \in 1 .. made
      BY <1>1, <1>11 DEF Write, TypeOK, None
    <3> QED
      BY <3>1, <3>2 DEF Frames
  <2> HIDE DEF frame
  <2>3. /\ wire' \in Seq(Frames(made))
        /\ Len(wire') = Len(wire) + 1
        /\ \A i \in 1 .. Len(wire) : wire'[i] = wire[i]
        /\ wire'[Len(wire) + 1] = frame
    BY <1>1, <2>1, <2>2, AppendProperties
  <2>4. \A i \in 1 .. Len(wire') :
          \/ i \in 1 .. Len(wire) /\ wire'[i] = wire[i]
          \/ i = Len(wire') /\ wire'[i].chan = sender.chan
    BY <1>2, <2>2, <2>3
  <2>5. SenderTypeOK'
    BY <1>1, <2>1, <2>3 DEF SenderInv, SenderTypeOK, Frames
  <2>6. NothingFromTheFuture'
    BY <1>1, <2>1, <2>4 DEF SenderInv, NothingFromTheFuture
  <2>7. NothingBeforeThePin'
    BY <1>1, <2>1, <2>4 DEF SenderInv, NothingBeforeThePin
  <2>8. StrayIsLast'
    BY <2>1, <2>4 DEF SenderInv, CheckedSoFar, StrayIsLast
  <2>9. CheckedSoFar'
    BY <2>1 DEF CheckedSoFar
  <2> QED
    BY <1>1, <2>1, <2>5, <2>6, <2>7, <2>8, <2>9 DEF SenderInv
<1> QED
  BY <1>3, <1>4, <1>5, <1>6, <1>7, <1>8, <1>9, <1>10, <1>11 DEF SenderRuns

-----------------------------------------------------------------------------
(* Of a transfer that began in a session, at most the last frame written   *)
(* was sealed by another session's channel, for any number of parts and of *)
(* reconnects (gui.py: _send_file's two comparisons).                      *)
THEOREM AtMostOneStray == FileSpec => []StrayIsLast
<1>1. SenderInv /\ [FileNext]_<<vars, fileVars>> => SenderInv'
  <2> SUFFICES ASSUME SenderInv, [FileNext]_<<vars, fileVars>>
               PROVE  SenderInv'
    OBVIOUS
  <2>1. CASE Next /\ UNCHANGED fileVars
    BY <2>1, WorkerKeeps
  <2>2. CASE SenderRuns /\ UNCHANGED vars
    BY <2>2, SenderKeeps
  <2>3. CASE UNCHANGED <<vars, fileVars>>
    <3>1. WorkerInv'
      BY <2>3, StepHolds DEF SenderInv
    <3> QED
      BY <2>3, <3>1
      DEF SenderInv, SenderTypeOK, NewConnectionNewChannel,
          NothingFromTheFuture, NothingBeforeThePin, CheckedSoFar, StrayIsLast,
          vars, fileVars
  <2> QED
    BY <2>1, <2>2, <2>3 DEF FileNext
<1>2. SenderInv => StrayIsLast
  BY DEF SenderInv
<1> QED
  BY FileInitHolds, <1>1, <1>2, PTL DEF FileSpec

-----------------------------------------------------------------------------
(* The window (SessionTabs): what it knows of a session s whose worker is  *)
(* at ph, which lives in the slot, in a tab or nowhere, and of which the   *)
(* queue q still holds events.                                             *)

EventKind ==
  {"trust_prompt", "history_loaded", "handshake_done", "connection_lost", "error"}

Event == [kind : EventKind, session : Session]

EventAt(q, i, s, k) == i \in DOMAIN q /\ q[i].session = s /\ q[i].kind = k

Unheard(q, s) == \A i, k : ~EventAt(q, i, s, k)

HomeOf(s, p, t) == IF s = p THEN "slot" ELSE IF s \in t THEN "tab" ELSE "none"

Over == {"new", "ended", "crashed"}

Linked == {"greeted", "up", "lost", "deaf"}

\* A worker that was not started is unknown.
NotStarted(q, s, ph, home, w, st) ==
  ph = "new" => s \notin st /\ home = "none" /\ w = TRUE /\ Unheard(q, s)

HasHome(s, ph, home, st) ==
  /\ s \in st => home = "none"
  /\ s \notin st => ph \in Over \/ home # "none"

\* A worker that asks has asked once.
AskedOnce(q, s, ph) ==
  \A i : EventAt(q, i, s, "trust_prompt") =>
    ph = "asking" /\ \A j : EventAt(q, j, s, "trust_prompt") => j = i

DoneBefore(q, s, i) == \E j : j < i /\ EventAt(q, j, s, "handshake_done")

\* What makes the pending session leave the slot comes first.
LeavesSlot(q, s, ph, home, w) ==
  home = "slot" =>
    /\ w = TRUE
    /\ ph \in {"up", "lost", "deaf"} => \E i : EventAt(q, i, s, "handshake_done")
    /\ \A i : EventAt(q, i, s, "connection_lost") => DoneBefore(q, s, i)
    /\ \A i : EventAt(q, i, s, "error") => ph = "ended" \/ DoneBefore(q, s, i)

News(q, s, i) == EventAt(q, i, s, "handshake_done") \/ EventAt(q, i, s, "connection_lost")

LastNews(q, s, i) == News(q, s, i) /\ \A j : News(q, s, j) => j <= i

\* The input will be what the last news makes it.
Follows(q, s, ph, w) ==
  /\ (\A i : ~News(q, s, i)) => (ph = "up" => w = TRUE) /\ (w = TRUE => ph \in Linked)
  /\ \A i : LastNews(q, s, i) =>
       /\ EventAt(q, i, s, "handshake_done") => ph \in Linked
       /\ EventAt(q, i, s, "connection_lost") => ph # "up"

\* It has a tab, or an event that gives it one is under way.
GetsTab(q, s, home) ==
  \/ home = "tab"
  \/ home = "slot" /\ \E i : News(q, s, i) \/ EventAt(q, i, s, "history_loaded")

SessionInv(q, s, ph, home, w, st) ==
  /\ NotStarted(q, s, ph, home, w, st)
  /\ HasHome(s, ph, home, st)
  /\ AskedOnce(q, s, ph)
  /\ LeavesSlot(q, s, ph, home, w)
  /\ GetsTab(q, s, home) => Follows(q, s, ph, w)

EverySession ==
  \A s \in Session :
    SessionInv(events, s, phase[s], HomeOf(s, pending, tabs), writable[s], stopped)

TabsInv ==
  /\ TabsTypeOK
  /\ events \in Seq(Event)
  /\ ~closed => EverySession
  /\ OneHome
  /\ InputFollowsSession


-----------------------------------------------------------------------------
(* The queue as one session sees it: q2 is q with an event of kind h of    *)
(* the session s added as the n-th, or taken from the front; h is "none"   *)
(* if the event is another session's.                                      *)
Appended(q, q2, s, h, n) ==
  /\ n \in Nat
  /\ \A i, k : EventAt(q, i, s, k) => i \in Nat /\ i < n /\ EventAt(q2, i, s, k)
  /\ \A i, k : EventAt(q2, i, s, k) => EventAt(q, i, s, k) \/ (i = n /\ k = h)
  /\ EventAt(q2, n, s, h)

Popped(q, q2, s, h) ==
  /\ \A i, k : EventAt(q2, i, s, k) => i \in Nat /\ i > 0 /\ EventAt(q, i + 1, s, k)
  /\ \A i, k : EventAt(q, i, s, k) =>
       /\ i \in Nat /\ i > 0
       /\ (i = 1 /\ k = h /\ h # "none") \/ (i > 1 /\ EventAt(q2, i - 1, s, k))
  /\ h # "none" => EventAt(q, 1, s, h)

SameEvents(q, q2, s) == \A i, k : EventAt(q2, i, s, k) <=> EventAt(q, i, s, k)

LEMMA AppendOther ==
  ASSUME NEW q \in Seq(Event), NEW s, NEW e, e.session # s
  PROVE  SameEvents(q, Append(q, e), s)
<1>1. Len(Append(q, e)) = Len(q) + 1 /\ Len(q) \in Nat
  OBVIOUS
<1>2. \A i \in 1 .. Len(q) : Append(q, e)[i] = q[i]
  OBVIOUS
<1>3. Append(q, e)[Len(q) + 1] = e
  OBVIOUS
<1>4. DOMAIN q = 1 .. Len(q) /\ DOMAIN Append(q, e) = 1 .. Len(q) + 1
  OBVIOUS
<1> QED
  BY <1>1, <1>2, <1>3, <1>4 DEF SameEvents, EventAt

LEMMA AppendOwn ==
  ASSUME NEW q \in Seq(Event), NEW s, NEW e, e.session = s
  PROVE  Appended(q, Append(q, e), s, e.kind, Len(q) + 1)
<1>1. Len(q) \in Nat
  OBVIOUS
<1>2. \A i \in 1 .. Len(q) : Append(q, e)[i] = q[i]
  OBVIOUS
<1>3. Append(q, e)[Len(q) + 1] = e
  OBVIOUS
<1>4. DOMAIN q = 1 .. Len(q) /\ DOMAIN Append(q, e) = 1 .. Len(q) + 1
  OBVIOUS
<1> QED
  BY <1>1, <1>2, <1>3, <1>4 DEF Appended, EventAt

LEMMA PopEvent ==
  ASSUME NEW q \in Seq(Event), q # << >>, NEW s, NEW h,
         h = IF Head(q).session = s THEN Head(q).kind ELSE "none"
  PROVE  Popped(q, Tail(q), s, h)
<1>1. /\ Len(q) \in Nat /\ Len(q) > 0
      /\ DOMAIN q = 1 .. Len(q)
      /\ Tail(q) \in Seq(Event)
      /\ Len(Tail(q)) = Len(q) - 1
      /\ DOMAIN Tail(q) = 1 .. Len(q) - 1
      /\ \A i \in 1 .. Len(q) - 1 : Tail(q)[i] = q[i + 1]
      /\ Head(q) = q[1]
  OBVIOUS
<1>2. q[1] \in Event
  BY <1>1
<1>3. q[1].kind # "none"
  BY <1>2 DEF Event, EventKind
<1>4. ASSUME NEW i, NEW k, EventAt(Tail(q), i, s, k)
      PROVE  i \in Nat /\ i > 0 /\ EventAt(q, i + 1, s, k)
  BY <1>1, <1>4 DEF EventAt
<1>5. ASSUME NEW i, NEW k, EventAt(q, i, s, k)
      PROVE  /\ i \in Nat /\ i > 0
             /\ (i = 1 /\ k = h /\ h # "none") \/ (i > 1 /\ EventAt(Tail(q), i - 1, s, k))
  <2>1. i \in 1 .. Len(q) /\ q[i].session = s /\ q[i].kind = k
    BY <1>1, <1>5 DEF EventAt
  <2>2. CASE i = 1
    BY <2>1, <2>2, <1>1, <1>3
  <2>3. CASE i # 1
    <3>1. i - 1 \in 1 .. Len(q) - 1 /\ (i - 1) + 1 = i
      BY <2>1, <2>3, <1>1
    <3>2. Tail(q)[i - 1] = q[i]
      BY <3>1, <1>1
    <3> QED
      BY <3>1, <3>2, <2>1, <2>3, <1>1 DEF EventAt
  <2> QED
    BY <2>2, <2>3
<1>6. h # "none" => EventAt(q, 1, s, h)
  BY <1>1 DEF EventAt
<1> QED
  BY <1>4, <1>5, <1>6 DEF Popped

-----------------------------------------------------------------------------
(* What happens to one session.                                            *)
LEMMA Elsewhere ==
  ASSUME NEW q, NEW q2, NEW s, NEW ph, NEW home, NEW w, NEW st, NEW st2,
         SessionInv(q, s, ph, home, w, st),
         s \in st2 <=> s \in st,
         SameEvents(q, q2, s) \/ Popped(q, q2, s, "none")
  PROVE  SessionInv(q2, s, ph, home, w, st2)
<1>1. CASE SameEvents(q, q2, s)
  BY <1>1 DEF SameEvents, SessionInv, NotStarted, HasHome, AskedOnce, LeavesSlot, GetsTab,
              Follows, Unheard, DoneBefore, News, LastNews
<1>2. CASE Popped(q, q2, s, "none")
  <2>1. \A i, k : EventAt(q2, i, s, k) => i \in Nat /\ EventAt(q, i + 1, s, k)
    BY <1>2 DEF Popped
  <2>2. \A i, k : EventAt(q, i, s, k) => i \in Nat /\ EventAt(q2, i - 1, s, k)
    BY <1>2 DEF Popped
  <2>3. NotStarted(q2, s, ph, home, w, st2)
    BY <2>1 DEF SessionInv, NotStarted, Unheard
  <2>4. HasHome(s, ph, home, st2)
    BY DEF SessionInv, HasHome
  <2>5. AskedOnce(q2, s, ph)
    BY <2>1 DEF SessionInv, AskedOnce
  <2>6. ASSUME NEW i, i \in Nat, DoneBefore(q, s, i + 1)
        PROVE  DoneBefore(q2, s, i)
    BY <2>2, <2>6 DEF DoneBefore
  <2>7. LeavesSlot(q2, s, ph, home, w)
    BY <2>1, <2>2, <2>6 DEF SessionInv, LeavesSlot
  <2>8. ASSUME GetsTab(q2, s, home)
        PROVE  Follows(q2, s, ph, w)
    <3>1. GetsTab(q, s, home)
      BY <2>1, <2>8 DEF GetsTab, News
    <3>2. Follows(q, s, ph, w)
      BY <3>1 DEF SessionInv
    <3>3. \A i : News(q, s, i) => i \in Nat /\ News(q2, s, i - 1)
      BY <2>2 DEF News
    <3>4. \A i : News(q2, s, i) => i \in Nat /\ News(q, s, i + 1)
      BY <2>1 DEF News
    <3>5. ASSUME NEW i, LastNews(q2, s, i)
          PROVE  LastNews(q, s, i + 1)
      BY <3>3, <3>4, <3>5 DEF LastNews
    <3> QED
      BY <3>2, <3>3, <3>4, <3>5, <2>1 DEF Follows, LastNews
  <2> QED
    BY <2>3, <2>4, <2>5, <2>7, <2>8 DEF SessionInv
<1> QED
  BY <1>1, <1>2

QuietMove(s, ph, ph2, st) ==
  \/ ph = "loading" /\ ph2 \in {"trying", "crashed"}
  \/ ph \in {"trying", "declined"} /\ ph2 = "trying"
  \/ ph \in {"trying", "lost"} /\ ph2 = "ended" /\ s \in st
  \/ ph = "trying" /\ ph2 = "greeted"
  \/ ph = "up" /\ ph2 \in {"lost", "deaf"}

\* The worker goes on without a word.
LEMMA Quiet ==
  ASSUME NEW q, NEW s, NEW ph, NEW ph2, NEW home, NEW w, NEW st,
         SessionInv(q, s, ph, home, w, st),
         QuietMove(s, ph, ph2, st)
  PROVE  SessionInv(q, s, ph2, home, w, st)
<1>1. NotStarted(q, s, ph2, home, w, st)
  BY DEF QuietMove, NotStarted
<1>2. HasHome(s, ph2, home, st)
  BY DEF QuietMove, SessionInv, HasHome, Over
<1>3. AskedOnce(q, s, ph2)
  BY DEF QuietMove, SessionInv, AskedOnce
<1>4. LeavesSlot(q, s, ph2, home, w)
  BY DEF QuietMove, SessionInv, HasHome, LeavesSlot
<1>5. GetsTab(q, s, home) => Follows(q, s, ph2, w)
  <2> SUFFICES ASSUME GetsTab(q, s, home) PROVE Follows(q, s, ph2, w)
    OBVIOUS
  <2>1. Follows(q, s, ph, w) /\ home # "none"
    BY DEF SessionInv, GetsTab
  <2>2. s \notin st
    BY <2>1 DEF SessionInv, HasHome
  <2> QED
    BY <2>1, <2>2 DEF QuietMove, Follows, Linked
<1> QED
  BY <1>1, <1>2, <1>3, <1>4, <1>5 DEF SessionInv

EmitMove(s, h, ph, ph2, st) ==
  \/ h = "error" /\ ph \in {"loading", "trying", "declined"} /\ ph2 = "ended"
  \/ h = "error" /\ ph = "up" /\ ph2 = "up"
  \/ h = "trust_prompt" /\ ph = "trying" /\ ph2 = "asking"
  \/ h = "history_loaded" /\ ph = "trying" /\ ph2 = "greeted"
  \/ h = "handshake_done" /\ ph = "greeted" /\ ph2 = "up"
  \/ h = "connection_lost" /\ ph = "lost" /\ ph2 = "trying" /\ s \notin st

\* The worker tells the window something.
LEMMA Told ==
  ASSUME NEW q, NEW q2, NEW s, NEW h, NEW n, NEW ph, NEW ph2, NEW home, NEW w, NEW st,
         SessionInv(q, s, ph, home, w, st),
         Appended(q, q2, s, h, n),
         EmitMove(s, h, ph, ph2, st)
  PROVE  SessionInv(q2, s, ph2, home, w, st)
<1>1. NotStarted(q2, s, ph2, home, w, st)
  BY DEF EmitMove, NotStarted
<1>2. HasHome(s, ph2, home, st)
  BY DEF EmitMove, SessionInv, HasHome, Over
<1>3. /\ \A i, k : EventAt(q, i, s, k) => i \in Nat /\ i < n /\ EventAt(q2, i, s, k)
      /\ \A i, k : EventAt(q2, i, s, k) => EventAt(q, i, s, k) \/ (i = n /\ k = h)
      /\ EventAt(q2, n, s, h)
      /\ n \in Nat
  BY DEF Appended
<1>4. AskedOnce(q2, s, ph2)
  BY <1>3 DEF EmitMove, SessionInv, AskedOnce
<1>5. LeavesSlot(q2, s, ph2, home, w)
  <2> SUFFICES ASSUME home = "slot" PROVE LeavesSlot(q2, s, ph2, home, w)
    BY DEF LeavesSlot
  <2>1. LeavesSlot(q, s, ph, home, w) /\ s \notin st
    BY DEF SessionInv, HasHome
  <2>2. ASSUME NEW i, DoneBefore(q, s, i)
        PROVE  DoneBefore(q2, s, i)
    BY <2>2, <1>3 DEF DoneBefore
  <2>3. ph \in {"up", "lost"} => DoneBefore(q2, s, n)
    BY <2>1, <1>3 DEF LeavesSlot, DoneBefore
  <2>4. ph2 \in {"up", "lost", "deaf"} => \E i : EventAt(q2, i, s, "handshake_done")
    BY <2>1, <1>3 DEF LeavesSlot, EmitMove
  <2>5. ASSUME NEW i, EventAt(q2, i, s, "connection_lost") PROVE DoneBefore(q2, s, i)
    BY <2>1, <2>2, <2>3, <2>5, <1>3 DEF LeavesSlot, EmitMove
  <2>6. ASSUME NEW i, EventAt(q2, i, s, "error")
        PROVE  ph2 = "ended" \/ DoneBefore(q2, s, i)
    BY <2>1, <2>2, <2>3, <2>6, <1>3 DEF LeavesSlot, EmitMove
  <2> QED
    BY <2>1, <2>4, <2>5, <2>6 DEF LeavesSlot
<1>6. ASSUME GetsTab(q2, s, home)
      PROVE  Follows(q2, s, ph2, w)
  <2>1. home # "none" /\ s \notin st
    BY <1>6 DEF GetsTab, SessionInv, HasHome
  <2>2. \A i : News(q, s, i) => News(q2, s, i) /\ i \in Nat /\ i < n
    BY <1>3 DEF News
  <2>3. CASE h \in {"handshake_done", "connection_lost"}
    <3>1. News(q2, s, n)
      BY <1>3, <2>3 DEF News
    <3>2. \A i, k : EventAt(q2, i, s, k) => i \in Nat /\ i <= n
      BY <1>3
    <3>3. \A i : LastNews(q2, s, i) => i = n
      BY <3>1, <3>2, <1>3 DEF LastNews, News
    <3>4. \A k : EventAt(q2, n, s, k) => k = h
      BY <1>3
    <3> QED
      BY <3>1, <3>3, <3>4, <2>3 DEF Follows, EmitMove, Linked
  <2>4. CASE h \notin {"handshake_done", "connection_lost"}
    <3>1. \A i : News(q2, s, i) <=> News(q, s, i)
      BY <1>3, <2>4 DEF News
    <3>2. \A i : LastNews(q2, s, i) <=> LastNews(q, s, i)
      BY <3>1 DEF LastNews
    <3>3. CASE GetsTab(q, s, home)
      <4>1. Follows(q, s, ph, w)
        BY <3>3 DEF SessionInv
      <4>2. \A i : EventAt(q2, i, s, "handshake_done") => EventAt(q, i, s, "handshake_done")
        BY <1>3, <2>4
      <4>3. \A i : EventAt(q2, i, s, "connection_lost") => EventAt(q, i, s, "connection_lost")
        BY <1>3, <2>4
      <4>4. \/ ph \notin Linked /\ ph2 # "up"
            \/ ph = "up" /\ ph2 = "up"
        BY <2>4 DEF EmitMove, Linked
      <4>5. (\A i : ~News(q2, s, i)) =>
              (ph2 = "up" => w = TRUE) /\ (w = TRUE => ph2 \in Linked)
        BY <4>1, <4>4, <3>1 DEF Follows, Linked
      <4>6. ASSUME NEW i, LastNews(q2, s, i)
            PROVE  /\ EventAt(q2, i, s, "handshake_done") => ph2 \in Linked
                   /\ EventAt(q2, i, s, "connection_lost") => ph2 # "up"
        BY <4>1, <4>2, <4>3, <4>4, <4>6, <3>2 DEF Follows, Linked
      <4> QED
        BY <4>5, <4>6 DEF Follows
    <3>4. CASE ~GetsTab(q, s, home)
      <4>1. home = "slot" /\ (\A i : ~News(q, s, i)) /\ h = "history_loaded"
        BY <3>4, <1>6, <3>1, <1>3 DEF GetsTab
      <4> QED
        BY <4>1, <3>1 DEF Follows, LastNews, EmitMove, Linked
    <3> QED
      BY <3>3, <3>4
  <2> QED
    BY <2>3, <2>4
<1> QED
  BY <1>1, <1>2, <1>4, <1>5, <1>6 DEF SessionInv

PopMove(h, ph, ph2, home, home2, w, w2) ==
  \/ /\ h = "history_loaded"
     /\ home2 = (IF home = "slot" THEN "tab" ELSE home)
     /\ w2 = w /\ ph2 = ph
  \/ /\ h = "handshake_done"
     /\ home2 = (IF home = "slot" THEN "tab" ELSE home)
     /\ w2 = (IF home2 = "tab" THEN TRUE ELSE w) /\ ph2 = ph
  \/ /\ h = "connection_lost"
     /\ w2 = (IF home = "tab" THEN FALSE ELSE w)
     /\ home2 = home /\ ph2 = ph
  \/ /\ h = "error"
     /\ home2 = (IF home = "slot" THEN "none" ELSE home)
     /\ w2 = w /\ ph2 = ph
  \/ /\ h = "trust_prompt"
     /\ ph2 \in {"trying", "declined"}
     /\ home2 = home /\ w2 = w

\* The window learns something of the session.
LEMMA Heard ==
  ASSUME NEW q, NEW q2, NEW s, NEW h, NEW ph, NEW ph2, NEW home, NEW home2,
         NEW w, NEW w2, NEW st,
         home \in {"slot", "tab", "none"},
         SessionInv(q, s, ph, home, w, st),
         Popped(q, q2, s, h), h # "none",
         PopMove(h, ph, ph2, home, home2, w, w2)
  PROVE  SessionInv(q2, s, ph2, home2, w2, st)
<1>1. /\ \A i, k : EventAt(q2, i, s, k) => i \in Nat /\ i > 0 /\ EventAt(q, i + 1, s, k)
      /\ \A i, k : EventAt(q, i, s, k) =>
           i \in Nat /\ i > 0 /\ ((i = 1 /\ k = h) \/ (i > 1 /\ EventAt(q2, i - 1, s, k)))
      /\ EventAt(q, 1, s, h)
  BY DEF Popped
<1>2. ph # "new"
  BY <1>1 DEF SessionInv, NotStarted, Unheard
<1>3. h = "trust_prompt" => ph = "asking"
  BY <1>1 DEF SessionInv, AskedOnce
<1>4. ASSUME NEW i \in Nat, DoneBefore(q, s, i)
      PROVE  1 < i
  BY <1>1, <1>4 DEF DoneBefore
<1>5. home = "slot" => h # "connection_lost" /\ (h = "error" => ph = "ended")
  BY <1>1, <1>4 DEF SessionInv, LeavesSlot
<1>6. NotStarted(q2, s, ph2, home2, w2, st)
  BY <1>2, <1>3 DEF NotStarted, PopMove
<1>7. HasHome(s, ph2, home2, st)
  BY <1>3, <1>5 DEF SessionInv, HasHome, PopMove, Over
<1>8. AskedOnce(q2, s, ph2)
  <2>1. h = "trust_prompt" => \A i : ~EventAt(q2, i, s, "trust_prompt")
    BY <1>1 DEF SessionInv, AskedOnce
  <2>2. h # "trust_prompt" => ph2 = ph
    BY DEF PopMove
  <2>3. ASSUME NEW i, EventAt(q2, i, s, "trust_prompt")
        PROVE  ph2 = "asking" /\ \A j : EventAt(q2, j, s, "trust_prompt") => j = i
    BY <2>1, <2>2, <2>3, <1>1 DEF SessionInv, AskedOnce
  <2> QED
    BY <2>3 DEF AskedOnce
<1>9. LeavesSlot(q2, s, ph2, home2, w2)
  <2> SUFFICES ASSUME home2 = "slot" PROVE LeavesSlot(q2, s, ph2, home2, w2)
    BY DEF LeavesSlot
  <2>1. /\ home = "slot" /\ w2 = w
        /\ h \notin {"history_loaded", "handshake_done", "error", "connection_lost"}
    BY <1>5 DEF PopMove
  <2>2. h = "trust_prompt" /\ ph = "asking" /\ ph2 \in {"trying", "declined"}
    BY <2>1, <1>3 DEF PopMove
  <2>3. LeavesSlot(q, s, ph, home, w)
    BY DEF SessionInv
  <2>4. ASSUME NEW i, i \in Nat, DoneBefore(q, s, i + 1)
        PROVE  DoneBefore(q2, s, i)
    <3>1. PICK j : j < i + 1 /\ EventAt(q, j, s, "handshake_done")
      BY <2>4 DEF DoneBefore
    <3>2. j \in Nat /\ EventAt(q2, j - 1, s, "handshake_done") /\ j - 1 < i
      BY <3>1, <2>2, <2>4, <1>1
    <3> QED
      BY <3>2 DEF DoneBefore
  <2> QED
    BY <2>1, <2>2, <2>3, <2>4, <1>1 DEF LeavesSlot
<1>10. ASSUME GetsTab(q2, s, home2)
       PROVE  Follows(q2, s, ph2, w2)
  <2>1. \A i : News(q, s, i) =>
          /\ i \in Nat
          /\ \/ i = 1 /\ h \in {"handshake_done", "connection_lost"}
             \/ i > 1 /\ News(q2, s, i - 1)
    BY <1>1 DEF News
  <2>2. \A i : News(q2, s, i) => i \in Nat /\ i > 0 /\ News(q, s, i + 1)
    BY <1>1 DEF News
  <2>3. GetsTab(q, s, home)
    <3>1. CASE home = "tab"
      BY <3>1 DEF GetsTab
    <3>2. CASE home = "slot"
      BY <3>2, <1>1, <1>5, <1>10, <2>2 DEF GetsTab, PopMove, News
    <3>3. CASE home = "none"
      BY <3>3, <1>10 DEF GetsTab, PopMove
    <3> QED
      BY <3>1, <3>2, <3>3
  <2>4. Follows(q, s, ph, w)
    BY <2>3 DEF SessionInv
  <2>5. ASSUME NEW i, LastNews(q2, s, i)
        PROVE  LastNews(q, s, i + 1) /\ i \in Nat
    <3>1. i \in Nat /\ i > 0 /\ News(q, s, i + 1)
      BY <2>2, <2>5 DEF LastNews
    <3>2. ASSUME NEW j, News(q, s, j)
          PROVE  j <= i + 1
      BY <3>1, <3>2, <2>1, <2>5, <1>1 DEF LastNews, News
    <3> QED
      BY <3>1, <3>2 DEF LastNews
  <2>6. ASSUME NEW i, LastNews(q2, s, i)
        PROVE  /\ EventAt(q2, i, s, "handshake_done") => ph2 \in Linked
               /\ EventAt(q2, i, s, "connection_lost") => ph2 # "up"
    BY <2>4, <2>5, <2>6, <1>1, <1>3 DEF Follows, PopMove, Linked
  <2>7. ASSUME \A i : ~News(q2, s, i)
        PROVE  (ph2 = "up" => w2 = TRUE) /\ (w2 = TRUE => ph2 \in Linked)
    <3>1. CASE h \in {"handshake_done", "connection_lost"}
      <4>1. News(q, s, 1)
        BY <1>1, <3>1 DEF News
      <4>2. ASSUME NEW j, News(q, s, j) PROVE j <= 1
        BY <4>2, <2>1, <2>7
      <4>3. LastNews(q, s, 1)
        BY <4>1, <4>2 DEF LastNews
      <4>4. /\ ph2 = ph
            /\ h = "handshake_done" => ph \in Linked
            /\ h = "connection_lost" => ph # "up"
        BY <4>3, <2>4, <1>1, <3>1 DEF Follows, PopMove
      <4>5. home2 = "tab"
        BY <1>10, <2>3, <2>7, <1>5, <3>1 DEF GetsTab, PopMove
      <4>6. w2 = (h = "handshake_done")
        BY <4>5, <3>1 DEF PopMove
      <4> QED
        BY <4>4, <4>6, <3>1
    <3>2. CASE h \notin {"handshake_done", "connection_lost"}
      <4>1. \A i : ~News(q, s, i)
        BY <2>1, <2>7, <3>2
      <4>2. (ph = "up" => w = TRUE) /\ (w = TRUE => ph \in Linked)
        BY <4>1, <2>4 DEF Follows
      <4>3. w2 = w
        BY <3>2 DEF PopMove
      <4> QED
        BY <4>2, <4>3, <1>3 DEF PopMove, Linked
    <3> QED
      BY <3>1, <3>2
  <2> QED
    BY <2>6, <2>7 DEF Follows
<1> QED
  BY <1>6, <1>7, <1>8, <1>9, <1>10 DEF SessionInv

\* The worker is started, and its tab is closed.
LEMMA Started ==
  ASSUME NEW q, NEW s, NEW w, NEW st,
         SessionInv(q, s, "new", "none", w, st)
  PROVE  SessionInv(q, s, "loading", "slot", w, st)
<1>1. w = TRUE /\ s \notin st /\ \A i, k : ~EventAt(q, i, s, k)
  BY DEF SessionInv, NotStarted, Unheard
<1> QED
  BY <1>1 DEF SessionInv, NotStarted, HasHome, AskedOnce, LeavesSlot, GetsTab, News

LEMMA TabClosed ==
  ASSUME NEW q, NEW s, NEW ph, NEW w, NEW st,
         SessionInv(q, s, ph, "tab", w, st)
  PROVE  SessionInv(q, s, ph, "none", w, st \cup {s})
<1>1. ph # "new"
  BY DEF SessionInv, NotStarted
<1> QED
  BY <1>1 DEF SessionInv, NotStarted, HasHome, LeavesSlot, GetsTab

-----------------------------------------------------------------------------
(* The steps.                                                              *)
Here(r) ==
  SessionInv(events, r, phase[r], HomeOf(r, pending, tabs), writable[r], stopped)

LEMMA HomeKinds == \A s, p, t : HomeOf(s, p, t) \in {"slot", "tab", "none"}
BY DEF HomeOf

\* What is asked of the window follows from what is known of its sessions.
LEMMA SessionsMakeIt == TabsTypeOK /\ EverySession => OneHome /\ InputFollowsSession
<1> SUFFICES ASSUME TabsTypeOK, EverySession
             PROVE  OneHome /\ InputFollowsSession
  OBVIOUS
<1>1. \A s \in Session : Here(s)
  BY DEF EverySession, Here
<1>2. OneHome
  <2>1. ASSUME NEW s \in stopped, s \in tabs \cup {pending}
        PROVE  FALSE
    <3>1. s \in Session
      BY DEF TabsTypeOK
    <3>2. HomeOf(s, pending, tabs) # "none"
      BY <2>1 DEF HomeOf
    <3> QED
      BY <1>1, <3>1, <3>2 DEF Here, SessionInv, HasHome
  <2>2. ASSUME NEW s \in Session \ stopped
        PROVE  phase[s] \in {"new", "ended", "crashed"} \/ s \in tabs \cup {pending}
    <3>1. phase[s] \in Over \/ HomeOf(s, pending, tabs) # "none"
      BY <1>1 DEF Here, SessionInv, HasHome
    <3> QED
      BY <3>1 DEF Over, HomeOf
  <2> QED
    BY <2>1, <2>2 DEF OneHome
<1>3. ASSUME NEW s \in tabs, Queued(s) \cap {"handshake_done", "connection_lost"} = {}
      PROVE  (phase[s] = "up" => writable[s]) /\ (writable[s] => phase[s] \in Linked)
  <2>1. s \in Session /\ writable[s] \in BOOLEAN /\ s # pending
    <3>1. s \in Session /\ pending \notin tabs
      BY SessionAssumption DEF TabsTypeOK
    <3> QED
      BY <3>1 DEF TabsTypeOK
  <2>2. HomeOf(s, pending, tabs) = "tab"
    BY <2>1 DEF HomeOf
  <2>3. ASSUME NEW i, NEW k, EventAt(events, i, s, k)
        PROVE  k \in Queued(s)
    BY <2>3 DEF EventAt, Queued
  <2>4. \A i : ~News(events, s, i)
    BY <2>3, <1>3 DEF News
  <2>5. Follows(events, s, phase[s], writable[s])
    BY <1>1, <2>1, <2>2 DEF Here, SessionInv, GetsTab
  <2>6. (phase[s] = "up" => writable[s] = TRUE) /\ (writable[s] = TRUE => phase[s] \in Linked)
    BY <2>4, <2>5 DEF Follows
  <2> QED
    BY <2>1, <2>6
<1>4. InputFollowsSession
  BY <1>3 DEF InputFollowsSession, Linked
<1> QED
  BY <1>2, <1>4

Phases == {"new", "loading", "trying", "asking", "declined",
           "greeted", "up", "lost", "deaf", "ended", "crashed"}

\* A step of the worker s, which leaves the window alone: a move without a
\* word or one with an event.
Silently(s) ==
  \E p \in Phases : QuietMove(s, phase[s], p, stopped) /\ Quietly(s, p)

Speaking(s) ==
  \E p \in Phases, k \in EventKind :
    EmitMove(s, k, phase[s], p, stopped) /\ Emit(s, k, p)

LEMMA WorkersMove ==
  ASSUME TabsTypeOK, NEW s \in Session, WorkerStep(s)
  PROVE  /\ UNCHANGED <<stopped, polling, user>>
         /\ rounds' \in 0 .. MaxRounds
         /\ Silently(s) \/ Speaking(s)
<1> USE DEF Silently, Speaking, QuietMove, EmitMove, EventKind, Phases
<1>1. rounds' = rounds \/ (rounds < MaxRounds /\ rounds' = rounds + 1)
  BY DEF WorkerStep, Load, Attempt, NoticeStop, AskTrust, Connected, Announce, FileTrouble,
         Lose, TellLost, Round
<1>2. rounds' \in 0 .. MaxRounds
  BY <1>1, SessionAssumption DEF TabsTypeOK
<1>3. CASE Load(s)
  BY <1>2, <1>3 DEF Load
<1>4. CASE Attempt(s)
  BY <1>2, <1>4 DEF Attempt
<1>5. CASE NoticeStop(s)
  BY <1>2, <1>5 DEF NoticeStop
<1>6. CASE AskTrust(s)
  BY <1>2, <1>6 DEF AskTrust
<1>7. CASE Connected(s)
  BY <1>2, <1>7 DEF Connected
<1>8. CASE Announce(s)
  BY <1>2, <1>8 DEF Announce
<1>9. CASE FileTrouble(s)
  BY <1>2, <1>9 DEF FileTrouble
<1>10. CASE Lose(s)
  BY <1>2, <1>10 DEF Lose
<1>11. CASE TellLost(s)
  BY <1>2, <1>11 DEF TellLost
<1> QED
  BY <1>3, <1>4, <1>5, <1>6, <1>7, <1>8, <1>9, <1>10, <1>11 DEF WorkerStep

LEMMA WorkerKeepsTabs ==
  ASSUME TabsTypeOK, events \in Seq(Event), EverySession, NEW s \in Session, WorkerStep(s)
  PROVE  TabsTypeOK' /\ events' \in Seq(Event) /\ EverySession'
<1>1. /\ UNCHANGED <<stopped, polling, user>>
      /\ rounds' \in 0 .. MaxRounds
      /\ Silently(s) \/ Speaking(s)
  BY WorkersMove
<1>2. PICK p \in Phases :
        /\ phase' = [phase EXCEPT ![s] = p]
        /\ \/ QuietMove(s, phase[s], p, stopped) /\ UNCHANGED events
           \/ \E k \in EventKind :
                /\ EmitMove(s, k, phase[s], p, stopped)
                /\ events' = Append(events, [kind |-> k, session |-> s])
  BY <1>1 DEF Silently, Speaking, Quietly, Emit
<1>3. phase \in [Session -> Phases]
  BY DEF TabsTypeOK, Phases
<1>4. phase' \in [Session -> Phases] /\ phase'[s] = p
      /\ \A r \in Session : r # s => phase'[r] = phase[r]
  BY <1>2, <1>3
<1>5. TabsTypeOK'
  BY <1>1, <1>4 DEF TabsTypeOK, Phases, user
<1>6. UNCHANGED <<pending, tabs, writable, stopped>>
  BY <1>1 DEF user
<1>7. CASE QuietMove(s, phase[s], p, stopped) /\ UNCHANGED events
  <2>1. ASSUME NEW r \in Session PROVE Here(r)'
    <3>1. Here(r)
      BY DEF EverySession, Here
    <3>2. CASE r = s
      <4>1. SessionInv(events, s, phase[s], HomeOf(s, pending, tabs), writable[s], stopped)
        BY <3>1, <3>2 DEF Here
      <4>2. SessionInv(events, s, p, HomeOf(s, pending, tabs), writable[s], stopped)
        BY <4>1, <1>7, Quiet
      <4> QED
        BY <4>2, <3>2, <1>4, <1>6, <1>7 DEF Here
    <3>3. CASE r # s
      BY <3>1, <3>3, <1>4, <1>6, <1>7 DEF Here
    <3> QED
      BY <3>2, <3>3
  <2> QED
    BY <2>1, <1>5, <1>7, <1>6 DEF EverySession, Here
<1>8. ASSUME NEW k \in EventKind,
             EmitMove(s, k, phase[s], p, stopped),
             events' = Append(events, [kind |-> k, session |-> s])
      PROVE  EverySession' /\ events' \in Seq(Event)
  <2>0. PICK e : e = [kind |-> k, session |-> s]
    OBVIOUS
  <2>1. e \in Event /\ e.kind = k /\ e.session = s /\ events' = Append(events, e)
    BY <2>0, <1>8 DEF Event, EventKind
  <2>2. events' \in Seq(Event)
    BY <2>1
  <2>3. ASSUME NEW r \in Session PROVE Here(r)'
    <3>1. Here(r)
      BY DEF EverySession, Here
    <3>2. CASE r = s
      <4>1. SessionInv(events, s, phase[s], HomeOf(s, pending, tabs), writable[s], stopped)
        BY <3>1, <3>2 DEF Here
      <4>2. Appended(events, Append(events, e), s, e.kind, Len(events) + 1)
        BY <2>1, AppendOwn
      <4>3. Appended(events, events', s, k, Len(events) + 1)
        BY <4>2, <2>1
      <4>4. SessionInv(events', s, p, HomeOf(s, pending, tabs), writable[s], stopped)
        BY <4>1, <4>3, <1>8, Told
      <4> QED
        BY <4>4, <3>2, <1>4, <1>6 DEF Here
    <3>3. CASE r # s
      <4>1. SameEvents(events, Append(events, e), r)
        BY <2>1, <3>3, AppendOther
      <4>2. SameEvents(events, events', r)
        BY <4>1, <2>1
      <4>3. SessionInv(events, r, phase[r], HomeOf(r, pending, tabs), writable[r], stopped)
        BY <3>1 DEF Here
      <4>4. SessionInv(events', r, phase[r], HomeOf(r, pending, tabs), writable[r], stopped)
        BY <4>2, <4>3, Elsewhere
      <4> QED
        BY <4>4, <3>3, <1>4, <1>6 DEF Here
    <3> QED
      BY <3>2, <3>3
  <2> QED
    BY <2>2, <2>3 DEF EverySession, Here
<1> QED
  BY <1>2, <1>5, <1>7, <1>8

\* The event in front is taken; everything it does is to its own session.
LEMMA EventKeeps ==
  ASSUME TabsTypeOK, events \in Seq(Event), EverySession, HandleEvent
  PROVE  TabsTypeOK' /\ events' \in Seq(Event) /\ EverySession'
<1>1. /\ events # << >> /\ events' = Tail(events)
      /\ UNCHANGED <<rounds, stopped, polling, closed>>
  BY DEF HandleEvent, HandleHistory, HandleHandshakeDone, HandleLost, HandleError,
         HandleTrustPrompt, Taken
<1>2. PICK e, s, h : e = Head(events) /\ s = e.session /\ h = e.kind
  OBVIOUS
<1>3. e \in Event /\ s \in Session /\ h # "none"
  <2>1. e \in Event
    BY <1>1, <1>2
  <2> QED
    BY <2>1, <1>2 DEF Event, EventKind
<1>4. events' \in Seq(Event)
  BY <1>1
<1>5. /\ phase \in [Session -> Phases] /\ writable \in [Session -> BOOLEAN]
      /\ tabs \subseteq Session /\ pending \in (Session \ tabs) \cup {NoSession}
      /\ NoSession \notin Session
  BY SessionAssumption DEF TabsTypeOK, Phases
<1>6. PICK ph, home, w : ph = phase[s] /\ home = HomeOf(s, pending, tabs) /\ w = writable[s]
  OBVIOUS
<1>7. PICK ph2, home2, w2 : ph2 = phase'[s] /\ home2 = HomeOf(s, pending', tabs') /\ w2 = writable'[s]
  OBVIOUS
<1>8. /\ PopMove(h, ph, ph2, home, home2, w, w2)
      /\ phase' \in [Session -> Phases] /\ writable' \in [Session -> BOOLEAN]
      /\ tabs' \subseteq Session /\ pending' \in (Session \ tabs') \cup {NoSession}
      /\ \A r \in Session \ {s} :
           /\ phase'[r] = phase[r] /\ writable'[r] = writable[r]
           /\ HomeOf(r, pending', tabs') = HomeOf(r, pending, tabs)
  <2>1. CASE HandleHistory
    <3>1. h = "history_loaded" /\ EnsureSessionTab(s) /\ UNCHANGED <<phase, writable>>
      BY <2>1, <1>2 DEF HandleHistory, Taken
    <3> QED
      BY <3>1, <1>3, <1>5, <1>6, <1>7 DEF EnsureSessionTab, HomeOf, PopMove
  <2>2. CASE HandleHandshakeDone
    <3>1. /\ h = "handshake_done" /\ EnsureSessionTab(s) /\ UNCHANGED phase
          /\ writable' = IF s \in tabs' THEN [writable EXCEPT ![s] = TRUE] ELSE writable
      BY <2>2, <1>2 DEF HandleHandshakeDone, Taken
    <3>2. /\ tabs' \subseteq Session /\ pending' \in (Session \ tabs') \cup {NoSession}
          /\ home2 = (IF home = "slot" THEN "tab" ELSE home)
          /\ home2 = "tab" <=> s \in tabs'
          /\ \A r \in Session \ {s} : HomeOf(r, pending', tabs') = HomeOf(r, pending, tabs)
      BY <3>1, <1>3, <1>5, <1>6, <1>7 DEF EnsureSessionTab, HomeOf
    <3>3. /\ writable' \in [Session -> BOOLEAN]
          /\ \A r \in Session \ {s} : writable'[r] = writable[r]
          /\ w2 = (IF home2 = "tab" THEN TRUE ELSE w)
      BY <3>1, <3>2, <1>3, <1>5, <1>6, <1>7
    <3> QED
      BY <3>1, <3>2, <3>3, <1>5, <1>6, <1>7 DEF PopMove
  <2>3. CASE HandleLost
    <3>1. /\ h = "connection_lost" /\ UNCHANGED <<phase, pending, tabs>>
          /\ writable' = IF s \in tabs THEN [writable EXCEPT ![s] = FALSE] ELSE writable
      BY <2>3, <1>2 DEF HandleLost, Taken
    <3>2. home = "tab" <=> s \in tabs
      BY <1>3, <1>5, <1>6 DEF HomeOf
    <3>3. /\ writable' \in [Session -> BOOLEAN]
          /\ \A r \in Session \ {s} : writable'[r] = writable[r]
          /\ w2 = (IF home = "tab" THEN FALSE ELSE w)
      BY <3>1, <3>2, <1>3, <1>5, <1>6, <1>7
    <3> QED
      BY <3>1, <3>3, <1>5, <1>6, <1>7 DEF PopMove
  <2>4. CASE HandleError
    <3>1. /\ h = "error" /\ UNCHANGED <<phase, tabs, writable>>
          /\ pending' = IF s = pending /\ s \notin tabs THEN NoSession ELSE pending
      BY <2>4, <1>2 DEF HandleError, Taken
    <3> QED
      BY <3>1, <1>3, <1>5, <1>6, <1>7 DEF HomeOf, PopMove
  <2>5. CASE HandleTrustPrompt
    <3>1. PICK a \in {"trying", "declined"} :
            /\ h = "trust_prompt" /\ UNCHANGED <<pending, tabs, writable>>
            /\ phase' = [phase EXCEPT ![s] = a]
      BY <2>5, <1>2 DEF HandleTrustPrompt, Taken
    <3>2. /\ phase' \in [Session -> Phases] /\ ph2 = a
          /\ \A r \in Session \ {s} : phase'[r] = phase[r]
      BY <3>1, <1>3, <1>5, <1>7 DEF Phases
    <3> QED
      BY <3>1, <3>2, <1>5, <1>6, <1>7 DEF PopMove
  <2> QED
    BY <2>1, <2>2, <2>3, <2>4, <2>5 DEF HandleEvent
<1>9. TabsTypeOK'
  BY <1>1, <1>8 DEF TabsTypeOK, Phases
<1>10. ASSUME NEW r \in Session PROVE Here(r)'
  <2>1. SessionInv(events, r, phase[r], HomeOf(r, pending, tabs), writable[r], stopped)
    BY DEF EverySession
  <2>2. CASE r = s
    <3>1. SessionInv(events, s, ph, home, w, stopped)
      BY <2>1, <2>2, <1>6
    <3>2. h = IF Head(events).session = s THEN Head(events).kind ELSE "none"
      BY <1>2
    <3>3. Popped(events, Tail(events), s, h)
      BY <3>2, <1>1, PopEvent
    <3>4. home \in {"slot", "tab", "none"}
      BY <1>6, HomeKinds
    <3>5. SessionInv(Tail(events), s, ph2, home2, w2, stopped)
      BY <3>1, <3>3, <3>4, <1>3, <1>8, Heard
    <3> QED
      BY <3>5, <2>2, <1>1, <1>7 DEF Here
  <2>3. CASE r # s
    <3>1. "none" = IF Head(events).session = r THEN Head(events).kind ELSE "none"
      BY <1>2, <2>3
    <3>2. Popped(events, Tail(events), r, "none")
      BY <3>1, <1>1, PopEvent
    <3>3. SessionInv(Tail(events), r, phase[r], HomeOf(r, pending, tabs), writable[r], stopped)
      BY <2>1, <3>2, Elsewhere
    <3> QED
      BY <3>3, <2>3, <1>1, <1>8 DEF Here
  <2> QED
    BY <2>2, <2>3
<1> QED
  BY <1>4, <1>9, <1>10 DEF EverySession, Here

\* The user connects, and closes a tab.
LEMMA StartKeeps ==
  ASSUME TabsTypeOK, events \in Seq(Event), EverySession, NEW s \in Session, StartWorker(s)
  PROVE  TabsTypeOK' /\ events' \in Seq(Event) /\ EverySession'
<1>1. /\ pending = NoSession /\ pending' = s /\ phase[s] = "new"
      /\ phase' = [phase EXCEPT ![s] = "loading"]
      /\ UNCHANGED <<rounds, stopped, events, polling, tabs, writable, closed>>
  BY DEF StartWorker
<1>2. phase \in [Session -> Phases] /\ NoSession \notin Session
  BY SessionAssumption DEF TabsTypeOK, Phases
<1>3. /\ phase' \in [Session -> Phases] /\ phase'[s] = "loading"
      /\ \A r \in Session : r # s => phase'[r] = phase[r]
  BY <1>1, <1>2 DEF Phases
<1>4. SessionInv(events, s, "new", HomeOf(s, pending, tabs), writable[s], stopped)
  BY <1>1 DEF EverySession
<1>5. HomeOf(s, pending, tabs) = "none"
  BY <1>4 DEF SessionInv, NotStarted
<1>6. s \notin tabs
  BY <1>5, <1>1, <1>2 DEF HomeOf
<1>7. TabsTypeOK'
  BY <1>1, <1>3, <1>6 DEF TabsTypeOK, Phases
<1>8. ASSUME NEW r \in Session PROVE Here(r)'
  <2>1. SessionInv(events, r, phase[r], HomeOf(r, pending, tabs), writable[r], stopped)
    BY DEF EverySession
  <2>2. CASE r = s
    <3>1. SessionInv(events, s, "loading", "slot", writable[s], stopped)
      BY <1>4, <1>5, Started
    <3>2. HomeOf(s, pending', tabs') = "slot"
      BY <1>1 DEF HomeOf
    <3> QED
      BY <3>1, <3>2, <2>2, <1>1, <1>3 DEF Here
  <2>3. CASE r # s
    <3>1. HomeOf(r, pending', tabs') = HomeOf(r, pending, tabs)
      BY <2>3, <1>1, <1>2 DEF HomeOf
    <3> QED
      BY <3>1, <2>1, <2>3, <1>1, <1>3 DEF Here
  <2> QED
    BY <2>2, <2>3
<1> QED
  BY <1>1, <1>7, <1>8 DEF EverySession, Here

LEMMA DisconnectKeeps ==
  ASSUME TabsTypeOK, events \in Seq(Event), EverySession, NEW s \in Session, DisconnectSession(s)
  PROVE  TabsTypeOK' /\ events' \in Seq(Event) /\ EverySession'
<1>1. /\ s \in tabs /\ tabs' = tabs \ {s} /\ stopped' = stopped \cup {s}
      /\ UNCHANGED <<phase, rounds, events, polling, pending, writable, closed>>
  BY DEF DisconnectSession
<1>2. s # pending
  BY <1>1, SessionAssumption DEF TabsTypeOK
<1>3. TabsTypeOK'
  BY <1>1 DEF TabsTypeOK
<1>4. ASSUME NEW r \in Session PROVE Here(r)'
  <2>1. SessionInv(events, r, phase[r], HomeOf(r, pending, tabs), writable[r], stopped)
    BY DEF EverySession
  <2>2. CASE r = s
    <3>1. HomeOf(s, pending, tabs) = "tab" /\ HomeOf(s, pending', tabs') = "none"
      BY <1>1, <1>2 DEF HomeOf
    <3>2. SessionInv(events, s, phase[s], "tab", writable[s], stopped)
      BY <2>1, <2>2, <3>1
    <3>3. SessionInv(events, s, phase[s], "none", writable[s], stopped \cup {s})
      BY <3>2, TabClosed
    <3> QED
      BY <3>1, <3>3, <2>2, <1>1 DEF Here
  <2>3. CASE r # s
    <3>1. HomeOf(r, pending', tabs') = HomeOf(r, pending, tabs)
      BY <2>3, <1>1 DEF HomeOf
    <3>2. SameEvents(events, events, r) /\ (r \in stopped' <=> r \in stopped)
      BY <2>3, <1>1 DEF SameEvents
    <3>3. SessionInv(events, r, phase[r], HomeOf(r, pending, tabs), writable[r], stopped')
      BY <2>1, <3>2, Elsewhere
    <3> QED
      BY <3>1, <3>3, <1>1 DEF Here
  <2> QED
    BY <2>2, <2>3
<1> QED
  BY <1>1, <1>3, <1>4 DEF EverySession, Here

\* A destroyed window has no more steps.
LEMMA CloseKeeps ==
  ASSUME TabsInv, OnClose
  PROVE  TabsInv'
<1>1. /\ closed' = TRUE
      /\ stopped' = stopped \cup tabs \cup ({pending} \ {NoSession})
      /\ UNCHANGED <<phase, rounds, events, polling, pending, tabs, writable>>
  BY DEF OnClose
<1>2. TabsTypeOK'
  BY <1>1 DEF TabsInv, TabsTypeOK
<1>3. OneHome'
  BY <1>1 DEF TabsInv, OneHome
<1>4. InputFollowsSession'
  BY <1>1 DEF TabsInv, InputFollowsSession, Queued
<1> QED
  BY <1>1, <1>2, <1>3, <1>4 DEF TabsInv

-----------------------------------------------------------------------------
LEMMA TabsInitHolds == TabsInit => TabsInv
<1> SUFFICES ASSUME TabsInit PROVE TabsInv
  OBVIOUS
<1>1. TabsTypeOK
  <2>1. phase \in [Session -> {"new", "loading", "trying", "asking", "declined",
                              "greeted", "up", "lost", "deaf", "ended", "crashed"}]
    BY DEF TabsInit
  <2>2. rounds \in 0 .. MaxRounds
    BY SessionAssumption DEF TabsInit
  <2>3. writable \in [Session -> BOOLEAN]
    BY DEF TabsInit
  <2> QED
    BY <2>1, <2>2, <2>3 DEF TabsInit, TabsTypeOK
<1>2. events = << >> /\ events \in Seq(Event)
  BY DEF TabsInit
<1>3. \A i, s, k : ~EventAt(events, i, s, k)
  BY <1>2 DEF EventAt
<1>4. ASSUME NEW s \in Session
      PROVE  SessionInv(events, s, phase[s], HomeOf(s, pending, tabs), writable[s], stopped)
  <2>1. phase[s] = "new" /\ writable[s] = TRUE /\ s \notin stopped
    BY DEF TabsInit
  <2>2. HomeOf(s, pending, tabs) = "none"
    BY SessionAssumption DEF TabsInit, HomeOf
  <2> QED
    BY <2>1, <2>2, <1>3 DEF SessionInv, NotStarted, HasHome, AskedOnce, LeavesSlot, GetsTab,
                           Unheard, Over
<1>5. EverySession
  BY <1>4 DEF EverySession
<1> QED
  BY <1>1, <1>2, <1>5, SessionsMakeIt DEF TabsInv

LEMMA TabsStep == TabsInv /\ [TabsNext]_tabsVars => TabsInv'
<1> SUFFICES ASSUME TabsInv, [TabsNext]_tabsVars PROVE TabsInv'
  OBVIOUS
<1>1. CASE UNCHANGED tabsVars
  <2>1. /\ UNCHANGED <<phase, rounds, stopped, events, polling>>
        /\ UNCHANGED <<pending, tabs, writable, closed>>
    BY <1>1 DEF tabsVars, user
  <2>2. TabsTypeOK'
    BY <2>1 DEF TabsInv, TabsTypeOK
  <2>3. (~closed => EverySession)'
    BY <2>1 DEF TabsInv, EverySession
  <2>4. OneHome'
    BY <2>1 DEF TabsInv, OneHome
  <2>5. InputFollowsSession'
    BY <2>1 DEF TabsInv, InputFollowsSession, Queued
  <2> QED
    BY <2>1, <2>2, <2>3, <2>4, <2>5 DEF TabsInv
<1>2. CASE TabsNext
  <2>1. ~closed /\ TabsTypeOK /\ events \in Seq(Event) /\ EverySession
    BY <1>2 DEF TabsNext, TabsInv
  <2>2. CASE OnClose
    BY <2>2, CloseKeeps
  <2>3. ASSUME NEW s \in Session, WorkerStep(s)
        PROVE  TabsTypeOK' /\ events' \in Seq(Event) /\ EverySession'
    BY <2>1, <2>3, WorkerKeepsTabs
  <2>4. ASSUME NEW s \in Session, StartWorker(s)
        PROVE  TabsTypeOK' /\ events' \in Seq(Event) /\ EverySession'
    BY <2>1, <2>4, StartKeeps
  <2>5. ASSUME NEW s \in Session, DisconnectSession(s)
        PROVE  TabsTypeOK' /\ events' \in Seq(Event) /\ EverySession'
    BY <2>1, <2>5, DisconnectKeeps
  <2>6. ASSUME HandleEvent
        PROVE  TabsTypeOK' /\ events' \in Seq(Event) /\ EverySession'
    BY <2>1, <2>6, EventKeeps
  <2>7. ASSUME Poll \/ PollEnd
        PROVE  TabsTypeOK' /\ events' \in Seq(Event) /\ EverySession'
    BY <2>1, <2>7 DEF Poll, PollEnd, user, TabsTypeOK, EverySession
  <2>8. TabsTypeOK' /\ EverySession' => OneHome' /\ InputFollowsSession'
    BY SessionsMakeIt, PTL
  <2>9. CASE ~OnClose
    <3>1. TabsTypeOK' /\ events' \in Seq(Event) /\ EverySession'
      BY <1>2, <2>9, <2>3, <2>4, <2>5, <2>6, <2>7 DEF TabsNext
    <3> QED
      BY <3>1, <2>8 DEF TabsInv
  <2> QED
    BY <2>2, <2>9
<1> QED
  BY <1>1, <1>2

(* What the window knows of its sessions, through any number of sessions,  *)
(* reconnects and closed tabs, with the queue any number of events behind  *)
(* the workers.                                                            *)
THEOREM TabsInvariance == TabsSpec => []TabsInv
<1> QED
  BY TabsInitHolds, TabsStep, PTL DEF TabsSpec

(* _ensure_session_tab and _disconnect_session: a running worker is in the *)
(* slot or has a tab until it is stopped, and a session that was           *)
(* disconnected does not come back by an event still under way.            *)
THEOREM SessionsHaveOneHome == TabsSpec => []OneHome
<1>1. TabsInv => OneHome
  BY DEF TabsInv
<1> QED
  BY <1>1, TabsInvariance, PTL

(* _handle_event: when the news has been handled, the chat input of a tab  *)
(* is enabled if its session is up and only if it has a channel.           *)
THEOREM InputIsRight == TabsSpec => []InputFollowsSession
<1>1. TabsInv => InputFollowsSession
  BY DEF TabsInv
<1> QED
  BY <1>1, TabsInvariance, PTL

-----------------------------------------------------------------------------
(* What the frames of a file are padded to.                                *)

LEMMA BigEndianInverse ==
  ASSUME NEW n \in Nat, n \div (256 * 256 * 256) < 256
  PROVE  /\ BigEndian(n) \in Seq(Byte)
         /\ Len(BigEndian(n)) = 4
         /\ FromBigEndian(BigEndian(n)) = n
<1>1. /\ n \div (256 * 256 * 256) \in Byte
      /\ (n \div (256 * 256)) % 256 \in Byte
      /\ (n \div 256) % 256 \in Byte
      /\ n % 256 \in Byte
  BY SMT DEF Byte
<1>2. (n \div (256 * 256 * 256)) * (256 * 256 * 256) + ((n \div (256 * 256)) % 256) * (256 * 256)
        + ((n \div 256) % 256) * 256 + (n % 256) = n
  BY SMT
<1> QED
  BY <1>1, <1>2, SMT DEF BigEndian, FromBigEndian

LEMMA BucketFits ==
  ASSUME NEW n \in Nat
  PROVE  /\ BucketFor(n) \in Nat
         /\ n <= BucketFor(n)
         /\ BucketFor(n) \in Buckets \/ BucketFor(n) % LargestBucket = 0
         /\ BucketFor(n) <= n + LargestBucket
<1>1. CASE \E b \in Buckets : n <= b
  <2>1. PICK b \in Buckets : n <= b /\ \A c \in Buckets : n <= c => b <= c
    BY <1>1, SMT DEF Buckets
  <2>2. /\ BucketFor(n) \in Buckets
        /\ n <= BucketFor(n)
    BY <1>1, <2>1, SMT DEF BucketFor
  <2> QED
    BY <2>2, SMT DEF Buckets, LargestBucket
<1>2. CASE ~\E b \in Buckets : n <= b
  <2>1. BucketFor(n) = ((n + 8191) \div 8192) * 8192
    BY <1>2, SMT DEF BucketFor, LargestBucket
  <2> QED
    BY <2>1, SMT DEF LargestBucket
<1> QED
  BY <1>1, <1>2

-----------------------------------------------------------------------------
(* ConcatProperties for bytes, with the elements of each part apart.       *)
LEMMA ConcatBytes ==
  ASSUME NEW s \in Seq(Byte), NEW t \in Seq(Byte)
  PROVE  /\ s \o t \in Seq(Byte)
         /\ Len(s \o t) = Len(s) + Len(t)
         /\ \A i \in 1 .. Len(s) : (s \o t)[i] = s[i]
         /\ \A i \in 1 .. Len(t) : (s \o t)[Len(s) + i] = t[i]
<1>1. s \o t \in Seq(Byte) /\ Len(s \o t) = Len(s) + Len(t)
  BY ConcatProperties, Zenon
<1>2. \A i \in 1 .. Len(s) + Len(t) :
        (s \o t)[i] = IF i <= Len(s) THEN s[i] ELSE t[i - Len(s)]
  BY ConcatProperties, Zenon
<1>3. Len(s) \in Nat /\ Len(t) \in Nat
  BY LenProperties
<1>4. ASSUME NEW i \in 1 .. Len(s) PROVE (s \o t)[i] = s[i]
  <2>1. i \in 1 .. Len(s) + Len(t) /\ i <= Len(s)
    BY <1>3
  <2> QED
    BY <1>2, <2>1, Zenon
<1>5. ASSUME NEW i \in 1 .. Len(t) PROVE (s \o t)[Len(s) + i] = t[i]
  <2> DEFINE j == Len(s) + i
  <2>1. j \in 1 .. Len(s) + Len(t) /\ ~(j <= Len(s)) /\ j - Len(s) = i
    BY <1>3
  <2> HIDE DEF j
  <2>2. (s \o t)[j] = t[i]
    BY <1>2, <2>1, Zenon
  <2> QED
    BY <2>2 DEF j
<1> QED
  BY <1>1, <1>4, <1>5

LEMMA FramedProperties ==
  ASSUME NEW m \in Seq(Byte), PadAccepts(m)
  PROVE  /\ Framed(m) \in Seq(Byte)
         /\ Len(Framed(m)) = 4 + Len(m)
         /\ \A i \in 1 .. 4 : Framed(m)[i] = BigEndian(Len(m))[i]
         /\ \A i \in 1 .. Len(m) : Framed(m)[4 + i] = m[i]
<1> DEFINE prefix == BigEndian(Len(m))
<1>1. /\ prefix \in Seq(Byte)
      /\ Len(prefix) = 4
      /\ Len(m) \in Nat
  BY BigEndianInverse, LenProperties DEF PadAccepts
<1> HIDE DEF prefix
<1>2. /\ prefix \o m \in Seq(Byte)
      /\ Len(prefix \o m) = Len(prefix) + Len(m)
      /\ \A i \in 1 .. Len(prefix) : (prefix \o m)[i] = prefix[i]
      /\ \A i \in 1 .. Len(m) : (prefix \o m)[Len(prefix) + i] = m[i]
  BY <1>1, ConcatBytes
<1>3. /\ prefix \o m \in Seq(Byte)
      /\ Len(prefix \o m) = 4 + Len(m)
      /\ \A i \in 1 .. 4 : (prefix \o m)[i] = prefix[i]
      /\ \A i \in 1 .. Len(m) : (prefix \o m)[4 + i] = m[i]
  BY <1>1, <1>2
<1> QED
  BY <1>3 DEF Framed, prefix

(* pad() keeps the framed message as it is and fills it up to its bucket.  *)
THEOREM PadProperties ==
  ASSUME NEW m \in Seq(Byte), PadAccepts(m)
  PROVE  /\ Pad(m) \in Seq(Byte)
         /\ Len(Pad(m)) = BucketFor(4 + Len(m))
         /\ 4 + Len(m) <= Len(Pad(m))
         /\ \A i \in 1 .. 4 + Len(m) : Pad(m)[i] = Framed(m)[i]
<1> DEFINE framed == Framed(m)
           size   == BucketFor(4 + Len(m))
           zeros  == [i \in 1 .. (size - (4 + Len(m))) |-> 0]
<1>1. /\ framed \in Seq(Byte)
      /\ Len(framed) = 4 + Len(m)
      /\ Len(m) \in Nat
  BY FramedProperties, LenProperties
<1>2. size \in Nat /\ 4 + Len(m) <= size
  BY <1>1, BucketFits
<1>3. Pad(m) = framed \o zeros
  BY <1>1 DEF Pad
<1> HIDE DEF framed, size
<1>4. zeros \in Seq(Byte) /\ Len(zeros) = size - (4 + Len(m))
  <2>1. size - (4 + Len(m)) \in Nat
    BY <1>1, <1>2
  <2>2. zeros \in [1 .. (size - (4 + Len(m))) -> Byte]
    BY SMT DEF Byte
  <2> QED
    BY <2>1, <2>2, SeqDef
<1> HIDE DEF zeros
<1>5. /\ framed \o zeros \in Seq(Byte)
      /\ Len(framed \o zeros) = Len(framed) + Len(zeros)
      /\ \A i \in 1 .. Len(framed) : (framed \o zeros)[i] = framed[i]
  BY <1>1, <1>4, ConcatBytes
<1>6. \A i \in 1 .. 4 + Len(m) : Pad(m)[i] = framed[i]
  BY <1>1, <1>3, <1>5
<1>7. Pad(m) \in Seq(Byte) /\ Len(Pad(m)) = size
  BY <1>1, <1>2, <1>3, <1>4, <1>5
<1> QED
  BY <1>2, <1>6, <1>7 DEF framed, size

(* unpad() returns what was given to pad(), whatever its length: at the    *)
(* edge of a bucket, empty, or longer than the largest bucket.             *)
THEOREM RoundTrip ==
  ASSUME NEW m \in Seq(Byte), PadAccepts(m)
  PROVE  UnpadAccepts(Pad(m)) /\ Unpad(Pad(m)) = m
<1> DEFINE padded == Pad(m)
<1>1. /\ padded \in Seq(Byte)
      /\ 4 + Len(m) <= Len(padded)
      /\ \A i \in 1 .. 4 + Len(m) : padded[i] = Framed(m)[i]
      /\ Len(m) \in Nat
      /\ Len(padded) \in Nat
  BY PadProperties, LenProperties
<1>2. /\ \A i \in 1 .. 4 : Framed(m)[i] = BigEndian(Len(m))[i]
      /\ \A i \in 1 .. Len(m) : Framed(m)[4 + i] = m[i]
  BY FramedProperties
<1> HIDE DEF padded
<1>3. FromBigEndian(padded) = Len(m)
  <2> DEFINE prefix == BigEndian(Len(m))
  <2>1. FromBigEndian(prefix) = Len(m)
    BY <1>1, BigEndianInverse DEF PadAccepts
  <2>2. \A i \in 1 .. 4 : padded[i] = prefix[i]
    BY <1>1, <1>2
  <2> HIDE DEF prefix
  <2>3. /\ padded[1] = prefix[1]
        /\ padded[2] = prefix[2]
        /\ padded[3] = prefix[3]
        /\ padded[4] = prefix[4]
    BY <2>2
  <2>4. FromBigEndian(padded) = FromBigEndian(prefix)
    BY <2>3, SMT DEF FromBigEndian
  <2> QED
    BY <2>1, <2>4
<1>4. SubSeq(padded, 5, 4 + Len(m)) = m
  <2>1. /\ SubSeq(padded, 5, 4 + Len(m)) \in Seq(Byte)
        /\ Len(SubSeq(padded, 5, 4 + Len(m))) = Len(m)
        /\ \A i \in 1 .. Len(m) : SubSeq(padded, 5, 4 + Len(m))[i] = padded[4 + i]
    <3>1. SubSeq(padded, 5, 4 + Len(m)) = [i \in 1 .. Len(m) |-> padded[4 + i]]
      BY <1>1, SMT
    <3>2. \A i \in 1 .. Len(m) : padded[4 + i] \in Byte
      BY <1>1, ElementOfSeq
    <3> QED
      BY <1>1, <3>1, <3>2, SeqDef
  <2>2. \A i \in 1 .. Len(m) : padded[4 + i] = m[i]
    BY <1>1, <1>2
  <2> QED
    BY <2>1, <2>2, SeqEqual
<1> QED
  BY <1>1, <1>3, <1>4 DEF UnpadAccepts, Unpad, padded, LengthPrefixSize

(* What can be seen of a message is its bucket: a multiple of the largest  *)
(* one if it does not fit into any, and never more than that one larger    *)
(* than the message needs.                                                 *)
THEOREM SizeIsABucket ==
  ASSUME NEW m \in Seq(Byte), PadAccepts(m)
  PROVE  /\ Len(Pad(m)) \in Buckets \/ Len(Pad(m)) % LargestBucket = 0
         /\ Len(Pad(m)) <= 4 + Len(m) + LargestBucket
<1>1. 4 + Len(m) \in Nat
  BY LenProperties
<1> QED
  BY <1>1, PadProperties, BucketFits

(* A chunk of a file passes send_bytes, with or without an announcement:   *)
(* _send_file never runs into the FrameError that it does not handle.      *)
THEOREM ChunksFit ==
  ASSUME NEW type \in Byte, NEW id \in Seq(Byte), Len(id) = 16,
         NEW data \in Seq(Byte), Len(data) <= FileChunkSize,
         NEW rekeys \in BOOLEAN
  PROVE  SendAccepts(ChunkMessage(type, id, data), rekeys)
<1> DEFINE m == ChunkMessage(type, id, data)
<1>1. m \in Seq(Byte) /\ Len(m) = 17 + Len(data)
  <2>1. <<type>> \in Seq(Byte) /\ Len(<<type>>) = 1
    OBVIOUS
  <2>2. <<type>> \o id \in Seq(Byte) /\ Len(<<type>> \o id) = 17
    <3> DEFINE head == <<type>>
    <3>1. head \in Seq(Byte) /\ Len(head) = 1
      BY <2>1
    <3> HIDE DEF head
    <3>2. head \o id \in Seq(Byte) /\ Len(head \o id) = Len(head) + Len(id)
      BY <3>1, ConcatBytes
    <3> QED
      BY <3>1, <3>2 DEF head
  <2>3. (<<type>> \o id) \o data \in Seq(Byte)
        /\ Len((<<type>> \o id) \o data) = Len(<<type>> \o id) + Len(data)
    BY <2>2, ConcatBytes
  <2> QED
    BY <2>2, <2>3 DEF ChunkMessage
<1>2. Len(data) \in Nat
  BY LenProperties
<1> HIDE DEF m
<1>3. PadAccepts(m)
  BY <1>1, <1>2, SMT DEF PadAccepts, FileChunkSize
<1>4. Len(Pad(m)) <= 4 + Len(m) + LargestBucket /\ Len(Pad(m)) \in Nat
  BY <1>1, <1>3, SizeIsABucket, PadProperties, LenProperties
<1>5. FrameSize(m, rekeys) <= MaxFrameSize
  BY <1>1, <1>2, <1>4, SMT
     DEF FrameSize, MaxFrameSize, FileChunkSize, LargestBucket
<1> QED
  BY <1>5 DEF SendAccepts, m
=============================================================================
