------------------------- MODULE UserFilesTheorems -------------------------
(***************************************************************************)
(* What was saved stays saved, for any number of workers, peers, messages  *)
(* and crashes, as long as a user runs one worker at a time.               *)
(***************************************************************************)
EXTENDS UserFiles, TLAPS

-----------------------------------------------------------------------------
(* What a worker has in memory and in its files.                           *)

\* Threads do something in workers that are up, and unless two of them are up
\* at once there is one.
Alone ==
  /\ ~overlapped => \A v, w \in up : v = w
  /\ \A w \in Worker \ up : \A th \in Thread : thread[w][th] = Idle

\* An entry that is not yet in the worker's history.
Pending == {"call", "lock"}

\* A worker's history: its entries are those numbered so far, the file has a
\* part of it, an append has put its entry there once it has the lock, and
\* only one append has the lock.
HistoryOf(w) ==
  /\ IsPrefix(file.entries, history[w])
  /\ IsInjective(history[w])
  /\ \A e \in ToSet(history[w]) : e <= entries
  /\ \A th \in Thread :
       /\ Pc(w, th) \in Pending =>
            thread[w][th].entry <= entries /\ thread[w][th].entry \notin ToSet(history[w])
       /\ Pc(w, th) \in Saving => thread[w][th].entry \in ToSet(history[w])
       /\ Pc(w, th) = "replace" => tmp = [whole |-> TRUE, entries |-> history[w]]
  /\ \A th, ot \in Thread :
       th # ot =>
         /\ ~(Pc(w, th) \in Saving /\ Pc(w, ot) \in Saving)
         /\ Pc(w, th) \in Pending /\ Pc(w, ot) \in Pending =>
              thread[w][th].entry # thread[w][ot].entry

HistoryInv ==
  ~overlapped =>
    /\ file.whole
    /\ saved \subseteq ToSet(file.entries)
    /\ IsInjective(file.entries)
    /\ \A e \in ToSet(file.entries) : e <= entries
    /\ \A w \in up : HistoryOf(w)

ThreadStates == [Worker -> [Thread -> [pc : Place, entry : Nat]]]

\* The steps of a thread leave the other threads where they are.
LEMMA GoToThread ==
  ASSUME thread \in ThreadStates,
         NEW w \in Worker, NEW th \in Thread, NEW pc \in Place, GoTo(w, th, pc)
  PROVE  /\ thread' \in ThreadStates
         /\ thread'[w][th].pc = pc
         /\ thread'[w][th].entry = thread[w][th].entry
         /\ \A v \in Worker, t \in Thread :
              v # w \/ t # th => thread'[v][t] = thread[v][t]
BY DEF GoTo, ThreadStates

LEMMA EndsThread ==
  ASSUME thread \in ThreadStates,
         NEW w \in Worker, NEW th \in Thread, Ends(w, th)
  PROVE  /\ thread' \in ThreadStates
         /\ thread'[w][th] = Idle
         /\ \A v \in Worker, t \in Thread :
              v # w \/ t # th => thread'[v][t] = thread[v][t]
BY DEF Ends, ThreadStates, Idle, Place

LEMMA ForgetsThread ==
  ASSUME thread \in ThreadStates, NEW ws \in SUBSET Worker, Forgets(ws)
  PROVE  /\ thread' \in ThreadStates
         /\ \A v \in Worker, t \in Thread :
              thread'[v][t] = IF v \in ws THEN Idle ELSE thread[v][t]
BY DEF Forgets, ThreadStates, Idle, Place

-----------------------------------------------------------------------------
(* Types.                                                                  *)

LEMMA TypeCorrectInit == Init => TypeOK
BY DEF Init, TypeOK, Idle, Place, Torn

\* One step preserves the types.
LEMMA TypeCorrectStep ==
  ASSUME TypeOK, [Next]_vars
  PROVE  TypeOK'
<1> USE DEF historyVars, trustVars, ghosts
<1>0. thread \in ThreadStates
  BY DEF TypeOK, ThreadStates
<1>1. ASSUME NEW w \in Worker, Load(w) PROVE TypeOK'
  BY <1>1 DEF Load, TypeOK
<1>2. ASSUME NEW ws \in SUBSET Worker, Forgets(ws), UNCHANGED entries
      PROVE  TypeOK'
  <2>1. thread' \in ThreadStates
    BY <1>0, <1>2, ForgetsThread
  <2>2. history' \in [Worker -> Seq(Nat)] /\ trust' \in [Worker -> SUBSET Peer]
    BY <1>2 DEF Forgets, TypeOK
  <2> QED
    BY <1>2, <2>1, <2>2 DEF Forgets, TypeOK, ThreadStates
<1>3. ASSUME NEW w \in Worker, Stop(w) PROVE TypeOK'
  <2>1. Forgets({w}) /\ entries' = entries
    BY <1>3 DEF Stop, Forgets
  <2> QED
    BY <1>2, <2>1
<1>4. CASE Crash
  <2>1. Forgets(up) /\ entries' = entries
    BY <1>4 DEF Crash, Forgets
  <2> QED
    BY <1>2, <2>1 DEF TypeOK
<1>5. ASSUME NEW w \in Worker, NEW th \in Thread, Message(w, th) PROVE TypeOK'
  <2>1. thread' \in ThreadStates /\ entries' \in Nat
    BY <1>0, <1>5 DEF Message, TypeOK, ThreadStates, Place
  <2> QED
    BY <1>5, <2>1 DEF Message, TypeOK, ThreadStates
<1>6. ASSUME NEW w \in Worker, NEW th \in Thread, Call(w, th) PROVE TypeOK'
  <2>1. thread' \in ThreadStates
    <3>1. "lock" \in Place /\ "dead" \in Place
      BY DEF Place
    <3> QED
      BY <1>0, <1>6, <3>1, GoToThread, EndsThread DEF Call
  <2> QED
    BY <1>6, <2>1 DEF Call, TypeOK, ThreadStates
<1>7. ASSUME NEW w \in Worker, NEW th \in Thread, StartSave(w, th) PROVE TypeOK'
  <2>1. thread' \in ThreadStates
    BY <1>0, <1>7, GoToThread DEF StartSave, Place
  <2>2. history' \in [Worker -> Seq(Nat)]
    <3>1. thread[w][th].entry \in Nat /\ history[w] \in Seq(Nat)
      BY <1>0 DEF TypeOK, ThreadStates
    <3>2. Append(history[w], thread[w][th].entry) \in Seq(Nat)
      BY <3>1
    <3> QED
      BY <1>7, <3>2 DEF StartSave, TypeOK
  <2> QED
    BY <1>7, <2>1, <2>2 DEF StartSave, TypeOK, ThreadStates, Torn
<1>8. ASSUME NEW w \in Worker, NEW th \in Thread, Write(w, th) PROVE TypeOK'
  <2>1. thread' \in ThreadStates
    BY <1>0, <1>8, GoToThread DEF Write, Place
  <2> QED
    BY <1>8, <2>1 DEF Write, TypeOK, ThreadStates
<1>9. ASSUME NEW w \in Worker, NEW th \in Thread, Replace(w, th) PROVE TypeOK'
  <2>1. thread' \in ThreadStates
    BY <1>0, <1>9, EndsThread DEF Replace
  <2>2. saved' \subseteq Nat
    <3>1. thread[w][th].entry \in Nat
      BY <1>0 DEF ThreadStates
    <3> QED
      BY <1>9, <3>1 DEF Replace, TypeOK
  <2>3. tmp' \in [whole : BOOLEAN, entries : Seq(Nat)]
    BY <1>9 DEF Replace, Torn
  <2> QED
    BY <1>9, <2>1, <2>2, <2>3 DEF Replace, TypeOK, ThreadStates
<1>10. ASSUME NEW w \in Worker, NEW th \in Thread, SaveFails(w, th) PROVE TypeOK'
  <2>1. thread' \in ThreadStates
    BY <1>0, <1>10, EndsThread DEF SaveFails
  <2> QED
    BY <1>10, <2>1 DEF SaveFails, TypeOK, ThreadStates
<1>11. ASSUME NEW w \in Worker, NEW name \in Peer, Pin(w, name) PROVE TypeOK'
  <2>1. thread' \in ThreadStates
    BY <1>0, <1>11, GoToThread DEF Pin, Place, Thread
  <2> QED
    BY <1>11, <2>1 DEF Pin, TypeOK, ThreadStates
<1>12. ASSUME NEW w \in Worker, PinSaved(w) PROVE TypeOK'
  <2>1. thread' \in ThreadStates
    BY <1>0, <1>12, EndsThread DEF PinSaved, Thread
  <2>2. trustFile' \in [whole : BOOLEAN, names : SUBSET Peer]
    <3>1. PICK whole \in BOOLEAN :
            trustFile' = [whole |-> whole, names |-> IF whole THEN trust[w] ELSE {}]
      BY <1>12 DEF PinSaved
    <3>2. trust[w] \in SUBSET Peer
      BY DEF TypeOK
    <3> QED
      BY <3>1, <3>2
  <2>3. pinned' \subseteq Peer
    BY <1>12 DEF PinSaved, TypeOK
  <2> QED
    BY <1>12, <2>1, <2>2, <2>3 DEF PinSaved, TypeOK, ThreadStates
<1>13. ASSUME NEW w \in Worker, NEW name \in Peer, PinRefused(w, name) PROVE TypeOK'
  BY <1>13 DEF PinRefused, TypeOK
<1>14. ASSUME NEW w \in Worker, PinFails(w) PROVE TypeOK'
  <2>1. thread' \in ThreadStates
    BY <1>0, <1>14, EndsThread DEF PinFails, Thread
  <2> QED
    BY <1>14, <2>1 DEF PinFails, TypeOK, ThreadStates
<1>15. CASE UNCHANGED vars
  BY <1>15 DEF vars, TypeOK
<1> QED
  BY <1>1, <1>3, <1>4, <1>5, <1>6, <1>7, <1>8, <1>9, <1>10, <1>11, <1>12, <1>13,
     <1>14, <1>15 DEF Next, Appends

(* Everything keeps its type.                                              *)
THEOREM TypeCorrectness == Spec => []TypeOK
<1> QED
  BY TypeCorrectInit, TypeCorrectStep, PTL DEF Spec

-----------------------------------------------------------------------------
(* One worker at a time.                                                   *)

LEMMA AloneInit == Init => Alone
BY DEF Init, Alone, Idle

LEMMA AloneStep ==
  ASSUME TypeOK, Alone, [Next]_vars
  PROVE  Alone'
<1>0. thread \in ThreadStates /\ up \subseteq Worker
  BY DEF TypeOK, ThreadStates
<1> USE DEF historyVars, trustVars, ghosts
\* A step of a thread that does something, in a worker that is therefore up.
<1>1. ASSUME NEW w \in Worker, NEW th \in Thread, w \in up,
             UNCHANGED <<up, overlapped>>,
             \A v \in Worker, t \in Thread :
               v # w \/ t # th => thread'[v][t] = thread[v][t]
      PROVE  Alone'
  BY <1>1 DEF Alone
<1>2. ASSUME NEW w \in Worker, NEW th \in Thread, Pc(w, th) # "idle"
      PROVE  w \in up
  BY <1>2 DEF Alone, Pc, Idle
<1>3. ASSUME NEW w \in Worker, Load(w) PROVE Alone'
  <2>1. ~overlapped' => up = {}
    BY <1>3 DEF Load
  <2>2. ~overlapped' => \A u, v \in up' : u = v
    BY <1>3, <2>1 DEF Load
  <2> QED
    BY <1>3, <2>2 DEF Load, Alone
<1>4. ASSUME NEW ws \in SUBSET Worker, Forgets(ws) PROVE Alone'
  <2>1. \A v \in Worker, t \in Thread :
          thread'[v][t] = IF v \in ws THEN Idle ELSE thread[v][t]
    BY <1>0, <1>4, ForgetsThread
  <2> QED
    BY <1>4, <2>1 DEF Forgets, Alone, Idle
<1>5. ASSUME NEW w \in Worker, Stop(w) PROVE Alone'
  BY <1>4, <1>5 DEF Stop
<1>6. CASE Crash
  BY <1>0, <1>4, <1>6 DEF Crash
<1>7. ASSUME NEW w \in Worker, NEW th \in Thread, Message(w, th) PROVE Alone'
  BY <1>0, <1>1, <1>7 DEF Message, ThreadStates
<1>8. ASSUME NEW w \in Worker, NEW th \in Thread, Call(w, th) PROVE Alone'
  <2>1. "lock" \in Place /\ "dead" \in Place
    BY DEF Place
  <2>2. \A v \in Worker, t \in Thread :
          v # w \/ t # th => thread'[v][t] = thread[v][t]
    BY <1>0, <1>8, <2>1, GoToThread, EndsThread DEF Call
  <2> QED
    BY <1>1, <1>2, <1>8, <2>2 DEF Call
<1>9. ASSUME NEW w \in Worker, NEW th \in Thread, StartSave(w, th) PROVE Alone'
  <2>1. "write" \in Place
    BY DEF Place
  <2> QED
    BY <1>0, <1>1, <1>2, <1>9, <2>1, GoToThread DEF StartSave
<1>10. ASSUME NEW w \in Worker, NEW th \in Thread, Write(w, th) PROVE Alone'
  <2>1. "replace" \in Place
    BY DEF Place
  <2> QED
    BY <1>0, <1>1, <1>2, <1>10, <2>1, GoToThread DEF Write
<1>11. ASSUME NEW w \in Worker, NEW th \in Thread, Replace(w, th) PROVE Alone'
  BY <1>0, <1>1, <1>2, <1>11, EndsThread DEF Replace
<1>12. ASSUME NEW w \in Worker, NEW th \in Thread, SaveFails(w, th) PROVE Alone'
  BY <1>0, <1>1, <1>2, <1>12, EndsThread DEF SaveFails, Saving
<1>13. ASSUME NEW w \in Worker, NEW name \in Peer, Pin(w, name) PROVE Alone'
  <2>1. "pinning" \in Place /\ "worker" \in Thread
    BY DEF Place, Thread
  <2> QED
    BY <1>0, <1>1, <1>13, <2>1, GoToThread DEF Pin
<1>14. ASSUME NEW w \in Worker, PinSaved(w) PROVE Alone'
  <2>1. "worker" \in Thread
    BY DEF Thread
  <2> QED
    BY <1>0, <1>1, <1>2, <1>14, <2>1, EndsThread DEF PinSaved
<1>15. ASSUME NEW w \in Worker, NEW name \in Peer, PinRefused(w, name) PROVE Alone'
  BY <1>15 DEF PinRefused, Alone
<1>16. ASSUME NEW w \in Worker, PinFails(w) PROVE Alone'
  <2>1. "worker" \in Thread
    BY DEF Thread
  <2> QED
    BY <1>0, <1>1, <1>2, <1>16, <2>1, EndsThread DEF PinFails
<1>17. CASE UNCHANGED vars
  BY <1>17 DEF vars, Alone
<1> QED
  BY <1>3, <1>5, <1>6, <1>7, <1>8, <1>9, <1>10, <1>11, <1>12, <1>13, <1>14,
     <1>15, <1>16, <1>17 DEF Next, Appends

-----------------------------------------------------------------------------
(* The trust store.                                                        *)

\* The only worker is the only one that pins.
LEMMA PinsAlone ==
  ASSUME TypeOK, Alone, ~overlapped,
         NEW w \in Worker, Pc(w, "worker") = "pinning"
  PROVE  /\ w \in up
         /\ ~OthersPinning(w)
         /\ \A v \in up : v = w
<1>1. ASSUME NEW v \in Worker, Pc(v, "worker") = "pinning" PROVE v \in up
  <2>1. "worker" \in Thread
    BY DEF Thread
  <2>2. thread[v]["worker"] # Idle
    BY <1>1 DEF Pc, Idle
  <2> QED
    BY <2>1, <2>2 DEF Alone
<1> QED
  BY <1>1 DEF Alone, OthersPinning

LEMMA PinsSurviveStep ==
  ASSUME TypeOK, Alone, PinsSurvive, [Next]_vars
  PROVE  PinsSurvive'
<1>0. /\ thread \in ThreadStates
      /\ up \subseteq Worker
      /\ trust \in [Worker -> SUBSET Peer]
      /\ "worker" \in Thread
  BY DEF TypeOK, ThreadStates, Thread
<1> USE DEF historyVars, trustVars, ghosts
<1> SUFFICES ASSUME ~overlapped'
             PROVE  /\ \/ trustFile'.whole \/ cut'
                       \/ \E w \in up' : Pc(w, "worker")' = "pinning"
                    /\ trustFile'.whole => pinned' \subseteq trustFile'.names
                    /\ \A w \in up' : pinned' \subseteq trust'[w]
  BY DEF PinsSurvive
<1> DEFINE Goal == /\ \/ trustFile'.whole \/ cut'
                      \/ \E w \in up' : Pc(w, "worker")' = "pinning"
                   /\ trustFile'.whole => pinned' \subseteq trustFile'.names
                   /\ \A w \in up' : pinned' \subseteq trust'[w]
\* What touches neither file nor pins, nor a thread that is pinning.
<1>1. ASSUME UNCHANGED <<up, trust, trustFile, pinned, overlapped, cut>>,
             NEW w \in Worker, NEW th \in Thread, Pc(w, th) # "pinning",
             \A v \in Worker, t \in Thread :
               v # w \/ t # th => thread'[v][t] = thread[v][t]
      PROVE  Goal
  BY <1>0, <1>1 DEF PinsSurvive, Pc
<1>3. ASSUME NEW w \in Worker, Load(w) PROVE Goal
  <2>1. ~overlapped /\ up = {}
    BY <1>3 DEF Load
  <2>2. trustFile.whole /\ pinned \subseteq trustFile.names
    BY <1>3, <2>1 DEF Load, PinsSurvive
  <2> QED
    BY <1>0, <1>3, <2>1, <2>2 DEF Load
<1>5. ASSUME NEW w \in Worker, Stop(w) PROVE Goal
  <2>1. Forgets({w}) /\ ~overlapped /\ cut' = cut
    BY <1>5 DEF Stop, Forgets
  <2>2. ~\E v \in up : Pc(v, "worker") = "pinning"
    BY <1>0, <1>5, <2>1, PinsAlone DEF Stop
  <2>3. trustFile.whole \/ cut
    BY <2>1, <2>2 DEF PinsSurvive
  <2> QED
    BY <1>0, <2>1, <2>3 DEF Forgets, PinsSurvive
<1>6. CASE Crash
  <2>1. Forgets(up) /\ ~overlapped /\ up' = {}
    BY <1>6 DEF Crash, Forgets
  <2>2. trustFile.whole \/ cut'
    BY <1>6, <2>1 DEF Crash, PinsSurvive
  <2> QED
    BY <2>1, <2>2 DEF Forgets, PinsSurvive
<1>7. ASSUME NEW w \in Worker, NEW th \in Thread, Message(w, th) PROVE Goal
  BY <1>0, <1>1, <1>7 DEF Message, ThreadStates
<1>8. ASSUME NEW w \in Worker, NEW th \in Thread, Call(w, th) PROVE Goal
  <2>1. "lock" \in Place /\ "dead" \in Place
    BY DEF Place
  <2>2. \A v \in Worker, t \in Thread :
          v # w \/ t # th => thread'[v][t] = thread[v][t]
    BY <1>0, <1>8, <2>1, GoToThread, EndsThread DEF Call
  <2> QED
    BY <1>1, <1>8, <2>2 DEF Call
<1>9. ASSUME NEW w \in Worker, NEW th \in Thread, StartSave(w, th) PROVE Goal
  <2>1. "write" \in Place
    BY DEF Place
  <2> QED
    BY <1>0, <1>1, <1>9, <2>1, GoToThread DEF StartSave
<1>10. ASSUME NEW w \in Worker, NEW th \in Thread, Write(w, th) PROVE Goal
  <2>1. "replace" \in Place
    BY DEF Place
  <2> QED
    BY <1>0, <1>1, <1>10, <2>1, GoToThread DEF Write
<1>11. ASSUME NEW w \in Worker, NEW th \in Thread, Replace(w, th) PROVE Goal
  BY <1>0, <1>1, <1>11, EndsThread DEF Replace
<1>12. ASSUME NEW w \in Worker, NEW th \in Thread, SaveFails(w, th) PROVE Goal
  BY <1>0, <1>1, <1>12, EndsThread DEF SaveFails, Saving
<1>13. ASSUME NEW w \in Worker, NEW name \in Peer, Pin(w, name) PROVE Goal
  <2>1. thread'[w]["worker"].pc = "pinning"
    BY <1>0, <1>13, GoToThread DEF Pin, Place
  <2>2. \A v \in up : pinned \subseteq trust'[v]
    BY <1>0, <1>13 DEF Pin, PinsSurvive
  <2> QED
    BY <1>13, <2>1, <2>2 DEF Pin, Pc
<1>14. ASSUME NEW w \in Worker, PinSaved(w) PROVE Goal
  <2>1. ~overlapped /\ Pc(w, "worker") = "pinning"
    BY <1>14 DEF PinSaved
  <2>2. w \in up /\ ~OthersPinning(w) /\ \A v \in up : v = w
    BY <2>1, PinsAlone
  <2>3. trustFile' = [whole |-> TRUE, names |-> trust[w]]
    BY <1>14, <2>2 DEF PinSaved
  <2>4. pinned' = pinned \cup trust[w] /\ pinned \subseteq trust[w]
    BY <1>14, <2>1, <2>2 DEF PinSaved, PinsSurvive
  <2> QED
    BY <1>14, <2>2, <2>3, <2>4 DEF PinSaved
<1>15. ASSUME NEW w \in Worker, NEW name \in Peer, PinRefused(w, name) PROVE Goal
  BY <1>0, <1>15 DEF PinRefused, PinsSurvive, Pc
<1>16. ASSUME NEW w \in Worker, PinFails(w) PROVE Goal
  BY <1>0, <1>16 DEF PinFails, PinsSurvive
<1>17. CASE UNCHANGED vars
  BY <1>17 DEF vars, PinsSurvive, Pc
<1> QED
  BY <1>3, <1>5, <1>6, <1>7, <1>8, <1>9, <1>10, <1>11, <1>12, <1>13, <1>14,
     <1>15, <1>16, <1>17 DEF Next, Appends

(* With one worker at a time, no crash and no full disk makes a pin that   *)
(* was saved silently missing: the trust store has it or cannot be read,   *)
(* and a worker that runs has it.                                          *)
THEOREM SavedPinsSurvive == Spec => []PinsSurvive
<1>1. Init => PinsSurvive
  BY DEF Init, PinsSurvive
<1> QED
  BY <1>1, TypeCorrectInit, TypeCorrectStep, AloneInit, AloneStep,
     PinsSurviveStep, PTL DEF Spec

-----------------------------------------------------------------------------
(* Sequences of entries.                                                   *)

LEMMA PrefixElements ==
  ASSUME NEW s \in Seq(Nat), NEW t \in Seq(Nat)
  PROVE  IsPrefix(s, t) <=> /\ Len(s) <= Len(t)
                            /\ \A i \in 1 .. Len(s) : s[i] = t[i]
BY DEF IsPrefix

LEMMA PrefixFacts ==
  ASSUME NEW s \in Seq(Nat), NEW t \in Seq(Nat), IsPrefix(s, t)
  PROVE  /\ ToSet(s) \subseteq ToSet(t)
         /\ IsInjective(t) => IsInjective(s)
<1>1. /\ DOMAIN s = 1 .. Len(s)
      /\ DOMAIN t = 1 .. Len(t)
      /\ Len(s) <= Len(t)
      /\ \A i \in 1 .. Len(s) : i \in 1 .. Len(t) /\ s[i] = t[i]
  BY PrefixElements
<1> QED
  BY <1>1, Zenon DEF ToSet, IsInjective

LEMMA PrefixOfItself ==
  ASSUME NEW s \in Seq(Nat)
  PROVE  IsPrefix(s, s)
BY DEF IsPrefix

\* An entry that is not there yet is appended.
LEMMA AppendFacts ==
  ASSUME NEW s \in Seq(Nat), NEW t \in Seq(Nat), NEW e \in Nat,
         IsPrefix(s, t), IsInjective(t), e \notin ToSet(t)
  PROVE  /\ IsPrefix(s, Append(t, e))
         /\ ToSet(Append(t, e)) = ToSet(t) \cup {e}
         /\ IsInjective(Append(t, e))
<1> DEFINE r == Append(t, e)
<1>1. /\ r \in Seq(Nat)
      /\ Len(r) = Len(t) + 1
      /\ r[Len(t) + 1] = e
      /\ \A i \in 1 .. Len(t) : r[i] = t[i]
      /\ DOMAIN r = 1 .. Len(t) + 1
      /\ DOMAIN t = 1 .. Len(t)
      /\ Len(s) \in Nat /\ Len(t) \in Nat
  OBVIOUS
<1> HIDE DEF r
<1>2. IsPrefix(s, r)
  <2>1. Len(s) <= Len(t) /\ \A i \in 1 .. Len(s) : s[i] = t[i]
    BY PrefixElements
  <2>2. Len(s) <= Len(r) /\ \A i \in 1 .. Len(s) : s[i] = r[i]
    BY <1>1, <2>1
  <2> QED
    BY <1>1, <2>2, PrefixElements
<1>3. \A i \in DOMAIN r : i = Len(t) + 1 \/ i \in DOMAIN t
  BY <1>1
<1>4. Len(t) + 1 \in DOMAIN r /\ DOMAIN t \subseteq DOMAIN r
  BY <1>1
<1>5. ToSet(r) = ToSet(t) \cup {e}
  BY <1>1, <1>3, <1>4, Zenon DEF ToSet
<1>6. \A i \in DOMAIN t : r[i] # e
  BY <1>1, Zenon DEF ToSet
<1>7. IsInjective(r)
  <2> SUFFICES ASSUME NEW i \in DOMAIN r, NEW j \in DOMAIN r, r[i] = r[j]
               PROVE  i = j
    BY DEF IsInjective
  <2>1. CASE i \in DOMAIN t /\ j \in DOMAIN t
    BY <1>1, <2>1 DEF IsInjective
  <2>2. CASE i = Len(t) + 1 \/ j = Len(t) + 1
    BY <1>1, <1>3, <1>6, <2>2
  <2> QED
    BY <1>3, <2>1, <2>2
<1> QED
  BY <1>2, <1>5, <1>7 DEF r

-----------------------------------------------------------------------------
(* The history.                                                            *)

LEMMA HistoryInit == Init => HistoryInv
BY DEF Init, HistoryInv, ToSet, IsInjective

\* A thread that is neither appending nor about to, or still about to.
Harmless(w, th) ==
  \/ thread'[w][th].pc \notin Pending \cup Saving
  \/ /\ thread'[w][th].pc \in Pending
     /\ thread[w][th].pc \in Pending
     /\ thread'[w][th].entry = thread[w][th].entry

LEMMA HistoryOfUnchanged ==
  ASSUME NEW v \in Worker, HistoryOf(v), UNCHANGED <<history, file, tmp, entries>>,
         \A t \in Thread : thread'[v][t] = thread[v][t] \/ Harmless(v, t)
  PROVE  HistoryOf(v)'
BY DEF HistoryOf, Harmless, Pc, Pending, Saving

LEMMA HistoryStep ==
  ASSUME TypeOK, Alone, HistoryInv, [Next]_vars
  PROVE  HistoryInv'
<1>0. /\ thread \in ThreadStates
      /\ up \subseteq Worker
      /\ entries \in Nat
      /\ \A w \in Worker : history[w] \in Seq(Nat)
      /\ file.entries \in Seq(Nat)
      /\ "worker" \in Thread
      /\ Place = {"idle", "call", "lock", "write", "replace", "pinning", "dead"}
  BY DEF TypeOK, ThreadStates, Thread, Place
<1> USE DEF historyVars, trustVars, ghosts
\* What is true of the files before the step, if it is of interest after it.
<1> DEFINE FileInv == /\ file.whole
                      /\ saved \subseteq ToSet(file.entries)
                      /\ IsInjective(file.entries)
                      /\ \A e \in ToSet(file.entries) : e <= entries
<1>1. ASSUME UNCHANGED <<up, history, file, tmp, entries, saved, overlapped>>,
             NEW w \in Worker, NEW th \in Thread, Harmless(w, th),
             \A v \in Worker, t \in Thread :
               v # w \/ t # th => thread'[v][t] = thread[v][t]
      PROVE  HistoryInv'
  <2> SUFFICES ASSUME ~overlapped PROVE FileInv' /\ \A v \in up : HistoryOf(v)'
    BY <1>1 DEF HistoryInv
  <2>1. FileInv'
    BY <1>1 DEF HistoryInv
  <2>2. ASSUME NEW v \in up PROVE HistoryOf(v)'
    <3>1. v \in Worker /\ HistoryOf(v)
      BY <1>0 DEF HistoryInv
    <3>2. \A t \in Thread : thread'[v][t] = thread[v][t] \/ Harmless(v, t)
      BY <1>1, <3>1
    <3> QED
      BY <1>1, <3>1, <3>2, HistoryOfUnchanged
  <2> QED
    BY <2>1, <2>2
<1>3. ASSUME NEW w \in Worker, Load(w) PROVE HistoryInv'
  <2> SUFFICES ASSUME ~overlapped' PROVE FileInv' /\ \A v \in up' : HistoryOf(v)'
    BY DEF HistoryInv
  <2>1. ~overlapped /\ up' = {w} /\ w \notin up
    BY <1>3 DEF Load
  <2>2. FileInv'
    BY <1>3, <2>1 DEF Load, HistoryInv
  <2>3. history'[w] = file.entries /\ file' = file /\ thread' = thread /\ entries' = entries
    BY <1>3 DEF Load, TypeOK
  <2>4. \A t \in Thread : thread[w][t].pc = "idle"
    BY <2>1 DEF Alone, Idle
  <2>5. IsPrefix(file.entries, file.entries)
    BY <1>0, PrefixOfItself
  <2>6. HistoryOf(w)'
    BY <2>1, <2>2, <2>3, <2>4, <2>5 DEF HistoryOf, Pc, Pending, Saving
  <2> QED
    BY <2>1, <2>2, <2>6
<1>4. ASSUME NEW ws \in SUBSET Worker, Forgets(ws), UNCHANGED entries PROVE HistoryInv'
  <2> SUFFICES ASSUME ~overlapped PROVE FileInv' /\ \A v \in up \ ws : HistoryOf(v)'
    BY <1>4 DEF HistoryInv, Forgets
  <2>1. FileInv'
    BY <1>4 DEF HistoryInv, Forgets
  <2>2. ASSUME NEW v \in up \ ws PROVE HistoryOf(v)'
    <3>1. v \in Worker /\ HistoryOf(v) /\ history'[v] = history[v]
      BY <1>0, <1>4 DEF HistoryInv, Forgets
    <3>2. \A t \in Thread : thread'[v][t] = thread[v][t]
      BY <1>0, <1>4, <3>1, ForgetsThread
    <3>3. file' = file /\ tmp' = tmp /\ entries' = entries
      BY <1>4 DEF Forgets
    <3> QED
      BY <3>1, <3>2, <3>3 DEF HistoryOf, Pc
  <2> QED
    BY <2>1, <2>2
<1>5. ASSUME NEW w \in Worker, Stop(w) PROVE HistoryInv'
  BY <1>4, <1>5 DEF Stop, Forgets
<1>6. CASE Crash
  BY <1>0, <1>4, <1>6 DEF Crash, Forgets
<1>7. ASSUME NEW w \in Worker, NEW th \in Thread, Message(w, th) PROVE HistoryInv'
  <2> SUFFICES ASSUME ~overlapped PROVE FileInv' /\ \A v \in up : HistoryOf(v)'
    BY <1>7 DEF HistoryInv, Message
  <2>1. /\ UNCHANGED <<up, history, file, tmp, saved>>
        /\ entries' = entries + 1
        /\ thread'[w][th] = [pc |-> "call", entry |-> entries + 1]
        /\ \A v \in Worker, t \in Thread :
             v # w \/ t # th => thread'[v][t] = thread[v][t]
    BY <1>0, <1>7 DEF Message, ThreadStates
  <2>2. \A e \in Nat : e <= entries => e <= entries' /\ e # entries + 1
    BY <1>0, <2>1
  <2>3. ToSet(file.entries) \subseteq Nat /\ \A v \in Worker : ToSet(history[v]) \subseteq Nat
    BY <1>0 DEF ToSet
  <2>4. FileInv'
    BY <2>1, <2>2, <2>3 DEF HistoryInv
  <2>5. ASSUME NEW v \in up PROVE HistoryOf(v)'
    <3>1. v \in Worker /\ HistoryOf(v) /\ \A t \in Thread : thread[v][t].entry \in Nat
      BY <1>0 DEF HistoryInv, ThreadStates
    <3>2. entries + 1 \notin ToSet(history[v]) /\ entries + 1 <= entries'
      BY <1>0, <2>1, <2>2, <2>3, <3>1 DEF HistoryOf
    <3>3. \A t \in Thread : \/ thread'[v][t] = thread[v][t]
                           \/ /\ v = w /\ t = th
                              /\ thread'[v][t].pc = "call"
                              /\ thread'[v][t].entry = entries + 1
      BY <2>1, <3>1
    <3> QED
      BY <2>1, <2>2, <2>3, <3>1, <3>2, <3>3 DEF HistoryOf, Pc, Pending, Saving
  <2> QED
    BY <2>4, <2>5
<1>8. ASSUME NEW w \in Worker, NEW th \in Thread, Call(w, th) PROVE HistoryInv'
  <2>1. /\ Harmless(w, th)
        /\ \A v \in Worker, t \in Thread :
             v # w \/ t # th => thread'[v][t] = thread[v][t]
    BY <1>0, <1>8, GoToThread, EndsThread DEF Call, Harmless, Pending, Saving, Pc, Idle
  <2> QED
    BY <1>1, <1>8, <2>1 DEF Call
\* The entry comes to the end of the history, in memory.
<1>9. ASSUME NEW w \in Worker, NEW th \in Thread, StartSave(w, th) PROVE HistoryInv'
  <2> SUFFICES ASSUME ~overlapped PROVE FileInv' /\ \A v \in up : HistoryOf(v)'
    BY <1>9 DEF HistoryInv, StartSave
  <2> DEFINE e == thread[w][th].entry
  <2>1. /\ UNCHANGED <<up, file, entries, saved>>
        /\ history'[w] = Append(history[w], e)
        /\ thread'[w][th].pc = "write"
        /\ thread'[w][th].entry = e
        /\ \A t \in Thread : t # th => thread'[w][t] = thread[w][t]
        /\ \A t \in Thread : thread[w][t].pc \notin Saving
        /\ thread[w][th].pc = "lock"
    BY <1>0, <1>9, GoToThread DEF StartSave, LockIsFree, Pc, TypeOK
  <2>2. w \in up /\ \A v \in up : v = w
    BY <2>1 DEF Alone, Idle
  <2>3. FileInv'
    BY <2>1 DEF HistoryInv
  <2>4. HistoryOf(w)
    BY <2>2 DEF HistoryInv
  <2>5. e \in Nat /\ e <= entries /\ e \notin ToSet(history[w])
    BY <1>0, <2>1, <2>4 DEF HistoryOf, Pc, Pending, ThreadStates
  <2> HIDE DEF e
  <2>6. /\ IsPrefix(file.entries, history'[w])
        /\ ToSet(history'[w]) = ToSet(history[w]) \cup {e}
        /\ IsInjective(history'[w])
    BY <1>0, <2>1, <2>4, <2>5, AppendFacts DEF HistoryOf
  <2>7. \A t \in Thread :
          t # th => /\ thread'[w][t].pc \notin Saving
                    /\ thread'[w][t].pc \in Pending =>
                         /\ thread'[w][t].entry <= entries
                         /\ thread'[w][t].entry \notin ToSet(history'[w])
    BY <2>1, <2>4, <2>6 DEF HistoryOf, Pc, Pending, e
  <2>8. HistoryOf(w)'
    BY <2>1, <2>4, <2>5, <2>6, <2>7 DEF HistoryOf, Pc, Pending, Saving
  <2> QED
    BY <2>2, <2>3, <2>8
\* The temporary file holds the history.
<1>10. ASSUME NEW w \in Worker, NEW th \in Thread, Write(w, th) PROVE HistoryInv'
  <2> SUFFICES ASSUME ~overlapped PROVE FileInv' /\ \A v \in up : HistoryOf(v)'
    BY <1>10 DEF HistoryInv, Write
  <2>1. /\ UNCHANGED <<up, history, file, entries, saved>>
        /\ tmp' = [whole |-> TRUE, entries |-> history[w]]
        /\ thread'[w][th].pc = "replace"
        /\ thread'[w][th].entry = thread[w][th].entry
        /\ \A t \in Thread : t # th => thread'[w][t] = thread[w][t]
        /\ thread[w][th].pc = "write"
    BY <1>0, <1>10, GoToThread DEF Write, Pc
  <2>2. w \in up /\ \A v \in up : v = w
    BY <2>1 DEF Alone, Idle
  <2>3. FileInv'
    BY <2>1 DEF HistoryInv
  <2>4. HistoryOf(w)
    BY <2>2 DEF HistoryInv
  <2>5. HistoryOf(w)'
    BY <2>1, <2>4 DEF HistoryOf, Pc, Pending, Saving
  <2> QED
    BY <2>2, <2>3, <2>5
\* The history on disk becomes the one in memory, of which it was a part.
<1>11. ASSUME NEW w \in Worker, NEW th \in Thread, Replace(w, th) PROVE HistoryInv'
  <2> SUFFICES ASSUME ~overlapped PROVE FileInv' /\ \A v \in up : HistoryOf(v)'
    BY <1>11 DEF HistoryInv, Replace
  <2>1. /\ UNCHANGED <<up, history, entries>>
        /\ file' = tmp
        /\ saved' = saved \cup {thread[w][th].entry}
        /\ thread'[w][th] = Idle
        /\ \A t \in Thread : t # th => thread'[w][t] = thread[w][t]
        /\ thread[w][th].pc = "replace"
    BY <1>0, <1>11, EndsThread DEF Replace, Pc
  <2>2. w \in up /\ \A v \in up : v = w
    BY <2>1 DEF Alone, Idle
  <2>3. HistoryOf(w)
    BY <2>2 DEF HistoryInv
  <2>4. /\ file'.whole
        /\ file'.entries = history[w]
        /\ thread[w][th].entry \in ToSet(history[w])
        /\ \A t \in Thread : t # th => thread[w][t].pc \notin Saving
    BY <2>1, <2>3 DEF HistoryOf, Pc, Saving
  <2>5. ToSet(file.entries) \subseteq ToSet(history[w]) /\ IsPrefix(history[w], history[w])
    BY <1>0, <2>3, PrefixFacts, PrefixOfItself DEF HistoryOf
  <2>6. FileInv'
    BY <2>1, <2>3, <2>4, <2>5 DEF HistoryInv, HistoryOf
  <2>7. HistoryOf(w)'
    BY <2>1, <2>3, <2>4, <2>5 DEF HistoryOf, Pc, Pending, Saving, Idle
  <2> QED
    BY <2>2, <2>6, <2>7
<1>12. ASSUME NEW w \in Worker, NEW th \in Thread, SaveFails(w, th) PROVE HistoryInv'
  <2>1. /\ Harmless(w, th)
        /\ \A v \in Worker, t \in Thread :
             v # w \/ t # th => thread'[v][t] = thread[v][t]
    BY <1>0, <1>12, EndsThread DEF SaveFails, Harmless, Pending, Saving, Idle
  <2> QED
    BY <1>1, <1>12, <2>1 DEF SaveFails
<1>13. ASSUME NEW w \in Worker, NEW name \in Peer, Pin(w, name) PROVE HistoryInv'
  <2>1. /\ Harmless(w, "worker")
        /\ \A v \in Worker, t \in Thread :
             v # w \/ t # "worker" => thread'[v][t] = thread[v][t]
    BY <1>0, <1>13, GoToThread DEF Pin, Harmless, Pending, Saving
  <2> QED
    BY <1>0, <1>1, <1>13, <2>1 DEF Pin
<1>14. ASSUME NEW w \in Worker, PinSaved(w) PROVE HistoryInv'
  <2>1. /\ Harmless(w, "worker")
        /\ \A v \in Worker, t \in Thread :
             v # w \/ t # "worker" => thread'[v][t] = thread[v][t]
    BY <1>0, <1>14, EndsThread DEF PinSaved, Harmless, Pending, Saving, Idle
  <2> QED
    BY <1>0, <1>1, <1>14, <2>1 DEF PinSaved
<1>15. ASSUME NEW w \in Worker, NEW name \in Peer, PinRefused(w, name) PROVE HistoryInv'
  BY <1>15 DEF PinRefused, HistoryInv, HistoryOf, Pc
<1>16. ASSUME NEW w \in Worker, PinFails(w) PROVE HistoryInv'
  <2>1. /\ Harmless(w, "worker")
        /\ \A v \in Worker, t \in Thread :
             v # w \/ t # "worker" => thread'[v][t] = thread[v][t]
    BY <1>0, <1>16, EndsThread DEF PinFails, Harmless, Pending, Saving, Idle
  <2> QED
    BY <1>0, <1>1, <1>16, <2>1 DEF PinFails
<1>17. CASE UNCHANGED vars
  BY <1>17 DEF vars, HistoryInv, HistoryOf, Pc
<1> QED
  BY <1>3, <1>5, <1>6, <1>7, <1>8, <1>9, <1>10, <1>11, <1>12, <1>13, <1>14,
     <1>15, <1>16, <1>17 DEF Next, Appends

(* history.py's promise: with one worker at a time no crash and no failed  *)
(* write costs a user a message whose append() returned, and the file is   *)
(* always one that can be read.                                            *)
THEOREM HistoryIsDurable == Spec => []HistoryDurable
<1>1. HistoryInv => HistoryDurable
  BY DEF HistoryInv, HistoryDurable, HistoryOf
<1> QED
  BY <1>1, TypeCorrectInit, TypeCorrectStep, AloneInit, AloneStep,
     HistoryInit, HistoryStep, PTL DEF Spec
=============================================================================
