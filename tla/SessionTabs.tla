----------------------------- MODULE SessionTabs -----------------------------
(***************************************************************************)
(* class SecureCommsApp (gui.py): the window, which has one slot for a     *)
(* connection that is being set up and a tab for every session that got    *)
(* through its handshake.  Workers tell it what happens through one queue, *)
(* which the window empties every 100 ms: by then the worker may be far    *)
(* ahead, and the user may have closed its tab.                            *)
(*                                                                         *)
(* Of a worker there is here what it puts into the queue and in which      *)
(* order (PeerWorker has the rest).  Events that only change a text        *)
(* (status, fingerprints, messages, alerts, file progress) are left out.   *)
(* Host and Connect are enabled iff the slot is free: every assignment of  *)
(* one is next to the other's.                                             *)
(***************************************************************************)
EXTENDS Integers, Sequences

CONSTANTS
  Session,     \* the session ids the user gets to use
  NoSession,
  MaxRounds    \* bound: attempts to connect and frames received, in all

ASSUME SessionAssumption == NoSession \notin Session /\ MaxRounds \in Nat

VARIABLES
  phase,       \* where each worker is
  rounds,
  stopped,     \* the workers stop() was called on
  events,      \* the queue
  polling,     \* the window is inside _poll_events
  pending,     \* pending_worker
  tabs,        \* the keys of the dict sessions
  writable,    \* the chat input of the tab is enabled
  closed       \* the window is destroyed

user == <<pending, tabs, writable, closed>>
tabsVars == <<phase, rounds, stopped, events, polling, user>>

TabsInit ==
  /\ phase = [s \in Session |-> "new"]
  /\ rounds = 0
  /\ stopped = {}
  /\ events = <<>>
  /\ polling = FALSE
  /\ pending = NoSession
  /\ tabs = {}
  /\ writable = [s \in Session |-> TRUE]
  /\ closed = FALSE

-----------------------------------------------------------------------------
(* The worker.                                                             *)

\* The worker s goes on to p, having put an event into the queue or not.
Quietly(s, p) == phase' = [phase EXCEPT ![s] = p] /\ UNCHANGED events

Emit(s, kind, p) ==
  /\ phase' = [phase EXCEPT ![s] = p]
  /\ events' = Append(events, [kind |-> kind, session |-> s])

\* What can be repeated is bounded.
Round == rounds < MaxRounds /\ rounds' = rounds + 1

\* run(): identity, trust store and, if asked for, history are loaded.  Errors
\* are reported, except that a history file that cannot be read is an OSError,
\* which ends the thread.
Load(s) ==
  /\ phase[s] = "loading"
  /\ \/ Quietly(s, "trying")
     \/ Emit(s, "error", "ended")
     \/ Quietly(s, "crashed")
  /\ UNCHANGED <<rounds, stopped, polling, user>>

\* _run_loop: an attempt fails and another follows, or the error is fatal;
\* declining a peer is a failure of either kind, depending on the role.
Attempt(s) ==
  /\ phase[s] \in {"trying", "declined"}
  /\ \/ Quietly(s, "trying") /\ Round
     \/ Emit(s, "error", "ended") /\ UNCHANGED rounds
  /\ UNCHANGED <<stopped, polling, user>>

\* The event is looked at by every loop of the worker.
NoticeStop(s) ==
  /\ phase[s] = "trying"
  /\ s \in stopped
  /\ Quietly(s, "ended")
  /\ UNCHANGED <<rounds, stopped, polling, user>>

\* _ask_trust
AskTrust(s) ==
  /\ phase[s] = "trying"
  /\ Round
  /\ Emit(s, "trust_prompt", "asking")
  /\ UNCHANGED <<stopped, polling, user>>

\* The handshake succeeds; the conversation so far is shown once for a peer.
Connected(s) ==
  /\ phase[s] = "trying"
  /\ Round
  /\ Quietly(s, "greeted") \/ Emit(s, "history_loaded", "greeted")
  /\ UNCHANGED <<stopped, polling, user>>

Announce(s) ==
  /\ phase[s] = "greeted"
  /\ Emit(s, "handshake_done", "up")
  /\ UNCHANGED <<rounds, stopped, polling, user>>

\* _handle_plaintext: a file that is offered cannot be saved.
FileTrouble(s) ==
  /\ phase[s] = "up"
  /\ Round
  /\ Emit(s, "error", "up")
  /\ UNCHANGED <<stopped, polling, user>>

\* _recv_loop returns and channel and sock are cleared, or a frame is not
\* one and the thread ends.
Lose(s) ==
  /\ phase[s] = "up"
  /\ Quietly(s, "lost") \/ Quietly(s, "deaf")
  /\ UNCHANGED <<rounds, stopped, polling, user>>

TellLost(s) ==
  /\ phase[s] = "lost"
  /\ IF s \in stopped THEN Quietly(s, "ended") ELSE Emit(s, "connection_lost", "trying")
  /\ UNCHANGED <<rounds, stopped, polling, user>>

WorkerStep(s) ==
  \/ Load(s) \/ Attempt(s) \/ NoticeStop(s) \/ AskTrust(s)
  \/ Connected(s) \/ Announce(s) \/ FileTrouble(s) \/ Lose(s) \/ TellLost(s)

-----------------------------------------------------------------------------
(* The user, when the window is idle.                                      *)

\* Mutant: the slot is not looked at.
StartWorkerAnyTime(s) ==
  /\ ~polling
  /\ phase[s] = "new"
  /\ pending' = s
  /\ phase' = [phase EXCEPT ![s] = "loading"]
  /\ UNCHANGED <<rounds, stopped, events, polling, tabs, writable, closed>>

StartWorker(s) ==
  /\ ~polling
  /\ pending = NoSession
  /\ phase[s] = "new"
  /\ pending' = s
  /\ phase' = [phase EXCEPT ![s] = "loading"]
  /\ UNCHANGED <<rounds, stopped, events, polling, tabs, writable, closed>>

DisconnectSession(s) ==
  /\ ~polling
  /\ s \in tabs
  /\ tabs' = tabs \ {s}
  /\ stopped' = stopped \cup {s}
  /\ UNCHANGED <<phase, rounds, events, polling, pending, writable, closed>>

\* _on_close; the process ends and its daemon threads with it.
OnClose ==
  /\ ~polling
  /\ closed' = TRUE
  /\ stopped' = stopped \cup tabs \cup ({pending} \ {NoSession})
  /\ UNCHANGED <<phase, rounds, events, polling, pending, tabs, writable>>

-----------------------------------------------------------------------------
(* _poll_events and _handle_event.                                         *)

Poll == ~polling /\ polling' = TRUE /\ UNCHANGED <<phase, rounds, stopped, events, user>>

PollEnd ==
  /\ polling
  /\ events = <<>>
  /\ polling' = FALSE
  /\ UNCHANGED <<phase, rounds, stopped, events, user>>

Taken(kind) ==
  /\ polling
  /\ events # <<>>
  /\ Head(events).kind = kind
  /\ events' = Tail(events)
  /\ UNCHANGED <<rounds, stopped, polling, closed>>

\* _ensure_session_tab: the pending worker gets a tab and leaves the slot.
EnsureSessionTab(s) ==
  IF s = pending
  THEN tabs' = tabs \cup {s} /\ pending' = NoSession
  ELSE UNCHANGED <<tabs, pending>>

HandleHistory ==
  LET s == Head(events).session IN
  /\ Taken("history_loaded")
  /\ EnsureSessionTab(s)
  /\ UNCHANGED <<phase, writable>>

\* Mutant: a tab that is there is left as it is.
HandleHandshakeDoneOnce ==
  LET s == Head(events).session IN
  /\ Taken("handshake_done")
  /\ EnsureSessionTab(s)
  /\ UNCHANGED <<phase, writable>>

HandleHandshakeDone ==
  LET s == Head(events).session IN
  /\ Taken("handshake_done")
  /\ EnsureSessionTab(s)
  /\ writable' = IF s \in tabs' THEN [writable EXCEPT ![s] = TRUE] ELSE writable
  /\ UNCHANGED phase

HandleLost ==
  LET s == Head(events).session IN
  /\ Taken("connection_lost")
  /\ writable' = IF s \in tabs THEN [writable EXCEPT ![s] = FALSE] ELSE writable
  /\ UNCHANGED <<phase, pending, tabs>>

\* Mutant: the error is shown and the slot kept.
HandleErrorSlotKept == Taken("error") /\ UNCHANGED <<phase, pending, tabs, writable>>

\* A session with a tab has it in its log; the pending one leaves the slot.
HandleError ==
  LET s == Head(events).session IN
  /\ Taken("error")
  /\ pending' = IF s = pending /\ s \notin tabs THEN NoSession ELSE pending
  /\ UNCHANGED <<phase, tabs, writable>>

\* Mutant: like other events, a prompt of an unknown session is dropped.
HandleTrustPromptKnown ==
  LET s == Head(events).session IN
  /\ Taken("trust_prompt")
  /\ IF s \in tabs \cup {pending}
     THEN \E answer \in {"trying", "declined"} : phase' = [phase EXCEPT ![s] = answer]
     ELSE UNCHANGED phase
  /\ UNCHANGED <<pending, tabs, writable>>

\* The modal dialog returns and the worker is woken.
HandleTrustPrompt ==
  LET s == Head(events).session IN
  /\ Taken("trust_prompt")
  /\ \E answer \in {"trying", "declined"} : phase' = [phase EXCEPT ![s] = answer]
  /\ UNCHANGED <<pending, tabs, writable>>

HandleEvent ==
  \/ HandleHistory \/ HandleHandshakeDone
  \/ HandleLost \/ HandleError \/ HandleTrustPrompt

-----------------------------------------------------------------------------
GuiRuns == ~closed /\ (Poll \/ HandleEvent \/ PollEnd)

TabsNext ==
  /\ ~closed
  /\ \/ \E s \in Session : WorkerStep(s) \/ StartWorker(s) \/ DisconnectSession(s)
     \/ OnClose
     \/ Poll \/ HandleEvent \/ PollEnd

TabsSpec == TabsInit /\ [][TabsNext]_tabsVars

\* Tk's main loop runs, and users answer the dialogs that block it.
TabsFairSpec == TabsSpec /\ WF_tabsVars(GuiRuns)

-----------------------------------------------------------------------------
Queued(s) == {events[i].kind : i \in {j \in DOMAIN events : events[j].session = s}}

TabsTypeOK ==
  /\ phase \in [Session -> {"new", "loading", "trying", "asking", "declined",
                            "greeted", "up", "lost", "deaf", "ended", "crashed"}]
  /\ rounds \in 0 .. MaxRounds
  /\ stopped \subseteq Session
  /\ polling \in BOOLEAN
  /\ tabs \subseteq Session
  /\ pending \in (Session \ tabs) \cup {NoSession}
  /\ writable \in [Session -> BOOLEAN]
  /\ closed \in BOOLEAN

(* Every running worker can be reached by the user, and in one place: it   *)
(* is in the slot or has a tab until it is stopped, and a session that was *)
(* disconnected does not come back by an event that was still under way.   *)
OneHome ==
  /\ closed \/ stopped \cap (tabs \cup {pending}) = {}
  /\ \A s \in Session \ stopped :
       phase[s] \in {"new", "ended", "crashed"} \/ s \in tabs \cup {pending}

(* Once the news has been handled, the chat input of a tab is enabled when *)
(* its session is up and disabled when it has no channel, through any      *)
(* number of reconnects.                                                   *)
InputFollowsSession ==
  \A s \in tabs : Queued(s) \cap {"handshake_done", "connection_lost"} = {} =>
    /\ phase[s] = "up" => writable[s]
    /\ writable[s] => phase[s] \in {"greeted", "up", "lost", "deaf"}

(* A worker whose connection is made, or which has given up, leaves the    *)
(* slot: Host and Connect do not stay disabled behind it.  (They do behind *)
(* a thread that "crashed": nothing is reported of it.)                    *)
SlotIsFreed ==
  \A s \in Session :
    (pending = s /\ phase[s] \in {"up", "lost", "deaf", "ended"}) ~> (pending # s \/ closed)

(* A worker waits in _ask_trust without a time-out: its question is put to *)
(* the user even if its tab was closed meanwhile.                          *)
PromptIsAnswered ==
  \A s \in Session : (phase[s] = "asking") ~> (phase[s] # "asking" \/ closed)
=============================================================================
