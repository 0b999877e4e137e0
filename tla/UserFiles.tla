----------------------------- MODULE UserFiles -----------------------------
(***************************************************************************)
(* The two files a GUI worker keeps for its user between runs: the chat    *)
(* history (history.py, gui.py: _append_history), appended to by the       *)
(* worker's thread and by the GUI thread under a lock and replaced as a    *)
(* whole by way of a temporary file; and the trust store (identity.py,     *)
(* gui.py: _exchange_identity_and_pin), written in place.  The program may *)
(* be killed at any moment, and writing may fail.                          *)
(*                                                                         *)
(* All workers are sessions of one user.  Each loads both files when it    *)
(* starts and writes back all it has in memory; nothing keeps two of them  *)
(* from doing so at once.                                                  *)
(***************************************************************************)
EXTENDS Integers, SequencesExt

CONSTANTS
  Worker,
  Peer,        \* names that may be pinned
  MaxEntries,  \* bound: messages appended to the history
  MaxCrashes   \* bound: how often the program is killed

Thread == {"gui", "worker"}

VARIABLES
  up,          \* the workers that have loaded their files and run
  history,     \* history[w]: the entries in the memory of w's history
  disabled,    \* the workers w with self.history = None
  thread,      \* thread[w][th]: how far an append or a pin is, and of what
  trust,       \* trust[w]: the names pinned in w's memory
  file,        \* the history file: whole or not, and its entries
  tmp,         \* the temporary file, likewise; not whole if there is none
  trustFile,   \* the trust store on disk: readable or not, and its names
  entries, crashes

historyVars == <<history, disabled, file, tmp>>
trustVars == <<trust, trustFile>>

\* For the properties: what append() and save() returned from, whether two
\* workers were up at once, and whether a save of the trust store was cut.
VARIABLES saved, pinned, overlapped, cut

ghosts == <<saved, pinned, overlapped, cut>>
vars == <<up, thread, historyVars, trustVars, entries, crashes, ghosts>>

Idle == [pc |-> "idle", entry |-> 0]
Torn == [whole |-> FALSE, entries |-> << >>]

\* A file that does not exist is an empty history, an empty trust store.
Init ==
  /\ up = {}
  /\ history = [w \in Worker |-> << >>]
  /\ disabled = {}
  /\ thread = [w \in Worker |-> [th \in Thread |-> Idle]]
  /\ trust = [w \in Worker |-> {}]
  /\ file = [whole |-> TRUE, entries |-> << >>]
  /\ tmp = Torn
  /\ trustFile = [whole |-> TRUE, names |-> {}]
  /\ entries = 0
  /\ crashes = 0
  /\ saved = {}
  /\ pinned = {}
  /\ overlapped = FALSE
  /\ cut = FALSE

Pc(w, th) == thread[w][th].pc

GoTo(w, th, pc) == thread' = [thread EXCEPT ![w][th].pc = pc]
Ends(w, th) == thread' = [thread EXCEPT ![w][th] = Idle]

-----------------------------------------------------------------------------
(* A worker's life.                                                        *)

\* Mutant: a trust store that cannot be read is taken for an empty one.
LoadTornAsEmpty(w) ==
  /\ w \notin up
  /\ file.whole
  /\ up' = up \cup {w}
  /\ overlapped' = (overlapped \/ up # {})
  /\ trust' = [trust EXCEPT ![w] = trustFile.names]
  /\ history' = [history EXCEPT ![w] = file.entries]
  /\ UNCHANGED <<thread, disabled, file, tmp, trustFile, entries, crashes, saved, pinned, cut>>

\* run(): an unreadable trust store or history is an error, and the worker
\* does not start.
Load(w) ==
  /\ w \notin up
  /\ trustFile.whole /\ file.whole
  /\ up' = up \cup {w}
  /\ overlapped' = (overlapped \/ up # {})
  /\ trust' = [trust EXCEPT ![w] = trustFile.names]
  /\ history' = [history EXCEPT ![w] = file.entries]
  /\ UNCHANGED <<thread, disabled, file, tmp, trustFile, entries, crashes, saved, pinned, cut>>

\* What workers have in memory is gone with them.
Forgets(ws) ==
  /\ up' = up \ ws
  /\ history' = [w \in Worker |-> IF w \in ws THEN << >> ELSE history[w]]
  /\ disabled' = disabled \ ws
  /\ trust' = [w \in Worker |-> IF w \in ws THEN {} ELSE trust[w]]
  /\ thread' = [w \in Worker |->
                  IF w \in ws THEN [th \in Thread |-> Idle] ELSE thread[w]]
  /\ UNCHANGED <<file, tmp, trustFile, entries, saved, pinned, overlapped>>

\* The session is over.
Stop(w) ==
  /\ w \in up
  /\ \A th \in Thread : Pc(w, th) \in {"idle", "dead"}
  /\ Forgets({w})
  /\ UNCHANGED <<crashes, cut>>

\* The program is killed: files stay as they are.
Crash ==
  /\ up # {}
  /\ crashes < MaxCrashes
  /\ crashes' = crashes + 1
  /\ cut' = (cut \/ \E w \in up : Pc(w, "worker") = "pinning")
  /\ Forgets(up)

-----------------------------------------------------------------------------
(* _append_history, in the GUI thread for what is sent and in the worker's *)
(* for what is received.                                                   *)

\* if self.history is None: return.
Message(w, th) ==
  /\ w \in up
  /\ Pc(w, th) = "idle"
  /\ w \notin disabled
  /\ entries < MaxEntries
  /\ entries' = entries + 1
  /\ thread' = [thread EXCEPT ![w][th] = [pc |-> "call", entry |-> entries + 1]]
  /\ UNCHANGED <<up, historyVars, trustVars, crashes, ghosts>>

\* self.history is read again for the call; the other thread may have set it
\* to None.  An AttributeError is the end of the worker's thread, while the
\* window survives it.
Call(w, th) ==
  /\ Pc(w, th) = "call"
  /\ IF w \notin disabled THEN GoTo(w, th, "lock")
     ELSE IF th = "worker" THEN GoTo(w, th, "dead") ELSE Ends(w, th)
  /\ UNCHANGED <<up, historyVars, trustVars, entries, crashes, ghosts>>

Saving == {"write", "replace"}

\* Mutant: there is no lock.
LockIsFreeAlways(w) == TRUE

LockIsFree(w) == \A th \in Thread : Pc(w, th) \notin Saving

\* append() takes the lock and adds the entry; write_bytes() truncates the
\* temporary file ...
StartSave(w, th) ==
  /\ Pc(w, th) = "lock"
  /\ LockIsFree(w)
  /\ history' = [history EXCEPT ![w] = Append(@, thread[w][th].entry)]
  /\ tmp' = Torn
  /\ GoTo(w, th, "write")
  /\ UNCHANGED <<up, disabled, file, trustVars, entries, crashes, ghosts>>

\* ... and writes it, ...
Write(w, th) ==
  /\ Pc(w, th) = "write"
  /\ tmp' = [whole |-> TRUE, entries |-> history[w]]
  /\ GoTo(w, th, "replace")
  /\ UNCHANGED <<up, history, disabled, file, trustVars, entries, crashes, ghosts>>

\* ... which then takes the place of the history.
Replace(w, th) ==
  /\ Pc(w, th) = "replace"
  /\ file' = tmp
  /\ tmp' = Torn
  /\ saved' = saved \cup {thread[w][th].entry}
  /\ Ends(w, th)
  /\ UNCHANGED <<up, history, disabled, trustVars, entries, crashes,
                 pinned, overlapped, cut>>

\* OSError: no history for the rest of the session.
SaveFails(w, th) ==
  /\ Pc(w, th) \in Saving
  /\ disabled' = disabled \cup {w}
  /\ Ends(w, th)
  /\ UNCHANGED <<up, history, file, tmp, trustVars, entries, crashes, ghosts>>

-----------------------------------------------------------------------------
(* The user trusts a new peer: pin() and save().                           *)

\* write_text() truncates the file ...
Pin(w, name) ==
  /\ w \in up
  /\ Pc(w, "worker") = "idle"
  /\ name \notin trust[w]
  /\ trust' = [trust EXCEPT ![w] = @ \cup {name}]
  /\ trustFile' = [whole |-> FALSE, names |-> {}]
  /\ GoTo(w, "worker", "pinning")
  /\ UNCHANGED <<up, historyVars, entries, crashes, ghosts>>

OthersPinning(w) == \E v \in Worker \ {w} : Pc(v, "worker") = "pinning"

\* ... and writes it.  Two that write at once may leave a mixture.
PinSaved(w) ==
  /\ Pc(w, "worker") = "pinning"
  /\ \E whole \in {TRUE} \cup (IF OthersPinning(w) THEN {FALSE} ELSE {}) :
       trustFile' = [whole |-> whole, names |-> IF whole THEN trust[w] ELSE {}]
  /\ pinned' = pinned \cup trust[w]
  /\ Ends(w, "worker")
  /\ UNCHANGED <<up, historyVars, trust, entries, crashes, saved, overlapped, cut>>

\* OSError on opening the file, which is taken for a failed connection: the pin
\* stays in memory, the file as it was.
PinRefused(w, name) ==
  /\ w \in up
  /\ Pc(w, "worker") = "idle"
  /\ name \notin trust[w]
  /\ trust' = [trust EXCEPT ![w] = @ \cup {name}]
  /\ UNCHANGED <<up, thread, historyVars, trustFile, entries, crashes, ghosts>>

\* OSError on writing it, handled alike: the file stays truncated.
PinFails(w) ==
  /\ Pc(w, "worker") = "pinning"
  /\ cut' = TRUE
  /\ Ends(w, "worker")
  /\ UNCHANGED <<up, historyVars, trustVars, entries, crashes,
                 saved, pinned, overlapped>>

-----------------------------------------------------------------------------
Appends(w, th) ==
  \/ Message(w, th) \/ Call(w, th) \/ StartSave(w, th)
  \/ Write(w, th) \/ Replace(w, th) \/ SaveFails(w, th)

Next ==
  \/ Crash
  \/ \E w \in Worker :
       \/ Load(w) \/ Stop(w)
       \/ \E th \in Thread : Appends(w, th)
       \/ \E name \in Peer : Pin(w, name) \/ PinRefused(w, name)
       \/ PinSaved(w) \/ PinFails(w)

Spec == Init /\ [][Next]_vars

-----------------------------------------------------------------------------
Place == {"idle", "call", "lock", "write", "replace", "pinning", "dead"}

TypeOK ==
  /\ up \subseteq Worker
  /\ disabled \subseteq Worker
  /\ thread \in [Worker -> [Thread -> [pc : Place, entry : Nat]]]
  /\ history \in [Worker -> Seq(Nat)]
  /\ trust \in [Worker -> SUBSET Peer]
  /\ file \in [whole : BOOLEAN, entries : Seq(Nat)]
  /\ tmp \in [whole : BOOLEAN, entries : Seq(Nat)]
  /\ trustFile \in [whole : BOOLEAN, names : SUBSET Peer]
  /\ entries \in Nat
  /\ saved \subseteq Nat
  /\ pinned \subseteq Peer

(* history.py: "a crash mid-save can't corrupt history that was already    *)
(* durable before that append".  The file can always be read, holds every  *)
(* message whose append() returned, none twice, in the order of the        *)
(* worker's memory: unless two workers of the user are up at once, which   *)
(* share the temporary file and write over each other's entries.           *)
HistoryDurable ==
  ~overlapped =>
    /\ file.whole
    /\ saved \subseteq ToSet(file.entries)
    /\ IsInjective(file.entries)
    /\ \A w \in up : IsPrefix(file.entries, history[w])

(* A pin that was saved is never silently missing: every trust store that  *)
(* can be read has it, and so has every worker, although the store is      *)
(* written in place, by programs that are killed and to disks that are     *)
(* full.  One that a cut save left behind cannot be read, and is never     *)
(* taken for one with fewer pins, which a peer with another key could      *)
(* fill.  Unless two workers are up at once, which write over each other's *)
(* pins.                                                                   *)
PinsSurvive ==
  ~overlapped =>
    /\ trustFile.whole \/ cut \/ \E w \in up : Pc(w, "worker") = "pinning"
    /\ trustFile.whole => pinned \subseteq trustFile.names
    /\ \A w \in up : pinned \subseteq trust[w]

(* src/README.md: each session is "replaying its own history completely    *)
(* independently".  A message whose append() returned stays in the history *)
(* file, whatever the other sessions of the user append.                   *)
SavedMessagesStay ==
  saved \subseteq ToSet(file.entries)

(* src/README.md: "accepting pins it for future sessions".  A pin whose    *)
(* save() returned is in the store the next session reads, whatever the    *)
(* other sessions of the user pin.                                         *)
SavedPinsStay ==
  trustFile.whole => pinned \subseteq trustFile.names
=============================================================================
