---------------------------- MODULE FileReceiver ----------------------------
(***************************************************************************)
(* Files arriving at GUI workers (gui.py: _handle_file_offer,              *)
(* _handle_file_chunk, _abort_inbound_transfers).  A peer sends several    *)
(* files at once, each from a thread of its own, over the one stream of    *)
(* the session; it may run into a file that changed since its digest was   *)
(* taken, and give up in the middle.  Connections are lost and made anew,  *)
(* the disk fills up, and all workers save into one directory, where every *)
(* file here wants the same name.                                          *)
(*                                                                         *)
(* A chunk is one unit of size.  The guards against offers of no size, of  *)
(* too large a size or without meaning are not met: no PeerWorker sends    *)
(* such an offer.                                                          *)
(***************************************************************************)
EXTENDS Integers, SequencesExt

CONSTANTS
  Worker,       \* receiving workers, one peer each
  Transfer,     \* file transfers
  Routes,       \* which transfer goes to which worker: the cases looked at
  Size,         \* chunks in each file
  MaxInbound,   \* MAX_CONCURRENT_INBOUND_TRANSFERS
  MaxReconnects,\* bound: how many connections are lost
  MaxOnWire,    \* bound: frames on the way before sendall() blocks
  MaxStuck      \* bound: how many files cannot be removed

ASSUME RoutesAssumption == Routes \subseteq [Transfer -> Worker]
ASSUME SizeAssumption == Size \in Nat \ {0}
ASSUME MaxInboundAssumption == MaxInbound \in Nat
ASSUME MaxStuckAssumption == MaxStuck \in Nat

VARIABLES
  to,          \* to[t]: the worker t goes to
  sender,      \* sender[t]: where the sending thread is, the session it
               \* pinned, and how many chunks it has sent
  session,     \* session[w]: the number of the connection of w and its peer
  wire,        \* wire[w]: the frames on the way to w
  at,          \* at[w]: what w's thread is doing
  inbound,     \* inbound[w]: self._inbound_transfers, by transfer
  disk,        \* the files in FILE_RECV_DIR: what was written to each path
  reported,    \* the transfers reported as received, and where
  stuck,       \* paths of files that could not be removed
  overrun      \* paths opened by one worker while another was using them

peer == <<to, sender, session>>
store == <<inbound, disk, reported, stuck, overrun>>
vars == <<peer, wire, at, store>>

Receiving == [pc |-> "recv"]

\* A chunk of t, as it was when the digest was taken or not; every prefix of
\* a file is a prefix of Content(t).
Part(t, i, same) == [transfer |-> t, part |-> i, same |-> same]
Content(t) == [i \in 1 .. Size |-> Part(t, i, TRUE)]
Hole == [transfer |-> "none", part |-> 0, same |-> FALSE]

\* The names "x", "x (1)", "x (2)", ...
Path == 0 .. Cardinality(Transfer)

Init ==
  /\ to \in Routes
  /\ sender = [t \in Transfer |-> [at |-> "idle", session |-> 0, sent |-> 0]]
  /\ session = [w \in Worker |-> 1]
  /\ wire = [w \in Worker |-> << >>]
  /\ at = [w \in Worker |-> Receiving]
  /\ inbound = [w \in Worker |-> << >>]
  /\ disk = << >>
  /\ reported = {}
  /\ stuck = {}
  /\ overrun = {}

-----------------------------------------------------------------------------
(* The peer: _send_file, as FileSender shows it to behave.  Nothing forces *)
(* it on: the file may be cut or unreadable, and the sender gives up.      *)

Transmit(t, frame) ==
  /\ Len(wire[to[t]]) < MaxOnWire
  /\ wire' = [wire EXCEPT ![to[t]] = Append(@, frame)]

\* The session is pinned; after that it is looked at before every frame, so
\* that at most one frame gets into another session (FileSender!StrayIsLast).
Pin(t) ==
  /\ sender[t].at = "idle"
  /\ sender' = [sender EXCEPT ![t].at = "offer", ![t].session = session[to[t]]]
  /\ UNCHANGED <<to, session, wire, at, store>>

Stays(t, next) == IF sender[t].session = session[to[t]] THEN next ELSE "over"

SendOffer(t) ==
  /\ sender[t].at = "offer"
  /\ sender' = [sender EXCEPT ![t].at = Stays(t, "chunks")]
  /\ Transmit(t, [kind |-> "offer", transfer |-> t])
  /\ UNCHANGED <<to, session, at, store>>

\* The file is read again while it is sent: it may have changed, or grown.
SendChunk(t, same) ==
  LET i == sender[t].sent + 1 IN
  /\ sender[t].at = "chunks"
  /\ i <= Size + 1
  /\ i > Size => ~same
  /\ sender' = [sender EXCEPT ![t].at = Stays(t, "chunks"), ![t].sent = i]
  /\ Transmit(t, [kind |-> "chunk", transfer |-> t, data |-> Part(t, i, same)])
  /\ UNCHANGED <<to, session, at, store>>

-----------------------------------------------------------------------------
(* _handle_file_offer.                                                     *)

Arriving(w) == Head(wire[w])
Read(w) == wire' = [wire EXCEPT ![w] = Tail(@)]

\* With all slots taken the offer is refused.
ReadOffer(w) ==
  /\ at[w] = Receiving /\ wire[w] # << >> /\ Arriving(w).kind = "offer"
  /\ at' = [at EXCEPT ![w] =
       IF Cardinality(DOMAIN inbound[w]) >= MaxInbound THEN Receiving
       ELSE [pc |-> "look", transfer |-> Arriving(w).transfer, path |-> 0]]
  /\ Read(w)
  /\ UNCHANGED <<peer, store>>

\* Mutant: the name is taken as it is.
LookNot(w) ==
  /\ at[w].pc = "look"
  /\ at' = [at EXCEPT ![w].pc = "open"]
  /\ UNCHANGED <<peer, wire, store>>

\* _unique_dest_path tries one name after the other ...
Look(w) ==
  /\ at[w].pc = "look"
  /\ at' = IF at[w].path \in DOMAIN disk
           THEN [at EXCEPT ![w].path = @ + 1]
           ELSE [at EXCEPT ![w].pc = "open"]
  /\ UNCHANGED <<peer, wire, store>>

UsedByOthers(w, path) ==
  \E v \in Worker \ {w} : \E t \in DOMAIN inbound[v] : inbound[v][t].path = path

\* ... and open(dest, "wb") creates the file, or truncates what has come to
\* be there since.
Open(w) ==
  /\ at[w].pc = "open"
  /\ LET path == at[w].path IN
     /\ disk' = [p \in DOMAIN disk \cup {path} |->
                   IF p = path THEN << >> ELSE disk[p]]
     /\ inbound' = [inbound EXCEPT ![w] =
          [t \in DOMAIN @ \cup {at[w].transfer} |->
             IF t = at[w].transfer THEN [path |-> path, digest |-> << >>]
             ELSE inbound[w][t]]]
     /\ stuck' = stuck \ {path}
     /\ overrun' = IF path \in DOMAIN disk
                      /\ (UsedByOthers(w, path)
                          \/ \E r \in reported : r.path = path /\ to[r.transfer] # w)
                   THEN overrun \cup {path} ELSE overrun
  /\ at' = [at EXCEPT ![w] = Receiving]
  /\ UNCHANGED <<peer, wire, reported>>

OpenFails(w) ==
  /\ at[w].pc = "open"
  /\ at' = [at EXCEPT ![w] = Receiving]
  /\ UNCHANGED <<peer, wire, store>>

-----------------------------------------------------------------------------
(* _handle_file_chunk.                                                     *)

ArrivingChunk(w) ==
  at[w] = Receiving /\ wire[w] # << >> /\ Arriving(w).kind = "chunk"

Slot(w) == inbound[w][Arriving(w).transfer]
Offered(w) == Arriving(w).transfer \in DOMAIN inbound[w]

\* A handle writes where it left off, whatever others did to the file.
Written(file, pos, data) ==
  [i \in 1 .. Max({Len(file), pos}) |->
     IF i = pos THEN data ELSE IF i <= Len(file) THEN file[i] ELSE Hole]

Without(f, x) == [y \in DOMAIN f \ {x} |-> f[y]]

\* unlink() of each of the paths.  Its OSError is ignored, and the file stays.
Unlink(paths) ==
  \E stay \in SUBSET (paths \cap DOMAIN disk) :
    /\ stuck' = (stuck \ paths) \cup stay
    /\ Cardinality(stuck') <= MaxStuck
    /\ disk' = [p \in DOMAIN disk \ (paths \ stay) |-> disk[p]]

\* The slot is given up and the file removed, if it can be.
Discard(w, t) ==
  /\ inbound' = [inbound EXCEPT ![w] = Without(@, t)]
  /\ Unlink({inbound[w][t].path})

\* No matching offer: it was refused, could not be opened, or the transfer
\* is over.
DropChunk(w) ==
  /\ ArrivingChunk(w) /\ ~Offered(w)
  /\ Read(w)
  /\ UNCHANGED <<peer, at, store>>

\* The disk is full.
WriteFails(w) ==
  /\ ArrivingChunk(w) /\ Offered(w)
  /\ Discard(w, Arriving(w).transfer)
  /\ Read(w)
  /\ UNCHANGED <<peer, at, reported, overrun>>

\* What w's handle has written with the arriving chunk.
Got(w) == Append(Slot(w).digest, Arriving(w).data)

\* (Another worker may have removed the file: then w writes to no path.)
WriteChunk(w) ==
  LET path == Slot(w).path IN
  disk' = IF path \in DOMAIN disk
          THEN [disk EXCEPT ![path] = Written(@, Len(Got(w)), Arriving(w).data)]
          ELSE disk

\* Mutant: the transfer waits for more than it was promised.
CompletesLate(w) == Len(Slot(w).digest) + 1 > Size

Completes(w) == Len(Slot(w).digest) + 1 >= Size

Store(w) ==
  /\ ArrivingChunk(w) /\ Offered(w) /\ ~Completes(w)
  /\ WriteChunk(w)
  /\ inbound' = [inbound EXCEPT ![w][Arriving(w).transfer].digest = Got(w)]
  /\ Read(w)
  /\ UNCHANGED <<peer, at, reported, stuck, overrun>>

\* The last chunk: the slot is free, and the file stays if its digest is the
\* one of the offer.
Complete(w) ==
  /\ ArrivingChunk(w) /\ Offered(w) /\ Completes(w)
  /\ LET t == Arriving(w).transfer IN
     \/ /\ Got(w) = Content(t)
        /\ WriteChunk(w)
        /\ inbound' = [inbound EXCEPT ![w] = Without(@, t)]
        /\ reported' = reported \cup {[transfer |-> t, path |-> Slot(w).path]}
        /\ UNCHANGED stuck
     \/ /\ Got(w) # Content(t)
        /\ Discard(w, t)
        /\ UNCHANGED reported
  /\ Read(w)
  /\ UNCHANGED <<peer, at, overrun>>

\* An error making the directory for an offer, or closing a finished file, is
\* one that nobody handles: the thread ends, its slots and files as they are.
Dies(w) ==
  /\ at[w] = Receiving /\ wire[w] # << >>
  /\ \/ /\ Arriving(w).kind = "offer"
        /\ Cardinality(DOMAIN inbound[w]) < MaxInbound
     \/ /\ Arriving(w).kind = "chunk"
        /\ Offered(w)
        /\ Completes(w)
  /\ at' = [at EXCEPT ![w] = [pc |-> "dead"]]
  /\ Read(w)
  /\ UNCHANGED <<peer, store>>

-----------------------------------------------------------------------------
\* Mutant: the partial files stay.
AbortedFilesStay(w) ==
  /\ inbound' = [inbound EXCEPT ![w] = << >>]
  /\ UNCHANGED <<disk, stuck>>

\* _abort_inbound_transfers.
AbortInboundTransfers(w) ==
  /\ inbound' = [inbound EXCEPT ![w] = << >>]
  /\ Unlink({inbound[w][t].path : t \in DOMAIN inbound[w]})

\* The connection is lost with what is on it; the worker notices between two
\* frames, gives up its transfers and connects again.
Reconnect(w) ==
  /\ at[w] = Receiving
  /\ FoldFunction(+, 0, session) < Cardinality(Worker) + MaxReconnects
  /\ session' = [session EXCEPT ![w] = @ + 1]
  /\ wire' = [wire EXCEPT ![w] = << >>]
  /\ AbortInboundTransfers(w)
  /\ UNCHANGED <<to, sender, at, reported, overrun>>

Send(t) ==
  Pin(t) \/ SendOffer(t) \/ \E same \in BOOLEAN : SendChunk(t, same)

Receive(w) ==
  \/ ReadOffer(w) \/ Look(w) \/ Open(w) \/ OpenFails(w)
  \/ DropChunk(w) \/ WriteFails(w) \/ Store(w) \/ Complete(w)
  \/ Dies(w)

Next ==
  \/ \E t \in Transfer : Send(t)
  \/ \E w \in Worker : Receive(w) \/ Reconnect(w)

Spec == Init /\ [][Next]_vars

-----------------------------------------------------------------------------
TypeOK ==
  /\ \A t \in Transfer : sender[t].at \in {"idle", "offer", "chunks", "over"}
  /\ \A w \in Worker : at[w].pc \in {"recv", "look", "open", "dead"}
  /\ \A w \in Worker : DOMAIN inbound[w] \subseteq Transfer
  /\ DOMAIN disk \subseteq Path
  /\ \A r \in reported : r.transfer \in Transfer /\ r.path \in Path
  /\ stuck \subseteq Path

(* A file reported as received holds what was offered, byte for byte, and  *)
(* keeps it: whatever is interleaved on the stream, changed, cut or left   *)
(* over from another session, and however many files of that name come     *)
(* after it.  Unless two workers opened the same path between looking for  *)
(* a free one and creating it, which nothing in the code prevents.         *)
ReceivedIsWhole ==
  \A r \in reported : r.path \notin overrun =>
    r.path \in DOMAIN disk /\ disk[r.path] = Content(r.transfer)

(* Says of all workers together what the repository's README.md:336-341    *)
(* says: the digest is checked "instead of silently saving corrupted       *)
(* data", and "Received files are [...] deduplicated by appending (1),     *)
(* (2), ... on a name collision".  _unique_dest_path looks for a free name *)
(* and open() takes it (gui.py:761-763), in the threads of several         *)
(* sessions.  Does not hold.                                               *)
SavedAsSent ==
  \A r \in reported : r.path \in DOMAIN disk /\ disk[r.path] = Content(r.transfer)

(* Whatever goes wrong, every file in the directory was received, is under *)
(* way or could not be removed, and is only one of these: no cause of      *)
(* failure forgets a file, and neither a file under way nor one that was   *)
(* to be removed is one the user was told of.                              *)
Received(p) == \E r \in reported : r.path = p
UnderWay(p) == \E w \in Worker : \E t \in DOMAIN inbound[w] : inbound[w][t].path = p

FilesAccountedFor ==
  \A p \in DOMAIN disk \ overrun :
    /\ Received(p) \/ UnderWay(p) \/ p \in stuck
    /\ ~(Received(p) /\ UnderWay(p))
    /\ p \in stuck => ~Received(p) /\ ~UnderWay(p)

(* A slot outlives its transfer only if the sender gave up short of the    *)
(* size it had announced: when all frames are read, every slot still taken *)
(* waits for chunks that were not sent, and there are MaxInbound at most.  *)
SlotsAreOwed ==
  \A w \in Worker :
    /\ Cardinality(DOMAIN inbound[w]) <= MaxInbound
    /\ (wire[w] = << >> /\ at[w].pc # "dead") => \A t \in DOMAIN inbound[w] : sender[t].sent < Size
=============================================================================
