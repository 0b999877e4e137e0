----------------------------- MODULE FileSender -----------------------------
(***************************************************************************)
(* A file transfer leaving a GUI worker (gui.py: _send_file, _send_raw),   *)
(* in a thread of its own beside the worker thread and stop() of           *)
(* PeerWorker.  Three lines look at self.channel, two at self.sock, and    *)
(* the worker may replace or clear either between any two of them.         *)
(*                                                                         *)
(* _send_lock is not in the model: the worker never takes it, and waiting  *)
(* for another sender only delays the step after GuardSock.                *)
(***************************************************************************)
EXTENDS PeerWorker, Sequences

CONSTANT Parts      \* frames of the transfer: the offer and its chunks

ASSUME PartsAssumption == Parts \in Nat \ {0}

VARIABLES
  sender,     \* where the sender thread is, the session it pinned, whether
              \* it was up, and the channel that sealed the frame to write
  wire        \* the frames written: sealed by which channel, on which
              \* connection

fileVars == <<sender, wire>>

FileInit ==
  /\ Init
  /\ sender = [at |-> "idle", session |-> None, live |-> FALSE,
               chan |-> None]
  /\ wire = <<>>

SenderAt(here, there) ==
  /\ sender.at = here
  /\ sender' = [sender EXCEPT !.at = there]

-----------------------------------------------------------------------------
\* "Send File" is pressed in a session; then a dialog waits for the user.
Choose ==
  /\ pc \in {"recv", "receiving"}
  /\ SenderAt("idle", "chosen")
  /\ UNCHANGED wire

\* session = self.channel: by now the connection may be lost, or another one.
Pin ==
  /\ sender.at = "chosen"
  /\ sender' = [sender EXCEPT !.at = "check", !.session = channel,
                              !.live = pc \in {"recv", "receiving"}]
  /\ UNCHANGED wire

\* Mutant: the session is not compared before each part.
CheckNot ==
  /\ SenderAt("check", "guard")
  /\ UNCHANGED wire

\* if self.channel is not session: raise ConnectionError(...).
Check ==
  /\ SenderAt("check", IF channel = sender.session THEN "guard" ELSE "failed")
  /\ UNCHANGED wire

\* if self.channel is None or self.sock is None: raise ConnectionError(...).
GuardChannel ==
  /\ SenderAt("guard", IF channel = None THEN "failed" ELSE "guardsock")
  /\ UNCHANGED wire

GuardSock ==
  /\ SenderAt("guardsock", IF sock = None THEN "failed" ELSE "encrypt")
  /\ UNCHANGED wire

\* self.channel.encrypt(plaintext): of None it is an AttributeError, which
\* _send_file does not catch.
Encrypt ==
  /\ sender.at = "encrypt"
  /\ sender' = IF channel = None
               THEN [sender EXCEPT !.at = "dead"]
               ELSE [sender EXCEPT !.at = "write", !.chan = channel]
  /\ UNCHANGED wire

\* transport.send_bytes(self.sock, framed), the same way.
WriteToNone ==
  /\ sock = None
  /\ SenderAt("write", "dead")
  /\ UNCHANGED wire

\* sendall() may notice a broken connection, or not.
WriteFails ==
  /\ sock # None
  /\ sock \notin alive
  /\ SenderAt("write", "failed")
  /\ UNCHANGED wire

Write ==
  /\ sock # None
  /\ SenderAt("write", IF Len(wire) + 1 = Parts THEN "sent" ELSE "check")
  /\ wire' = Append(wire, [chan |-> sender.chan, conn |-> sock])

SenderRuns ==
  \/ Choose \/ Pin \/ Check \/ GuardChannel \/ GuardSock
  \/ Encrypt \/ WriteToNone \/ WriteFails \/ Write

FileNext ==
  \/ Next /\ UNCHANGED fileVars
  \/ SenderRuns /\ UNCHANGED vars

FileSpec == FileInit /\ [][FileNext]_<<vars, fileVars>>

\* The worker and stop() run and time-outs expire; peers and users need do
\* nothing, except that a trust prompt, a modal dialog, is answered.
FileFairSpec ==
  FileSpec /\ WF_vars(WorkerRuns) /\ WF_vars(StopRuns) /\ WF_vars(AnswerPrompt)

-----------------------------------------------------------------------------
(* A transfer that began in a session leaves at most one frame sealed by   *)
(* another channel, and nothing after it: _send_file notices the change    *)
(* before the next chunk, however often the worker reconnects.             *)
StrayIsLast ==
  sender.live =>
    \A i \in 1 .. Len(wire) :
      wire[i].chan # sender.session => i = Len(wire)

(* Does not hold (README, "Seen while modelling"): what "Sent file" tells  *)
(* the user, that every part went out in the session that saw the offer.   *)
SentInOneSession ==
  sender.at = "sent" /\ sender.live =>
    \A i \in 1 .. Len(wire) :
      wire[i].chan = sender.session /\ wire[i].conn = sender.session

-----------------------------------------------------------------------------
SenderTypeOK ==
  /\ sender.at \in {"idle", "chosen", "check", "guard", "guardsock", "encrypt", 
                    "write", "sent", "failed", "dead"}
  /\ sender.session \in 0 .. made
  /\ sender.live \in BOOLEAN
  /\ sender.chan \in 0 .. made
  /\ wire \in Seq([chan : 1 .. made, conn : 1 .. made])
=============================================================================
