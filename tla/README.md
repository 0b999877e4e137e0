# Verification of Cryptography_II_proj (SecureComms)

TLA+ models, TLC runs and TLAPS proofs for the encrypted messenger in `src/`:
a mutual handshake, a channel with a symmetric and a Diffie-Hellman ratchet, a
CLI client and server, and a Tk GUI with background workers.

- Check a module: `tlc -workers 2 -config <X>.cfg <MC module>`
- Check the proofs: `tlapm <X>Theorems.tla`

## 1. Inventory

| part | source | state it keeps | operations | interacts with |
|---|---|---|---|---|
| Ratchet | `ratchet.py` | `SendingChain`: chain key, counter; `ReceivingChain`: chain key, next counter, cached skipped keys | `dh_ratchet_step`, `SendingChain.next`, `ReceivingChain.key_for` | called by SecureChannel only |
| SecureChannel | `secure_channel.py` | root key, sending chain, receiving chains by start counter, both ratchet keys, messages since rekey, owed step, send counter, replay window | `encrypt`, `decrypt` | called by the chat loops and by PeerWorker, on the GUI from two or more threads |
| Handshake | `handshake.py` | per attempt a dict: the own ephemeral key pair, the other's name and ephemeral key | `initiator_start/finish`, `responder_respond/finish` | reads the trust store, makes the SecureChannel |
| Framing | `transport.py` | none | `send_bytes`, `recv_bytes`, `send_json`, `recv_json` | TCP socket |
| CLI | `client.py`, `server.py` | position in the loop | chat loop, `handle_connection`, accept loop | handshake, channel, limiter, trust store |
| Rate limiters | `rate_limiter.py` | failures and blocks per address, in memory or in SQLite | `is_blocked`, `record_failure`, `record_success`, `seconds_until_unblocked` | accept loops of server and GUI host |
| Identity, TrustStore | `identity.py` | key file; pinned name -> key, one JSON file | `save`, `load`, `pin`, `repin`, `verify_and_pin_interactive` | handshake, every worker of one user |
| PeerWorker | `gui.py` | socket, channel, listening socket, stop event, attempt count | connect/host loop with back-off, receive loop, `send`, `send_file`, `stop` | GUI thread through an event queue and `threading.Event`s |
| File transfer | `gui.py` | inbound transfers by id, partial files | offer, chunk, abort, `_send_file` | PeerWorker's channel |
| SecureCommsApp | `gui.py` | session tabs, pending slot | poll events, start, disconnect | PeerWorkers |
| Chat history | `history.py` | encrypted file | `load`, `append` | PeerWorker |
| Padding, primitives, audit log | `padding.py`, `crypto_utils.py`, `audit_log.py` | none | pure functions; logging | SecureChannel, handshake |

### What is hard, and what correct means

- **Channel.** Rekeys are triggered from both sides (reactive, by count, by
  time) and are announced in-band; frames may be lost, repeated, late or
  damaged. Correct: every plaintext is returned at most once and only if the
  peer sealed it; no key seals two frames; a late frame inside the window opens;
  rejected frames change nothing that matters; memory is bounded; the two roots
  stay in step.
- **Chat loops.** Two single-threaded loops that block in `input()` or
  `recv_bytes()`. Correct: never both in `recv_bytes()` with nothing under way;
  `/quit` and a hang-up end both.
- **GUI worker.** Three kinds of thread share `sock`, `channel` and the stop
  event with one lock around `encrypt` only. Correct: `stop()` ends the thread
  wherever it is; a frame is sealed by the channel of the connection it is sent
  on; a file reported as sent was received by a session that knew its offer.
- **Handshake.** Two programs of either kind, each with users who decline, quit,
  lose keys and clear trust stores; the connecting side gives up and tries again
  while the listening side may be serving an earlier connection. Correct: two
  ends in one session have mirrored keys that nobody else has; honest peers are
  never told of an attack; only the peer's doing counts against it; every
  attempt comes to an end.
- **Incoming files.** Chunks of several transfers on one stream, refused offers,
  full disks, lost connections, and one directory for all workers. Correct: what
  is reported as received is whole and stays; nothing else is left in the directory
  but files that could not be removed;
  slots come free.
- **Limiters.** Check-then-act on persistent state, by several accept loops.
  Correct: same throttling from both limiters, blocks hold.
- **History, trust store.** Whole-file saves, from two threads of a worker and from
  several workers, with crashes in between. Correct: nothing saved is lost.

PROJECT.json lists each hazard at its line with the properties that watch it.

## 2. Modules

| module | models | kind |
|---|---|---|
| `Ratchet` | `ratchet.py` | operators on chain records |
| `ReplayWindow` | `_check_freshness`, `_mark_seen` | operators on window records |
| `SecureChannel` | `class SecureChannel` | operators: one per step and per exit of `encrypt` / `decrypt` |
| `MessageChannel` | what a session promises | abstract specification |
| `DatagramLink` | two channels on a link that loses, repeats, reorders, damages | state machine, implements `MessageChannel` |
| `TcpLink` | two channels on a TCP stream, both ends talking at will | state machine, implements `MessageChannel` (proved) |
| `CliChat` | the loops of `client.py` and `server.py` on `TcpLink` | state machine, implements `TcpLink` (proved) |
| `GuiChannel` | `encrypt` and `decrypt` of one channel in two threads of the GUI, on `TcpLink` | state machine, implements `MessageChannel` (proved) |
| `PeerWorker` | the worker thread, `stop()`, the trust prompt (`gui.py`) | state machine |
| `FileSender` | `_send_file` and `_send_raw` beside a `PeerWorker` | state machine |
| `Throttle` | what a rate limiter promises | abstract specification |
| `MemoryRateLimiter`, `SQLiteRateLimiter` | the two classes of `rate_limiter.py` | state machines, implement `Throttle` |
| `RateLimiters` | both limiters, given the same attempts | composition |
| `SessionTabs` | the slot, the tabs and the event queue of the window (`gui.py`) | state machine |
| `Handshake` | `handshake.py` as driven by `client.py`, `server.py` and `PeerWorker`, from `connect` to the session, with trust on first use (`identity.py`) and the accept loop's limiter | state machine |
| `FileReceiver` | `_handle_file_offer`, `_handle_file_chunk`, `_abort_inbound_transfers`, `_unique_dest_path` (`gui.py`) | state machine |
| `UserFiles` | `history.py` and the saving of pins (`identity.py`), as PeerWorkers use them | state machine |
| `Padding` | `padding.py`, and the size of a frame against `MAX_FRAME_SIZE` | operators |
| `MC*` | quotas, routes and symmetry of the runs | instances |
| `SecureChannelTheorems`, `DatagramLinkTheorems`, `TcpLinkTheorems` (with `CliChat`, `GuiChannel`), `HandshakeTheorems`, `RateLimiterTheorems`, `GuiTheorems` (`PeerWorker`, `FileSender`, `SessionTabs`, `Padding`), `UserFilesTheorems`, `FileReceiverTheorems` | | proofs |

### How state and actions correspond to the code

- *Keys are symbolic.* HKDF and HMAC are injective, so a key is named by its
  derivation: a root is the sequence of DH outputs mixed into it, a chain key is
  a root and a label, a message key is a chain key and a step. Equal names are
  equal keys. `DH(a, b)` is the set `{a, b}`, the commutativity `derive_shared_secret`
  relies on. A ratchet key pair is `[owner, gen]`.
- *A frame* is `[pub, ctr, seal]`. AES-GCM is modelled by what it does:
  decryption succeeds iff key, nonce (the counter) and associated data (flag,
  key, counter) are those of the seal and the bytes are intact.
- *The bitmap* of `_mark_seen` is the set of its one bits, shifted and masked as in
  the code. *The dict* `_skipped` is the set of its step numbers: a cached key is
  a function of the step.
- *`decrypt`* leaves by one of five exits: `IsStale` (ReplayError), `IsOrphan`
  (`max()` of nothing, ValueError), `IsPassed` (ChainDesync re-raised as
  TamperError), `IsForeign` (the tag fails; `key_for` has already stepped the
  stored chain) and `Accepts`. A candidate chain is a local object until the
  frame authenticates: `AfterKeyDerivation` steps stored chains only.
- *Time.* `timeDue`, a free Boolean at each send, stands for
  `time.monotonic() - last_rekey >= REKEY_INTERVAL_SECONDS`.
- *`DatagramLink`*: frames stay in `net` for ever. A lost frame is one never
  received again, a duplicate is one received twice, so one action per
  `decrypt` outcome covers loss, repetition and every order. `Damage` makes a
  copy with flipped ciphertext, flag or counter bits.
- *`TcpLink`*: `wire[p]` is the stream towards `p`; `Reject` is the
  `except (ReplayError, TamperError): ... continue` of the readers.
- *`CliChat`*: `pc` is where a loop blocks. `Type` is `input`, `encrypt`,
  `send_bytes` (and `break` after a `/quit`), `ReadFrame` is `recv_bytes`,
  `decrypt` and the branch after it, `Hangup` the `ConnectionError` of
  `recv_bytes`, `Interrupt` Ctrl+C or a dying connection, which may hit at any point.
- *`GuiChannel`* splits `encrypt` (under `_send_lock`) and `decrypt` (without it) at
  every read and write of `_root_key`, `_my_ratchet_priv`,
  `_peer_ratchet_pub_bytes` and `_send_ratchet_owed`, the attributes both touch;
  what one thread alone uses goes with the step before it.
- *`PeerWorker`*: `pc` is the worker's place in `_run_loop`, `_run_host`,
  `_run_connect` and `_recv_loop`; a step is one access to `sock`, `channel`,
  `_srv` or `_stop_event`, or a blocking call, which ends as the network, the
  peer and the clock decide. Connections are numbered, and the channel a
  handshake makes carries the number of its connection. `gui` is the progress
  of `stop()`, with its snapshots. A connection outside `alive` has been broken,
  shut down or closed; what arrived before can still be read.
- *`FileSender`* adds the sender thread. The session is looked at three times per
  part (comparison, guard, `encrypt`) and the socket twice (guard, `sendall`),
  each in its own step. `wire` remembers which channel sealed each part and which
  connection carried it. Contents, sizes and digests are abstracted: a transfer
  is `Parts` frames.
- *`SessionTabs`* has of a worker only what it puts into the queue, in its order.
  The window handles events between `Poll` and `PollEnd` and users act outside, since
  both are one thread; a modal dialog is part of the step that shows it.
- *`Handshake`*: `kind` says which program a side is: a terminal program, which
  waits without limit and ends, or a worker, which gives up after
  `HANDSHAKE_TIMEOUT` and goes on. `conns` are all TCP connections so far, with the
  messages on the way to each side and who has closed; `backlog` are those not
  accepted yet, `strikes` what the limiter has on record. Signatures are symbolic: a
  signature is its key and text, and verifies under nothing else. A derived
  `Channel` holds both direction keys, the root and whose ephemeral key is whose, named by
  their HKDF inputs. `EditFiles` is a user who starts with a new key or without
  a trust store (with `key` counting the keys), `Quit` a kill or a disconnect. Of the
  session only its end is modelled.
- *`FileReceiver`*: the unit of size is a chunk. `at` splits `_handle_file_offer` at
  the look for a free name (one step per name) and the `open`; a chunk is one step,
  as nobody else touches the slot. `wire` is the decrypted stream of one session;
  `Reconnect` is the loss of the connection with what is on it. The sender follows
  what `FileSender` shows: at most one frame goes into another session
  (`StrayIsLast`). `Dies` is an `OSError` of `mkdir` or `close` that ends the thread.
  `overrun` remembers paths that one worker opened while another one's file was there.
- *`UserFiles`*: `thread` is how far each of a worker's two threads is in an append
  (found `self.history`, waiting for its lock, writing the temporary file, replacing)
  or the worker in a pin. A file that was truncated and not written is not `whole`.
  `saved`, `pinned`, `overlapped` and `cut` are for the properties only.
- *`Padding`*: bytes are numbers and the conversions are computed, since the length
  prefix and the bucket are what the theorems are about.
- *Limiters*: `now` is the clock in seconds; an address has its failures in the order
  in which they were recorded, and the end of its block; a transaction is a step.
  `SQLiteRateLimiter` has a set of accept loops (`Worker`) on one file, each between
  `is_blocked` and the outcome of its handshake; `is_blocked` is two transactions
  (SELECT, DELETE) and is two steps. `Throttle` has no clock: it keeps how long ago each
  failure was and for how long an address is still refused.

## 3. Runs

| run | instance | states | shows |
|---|---|---|---|
| `datagram` | 4 + 2 frames, one damaged copy, rekey at any message, window 3, 1 skipped key, 2 chains | 279993 | `Ledger`, `WindowExact`, `UsedKeysAreGone`, `LateFrameOpens`, `NoKeyReuse`, `HealsOnReply`, `RejectionBurnsNothing`, `OnlyExcessIsEvicted`, `ImplementsMessageChannel` |
| `tcp_full_duplex` | 4 frames each way | 40661 | `OpensUnlessForked`, `AgreeWhenQuiet`, `ForkIsForEver`, `ReadInTheEnd` |
| `cli_chat` | 4 messages each, the last a `/quit` | 288 | `ChatNeverAlerts`, `NoMutualWait`, `QuitEndsBoth`, `HangupIsNoticed` |
| `gui_threads` | 3 + 2 frames, attribute by attribute | 291643 | `ThreadsReuseNoKey`, `KnownEpochOpens` |
| `handshake` | any two programs, 3 connections, 1 kill, 1 change of a user's files, blocked after 2 failures | 317250 | `KeysMeet`, `NoFalseAlarm`, `PenaltyIsDeserved`, `Settles` |
| `rate_limiters` | 2 addresses, 3 attempts in 2 s, cooldown 3 s, one accept loop | 18444 | `ImplementsThrottle`, `MemoryImplementsThrottle`, `BlocksHold` |
| `file_transfer` | both roles, 3 connections, an offer and 2 chunks | 289299 | `StrayIsLast`, `ReadsOwnSession`, `StopUnblocks`, `StopEnds`, `HandshakeEnds` |
| `file_receiver` | 3 files of 2 chunks and one name, to one worker with 2 slots or to two, 1 reconnect, 1 file that cannot be removed | 4756806 | `ReceivedIsWhole`, `FilesAccountedFor`, `SlotsAreOwed` |
| `user_files` | 2 workers of 2 threads, 3 messages, 2 pins, 1 crash | 2331134 | `HistoryDurable`, `PinsSurvive` |
| `session_tabs` | 2 sessions, 3 connects, prompts or file errors between them | 324155 | `OneHome`, `InputFollowsSession`, `SlotIsFreed`, `PromptIsAnswered` |
| `tcp_crossing` | 3 frames each way | | violates `AnnouncementsOpen` |
| `gui_torn` | as `gui_threads` | | violates `RekeyNotTorn` |

Each state machine has a type invariant as well (`TypeOK`, `ChatTypeOK`, `GuiTypeOK`,
`SenderTypeOK`, `TabsTypeOK`, `LimiterInv`); where it is not part of an invariant listed here it is not in
the configuration, but holds when it is added.

**Bounds.** The code's constants are 20 messages per epoch, a window of 1024, 1024
skipped keys and 3 chains. The runs shrink them so that few frames cross
every limit: with an epoch of 2, four frames and the answers to them are three epochs,
more than the two chains retained; a window of 3 is left behind by the fourth frame.
`Quota` bounds the messages of a side, `MaxDamage` the damaged copies, and nothing else
bounds the behaviour of a link. In `datagram` one skipped key fills
the cache, so that every second one evicts: when a frame of a new epoch overtakes
its announcement, is tried on the old chain and is rejected, but has made `key_for` cache the
steps it jumped over; and when a frame of a chain of four is skipped in the usual way. What that may cost is
part of the properties (`Crowded`, and the range of steps in `LateFrameOpens`), and nothing else
is. The clock and the debt make its rekeys, at any message; the count
does in the runs with an epoch of 2. A frame of an epoch that the receiver has not heard
of is left out of `OnlyExcessIsEvicted`, since a rekey of the receiver's own can make its announcement
unacceptable.

In `Handshake` three connections are one that fails, one that waits behind it in the
backlog, and one more that can overtake; `MaxQuits` and `MaxEdits` are how often
users kill a program or change files. A peer that was pinned, then lost its
key, and is pinned again needs two edits in the code's order and is covered as far as
the mismatch. `MaxAttempts` is 2, so that a first failure does not block and a second
does. In `FileReceiver` three files and two slots make one offer be refused; a file of two
chunks has a first, a last, a missing and a surplus one; `MaxOnWire` stands for the
socket's buffer, and `MaxStuck` is how many files an `unlink` may fail to remove. Two of
the files go the same way in both routes and are symmetric. In `UserFiles` three messages are one on disk, one being saved and one
waiting for the lock.

In `PeerWorker`, `MaxConnections` bounds reconnects: three are the session in which a transfer
starts, the one that replaces it, and one more in which a handshake that broke
off after the channel was made can leave its traces. `MaxTime` ends the limiter's
clock after a block has begun, ended and could begin again; the clock only
advances (`rate_limiter.py:96` accepts that setting it back lengthens blocks).
`MaxRounds` counts what sessions can repeat, in all: three are a prompt, a
connection and the reconnect after it, in one session or spread over two.

**Fairness.** `TcpLink` assumes weak fairness of each reader: a reader thread
blocks in `recv_bytes` and nowhere else, and TCP delivers. `CliChat` assumes it
of the two loops when they are in `recv_bytes`. Users are never assumed to type,
clocks never to advance. `FileFairSpec` assumes weak fairness of what the worker
thread does by itself or by a time-out (`WorkerRuns`: HANDSHAKE_TIMEOUT, the half
second of `accept`, the 200 ms of `_reconnect_wait`, reads that fail), of the four
statements of `stop()`, and of the answer to a trust prompt, which is a modal
dialog: `_ask_trust` waits for it without a time-out, so without this assumption
a `stop()` may wait for ever. Peers need do nothing (`PeerActs`), nor the sender thread. `Handshake!FairSpec`
assumes weak fairness of each running program (its next read, its time-outs, its
accept loop, and for a worker of the window its `_recv_loop`, which reads all the time) and
of the answers to its prompts; nobody is assumed to start, quit or hang
up, and the limiter need not cool down. A terminal program in a session waits in `input()`
(`client.py:106`, `server.py:115`) and learns that its peer has gone when its user types, if ever,
so it is not assumed to notice: `Settles` lets such a session of a gone peer
stand (`Abandoned`), and demands of every other attempt that it ends, or that both are in. `SessionTabs` shows
where the assumption comes from: it assumes weak fairness of the window's own
loop alone (`_poll_events` runs every 100 ms, dialogs are answered), and every
prompt is answered, even that of a closed tab.

**Deadlock.** Links, limiters and files stop when their quotas or the time are used
up, programs and workers end, so those runs do not check it. `cli_chat` does, with an explicit stuttering step once both loops have ended.

## 4. Proofs

A theorem holds for every value of the constants; its run shows the same property
on one instance. Every invariant and every action property that a passing run
checks is stated by a theorem; what is left to TLC is liveness.

| module | theorems |
|---|---|
| `DatagramLinkTheorems` | `Invariance`, `TypeCorrectness`, `WindowIsExact`, `Refinement` (implements `MessageChannel`); `LedgerHolds`, `NonceIsSafe`, `ForwardSecrecy`, `HealingIsPrompt`, `LateFramesOpen`, `RejectionIsFree`, `EvictionIsExact` |
| `TcpLinkTheorems` | `TcpLink`: `LinkHolds`, `OpensUntilFork`, `ForkLasts`, `QuietAgreement`, `ShownInOrder`, `StreamRefinement` (implements `MessageChannel`); `CliChat`: `ChatHolds`, `ChatIsQuiet`, `ChatNeverStalls`, `ChatIsASession` (implements `TcpLink`), `ChatShowsAll`; `GuiChannel`: `ThreadInvariance`, `ThreadsKeepNonces`, `ThreadsLoseNoKnownEpoch`, `ThreadsShowInOrder`, `ThreadRefinement` (implements `MessageChannel`) |
| `HandshakeTheorems` | `StagesHold`, `KeysOfBothEnds`; `HandshakeInvariance`, `NoAlarm`, `OnlyMismatchesCount`, `SessionsAreMutual` |
| `FileReceiverTheorems` | `ReceiverInvariance`, `ReceivedFilesAreWhole`, `DirectoryIsAccountedFor`, `SlotsAreNotLost` |
| `GuiTheorems` | `PeerWorker`: `WorkerInvariance`, `OwnSession`, `StopNeverMisses`; `FileSender`: `AtMostOneStray`; `SessionTabs`: `TabsInvariance`, `SessionsHaveOneHome`, `InputIsRight`; `Padding`: `RoundTrip`, `SizeIsABucket`, `ChunksFit` |
| `RateLimiterTheorems` | `LimiterInvariance`, `OneLoopBlocksHold`; `DatabaseThrottles`, `MemoryThrottles` (both implement `Throttle`) |
| `UserFilesTheorems` | `HistoryIsDurable`, `SavedPinsSurvive` |
| `SecureChannelTheorems` | lemmas about the channel's operators |

Each safety proof is an inductive invariant. It is defined in the theorem module (`Ledger`
in `DatagramLink`, where its parts are properties of the run), and TLC checked it on the
instance of the run before it was proved.

### The channel on a datagram link

`WindowExact` says that a counter is fresh iff its message was not
returned and it is not older than the window. It is not inductive alone: an
accepted frame marks its wire counter and is counted under the number it was
sealed under, and that the two agree follows from `Opens` (the tag covers the
counter), whereas that the number is a `Message` at all needs the invariant
that every frame on the link was sealed under a counter its sender has used,
and none beyond its quota. These four conjuncts are `IInv`. The heart of the
step is `MarkSeenExact`: after `MarkSeen(w, n)` a counter is fresh iff it was,
is not `n`, and is still inside the moved window - the shift-and-mask
arithmetic, for every window size. Types rest on lemmas per step of the channel
(`RootStepType`, `EncryptType`, `KeyDerivationType`, `AcceptType`) in
`SecureChannelTheorems`. Refinement: every step of `DatagramLink` is a `Submit`, a
`Deliver` or a stutter of `MessageChannel`, from `IInv`.

`Ledger` is about keys. `NoKeyReuse` cannot be had from the chains an end holds now: what
must be excluded is that a chain comes back, or that the two ends have one chain
between them. `KeysInOrder` and `SealedInOrder` give every sending chain a generation:
that of the ratchet key it was made with, which its maker increments at every
rekey. A frame of the present generation is of the present chain and of an earlier
step; of an earlier generation, nothing is sent any more. `NoKeyShared` keeps the chains of
the two ends apart. On the receiving side, chains are told apart by the length of the root they
hang on (`ChainsApart`) and are stored under the counters at which the peer's chains
start, in the order of the peer's sending (`ChainsInOrder`, `ChainsAnnounced`); with that
`UsedKeysAreGone` is kept when a chain is adopted.

`LateFramesOpen`, `RejectionIsFree` and `EvictionIsExact` hold for every size of session, window
and cache. `StepsAccountedFor` says why a late frame opens: a step that a chain has passed is
cached, or its message was returned, or more than `MaxSkip` steps were skipped since.
It is kept by a step because a key that `Newest` drops has `MaxSkip` newer ones between it
and the step asked for (`StepKeepsOthers`). That the end of the cache can be reached is real: a
frame of a new epoch whose announcement has not arrived is tried on the old chain, and `key_for`
caches every step up to it before the tag fails; when there are more than `MAX_SKIP`, keys of
frames still under way go, though nothing authentic was read. With 1024 keys this takes a thousand
frames of reordering.

For `EvictionIsExact`, a frame of a retained chain finds that chain
before and after every step (`LookupsFound`, from `Ledger`), and a step of `decrypt` does to it what
`key_for` does for another frame or nothing (`ChainStepped`). What `key_for` then costs is a
matter of the chain alone (`StepKeepsOrCrowds`): a key that is missing from `Newest(S, n)` is
older than the newest missing one, which has `n` above it, all of them kept (`NewestAreMany`).

### The channel on a stream, in the chat and in two threads

On TCP the proofs follow the stream. `Streams` says what an end has put there, forked or
not: frames numbered without a gap, each chain hung on a root that was a beginning of
the present one, announcements with growing generations. `InStep` adds what
holds until rekeys cross: announcements are under way in one direction at most; the reader's
newest chain is exactly before the first unread frame (`Following`); the root of the
end that has read everything is its peer's and the steps of the announcements that the
peer has not read (`Ahead`). `LinkInv` is both, and gives `OpensUntilFork`
and `QuietAgreement`. `ForkLasts` needs no `InStep`: two roots of which neither is a
beginning of the other stay so, since roots only grow.

In the chat, `Turns` says that one frame at most is under way and none while a user is
at the prompt; with it an end that speaks has read everything, so rekeys never cross.
`ChatIsASession` is the refinement: a step of the chat is a step of `TcpLink` or, when a loop
ends, a stutter. What is proved of the link therefore holds of the chat, and
`ChatShowsAll` (nothing shown is missing a predecessor) is `OpensUntilFork` with `ChatIsQuiet`.

With two threads in a channel roots can be torn (`gui_torn`), so the proof must not
use them. `ThreadInv` goes by the generations alone (`KeysAndChains`): whichever root it was,
a chain was made with a ratchet key of its own end, which `encrypt` increments under
`_send_lock` and `decrypt` does not touch, so no two chains of an end are the same and no key
seals twice. What is unread is numbered (`Outstanding`), and of the receiving chains only
the newest is known to follow the stream (`Reading`): that is `KnownEpochOpens`.

What a fork or a torn root never breaks is the order. `Ordered` says that an end has shown
messages of its peer in the order they were sent and none twice. The numbers alone give it: every
step of `TcpLink`, and every attribute access of `GuiChannel`, either sends the next number
(`SendsNext`), or takes the first unread frame and shows its number or nothing
(`ReadsNext`), or leaves counters, wire and `shown` alone (`Rests`). From these three
steps follow `ShownInOrder`, `ThreadsShowInOrder` and, a message being the counter it
was sealed with, the refinements of `MessageChannel` (`Promise`): on a stream the promise
of the datagram link is kept, delivery at most once and only of what was submitted.

### The handshake

`KeysMeet` says nothing of what leads to a session,
and is not inductive; `Stages` says, for each connection, what is on the way when the two
sides are where they are (`ToClient`, `ToServer`) and what the sides have taken from
it (`Derived`): the server sends no message 2 before it has read message 1, and no
side reads a message of another connection, since a listener serves each
connection once (`Served`). The proof has one lemma for all steps by which a side leaves
a connection (`Departed`), one for the steps on a connection (`MovesOn`), and
`ConnectKeeps` and `AcceptKeeps` for the two that bring one about. Signatures play no
part in it: with honest ends the keys meet whether or not they are verified. `StagesHold`
includes the types, and that what is read has the kind the reader expects.

Signatures matter for `NoAlarm`, which is the claim that a signature that is about to be
checked is one by the pinned key, whatever was given up, lost or cleared meanwhile. `Pins`
carries a key from the introduction to the pin: what the client reads is the
key of the server it talks to (`ClientPins`), what the server has read or has still
queued are keys the client has had, in the order in which it had them (`QueuePins`,
`LookPins`); while the client is there, the key the server looks at or has pinned is the client's, and
a message 3 that is still on the wire after its sender left is signed with the pinned key
as well (`ServerPins`). `OnlyMismatchesCount` has the same invariant.

`Pins` goes on holding when the sides are up, which gives `SessionsAreMutual`: on a
connection with both sides up each has pinned the key the other holds now,
the listener is up only after the client, and the client only after the listener has got
past message 1. Together with `KeysOfBothEnds` this is what the two users get: one
secret, and each other's identity.

### Files, both ways

`ReceiverInvariance`: `Transits` says for each transfer where its frames are: on the wire
before its offer was read, then each chunk either in the slot's digest or still on the wire,
in order, once. `SlotsFit` counts a slot that is being made. `Paths` says that
a path not in `overrun` belongs to one slot or one report (`Owned`, `Apart`, `Settled`) and
that a worker that has chosen a name and not opened it yet chose a free one (`Fresh`).
`DirectoryIsAccountedFor` is about the code's three `unlink` calls, whose `OSError`
is ignored: `stuck` are the files that stayed for that reason. Every other file was received or
is under way (`Accounted`), a stuck file is neither (`StuckApart`), and `UnlinkRemoves` says
what a call leaves behind. So no cause of failure forgets a file, and a partial file
that stays is under a name that nobody takes for a received one.

`StrayIsLast` is not inductive: the comparison `self.channel is not session` keeps
strays out only because a session that is gone does not come back. `SenderInv`
says so: channels get only newer (`NewConnectionNewChannel`, `NothingFromTheFuture`),
no part is sealed by a channel older than the pinned one (`NothingBeforeThePin`),
and past the comparison no part is a stray yet (`CheckedSoFar`).

### The worker and the window

`WorkerInv`: the worker
looks at the stop event after it assigned `self.sock`, `stop()` looks at
`self.sock` after it set the event; so from the event on either the worker does
not enter `recv_bytes`, or `stop()` has the socket it is in. `WorkerInv` says this
for each point of `stop()`.

`TabsInv` relates three things that the window sees at different times: where a worker is, which
of its events are still queued, and where its session lives. `SessionInv` is about one
session, and all lemmas are about one session and one event added to or taken from the
queue: a worker asks once (`AskedOnce`); in the slot, news of a lost connection or a failure
comes after the news that moves the session into a tab (`LeavesSlot`); and what the input
will be when the queue is empty is decided by the last news in it (`Follows`).

### Limiters

`LimiterInv` and `BlocksHold` hold with a single accept loop on the file
(`SoleLoop`, a hypothesis of the theorems; with two loops, in `SharedLimiter.cfg`, TLC
refutes `BlocksHold`): a block that is not over is lifted by
a success alone. The invariant says what the loop knows after `is_blocked`: its
address is not blocked, and stays so because nobody else records failures.

`DatabaseThrottles` (with `SoleLoop`) and `MemoryThrottles` (without it: a call of
that class is one step) map every call to a step of `Throttle` or a stutter. The clock is not set
back, so stored times are in the order in which they were recorded (`TimesInOrder`), those
that no longer count are the first ones, and dropping them early, late or
twice leaves the same ones counting (`FromFrom`, `FromAppend`, `AgesGrow`). A second
maps to the second in which `Throttle` grows older, however little the limiter did in it;
the sweeps that `record_failure` runs over all addresses in the database do not show.

### History and pins

`HistoryIsDurable` and `SavedPinsSurvive` hold for any number of
workers, messages, pins and crashes. The promise about the history is made
to a user whose workers never overlapped; `Alone` says that then at most one is up.
`HistoryInv` adds what the file alone does not show: that it is a part of the worker's
memory, that an append which has the lock has its entry there, that one
append at most has it, and that the temporary file is the whole memory before
`os.replace`. `PinsSurvive` is inductive together with `Alone`. The trust store
is written in place, so a kill or a full disk can cut it short; the property is that such a file is
unreadable and stays so, not that it cannot occur: no worker ever starts from it with
pins missing.

### Padding

For every plaintext that `pad` accepts, `unpad` accepts
what `pad` returns and gives back the plaintext (`RoundTrip`), the
length sealed is a bucket or a multiple of the largest (`SizeIsABucket`), and the
frame of a chunk of at most 256 KiB is within `MAX_FRAME_SIZE` (`ChunksFit`), so that
`_send_file` never meets the `FrameError` it does not handle. The prefix is
computed with `\div` and `%`; `BigEndianInverse` and `BucketFits` are its arithmetic.

### What the proofs assume, and what is left

*Assumptions*: those named in the modules (two distinct parties or sides, positive
window, interval and retention, `NoPub` is not a key), the hypothesis
`SoleLoop`, and those inside the properties themselves (`~overlapped`,
`overrun`, `DamagedFrames = {}`). Without any one of them TLC finds a counterexample.

*Checked as invariants by TLC first*, on the constants of the runs: `Ledger` (279993
states; it stays in the run), `LinkInv` and `ChatInv`, `ThreadInv` (291643, and with 3 + 3
frames, a window, a skip bound and a retention of 1), `HandshakeInv` (317250, and 3.1 million
with two kills and two changes of files), `FileReceiverInv` (4756806), `TabsInv` (324155, and
one step from each of a million type-correct states of a session with up to four events queued),
`Ordered` and the refinements of `MessageChannel` (40661 on `TcpLink`, 291643 on
`GuiChannel`), that of `TcpLink` by the chat (288), `Mutual` (317250),
`HistoryInv`, `DatabaseInv` and `MemoryInv` (18444; `MemoryInv` also with two loops, 254870).

*Only model-checked*: liveness under fairness (`ReadInTheEnd`, `QuitEndsBoth`,
`HangupIsNoticed`, `StopEnds`, `HandshakeEnds`, `Settles`, `SlotIsFreed`,
`PromptIsAnswered`), which needs ENABLED and is out of the prover's reach.

## 5. Findings

Each with a run that exhibits it:

1. `tcp_crossing`: when both ends take a send-side DH step before reading the
   other's announcement, neither announcement opens and the session never
   recovers (`ForkIsForEver`). The CLI's turn-taking keeps this from happening
   (`ChatNeverAlerts`); GUI sessions are full duplex.
2. `gui_torn`: `decrypt` is not under `_send_lock`. A root computed before a
   concurrent `encrypt` replaced it overwrites the new one.

### Seen while modelling

Not among the runs, but each with a configuration that makes TLC exhibit it
(`tlc -config <cfg> <module>`):

| cfg | module | violates | what happens |
|---|---|---|---|
| `DatagramDamage.cfg` | `MCDatagramLink` | `DamageBurnsNothing` | `key_for` consumes the message key before the tag is verified, so a damaged copy makes the intact frame unreadable; the comment at `secure_channel.py:244` excludes that. The window itself keeps the promise (`WindowExact`). |
| `DatagramOrphan.cfg` | `MCDatagramLink` | `NoOrphanFrames` | After three rekeys a late frame whose chain was pruned makes `max()` of an empty generator raise `ValueError`, which no caller catches; the comment at `secure_channel.py:66` promises a clear error. TCP does not reorder, so this is about the class and not about the application. |
| `SharedLimiter.cfg` | `SQLiteRateLimiter` | `BlocksHold` | The DELETE of an expired block in `is_blocked` goes by address only and removes a block that another accept loop on the file set after the SELECT. |
| `OneDirectory.cfg` | `MCFileReceiver` | `SavedAsSent` | Two workers choose one path for two incoming files, between `_unique_dest_path` and `open`, and the second empties the file of the first. |
| `SharedHistory.cfg` | `MCUserFiles` | `SavedMessagesStay` | Two workers of one user share the history file and its temporary file; the later save drops, or tears, what the other has appended. |
| `SharedTrust.cfg` | `MCUserFiles` | `SavedPinsStay` | The same with the pins in the trust store. |

A step, a removed exception or a changed constant shows the others:

- A reconnect between `_send_file`'s comparison and `_send_raw`'s use of
  `self.channel` and `self.sock` loses a part; when it is the last one, the file is
  reported as sent. The other parts are safe (`StrayIsLast`). (`SentInOneSession`
  among the invariants of `FileTransfer.cfg`.)
- A debt recorded between `encrypt`'s read of the peer's key and its last line is
  cleared unpaid (`Settle` of `GuiChannel`).
- `_send_raw` with the connection lost between its guard and `encrypt` ends the
  sender thread in an `AttributeError` that nothing reports (`at = "dead"` in
  `FileSender`). `_append_history` looks at `self.history` twice in the same
  way (`Call` in `UserFiles`).
- A history file that exists and cannot be read ends the worker unreported and
  leaves Host and Connect disabled (`phase = "crashed"` in `SessionTabs`). So do
  errors of `mkdir` and of `close` of a received file, in a session that still
  looks connected (`Dies` in `FileReceiver`).
- The trust store is written in place. Cut short, it cannot be parsed, and the next
  run reports it as `Incorrect passphrase.` (`gui.py:445`): `PinsSurvive` fails
  without `\/ cut`.
- A sender that finds its file shortened gives up without telling the receiver,
  whose slot stays taken until the connection is lost (`SlotsAreOwed` allows for it).
- The GUI's listener counts a declined prompt and a user who thinks longer than
  the time-out as failures of the peer (`gui.py:603`), `server.py` does not:
  `PenaltyIsDeserved` is about `server.py`.
- A text of about a mebibyte makes `send_bytes` refuse the frame after `encrypt`
  has advanced the channel; if it carried an announcement, the peer cannot follow.

## 6. Not modelled, and why

- Audit log and Tk layout, texts, unread badges, desktop notifications: no state
  that another part reads.
- Key file encryption, scrypt and the primitives themselves: libraries. The models
  use them symbolically.
- Framing below whole messages: the length prefix, partial reads and messages
  without meaning. The peers of every model are this repository's own programs, so an
  offer of no size or of too large a size, a frame too large to read, or a message
  3 that cannot be parsed does not occur; the exceptions in `server.py:123` that
  end the accept loop then are listed as a hazard only.
- In `PeerWorker` the limiter of the accept loop (a blocked address loses its
  connection at once, which looks to the rest of the worker like an `accept` that
  timed out) is left to `Handshake`, and history and pins to `UserFiles`.
- `EncryptedHistory.for_peer` only reads.

## 7. Plan

1. Done: the channel on three links and in the GUI's threads, the limiters, the
   handshake with both accept loops, the worker thread, files in both directions, the
   window, what a user keeps on disk, padding, and the theorems above.
2. `Framing`: partial reads and the length prefix against a reference definition
   (`RECURSIVE` only there), with peers that break off in the middle.
3. Theorems: all safety properties of the runs are proved, and the chat, the stream and
   the GUI's threads are tied to each other by refinement. Left: an abstract
   specification of what `Handshake` promises its users, of which `KeysOfBothEnds` and
   `SessionsAreMutual` are the safety part.
