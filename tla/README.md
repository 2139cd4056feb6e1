# TkTox: a TLA+ model of the client

TkTox (repository under `src/`) is a Tox messenger: a Tk or headless front end, a
thread that owns toxcore, an end-to-end encryption layer of its own over friend
messages (`CRYPTO_PLAN.md`), an offline queue, TCP/UDP tunnels, file transfers,
calls, group chats and a chess game. This directory holds TLA+ modules for the
parts whose correctness depends on the order of events, the TLC runs that check
them on small instances, and TLAPS proofs of what matters most in seven of them.
`PROJECT.json` lists the components, runs, hazards, mutants and theorems, and maps each
definition to its lines in the source.

## 1. The system

### Components, state and operations

| component | state | operations | module |
|---|---|---|---|
| Double ratchet, one direction (`session.c`, `crypto/frame.c`) | root, chain, seq, base, skipped keys (`TTRatchet`) | `send_key`, `msg_key_at`, `skipped_add/take`, `ratchet_fold`, DATA part of `tt_session_feed` | `Ratchet`, `RatchetChannel` |
| Re-key protocol (`session.c`, `tunnel.c`) | own key pair, peer's keys, the five flags, parked carrier (`TTRekey`) | `emit_frame`, KEMPUB and REKEY in `tt_session_feed`, `tt_session_carrier`, `tunnel_carrier_retry` | `Rekey` |
| Handshake and reliable transport (`session.c`) | `TTSession`, stash, `TTReliable` | start, tick, reply, INIT/REPLY/ACK/RESEND in feed, `tt_session_rel_poll` | `ChatE2EE` |
| E2EE engine (`tox_thread.c`) | a session per friend, age of the handshake, enforcement | message, connection and tick handlers, fallback, send command | `ChatE2EE` |
| Session store (`session_store.c`) | `.ses` file | save, load | `ChatE2EE` (contents, not the bytes) |
| Offline queue (`offline_queue.c`) | ring per friend, `.oq` file | add, take all, save, load, flush | `OfflineQueue` (implements `TextQueue`), `ChatE2EE` |
| Tox thread and queues (`tox_thread.c`) | two `TTQueue`s, `stop`, the passphrase slot | push, pop, post, main loop, start, stop | `EventLoop` |
| Front ends (`ui/ui_tk.c`, `headless.c`) | dialogs, window, what is shown of games, calls, tunnels and groups | poll, post, answer, close, one handler per button and event | `EventLoop` (loops), and the module of the feature |
| Tunnel, TCP forwarding (`tunnel.c`) | 64 `TTTunnelConn` slots per tunnel, credit | poll, accept, drain, OPEN/DATA/ACK/FIN | `TunnelStream` |
| Tunnel, sharing (`tunnel.c`, `ui_tk.c`) | 16 `TTTunnel` slots, the panel and the one invite dialog | share, accept, decline, stop, time-out, datagrams | `TunnelShare` |
| File transfers, resume index (`tox_thread.c`, `resume.c`) | 16 `TTXfer` slots, `TTResumeEntry` array, `.rsum` file | send, offer, accept, reject, cancel, chunk, purge, save, load | `FileTransfer` |
| Avatars (`tox_thread.c`) | own picture, `sent_hash`, a `TTAvatar` per friend | set, clear, push, offer, chunk | `FileTransfer` |
| Calls (`av.c`, `ui_tk.c`) | one `TTAvg` for all friends, a call strip per contact | call, answer, hang up, pause, resume, mute, camera, ToxAV's callbacks | `Calls` |
| Chess (`chess.c`, `tox_thread.c`, `ui_tk.c`) | `TTChess` board, a game per friend, the mirror in the window | invite, accept, decline, move, resign, close | `Chess`, `ChessGame` |
| Group chats (`tox_thread.c`, `ui_tk.c`) | slots of invitations, list of groups with rosters | create, join, leave, invite answers, topic, settings, moderation, roster burst, callbacks | `Groups` |
| History, settings, media devices, platform, primitives | files, devices | | see section 7 |

### How they interact

The tox thread runs `tox_iterate`, whose callbacks feed sessions, tunnels and
transfers, then drains the command queue, then ticks. It talks to the front end
through two bounded queues that block when full. The front end and the tox thread
are the only two threads; everything under `tox_thread_main` is sequential, so one
callback or one command is one atomic step and the concurrency is between the two
*clients*, between the client and its sockets, and between the two threads. The
chat session sends DATA through friend messages (ordered while connected, lost
when the connection drops); the tunnel session uses lossless packets (a bounded
FIFO that refuses with SENDQ) and lossy datagrams, and has no retransmission.

### What is hard, and what correct means

- Ratchet: loss, duplication, reordering, damage, and folds in the middle of it.
  Nothing is accepted twice, the verdict on each frame is right, a bad frame costs
  nothing.
- Re-key: both peers re-key at once and their publications, answers and folds
  cross; the transport may refuse the frame after the fold is committed. Each fold
  must be made for the pair the receiver will hold, and each re-key must end.
- Handshake: simultaneous INITs, lost or late REPLYs, retransmission, restart. The
  peers end up with one root and opposite roles.
- Chat: a text lives in one of stash, re-send buffer, queue or network; it is
  displayed, once, and in the clear only when that was earned.
- Queues between the threads: one condition variable per queue, blocking pushes in
  both directions, stop and join.
- Tunnel streams: window, batched credit, a refusing queue, half-closed
  connections. Bytes arrive in order without a gap and no stream stops for good.
- Offline queue: ring limits, a flush cut short, restart.
- File transfers: cancellations that cross, a connection lost or a restart in the
  middle, then a resumed download. What is reported complete is what was sent.
- Avatars: a picture that changes while the older one is being sent.
- Tunnel sharing: answers, time-outs and stops cross, signals and datagrams name no
  tunnel. The screen shows the tunnels there are and traffic stays in its tunnel.
- Calls: one record serves all friends and ToxAV reports only what the other side
  does. Devices run in a call only and the strip of buttons tells the truth.
- Chess: packets cross and no packet is matched to its game; the front end moves
  first. Both ends play one game and agree on its end.
- Groups: numbers are used again, bursts are snapshots, invitations wait in slots.
  The list and the rosters end up as toxcore has them.

`PROJECT.json` lists these as `hazards`, each at its line.

## 2. Modules and how they correspond to the code

`Ratchet` has the operators on one `TTRatchet`: a key is the record of root,
label and step it is derived from (derivation is injective), `skipped` is the
array as a sequence, `Verdict`, `Commit` and `Restore` are the three parts of the
DATA branch of `tt_session_feed`. It declares `MaxSkip`, `SkippedMax` and
`RekeyEvery` (512, 96 and the re-key interval in the code).

`RatchetChannel` (EXTENDS `Ratchet`) is a sender, a receiver and a network that
keeps every frame for ever, so that loss, duplication and reordering need no
action of their own; `Damaged` frames are any frame under a key that opens
nothing. Emission is one action per kind of frame, reception one per outcome.

`Rekey` (EXTENDS `Ratchet`) has both directions of a session and all of
`emit_frame`: the trigger, the choice of header, the flags that are set while the
header is built (before the encoding that may fail), the fold after it. A tunnel
session parks a carrier; `Pass` is one round of `tunnel_carrier_retry`. Key pairs
and roots are numbers; a REKEY made for another pair than the one held gives the
wrong root 0 without an error, as implicit rejection does.

`ChatE2EE` is two engines. A handler works on a context record (the engine, what
it sends, what it displays, the keys it uses), so that a handler with a trailing
pump, flush or poll is one action: `Receive` is `cb_friend_message` down to the
last `e2ee_rel_poll`. Ephemeral keys and roots are drawn from a counter. `Restart`
writes and reads the files, `Crash` only reads them.

`EventLoop` is the two threads. A step is what runs under a queue's mutex; a
waiting thread is in `asleep` until a signal picks it or it wakes spuriously.

`OfflineQueue` is the ring of every friend and the file as a sequence of tokens:
the mark `TTOQ1` and one token per entry, written and read as the code does.
`TextQueue` is what it promises: sequences without rings and tokens. The refinement
mapping reads `waiting` off the rings from their heads and `saved` off the tokens of
the file, and `ImplementsTextQueue` says that every step of the detailed queue is a
step of the abstract one or changes nothing of it. The abstract queue counts every
text that leaves in another way than from its front as `lost`: those of a refused or
blocked flush, of a full ring, and all but the first text of the file at a start.

`TunnelStream` is one tunnel with its two ends: connection slots, sockets (what
the program wrote, what was read, what arrived), the lossless queue. The bytes of
one `tt_recv` are a numbered chunk. `tt_tunnel_poll` on either side is one step
(accept all, finish connects, drain each slot in order, FIN where due), and so is
one received packet. The re-key carriers inside `tcp_send_ex` are `Rekey`'s
subject; here they appear as a refusal. `lost` is a history variable: it records
the streams of which the tunnel gave up a DATA frame and the connections of which
it gave up a control frame.

`FileTransfer` is the sender and the receiver of files and of the sender's
picture. A chunk is what one request asks for; a cell of a file on disk says which
chunk of what it is, so a hole, a wrong offset or a foreign byte shows. The stdio
buffer of a partial file is modelled because the index counts what is in it. The
`.rsum` file is the mark and the entries. toxcore's side of a transfer (`cs`, `cr`)
is external: it delivers in order, asks for chunks one after the other and forgets
transfers with the connection.

`Chess` has the rules of `chess.c` as operators, with the two generators of moves
the code has: `Accepts` is the validation in `tt_chess_move`, `Tried` and
`has_any_legal_move` the search that decides mate. `ChessGame` (EXTENDS `Chess`) is
every peer's engine (a game per friend), front end (one window with its mirror of
the board) and queues, and the packets between peers. The number of a game is there
for the properties only.

`Calls` is one client: ToxAV's session with each friend (external), the one `TTAvg`
record, the contact fields behind the call strip and the two queues. A command is
one step with its local echoes, and so is a callback. `shared`, `filming` and
`crossed` record where the single record is known to fail.

`TunnelShare` is several clients with their tables of tunnels, panels, dialogs,
queues and signals. Services are numbered for the properties; no signal and no
datagram carries the number. `loose` records the pairs of host and friend of which one
end was given up without a word to the other (a stop, a failed bind, a time-out, a cut),
or to whom a second invite was sent over the first.

`Groups` is one client with toxcore's table of groups as its environment. A roster
burst is one event, as are the events of a joining peer, because the tox thread
pushes them in one handler. An empty topic (0) is pushed without a string, and the
handler keeps the old one. A topic may be refused by toxcore, and the invitation dialog
closed without an answer. `overwritten`, `holed` and `leftover` record where the code is
known to fail.

Theorems are kept apart from what they are about: `RatchetChannelProofs`,
`RekeyProofs`, `EventLoopProofs`, `OfflineQueueProofs`, `GroupsProofs`, `CallsProofs` and
`TunnelShareProofs` each extend the module of that name, and `QueueLemmas` has what
several of them need (rings, sequences, a least number, recursion, what a flag will be
once the events that set and clear it are taken). Section 4.

The modules `MC...` only define the sets of setups. A setup is a record of bounds
and of which kinds of trouble occur; `Init` picks one, so one run covers several
scenarios without the product of all of them. `ChatE2EE` abstracts the folds of
`Rekey` to "any directly sent text may carry one"; `Rekey` and `RatchetChannel`
share `Ratchet`; `ChatE2EE` and `OfflineQueue` model the queue at two levels (a
sequence with a file, and the ring with its token file).

## 3. Runs

Twelve runs, all passing.

- `ratchet` (`RatchetChannel.cfg`): 7 frames, skip bound 3, two stored keys, a
  possible fold at any frame. `TypeOK`, `NoReplay`, `VerdictSound`, `Aligned`,
  `Hygiene`.
- `rekey` (`Rekey.cfg`): the setups `Tunnel` (queue of one packet, datagrams) and
  `Chat`. `NoDesync`: no lossless frame fails to open. `FoldTargetsLivePair`: every
  REKEY under way is for the pair its receiver will hold. `RekeyCompletes`: liveness
  of both on a tunnel.
- `chat_first` (`ChatFirst.cfg`): two new friends, three texts, one fold.
  `Agreement`, `Settles`, `AllShown`.
- `chat_disturbed` (`ChatDisturbed.cfg`): a slow network; restart, crash and
  toggle; drop, restart and toggle; drop, restart and fold. `ShownOnce`,
  `NoKeyReuse`, `NoSilentDowngrade`. The first two are stated without crashes (and
  `ShownOnce` without folds): section 6 says what happens otherwise.
- `event_loop` (`EventLoop.cfg`): the setups `Bot`, `Stopped` and `Window` with
  queues of two, and those in which the code stops for good: `Chatty` (both queues full),
  `StoppedBusy` and `ClosedLocked`. `SleepsForCause`, `CommandsServed` (unless `Jammed`),
  `Terminates` and `Unlocked` (unless `JoinedWaiting`): the two states are the only ones
  in which a thread waits for ever.
- `offline_queue` (`OfflineQueue.cfg`): two friends, rings of three, five texts,
  flushes cut short anywhere, refused or blocked, one restart, one crash. `InOrder`
  and the refinement `ImplementsTextQueue`: a text is sent in its turn or is counted as
  lost, at a restart as well.
- `tunnel_stream` (`TunnelStream.cfg`): window 3, batch 2, one slot; six links
  (roomy, refusing, two connections for one slot, a lost link without and with
  encryption, a slow server with a program that does not read). `StreamIntact`,
  `Delivered`.
- `file_transfer` (`FileTransfer.cfg`): files of four chunks, an index written every
  three, a buffer of two, two slots, an index of one entry; seven setups (cancels
  and a lost connection, a restart with files that cannot be opened, one free slot,
  an index that is too small, a picture changed three times, a picture and a file,
  a crash with a failing write). `ToldTrue` (also of the partial files and the
  index), `NoOrphan`, `Completes`, `AvatarSettles`.
- `chess_game` (`ChessGame.cfg`): two invites that may cross, one move; a game one
  move before the fool's mate and the next invite; a link that fails in a game; games
  before a stalemate, before a check that only an en passant capture answers, and with
  a pin and castling. `OneGame`, `MirrorTrue`, `EndAgreed`, and `SearchAgrees`: at every
  position reached, whatever move comes next, the search calls the game over exactly if
  the validation leaves no reply. En passant captures are exempt, and only they.
- `calls` (`Calls.cfg`): four or five clicks and two to four moves of the peers, with
  one friend (calls that cross, are refused, are repeated, devices that do not open),
  with pauses and camera, with two friends, with two calls at once (`TwoCalls`), with
  video, with a peer that has a camera and is answered by voice (`PeerCamera`).
  `DevicesOnlyInCall`, `StripTrue`, `AudioFlows`, `MuteHonoured`. With two calls
  at once the second one's mute button works the same gate, and the state remembered
  for one call may turn the camera on in the other; a peer's video turns it on as well:
  the properties say so.
- `tunnel_share` (`TunnelShare.cfg`): one friend invited twice with a datagram, a cut,
  failing binds and stops on both sides (`Again`); two friends with a service and a
  datagram each; two friends who share with each other (`Mutual`). `ScreenTrue`,
  `NoZombies`, and `NoCrossTalk`: a datagram comes out at another service only between the
  same two peers and, if both services are of one host, only if the pair is `loose`.
- `groups` (`Groups.cfg`): two group numbers, three peer ids, two slots for
  invitations; nine setups (groups joined by id, refused and left; more invitations
  than slots; our own group with kicks, roles and ignores; topics and settings, twice; a
  restored group next to a dead one; being kicked and invited again; groups left that
  are listed twice, and the number used again (`RestoredLeft`); roles given by others
  (`Promoted`)). `InviteHonest`, `ListTrue`, `RosterTrue`.

Where the code is known to fail, the property names the case and a setup of the run
reaches it, so that the rest is shown of behaviours in which the case occurs.

The modules state more than the runs list. True of the instances above: `TypeOK` of
`Rekey`, `ChatE2EE`, `TunnelStream` and `FileTransfer`; `CatchesUp` of
`RatchetChannel` (under `FairSpec`: the receiver gets to the newest frame);
`AnswerOwed` of `Rekey`; `AckContiguous` and `FallbackEarned` of `ChatE2EE`;
`InOrder` of `EventLoop`; `CreditSound` and `Closes` of
`TunnelStream`. Refuted by a setup of the `MC` module, see section 6:
`BeyondSkipReinits`, `NoKeyReuseEver`, `BufferIntact`, `Backpressure`, `QueueSurvives`,
`Reclaimed`, `ToldTrueEver`, `BannerShown`.

### Bounds

Bounds are constants or fields of a setup and appear in the guards. They are
chosen so that each limit is passed: more frames than `MaxSkip`, more gaps than
`SkippedMax`, two folds per direction, more texts than the re-send buffer or the
stash holds, more events than `Cap`, more texts than a ring, more chunks than the
window and more than one batch with a remainder, more connections than slots, more
invitations than slots and more groups over time than numbers. All
interactions found so far need at most two of each kind of disturbance. `Before`
in `Rekey` lets a behaviour start shortly before the automatic re-key is due: the
frames sent before it change nothing but the counters.

`CHECK_DEADLOCK FALSE` is set where a behaviour may end: when the bounded traffic
is used up (`Rekey`, `OfflineQueue`, `TunnelStream`, `FileTransfer`, `ChessGame`, `Calls`,
`TunnelShare`, `Groups`) or the program has exited
(`EventLoop`).

### Fairness

Weak fairness only, and only of what the program or toxcore does by itself:

- `RatchetChannel` (`FairSpec`): a frame the receiver needs is delivered in the
  end (the lossless and chat channels; the tunnel's datagrams are not claimed to
  arrive).
- `Rekey`: `tt_tunnel_poll` runs at each iteration and toxcore delivers lossless
  packets.
- `ChatE2EE`: toxcore delivers what is on the way, friends reconnect, ticks run.
- `EventLoop`: both threads are scheduled. Nothing is assumed of the user: who
  never answers the dialog is a behaviour.
- `TunnelStream`: both sides poll, packets arrive, a connect ends, the handshake
  and the friend come back. Nothing is assumed of the programs. For polling and
  receiving, "enabled" is spelled out as "a poll would change something", because
  a poll that does nothing is no step.
- `FileTransfer`: toxcore delivers packets, asks for chunks and reconnects. Nothing
  is assumed of the users, so an offer may wait for ever and `Completes` speaks of
  accepted transfers.
- `TunnelShare`: both threads take what is in their queues, and the time-out of a
  pending invite comes. Nothing is assumed of the users, and signals may be lost.

`OfflineQueue`, `ChessGame`, `Calls` and `Groups` have safety properties only. Those
on what a screen shows are stated for the moments when nothing is under way.

## 4. Proofs

Eight modules hold theorems (`QueueLemmas` lemmas only); each is proved for every value of the constants that the
named assumptions allow (`...Assumption` in the module that declares the constants:
numbers are numbers, rings have a slot, `None` is no value of the kind it is told from).

| module | theorem | statement |
|---|---|---|
| `RatchetChannelProofs` | `TypeCorrect` | `Spec => []TypeOK` |
| | `ReplayProtection` | `Spec => []NoReplay` |
| | `Alignment` | `Spec => []Aligned` |
| | `RightVerdict` | `Spec => []VerdictSound` |
| | `ReceiveHygiene` | `Spec => Hygiene` |
| `RekeyProofs` | `TypeCorrect` | `Spec => []TypeOK` |
| | `FoldsTargetLivePairs` | `Spec /\ []NoCrossing => []FoldTargetsLivePair` |
| | `NoDesyncHolds` | `Spec /\ []NoCrossing /\ []KeptUp => []NoDesync` |
| | `ChatNoDesync` | `Spec /\ [](~setup.lossy) /\ []NoCrossing => []NoDesync` |
| `EventLoopProofs` | `NoLostWakeUp` | `Spec => []SleepsForCause` |
| | `QueuesInOrder` | `Spec => []InOrder` |
| `OfflineQueueProofs` | `TextsInOrder` | `Spec => []InOrder` |
| | `QueueImplemented` | `Spec => ImplementsTextQueue` |
| `GroupsProofs` | `AnswersFindInvitation` | `Spec => []InviteHonest` |
| | `ConnectedListed` | once nothing is under way every connected group is listed |
| | `ListTold` | `Spec => []ListTrue` |
| `CallsProofs` | `RecordServes` | `Spec => []AInv` |
| | `AudioReachesPeer` | `Spec => []AudioFlows` |
| | `MicrophoneOnlyInCall` | the microphone is open only while a call is up |
| | `DevicesFollowCalls` | `Spec => []DevicesOnlyInCall` |
| | `StripsServe` | `Spec => [](AInv /\ SInv)` |
| | `StripsTrue` | `Spec => []StripTrue` |
| | `MutedNotHeard` | `Spec => []MuteHonoured` |
| `TunnelShareProofs` | `TunnelsFitTogether` | `Spec => [](IInv /\ WaitingOK)` |
| | `PanelTrue` | quiet peers' panels list exactly their tunnels |
| | `ScreenTold` | `Spec => [](OneInviter => ScreenTrue)` |
| | `ServicesApart` | `Spec => []NoCrossTalk` |

None of the invariants is inductive alone. Each inductive invariant was checked by TLC
on the setups of the run before it was proved.

**Ratchet.** `IInv == TypeOK /\ EpochsOK /\ NetOK /\ RecvOK /\ RingOK /\ LogOK /\ NoReplay`:

- `EpochsOK` ties each root to the interval of seqs it covers and to the REKEY
  frame at its end; without it two frames of different roots could share a seq,
  and `Aligned` would not survive a fold;
- `NetOK`: every genuine frame carries the key of its seq on the chain of its
  root, so a frame opens under exactly one position;
- `RecvOK`: the receiver is on a chain the sender had, at a seq it has reached;
- `RingOK`: stored keys are the keys of distinct seqs below the position that are
  not in the log; without it a stored key could open a frame a second time;
- `LogOK`: everything accepted is below the position.

The lemmas `AddGapKeepsNewest`, `AddGapDistinct`, `GapExact`, `TakeIndexFinds`,
`WithoutCloses`, `CommitExact` and `RestoreExact` state what the operators on the
skipped-key store do; `EmitIInv`, `DeliverIInv` and `RejectRingIInv` are the steps
by action. `Hygiene` is an action property and follows from `IInv` and `RestoreExact`:
the restored key goes to the end of the store, so the *set* of stored keys is what is
preserved.

**Re-key.** `Base` has the types of both sessions and the skipped-key store: its entries are
on the chain of the receiver, in the order of their seqs, and every key that is not
`SkippedMax` behind is still there (`Exact`, `Spread`). On it rest two invariants, one per
direction and property. `Held` follows a pair of keys: publications under way are of the
pair we hold, the keys the other peer has of us are that pair's, and a fold under way was
made for it; there is one such fold at most, and none while the other peer still holds our
keys. `Align` follows a chain: lossless frames are in the order of their seqs, and the
receiver has their keys ahead of it or in its store (`InOrder`, `Ahead`); the receiver is on
the sender's chain or one fold behind it, and that fold is on the way (`OneFoldAtMost`); and
each frame, datagrams included, is sealed on the chain the receiver has when it gets there
(`Placed`). A chat whose texts lost `MaxSkip` chain steps is the exception (`Stalled`): it
passes over every frame and so takes none for a desync. Neither invariant holds of every
traffic, and two hypotheses say of which:

- `NoCrossing`: no REKEY crosses a second publication of the pair it is made for. It fails
  only if a peer falls due again, `RekeyEvery` frames later, before the other one's fold
  has arrived; section 6 has what happens then. The run reaches a few such states. A bound
  on the frames in flight does not replace it, because a drain of the queue emits
  twice in one step.
- `KeptUp`, on tunnels only: no lossless frame is beyond `MaxSkip`, and none was passed by
  more datagrams than the store has keys. A chat has no datagrams and needs neither.

**Event loop.** `IInv == TypeOK /\ QueuesOK /\ Places /\ SleepsForCause`. `QueuesOK`
says what a ring holds: the entry `i` places behind the head, modulo the capacity, is
the `i`-th one not taken yet. `Places` says where a thread is while it sleeps, and so
that each queue has one thread on either side: that is why one signal is enough although
producers and consumers share the condition variable.

**Offline queue.** `InOrder` needs that the ring of a friend, read from its head, goes
on where the sent texts end: `IInv == QueueTypeOK /\ (spent.crashes = 0 => Ordered(...))`
(a crash brings an old file back, and `InOrder` does not speak of behaviours with one).
The refinement is a step simulation: `InitOK` and `StepOK` show that the mapping takes
initial states to initial states and each action to the abstract action or to a
stutter. The work is in what the ring and the token file hold after adding, taking all,
putting back, saving and loading. `Saved` and the other folds over rings and tokens are
recursive functions; what such a function computes is proved in `QueueLemmas`
(`Recursion`) by taking the least argument at which a set of good arguments ends, as the
induction theorems of the library cannot be instantiated.

**Groups.** A slot is named first by the event, then by the dialog, then by the command.
`IInv == Shape /\ (~overwritten => Held /\ Once)`: every place that names a slot names the
invitation the slot holds, and no slot is named in two places. Without `Once` an answer
could free the slot that another one still names. The actions are first sorted into seven
kinds by what they do to the places. For the list, what an entry or an event under way
says of a number counts unless a later event takes it back (`Stays`). `UpSaid`: every
connected group is said to be there; this holds of every behaviour (`ConnectedListed`).
`SaidTrue`: what is said is so, under its own name, unless we were kicked. Entries of the
numbers in `leftover` are exempt: a group that is listed twice, as accepted invitations and
restored groups are once they connect (section 6), loses one entry only when it is left.
`NoneIsNoGroup`, an assumption on the constant, says that `None` is told from the records
of the table.

**Calls.** One record serves all friends. `AInv` says that the record names the call that
never shared it and that two calls at once have both shared it (`Named`), what is known
of a call before it is up (`Early`), that the audio bit of the record is up exactly while
neither side is paused and what is remembered of it in our own pause (`AudioTold`), and
that the microphone is open only in a call. The camera needs the same of the video bit
(`VideoTold`), of calls whose peer was never seen to send video (`filming`): a peer that
does opens our camera, section 6, and the property exempts its call.
The strip is told by events, and the engine by commands, so `SInv` says for each friend
what the strip will be once the events under way are taken: a call is shown, offered or
rings if the last event about it says so (`Latch` in `QueueLemmas`; `LatchAdd` and
`LatchTake` are its two steps), and a strip that rings may have its command still queued. Steps
of the engine are sorted by whether they start, continue, stop or refuse a call. Muting
needs more, because the gate is opened by every new call: between a shown call and a new
one its end is told (`MutedInCall`); from some point of the queue on, only the only call is
told of (`SoloShown`); and the gate, latched over the mute commands that wait, is shut if
the strip shows it so (`SoloMuted`). Both theorems are without hypotheses.

**Tunnel sharing.** `IInv` has for every peer (`Home`): ids are given once and a friend
has one tunnel to us at most; each tunnel is for the service that its two ends shared;
and, for every id, the table has a row exactly if the panel will show one when the events
under way are taken (`RowsShown`: the last `add` or `gone` of that id decides). This is
what makes the panel's part of `ScreenTrue` inductive: `PanelTrue` has no hypothesis.
`WaitingOK` says that a tunnel that waits for an answer has its invitation in the events,
in the dialog or among the commands. The hypothesis `OneInviter` marks where the code
stops keeping its promise, section 6: there is one dialog, and an invitation that finds it
open is dropped.

`ServicesApart` has no hypothesis. A datagram is tagged with the service it was sent for
and comes out where the tables say, so the invariant (`Apart`) follows both. `Tight` says
of host and friend that all there is between them belongs to one invite: at most one
tunnel at each end, one invite and one answer under way, all datagrams of the service of
the friend's tunnel, and that one also the service of the host's. `Orderly` claims it of
every pair that is not loose; a new share keeps it because the host's tunnel is there as
long as anything of the old one is, and a second share over it makes the pair loose.
`DownLoose` says that a link that fails does so too. `StraysOK` is the property itself,
of the datagrams that came out at another service so far.

Only model-checked:

- liveness under fairness and what needs ENABLED: `RekeyCompletes`, `Settles`,
  `AllShown`, `CommandsServed`, `Terminates`, `Unlocked`, `Delivered`, `Completes`,
  `AvatarSettles`, `NoZombies` are outside the prover;
- `ChatE2EE`, `FileTransfer` and `TunnelStream`: not proved so far. What is shown, told
  and delivered follows from where every text, chunk and frame is, over two engines;
- `Chess` and `ChessGame`: the search for a legal move is decided by evaluating boards,
  which is TLC's work;
- `Groups.RosterTrue`: not proved. It needs for every field of every member what the
  events and bursts under way will make of it, and holds of few traffics besides those of the
  run (section 6: double entries, gaps in the ids, cleared topics).

## 5. Mutants

Each property of a passing run has a mutant in the module it is about (`\* mutant:`
comments), a plausible mistake in that code: a ring that does not wrap, a missing
reset, a guard dropped, a signal forgotten. TLC refutes the property with the
mutant in place, so the property is about the code that was changed.

## 6. Known disagreements

Met while modelling. Where a setup shows it, its name is given. Some of them are in the
runs, and the property exempts the case by name. For the others, put the setup in a
configuration in place of the one there, with the property that is named, to get the
behaviour.

- Handshake: the comment at `session.c:414` says "engine resends reply_cache" and
  `tests/test_session.c:137` "responder re-sends the cached REPLY byte-identically",
  but `e2ee_rx` replies only when `reply_due` is set: a REPLY lost with the connection
  is never sent again and the handshake never ends (`LostReply`; `Settles`).
- Session store: the `.ses` file is written at an orderly shutdown only, so a crash
  brings back an old send chain and message keys repeat (`RestartThenCrash`;
  `NoKeyReuseEver`), against `crypto.h:67-68`, "msg_key is used exactly once, so no
  nonce reuse is possible".
- Offline queue: `tt_oq_save` writes the mark once, `tt_oq_load` expects it before
  every entry (`offline_queue.c:57`), so only the first queued text is read back
  (`QueueSurvives`; in the run the others are counted as lost), against `offline_queue.h:4-5`, "queued text survives restarts".
  A flush to a friend for whom encryption is required and who has none deletes the
  queued texts (`tox_thread.c:2013`); a text toxcore refuses for another reason than
  the connection is skipped.
- Tunnel connections: `conn_mark_peer_gone` keeps a slot until its DATA is
  acknowledged, but the side that sent FIN has freed the connection and acknowledges
  nothing: the slot is never released (`Roomy`; `Reclaimed`), against
  `tunnel.c:72-73`, "drop the conn once the last one is acked".
- `Rekey`: a peer that sends several payload frames per frame it hears folds
  towards a retired pair (window 2 in `Tunnel`; `FoldTargetsLivePair`), against
  `CRYPTO_PLAN.md:171-173`; `NoCrossing` of section 4 is what then fails. A chat frame
  that toxcore refuses after its fold (`tox_thread.c:62-69`) is lost with it; `Rekey`
  has toxcore take every chat frame. Texts that fill their frame lose the publication
  (`LongTexts`; `AnswerOwed`), `session.c:756-787`. Frames the transport refuses
  step the chain until the receiver is `MaxSkip` behind, and SEQ_TOO_OLD restarts
  nothing (`Refused`; `BeyondSkipReinits`), against `CRYPTO_PLAN.md:65`. Many
  datagrams evict the stored key of a delayed lossless frame (more datagrams in
  `Tunnel`; `NoDesync`).
- `ChatE2EE`: with one lost connection (`OneDrop`): a REPLY to an earlier INIT is
  taken for the answer to a newer one (`Agreement`), an ACK covers a missing text
  (`AckContiguous`, `session.h:63-64`), the fallback clock runs while the friend is
  away (`FallbackEarned` without `Undisturbed`), a text that was buffered is queued
  as well (`ShownOnce` with a fold), and a re-send from a full buffer overwrites
  the entry it re-sends (`BufferIntact`, `session.c:978`).
- `EventLoop`: with both queues full each thread waits for the other (`Chatty`;
  `Backpressure`, and `Jammed` in `CommandsServed`); a client stopped while its event
  queue is full is joined for ever (`StoppedBusy`; `JoinedWaiting` in `Terminates`). With
  the capacity of the code this takes a burst larger than the queue. Closing the window
  while the passphrase dialog is open joins a thread that waits for ever (`ClosedLocked`;
  `JoinedWaiting`): `pass_cancel` is not set at `ui_tk.c:5326`, against
  `tox_thread.h:345-348`. The runs have all three.
- `TunnelStream`: bytes are lost, and `lost` says so, when the server is slower
  than a poll (SO_ERROR is 0 while the connect is under way, against the comment
  at `tunnel.c:84-85`), when a program does not read (`tt_send` takes less, credit
  is returned all the same), when OPEN or DATA is sent before the tunnel session is
  active (dropped and reported as sent) and over a reconnect.
- `FileTransfer`, all against `ToldTrueEver`: the index is saved with a count that
  includes bytes still in the stdio buffer, so a crash (`Crashing`) or a write that
  fails (`DiskFull`) leaves a file shorter than the index says; the resumed
  transfer seeks past its end, and completion verifies nothing. The comment at
  `tox_thread.c:791-792` speaks of "a resumable partial at the true offset". A file
  sent again while it is on the way is resumed at the counter of the transfer that
  is still open (`Twice`). After a chunk that toxcore refuses, the sender drops the
  transfer without a CANCEL, the next request is answered from the avatar and its
  bytes go into the file (`Mixed`), against `tox_thread.c:957-959`.
- `FileTransfer`, stated for a lasting connection only (`AvatarSettles`): a picture
  counts as sent when it is offered (`tox_thread.c:506`), so one lost with the
  connection is not offered again; a removal while the friend is away never reaches
  him; a picture whose transfer was cut off is refused as known when it is offered
  again, because `has` stays set while `hash` is already the new one. Accepting a
  file onto a shorter, unrelated file keeps that file's bytes
  (`tox_thread.c:1232-1250`).
- `Chess`: the search tries moves on a board from which a pawn taken en passant is
  not removed (`chess.c:125`), so a check that only such a capture answers is called
  mate (`EnPassant`, in the run; exempt in `SearchAgrees`), against `chess.h:73`, "True if `color` has any
  legal move". `tt_chess_move` never looks at the safety of the mover's king.
- `ChessGame`: the id of a game overlaps the payload in the packet and is not
  compared. A declined invite, crossed invites and a lost packet leave the inviter's
  game pending for good; the comment at `ui_tk.c:3894` speaks of a teardown on
  disconnect that does not exist. A third friend's invite takes over `chess_fn` while
  another game is shown. A move command names no game.
- `Calls`: a peer that sends video opens our camera in a call that was answered by voice
  (`PeerCamera`, in the run; exempt in `DevicesOnlyInCall` through `filming`; `av.c:195`,
  "we accepted video", `ui_tk.c:1649`). A call of ours that crosses an
  incoming one hides its banner (`BannerShown`; `ui_tk.c:86`, "banner shown until
  answered/declined"), and a refused call of ours hides the running one. The record
  of one call is reset by another friend's. The button for answering with video runs
  the self-view command (`ui_tk.c:5066`, `5259`), so `cc_av_answer_video` is reached
  by name only. With two calls at once there is one microphone gate and one remembered
  state: the second call's mute button opens what the first one's closed, and the camera
  may be turned on in the call that never had it (`TwoCalls`; `av.c:511-534`,
  `ui_tk.c:2786`). `audio_alsa.h` describes a locked ring that drops the newest;
  `audio_alsa.c:22-54` is lock-free and drops the oldest.
- `TunnelShare`: when two friends share with each other, datagrams of one service
  come out at the other (`Mutual`), and so they do in one direction when an end was given
  up silently and the share is repeated (`Again`), `tunnel.c:1235`, against
  `tunnel.h:21`; both are in the run and named by `NoCrossTalk`. A second friend's invite while the dialog is open is dropped by the
  front end (`ui_tk.c:2421`) and stays pending, which blocks that friend's later
  invites. An accept that arrives after the time-out makes a repeated share live. A
  stop is not told to the peer, a failed bind not to the host. `tt_tunnel_deny` closes
  the socket of another index, and nobody posts it.
- `Groups`: "group_add is idempotent" (`tox_thread.c:3136`) is not so: accepted
  invitations and restored groups are listed twice (`Restored`), and leaving one takes
  away one entry (`RestoredLeft`, in the run; `leftover` in `ListTrue`), against
  `tox_thread.c:1464`, "no phantom". A topic that is cleared stays on the screen: an
  empty string is not pushed (`tox_thread.c:1319`) and the handler copies only what is
  there (`ui_tk.c:1995`) (`Topical`, in the run; exempt in `RosterTrue`). Being kicked leaves the entry in the list, and
  its number may become another group's. The front end takes the number of a
  moderation event for a role (`Promoted`, in the run; `ShownRoles` in `RosterTrue`;
  `ui_tk.c:2163`, comment at 2190). The burst stops at the first gap in the peer ids (`tox_thread.c:2903`,
  "peer numbers are dense"). A full table of invitations overwrites slot 0 while the
  dialog may hold it; an invitation that arrives while the dialog is open is never
  shown and keeps its slot, and so does one whose dialog is closed without an answer. The members dialog acts on the group that is selected,
  not on the one it lists. The founder's own changes of settings are not echoed.
- `ui_tk.c:4646-4649`: the comment on the passphrase buffers does not match the
  order in `cc_pass_ok`.

## 7. Not modelled

Cryptographic primitives are symbolic. Media devices and their rings, the platform
layer, self-check, argument parsing, widgets and drawing keep no protocol state. The
scripted headless modes are test drivers. History, settings and profiles are files
written and read whole; the byte format of the session store is left out with them
(its count of sessions is one byte). Wall-clock time is ticks. Texts are short enough
for one message: splitting into chunks is left out. Of tunnels: the headless hosts
and clients with their port lists, allow and deny. Of calls: deafening, self-view,
test modes, bit rates, durations and the shutdown of ToxAV. Of groups: the texts we
send, invitations we send, names, statuses, passwords; toxcore's group protocol is
the environment.

## 8. Plan

Modelled: the encryption (`Ratchet`, `RatchetChannel`, `Rekey`, `ChatE2EE`), the threads
(`EventLoop`), the queue (`OfflineQueue` as an implementation of `TextQueue`), tunnels
(`TunnelStream`, `TunnelShare`), file transfers and avatars (`FileTransfer`), chess, calls
and groups. Proved: section 4. What is left to prove, in this order:

1. `TunnelStream`: `StreamIntact`, from where each numbered chunk is: read, in the queue,
   buffered or written.
2. `ChessGame`: `OneGame` and `EndAgreed`, as far as they do not evaluate boards.
3. `Groups`: `RosterTrue` for groups without double entries, field by field.
4. `ChatE2EE`: `ShownOnce` for an undisturbed connection.
