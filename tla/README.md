# LemurPouch: verification development

LemurPouch moves files between peers over a relay that cannot read them. A relay (Go) keeps one
WebSocket per client, tells each client who is connected, lets two clients agree to be *friends*,
and forwards sealed envelopes between friends. Clients (Go with a terminal interface, and a browser
portal in TypeScript) offer, accept, stream and verify files inside those envelopes.

This directory holds TLA+ models of the parts where the order of things matters, the TLC
configurations that check them on small instances, and theorems that TLAPS checks for every value
of the constants. `PROJECT.json` maps every definition to the source lines it stands for.

- [Inventory of the system](#inventory)
- [Modules](#modules) and how they correspond to the code
- [Runs](#runs): what is checked, on which bounds, with which fairness
- [Proofs](#proofs)
- [Findings](#findings), and [observations](#observations) on behaviour no comment rules out
- [What is not modelled](#what-is-not-modelled)
- [Plan](#plan)

Run from this directory: `tlc -config MCFriendship.cfg MCFriendship`, `tlapm FriendshipProofs.tla`.


## Inventory

Paths are relative to `src/`.

| Component | State | Operations | Talks to |
|---|---|---|---|
| Friendship manager, `internal/relay/friendship.go` | `pairs`: per (IP of the sender, recipient) an active invite, a queue, a rejected flag; `friends`: unordered pairs; both under `fm.mu` | `HandleInvite`, `HandleAccept`, `HandleReject`, `OnPeerDisconnect`, `AreFriends` | looks peers up in the hub; one goroutine per notification it writes |
| Hub and discovery, `internal/relay/relay.go` | `Hub.peers` under `hub.mu`; `broadcastMu` | `add`, `remove`, `snapshot`, join sequence (list, then peer-joined), leave sequence (cleanup, then peer-left), `broadcastExcept` | one goroutine per connection, one per broadcast frame |
| Handshake, `internal/relay/relay.go`, `internal/client/handshake.go` | a timer, an atomic `closed` | challenge, identify, welcome, refusal | precedes `Hub.add` |
| Envelope forwarding, `internal/relay/envelope.go` | none of its own | `forwardEnvelope` | reads `friends`, then the hub, then writes to the destination |
| Limits, `internal/wireproto/limits.go`, `portal/src/transfer/negotiate.ts` | none (pure) | chunk size negotiation, window, ack threshold | both clients and the relay's welcome |
| Go client transfers, `internal/client/transfer.go`, `messenger.go` | `outbound`, `inbound`, each entry with a mutex; the file; stall timers | `SendFile`, `AcceptTransfer`, `RejectTransfer`, `streamFile`, `waitForWindow`, the handlers of accept, reject, ack, chunk, end and peer-left | envelopes to the peer, events to the interface |
| Go client connection, `internal/client/client.go`, `events.go` | peer set, write channel, event channel, session keys | read and write loop, `emit`, `write`, `shutdown`, `Close` | relay, terminal interface |
| Go client friendship view, `internal/client/friendship.go` | friends, invites in and out | `Invite`, `Accept`, `Reject`, the notifications | relay, session keys |
| Portal relay client, `portal/src/relay/client.ts` | the socket, frames buffered before the first subscriber | `connectToRelay`, `onMessage`, `close` | relay, the mount effect of `App.tsx` |
| Portal friendship view, `portal/src/App.tsx`, `transfer/messenger.ts` | directory, invites in and out, friends, peers seen leaving, session keys; what is rendered, and a ref that follows it | the handlers of discovery and friendship frames; invite, accept, reject | relay, messenger |
| Portal sending, `portal/src/App.tsx`, `transfer/sendWorker.ts` | `outbound` in React state, as rendered, and in `outboundRef`; the sending loop; waiters | `sendFile`, `startStreaming`, the handlers of accept, reject, ack and peer-left, `dismissTransfer` | send worker by messages, peer by envelopes |
| Portal receiving, `portal/src/App.tsx`, `transfer/receiveWorker.ts`, `transfer/state.ts` | `inbound` likewise; assemblers, ack bookkeeping and stall timers on the page; entries and ack bookkeeping in the worker | accept, reject, chunk, end, stall, dismiss; the worker's start, frame and abort | receive worker by messages, peer by envelopes |
| Terminal interface, `internal/tui` | lists of peers, offers and transfers | `Update` on key strokes and events | calls the client from the loop that drains its events |
| Wire protocol, `internal/wireproto`, `portal/src/relay/wire.ts`, `portal/src/transfer/control.ts` | none | marshalling, parsing | everyone |
| Cryptography, `internal/cryptoid`, `portal/src/crypto` | keys | signatures, key agreement, AEAD | everyone |
| Command line, `main.go`; website, scripts | | start-up; not part of the running protocol | |

What is hard about each, and what makes it correct:

* **Friendship manager.** One mutex, so each handler is atomic; but a connection's lifetime is not.
  `Hub.remove` and `OnPeerDisconnect` are separate holds of separate locks, and a connection that
  was displaced by a newer one of its identity still dispatches frames. Correct means: no invite
  waits behind nothing, none vanishes with its sender waiting, queues keep their order, an identity
  has one invite to a recipient however many addresses it connected from, and nothing outlives the
  peers it is about.
* **Discovery.** A join sequence reads a snapshot and writes it later; leave sequences run
  concurrently; broadcast frames are written by goroutines of their own. Correct means: a list never
  brings back a peer whose departure was told, nobody connected is missing once things are quiet,
  and the mutex that arranges this is given back on every path.
* **Handshake.** On the relay a timer races the reader; at the page the handshake may come back after
  its effect was cleaned up, the socket may close before anybody listens for it, and the relay's
  first frames arrive before anybody subscribes. Correct means: frames reach the subscriber once
  each and in order, every attempt ends, and none leaves a socket behind.
* **Portal's view of friendships.** Notifications arrive in any order, before the peer-joined they
  refer to or after the peer-left; clicks are about what was rendered; keys are derived in four
  places and dropped in three. Correct means: keys only of friends, invites only while open, and
  page and relay agree when nothing is on its way.
* **Transfers of the Go client.** Two goroutines and a read loop on one side, a read loop, a user and
  a timer on the other, envelopes that the relay may drop without a word, and flow control in which
  each side waits for the other. Correct means: never more in flight than the window, never both
  waiting, a file is reported complete only if it is the whole file, every transfer that started
  ends, and each side tells one verdict.
* **Portal transfers.** The same protocol, with the state kept three times (React state, what was
  rendered, a ref that an effect replaces), loops that await between looking and acting, and
  workers that keep books of their own. Correct means the same, and that a verdict once shown stays.
* **Client events.** `emit` blocks when the channel is full, sometimes with a lock held, and some
  calls that emit are made from the loop that drains the channel; three callers may end the
  connection. Correct means: nobody waits for ever, the interface sees the events in order, learns of the
  end once, and is left with nothing on display that no longer holds.

`PROJECT.json` lists the hazards one by one, at their lines, with the properties that cover them.


## Modules

```
Friendship         <- FriendshipProofs
Friendship         <- Consent <- ConsentProofs                     (INSTANCE Relay)
Discovery          <- DiscoveryProofs
FrameStream        <- Handshake <- HandshakeProofs                 (refinement Stream)
Limits             <- Transfer, PortalSend, PortalReceive
Transfer           <- TransferProofs                               (and what Limits promises)
TransferLifecycle  <- PortalReceive (refinement), PortalSend (its safety half)
PortalSend         <- PortalSendProofs
PortalReceive      <- PortalReceiveProofs
EventPump          <- EventPumpProofs
MCFriendship, MCDiscovery, MCHandshake, MCConsent, MCTransfer, MCPortalSend,
MCPortalReceive, MCEventPump: instances for TLC
```

`FrameStream` and `TransferLifecycle` are abstract: what a component promises, without how.

An operator introduced by "Faulty variant of X" is not part of a model. It is X with the mistake a
change to the code might make, and shows that a property can tell the two apart.

### Friendship

`relay/friendship.go` as a whole, with as much of `relay/relay.go` as it depends on.

* `pairs[<<ip, recipient>>]` is the bucket; a bucket that the Go map has no entry for is `NoState`.
  `friends` is a set of two-element sets, `hub` is `Hub.peers`.
* `session[c]` is the `Peer` record of the goroutine that serves connection `c`: identity and
  address do not change while it runs. `leaving` holds the connections between `remove()` and
  `OnPeerDisconnect`. That a goroutine may still dispatch after a newer connection displaced it
  (`Join` overwrites `hub[p]`) is how the code works: the displaced one is closed asynchronously.
* `sent` holds the notifications that the last step handed to `writeAsyncToIdentity`. Each is
  written by a goroutine of its own and in no promised order; `Consent` has them on their way.
* `HandleInvite`, `HandleAccept`, `HandleReject` and `OnPeerDisconnect` are one action each; the
  code that promotes the next invite (`promoteNext`), that drops a reciprocal invite, and that
  filters queues is part of them. A directive that the code drops changes nothing and is no step.
* Where the code iterates a Go map and stops at the first match (the reciprocal bucket), the choice
  is nondeterministic.

### Discovery

The join and leave sequences of `relay/relay.go` step by step (`phase`), with `broadcastMu` as a
variable that names its holder, the broadcast goroutines as a set of frames (`posted`) that may be
delivered in any order, and the peer set of each client (`view`, `client/client.go`). `WritePeerList`
writes to whatever connection the identity has by then, as `writeTo` does. `PeerListFails` is the
early return. A connection is not used twice: with reuse one could not tell whether frames of an
earlier life are still on their way.

### Handshake and FrameStream

`handshake()` of `relay/relay.go`, `connectToRelay` of `relay/client.ts`, and the mount effect of
`App.tsx` that calls it, for one connection.

* `hs` is the relay's handler; `claim` is the atomic `closed` that reader and timer swap, `timer` the
  `AfterFunc`, whose goroutine may already run when `Stop` is called. `verifies` is the outcome of the
  checks on the identify message.
* `socket` is `readyState`, `pc` where `connectToRelay` is, `buffer` the frames kept for the first
  subscriber, `ui` what the page shows. A browser event runs to completion, with what its promise
  wakes inside the client; the effect's continuation is a step of its own (`Continue`), so that
  anything may happen before it. `Cancel` is the effect's cleanup, possible at any moment.
* `Lost` is a connection that breaks with everything on it.

`FrameStream` is the contract of `onMessage`: what the relay sent after the welcome is heard once
each, in order and without a gap, until the stream is over. The mapping takes the stream for over
when the effect was cleaned up, the attempt failed, or the socket closes.

### Consent

The handlers of `App.tsx` for discovery and friendship frames, the clicks on invite, accept and
reject, and the messenger's key cache, composed with `Friendship` by `INSTANCE`.

* `air` are frames on their way to the page, delivered in any order; it is filled by the very
  notifications (`sent`) of the relay's handlers and by the discovery broadcasts. `toRelay` are the
  page's directives, in order. A directive that the relay drops is consumed (`RelayReads`).
* `shown` is what is rendered, and what a click may refer to; `peersRef` follows in an effect
  (`SyncPeersRef`). `friendsRef` is written with the state and needs no copy.
* `lowOrder` are peers whose key agreement fails although their signature is right; the code has a
  branch for them in three handlers.
* The others connect, leave and send whatever the relay would act on. The page's own connection stays
  (the portal does not reconnect) and was there first, so its peer-list is empty.

### Limits

`wireproto/limits.go`, one operator for each function, and `negotiate.ts`, which is the same operator
by operator; with `chunkCount`. Sizes are naturals: the Go ints are 64 bits wide, the portal's numbers
exact up to 2^53, and the sizes far below.

### Transfer

One transfer between two Go clients, from the moment the offer lies before the user.

* `terms` are the sizes the two sides settled on, computed as `AcceptTransfer` and
  `handleTransferAccept` do. It is a variable only to start from every combination of the constants.
* The sender's `streamFile` goroutine is at `sPc`: waiting for the window, about to check `aborted`,
  sealing and sending, sending the end, or about to report. Its read loop is `SenderReads`
  (accept, reject, ack) and the three steps of `handlePeerLeft`.
* The receiver's read loop is `ReceiverReads` (`HandleChunk`, `HandleTransferEnd`), its timer
  `ReceiveStall`, its user `AcceptTransfer` and `RejectTransfer`. A chunk is its number, length and
  last flag; `pending` are the chunks buffered out of order.
* `toR` and `toS` are the envelopes in flight, in order: one write channel, one socket and one
  forwarding loop carry them. The relay may drop any of them (`LoseToReceiver`, `LoseToSender`).
* `ReadFails`, `DiskFails` and the departures are the other faults; `faulty` remembers that there
  was one, so that properties can speak of transfers in which nothing failed.
* Each hold of `ot.mu` or `it.mu` is a step; so is each send.

Left out: encryption and the digest (every chunk is what the sender read, so the digest mismatch that
loss of a chunk and a file that changed would cause shows up as a size or number that does not fit),
the choice of a file name, other transfers, and control messages that a peer of this code would not
send.

### PortalSend, PortalReceive and TransferLifecycle

One outgoing and one incoming transfer of the portal.

* `state` is the entry in React state, `shown` what was rendered last, `ref` the entry in `outboundRef`
  or `inboundRef`. `Render` takes `state` to the screen; an effect of that render (`Effect`,
  `RunEffects`) copies what was rendered into the ref, later; a click is rendered at once with its
  effects. With `OtherTransfers` the page may render at any time for another transfer's sake.
* `PortalSend`: `pc` is where the loop is, `streamChunksViaWorker` or `streamChunksMain` (`worker`); each await
  is a boundary between steps. `Merged` is what the effect keeps of the live cursors. `Stall` is the 30 s
  window timeout, `Fail` what ends the transfer from inside the loop. `BufferStuck` is a wait for the buffer of
  the socket (`waitBufferedAmount`) that never comes back: a closed socket keeps what it had buffered,
  for this transfer or another, and counts what it discards, so that the loop may find it too full at any look.
* `PortalReceive`: `pc` is where `acceptIncomingTransfer` is (painting, opening the file, receiving), `asm`
  and `book` the page's assembler and `lastAcked`, `entry` the worker's, `toWorker` and `toMain` the messages
  between them. `AcceptChunk` is the assembler of `state.ts`, which page and worker share: duplicates, gaps,
  bounds and completion. `InboundVerdict` compares digests: `sender.honest` is whether the bytes sent are
  those of the digest in transfer-end, and chunks are what the sender cut.
* The peer is the other side of the protocol, at the level of windows and acks; it may fall silent or
  leave, and the page's connection may break (`Lost`). In `PortalReceive` chunks may overtake each other and
  come twice, which the relay does not do to one sender's envelopes, but which the assembler is written for.
* `TransferLifecycle` is what a user is promised: the statuses in the order the comment at the
  state's declaration lists, a verdict that is never overwritten (`Safe`), and a stream that ends.
  Both modules map onto it the status in React state. `PortalReceive` implements all of it; `PortalSend` implements
  `Safe`, and its `LifecycleSpec` says that a stream ends unless its loop is stuck at the buffer of a closed socket.

Left out of `PortalSend`: frames of other transfers (the renders they cause and what they leave in the buffer are there).
Left out of `PortalReceive`: the worker's own look for a key (`receiveWorker.ts:272`), since `friend` stands
for the keys of page and worker, which part only where a peer-joined makes the page derive keys late
(`App.tsx:449`), with no live friendship; the catch around the worker's handlers (`receiveWorker.ts:190`), which for a
write to disk that throws tells the page of an abort without an id, which the page ignores; and the one around the
assembler (`App.tsx:1919`), which allocates nothing at that point.

### EventPump

A running Go client and the terminal interface: `client.go`, the handlers of `transfer.go` and
`friendship.go` as far as they emit, lock and send, and `Update` with `waitForEvent` of `internal/tui`.

* The goroutines are the read loop, the write loop, `streamFile` of one file, the stall timer, and the
  interface, which runs the client's commands inside `Update`. `todo[g]` is what a goroutine has still to do
  of the handler it is in, one operation for each that may wait (for room, for the mutex, for
  `closeOnce`) or that others can observe; an operation is a step of its own (`Emit`, `Write`, `SealAndSend`, ...).
* `events` is `c.events`, numbered as it was filled; `writeCh` counts frames; `itMu` is the mutex of the
  inbound transfer, which `abortInbound` and `tryFinalize` hold through `emit`. `once`, `conn` and `cancelled` are
  `closeOnce`, the WebSocket and `c.ctx`: `Shutdown`, `Report` and `Cancel` are the three parts of `shutdown`,
  which closes, reports and cancels; `Close` and `HangUp` those of `Close`, which cancels first and reports nothing.
* `armed`, `held` and `handled` are `waitForEvent`: a listener is armed by an `Update` that has come back
  (`Listeners`), takes an event, and a later `Update` folds it in (`Shown`). `view` is what is shown: the
  status of either transfer, whether the offer is in front, whether the connection is gone.
* One inbound and one outbound transfer, both with the peer whose departure `peer-left` tells. A chunk
  or the end comes only for a transfer whose accept went out. What bytes they carry is in `Transfer`.

Left out: several transfers at a time (they would share the channels, and no other state), the path
entry, the list of peers, and a last chunk that comes behind the end and completes the transfer from `handleChunk`
(`transfer.go:610`): the relay keeps the order of one sender's envelopes, and none of the properties depends on it.


## Runs

| Run | Instance | States | What it shows |
|---|---|---|---|
| `friendship` | 4 identities, 2 addresses, 4 connections, bounded as below, symmetric | 195,488 | `OneInviteInFlight`, `NoStrandedQueue`, `NoInviteBetweenFriends`, `GoneAreForgotten`, and of every step `NoSilentDrop`, `NoOvertaking` |
| `friendship_reconnect` | 2 identities, 3 connections | violated | finding 1 |
| `discovery` | 3 identities, 3 connections | 162,406 | `SnapshotIsBacked`, `NobodyMissing`, `EveryHandlerProceeds` |
| `handshake` | 3 frames after the welcome | 1,050 | `TimerSparesTheServed`, `NoOrphanSocket`, `ClosedIsShown`, `Settles`, and that `Handshake` implements `FrameStream` |
| `consent` | the page, one peer with two connections, bounds below | 37,789 | `KeysOfFriendsOnly`, `InvitesAreOpen`, `AgreeAtRest` |
| `transfer` | sizes below, patient timers | 353,320 | `WindowRespected`, `NeverStuck`, `WholeFile`, `NeverOutOfRange`, `InboundOneVerdict`, `Settles`, `Completes` |
| `portal_send` | sizes below, worker and main thread | 616,815 | `WindowRespected`, `NeverStarved`, `DoneIsComplete`, `AbortHasCause`, and `LifecycleSpec`: the statuses are those of `TransferLifecycle`, and a stream ends unless `BufferStuck` |
| `portal_send_others` | the same, with other transfers | violated | finding 3 |
| `portal_receive` | sizes below, memory and disk, other transfers | 116,518 | `SenderNeverStarved`, `DoneIsWhole`, `MemoryAbortHasCause`, `DoneGetsLink`, and that `PortalReceive` implements `TransferLifecycle` |
| `portal_receive_disk` | the same, to disk | violated | finding 2 |
| `event_pump` | channel of 1, five starts as below | 171,711 | `DisconnectedOnce`, `OffersAreLive`, `EventsInOrder`, `StopsWhenCancelled`, `HandlersEnd`, `EventsAreSeen` |
| `event_pump_stuck` | channel of 1, a file coming in, an invite being accepted | violated | finding 4 |

**Bounds.** Most bounds are the size of a constant set; the counters that are cut off are named.

* `Friendship`: three connections let one identity be displaced while another is present, and three identities
  behind one address fill a bucket with an active invite and one behind it; two addresses give the
  cross-bucket cases. A queue of two needs a fourth identity and a fourth connection. With them the constraint
  `Bounded` explores only `OneLine`: everybody at one address, with one connection each, inviting the fourth
  (the buckets of different recipients interact only through `friends`); without them (`Few`), everything with at most two
  cleanups pending and two friendships. Connections are reused: no state of the manager refers to one that is gone.
* In `Discovery` each connection is used once. With three, an identity comes, leaves and comes again,
  or is displaced, while another joins, or all three join at once.
* `Handshake`: `MaxFrames = 3` lets frames be in the buffer, behind it, and arrive after the
  subscription. The handshake itself needs no bound.
* `Consent`: one other peer, as the handlers of different peers share nothing but the buckets that
  `friendship` covers; `MaxJoins = 2` for a departure and a return; `MaxAir = 3` frames on their way to
  the page, all different, and `MaxQueued = 2` directives, which is an invite crossing an accept and a
  notification left over from before a departure.
* `Transfer` scales the sizes down: a floor of 2 bytes, a preferred and maximal chunk of 5, a file
  of 13 offered and of 12, 13 or 14 found, or of 0, relay limits that are absent, below the floor and
  above the preference, windows that are absent, too small (raised to two chunks) and
  larger than two chunks. So a file takes three to seven chunks and several windows, ends on a chunk
  boundary or inside one, and shrinks or grows after the offer. The floor is 2 because a window of
  2 bytes has no quarter; `LimitsAssumption` states that, and the real floor is 64 KiB.
* `PortalSend`: chunks of 2 bytes, an empty file and one of 15 (eight chunks), no window and one of
  12 (six chunks, with a quarter of more than one), so that the sender runs into the window and needs acks.
* `PortalReceive`: chunks of 2 bytes, 5 announced, 3, 5, 6 or 7 sent (two to four chunks: short,
  right, longer within the last chunk, longer by a chunk), a window of 5 that lets out two chunks before an
  ack is needed, so that they may overtake each other, and `MaxDups = 1`: one duplicate anywhere.
* `EventPump`: the code's channels have 128 and 64 places. With one place for events and one for
  frames they are full after as many steps; what happens at the limit depends on who waits, not on the
  number. `Starts` says what is under way and bounds what comes: `frames` from the relay, and each of the commands in `keys`
  at most once. `Each` has an offer with two frames and every answer, a file coming in with one frame and commands that emit, send
  and quit, and a file going out with a frame or a quit. `Chunks = 1` sends a file in one chunk and its end.
* `CHECK_DEADLOCK FALSE`: clients need not connect, connections are used up, and a transfer ends.
  Where something must go on, a property says so (`NeverStuck`, `NeverStarved`, `SenderNeverStarved`,
  `EveryHandlerProceeds`, `Settles`, `Completes`, `DoneGetsLink`, `HandlersEnd`, `StopsWhenCancelled`, the streams of the abstract modules).

**Fairness.** None in `Friendship` and `Consent` (safety only).

* `Discovery`: strong fairness of each handler's next step in its join or leave sequence. The
  mutex is contended for ever if clients come and go for ever, and `sync.Mutex` hands itself to a
  waiter that was passed over for a millisecond, which is what strong fairness says; the write
  that is made with it held has a timeout. A handler whose join failed goes on to `remove()`, weakly fair. Nothing
  makes a client connect, disconnect, or a frame arrive.
* `Handshake`: weak fairness of the browser's events, of the page's timers and of the effect's continuation.
  None of the relay: `Settles` holds however slow the relay is, because the page times every wait.
* `Transfer`: weak fairness of the goroutine `streamFile`, of both read loops, of the steps of
  `handlePeerLeft` once begun, and of the timers. None of the user's decisions nor of any fault.
* `Patient = TRUE` in `transfer`: a stall timer (30 s) fires only when nothing is on its way.
  `Completes` needs that, since a timer that fires at once ends any transfer. That the safety invariants
  hold also when a timer fires at any time is proved, for both values of `Patient`.
* `PortalSend`: weak fairness of the loop, its stall timer, delivered frames, and of React's renders
  and effects. The buffer of an open socket drains; the loop gets no further once it is stuck at that of a closed one
  (`BufferStuck`, which nothing forces), and without a window no timer ends that, so `LifecycleSpec` excepts it. `PortalReceive`: weak fairness of `Progress` (frames, messages and timers as a whole) and of
  renders and effects. Timers fire only when nothing that would count as progress is under way: that a
  timer of 30 s may fire at any time would make every abort excusable. None of the user.
* `EventPump`: weak fairness of each goroutine's next step inside its handler, of the write loop, the goroutine
  of a file, the listeners and `Update`: the Go scheduler runs what can run. None of the relay, the
  user, the stall timer or the loss of the connection: the properties hold with and without them.
  `HandlersEnd` and `EventsAreSeen` except the interface that is `Stuck`: finding 4, which only the end of the connection
  resolves (`StopsWhenCancelled` has no exception).

**Mutants.** For every property of every passing run `PROJECT.json` names a change of one definition
under which TLC finds the property violated.


## Proofs

| Theorem | Module | States |
|---|---|---|
| `TypeCorrect` | FriendshipProofs | `Spec => []TypeOK` |
| `NothingStranded` | FriendshipProofs | `Spec => []NoStrandedQueue` |
| `OneInvite` | FriendshipProofs | `Spec => []OneInviteInFlight` |
| `FriendsApart` | FriendshipProofs | `Spec => []NoInviteBetweenFriends` |
| `GoneForgotten` | FriendshipProofs | `Spec => []GoneAreForgotten` |
| `NobodyDropped`, `InOrder` | FriendshipProofs | `Spec => NoSilentDrop`, `Spec => NoOvertaking` |
| `TypeCorrect`, `ListIsBacked` | DiscoveryProofs | `Spec => []TypeOK`, `Spec => []SnapshotIsBacked` |
| `EveryoneShown` | DiscoveryProofs | `Spec => []NobodyMissing` |
| `ChunkSizeBounds`, `WindowOpens` | TransferProofs | what the negotiated limits guarantee |
| `NotStuck` | TransferProofs | `Spec => []NeverStuck` |
| `OnlyWhole` | TransferProofs | `Spec => []WholeFile` |
| `WindowKept` | TransferProofs | `Spec => []WindowRespected`, with honest acks (`AcksAreHonest`) and in-flight bytes below the window |
| `InRange`, `OneVerdict`, `TypeCorrect` | TransferProofs | `Spec => []NeverOutOfRange`, `[]InboundOneVerdict`, `[]TypeOK` |
| `TypeCorrect` | HandshakeProofs | `Spec => []TypeOK` |
| `TimerSpares` | HandshakeProofs | `Spec => []TimerSparesTheServed` |
| `NoSocketLeft`, `LossIsShown` | HandshakeProofs | `Spec => []NoOrphanSocket`, `Spec => []ClosedIsShown` |
| `IsFrameStream` | HandshakeProofs | the safety half of the refinement `StreamSpec` |
| `KeysOfFriends`, `InvitesOpen`, `TypeCorrect` | ConsentProofs | `Spec => []KeysOfFriendsOnly`, `[]InvitesAreOpen`, `[]TypeOK` |
| `Agreement` | ConsentProofs | `Spec => []AgreeAtRest` |
| `IsLifecycle` | PortalSendProofs | `Spec => Lifecycle!Safe`, the safety half of `LifecycleSpec` |
| `DoneOnlyWhole` | PortalSendProofs | `Spec => []DoneIsComplete` |
| `WindowKept`, `NotStarved`, `AbortsHaveCause` | PortalSendProofs | `~ OtherTransfers => (Spec => []P)` for `WindowRespected`, `NeverStarved`, `AbortHasCause` |
| `IsLifecycle` | PortalReceiveProofs | the safety half of the refinement `LifecycleSpec` |
| `OnlyWholeFiles` | PortalReceiveProofs | `Spec => []DoneIsWhole` |
| `NeverStarved`, `AbortsHaveCause` | PortalReceiveProofs | `Spec => []SenderNeverStarved`, `Spec => []MemoryAbortHasCause` |
| `TypeCorrect`, `ReportedOnce` | EventPumpProofs | `Spec => []TypeOK`, `Spec => []DisconnectedOnce` |
| `InOrder`, `OffersLive` | EventPumpProofs | `Spec => EventsInOrder`, `Spec => []OffersAreLive` |

They hold for any sets of identities, addresses and connections, finite or not, any number of frames,
and any sizes. The assumptions are those of the models: `NoConn` is no connection, `NoPeer` no identity,
bounds and sizes are naturals, the floor of the chunk size is at least 2 and the preferred size positive.

**Types of the friendship manager.** `TypeOK` is inductive because it includes that the hub refers
only to connections in their read loop, of the identity they are filed under. The work is in the two
operators on queues. `Without`, the filtering of a queue, is a recursive function; that it unfolds
and what it keeps is shown by induction. The library's induction theorems take an operator as
parameter, which the provers cannot instantiate, so the module first derives from the well-foundedness
of `<` an induction over the *set* of the naturals for which the claim holds (`NatSetInduction`).
`PromoteNext` chooses the least promotable position (`ChosenLeast`).

**Invariants of the friendship manager.** Every action but `HandleInvite` only takes invites away.
So what an operation does to one bucket is stated once, as `Shrinks` (no new sender, no duplicate,
nothing stranded, no promotion of an invite between friends), and shown of `PromoteNext`,
`AfterDeparture`, a cleared bucket and a rejected one; `StepEffect` collects that every step either
shrinks all buckets or lets one grow by an invite that passed `MayInvite` (`BucketGrows`).

* `NoStrandedQueue` is inductive as it is.
* `OneInviteInFlight` is about positions in a line; the inductive form `OneInv` is about bucket
  states: no sender twice in a bucket (`Distinct`) and no sender in two buckets of one recipient
  (`Uncrossed`). `LinePositions` relates the two.
* `NoInviteBetweenFriends` needs `OneInv`: an accept promotes the accepted bucket and *one*
  reciprocal bucket, and that this is enough rests on there being at most one.
* The two halves of `GoneAreForgotten`, about recipients and about friends, are inductive together:
  `Accounted(p)` ends only with the cleanup of `p` (`AccountedKept`), which drops everything about `p`;
  and friends need recipients, because accept looks up only the originator.
* `NoSilentDrop`: a promotion drops the active invite and those it passes over, which are between friends (`PopsMoot`);
  a departure drops none between two others (`DepartureKeeps`); `StepTells` has one step per action.
* `NoOvertaking`: every step but an invite embeds the new bucket in the old one in order (`Follows`, which composes); in
  a bucket without duplicates (`OneInv`) such an embedding is unique, so two invites that stay keep their order.

**Discovery.** `TypeOK` says that `broadcastMu` is held exactly in the phases `listing` and
`listed`. An identity in a snapshot is in the hub or its departure is still to be announced; only
`AnnounceLeft` ends that, and it needs the mutex that the reader of the snapshot holds. `NobodyMissing` needs
`InformedInv`: once a peer has announced its only connection, every snapshot taken has it (also the one of a displaced
connection, whose list goes to the newer one), and whoever had written its list before shows it or has a peer-joined coming;
a peer-left about it cannot be on its way, because a connection of it would be gone (`LeftOfGone`). That the connections
of an identity are finitely many is part of the invariant, since `ConnectedOnce` counts them.

**Handshake.** `Shape` and `Booleans` carry the types (apart, because the two provers are good at one
each). `TimerSparesTheServed` needs `ClaimDecides`: who closes or verifies has claimed. `SocketInv` adds that a socket
is closing only because the attempt is over. The refinement needs `StreamInv`:

* `Numbered`: what was posted, buffered and heard are the numbers from 1 on, none that was not posted;
* `Begun`: before the relay serves nothing is posted and no welcome or close is on its way;
* `InOrder`: behind a welcome on its way the frames follow in order, up to the last one posted;
* `Ahead`: once the page has taken the welcome, the frames on their way are the ones after those it took.

Then a step that hears maps to `Hear`, the flush of the buffer hearing several frames at once.

**Consent.** `KeysOfFriendsOnly` and `InvitesAreOpen` are inductive (`Kept`), and the proof has one step
for each handler: none of them relies on what the relay sends, which `ElsewhereSteps` makes precise. That the
page and the relay agree (`AgreeAtRest`) does depend on it. Its invariant, `AgreeInv`, is about the first peer that
connects and is still there: the relay is empty until then (`Pristine`), and afterwards holds, of the two, at most one
invite each way, in the bucket of its sender's address, and nothing queued (`Alone`). So each directive has one outcome,
which `InviteEffect`, `AcceptEffect` and `RejectEffect` state once for both ends (`Side`). `Page` says where a decision may be:

* before the two are friends (`Strangers`), the invite the relay holds is in exactly one place: on its way to the page, on show,
  or answered with the answer on its way; the page's own likewise, and an invite is never queued behind an accept;
* once they are (`Friends`), nothing is left to answer, and the page knows of it or `accept-from` is on its way;
* what was rendered last is behind only in ways that let no click repeat a decision (`Lag`).

**Portal sending.** Two invariants hold whatever is rendered. `ListInv` has the types and what each phase of the loop
leaves in the queues of the worker; with it `Aside` and `Steps` say what a step may do to the phase of the transfer, which
gives `IsLifecycle`. `EndInv` follows the end: it is behind the last chunk, and `Wired`, which counts the bytes up to
the last chunk on its way, never falls. It gives `DoneIsComplete`.

The rest needs `~ OtherTransfers`, and not for the sake of the proof: with renders for other transfers TLC finds all three
properties violated, in the way of finding 3. Without them every render comes behind a change of this
transfer, and what an effect may put back is bounded (`RefInv`):

* `CopiesInv`: which statuses the three copies (`state`, `shown`, `ref`) may show at once. It gives `AbortHasCause`,
  since the loop then never sees a status that is not "streaming" while it sends.
* `CursorInv`: the ref is never behind what was rendered, and no copy shows more bytes sealed than were, or acked than the peer acked.
* `AckInv`: acks are on their way in order, and the last one is on its way or in the ref: an effect loses none.
* `FlowInv`: what was sealed is what was put on the wire and the frame at hand, which `waitForWindow` has let by.

`NeverStarved` follows with the window lemma of `Limits` (`Room`), as `NeverStuck` does.

**Portal receiving.** `ListInv` says that the two ways of receiving do not mix (a receive to disk has
no assembler on the page and is never done; one in memory sends the worker nothing), and what was
rendered as settled is settled or gone, which is why a dismissal maps to `Forget`. `Listed` and `Moves` summarise what a
step may do to the list; `StepOfList` has one step per action, and `StepsOfLifecycle` maps the result.
`DoneByVerdict` is the converse question, which step may set "done": only one whose assembler, with the chunk or the end taken
in, finds its digest verified. `WholeInv` then follows the last chunk: every chunk on its way was sent,
an assembler knows the last number only once the sender has sent it, and has a digest only of a file of the
announced size (`BeforeCount`: the chunks of a file are all of it).

`SenderNeverStarved` and `MemoryAbortHasCause` need what is on its way as well, for the worker and for the page, with
renders for other transfers or without:

* `PhaseInv`: while a transfer streams no copy of its status is behind, and until the accept is sent
  nothing but the offer has been sent.
* The assembler (`AsmOK`): its bytes are those of the chunks it took, all of one size but the last; so the bytes it counts
  never pass the announced size early (`BytesWithin`), it refuses no chunk of the file that was offered (`NotRefused`), and
  with every chunk taken none is left waiting (`AllIn`). `FrontierIs` is the loop that empties the list of waiting chunks.
* `TakenInv`: every chunk that was sent was taken in, or is on the wire or in the messages to the worker.
* `AcksInv`: the ack that was booked last is the last one on its way or was heard; each `needAck` of the worker will be
  booked when main hears it (`NeedsBooked`), because main counts from the same bytes; no ack is owed for what was taken in.
* `EndsInv`: in memory, once the last chunk is sent, the end is on its way or taken in, and a digest does not wait beside it.

With nothing on its way all that was sent is in the assembler (`AllArrived`). Either that was the whole file, and the
receive was finalized with the last step, or the window is open (`Room`).

**Limits.** `WindowOpens`: when a receiver has taken everything and owes no ack, it has acknowledged
all but less than a quarter of the window; the window holds two chunks; so one more chunk fits. It
is the reason for `NeverStuck`, `NeverStarved` and `SenderNeverStarved`, for all sizes.

**Transfers of the Go client.** All safety invariants of `Transfer` are proved, for any file, any
negotiated sizes, any loss and any departure. The argument has these layers, each inductive relative to the ones above it:

* `Shape`: types, the floor of the chunk size, and that `streamFile` starts with the accept at chunk 0.
* `FlowInv`: what was sent ends at the offset of the next chunk; the chunks on their way are chunks of
  the file in order, none of them taken yet; no ack says more than was acknowledged. It gives `AcksAreHonest`;
  `FlowTake` is the step that matters, where taking a chunk keeps the bytes taken below the offset of every later one.
* `WindowInv`: what `waitForWindow` let through stays below the window until it is sent, since acks only
  make room. With `FlowInv` it gives `WindowRespected`.
* `RangeInv`: a chunk starts within the size that was offered, because one that is not the last is full
  (`NextWithin`); rounding up by the floor then never falls short (`WithinRange`). It gives `NeverOutOfRange`.
* `AssemblyInv`: what was taken in order is the file so far, and a chunk that is buffered waits for one
  that was lost, after which the file never becomes complete; the chunk flagged last is the last one,
  and the end comes behind it. It gives `WholeFile`.
* `VerdictInv`: who tells a verdict takes the transfer off the list in the same step. It gives `InboundOneVerdict`.
* For `NeverStuck`: while nothing failed, what is on its way is exactly what the receiver has yet to take
  (`InOrderInv`), the sender has the last ack or it is on its way (`LastAckInv`), and no ack is owed
  (`QuarterInv`). With nothing on its way both sides then agree on the bytes, and `WindowOpens` lets the next chunk through.

**Client events.** Every step has one of seven effects on `todo` and `closeOnce` (`TodoStep`) and one of five on the
events (`EventStep`); `StepEffect` shows it with one lemma for each goroutine, and the invariants are about the effects only.

* `TodoInv`: what a goroutine does inside `closeOnce` is in nobody's list but that of the one it let in.
* `OrderInv`: the events held and those in the channel carry the numbers from `handled + 1` on, because
  a listener is armed exactly if none is held. It gives `EventsInOrder`.
* `ReportInv`: before the report nobody has one (`UnreportedBefore`, `ReportedAfter`), the report adds one terminal event, and
  only the display takes one away: the event it takes is not in the channel as well, by its number. It gives `DisconnectedOnce`.
* `MutexInv`: whoever takes the mutex of a transfer is about to emit, and gives it back with that step.
* `OfferInv` follows the offer from the read loop through the channel to the display. Before it is shown nobody has
  answered it. If the transfer failed meanwhile, the report is behind the offer in the channel or its emitter is about to
  put it there (`Failing`), so that the display drops the offer after it showed it. While it is shown, an accept is either
  under way or came to nothing because the session had ended, and then the reader is still to fail what is listed (`Leaves`).
  `ListInv` says in which lists such handlers stand. Most steps bring no offer and take none away (`Onward`) and keep
  `OfferInv` for that reason alone. What is on its way (`Way`) is ordered by `OrderInv`.

**Only model-checked.** Liveness (`EveryHandlerProceeds`, both `Settles`, `Completes`, `DoneGetsLink`, `StopsWhenCancelled`,
`HandlersEnd`, `EventsAreSeen`, the fairness in `StreamSpec` and in the `LifecycleSpec` of `PortalReceive`, and the leads-to in that of `PortalSend`), which depends on fairness and is out
of the prover's reach. Every safety property of a passing run is also proved, three of `PortalSend` under
`~ OtherTransfers`, under which its run checks them too.
Nothing is proved about what `RECURSIVE` operators compute; the models use none.

**Only proved.** The type invariants (`PortalSend` and `PortalReceive` state none of their own): no run repeats them.


## Findings

Each is a run whose property quotes a comment of the code and whose counterexample is a behaviour of the code.

1. **A reconnect can cost the new connection its friendships** (`friendship_reconnect`). Between
   `Hub.remove` and `OnPeerDisconnect` (`relay.go:319`) the same identity may register again; the
   cleanup of the old connection then deletes its friendships and invites, and a peer-left announces it as gone.
   The displacement of a connection that has not left yet is guarded, this order is not.
2. **A receive to disk never hears of its end** (`portal_receive_disk`). The handler of transfer-end
   (`App.tsx:794`) looks the transfer up in the map of receives held in memory and returns; the code
   that forwards the frame to the worker (`App.tsx:797`) is not reached. The worker, with every byte hashed, waits for it until
   the stall timer aborts the receive.
3. **A render for another transfer can abort this one** (`portal_send_others`). The effect that copies
   rendered transfers into `outboundRef` (`App.tsx:320`) keeps the live entry only if both statuses are
   "streaming". A render made before the peer accepted whose effect runs after it puts
   "awaiting-decision" back, which the sending loop takes for an abort. The same effect can put back older
   counts of sent and acked bytes.
4. **A command given while the channel of events is full stops the interface** (`event_pump_stuck`). `Accept`,
   `AcceptTransfer` and `RejectTransfer` emit (`friendship.go:38`), the interface calls them from `Update`, and only
   an `Update` that has come back arms the listener again. With the channel full the command waits for room
   that nobody makes, and the read loop waits with it. The code has 128 places; the run has one.

### Observations

Further behaviours the models have and no run claims. The first five are at odds with a comment.

* The end of the connection may never be told: `shutdown` drops `Disconnected` if the channel is full at
  that moment (`client.go:206`) and never tries again; `client.go:193` says it is reported exactly once.
* Events may follow the terminal one: `Disconnected` is in the channel before the context is done
  (`client.go:205`), and after that a select with room may still send; `events.go:119` rules it out.
* A transfer that ended may be shown as active: `handleEvent` sets the status on every progress event
  (`tui/events.go:54`), also on one that comes behind the `TransferFailed` of a departure.
* A rejection may vanish: `RejectTransfer` takes the transfer off the list before it fails to seal
  (`transfer.go:254`); when the peer's departure is being handled nobody reports it (`events.go:107` says it is), and the
  offer stays in front of the user, where it can be neither accepted nor rejected.
* A stream of the portal may never end. `waitBufferedAmount` (`App.tsx:1054`) looks at nothing but `bufferedAmount`,
  which on a closed socket never falls and grows with each frame that is discarded; with 8 MiB there the loop polls
  for ever, `onClose` touches no transfer, and the list goes on showing "streaming". `negotiate.ts:17` names
  a stall timeout for a windowed sender without acks, but the timer runs only in `waitForWindow`. `LifecycleSpec` excepts
  this (`BufferStuck`); without the exception its run finds it.
* A displaced connection whose goroutine still dispatches may invite after the newer connection has gone
  and been cleaned up; no cleanup follows for it (`friendship.go:162`). `GoneAreForgotten` is about recipients
  and friends for that reason.
* peer-joined and peer-left of one identity are written by two goroutines and may overtake each
  other; the client then lists a peer that has gone (`relay.go:210`). `NobodyMissing` is the direction that holds.
* A departure handled between the last frame and the final status makes the Go sender emit
  `TransferFailed` and then `TransferComplete` (`transfer.go:464`).
* An accept that cannot be sent because the peer has just left returns an error with the transfer set to
  streaming; `failTransfersForPeer` ends it. If the user rejects it before that, the rejection may vanish.
* accept-from handled before the effect has synced `peersRef` leaves the portal with a friend
  and no keys until the next peer-joined of that friend.
* An accept that fails on the portal's side, without keys or with a worker that does not open the
  file, aborts locally and tells the sender nothing (`abortOfferLocal`).
* peer-left ends a receive on the page but tells the worker nothing, and so does an answer of the
  worker that comes after the 15 s of `OpenTimeout`: its entry stays.
* What the page sends through a socket that is closing is discarded without a word.
* The worker keeps chunks of a transfer it does not know for a start that may never come (`receiveWorker.ts:332`); those of an
  aborted transfer stay as long as the worker runs. `PortalReceive` drops them: nothing it models could depend on them.


## What is not modelled

* **The worker's end of a stream** (its finalizing, the "done" message and what the page makes of it):
  unreachable from the page as it is, see finding 2. A model of it would be of code that does not run.
* The fallback stream of the receive worker for files too large for memory: one more writer behind
  the same messages.
* **The Go client's handshake and friendship view.** The first is sequential code under one deadline. The second
  has the frames and the gate of `Consent` without rendering; it is the next candidate.
* **The rest of the terminal interface**: the list of peers, the path entry, the rendering. `EventPump` has what
  waits for the client or shows a transfer.
* **The envelope gate.** The friendship is looked up before the destination, and a write takes time;
  the receiving client drops what it cannot decrypt. `Transfer` has the effect, dropped envelopes.
* Wire formats: pure data, whose fields appear as records. Frames that do not parse are dropped by every reader.
* Cryptography: assumed to do what it says; the key agreement that refuses a key is in `Consent`.
* `uniquePath` and the rename at the end of a transfer: needs two transfers and a directory.
* A sender whose offer gets no answer waits for ever, in both clients. Nothing in the code promises
  otherwise, so liveness starts from the accept.
* The relay's connection limits, keep-alive pings and HTTP routing; command line, website, scripts, rendering.


## Plan

Done, in this order: `Friendship`, `Discovery`, `Limits` and `Transfer` with their runs and the
relay's proofs; `Handshake` with `FrameStream`; `Consent`; `PortalSend` and `PortalReceive` with
`TransferLifecycle`; the proofs of `Handshake`, `Consent`, `PortalReceive` and `Transfer`; `EventPump` and its proofs;
the proofs of `PortalSend`; the proofs of what was only model-checked until then (`NobodyMissing`, `OffersAreLive`, `AgreeAtRest`).

What would add most next:

1. The Go client's friendship view as a second client of `Consent`, and two pages against one relay.
2. Agreement of page and relay with several peers at once, and after a reconnection: `AgreeAtRest` and its proof are about the first peer.
3. The envelope gate composed with `Friendship`: a friendship that ends and is made anew around a write.
4. Two transfers in one directory (`uniquePath`), and the worker's end of a stream once it is reached.
