# A verification project for grammers

grammers is a set of Rust crates that implement Telegram's client protocol. This
directory holds TLA+ specifications of the parts of it that are hard to get right:
what happens to an invocation between a caller and Telegram; how connections are set
up, shared, paced and torn down; how a session numbers, acknowledges and salts its
messages; how the numbered sequences of updates are kept complete, in order and
stored; and the client's own concurrency (start and stop, transfers, listings, login,
the stored session). TLC checks the specifications on small instances; TLAPS proves, for
every value of the constants, that updates are delivered exactly once, all safety properties
of a connection and that it implements its abstract specification, the safety properties of
the pool of connections, those of a session but one, and those of the exchange of keys, the
setups, the retries, the managed client, the logins, the stored session and the table of peers.

Paths below are relative to `src/`.

## The system

| Component | State it keeps | Operations |
|---|---|---|
| **Update state** `grammers-session/src/message_box/mod.rs`, `defs.rs` | per sequence (account pts, account qts, one pts per channel) a position, deadlines, a possible gap, the pending, deferred and retry state of its recovery; the queue of ready recoveries and its counter; held channel updates; the cached `next_deadline`; `seq` | `process_updates`, `check_deadlines`, `take_released_updates`, `get_difference`/`apply_difference`, `get_channel_difference`/`apply_channel_difference`, `end_channel_difference`, `defer_channel_difference`, `try_exhaust_channel_grace`, `channel_difference_accessible`, `retry_channel_without_delay`, `set_state`, `try_set_channel_state`, `discard_account_state`, `load` |
| **Adaptor** `message_box/adaptor.rs` | none | turns the forms of updates and differences into one |
| **Sender** `grammers-mtsender/src/sender.rs` | a vector of requests with their states, the write buffer and how much of it is written, read buffer, ping timer | enqueue, `try_fill_write`, `on_net_read`, `on_net_write`, `on_ping_timeout`, `process_*`, `on_error`; `generate_auth_key` |
| **Request queue** `grammers-mtsender/src/queue.rs` | the queued requests, whether it is closed | send, recv, close, drain |
| **Invocation tracker** `invocation_tracker.rs` | a stage (Idle, Pending, Sent) and the time of sending | `try_acquire`, `mark_sent`, drop |
| **Sender pool** `sender_pool.rs` | permits by count and bytes, routes to live connections, groups of waiting requests per datacenter and their setups, pacing of attempts, tasks of connections, the configuration lock | invoke, `disconnect_from_dc`, quit, `drive`, setup, publish, drain |
| **Retry policy** `configuration.rs` | what was slept so far | decides after an error |
| **Updates receiver** `updates_receiver.rs` | the update state, pauses, buffered updates, the account it belongs to | `next`, recovery, persistence |
| **Encrypted session** `grammers-mtproto/src/mtp/encrypted.rs`, **replay window** `mtp/replay.rs` | last message id, sequence number, time offset, salts, pending acknowledgements, the container being built; identifiers received lately | push, finalize, deserialize; remember |
| **Authentication** `authentication.rs`, **plain session** `mtp/plain.rs` | the values of the key exchange | four steps |
| **Transports** `transport/*.rs` | per direction: initialised or not, counters, cipher state | pack, unpack |
| **Streams and proxies** `grammers-mtsender/src/net/*` | what was read and written of a header, a record, a packet | connect, read, write, flush |
| **Session storages** `grammers-session/src/storages/*`, **formats** `import*.rs`, `native.rs` | datacenters, peers, update state | get, set; conversions |
| **Client runtime** `grammers-client/src/client/runtime.rs` | the runner's task, whether it is stopping, a shared connectivity check, the completion | start, connect, run, run_until, stop, stop_with_timeout |
| **Client requests** `grammers-client/src/client/*` | iterators, transfers, the table of stored peers, a login in progress | one method per Telegram feature |
| **Crypto, type language** `grammers-crypto`, `grammers-tl-*` | none | pure functions, parser, generator |

### How the parts interact

```
 callers --admission--> tracker                                    Telegram
    |  route cached: send on its clone                               ^ |
    |  none: the runner's queue --> group --> setup (key, config) --+| |
    v                                          | publish            || v
  queue --recv--> sender task <---> sender <-- transport <-- stream, proxy
                       |                  \--> session (ids, salts, acks)
                       v  bounded channel
                  updates receiver <--> update state --differences--> callers
                       |                                  |
                   storage <--------- peers, login -------+
```

* A caller runs on its own thread. It may cancel its request at any moment by
  dropping the response, and it keeps a clone of the route after the pool has
  dropped its own.
* The pool's runner owns connections and setups and handles one event at a time.
  Callers, `disconnect_from_dc` and `quit` change the route cache and the semaphores
  beside it. Setups run at once and share one lock around the configuration.
* A connection has one task. Its handlers are not interrupted, but callers act
  between any two of their shared effects: a permit is dropped before the
  response is sent.
* Telegram may reject one message of a container or all of it, send a reply
  twice, and go on executing after the connection has failed.
* The update state is owned by the receiver and is purely reactive; time enters
  through deadlines. The receiver's `next()` may be dropped at every await.
* The stored session is shared by logins, setups, the receiver and the table of peers.

### What is hard

Interleavings of callers with tasks (cancellation while a request is queued,
framed, half written or sent; submission to a connection that is ending; a lost
wake-up); certainty about delivery after a failure; results of superseded setups;
rejections that arrive late or twice; wrong clocks and salts; socket updates that
arrive while a difference is pending; recoveries that are deferred, put off and
started again; futures dropped at an await; queues, windows and budgets at their limit;
cached deadlines and stale tables; kills between two writes. `PROJECT.json` lists each
of them under "hazards" at the line where it bites, with the properties that would
catch it going wrong.

### What makes each part correct

* **Update state**: every event above the place where a position was established
  is handed out exactly once and positions never run backwards; a pending
  recovery freezes its sequence; the recovery queue, the pending flags and the
  counter agree; held updates are always looked at again; the cached deadline is
  never too late; a channel is not asked about again before its delay is over;
  everything catches up.
* **Sender, queue, tracker**: a request takes effect at most once; an outcome
  that excludes delivery is true and stays true; a tracker has one owner, and its
  requests never overlap at Telegram while the connection lives; the write buffer and
  the framed requests agree; whatever is queued is settled.
* **Pool**: one connection per datacenter; a result of a superseded setup is ignored;
  what runs after a disconnect runs on something new; permits add up and are back
  before the caller hears; attempts are paced; no cancelled group keeps a setup alive;
  every accepted call is settled.
* **Updates receiver**: what was applied reaches the application or is kept; next() stores
  a position only when what it covers was handed out; a logged-in user catches up.
* **Encrypted session, replay window**: identifiers are acceptable under every
  time correction; no update is delivered twice; acknowledgements and salt requests do
  not get stuck.
* **Key exchange, transports, proxies**: both sides hold the same key; what arrives is
  what was sent, however it is cut, and what counts as sent has left.
* **Client**: callers agree on how a client ended; transfers are whole; a listing
  gives each item once; a login is recorded where the account is; what the session
  confirmed it keeps; a message belongs to its input.

## The modules

| Module | Models |
|---|---|
| `MessageBox`, `MessageBoxProofs`, `DeliveryProofs`, `MCMessageBox` | the update state, with Telegram, the clock and a receiver that calls it |
| `Sender`, `SenderProofs`, `MCSender` | callers, tracker, queue, connection task, sender and Telegram: one connection |
| `Invocations` | what a connection promises its callers; `Sender` implements it |
| `SenderPool`, `SenderPoolProofs`, `MCSenderPool` | admission, routes, groups, setups, pacing, publication, disconnect, quit, loss and drain of the runner |
| `ClosureWatch` | how the runner learns that callers have gone, split at every access to a shared word |
| `ConnectionSetup` | what concurrent setups store, the configuration lock, and copied authorizations |
| `Retry` | the retries of one request under `AutoSleep` and `RetryBudget`, while the pool may stop |
| `Encrypted` with `ReplayIds`, `EncryptedProofs`, `MCEncrypted` | message identifiers, time correction, acknowledgements, salts, containers, replays |
| `Handshake` | concurrent key exchanges on symbolic values, and their blocking jobs |
| `PacketReader` | the read half of a connection over four transports, from a stream cut anywhere |
| `ProxyStream` | HTTP CONNECT, fake TLS records and the flushing writer, polled and dropped |
| `UpdatesReceiver` | `next()`, the channel that feeds it, its pauses, storage and restart |
| `Lifecycle` | a managed client that several tasks start, run and stop |
| `FileDownload`, `FileUpload` | parallel transfers and the download iterator |
| `Paging` | the iterators over messages, search results, dialogs, participants and photos |
| `PeerCache` | the table that saves writes of peers to the session |
| `Login` | code, password, bot and QR logins with migration |
| `SqliteSession` | the SQLite storage: lock, transactions, cache, kills |
| `SentMessages` | sending, albums and forwards, and the matching of messages to inputs |
| `Network`, `ConnectionProofs` | `ClosureWatch`, `Retry`, `Handshake`, `ConnectionSetup` and `UpdatesReceiver` side by side, and the proofs about them |
| `Client` | `Lifecycle`, `Login`, `SqliteSession`, `PeerCache`, `FileDownload`, `FileUpload` and `SentMessages` side by side |
| `ClientProofs`, `TransferProofs` | the proofs about the first four of them, and about transfers and sending |
| `MCNetwork`, `MCClient` | extend `Network` and `Client` by instances of the modules that have no MC module of their own |

A definition named `Faulty...` (or otherwise marked as a fault) stands beside the
definition it distorts the way a plausible mistake would; no specification uses it.
Each part of a combined property has at least one; `PROJECT.json` lists one for each
property of each run.

### MessageBox

`mb` is the struct `MessageBoxes` with the fields of the source; each method is an
operator from a struct to a struct (`TryBeginGetDiff`, `ResetDeadline`,
`HoldUpdates`, ...) or, when it is public and changes state, an action. A method
with a loop runs as one step per iteration: `call` is the call in progress and
holds its local variables, and no other action starts before it returns, as
`&mut self` ensures. The loop of `process_updates_inner` has one action per branch
of its body (`LoopTooLong`, `LoopUnordered`, `LoopForced`, `LoopHeld`,
`LoopOrdered`), followed by the sort (`SortNext`, `EndSort`) and the drain of the
gap (`LoopDrain`); `retain_contiguous_held_updates` is `ExtractNext`, `EndExtract`,
`SiftNext`, `EndSift`. What follows a loop in its caller (`EndSocket`, `EndAccount`,
`EndChannel`) is chosen by `call.after`.

An instant is the time left until it, so that states do not depend on how long
the program has run; `Tick` lets time pass. The environment: `Publish` lets
Telegram's position move over the next event; a container may carry any published
events in any order and number (lost, duplicated, late), `updateChannelTooLong` and
updates without a pts; a difference carries what lies between the client's position
and the one it ends at, the account's one also arbitrary updates of channels. `Saved` are the
sessions that may be stored, by the sequences whose position is positive; `Repaired` is what
`load` keeps of one. Invalid identifiers and repeated channels of a damaged file, which `load`
drops or merges before it builds the entries, are not told apart from what it leaves of them.

Two variables serve the properties only. `delivered` counts how often each event was
handed out; `base` is where the present position of a sequence was established:
what was handed out before a channel was forgotten, or before a difference said
"too long", no longer counts.

### Sender and Invocations

The unit is one connection. The vector of requests is a function from requests to
their state (`new`, `framed`, `sent`), number of retries and packet: the order of the
vector decides nothing the properties speak about, so every order is allowed. A
message is identified by the number of its packet and its request, which stands for
the pair (container id, message id) the code compares. `made` numbers the packets; it
is the counter of message ids and only grows.

| Code | Actions |
|---|---|
| `InvocationTracker::try_acquire`, the permit's drop | `Reserve`, `Release` |
| `try_route`, then `send` on the clone | `TakeRoute`, `Submit` |
| the response future is dropped | `Cancel` |
| `recv` and `enqueue_tracked_body` | `Receive` |
| `try_fill_write`, `on_net_write`, `on_ping_timeout` | `TryFillWrite`, `OnNetWrite`, `OnPingTimeout` |
| `process_result`, `process_error` | `ProcessResult` |
| `process_bad_message` | `ProcessBadMessage`, `BadNext`, `BadEnd` |
| `on_error`, then the end of `run_sender` | `Fail`, `OnErrorNext`, `CloseQueue`, `DrainNext`, `DrainEnd` |
| disconnect, quit, the abort of the task | `Unroute`, `Stop`, `DropRequest`, `DropReceiver`, `DropQueued`, `DropEnd` |

`Request::complete` drops the permit and then sends the response. The two are
separate steps (`Retire`, `Notify`) because a caller on another thread may reserve the
tracker in between. `Stop` requires that the pool has dropped its handles: the pool
aborts a task only after it removed its route. Telegram is external: it takes packets
apart, executes or rejects each message, and a reply may be delivered again. That it
does not execute what it rejects, and does not execute one message twice, is assumed.

`Invocations` has two variables, `executed` and `outcome`, and two actions: a request
takes effect once and never after its caller was told that it did not; a caller is told
once, and told the truth. `Sender!Promised` is this specification under the mapping that
forgets everything else.

### SenderPool, ClosureWatch, ConnectionSetup, Retry

`SenderPool` has the whole pool as one caller sees it: permits (`slots`, `bytes`), the
route cache, the runner's queue, groups (`pending`), setups and connections under one
identifier, and pacing. The runner's `drive` is one action per event it selects; the code's
`biased` order is one of the orders the model allows. A connection appears only as
open, closing or over: `Sender` has the rest. A request that was given up is `doomed`,
then `released`, then `over`, since its permit is dropped before its response. `since`,
`old` and fields of `call` (`by`, `barred`) are history for the properties. `Respond` tells the
caller and releases nothing: what a call would still hold at that moment it keeps for good, and
`PermitBackBeforeTold` would see it. `PoolStatus`,
its counters and events are left out.

`ClosureWatch` looks into one event of the runner, `poll_closed`: registration of the
waker, the dirty flag and the scan of the group, against callers whose drop closes a
response and then marks the group. `ConnectionSetup` looks into a setup: reading the stored
datacenter, generating a key, fetching the configuration under the lock, and storing both,
aborted at any await; and `copy_auth_to_dc`, which exports and imports an authorization while
the key may be replaced. `Retry` follows one request through `do_invoke_in_dc`; "stopping"
stands for a runner that is parked or stopping.

### Encrypted and ReplayIds

An identifier is a point in time (`PerSecond` of them make a second), so the correction of the
clock, the floor on the last identifier and Telegram's window of acceptance are arithmetic
on the same numbers. `Push`, `Finalize` and `Deserialize` are the three entry points; a
received packet is processed message by message (`Process`, `RememberNext`). The window of
`ReplayIds` is the code's: offsets from a base in ascending order, evicted by capacity and
age. Handlers that change nothing, salts wrapped in `rpc_result`, the budget of
decompression and the cipher are left out.

### Handshake, PacketReader, ProxyStream

An attempt's nonces and exponents are symbols named after it, so a check that compares
them is exact and a mixed-up answer is visible. An answer may be damaged or repeated, and
the caller may leave while a blocking job runs: the job keeps its permit of `DH_JOBS`.

`PacketReader` is about bytes: a header is one or two cells so that it may arrive in
part, a ciphered cell is readable only if deciphered once at its place in the keystream, and
the buffer grows, is compacted and is given back as in the code. A packet of the padded transport
is plain, and tells the length of its body, or encrypted in whole blocks; lengths that fit
neither are refused. `ProxyStream` keeps what
survives a dropped `read` or `write` and takes one step per poll. Left out: errors of
`mtp.deserialize`, the release of the write buffer, the greeting checks of
`connect_faketls`, SOCKS and URL parsing.

### UpdatesReceiver

The loop of `next()` with each await a place where the call may be dropped: state and
authorization checks, provisional positions while the state is fetched, differences with
their failures and pauses, unreadable differences, the bounded channel and the notice of a
lost connection, storage of positions and restart. Below it the message box is reduced to
one position per sequence. `Sync` (`sync_update_state`) is taken whenever no call of `next()` is
under way, also while updates are buffered, as the test at
`grammers-client/src/client/updates.rs:214` does. Time passes while the receiver waits or between
calls.

### The client

`Lifecycle` splits each call at the sections under the state's lock; the completion record
has a lock of its own. `take_updates`, the drop of a managed client and the builder are
left out. `FileDownload` has the parallel download, whose chunks share the number of the
file's datacenter, with a disk that may fail, and the iterator; `FileUpload` the workers that take parts from one
stream, which may be longer or shorter than announced. `Paging` is one iterator with the differences of the kinds as conditions; what
is listed does not change during the listing. `PeerCache` has the table of fingerprints as
positions that several peers share, with its growth and expiry. `Login` has all ways of
signing in over datacenters that send the client about, also to a wrong one or twice;
`disconnect_from_dc`, with which a login leaves its old datacenter, changes nothing it keeps (`SenderPool`
has it). `SqliteSession` has one connection with at most one transaction, of which every statement
meanwhile is part. A call to `set_update_state` stores both tables of positions ("positions") or one
of them ("account" for `UpdateState::Primary` and `Secondary`, "channel" for `Channel`; of the channels'
table one row stands for all). `Unreadable` are the facts about a peer that `peer_from_row` does not
give back, and `cache_peers` may fail to read or to write a row and goes on. `SentMessages` has the
three sending methods up to `map_random_ids_to_messages`; a request may fail although Telegram has executed
it, and the answer may name the random ids of any of the messages.

## The runs

| Run | Instance | Checks |
|---|---|---|
| `box_channel` | one channel; a message, a read marker that moves no pts, an edit | `TypeOK`, `Consistent`, `WakesInTime`, `ExactlyOnce`, `RetryPaced` |
| `box_account` | pts and qts, numbered containers, every stored session, also a qts without a pts, login and discard | `Sound`, `ExactlyOnce` |
| `box_mixed` | the account and a channel; account differences that carry channel updates | `ExactlyOnce`, `PositionsHold` |
| `box_slow` | two channels, a difference with a long timeout | `WakesInTime`, violated: see "Findings" |
| `sender` | any two of three invocations, two of which share a tracker; one retry or one expiry of the ping timer | `TypeOK`, `DeliveryCertainty`, `PacketKeptWhole`, `ReservationExclusive`, `NoOverlap`, `Promised` |
| `pool_control` | two calls that differ in nothing (symmetry), of sizes within, at and above the limit of bytes, two setups, a disconnect or a quit, a pool that may be parked, a panic | `PermitsKept`, `OneConnection`, `StaleSetupIgnored`, `FreshAfterDisconnect`, `Paced` |
| `session` | four families of instances: replays, wrong clocks, changing salts, acknowledgements | `DeliveredOnce`, `WellFramed`, `AcksKept`, `Corrected`, `SessionServed` |
| `network` | nine components of a connection | `CallsAccounted`, `SetupsAgree`, `KeysAgree`, `BytesIntact`, `UpdatesKept`, `CallersServed`, `CaughtUp` |
| `client` | eight components of the client, and a connection with a malformed invocation and one that is rejected once | `EndsAgree`, `TransfersIntact`, `ListedOnce`, `LoginRecorded`, `SessionKeeps`, `SentIsReturned`, `CallsReturn`, `WorkEnds` |
| `forward` | a forward of which Telegram makes some messages only | `NotForwardedIsNone`, violated: see "Findings" |
| `search` | a global search over messages of several chats | `NoneWhenNothingIsLeft`, violated: see "Findings" |
| `upload` | an upload of a stream that is longer or shorter than announced | `AsAnnounced`, violated: see "Findings" |

`PermitsKept` is the conjunction of `PermitsAccounted` and `PermitBackBeforeTold`.
`Consistent` is the conjunction of `RecoveryQueue`, `NoGapWhilePending`, `HeldNotStranded`
and `QtsNeedsPrimary`; `Sound` adds `WakesInTime`. `PositionsHold` says that no step moves a
position back (`Forward`), and none moves that of a sequence whose recovery is pending except
the answer (`Frozen`).

### Sums of components

`Network` and `Client` put components that share no state side by side, with the variables of
each. `focus` says which component a behaviour is about and never changes; the variables of the
others are blank. `MCNetwork` and `MCClient` extend them by further instances, which keep their state
in variables that are blank while they are in focus: the substitutions of those instances
are mere places, chosen so that states stay small. The reachable states are the disjoint union of those of the
components, so an invariant `focus = "reader" => Reader!PacketsIntact` says of the
component what it would say in a run of its own. A fairness condition
`WF(focus = "a" /\ A \/ focus = "b" /\ B)` is, as `focus` is constant, `WF(A)` in the behaviours of
the one and `WF(B)` in those of the other. The parts of a combined property:

| Property | Parts |
|---|---|
| `CallsAccounted` | `ClosureWatch!NoLostClosure`; `Retry!SentOnce`, `WithinBudget` |
| `SetupsAgree` | `ConnectionSetup!KeyKept`, `AddressesKept`, `InvalidConfigIgnored`, `CopiedIsAuthorized` |
| `KeysAgree` | `Handshake!KeyAgreed`, `RetryIsTelegrams`, `JobsBounded` |
| `BytesIntact` | `PacketReader!PacketsIntact`, `EndsForAReason`, `AnswerBeatsDeadline`; `ProxyStream!TunnelIntact`, `WrittenOnce`, `SentIsFlushed` |
| `UpdatesKept` | `UpdatesReceiver!UpdatesKept`, `GivenUpLate`, `QuietAfterRejection`, `StoredIsHandedOut` |
| `CallersServed` | a call in the pool is settled, an abandoned group is cancelled, a retried request ends, a key exchange ends, a copied authorization arrives |
| `CaughtUp` | `UpdatesReceiver!UpToDate` and `MessageBox!CaughtUp` again and again |
| `EndsAgree` | `Lifecycle!StoppedForGood`, `PanicIsReported`, `OneVerdict`, `TimeoutIsReported`, `CheckStaysShared` |
| `TransfersIntact` | `FileDownload!WrittenWhole`, `GivenInOrder`, `RouteMovesOn`; `FileUpload!StoredWhole` |
| `ListedOnce` | `Paging!GivenOnce`, `NothingSkipped` |
| `LoginRecorded` | `Login!SignedInIsRecorded`, `PasswordAtHome`, `HomeMovesLate` |
| `SessionKeeps` | `SqliteSession!AckedIsStored`, `PositionsWhole`, `PeerNotForgotten`; `PeerCache!SkippedIsStored` |
| `SentIsReturned` | `SentMessages!OwnMessage`, `DeliveredIsOk` |
| `CallsReturn` | once the client is to stop its calls return, and a valid invocation of a connection is settled |
| `WorkEnds` | a download, an upload, a step of a login end; what is known of a peer is stored; a malformed invocation is refused |

### Bounds, and why they are enough

* *Update events*: two or three per run. A gap needs an event that is missing and one that
  is beyond it; a held update that is covered, contiguous or beyond needs a position
  before, at and after it; `count = 0` updates follow another comparison and are
  there as well. *MaxHeld* is 1 or 2 instead of 2048, so that the buffer overflows;
  *MaxDeferrals* 0 or 1 so that the grace is spent; *MaxFailures* 1 or 2, where the count
  saturates; timeouts are 1 or 2 ticks, so that every order of expiry occurs. *MaxBatch*,
  *MaxExtra* and *MaxSeq* bound what one container or difference carries.
* *Sender*: one retry (the code's 3 repeats the same step), packets of at most two
  requests (one that is rejected and one that is not), one expiry of the ping timer (in
  `client`, one packet without requests). `Bounded` in
  `MCSender`, a constraint of the run, leaves one of three invocations unmade: the two that share a
  tracker meet the ping timer, or one of them shares containers with one that is not tracked
  and is retried. The two of the tracker are alike, and symmetric in all that is checked.
* *Pool*: two calls, the second of which meets whatever the first left behind; two setups, the
  superseded one and its successor; one failure before the first of them, so that an attempt is
  delayed. The instance of `network` has limits of two requests and one byte, so that
  admission waits, fails and is repeated; it serves `CallersServed`, and has no disconnect and
  no quit, which `pool_control` has. `PermitsKept` is checked there with a limit of two bytes and
  requests of one to three: a call finds a slot and is refused the bytes, which others hold or
  which exceed the limit. It is proved for all limits.
* *Session*: a window of two identifiers and three updates, clocks that are slow, right
  and fast by more than Telegram accepts, salts for one period, packets in which an
  acknowledgement does not fit.
* *Faults*: `Max...Faults`, `MaxKills`, `MaxPanics`, `MaxOddAnswers`, `MaxAbandoned` bound failed
  requests and writes, dropped calls and kills. One is enough to be at any point of the other
  actors' work, and two are allowed where a second one meets the recovery from the first.
* *Data*: chunks, parts and packets of two to six units against buffers and limits of two to
  four, so that each meets a boundary, a remainder and a value beyond the limit; two
  or three workers, tasks or datacenters, as many as may compete. A QR login visits at most two of
  the three datacenters (*MaxVisited*), so that both the cap and the check for cycles end it.
* Nothing bounds how often recoveries begin and end, time passes, or replies come
  again: the state spaces are finite without that, and explored completely.

Deadlock is checked in the `box_*` runs. Everything else may end: connections, pools and calls.
There the check is off, and the liveness properties say that nothing ends with somebody waiting.

### Fairness

Fairness is assumed of the program's scheduling, of timers and of a Telegram that answers in
the end; never of callers' choices, of faults or of kills.

* *Message box*: weak fairness of `Continue` (a method that was called returns); strong
  fairness of `Tick`, of `CheckDeadlines` and `TakeReleasedUpdates` (the receiver calls both in
  every round of its loop), and of an answer that brings the channel up to date (between two of
  them Telegram may put off, reject or answer in slices). It is strong because other calls
  may always come in between.
* *Sender*: weak fairness of the rest of a started handler, of `Fill` and of Telegram;
  strong fairness of `Receive`, of the completion of a write, of framing a given request
  and of reading a reply to it: tokio's `select!` in `Sender::step` starts with a random
  branch, `push` takes requests in the order of the vector, and the socket takes and brings
  whole packets in the end.
* *Session*: the sender frames what it can and decodes what arrives, its timer fires, Telegram
  receives packets and sends each message at least once.
* *Pool*: a call that was started goes on, tasks and the runner are polled when they can
  run, time passes. *Closures*: a thread finishes a drop it began, a woken task is polled.
* *Setups*: a request opens a connection again; strong fairness of a setup's steps, which
  wait for the configuration lock that others take again and again (tokio's lock is fair),
  and of the copy.
* *Handshake*: Telegram answers and blocking jobs end. *Retry*: the caller and the runner run,
  and a stopping runner is dropped.
* *Receiver*: the application keeps calling `next()`, the task that feeds the channel runs, the
  login is stored; strong fairness of timers, since a call that is dropped and repeated
  disables them for a moment.
* *Client*: calls run, timers fire, pings end, a task that published its end or was aborted ends;
  requests are answered and a stream gives bytes or ends; datacenters answer a login;
  answers name a peer again and again, and some find a call free (strong).

### Findings

`box_slow`. `defs.rs:116` calls `next_deadline` the "Optimization field holding the
closest deadline instant." A channel difference may carry a timeout above
`NO_UPDATES_TIMEOUT`; `reset_timeout` then raises `next_deadline` (`mod.rs:473-489`).
`try_set_channel_state` (`mod.rs:541`) adds an entry with the usual deadline and, unlike
`set_state`, does not lower `next_deadline`: the new entry's deadline passes unnoticed
until the cached one does. The other runs use timeouts up to `NO_UPDATES_TIMEOUT`, where
`WakesInTime` holds.

`forward`. The documentation of `forward_messages` (`grammers-client/src/client/messages.rs:1034-1037`)
says "Those messages that could not be forwarded will be `None`" and that indices map to indices.
`map_random_ids_to_messages` (lines 91-108) gives an input without a mapping the message that
is left over when exactly one is. The fallback serves replies that lack a mapping; but when
the first of two messages is not forwarded and the second one is, the first position takes
the second's message and the second position is left with `None`.

`search`. The documentation of `GlobalSearchIter::next` (`messages.rs:629`) says "Returns `None` if the
`limit` is reached or there are no messages left." Its `fill_buffer` ends the listing when the first
message of a page has an identifier up to the limit of the page (lines 307, 315): the comment
argues for the messages of one chat, but a global search lists several, each with identifiers of
its own, and a page that begins with an early message of a young chat ends it too early.

`upload`. The documentation of `upload_stream` (`files.rs:465-467`) says "The stream size may be less or
equal to the actual length of the stream, but not more. If it's less, you may continue to read from
the stream after the method returns. If it's more, the method will fail because it does not have
enough data to read." `next_part` (lines 654-686) fills a buffer of `MAX_CHUNK_SIZE` whatever was
announced, so that up to a chunk more is taken from the stream and stored; and it accepts the end of
the stream in the last part, so that an upload of less than was announced succeeds.
`FileUpload!StoredWhole` says what does hold.

Observations that are in the models without a run of their own:

* `messages.rs:415`: a reversed listing whose first request fails and is repeated keeps
  `min_id` 1 and leaves out message 1. `Paging!NothingSkipped` excepts it (`again`).
* The iterators set `last_chunk` before they await the session: a call dropped there loses its
  page (`cut` in `Paging`).
* `chats.rs:195, 214-218`: listing a forbidden small group never sets `total`.
* `sqlite.rs:500`: `set_home_dc_id` gives up the lock after `BEGIN`, so other calls run inside
  its transaction; when it fails, is dropped or the process is killed, their statements are taken
  back although they were answered Ok (`loose` in `SqliteSession`; `AckedIsStored` says that nothing
  else is).
* `sqlite.rs:122-132`: both writers store `ChannelKind::Community` as 16, but `peer_from_row` does not
  recognise it and reads it as `None`, so that the next write without a kind erases it. The test at
  lines 1272-1273 says "If the inserted peer is going to be updated with some fields changed from
  `Some` to `None`, the old `Some` is expected to be kept." `PeerNotForgotten` says what holds of the
  facts that are read back (`Unreadable` in `SqliteSession`; the run `client` has one).
* `sqlite.rs:662-665`: `cache_peers` overwrites a row that it could not read, and answers with an
  error (`RowUnread`).
* `updates_receiver.rs:569`: `sync_update_state` may store positions past updates that are still
  buffered. They are handed out unless the process restarts before (`Sync`, `Restart`).
* A kill between the commit of `migrate_v0_to_v1` and `PRAGMA user_version` leaves a file that
  `open()` migrates again and fails on (`stage` in `SqliteSession`).
* Two writes of one peer that overlap may be remembered in the order in which they did not
  happen; the lifetime of the table's entries bounds how long (`unsure` in `PeerCache`).

## What is proved

All theorems hold for every value of the constants that the named assumptions admit:
any set of channels and events (with positions that do not precede `Start`), any timeouts,
limits and bounds, any set of callers and trackers, any packet size. They need no bound of
the runs.

### MessageBoxProofs

`Invariance` shows the inductive invariant `Inv`; `TypeCorrect`, `RecoveryQueueCorrect`,
`NoGapWhilePendingCorrect`, `HeldNotStrandedCorrect`, `QtsNeedsPrimaryCorrect` and their
conjunction `ConsistentCorrect` follow.

The properties are not inductive as they stand, because a method with a loop leaves the
struct half done between two of its iterations. `Inv` therefore says for every phase of a call
what the rest of it relies on: which entry a sort or a drain works on and that its recovery is
not pending, that everything taken out of the held updates belongs to the channel of the
call, that a release in progress has seen a prefix of the held updates and that those it put
back belong to pending recoveries. `RecoveryQueue` is proved through
`QueueIs(m, S)`, "the queue of m lists the set S without repetition and its counter is its
length", with a lemma for each operation on the struct (`EnqueueProps`, `DequeueProps`,
`BeginGood`, `TryEndGood`, `RotateGood`, ...); `Good` collects what every method
preserves. There is one lemma per action (`...Step`), and `NextInv` puts them together.

Assumptions: `KeysAssumption`, `SavedAssumption` (stored sessions are sets of sequences),
`EventsAssumption`, `BoundsAssumption`.

### SenderProofs

`SenderInvariance` shows `Inv`; every safety property that the runs check follows from it, with
`ExecutedOnce`, and so does `PromiseKept`: `Spec => Promised`, the refinement of `Invocations`.

The parts of `Inv`:

* `Numbers`: the packet in the write buffer is the newest; everything Telegram has or
  says belongs to an older one. So no reply can name a framed request, and a late
  rejection cannot name a request that was framed again.
* `Framing`: framed requests are those of the write buffer.
* `Places`: an invocation is in one of four places: with its caller, in the queue, in the
  vector, or in a completion.
* `Unique`: Telegram has at most one message of an invocation, and none of one it executed.
* `Truthful`: an invocation that was not sent since it was made or rejected has had no effect
  and nothing of it is under way; a rejection that names what was sent last implies
  the same; an answer implies the effect.
* `Alive`: while the connection lives, what Telegram has belongs to a sent request. With
  `Reserved` this gives `NoOverlap`.
* `Reserved`, `Stamped`: a tracker that is not idle has one owner, whose progress its stage
  reflects.

`Settle` is the lemma at the centre: it shows once that a completion (`Retire`) keeps callers
and trackers consistent if what will be said is true, and each handler that completes
requests only has to show that. For the refinement, `SilentSteps` shows that nothing but
`Execute` and `Notify` touches the abstract variables; these two map to `TakeEffect` and
`Tell`, everything else to a stutter.

Assumptions: `RequestsAssumption`, `LimitsAssumption`. Telegram is the environment of the
module: a rejected message is not executed.

### DeliveryProofs

These theorems follow events. `DeliveryInvariance` shows `DInv` beside `Inv`;
`ExactlyOnceCorrect`, `PositionsHoldCorrect`, `RetryPacedCorrect` and `BehindCorrect` follow.

`ExactlyOnce` speaks of idle states only. Within a call the position of a difference is taken
over before its events are handed out, one per step, so the invariant has to say what the call
still owes:

* `Accounted`: an event between base and position was handed out once, unless the call in
  progress owes it (it is among the messages of a difference or in the part of its updates that
  the loop has not reached); an event outside was never handed out.
* `OwedOnce`: the call owes no event twice.
* `Plain`: a socket container owes nothing.
* `Based`: the base is not above the position.
* `Behind`: what is held, waits in a gap or is in the hands of a call was published, and no
  position is beyond what Telegram has published. Without this an event could be published
  after the position had passed it, and be neither owed nor delivered.
* `Delayed`: only a recovery whose delay is over is pending and not deferred; with
  `RecoveryQueue` this is `RetryPaced`.

The loop lemmas are stated for a step that takes one update from the front (`LoopOrdered`,
`LoopForced`, ...). Sorting takes one event at a time out of the gap and appends it to what is
sorted, so that what the client carries stays the same in every step and no induction
over a sequence is needed. `PositionsHold` is an action property: `Forward` and `Frozen` are
shown for each action from `Inv /\ DInv`.

Further assumption: `NumberingAssumption`, that the events of one sequence that move its position
do not overlap: each covers the positions from `pts - count` to `pts`, as Telegram numbers them.

### SenderPoolProofs

`PoolInvariance` shows `Inv`; `TypeCorrect`, `PermitsAccountedCorrect`,
`PermitBackBeforeToldCorrect`, `PermitsKeptCorrect`, `OneConnectionCorrect`, `StaleSetupIgnoredCorrect`,
`FreshAfterDisconnectCorrect` and `PacedCorrect` follow: every safety property of the pool.

* `Numbered`: setups and connections get numbers in order, and what refers to one refers to
  one that was started, of its own datacenter.
* `Stopping`: a pool that stops publishes no route. The lock around `stopping` and the routes is
  what makes this stable.
* `Single` is `OneConnection` without cardinalities. A new connection is published
  only from the pending setup, which excludes another usable one.
* `ResultOwned`: the result of a setup is held only by a call that waited for that setup.
* `Enqueued`: an invocation is in the runner's queue at most once.
* `Counted`: the count of disconnects in the route cache covers those that have begun and those
  in the queue; while it is above zero the datacenter has no route. `OutOfReach` needs it: a
  setup that finishes while a disconnect waits in the queue must not be published.
* `OutOfReach`: what existed when a disconnect was made is out of reach of later calls, or
  the disconnect is still ahead of them in the queue.
* `Waited`: the remaining delay and the time since the last failure add up to what the failures
  demand.
* `Permits`: free permits and held ones add up to the limits; a place of a call says which it
  holds.

Assumption: `PoolAssumption` (finitely many calls, natural limits).

### EncryptedProofs

`RememberRecalls` is about the replay window alone: whatever `Remember` makes a window forget is
not above the identifier it reports as evicted, the window holds nothing else than before and
the new identifier, and the evicted one is old. It rests on what insertion at the place
`binary_search` finds does to an ascending sequence (`InsertedOrder`), on where the loop that
pops old offsets stops (`LeavingStops`), and on the offsets after the base has moved (`OtherBase`).

`SessionInvariance` shows `Inv`; `DeliveredOnceCorrect`, `WellFramedCorrect` and
`AcksKeptCorrect` follow. The parts of `Inv`:

* `Turns`: nothing is framed while a packet is decoded.
* `Prefetch`: a request for salts in flight may still fail once more, which bounds the counter.
* `SaltPacket`: a packet with a request for salts is closed, holds nothing else, and the last
  identifier is that of the request. `finalize` recognises the packet by just this, so without
  it acknowledgements could join.
* `Issued`: Telegram's messages have identifiers of their own, and what is decoded or was received
  is among them.
* `Opened`: while a container is open its messages are not in the window yet; they wait in
  `pending.ids`, and the floor by which they are judged is the session's.
* `Recognised`: an update that was delivered is in the window, not above the floor, or waits to
  be remembered, as long as the session lives; the window holds received identifiers only.
  Delivery at most once follows at the next copy of the message.
* `Aged`: the floor, once it has risen, and everything that was held back are old. A full window
  of later messages is counted by an injection from the window into what was received
  (`FullWindow`).

Each operator on a session has a lemma that says which fields it leaves alone (`Kept`), so that
the lemma of an action only looks at what the action changes.

Assumptions: `ReplayAssumption` (`MaxAge` fits into an offset), `EncryptedAssumption` (types).

### ConnectionProofs

Each module that `Network` puts together has an invariant and a theorem of its own specification
(`WatchInvariance`, `RetryInvariance`, `ShakeInvariance`, `SetupInvariance`, `UpdatesInvariance`, and
the properties `WatchCorrect`, `RetryCorrect`, `ShakeCorrect`, `SetupCorrect`). `NetworkInvariance`
combines them; `CallsAccountedCorrect`, `KeysAgreeCorrect`, `SetupsAgreeCorrect` and
`UpdatesKeptCorrect` state what the run `network` checks.

* `WatchInv`: no wake-up is lost between a caller's drop (close, set the flag, take the waker) and
  the runner's poll (register, swap the flag, scan). `PassedAreWatched`: a request the scan has
  passed is watched, and if its caller is gone the flag is set. `FlagIsSeen`: a flag that is set is
  about to be seen: a caller has yet to wake the runner, the runner has not swapped yet, or it was
  woken. `WakerIsThere`: where the waker is missing the runner was woken by whoever took it.
  `AllPolled`: a runner sleeps over a group only after it polled all of it.
* `RetryInv`: whenever a request may go out again nothing was executed (`NotYetExecuted`), which
  comes from what an error says about sending; what was slept is what the budget counted, and a
  sleep that was granted still fits (`SleptIsCounted`).
* `ShakeInv`: Telegram decides once per attempt, at the last request, and only with the nonces both
  sides hold (`VerdictIsLast`); a hash over the new nonce that is on its way tells that decision,
  whatever else of its message is damaged (`ProofsAreTrue`): a damaged or repeated answer
  fails a check, and a correct one implies the key. `PermitsHeld` counts the jobs, those
  of callers that left included.
* `SetupInv`: a setup that writes holds the configuration lock, so what it read is still what is
  stored when it writes it back merged (`SetupIsSound`); keys only become newer; the copier's key
  is not newer than the stored one, and what it records as authorized is so, or belongs to a key
  that was replaced (`CopierSound`).
* `UpdatesInv`: what was applied and not handed out is in the buffer of the stream or in a batch of
  the receiver (`NothingLost`). A batch is replaced, and next() stores positions, only while both are
  empty, and `EmptyWhileAwaiting` says at which awaits they are: next() hands out what is buffered
  before it turns to anything else, so that neither a dropped call nor the positions that next()
  stores meet an update that is in hand. `sync_update_state`, between two calls, may store
  positions past what is buffered and takes nothing out of the buffers. `CountersRight`: the counter of unreadable replies is the number
  in a row. `StaysQuiet`: after a refusal, only the stored user lets recovery begin.

Assumptions: `RetryAssumption`, `JobsAssumption`, `UpdatesAssumption` (a session that was stored is
well formed), and `SetupAssumption`: stored records and
configurations are well formed, and what `Usable` leaves of a configuration is a sequence of
options (an induction over data, which TLC evaluates for the configurations of the run).

### ClientProofs

For each module of `Client` a step lemma (`LifeInvariance`, `LoginInvariance`, `SqliteInvariance`,
`CacheInvariance`); `PeerNotForgottenCorrect` states what is kept of a peer, `ClientInvariance` combines them, and `EndsAgreeCorrect`,
`LoginRecordedCorrect` and `SessionKeepsCorrect` state what the run `client` checks.

* `LifeInv`: whoever waits for the end has seen to it that the client stops; a task's end is
  published before its join is ready, an abort comes after a timeout that was published, and what
  was published stays. The invariant is per caller (`UserSound`); `Later` names the four
  things no step takes back, from which every other caller's part follows (`UserStays`).
  `CheckStaysShared` and `HomeMovesLate` are action properties, shown of each step.
* `LoginInv`: which step a flow has reached says what the datacenter it turned to knows of the key
  (`KnownThere`): a migration moves home only from "finish" or "move home".
* `SqliteInv`: calls interleave at the lock, and `set_home_dc_id` releases it within its
  transaction, so statements of other calls become part of a transaction that is not theirs.
  `OneOwner`: there is one transaction all the same. `Transaction`: it differs from the file only in
  its owner's tables and in those that were answered inside it (`loose`), so that taking it back,
  by a drop or by a kill, takes back nothing that was answered outside. `Aware`, `AckedFree`: a
  table that has an answer for its value has no call under way. `CallHolds`: what a
  call that reads and then writes has read is still what is stored, unless it could not read its row.
  `PeerKept`: the file has what was answered about a peer, as far as a row gives it back.
* `CacheInv`: of a peer about which nothing is unsure, what the table remembers is what the session
  holds, or the one call that is writing it has not yet remembered its own.

Assumptions: `PlansAssumption`, `WritersAssumption`, `CacheAssumption` (types).

### TransferProofs

* `UploadInv`: as long as no worker failed, the stream stands where the next part begins, or the
  worker that has the lock holds what lies between (`StreamInStep`); a part that was taken is on its
  way or stored, and whole (`PartsWhole`), in whichever pieces the stream gives its bytes; a worker
  ends well only when no part is left. So an upload that succeeds has stored the parts that the
  announced size needs, the last one as far as the stream goes (`UploadCorrect`).
* `DownloadInv`: a chunk that is done is written at its offset, because the position the code
  remembers is that of the file (`ChunksWritten`); nothing that is known of the file's datacenter is
  ahead of where the file is (`RoutesKnown`), so the shared route only moves on; an iterator has
  fetched the chunk at its offset and no other, and has given those before it in order
  (`IterInOrder`). `DownloadCorrect` needs that every byte lies in a chunk.
* `SentInv`: messages exist only once the request was made, there is an answer only after it, and
  none where the call has failed; what `map_random_ids_to_messages` returns, when every input became a
  message, has for each input its own message or none. The matching is a
  recursive function over the inputs (`Mapping`); `MapSound` says what it has after each.
* `TransfersIntactCorrect` and `SentIsReturnedCorrect` state what the run `client` checks.

These proofs need inductions over numbers, for which the library's rules cannot be used. `Counting`
replaces them: a set of numbers that has zero and with each number the next has them all, since
otherwise a finite set would be as large as a proper part of it, which the theorems on cardinality
exclude. `Recursion` derives from it that a recursive function over the numbers exists, and
`MappingIs` that the model's is one.

Assumptions: `TransfersAssumption`, `SentAssumption`: sizes, limits and numbers of workers are
numbers, chunks and parts are not empty, and there is a worker.

## What is only model-checked

* Liveness (`SessionServed`, `CallersServed`, `CaughtUp`, `CallsReturn`, `WorkEnds`):
  outside the prover's reach.
* `WakesInTime`, and with it `Sound`: it holds for timeouts up to `NO_UPDATES_TIMEOUT` only, as
  `box_slow` shows; the theorem would need that as an assumption the code does not make.
* `Corrected`: it depends on how late a correction comes, which the instance bounds and the code
  does not.
* `BytesIntact`: packets and records that are cut anywhere and put together again. What has been
  taken apart is described by folds over sequences, and what they yield for every input is an
  induction over sequences with operators as parameters.
* `ListedOnce`: it compares what an iterator has given with a sorted listing that is filtered
  (`SetToSortSeq`, `SelectSeq`, both with an operator as parameter); the same holds of it.
* That a sorted gap is in order: an induction over data. The theorems do not need it.

## What is not modelled, and why

* *Data that decides nothing here*: the `date` of the update state, the contents of updates,
  messages, peers and errors, formatting and logging, status counters and events of the pool.
* *The dispatcher* of `grammers-client`: a sequential loop over handlers without a queue or
  tasks of its own. The *memory* and *erased* storages: the tables of the SQLite
  storage under one lock, without awaits in between.
* *Session formats* (`import.rs`, `import_files.rs`, `native.rs`), *text parsers*
  (`parsers/*.rs`), *SOCKS and URLs*: conversions by a single actor, in which nothing is
  concurrent and nothing survives a failure; character-level models of them would be
  transliterations.
* *Cryptography and its arithmetic* (`grammers-crypto`, factorization, Diffie-Hellman):
  numbers out of TLC's reach. The exchanges that use them are modelled symbolically.
* *Wrappers* (`types/*`, `update/*`, `media`, keyboards, most methods of `client/*.rs`):
  accessors and single requests without state of their own.
* *The type language* (`grammers-tl-*`) and generated code.
* In modelled components: what "The modules" names as left out. `PROJECT.json` gives the
  status of each.

Of the 61 000 lines under the crates' `src/`, 23 000 are test modules inside the files (three
quarters of `sender_pool.rs`, half of `encrypted.rs`) and 11 000 are comments and blank lines; most
of the other 27 000 are the wrappers, parsers, generators and conversions above. The map covers
8 200 lines, 14% of the total: it names what the definitions translate and nothing else, so it
cannot come near a third of all lines without transliterating code of those kinds.
