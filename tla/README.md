# A TLA+ development for the Bncr channel bridge

The bridge (`src/src/channel.ts` and the modules under `src/src/plugin`,
`messaging`, `core`, `runtime`) connects an OpenClaw gateway with Bncr clients.
Clients connect over the gateway, send inbound messages, and receive the
replies. Outbound messages are queued, pushed to a connected client,
acknowledged, retried, moved between accounts, dead-lettered and persisted.
Everything runs in one Node process: a callback runs to its next `await`
without interruption, and every hazard is between two callbacks.

Paths below are relative to `src/src`.

## Inventory

| Component | State | Operations | Hard part | What makes it right |
|---|---|---|---|---|
| Outbound queue, drain loops (`plugin/outbox-*.ts`, `bridge-outbox-facade.ts`, `bridge-drain-facade.ts`) | `outbox`, `deadLetter`, `pushTimer`, `pushDrainRunningAccounts`, `pushDrainExceptionRetryCount` | enqueue, flush, drain an account, push, retry, correct the account, dead-letter, purge | drains suspend in sleeps, media transfers and ACK waits with an entry they captured; flushes overlap | a message is settled once, is never forgotten, is tried within its budget |
| Message ACK (`message-ack-runtime.ts`, `outbox-ack-outcome.ts`) | waiters per message, their timers | wait, ok, fatal, retryable NACK, timeout | late, early, repeated and stale answers | an answer settles what it answers, once |
| Route and retry decisions (`messaging/outbound/retry-policy.ts`, `outbox-route.ts`) | none (functions of an entry and the connections) | push failure, retry and reroute, ACK timeout | budgets compared in several places | every failure is charged once |
| Persistence of the queue (`state-store.ts`, `sqlite-state.ts`) | save timer, SQLite rows, JSON mirror | schedule, flush, load, purge rows, cut over | a crash between change and save, or between the two stores of mode `dual` | nothing persisted is lost, nothing settled and saved comes back |
| Lifecycle (`bridge-lifecycle.ts`, `channel.ts`) | stopped flag, lifecycle generation | start, stop, shutdown | drains that outlive the stop, overlapping starts | a stop persists what it leaves, a start takes it up |
| Connections, leases, capability (`connection-state.ts`, `connection-handlers.ts`) | connections, epochs, recent leases, outbound capability | connect, activity, inbound, degrade, collect | two connections of one client, stale leases, TTLs | the current lease decides, a stale one only answers for its own push |
| Conversation history shards (`sqlite-state.ts`, `inbound/history-shard-worker.ts`) | shard table with state, owner, lease, attempts | create, claim, renew, fail, complete, recover, restore | expiring leases, two workers, crash after upload | a snapshot is uploaded once; what is lost of it is old |
| File transfer, file ACK (`file-ack-runtime.ts`, `file-inbound-*.ts`) | transfers, waiters, early ACKs | init, chunk, complete, abort, ack | an ACK before its waiter, a bounded cache | every chunk is acknowledged or the transfer fails |
| Inbound acceptance (`inbound-acceptance.ts`, `inbound-handlers.ts`) | dedupe window | accept, gate, dispatch | seen is recorded before the gate decides | an accepted message is dispatched once |
| Turn and reply order (`reply-dispatch-serial.ts`, `conversation-history-serial.ts`) | promise chains per session | append, release | a task that throws or never ends | order of a session, no chain blocked for ever |
| Scene registry, admin, prune (`inbound/scene-admin.ts`, `stale-scenes-command.ts`) | scene rows, revisions | upsert, approve, prune | a message arrives during the asynchronous prune | a live scene is not pruned |
| Registration, singleton (`bootstrap/*`) | process-wide bridge, generations | register, rebuild, reuse | a rebuild while the old bridge works | one bridge owns the state |
| Client RPC (`plugin/client-rpc-runtime.ts`) | waiting requests, a timer each | call, response, timeout, shutdown | an answer after the timeout | a caller is told the outcome or an error |
| Diagnostics, status, host adapters, migrations | reports | read | none | not modelled |

How they meet: an inbound message or an `activity` call marks a connection seen
and flushes the account (`flushOnActivity` and its siblings); a reply is
enqueued and flushed; a drain asks the connections for a route, pushes an event
and waits on the ACK runtime; the client's ACK changes the queue, resolves the
waiter and flushes again; every change arms the save timer; stopping resolves
all waiters, clears the timers and flushes the state. The full list with the
lines where each hazard bites is in `PROJECT.json`.

## Modules

| Module | Content |
|---|---|
| `Outbox` | the queue, its drains, flushes, timer, ACK waiters, saves and restarts; its mutants and properties |
| `Delivery` | what the queue promises for a message, without pushes, retries or timers |
| `Connections` | connections, capabilities, active client, lease, the owner of a push, degradation of a capability, the sweep |
| `Routes` | extends `Connections`: which of them a queued message is pushed to, tried on next, and what its ACK does to them |
| `FileTransfer` | extends `Routes`: a file sent in acknowledged chunks, a file received |
| `StateStore` | the state directory (SQLite, JSON file, snapshots), the memory of each bridge, load, flush, cutover, recovery |
| `Registration` | which registration of the plugin owns the bridge: plans, commitment, declarations, repair, observation |
| `Service` | composes `StateStore` and `Registration`: the calls of the host, suspended at each await, crashes, a second agent's process |
| `Scenes` | the scene registry as functions: admission, answering, and the commands that write it |
| `Upkeep` | the other two stores of a chat: host sessions and the client's gates, and what a prune may delete |
| `Inbound` | composes `Scenes` and `Upkeep`: messages from the client to the agent's turn, and maintenance commands |
| `History` | the window of a conversation, its rows and shards, the serial chain, the shard worker, restarts |
| `MCOutbox`, `MCTransport`, `MCService`, `MCInbound`, `MCHistory` and the `.cfg` files | small instances for TLC |
| `OutboxProofs` | type correctness, exclusive attempts and single settlement, for all constants |
| `OutboxPromise` | `Outbox` implements `Delivery`; nothing persisted is lost, changes are saved, pushes are paid for, no queued message is forgotten |
| `DeliveryProofs` | the invariants of `Delivery` |
| `InboundProofs` | types, single dispatch, authority and both prune properties, for all constants |
| `HistoryProofs` | every safety property of `History`, for all constants |
| `ServiceProofs` | types, observation and ownership of handles over the lifecycle, scene rows, for all constants |
| `StoreProofs` | a message whose end is saved is not queued again, whatever flushes and loads overlap, for all constants |
| `TransportProofs` | types, the active connection, rounds of a message, aimed degradation, the owners, answers and ends of file transfers, for all constants |

Five specifications are checked on their own: `Outbox`, `FileTransfer` (with
`Routes` and `Connections`), `Service`, `Inbound` and `History`. They meet in what each keeps
of the others: `Outbox` has one reachability value per account where
`Connections` has a table; `Service` has queued and dead messages where `Outbox`
has their retries; `Inbound` says that a scene has history or does not where
`History` has its messages. A product of two of them has too many states for TLC.

### How Outbox corresponds to the code

*One action is the code between two suspension points.* `drain[a].pc` says where
the drain loop of account `a` (`drainAccountOutbox`) is suspended: about to take
the next entry (`loop`), in `await transferMediaToBncrClient` (`transfer`), in
`await waitForMessageAck` (`ackwait`, or `expired` once cleanup has resolved the
waiter), or in `sleepMs` (`nap`, `napbreak`). `drain[a].msg`, `retry` and
`online` are what the suspended code captured: the entry object and `onlineNow`.
`rest` and `wait` are the locals of the enclosing `flushPushQueue`: the accounts
it still has to visit and whether some account left a next delay. The loop may
also be interrupted between two entries, where the code only awaits resolved
promises; the model allows a few more interleavings than Node does there.

*Clocks are abstracted.* An entry is due or not (`BecomesDue` is the passing of
`nextAttemptAt`), an armed timer may fire at any moment, an ACK wait may time out
at any moment, a connection is `live` (within its TTL), `recent` (only reachable
through a recent inbound) or `gone`. `DrainYields` stands for both the time
budget and the entry budget of a drain, possible as soon as one entry has been
processed. `MayReach` and `MayMiss` overlap for `recent`: the connection list
decides, which the model leaves open.

*Entries.* An entry keeps its account, retry count and whether it is due. Route
attempts are in `Routes`; fast reroute, telemetry, history and replay records are
left out: no property depends on them. `Home[m]` is the account of the session that
`GuardCorrects` finds; it is fixed.

*Answers.* Each push gives the client one answer (`owed`), of which at most
`MaxOwed` are under way; the rest are lost, as an answer may be that a stale
lease refuses. Answers of earlier pushes may arrive at any later time.
Answers of a push before an account correction are refused (`account mismatch`),
so `GuardCorrects` drops them.

*Restarts.* `Stop` is `cleanupBncrBridgeRuntime`: it clears the timers and
resolves the waiters as timeouts; `StopFlushes` is the flush after it. The drains
that were waiting run on a few promise jobs later and write their retries: after
the snapshot of a database that is open (`resolveSqliteState` answers at once),
before that of a JSON file. The model leaves the order open; a retry or a dead
letter written after the snapshot is not saved and is undone by the next start. A
drain in a media transfer or a nap outlives the
stop, as it does in the code. `Crash` loses the memory at any moment. `Start`
loads the queue, forgets the settlements the disk does not know (`Remembered`;
the dead letters are reloaded too) and arms the timer if a connection is
remembered. `JsonStore`
selects the store: in mode `sqlite` a prune deletes the rows at once; in modes
`json` and `dual` the JSON file, which `loadState` merges back, is only rewritten
by the next save.

*History variables.* `fate` (how a message was settled, as far as the process and the disk know),
`sends` (pushes charged to the present budget), `stored` (what ever reached the
disk) and `used` (what was ever enqueued) are read by no action except that
`Enqueue` takes a fresh message. `cold` names the accounts whose entries a start loaded while
no client was known and which nothing has flushed since: a client that shows up, an enqueue or
a positive ACK of the account takes it out, the push timer all of them. Only
`NoStrandedEntry` reads it.

### How Connections, Routes and FileTransfer correspond to the code

`net` is the state that `gcTransientState` sweeps: `conn[c]` the entry of
`connections` under the key of client `c` (its websocket, age against the TTL,
capability and the `inboundOnly` flag), `active` is `activeConnectionByAccount`,
`later` says which connection was seen later than which (`lastSeenAt`), `reach` is
the recent inbound reachability, `early` the bounded cache of early file ACKs, each with
the keys that precede it in the map (`after`), so that the oldest has none.
`epoch` is `connectionEpoch`, which each connect increments; `sockets[c][n]` is the
epoch the n-th connect of `c` got, so a lease is stale as soon as anyone connects.
`MarkSeen` and `RefreshLive` are the functions of that name with the capability
they compute, `PushOwner` with `Promote` and `PushConnIds` those of `outbox-route.ts`.

`entry` is one queued message with `lastPushConnId` (`last`) and
`routeAttemptConnIds` (`tried`). `TextRoute` and `MediaRoute` are the two selectors
of `queue-selectors.ts`; a text goes out in one step, a media message awaits its
transfer between the choice (`BeginMedia`) and the record (`MediaTransferred`).
`PushTimesOut` is `handlePushedDrainEntry` without an ACK: it degrades the socket of
`lastPushConnId` and either keeps the tried sockets or, when none is left, forgets
them (`Rerouted`). `MessageAck` is the handler with its three outcomes; an ok makes
the socket preferred (`Capable`). Only clients the message was sent to answer it.
Delays, budgets and the queue of the entry are those of `Outbox`.

`send.pc` is the suspension point of `transferMediaToBncrClient`: a waiter for a
chunk or for the completion, or the pause between attempts. A client may
acknowledge anything it was sent, at any later time, repeatedly and from any
socket it ever had; an answer without a waiter goes to the cache of early ACKs.
`recv` is an entry of `fileRecvTransfers`; `saving` counts the completions that
await the write of the file, between which an abort or a second completion runs.
One transfer of each direction is followed; nothing expires one.

### How StateStore, Registration and Service correspond to the code

`disk` is one state directory: the outbound queue and the scenes in SQLite rows
and in the JSON file, the legacy file, `store_mode`, snapshots. `bridge[b]` is the
memory of one bridge object with its database handle (`db`, `gen`), the stopped
flag and the save timer. `task[t]` is one asynchronous call (service start,
service stop, channel start, flush, cutover) at one of its awaits. Inside one
callback everything is one action: `FlushOpens` is the synchronous SQLite half
of `flushState`, `JsonLands` the awaited atomic write of the file.

Registration is synchronous, so `Registration.tla` has operators on the record
`host` and `Service` the actions: `Plan`, the commitment, what `Outcomes` a
registration may have (it may throw before or after the bridge is built),
`Registered`, the start and stop conditions that the callbacks compare with their
generation, the retirement barrier a successor waits for, `Probe` of the
observation and the pruning of the ledger. The api object with its registry is
one value, as are module epoch, factory, version and paths of the code.

`ghost` says what happened to a message: `known` (ever queued), `ended`,
`endSaved`, `lost` and `back` (losses and revivals that the code does not
prevent; listed under Observations), `stray` (the service was started again while
an earlier start was under way). A handle that has just opened resumes its waiters
before anything else happens in the process (`Due`, `MayRun`): they are microtasks of
one promise, in their order, and a stop is the last of them.

### How Scenes, Upkeep and Inbound correspond to the code

`rows[<<o, x>>]` is the row of scene `x` owned by agent `o` or by nobody; a row
keeps its status, whether an administrator approved it, mode, one setting and
the stamp of the last write. The operators of `Scenes` are the registry's
functions with their choice of a row (`Found`, `Newest`, `FallbackAgent`); a
command is a function from the rows to the rows it may leave.

`Inbound` gives every message a task with the `pc` of its await. Acceptance up to the gate is
one action (`Receive`: the window of repeated messages), admission and the acknowledgement the
next (`Refuse`, `Admit`); then the detached run: a native command of the host, the turns in
their queue, an administrator's command, or a prune with an await between each check and each
deletion. `seen` is the 90 s window as a set whose keys end at any moment (`WindowEnds`), `old`
the stamps that a prune takes for quiet (`TimePasses`). `art` and `hist` say whether a session
or a scene still has routes, queue entries or history. `woken` and `dirty` of a task, read by
no guard, collect the rows and sessions written since the prune looked at them. `DeleteRow`
resolves the scene again, as `deleteSceneRecord` does, and so deletes what it finds (`Hit`):
with an owner that owner's row, without one the newest row of the scene, whoever owns it.

### How History corresponds to the code

`window` is `conversationHistories` with the replay cache, `db` the rows by state:
held by no shard, consumed, or in a shard with its state, owner, attempts and
whether its lease has run out. `chain[k]` is the promise chain of a conversation
(`runBncrConversationHistorySerial`), each element a turn at its await; `worker`
and `ticking` the shard worker's timer and `historyShardWorkerRunning`; `loading`
the skip list of the `loadState` under way. A turn takes the window, puts it in a
shard, uploads, then completes, fails or leaves the shard to the worker;
`loadState` on a running process recovers the shards that no live turn holds.

*What is sent and what is consumed differ.* `Snapshot` is the whole window of the conversation
(`snapshotMessageIds`): the shard takes it, and its completion consumes it. `Entries` is what
the host gets: the newest `Limit` of it (`historyLimit`), where a flush keeps the reply that
asked for it (`forceSilentHistoryFlushMessageId`, the `reply` of a shard) in the place of the
oldest of these. `SaveMerged` rewrites a bucket with its newest `Cap` messages (`max(50, 1.2 *
historyLimit)`); `Record` keeps the window itself at `Limit`, which a load or a shard given
back may exceed. Messages are numbered in the order they arrive, which is that of their time
stamps and of their places in a bucket. The code caps history rows and replay rows in buckets
of their own; here they share one.

## Runs

| Run | Instance | Shows |
|---|---|---|
| `outbox_pair` | 2 accounts (one wants ACKs), 2 text messages, retry limit 1, 2 answers under way | `TypeOK`, `TextSettledOnce`, `OneAttempt`, `NoStrandedEntry`, `PushBudget` in every order of overlapping flushes, answers, timeouts, corrections and purges |
| `outbox_restart` | 2 accounts, 1 message, one stop, one crash, one throwing flush, one debounced save, mode `sqlite` | `SavePending`, `NoSilentLoss`, `NoStrandedEntry` also for answers that come after a restart, and the refinement `KeepsPromise` |
| `outbox_media` | 1 account, a text and a media message, retry limit 2, fairness | `PushBudget`, and that every message is settled (`Settles`) |
| `outbox_reroute` | 2 accounts, 1 message, retry limit 2, one throwing flush, fairness | `NoStrandedEntry` and `Settles` when the account was wrong and clients come and go |
| `outbox_purge` | 1 account, a text and a media message | violated: a prune during a media transfer does not last |
| `outbox_guard` | 1 account, 1 message | violated: the guard budget ends one failure earlier than its comment says |
| `history_run` | 1 conversation, 4 messages, 2 shards, window of 2, 3 rows kept by a save, 1 attempt; the first load and one of: a stop, a second load, a failed upload | `DurableUntilSent`, `ConsumedStaysConsumed`, `RestartSparesUploads` in every order of turns, forced flushes, the worker and saves, with snapshots that are trimmed and rows that are cut off |
| `history_live` | 2 conversations, 2 messages, 2 attempts; the first load and two of: a failed upload, a lease that ends under an upload, a failed database call, a crash; fairness | `SentOnce`, and that every shard is completed, given up or restored (`ShardSettles`) |
| `history_restart` | 2 messages, a crash | violated: shards in flight of a process that died are never recovered |
| `transport_run` | clients `c1`, `c2` of one account, `c3` of another, 2 chunks, 1 early ACK kept, one message of up to three pushes; six scenarios | connections (`ActiveConnected`, `DegradeSparesOthers`), the routes of a message (`RoundsReachAll`), the sent file (`OwnerAddressed`, `NoAnswerMissed`, `SentIsAcked`, `SendEndIsFinal`, `SendEnds`) and the received one (`RecvEndHolds`) |
| `service_run` | 2 bridges of one agent, a third in another process, 3 messages, 3 registries, up to 3 calls under way; fourteen scenarios | `QueueStays`, `EndStays`, `ScenesOnlyAdvance` over every start, stop, save, crash and damage; `NoOrphan`, `Observed`, `CallsEnd` over the lifecycle |
| `inbound_run` | a private chat and a group, 2 agents, 2 messages under way, 15 scenarios | `DispatchedOnce`, `Authorised`, and that no prune deletes what woke up meanwhile (`AwakeSpared`, `SessionSpared`) |

`SavePending` says that the disk differs from the memory only while a save is armed,
`NoSilentLoss` that nothing that reached the disk disappears, `PushBudget` that each push was
paid for with a retry, `OneAttempt` that what a suspended drain captured is still what the
queue holds, so that the entry it writes back loses no charge and no correction.
`NoStrandedEntry` says that a queued entry whose account has a client, also one that only its
answer made known, is always watched by a timer, a drain or a flush in progress; the accounts
in `cold` are excepted (Observation 22). `KeepsPromise` and `TextSettledOnce` are about text
messages: the two findings explain why media messages cannot have them.

`DurableUntilSent` says that a message that once had a row is in the host, in a row or in a
shard that will still be sent, or was cut off because it is old: then at least `Limit - 1`
newer messages of its conversation are in one of these places; `SentOnce` that the host gets it
once, save for the excused causes below; `ConsumedStaysConsumed` that a row the host has does
not come back; `RestartSparesUploads` that a load of a running process leaves the shard of a
live turn alone.

`ActiveConnected` says that the active client of an account has a connection,
`DegradeSparesOthers` that an ACK timeout costs only a socket the message went to its
capability, `RoundsReachAll` that the tried sockets of a message are forgotten only when it was
sent to every connection that could take it. `OwnerAddressed` says that the socket whose
answers a transfer awaits is one the file was sent to, `NoAnswerMissed` that no waiter waits
for an answer that lies among the early ones, `SentIsAcked` that the end `sent` has an ACK for
every chunk, `SendEndIsFinal` and `RecvEndHolds` that no late message revives or spoils a
transfer that ended.

`QueueStays` says that a message the bridge accepted is in memory or on disk until it ends,
`EndStays` that one whose end was saved never returns to a bridge that works, each except in
the ways that `ghost` names (listed under Observations); `ScenesOnlyAdvance` that the row of a
scene is set back only to what a bridge of its own agent remembers, and deleted by another
agent only if that one knew its last state; `NoOrphan` that no open database belongs to a
bridge that is not running; `Observed` that a registration that is being observed has its
timer, so that it becomes ready; `CallsEnd` that every start, stop and flush returns.

`DispatchedOnce` says that a message and its repetitions reach the agent once within the
window, `Authorised` that a message of anyone but an administrator is handed on only in a scene
that an administrator opened and none has closed since, and that its sender counts as an owner
only during a native command. `AwakeSpared` says that a prune goes on with a row, to its traces
and the row itself, only if nobody has written it since the inspection, that it deletes no
other row, and that no prune clears a gate of a scene that has a row; excepted is the row that
a prune of a row without owner deletes (Observation 17). `SessionSpared` says the same of host
sessions, for all prunes.

### Bounds

The scenarios. One instance with every kind of event would have too many states, so in the
transport, service and inbound runs a behaviour draws a scenario at its start: a record of how
often each event may happen, with the initial state. Each puts the events together that can
disturb each other; an event outside a scenario is one that shares no state with it. Transport:
`Routing` (a socket is replaced while a message is tried), `Rerouting` (a third try),
`Sweeping` (connections grow old and are swept meanwhile), `Sending`, `Reconnecting` (the owner
of a file reconnects), `Receiving`. Service: `Registering`, `Succeeding`, `Observing` (which
process runs what), `Restarting`, `Failing` (overlapping starts and stops, a purge, a failing
step), `Reusing`, `Breaking`, `Halting` (a start that ends late or fails), `Dying`, `Cutting`,
`Upgrading`, `Damaged` (disks), `Sharing`, `Scenes` (two agents). Inbound: `Repeating`,
`Approving`, `Losing`, `Closing`, `Moving`, `Modes` (who is let in), `Pruning`, `Forcing`,
`Shared`, `Batch`, `Sweeping`, `Gates` (maintenance against messages), `Natives`, `Stopping`,
`Resetting` (turns).

Transport. Two clients of one account compete for it, the third shows what a
connect on another account does to leases. Two chunks make a first and a last
one, three connects let an owner reconnect twice, and one early ACK fills the
bounded cache. Three pushes of a message over two connections are a round of tries
and the first of the next.

Service. Two bridge objects are what a rebuild needs, three registries let one be
pruned, reused and replaced, three calls make a stop overlap two starts. One
snapshot is kept.

Inbound. Two tasks are one prune and one message, or two messages of a session;
three copies of a message cover repetition before, during and after the window.
The larger batches a sweep allows only repeat its loop.

History. Four messages of one conversation overflow a window of two and the three rows of a
save, and let two newer messages arrive while the flush of an older reply waits; two shards are
one retried and one new. The first load uses one of the two troubles of `history_run`
(`MaxTroubles`), so each of a stop, a second load and a failed upload occurs alone, at every
point. `history_live` has fewer messages and two troubles after the first load: a failed
settlement, an expired lease, a failed upload, a crash. No run loads after a crash except
`history_restart`, and none has two conversations that overflow: for these and for longer
chains of trouble the safety properties are proved.

Outbox. Two accounts are what overlapping flushes, account correction and the order of
targets need; a third only repeats them. Two messages of one account meet in the
order of `createdAt`, a media message behind a text message included. Retry
limit 1 separates first try, retry and dead letter; limit 2 adds the try from
which the guard's and the media guard's different charges can be told apart
(the double charge needs two). `MaxOwed` 2 lets the answers of two pushes of the
same message arrive in one attempt. One stop, crash, fault and save each occur in
every order with the others. `MaxFaults` does not exceed `RetryLimit`: beyond
that limit the code gives up by design (`PUSH_DRAIN_EXCEPTION_RETRY_LIMIT`), and
`NoStrandedEntry` would not hold. `RetryLimit` is 1, not the code's value.

### Fairness

`Fairness` is weak fairness of the step of each drain (a sleep ends, an ACK wait
times out, a transfer succeeds, fails or is rejected, and otherwise the code
runs on), of the passing of each delay and of the push timer. These are Node
timers and awaited calls with timeouts of their own. Nothing is assumed of
clients: they need not connect, answer or stay. Neither saves nor restarts are
fair. `Settles` therefore says that a message is delivered or dead-lettered even
if no client ever comes.

`FileTransfer`: weak fairness of the timeouts of waiters and of the pauses between attempts,
which are timers. Clients may never answer. `Service`: weak fairness of each call under way:
what it awaits is I/O or another call of the same chain. The host, the timers of saves and the
other process are not fair. `History`: weak fairness of the head of each conversation's chain
(the host answers an upload in the end), of the worker's tick and of its claims, of leases that
run out and of the end of a load; not of messages, stops or starts. `Inbound` states no
liveness.

## Proofs

The theorems on the queue hold for any set of accounts, any messages, any retry limits
and any number of stops, crashes, faults and saves, under `OutboxAssumption`: message
ids are natural numbers, `Home` is a function into the accounts, the bounds are
naturals, and the two null values are distinct from real ones.

`OutboxProofs` first summarises every action by what it may do: to the drains
(`Drains`: each keeps its attempt or drops it; `BeginsTransfer`, `BeginsAckWait`:
one starts an attempt) and to the queue (`Change`: one entry is put or removed,
one that the acting drain `Holds`). The inductive invariant `IInv` is the type
invariant with

- `Captures`: a drain in an attempt captured a message, in a transfer a media one,
- `SavesOpen`: the save timer is armed only while the service is up,
- `Fresh`: a message not yet enqueued has left no trace,
- `Owned`: the captured account and retry count are those of the queue and, while
  the service is down, those on the disk, from which the next start loads,
- `SettledText`: a queued text message is not settled, and none is settled twice.

`OneAttempt` alone is not inductive: a drain can be suspended in a transfer
across a stop and a start, so the persisted entry must agree with its capture
too. `TextSettledOnce` rests on `Captures`: only a drain in a transfer, which is
one of a media message, writes its entry back without a look at the queue.

`OutboxPromise` strengthens `IInv` with `Kept` (a persisted message that is not
settled is on the disk, and in the queue unless the service is down) and proves
`NothingPersistedIsLost`; with both it shows that each step of `Outbox` is a step
of `Delivery` or a stutter (`ImplementsDelivery`). `DeliveryProofs` proves the
invariants of the abstract specification.

`OutboxPromise` also proves three more invariants of the queue from `IInv`:

- `SavePending` needs `Clean` (a saved entry is not due), without which the queue a start
  loads would differ from what it was loaded from.
- `PushBudget` counts the attempt in progress, so it says too little while a transfer is
  under way and nothing about an entry pruned meanwhile, which the transfer writes back.
  `Budget` says how many pushes a drain in a transfer and one that awaits an ACK have
  made for the retry count they captured; `Owned` says that this is the count of the
  queue, and `Unsent` that a new message starts without pushes.
- `NoStrandedEntry` is inductive by itself, but the summaries of `OutboxProofs` forget what a
  flush still has to do. `AdvanceFacts` and `BreakFacts` say how it is handed on: a drain
  that breaks gives its remaining accounts and its next delay to the drain it wakes, or
  to the timer. The theorem assumes `Seldom` of every state, that flushes have not thrown
  more often in a row than the retry limit: beyond that the code gives up by design.
  It bounds no run; `MaxFaults` may be any number. Of an account in `cold` it says nothing; that
  everything which puts an entry of the account into the queue or makes it due also ends
  that, or arms the timer, is what the proof shows of the other accounts.

`OneAttempt` is run with text messages only (`outbox_pair`); that it also holds with
media messages is the theorem `AttemptsAreExclusive`.

`TransportProofs` proves every safety property of `FileTransfer`, for any clients, accounts,
leases, numbers of chunks and bounds, under `ConnectionsAssumption` (each client has an
account, and the clients that take part in a behaviour are clients), `NoConnAssumption` and
`TransferAssumption` (the null values are no connections and no transfers). These invariants,
each over one part of the state, carry it:

- `ConnInv` gives the connection table its shape through every event and every sweep;
  it needs `ClientsLeft`, since the clients that may connect are drawn with the bounds.
- `RouteInv` says that only sockets a message was sent to count as tried, also while its
  file is under way: the owner of that file is new and addressed by the push, or
  was tried before. `RoundsReachAll` and `DegradeSparesOthers` speak of one step and are not
  inductive; they follow from `RouteInv` at a timeout, where the owner recorded by the push
  becomes a tried one.
- `SendInv` says what `NoAnswerMissed` leaves out: only chunks that were sent have been
  answered, and no terminal status is set while the orchestrator still works. Without it an
  answer to a later chunk could be there before that chunk is waited for. `AppliedOK` and
  `FileAckKeepsSend` separate what an ACK records from what it wakes.

- `NetInv` says that finitely many clients are connected, that `later` orders them strictly
  and totally, and that an active key names one of them. `Best` is a `CHOOSE`: that it finds a
  connection at all, for any number of them, is `BestInSet`, by `FirstOfFinite` (of finitely
  many, one has the fewest before it: the induction is that of `LeastNat`). Through
  `OwnerEligible` it gives both `ActiveConnected` and the owner a transfer starts with.
- `FileInv` says that the chunks before the one under way were acknowledged and all
  of them once the last answer is awaited, that the owner was addressed, and that a cached ACK of a
  chunk was counted when it came (`EarlyCounted`). Without the last, a chunk could be passed over
  on the word of a cached answer alone, and `SentIsAcked` would not follow. `Inherits` says
  that no other step invents cached ACKs.
- `RecvInv` says that a write under way is one of a transfer that is kept.

`NobodyWaitsInVain`, `SentFileKeepsItsEnd` and `ReceivedFileKeepsItsEnd` follow from
`SendInv` and from a look at each action.

`InboundProofs` proves every property of `Inbound`, for any chats, agents, messages, tasks
and scenarios, under `SceneAssumption`, `InboundAssumption` (what the
parser lets through: a mode is a mode, a command names a scene) and `ScenarioAssumption` (what
the disk held was written before the first step, and what it let in an administrator had
opened). It has three layers.

- The registry: `Stamped` says that whatever an operator of `Scenes` writes is deleted or
  carries the stamp of the write, `OpensOnly` that it opens a scene only where the operator
  says so. Decisions, merges and every command have both lemmas.
- The calls: `CallOK` says what a suspended call knows. `RowKnown`: a row in
  `woken` is gone or has a later stamp than the call saw; `SessKnown` likewise for sessions and `dirty`. Every action is shown once to make
  such `Moves`, and of its effects on the rest to be one of eight kinds (`TaskCases`). This
  invariant (`Known`) is what the checks after each await rely on: `PruneSparesAwake` and
  `PruneSparesSessions` are no invariants and follow from it at the step that deletes.
- Messages: `Marked` says that the keys at the gate and those handed on are marked as seen
  or their window is over, and that no two calls are at the gate with one key and
  window; `Rights` that the ghost knows every open scene and every administrator whose native
  command runs. `DispatchedOnce` and `Authorised` are not inductive without them.

An earlier form of `SessionSpared` took any change of a call's record for its deletion and
could not be proved: in an instance with more than two calls, another call's write reaches
the record through `dirty`. It now names the step by its `pc`.

`HistoryProofs` proves every safety property of `History`, for any conversations, messages,
limits and any number of starts, stops, crashes and failures, under `HistoryAssumption`
(message ids are numbers; row ids are positive and finitely many, as 64-bit row ids are; a shard
is allowed an attempt, eight in the code; `2 <= Limit <= Cap`, as `resolveBncrHistoryLimit` and
`resolvePersistedConversationHistoryLimit` ensure) and `ShardAssumption` (the null value is no row).
It has three layers.

- The database: each transaction is summarised once. `Swept` is what a recovery or clean-up
  leaves, `Quiet` what the saves and loads leave (nothing but shards of idle or expired
  tasks given back, completed ones cleared away, messages of the window saved), `Written`
  what a claim, activation, renewal, failure or completion leaves, `Created` a new shard.
  `Whole` and `Tried` hold of all of them: a message is active, consumed or held by one shard,
  which holds the messages it names; a shard out of attempts does not outlive the
  transaction that fails it.
- The chains: `ChainOK` says that a task behind another has done nothing yet and that no two
  tasks carry one message; `Moves` what a step may do to one chain.
- The invariant `IInv` ties both: the task at the head of a chain owns the shard it carries,
  its snapshot is the shard's, and either its shard is still processing under its name or
  its messages are among those a second upload is `excused` for (`Accounted`). `ShardOK`
  says of a shard nobody settles that none of its messages is with the host without an
  excuse, and `TracesOK` that a message whose turn has not begun is nowhere yet.

`SentOnce` is not inductive without `Accounted` and `ShardOK`: what an upload sends must be
unsent when it begins, hence while its rows wait in the window, in the active rows and in a
shard. `DurableUntilSent` rests on `ShardOK` (of a completed shard the host has the `Core`, the
newest `Limit - 1`, which every upload carries) and on `Covers`: a set of messages covers
another if each message of the other that it lacks has `Limit - 1` newer ones of its
conversation in it. The core covers the snapshot, what a save keeps covers what was there, and
covering chains (`CoversChain`): if a newer one is itself cut off, those newer than it stand in
its place. Message ids are finitely many for this argument. `ConsumedStaysConsumed` on `Whole`
and `WindowOK`. `RestartSparesUploads` speaks of one step: the shard at the head of a chain has
the chain's key (`Carries`), which the recovery skips.

`ServiceProofs` proves the types of `Service`, `Observed`, `NoOrphan` and `ScenesOnlyAdvance`,
for any agents, bridges, registries, builds, messages, calls and bounds, under
`StateStoreAssumption`, `RegistrationAssumption`, `ServiceAssumption` (the other agent's bridge
is not in the pool of this process, whose bridges are all different and of one agent that the
other process is not; 0, which stands for no bridge, is none) and `BoundsAssumption` (messages
leave a queue by being removed or by becoming dead letters; messages of an earlier process are
in some store, so there are none where nothing is found; the other agent's process, if it runs,
has loaded its database). It has three layers.

- The lifecycle: every operator of `Registration` keeps `HostOK`. `Generations` says that
  generations are given once and a successor has a later one than the owner it waits for,
  `Watched` that only the running owner of the lifecycle is observed, `Based` that whoever
  owns it or was given callbacks found a bridge. `Observed` alone is not inductive: it does
  not say that a stop retires the observation it must, only `Watched` does.
- The store and the calls: each operator of `StateStore` keeps its types, also while time
  goes on (`Later`), and each step of a call what its place says of it (`CallOK`). Most
  actions are shown once to be `Routine`: they leave owners, generations and the calls
  that answer for one as they are.
- The leases: `Leases` says who answers for a generation that is open. It is the active
  lifecycle, a stop, or a start of that generation; the service runs only on the bridge of
  the active lifecycle; and a start of the running owner has that bridge, whose service
  does not run yet and whose generation it began (`StartOK`, `OneStart`). Only what begins or
  ends a start, a stop or a registration can break this (the lemmas named `...Upholds`).

`NoOrphan` needs `OneStart`: of two starts of one generation, called before and after a stop,
the older one that fails marks the lifecycle failed while the service of the newer one
runs, and then nobody answers for its handle. That is what `ghost.stray` excepts; the
types and `Observed` hold without the exception.

`ScenesOnlyAdvance` speaks of one step: only a save and the first load write scene rows, and
the first load imports into a database without any (`BareOK`, which must also hold of the
snapshots, because a recovery takes one for the database).

`StoreProofs` proves `EndStays` from the invariant of `ServiceProofs` with three more layers.

- Handles (`Basics`, `Handles`): a start has a store generation of its own, and only one of
  the current lifecycle may open in it; whoever has the database open has opened a sound one;
  a handle belongs to the generation its bridge is in; a service that runs has its handle, and
  the start that began its generation is over.
- Places (`PInv`): a message nobody accepted is nowhere; one of the other agent that the bridge
  took in through the JSON file is among those `ghost.back` names; only a call that writes
  the JSON file has a snapshot. Every step is shown once to spread no message (`Spread`,
  `Thin`) or, for the few that do (loads, flushes, copies, the cutover), where to.
- Ends (`AllAway`): for a message of this process whose end is saved and that is not in
  `ghost.back`, the row the next opening finds is not queued, also not in the snapshot a recovery takes;
  the current bridge does not have it; and a copy of it that is still queued in the JSON
  file, or in a write of it under way, is harmless because a newer write is due (the save
  timer of the bridge that runs) or under way (`newer`), and the bridge that owes it runs
  or stops (`Covered`). Each action `Lasts`: it keeps `PInv`, and `AllAway` as long as nothing
  strayed.

`EndStays` alone is not inductive: it says nothing of the JSON file, which a later load
reads. The attempts to prove it and `ScenesOnlyAdvance` showed that both had been too strong, in
ways that need more calls than the scenarios have (Observations 2 and 3). The paths are now named
in `ghost.back`: a start that is over and loads late; a purge, or a save timer that writes nothing,
on a bridge that a failed start has stopped; and a save that stores an end before the service
runs, while the JSON file, or a write of it, still has the message.

Only model-checked: of `Service` `QueueStays`, which needs to know in addition what every load
under way will find, and for messages of other agents too; and every liveness property
(`Settles`, `SendEnds`, `CallsEnd`, `ShardSettles`), which the prover does not handle.

## Findings

- A prune during a media transfer is undone: the suspended drain writes its entry
  back (`recordOutboxPushSuccess` and `recordOutboxPushFailure` call `outbox.set`
  unconditionally), the message is pushed and retried although `README.md:324`
  says the prune clears the queue. A late ACK of an earlier push meets the same
  write-back.
- The guard budget (`outbox-drain-failure.ts:84`) ends at the failure that reaches
  the retry limit; its comment and the other budgets say the one that exceeds it.
- A shard that was in flight when its process died is not recovered by the next
  one: the comment at `channel.ts:1245` says every in-flight shard is, but the
  bridge id is new in every process (`channel.ts:302`) and
  `recoverHistoryShardsWithSkip` (`sqlite-state.ts:2906`) only takes shards of its
  own, of a legacy or of no owner.

## Observations

What the models had to allow because the code does it. Each is excepted by name in
a property, so that the property says that nothing else goes wrong.

Outbound messages (`QueueStays`, `EndStays`):

1. A stop during a start that has not loaded yet, or a save timer armed before the
   load, writes the empty memory over the rows, scenes and JSON file.
2. A second load drops messages queued while the service was stopped; a purge
   during a load brings the message back. A start that is over by the time it loads still
   replaces the memory of its bridge, which a later start may be running by then. A
   start that fails leaves its bridge stopped: no timer saves it any more, and a purge, or an
   end a timer was to save, leaves the message queued in the JSON file, which a later load
   may merge back. The same holds of an end that is saved before the service runs. A start
   that is over and throws in its cutover or load stops its bridge as well, under the service
   that a later start runs there: what that service had not saved is then saved by nobody
   (`NoteBreak`).
3. In mode `dual` a crash between the two writes, or two flushes that overlap (the
   newer one may also be the one that fails), leaves a JSON file that revives settled
   messages at the next load. Scenes that a start read from the JSON file are written
   by its bridge over newer rows of its own agent. A bridge that was replaced keeps its
   old memory, which nothing saves.
4. The JSON file takes in the queue of the other agents of its directory; in SQLite
   messages of other agents' sessions are never saved.
5. A cutover interrupted between `imported_at` and `store_mode` leaves the database
   unused, and a legacy JSON file may be copied a second time.
6. The rejection of a debounced save is handled by nobody.

Lifecycle (`NoOrphan`, `Observed`):

7. A start while the same registry is stopping is dropped. An older start that
   fails after a stop and a restart marks the lifecycle failed although the newer
   one runs (`ghost.stray`).
8. A registry that registers again after another one gets a new generation, but
   the callbacks the host holds keep the old one: its service cannot start.
9. A successor registered before the stop of its predecessor begins is a
   duplicate and never declared; a failed predecessor blocks all registrations
   until the process restarts.

Scenes and prunes (`Authorised`, `AwakeSpared`, `SessionSpared`):

10. The re-key of an administrator's direct row by a message of somebody else
    overwrites a public row that is there, a denied one too; the comments at
    `scene-registry.ts:228` and `scene-admin.ts:1022` say otherwise.
11. The history key names no agent, so a prune of one agent's row wipes the history
    that another agent's row shares; a prune of an unowned row wipes the routes and
    queue entries of all agents.
12. A host session is deleted although the row survives when a message comes in
    while the host deletes; memory maps are cleared after the awaited purge of the
    database, not before as the comment at `state-store.ts:953` says.
13. Two native commands of one sender at a time: the end of the first takes the
    elevation of the second. Administrators keep theirs for good.
14. A repetition within 90 s of a message that was denied or waits for approval is
    dropped as a duplicate, and renews the window.
15. The client may clear a gate late, after the call timed out, and with it one
    opened meanwhile.
16. `revoke` of an unowned row deletes the row of the agent that serves the command.

17. A prune that chose a row without owner deletes the newest row of the scene, whoever owns it
    and however new it is, and the stale row stays (`deleteSceneRecord`, `scene-registry.ts:105`, resolves the
    empty agent id by `scene-registry.ts:60-67`; called at `stale-scenes-command.ts:1288` and `1525`).

Connections and files:

18. `lastAckOkAt`, `lastPushTimeoutAt` and `pushFailureScore` are compared but set by
    no code; `ActiveOwner` omits them.
19. A connect of any client makes the leases of all others stale.
20. A retried media push records the owner as the last connection even when the
    owner was not among the addressed (`outbox-file-transfer-bookkeeping.ts:8`).
21. An ACK of the completion after its timeout marks the transfer completed though
    the queue saw a failure. An inbound abort during the write of the file is
    overwritten by its end (`saving` in `RecvEndHolds`).

Answers (`NoStrandedEntry`):

22. After a start without a known client, a retryable NACK of a push of the earlier process makes its
    account one with a client (`markSeen`, `message-ack-runtime.ts:194`), but `handleAckRetry` neither
    flushes nor arms the timer: the loaded entries wait for the next activity, enqueue, positive ACK or timer.

History (`DurableUntilSent`):

23. A turn consumes its whole window though it carries `historyLimit` messages of it
    (`dispatch.ts:392-437`), and a save deletes the rows beyond its cap (`state-store.ts:268-273`,
    `sqlite-state.ts:1349`): older messages leave the database without having been sent. A flush that
    waited while newer messages came gives the place of one of them to its own reply.

History (`SentOnce`): uploads without a shard, uploads that threw after the host took
them, uploads that ended while the store was closed or the process died, and leases
that ran out under an upload can be repeated. A message recorded in the window but
not saved when a load begins is dropped. When no shard can be created, the direct
upload leaves the rows active.

## Abstractions

- Time: stamps are compared, never measured. TTLs, windows, leases and back-offs
  end at any moment (in `Inbound` two stamps are equal only within one command).
- `FileTransfer`: a chunk that the client refuses makes all three attempts fail; the
  expiry of transfers is left out.
- `Routes`: one message, whose account asks for ACKs; its transfer ends in any way
  at any time and is not the one that `FileTransfer` follows.
- `Service`: an opening whose database turns out unusable is closed again without
  the rotation of the file; damage happens at rest; JSON copies of history and
  routes are left out; the other agent's process runs all the time.
- `Inbound`: the purge of the database and of memory is one step, the delete of the
  row another; one row's session is read in one step; the verdict of the gate is
  open where the scenario says so; the order in which waiting turns of a session
  are taken is `History`'s matter; the host's own interface and failures are
  bounded; a merge brings one newer row.
- `History`: a history row and its replay row are one message and share one cap; the host takes
  every upload for a new one, also under a delivery id it has seen.
- Database calls of `History` fail as a whole, at the creation and the settlement of a shard.
  A flush of `Service` fails where the database does not open or the JSON file is not written;
  a SQLite transaction that fails after the opening is left out.
- `Service`: the probe of a session reset that a channel start awaits (`bridge-lifecycle.ts:89-106`)
  is part of the step before it (`Prepares`).

## Not modelled

- Diagnostics, status and logging; host adapters; message and target parsing;
  media download, MIME detection and inline base64 files; formatting of replies and
  of command output: no state of their own that another component reads.
- Schema contract and migrations of SQLite: the work of one opening, without
  anything beside it.
- The adaptive ACK timeout and back-off numbers: models abstract durations; a
  delay that is too long cannot be told from one that is not, which is also why
  `computeNextPushDelay` (`queue-selectors.ts:77`) has a hazard without a property.
- Fast reroute and the counter of rounds: they only change delays and logs.
- The bound of the dead-letter list, session routes and activity maps, tombstones
  that expire, the global media setting, the table of client calls.

## Plan

What is left is `QueueStays` for all constants. For a message of this agent that is accepted,
has not ended and is not in `ghost.lost`, the invariant has to say that the current bridge,
once it has loaded, has it queued; that the next opening finds it, or a save of that bridge is
due or under way; and that no load under way can miss it. The handles of `StoreProofs` carry
over; what is new is what a load that has its handle will read.
