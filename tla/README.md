# Formal models of the keychain syncing code in Security

This directory holds TLA+ specifications of the parts of `src/` that keep a device's keychain and
the copies of it elsewhere in step: the Octagon state machine framework
(`src/keychain/ot/OctagonStateMachine*`) on which Octagon, CKKS and the escrow request server are
built; the item synchronisation of CKKS (`src/keychain/ckks`); the connection pool and transactions of
the database under both (`src/OSX/utilities/SecDb.c`); and the coders of Secure Object Sync with their
off-the-record sessions (`src/keychain/SecureObjectSync/SOSCoder.c`,
`src/OSX/sec/Security/SecOTRSession.c`). TLC checks the models on small instances; TLAPS proves the
safety properties named in section 4 for every instance. All modules are translated from the C and
Objective-C source; `PROJECT.json` maps every definition to the lines it stands for.

To check by hand: `tlc -config OctagonStateMachine.cfg MCOctagonStateMachine` and likewise for the
other `.cfg` files, each with the MC module of its component; `tlapm M.tla` for each `*_proofs.tla`
(`OctagonStateMachine`, `OctagonPendingFlags`, `OctagonWatchers`, `CKKSItemSync`, `SecDb`,
`SecDbChanges`, `SOSCoder`, `SOSCoderTalk`).

## 1. Inventory

The repository is Apple's Security project: the keychain daemon with its database, the synchronisation
of keychains (SOS, CKKS, Octagon), trust evaluation, authorization, code signing, and the older CDSA
stack. The part with the most concurrency and the most state of its own is the synchronisation, so the
project starts there.

### The Octagon state machine framework (`keychain/ot`)

| | |
|---|---|
| State | `currentState`, `currentFlags`, `nextStateMachineCycleOperation`, `halted`, the `paused` condition, `stateMachineRequests` (never pruned), `pendingFlags` with `currentConditions` and `conditionChecksInFlight`, `stateMachineWatchers`, `testHoldStates`, `holdStateMachineOperation` |
| Operations | start, halt, `handleFlag`, `handlePendingFlag`, `handleExternalRequest`, simple and watched RPCs, registering watchers, test holds; the follow-up of each transition |
| Concurrency | blocks on one serial queue, operations on an `NSOperationQueue` outside it, timers of requests and watchers on the serial queue, `CKKSNearFutureScheduler` and the lock and network trackers on queues of their own, the waiting half of `haltOperation` on the caller's thread |
| Talks to | a weakly held engine (`_onqueueNextStateMachineTransition:flags:pendingFlags:`), clients (flags, RPCs), the trackers |
| Hard | a flag or a request that arrives between a transition and its follow-up; a timer racing a start; a halt at any moment; a pending flag left behind with nothing to look at it again; a watcher completed twice, or never |
| Correct when | a machine at rest has no work; a request's operation is put on exactly one queue and every RPC is answered; a halted machine runs nothing; every pending flag has something that will wake it, and is delivered; watchers follow the machine step by step and give one result |

### CKKS item synchronisation (`keychain/ckks`)

| | |
|---|---|
| State | per view, in SQLite: outgoing queue (state new, reencrypt, in flight: one entry each per UUID), incoming queue, mirror (`ckmirror`), change token; in memory: the view's state machine and flags, the operation in progress |
| Operations | a keychain change (`handleKeychainEventDbConnection`), a fetch's results (`changesFetched`), the operations of the state machine: incoming queue, outgoing queue (`groupStart`, `modifyRecordsCompleted`), reencryption, `becomeReady`; the restart |
| Concurrency | each takes a database transaction for its step only: local changes and fetches happen between the batches of the incoming queue and while an upload is under way; CloudKit and the other devices act at any time; `securityd` may be stopped at any time |
| Hard | an upload's answer late, lost or overtaken by a fetch; a local change over one in flight; a remote change over a local one; partial failures of an atomic batch; a restart with entries in flight |
| Correct when | the mirror follows the zone; where keychain and mirror differ some queue says so; applying the incoming queue overwrites no waiting local change; queues with entries have their flags set; an entry in flight belongs to the upload being waited for; a local change is not sent round for ever |

### Keychain database connections (`OSX/utilities/SecDb.c`)

| | |
|---|---|
| State | idle read and write connections, the writer mutex and the reader semaphore, `didFirstOpen`, `callOpenedHandlerForNextConnection`, the notify blocks; per connection: the transaction, its source, the recorded changes, `hasIOFailure`; on disk: the database and the marker `<db>-iscorrupt` |
| Operations | acquire (with the first open and the opened handler), transactions with their notify phases, release, release all, registering notify blocks, corruption handling |
| Concurrency | any thread is a client; blocks on the serial `db->queue`, on the concurrent `db->commitQueue` (barriers end transactions) and on the SOS engine's queue inside it; `securityd` may exit anywhere, by itself on corruption |
| Talks to | SOS and CKKS, whose notify blocks queue what they upload in the transaction of the change; trust and keychain databases |
| Hard | a first open made by a reader beside writers; five locks taken inside each other; an acquisition that fails halfway; an error in END; a connection pooled with something left in it; an exit between writing and acting on the marker; an opened handler that marks the database corrupt for an upgrade's error |
| Correct when | one writer at a time; every acquired resource is given back; what is pooled is clean; blocks are told the truth about each change; a database is deleted only if it is corrupt or its opened handler gave it up |

### SOS coders and off-the-record sessions (`keychain/SecureObjectSync`, `OSX/sec/Security/SecOTRSession*.c`)

| | |
|---|---|
| State | per peer: the session (negotiation state, keys of both ends with their IDs, key cache with counters, flags of the rolling of keys), `waitingForDataPacket`, `pendingResponse`, `lastReceived`; the engine's `mustSendMessage` and `codersNeedSaving`; the negotiation timer; what is on disk |
| Operations | handling a coded message, sending if needed, local changes, the timer, a coder made anew, save points |
| Concurrency | two devices and the key-value store between them: one slot for each direction, where a new message takes the place of the last, read or not; a message may be handed over again |
| Hard | negotiations that cross; keys rolled while a message is under way or lost; an exit that forgets keys already used; a timer cancelled by a message that changes nothing |
| Correct when | two coders that can talk agree about the keys; no packet is opened twice; a change reaches the other peer; a negotiation never waits for ever |

### The other parts

* **CKKS key hierarchy, resets, policy and RPCs** (`CKKSKeychainView.m`, `CKKSHeal*`, `CKKSNewTLK*`,
  `CKKSProcessReceivedKeys*`): one engine of the framework with some thirty states; what hangs on the
  lock state and the trust state. Correct when no state is a dead end while its cause is gone.
* **CKKS scheduling and fetching** (`CKKSNearFutureScheduler`, `CKKSZoneChangeFetcher`,
  `CKKSZoneModifier`, the lock, network and account trackers): small, concurrent, and used by everything
  else. Correct when a trigger is never lost and every requested fetch happens or is retried.
* **CKKS current item pointers, sync callbacks, scan, fixups**: they read and repair the queues above.
* **Octagon proper** (`OTCuttlefishContext.m`, `OTManager.m`) and **Trusted Peers Helper**: the trust
  graph of a user's devices; an engine of about eighty states and a database of peers.
* **Escrow request server** (`keychain/escrowrequest`): a small engine on the same framework.
* **The rest of SOS** (circles, views, manifests, retirement) and **pairing** (`KeychainCircle`): older
  protocols, message based.
* **Keychain API** (`keychain/securityd`): queries over SQLite, sequential within a transaction of SecDb.
* **Trust evaluation, authd, macOS securityd, analytics, CDSA, CMS, ASN.1, code signing**: rule
  evaluation and data transformation, mostly without concurrent state.

`PROJECT.json` lists them all with their status, and the hazards of the modelled code line by line.

## 2. The modules

### `OctagonStateMachine`

One action per block the code dispatches on the serial queue, one for the operation that runs outside
it, one for the waiting half of `haltOperation`.

| Specification | Code |
|---|---|
| `cycle` | `nextStateMachineCycleOperation`, with the attempt it follows; `NoCycle` when the property is nil |
| `RunAttempt`, `FinishAttempt` | the attempt's block (it sets `nextState`), and its follow-up (`createOperationToFinishAttempt:`) |
| `StartNext`, `HaltNext` / `RequestNext` / `EngineNext`, `Rest`, `Poke` | `_onqueueStartNextStateMachineOperation:`, the three parts of `_onqueueNextStateMachineTransition` in their order, and `_onqueuePokeStateMachine` |
| `CreateRequest`, `HandleExternalRequest`, `RequestTimeout` | the steps of a simple RPC: the timer is armed first, the request handed in by a later block |
| `HaltOperation`, `HaltWait` | the block of `haltOperation`, and the read and wait that follow it outside the queue |
| `TestPause`, `TestRelease` | the test hooks |

The engine is a parameter: `Engine` is a set of entries (state, flag that is consumed, states the
operation may end in). Several entries of one state stand for the engine's own order of precedence:
whatever that order, the code's behaviour is among the model's. Left out: the conditions per state and
per flag that clients wait on, and error texts.

### `OctagonRPC`

What the machine promises the callers of its RPCs, in six actions: a request is made, begins in one of
its source states, and completes or expires; nothing else moves the machine while an operation runs;
nothing begins after the stop. `OctagonStateMachine` implements it (`ServesRPCs`): `answer` is computed
from `rpc`, the operation in service and `timeoutCanOccur`, `state` is `currentState`, `stopped` is
`halted`. Run `state_machine` checks the refinement, `MachineServesRPCs` proves it.

### `OctagonPendingFlags`

Extends the machine with `handlePendingFlag:` and the four things that make `_onqueueSendAnyPendingFlags`
run again: the scheduler, the block behind an operation, and the check operations for lock state and
network. Time is whether a `fireTime` has passed; the trackers are the set `available`, which comes and
goes at any moment; a check operation can run once its condition has been available at some moment
since the check was made, though it may have gone again. `metSince` is history: which conditions have
been available at some moment since the flag was handed in.

### `OctagonWatchers`

Extends the machine with `OctagonStateTransitionWatcher` (a path: the set of its root-to-leaf
sequences) and `OctagonStateMultiStateArrivalWatcher`: registration, steps, timeouts of their own, the
listener for the timeout of the request, completion by the owner, and the watched RPC that ties a
watcher to a request.

### `CKKSItemSync`

One view of `CKKSKeychainView` together with the zone and the other devices (external).

| Specification | Code |
|---|---|
| `keychain`, `mirror`, `new` / `reencrypt` / `inflight`, `incoming`, `token` | the keychain's items, `ckmirror`, `outgoingqueue` by state, `incomingqueue`, the zone state's change token |
| `LocalChange` with `Coalesced`, `OnlyChangesMdat`, `DeletesUnknown`, `NewEntry`, `Supersede` | `handleKeychainEventDbConnection:...` and `CKKSOutgoingQueueEntry withItem:...` |
| `Recorded`, `Record` | `intransactionRecordChanged:` and `intransactionRecordDeleted:` of `CKKSItem`, for a fetch (`ChangesFetched`) and for the answers of a refused upload (`WriteFailed`) |
| `BecomeReady`, `NextOperation` | the BecomeReady state (entries that came in meanwhile are processed first, then those to reencrypt) and the Ready state of the engine |
| `IncomingBatch` with `Ahead`, `Batch`, `Applied` | `CKKSIncomingQueueOperation`: deletes first, then everything, in UUID order, one transaction per batch |
| `Reencrypt` with `Rebased` | `CKKSReencryptOutgoingItemsOperation` |
| `StartUpload` with `FetchEntries`, `Stale`; `UploadSaved` / `UploadRefused` / `UploadFailed` | `CKKSOutgoingQueueOperation`: `groupStart` and `modifyRecordsCompleted` |
| `Crash`, `Restart` | losing everything but the database; `_onqueueResetAllInflightOQE` |

A record is its change tag, its content and whether this device wrote it. A delete carries no tag, a
save does; CloudKit refuses a save whose tag is not the record's, and the whole batch with it.

Abstractions. A local change and its notification are one step, as in the code, where both are in the
transaction of SecDb. The flag that a pending flag will set (`.2` s later, network permitting) is set
at once: that it arrives is `OctagonPendingFlags`' business. The operations between Initialized and
Ready (received keys, health of the key hierarchy) are skipped: the restart goes on with the incoming
queue. Left out: encryption keys and their rolling, a locked device (entries that cannot be read stay in the queue
and a flag waits for the unlock), two UUIDs with one primary key, items in the wrong view, current item
pointers, tombstones of the keychain API, more than one page of changes, the rate limiter, and the daily
scan.

#### The five races (`strayed`)

The invariants about keychain, queues and mirror speak of the items outside `strayed`, a history
variable that records, at the step where it happens, that an item has been hit by one of these races.
Each is a real behaviour of the code, found as a counterexample to the plain invariant; in each the
device and the zone may keep different contents until the next `ScanLocalItems` (daily, or after a
change of the key state), which is not modelled.

1. *Nothing is sent.* An edit that brings the item back to the mirror's content is taken for a change of
   the modification date, or a delete cancels an add that never reached CloudKit, although another entry
   for the item is in flight or waits for reencryption.
2. *Changed again.* An item deleted, and added or changed again while the delete is in flight (changed,
   if a remote write has brought it back to the keychain meanwhile): the entry still carries the record
   that the delete removes; it is refused and dropped.
3. *A late answer.* The answer of an upload is handled after a fetch has brought a newer record: the
   mirror goes back, and the token no longer brings the newer one.
4. *Requeued beside a remote change.* A failed upload (or a restart) puts an entry back in state new
   while a remote change of the item waits in the incoming queue.
5. *Saved beside a remote change.* An upload succeeds, as a delete always does, while a remote change
   fetched before waits to be applied; applying it brings the old content back locally.

For everything else - and for each item until one of these five steps happens to it - the invariants
hold, through other refusals, reencryptions, lost answers and crashes.

### `SecDb`

| Specification | Code |
|---|---|
| `Request`, `ConsumeResource`, `EnterQueue` / `EnterFirstOpen`, `ProcessMarker`, `RemoveDatabase`, `FirstOpen`, `FirstOpenDone` / `OpenedFails` | `SecDbConnectionAcquireRefMigrationSafe` with `SecDbPerformFirstOpen` and `SecDbProcessCorruptionMarker`: the mutex or semaphore first, then the block on `db->queue`, within which the opened handler runs its own transaction |
| `Create`, `CheckHandler`, `OpenedAgainDone`, `AcquireFailed` | the rest of it, outside the first block |
| `BeginTransaction`, `EnterCommitQueue`, `EnterEngine`, `RunBlock`, `EndTransaction`, `WillCommit`, `ExecEnd`, `DidEnd` | `SecDbTransaction`, `SecDbEndTransaction`, `SecDbNotifyPhase`, `SecDbPerformOnCommitQueue`; `SOSEngineDoTxnOnQueue` for the two queues |
| `Read`, `StatementFails`, `HandleCorrupt` | queries and `SecDbConnectionCheckCode`: the integrity check must confirm the corruption |
| `LeavesMarker`, `OpenedGivesUp` | `SecDbHandleCorrupt`; an opened handler that called `SecDbCorrupt`, as `SecKeychainDbUpgradeFromVersion` does for almost any error, reaches it with no integrity check, in the first open or called again |
| `Release`, `Signal`, `ReleaseAllConnections` | the block of `SecDbConnectionRelease` and the signal after it; `SecDbReleaseAllConnections` |
| `ProcessExits`, `Exit`, `BitRot` | the process and the disk |

A block that may wait inside another is several actions, the queue it occupies a lock; a block that
cannot wait is one. A change is its transaction and who made it (the client's block, or a notify block).
External: SQLite, of which only success and kind of failure are kept. Two things are assumed of it: a
failing END rolls back, and a ROLLBACK of an open transaction does not fail. So no transaction is left open
behind the code's back, and `sqlite3_get_autocommit`, without which `SecDbBeginTransaction` would skip its
BEGIN, is always true there; `Begins` has no guard for it. `condemned` is a history variable: the opened
handler has left the marker on account of this file, and no process has opened the file without it since.
A marker that cannot be looked for (`stat` fails) stays, and the database is opened beside it.
A transaction of the API keeps whatever source its connection has, as in the code; DidEnd resets it.
Left out: nested and read-only transactions, changes outside a transaction, checkpoints and vacuum,
`SecDbForceClose`, a `SecDb` without an opened handler (every database of securityd and trustd has one).

### `SecOTRSession` and `SOSCoder`

`SecOTRSession` is the library: one end of a session as a record, and the functions of
`SecOTRSession.c` and `SecOTRSessionAKE.c` as operators on it. Cryptography is what the receiver can tell:
whether a packet was made with the pair of keys it is checked with. `SOSCoder` composes two of them with
their coders, engines, timers and the key-value store.

| Specification | Code |
|---|---|
| `ProcessDH` ... `ProcessSignature`, `AppendStartPacket`, `AppendRestartPacket` | the negotiation |
| `SignAndProtect`, `VerifyAndExpose`, `Roll`, `HandleProposalAcknowledge`, `AcceptNewRemoteKey`, `FindKeys` | data packets, rolling, the key cache |
| `Serialized`, `Loaded` | the session and coder written and read back |
| `HandleCodedMessage` with `Unwrap` | `SOSEngineHandleCodedMessage`, `SOSPeerHandleCoderMessage`, `SOSCoderUnwrap` |
| `SendMessageIfNeeded`, `Sent` | `SOSTransportMessageSendMessageIfNeeded`, `SOSPeerCoderSendMessageIfNeeded`; the message reaches the store before the state is saved, the callback runs after |
| `LocalChange`, `OTRTimerFires`, `NewCoder`, `Exit`, `Redeliver` | a transaction on the engine; `SOSAccountResetOTRNegotiationCoder`; `SOSEngineEnsureCoder_locked` for a coder that was dropped; the process; the store |

Keys are numbers from finite pools, and a fresh one is the smallest nobody holds; two pools for the first
peer let its key be smaller or bigger than the other's, which is all the code compares. Left out: the
rate limiter, compact messages, packets that do not parse, `accountIsChanging`, backup peers, and the
manifests: what a message says of items is how many changes its sender has made and seen.

The code sets the negotiation timer only during the account's initial sync, with a round-trip time at hand
(it is removed when a timer has fired) and retries left. `TimerGuards` is what these three may come to when
a message is sent: either, in `sos_coder`; always true in `sos_coder_stall`, so that finding 5 is about a
timer that was set. Nothing proved depends on it.

Writing a session (`SecOTRSAppendSerialization`) also fills the live session's key cache with the current
pairs, with the counters it has for them or zero. `SaveEngine` leaves the live session alone: a pair
counted zero behaves as one that is not cached, and `CacheFits` bounds the cache by the four pairs there
can be, cached or not.

## 3. The runs

| Run | Shows | Instance, and why it is enough |
|---|---|---|
| `state_machine` | `NoLostWakeup`, `PausedMeansResting`, `RequestHandedOnce`, `HaltStopsEngine`, `HaltIsFinal`; `ServesRPCs` (refinement of `OctagonRPC`); `RPCIsAnswered`, `HaltCompletes` | three working states with a fork, a flagless entry and an entry shared by two states; two flags, two requests that compete for a state, one test hold; 20 434 states. Nothing is bounded: clients act for ever |
| `pending_flags` | `PendingHasWaker`, `ConditionsSeenSincePending`, `CheckInFlightMeansUnmet`, `PendingIsDelivered` | a flag with a delay and a condition, one behind an operation with both conditions: the two kinds the initializers allow, sharing a condition; handed in again and again, replacing each other; 455 399 states |
| `pending_flags_conditions_at_delivery` | finding 1 | as above |
| `watchers` | `ResultQueuedOnce`, `WatcherInStep`, `NoMissedArrival`, `TimedOutRequestIsAnswered` | a watched RPC with a forking path, a free watcher, an arrival watcher with a failure state; 303 960 states |
| `ckks_item_sync` | `InflightIsTheUpload`, `MirrorTracksServer`, `DifferenceIsQueued`, `IncomingOverwritesNothing`, `QueuesAreFlagged` | two items, two contents, batches of one and two, so that a batch can be full, have neighbours and be partly refused, and the incoming queue needs several transactions; two local changes, one remote, one failure |
| `ckks_item_sync_live` | `LocalChangeIsSettled` | one item, the same bounds |
| `ckks_own_record`, `ckks_remote_drops_local`, `ckks_mdat_skip` | findings 2 to 4 | one item |
| `secdb` | `OneWriter`, `ReturnedFindsRoom`, `PooledIsClean`, `AnnouncementsTrue`, `CommittedWasAnnounced`, `DeletionWasAskedFor`, `EveryCallReturns` | two clients for one reader's slot and the writer mutex, three connections so that one is pooled while both are used, one transaction with changes, two failures or exits; 335 443 states. Deadlock is checked |
| `sos_coder` | `CacheFits`, `CanTalk`, `OpenedOnce`, `ChangeReachesPeer` | two peers, one change, one fault (repeated message, early timer, lost coder or exit), the timer set or not: negotiations cross from the start, and keys roll with each exchange; 270 629 states |
| `sos_coder_stall` | finding 5 | as above, the timer always set |

The bounds `MaxEdits`, `MaxRemote` and `MaxFailures` limit the environment only. With one item and
`MaxEdits = 3`, `MaxRemote = 2`, `MaxFailures = 1` TLC also finished without an error (6.5 million
states, depth 65); the third edit is what made race 2 as wide as it is, and the proofs of section 4 show
that nothing else waits behind the bounds. `MaxTx` and `MaxEvents` of `SecDb` and `MaxChanges` and
`MaxFaults` of `SOSCoder` likewise bound the environment. `SlowRoll` is FALSE, as `SOSCoderCreate` has it
for the sessions of SOS. Deadlock is checked for the framework and for `SecDb`. It is not for CKKS and the coders:
a view or a pair of peers in step, with the environment's bounds used up, has nothing to do.

`CanTalk` and `OpenedOnce` are claimed of histories without an exit: a coder is saved when it sends, so a
process that exits may read back a session whose keys and counters are older than what the other end has
seen. `ChangeReachesPeer` is claimed until a negotiation is disturbed, finding 5 being the reason.

Every property has a mutant (an operator kept just before the definition it would replace) that is a
plausible bug: a missing poke, a timer not disarmed, a follow-up that does not wait, a flag judged by the
last check, an entry that is dropped rather than put back.

### Fairness

* `RunAttempt`, `FinishAttempt`, `HaltWait`: operations on an `NSOperationQueue` whose dependencies are
  done are run, and a waiter is woken; the engine's blocks are assumed to end.
* `HandleExternalRequest`: `doSimpleStateMachineRPC` calls it in its next line.
* `RequestTimeout`: a dispatch timer fires. The watchers' own timers are *not* assumed.
* `SchedulerFires`, `AfterOperationBlock`, `CheckOperation`: timers and operations again. Nothing is
  assumed of the world: the device may stay locked, and the operation waited for may never finish.
* CKKS: the view's machine keeps running operations, a fetched page is handled, CloudKit answers an
  upload, and a write in the zone leads to a fetch (APNS, or the daily fetch). Nothing makes clients,
  other devices or the network act or fail.

* `SecDb`: strong fairness of each client's steps, `SF(Step(c))`. The mutex is created with the fair-share
  policy, semaphores and dispatch queues serve in order, so a client that keeps finding its turn gets it;
  under weak fairness another client could come first for ever. Blocks of clients are assumed to end.
* `SOSCoder`: a message in the store is handled, a requested sync is done, and the negotiation timer fires
  when nothing else happens: weak fairness of each, with its ENABLED written out.

Only `SecDb`'s fairness is strong. Nothing is assumed of whoever starts the machine: `RPCIsAnswered` holds
without it.

### What the runs found

Five places where a text of the repository and the code disagree; each is a run that TLC finds violated.

1. *`ConditionsMetAtDelivery`*. `OctagonPendingFlag.h:10` says a flag is added "when some conditions are
   met". The scheduler's block does not recheck, so a flag with a delay and a condition is delivered by
   the conditions of an earlier check (`ConditionsSeenSincePending` is what does hold). The clients
   tolerate it: the operation started by the flag fails and is tried again.
2. *`OwnRecordDropsNothing`*. `CKKSItem.m:551` takes a fetched record the mirror already has for "a record
   we uploaded" and skips it. If the fetch beats the handling of the upload's answer, the mirror does not
   have it yet, and the newer local edit behind it is deleted as overridden by a remote change.
3. *`RemoteChangeDropsLocal`*. `CKKSItem.m:611` says a remote change deletes pending local ones. An entry
   in flight is not deleted; a failure then puts it back (race 4).
4. *`SkippedMeansOnlyMdat`*. `CKKSOutgoingQueueEntry.m:314` calls the skipped change one of "just ... the
   mdat"; the comparison is with the mirror and not with the entry in flight (race 1).
5. *`AwaitingIsTimed`*. `SOSPeerCoder.m:162` says that a coder which awaits a message has a timer that restarts it.
   The timer is set when a message goes out, and cancelled by the next one that comes in, whatever that
   does to the session. Two peers that start anew while messages cross each answer the other's DH packet
   and await a RevealSignature; the DHKey packets then cancel both timers and are ignored.

Notes that are not findings: `haltOperation` may return before the machine is in Halted (it waits for the
operation in flight, the halt follows it), and a machine that a test holds never gets there; requests
are never removed from their array; a watched RPC's watcher starts on its path at any transition into
the path's first state, also at one its own request did not cause; a failed change that has been
superseded moves to Deleted, which tells its sync callback that it succeeded
(`CKKSOutgoingQueueEntry.m:580`).

## 4. The proofs

TLAPS checks these for every value of the constants, under the ASSUMEs of the modules only: the special
states are distinct and the engine neither leaves nor enters them; requests neither; a pending flag has a
delay or an operation and not both, which is what the initializers offer; items are a finite set of
numbers (UUIDs, which the code orders) and batches are not empty; model values for "none" are not members
of the sets they extend.

`OctagonStateMachine_proofs`: `TypeCorrect`, `NoWakeupIsLost`, `PausedIsExact`, `RequestsAreHandedOnce`,
`HaltStopsTheEngine`, `HaltedForGood`, all from one inductive invariant

    Inv == TypeOK, AttemptShape, RequestShape, QueueShape, HaltShape,
           NoLostWakeup, PausedMeansResting, HaltStopsEngine

`RequestShape` carries the argument about requests: while `timeoutCanOccur` is set nothing has taken the
operation, and the request in service has it cleared; without it `RequestHandedOnce` is not inductive,
since a poke could start a request whose timer has fired. `AttemptShape` says that only a halt ends in
Halted and a halt is only in flight on a halted machine. The heart is the lemma `StartNextPost`: a queue
block that ends in `_onqueueStartNextStateMachineOperation` leaves either an attempt in flight or no work,
a fresh or a fulfilled `paused` condition to match, and the request bits in order. `PokePost` lifts it to
blocks that poke; each action is then one case.

The same module proves `MachineServesRPCs`, the step simulation of `OctagonRPC`. It needs `Inv` and where
a running request's operation is (`RunningShape`); `StartNextMayBegin` says that a block which looks for
work begins at most one request, in a source state of it.

`OctagonPendingFlags_proofs`: `NoPendingFlagIsStranded`, `NoCheckOlderThanTheFlag`,
`ChecksAreForUnmetConditions`, from `PendingInv`, which adds to the three properties `Tracked` (each
condition a pending flag needs counts as met or has a check in flight), `Blocked` (each unfinished
operation has a block behind it) and `AvailableSince` (the history covers what is available now).
`SendPost` states why a flag is left behind, `RecheckPost` what a recheck establishes. A delivery of
several flags is not one step of the machine but keeps its `Inv` (`SendKeepsMachine`); with that,
`PendingTypeCorrect` covers all the variables.

`OctagonWatchers_proofs`: `WatchersTypeCorrect`, `ResultIsQueuedOnce`, `WatchersKeepInStep`,
`NoArrivalIsMissed`. Every step of the watched machine is a step of the machine or leaves it alone, so
`Inv` carries over; `WatchersInv` adds the shape of a watcher (it can time out, and is still to be queued,
exactly until it completes) and that an active one stands where the machine stands.

`CKKSItemSync_proofs`, with no bound on edits, remote writes and failures, in three layers:
* `CKInv`: types, what an upload and a fetch carry, and `IncomingIsAhead`: an entry of the incoming queue
  whose flag is not set is still ahead of the cursor of the pass under way, although a fetch may add
  entries behind it. Lemmas about batches (the least items above the cursor, by well-founded induction on
  finite sets) say that a pass which ends leaves nothing ahead. It gives `CKTypeCorrect`,
  `EntriesInFlightAreTheUploads` and `NoQueueIsForgotten`.
* `MirrorInv`: a fetched page and an upload's answer are what the zone holds until it is written again.
  It gives `MirrorFollowsTheZone`.
* `QueueInv`: for each item no race has hit, the newest of its entries holds the keychain's content, an
  entry built on a record has one in the mirror, and none is built on a record that a delete in flight is
  about to remove. It gives `NoChangeIsForgotten` and `NoWaitingChangeIsOverwritten`. The last clause is
  where race 2 turned out wider than the one TLC had shown: without "or changed again" the step is false.

`SecDb_proofs`: `SecDbTypeCorrect`, `OneWriterAtATime`, `PoolIsClean`, `DeletionWasAlwaysAskedFor`,
for any number of clients, connections, readers and failures. `SecDbInv` says where in its call a client has a connection,
the mutex or `db->queue` (`CallInOrder`), counts the readers against the semaphore (`SlotsInOrder`), keeps
connections apart (`PoolInOrder`; before the first open has finished there is only the one it uses),
says what each looks like by where its call is (`ConnectionsInOrder`), and what the marker means
(`DiskInOrder`: it stands beside a corrupt file or one that was given up, and is gone before that file is).
That a *good* database is never deleted would be false: its opened handler may give it up (the comment at
`SecDb.c:914` says so). What holds is that nothing else does, and that a marker left for one file, however
late it is acted on, never reaches the file made after it. `UseStep` covers the actions that only move one call along.

`SecDbChanges_proofs`: `AnnouncementsAreTrue`, `ChangesAreAnnouncedFirst`, `ReturnedAlwaysFindsRoom`, from
two invariants on top of `SecDbInv`. `TransactionInv` says at each step of an open transaction where its
changes are: recorded and still in the connection, or shown to the blocks; in the connection's rows, or
in the file; and that a number that has not been given out has left no trace (`FutureIsBlank`). Steps that
leave the history alone need only one lemma (`CallStep`): a call goes on with its transaction, or its
connection is blank. `RoomInv` counts idle read connections and the readers that have taken theirs
(`Served`) against `kSecDbMaxReaders`; it fits because a reader that finds none idle is itself counted by
the semaphore.

`SOSCoder_proofs`: `CodingTypeCorrect`, `KeyCacheFits`, `MessagesAreOpenedOnce`, for any keys and any number of changes, repeated
messages, timers, lost coders and exits. The sets `Sessions`, `Packets` and `Coders` are the invariant: a
session that is not idle has its two keys, one that is done or awaits a signature has the other end's, a
previous key of theirs comes with an ID above 0, a cached pair is of the four keys the session has now,
and a packet has its sender's key. Each function of `SecOTRSession` is shown to stay in `Sessions`, bottom
up from the cache to `VerifyAndExpose`, then each of the coder to stay in `Coders`; with that every action
keeps `CodingInv`. The third, `MessagesAreOpenedOnce`, adds `KeysApart`: the keys a session uses for this end are of
this end's pools, all others it knows of the other end's, and likewise in packets. It rests on
`PoolsAssumption`, that no key is drawn twice; the code draws them at random. A packet is then `Spent` for
the session that opened it: its counter is in the cache at the pair it was made with, or one key of that
pair is gone for good, as keys of a pool that are in use, in a session, on disk or in the store, are not
drawn again. Every operation of a session keeps `Spent`, the loss of a cached pair included, and a packet
that is `Spent` is not exposed. An exit is where it ends, and what the property leaves out.

`SOSCoderTalk_proofs`: `PeersCanTalk`, with the same freedom but for exits, which `CanTalk` leaves out. The
invariant `Between` relates the two coders and the two messages in the store, in two layers.

* *Both ends done.* `InTouch` has three parts for each direction. `View`: the other end has this end's key,
  or has its next one already and keeps the key as the previous; as long as it lacks the next key it does
  not stall and this end has no acknowledgement, and once this end has one the other end uses the next key.
  `CountsFit`: for a pair in use an end has counted no more packets than the other has made. `Follows`: the
  message in the store proposes the sender's next key, acknowledges the reader's only if the sender has it,
  and is counted. Every operation of an end (find a pair, roll, accept, acknowledge, send, open or refuse)
  keeps all three, also for a message handed over again; `View` and `CountsFit` alone make the other end
  open what is sent (`SentIsUnderstood`).
* *One end not done.* `Published`: the other end knows the key of a negotiation that goes on only from the
  message in the store, which is then of that negotiation. `RevealFirst`: the end that revealed is not done
  while the other may still read it. `Signed`: an end that is done with its signature still to be read has
  used nothing but the keys it began with, and the other end awaits the signature or has fallen back to its
  DH packet. They are not inductive one by one: the end that finishes last is in touch because of `Signed`,
  `Signed` is established because of `Published`, and a reveal packet cannot finish the second end because
  of `RevealFirst`.

`Moves` sums up what reading any packet, or starting anew, makes of one coder; `MovesBetween` then needs
only that. `Talking`, the invariant of the two peers, was checked by TLC before it was proved, with and
without the slow roll.

In these modules a step that changes several fields of one call or connection does so by one inner EXCEPT:
the prover's translation of repeated updates of one index is not reliable.

Only model-checked: liveness (out of this prover's reach: fairness and ENABLED). Every invariant, action
property and refinement that a passing run checks is proved. A run that ends in a finding has nothing to
prove.

## 5. Not modelled, and the plan

Out of reach or not worth a state model: cryptography, encodings (CDSA, CMS, ASN.1, code signing),
certificate path building and the item queries of the keychain API, all of which compute on data; the
macOS daemons `authd` and `securityd`, and analytics, which share no state with the syncing code. What the
modelled parts leave out is listed with each in section 2.

Next, in this order:

1. *Schedulers and fetches*: `CKKSNearFutureScheduler` (trigger, delays, cancel, process transaction), then
   `CKKSZoneChangeFetcher` with it (reasons, dependent operations, retries, halting): a trigger during a
   running block or a cancel is not lost; a fetch asked for during a fetch starts after it.
2. *Item synchronisation, second part*: a locked device and the unlock flag, two UUIDs with one primary
   key (the conflict rule of `_onqueueHandleIQEChange`), the scan that repairs the races, sync callbacks
   (each called exactly once, and with success only if saved). Compose with the fetcher and with `SecDb`'s
   notify phases, in which `LocalChange` runs.
3. *SOS*: the manifests that the engine derives from messages, in place of the count of changes; the
   account's own messages and the backup peers.
4. *Escrow request server*: its engine in full on `OctagonStateMachine`, with crash and retry.
5. *Later*: the CKKS key hierarchy states, a table of Octagon's engine for reachability, the peers graph
   of the Trusted Peers Helper.
