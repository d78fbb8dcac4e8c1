------------------------------- MODULE SecDb ---------------------------------
(***************************************************************************)
(* utilities/SecDb.c: the connection pool and the transactions under the   *)
(* keychain and the trust databases.                                       *)
(*                                                                         *)
(* A client acquires a connection, uses it and releases it.  The writer    *)
(* mutex and the reader semaphore bound the connections in use, the serial *)
(* queue db->queue guards the pool, and write transactions end in a        *)
(* barrier on the concurrent commit queue, where the notify blocks of SOS  *)
(* and CKKS run.  A block that waits inside another (the opened handler    *)
(* inside db->queue, the notify blocks inside the barrier, the SOS engine  *)
(* queue inside the commit queue) is several actions, the queue it         *)
(* occupies a lock; a block that cannot wait is one action.                *)
(*                                                                         *)
(* SQLite is kept to what the code tells apart: whether a statement fails, *)
(* and how; which changes an open transaction holds; whether the file is   *)
(* corrupt.  The process may exit at any point, by itself or on finding    *)
(* corruption, and the next one starts over with the file and the marker.  *)
(***************************************************************************)
EXTENDS Integers, FiniteSets

CONSTANTS
    Client, NoClient,
    Conn, NoConn,     \* identities for connections
    MaxReaders,       \* kSecDbMaxReaders
    MaxIdleHandles,   \* db->maxIdleHandles
    AllowRepair,      \* db->allowRepair
    MaxTx,            \* bound: transactions with changes
    MaxEvents         \* bound: failures, bit rot, exits the code does not ask
                      \* for, and handlers that ask to be called again

ASSUME ClientAssumption == NoClient \notin Client /\ IsFiniteSet(Client)
ASSUME ConnAssumption == NoConn \notin Conn /\ IsFiniteSet(Conn)
ASSUME BoundsAssumption ==
    /\ MaxReaders \in Nat /\ MaxIdleHandles \in Nat /\ AllowRepair \in BOOLEAN
    /\ MaxTx \in Nat /\ MaxEvents \in Nat

VARIABLES
    pc,             \* where each client's call is
    call,           \* its arguments and locals
    connection, idleRead, idleWrite,
    readSemaphore, writeMutex,
    dbQueue,        \* the client whose block waits inside db->queue
    commitBarrier, commitShared,    \* who occupies db->commitQueue, and how
    engine,         \* who occupies the SOS engine's queue
    didFirstOpen, callAgain,
    notify,         \* db->notifyPhase is not NULL
    file, marker,   \* the database file, and the file <db>-iscorrupt
    condemned,      \* history: the opened handler has given the file up, and
                    \* no process has opened it since without the marker
    recorded, committed, announced, \* what happened to each change
    txCount, events

callVars == <<pc, call>>
pool == <<connection, idleRead, idleWrite>>
resources == <<readSemaphore, writeMutex>>
queues == <<dbQueue, commitBarrier, commitShared, engine>>
handlers == <<didFirstOpen, callAgain, notify>>
disk == <<file, marker, condemned>>
history == <<recorded, committed, announced, txCount>>
secDbVars == <<callVars, pool, resources, queues, handlers, disk, history, events>>
-----------------------------------------------------------------------------
Source == {"api", "sos", "ckks", "invalid"}
Change == [tx : 1 .. MaxTx, by : {"block", "notify"}]
Phase == {"willCommit", "didCommit", "didRollback"}

(* stage: who runs the transaction, the opened handler in the first open   *)
(* or when called again, or the client itself.                             *)
CallType == [readOnly : BOOLEAN, conn : Conn \cup {NoConn},
             stage : {"perform", "firstOpen", "again"},
             source : Source, tx : 0 .. MaxTx, commit : BOOLEAN]
NoCall == [readOnly |-> FALSE, conn |-> NoConn, stage |-> "perform",
           source |-> "api", tx |-> 0, commit |-> FALSE]

(* rows: the changes SQLite holds in the connection's open transaction.    *)
ConnectionType == [readOnly : BOOLEAN, inTransaction : BOOLEAN, source : Source,
                   hasIOFailure : BOOLEAN,
                   rows : SUBSET Change, changes : SUBSET Change]
NewConnection(ro) ==
    [readOnly |-> ro, inTransaction |-> FALSE, source |-> "invalid",
     hasIOFailure |-> FALSE, rows |-> {}, changes |-> {}]

InUse == {call[c].conn : c \in Client} \cup idleRead \cup idleWrite
Spare == CHOOSE k \in Conn : k \notin InUse

(* Connections nobody refers to any more are destroyed.                    *)
Destroy(ks) == [k \in Conn |-> IF k \in ks THEN NewConnection(FALSE) ELSE connection[k]]

Goto(c, label) == pc' = [pc EXCEPT ![c] = label]
Event == events > 0 /\ events' = events - 1

(* The state a process starts in, and the step into it when one exits.     *)
NoCalls == [c \in Client |-> NoCall]
AllIdle == [c \in Client |-> "idle"]
NoConnections == [k \in Conn |-> NewConnection(FALSE)]

ProcessStart ==
    /\ pc = AllIdle /\ call = NoCalls
    /\ connection = NoConnections /\ idleRead = {} /\ idleWrite = {}
    /\ readSemaphore = MaxReaders /\ writeMutex = NoClient
    /\ dbQueue = NoClient /\ commitBarrier = NoClient
    /\ commitShared = {} /\ engine = NoClient
    /\ didFirstOpen = FALSE /\ callAgain = FALSE /\ notify = FALSE

ProcessExits ==
    /\ pc' = AllIdle /\ call' = NoCalls
    /\ connection' = NoConnections /\ idleRead' = {} /\ idleWrite' = {}
    /\ readSemaphore' = MaxReaders /\ writeMutex' = NoClient
    /\ dbQueue' = NoClient /\ commitBarrier' = NoClient
    /\ commitShared' = {} /\ engine' = NoClient
    /\ didFirstOpen' = FALSE /\ callAgain' = FALSE /\ notify' = FALSE

SecDbInit ==
    /\ ProcessStart
    /\ file = "absent" /\ marker = FALSE /\ condemned = FALSE
    /\ recorded = {} /\ committed = {}
    /\ announced = [p \in Phase |-> {}]
    /\ txCount = 0
    /\ events = MaxEvents
-----------------------------------------------------------------------------
(* SecDbConnectionAcquireRefMigrationSafe.                                 *)

Request(c) ==
    /\ pc[c] = "idle"
    /\ \E ro \in BOOLEAN : call' = [call EXCEPT ![c].readOnly = ro]
    /\ Goto(c, "consume")
    /\ UNCHANGED <<pool, resources, queues, handlers, disk, history, events>>

ConsumeResource(c) ==
    /\ pc[c] = "consume"
    /\ \/ /\ call[c].readOnly /\ readSemaphore > 0
          /\ readSemaphore' = readSemaphore - 1
          /\ UNCHANGED writeMutex
       \/ /\ ~call[c].readOnly /\ writeMutex = NoClient
          /\ writeMutex' = c
          /\ UNCHANGED readSemaphore
    /\ Goto(c, "enter")
    /\ UNCHANGED <<call, pool, queues, handlers, disk, history, events>>

MakeResourceAvailable(c) ==
    \/ /\ call[c].readOnly
       /\ readSemaphore' = readSemaphore + 1 /\ UNCHANGED writeMutex
    \/ /\ ~call[c].readOnly
       /\ writeMutex' = NoClient /\ UNCHANGED readSemaphore

(* Mutant: the connection is used without being taken out of the cache.    *)
SharesFromCache(c, writeCache, ran) ==
    LET cached == IF call[c].readOnly THEN idleRead ELSE writeCache IN
    \/ \E k \in cached :
         /\ UNCHANGED idleRead /\ idleWrite' = writeCache
         /\ call' = [call EXCEPT ![c] =
                       [@ EXCEPT !.conn = k, !.stage = "perform", !.commit = FALSE]]
         /\ Goto(c, IF call[c].readOnly \/ ran THEN "perform" ELSE "check")
    \/ /\ cached = {}
       /\ UNCHANGED idleRead /\ idleWrite' = writeCache
       /\ call' = [call EXCEPT ![c] =
                     [@ EXCEPT !.conn = NoConn, !.stage = "perform", !.commit = FALSE]]
       /\ Goto(c, "create")

(* The end of the first block: the connection the cache has, or none.      *)
TakesFromCache(c, writeCache, ran) ==
    LET cached == IF call[c].readOnly THEN idleRead ELSE writeCache IN
    \/ \E k \in cached :
         /\ idleRead' = idleRead \ {k} /\ idleWrite' = writeCache \ {k}
         /\ call' = [call EXCEPT ![c] =
                       [@ EXCEPT !.conn = k, !.stage = "perform", !.commit = FALSE]]
         /\ Goto(c, IF call[c].readOnly \/ ran THEN "perform" ELSE "check")
    \/ /\ cached = {}
       /\ UNCHANGED idleRead /\ idleWrite' = writeCache
       /\ call' = [call EXCEPT ![c] =
                     [@ EXCEPT !.conn = NoConn, !.stage = "perform", !.commit = FALSE]]
       /\ Goto(c, "create")

EnterQueue(c) ==
    /\ pc[c] = "enter" /\ dbQueue = NoClient
    /\ didFirstOpen
    /\ TakesFromCache(c, idleWrite, FALSE)
    /\ UNCHANGED <<connection, resources, queues, handlers, disk, history, events>>

EnterFirstOpen(c) ==
    /\ pc[c] = "enter" /\ dbQueue = NoClient
    /\ ~didFirstOpen
    /\ dbQueue' = c
    /\ Goto(c, "marker")
    /\ UNCHANGED <<call, pool, resources, commitBarrier, commitShared, engine,
                   handlers, disk, history, events>>

(* A first open that fails leaves the queue, and the acquisition fails.    *)
FirstOpenFails(c) ==
    /\ dbQueue' = NoClient
    /\ call' = [call EXCEPT ![c] =
                  [@ EXCEPT !.conn = NoConn, !.stage = "perform", !.commit = FALSE]]
    /\ Goto(c, "failed")

(* SecDbProcessCorruptionMarker: the marker goes first, then the database; *)
(* each removal may fail, and the process may exit between the two.  If    *)
(* the marker cannot be looked for, it stays, and the database is opened.  *)
ProcessMarker(c) ==
    /\ pc[c] = "marker"
    /\ \/ ~marker /\ Goto(c, "open") /\ UNCHANGED <<marker, call, dbQueue, events>>
       \/ /\ marker /\ marker' = FALSE
          /\ Goto(c, "remove") /\ UNCHANGED <<call, dbQueue, events>>
       \/ /\ marker /\ Event /\ UNCHANGED marker
          /\ Goto(c, "open") /\ UNCHANGED <<call, dbQueue>>
       \/ marker /\ Event /\ FirstOpenFails(c) /\ UNCHANGED marker
    /\ UNCHANGED <<pool, resources, commitBarrier, commitShared, engine, handlers,
                   file, condemned, history>>

RemoveDatabase(c) ==
    /\ pc[c] = "remove"
    /\ \/ /\ file' = "absent" /\ condemned' = FALSE
          /\ Goto(c, "open") /\ UNCHANGED <<call, dbQueue, events>>
       \/ Event /\ FirstOpenFails(c) /\ UNCHANGED <<file, condemned>>
    /\ UNCHANGED <<pool, resources, commitBarrier, commitShared, engine, handlers,
                   marker, history>>

(* SecDbPerformFirstOpen up to the upcall: the connection is read-write    *)
(* whatever the client asked for, and the client may hold no mutex.        *)
FirstOpen(c) ==
    /\ pc[c] = "open"
    /\ \/ /\ ~(Conn \subseteq InUse)
          /\ connection' = [connection EXCEPT ![Spare] = NewConnection(FALSE)]
          /\ call' = [call EXCEPT ![c] = [@ EXCEPT !.conn = Spare, !.stage = "firstOpen"]]
          /\ file' = IF file = "absent" THEN "good" ELSE file
          /\ condemned' = (condemned /\ marker)
          /\ callAgain' = FALSE
          /\ Goto(c, "begin") /\ UNCHANGED <<dbQueue, events>>
       \/ Event /\ FirstOpenFails(c)
          /\ UNCHANGED <<connection, file, condemned, callAgain>>
    /\ UNCHANGED <<idleRead, idleWrite, resources, commitBarrier, commitShared,
                   engine, didFirstOpen, notify, marker, history>>

(* The opened handler asks to be called for the next write connection too. *)
AsksAgain ==
    \/ callAgain' = FALSE /\ UNCHANGED events
    \/ callAgain' = TRUE /\ Event

(* Mutant: didFirstOpen is not set.                                        *)
FirstOpenDoneUnset(c) ==
    /\ pc[c] = "opened" /\ call[c].stage = "firstOpen" /\ call[c].commit
    /\ UNCHANGED didFirstOpen /\ AsksAgain
    /\ TakesFromCache(c, idleWrite \cup {call[c].conn}, TRUE)
    /\ dbQueue' = NoClient
    /\ UNCHANGED <<connection, resources, commitBarrier, commitShared, engine,
                   notify, disk, history>>

(* The handler has succeeded.  The connection goes to the write cache, and *)
(* the same block goes on to look into the cache the client needs.         *)
FirstOpenDone(c) ==
    /\ pc[c] = "opened" /\ call[c].stage = "firstOpen" /\ call[c].commit
    /\ didFirstOpen' = TRUE /\ AsksAgain
    /\ TakesFromCache(c, idleWrite \cup {call[c].conn}, TRUE)
    /\ dbQueue' = NoClient
    /\ UNCHANGED <<connection, resources, commitBarrier, commitShared, engine,
                   notify, disk, history>>

(* Both ways an opened handler fails: in the first open, or called again.  *)
OpenedFails(c) ==
    /\ pc[c] = "opened" /\ ~call[c].commit
    /\ AsksAgain
    /\ FirstOpenFails(c)
    /\ connection' = Destroy({call[c].conn})
    /\ UNCHANGED <<idleRead, idleWrite, resources, commitBarrier, commitShared, engine,
                   didFirstOpen, notify, disk, history>>

OpenedAgainDone(c) ==
    /\ pc[c] = "opened" /\ call[c].stage = "again" /\ call[c].commit
    /\ AsksAgain
    /\ dbQueue' = NoClient
    /\ call' = [call EXCEPT ![c] = [@ EXCEPT !.stage = "perform", !.commit = FALSE]]
    /\ Goto(c, "perform")
    /\ UNCHANGED <<pool, resources, commitBarrier, commitShared, engine,
                   didFirstOpen, notify, disk, history>>

(* Outside the queue: nothing was cached, so a connection is created.      *)
Create(c) ==
    /\ pc[c] = "create"
    /\ \/ /\ ~(Conn \subseteq InUse)
          /\ connection' =
               [connection EXCEPT ![Spare] = NewConnection(call[c].readOnly)]
          /\ call' = [call EXCEPT ![c].conn = Spare]
          /\ Goto(c, IF call[c].readOnly THEN "perform" ELSE "check")
          /\ UNCHANGED events
       \/ Event /\ Goto(c, "failed") /\ UNCHANGED <<call, connection>>
    /\ UNCHANGED <<idleRead, idleWrite, resources, queues, handlers, disk, history>>

(* A write connection whose client did not itself run the handler runs it  *)
(* if it was asked to be called again.                                     *)
CheckHandler(c) ==
    /\ pc[c] = "check" /\ dbQueue = NoClient
    /\ \/ ~callAgain /\ Goto(c, "perform") /\ UNCHANGED <<call, dbQueue, callAgain>>
       \/ /\ callAgain
          /\ dbQueue' = c /\ callAgain' = FALSE
          /\ call' = [call EXCEPT ![c].stage = "again"]
          /\ Goto(c, "begin")
    /\ UNCHANGED <<pool, resources, commitBarrier, commitShared, engine,
                   didFirstOpen, notify, disk, history, events>>

(* Mutant: a failed acquisition keeps the mutex or its reader's slot.      *)
AcquireFailedLeaks(c) ==
    /\ pc[c] = "failed"
    /\ call' = [call EXCEPT ![c] = NoCall]
    /\ Goto(c, "idle")
    /\ UNCHANGED <<pool, resources, queues, handlers, disk, history, events>>

AcquireFailed(c) ==
    /\ pc[c] = "failed"
    /\ MakeResourceAvailable(c)
    /\ call' = [call EXCEPT ![c] = NoCall]
    /\ Goto(c, "idle")
    /\ UNCHANGED <<pool, queues, handlers, disk, history, events>>
-----------------------------------------------------------------------------
(* Using the connection.                                                   *)

(* A failing statement (SecDbConnectionCheckCode): only an I/O error is    *)
(* remembered.  A code for corruption that the integrity check does not    *)
(* confirm is an error like another.                                       *)
StatementFails(c) ==
    /\ Event
    /\ \E io \in BOOLEAN :
         connection' = [connection EXCEPT ![call[c].conn].hasIOFailure = @ \/ io]

(* A reader runs its queries.                                              *)
Read(c) ==
    /\ pc[c] = "perform" /\ call[c].readOnly
    /\ \/ UNCHANGED <<connection, events>>
       \/ StatementFails(c)
    /\ Goto(c, "release")
    /\ UNCHANGED <<call, idleRead, idleWrite, resources, queues, handlers, disk,
                   history>>

(* A transaction has returned whether it was committed, to the client or   *)
(* to the opened handler.                                                  *)
TransactionReturns(c, ok) ==
    \/ /\ call[c].stage = "perform"
       /\ call' = [call EXCEPT ![c] =
                     [@ EXCEPT !.source = "api", !.tx = 0, !.commit = FALSE]]
       /\ Goto(c, "perform")
    \/ /\ call[c].stage # "perform"
       /\ call' = [call EXCEPT ![c].commit = ok]
       /\ Goto(c, "opened")

(* SecDbBeginTransaction: the source is that of a remote type, and else    *)
(* what the connection has; BEGIN may fail.                                *)
Begins(c, source, tx) ==
    LET k == call[c].conn
        begun == [connection[k] EXCEPT
                    !.source = IF source = "api" THEN @ ELSE source]
    IN \/ /\ connection' =
               [connection EXCEPT ![k] = [begun EXCEPT !.inTransaction = TRUE]]
          /\ call' = [call EXCEPT ![c] = [@ EXCEPT !.source = source, !.tx = tx]]
          /\ Goto(c, IF source = "sos" THEN "queueUp" ELSE "body")
          /\ UNCHANGED events
       \/ /\ Event
          /\ \E io \in BOOLEAN :
               connection' = [connection EXCEPT ![k] =
                                [begun EXCEPT !.hasIOFailure = @ \/ io]]
          /\ TransactionReturns(c, FALSE)

(* SecDbTransaction, by the opened handler, which changes no items, or by  *)
(* a writer, with one of the types that differ here.                       *)
BeginTransaction(c) ==
    /\ \/ pc[c] = "begin" /\ Begins(c, "api", 0) /\ UNCHANGED txCount
       \/ /\ pc[c] = "perform" /\ ~call[c].readOnly
          /\ txCount < MaxTx /\ txCount' = txCount + 1
          /\ \E s \in {"api", "sos", "ckks"} : Begins(c, s, txCount + 1)
    /\ UNCHANGED <<idleRead, idleWrite, resources, queues, handlers, disk, recorded,
                   committed, announced>>

(* SecDbPerformOnCommitQueue, by a transaction or a reader of SOS, and then *)
(* the engine's queue inside it (SOSEngineDoReadOnlyTxnOnQueue).           *)
EnterCommitQueue(c) ==
    /\ pc[c] = "queueUp" \/ (pc[c] = "perform" /\ call[c].readOnly)
    /\ commitBarrier = NoClient
    /\ commitShared' = commitShared \cup {c}
    /\ Goto(c, "engine")
    /\ UNCHANGED <<call, pool, resources, dbQueue, commitBarrier, engine, handlers,
                   disk, history, events>>

EnterEngine(c) ==
    /\ pc[c] = "engine" /\ engine = NoClient
    /\ engine' = c
    /\ Goto(c, "body")
    /\ UNCHANGED <<call, pool, resources, dbQueue, commitBarrier, commitShared,
                   handlers, disk, history, events>>

(* The block ends: what it read or wrote, and whether it wants to commit.  *)
(* Every item it changes is recorded if there are notify blocks            *)
(* (SecDbRecordChange).  A statement that fails makes it ask for rollback. *)
Written(c) == IF call[c].tx = 0 THEN {} ELSE {[tx |-> call[c].tx, by |-> "block"]}
Recorded(c) == IF notify THEN Written(c) ELSE {}

RunBlock(c) ==
    LET k == call[c].conn IN
    /\ pc[c] = "body"
    /\ commitShared' = commitShared \ {c}
    /\ engine' = IF engine = c THEN NoClient ELSE engine
    /\ \/ /\ call[c].readOnly /\ call[c].stage = "perform"
          /\ Goto(c, "release")
          /\ UNCHANGED <<call, connection, recorded, events>>
       \/ /\ ~call[c].readOnly \/ call[c].stage # "perform"
          /\ \E commit \in BOOLEAN : call' = [call EXCEPT ![c].commit = commit]
          /\ connection' = [connection EXCEPT ![k] =
                              [@ EXCEPT !.rows = connection[k].rows \cup Written(c),
                                        !.changes = connection[k].changes \cup Recorded(c)]]
          /\ recorded' = recorded \cup Recorded(c)
          /\ Goto(c, "end") /\ UNCHANGED events
       \/ /\ ~call[c].readOnly \/ call[c].stage # "perform"
          /\ StatementFails(c)
          /\ call' = [call EXCEPT ![c].commit = FALSE]
          /\ Goto(c, "end") /\ UNCHANGED recorded
    /\ UNCHANGED <<idleRead, idleWrite, resources, dbQueue, commitBarrier, handlers,
                   disk, committed, announced, txCount>>
-----------------------------------------------------------------------------
(* SecDbEndTransaction, in a barrier on the commit queue.                  *)

EndTransaction(c) ==
    /\ pc[c] = "end"
    /\ commitBarrier = NoClient /\ commitShared = {}
    /\ commitBarrier' = c
    /\ Goto(c, IF call[c].commit THEN "willCommit" ELSE "exec")
    /\ UNCHANGED <<call, pool, resources, dbQueue, commitShared, engine, handlers,
                   disk, history, events>>

(* SecDbNotifyPhase: the blocks get the changes recorded so far, the ones  *)
(* they record themselves are the next phase's.  SOS's block needs the     *)
(* engine's queue.  Without changes or blocks, nothing happens.            *)
NotifyPhase(c, phase, more) ==
    LET k == call[c].conn IN
    \/ /\ connection[k].changes # {} /\ notify
       /\ engine = NoClient
       /\ announced' = [announced EXCEPT ![phase] = @ \cup connection[k].changes]
       /\ connection' = [connection EXCEPT ![k] =
                           [@ EXCEPT !.changes = more,
                                     !.rows = connection[k].rows \cup more]]
       /\ recorded' = recorded \cup more
    \/ /\ connection[k].changes = {} \/ ~notify
       /\ UNCHANGED <<announced, connection, recorded>>

(* Mutant: the blocks are told only after the transaction has ended.       *)
WillCommitSkipped(c) ==
    /\ pc[c] = "willCommit"
    /\ Goto(c, "exec")
    /\ UNCHANGED <<call, pool, resources, queues, handlers, disk, history, events>>

WillCommit(c) ==
    /\ pc[c] = "willCommit"
    /\ \E more \in SUBSET {[tx |-> call[c].tx, by |-> "notify"]} :
         more \subseteq Change /\ NotifyPhase(c, "willCommit", more)
    /\ Goto(c, "exec")
    /\ UNCHANGED <<call, idleRead, idleWrite, resources, queues, handlers, disk,
                   committed, txCount, events>>

(* Mutant: what the client asked for is reported, not how END went.        *)
ExecEndAsAsked(c) ==
    LET k == call[c].conn IN
    /\ pc[c] = "exec"
    /\ \/ /\ call[c].commit
          /\ committed' = committed \cup connection[k].rows
          /\ UNCHANGED <<call, events>>
       \/ call[c].commit /\ Event /\ UNCHANGED <<committed, call>>
       \/ ~call[c].commit /\ UNCHANGED <<committed, call, events>>
    /\ connection' = [connection EXCEPT ![k] =
                        [@ EXCEPT !.rows = {}, !.inTransaction = FALSE]]
    /\ Goto(c, "did")
    /\ UNCHANGED <<idleRead, idleWrite, resources, queues, handlers, disk, recorded,
                   announced, txCount>>

(* END or ROLLBACK.  SQLite rolls back when END fails.                     *)
ExecEnd(c) ==
    LET k == call[c].conn IN
    /\ pc[c] = "exec"
    /\ \/ /\ call[c].commit
          /\ committed' = committed \cup connection[k].rows
          /\ UNCHANGED <<call, events>>
       \/ /\ call[c].commit /\ Event
          /\ call' = [call EXCEPT ![c].commit = FALSE] /\ UNCHANGED committed
       \/ ~call[c].commit /\ UNCHANGED <<committed, call, events>>
    /\ connection' = [connection EXCEPT ![k] =
                        [@ EXCEPT !.rows = {}, !.inTransaction = FALSE]]
    /\ Goto(c, "did")
    /\ UNCHANGED <<idleRead, idleWrite, resources, queues, handlers, disk, recorded,
                   announced, txCount>>

(* The blocks learn how it went, and the source is reset.                  *)
DidEnd(c) ==
    LET k == call[c].conn
        phase == IF call[c].commit THEN "didCommit" ELSE "didRollback"
        told == connection[k].changes # {} /\ notify
    IN /\ pc[c] = "did"
       /\ told => engine = NoClient
       /\ announced' = IF told THEN [announced EXCEPT ![phase] =
                                       @ \cup connection[k].changes] ELSE announced
       /\ connection' = [connection EXCEPT ![k] =
                           [@ EXCEPT !.source = "api",
                                     !.changes = IF told THEN {} ELSE connection[k].changes]]
       /\ commitBarrier' = NoClient
       /\ TransactionReturns(c, call[c].commit)
       /\ UNCHANGED <<idleRead, idleWrite, resources, dbQueue, commitShared,
                      engine, handlers, disk, recorded, committed, txCount, events>>
-----------------------------------------------------------------------------
(* SecDbConnectionRelease: a block on db->queue, then the signal.          *)
Releases(c) == pc[c] = "release" \/ (pc[c] = "perform" /\ ~call[c].readOnly)
Cache(c) == IF call[c].readOnly THEN idleRead ELSE idleWrite
HasRoom(c) ==
    /\ Cardinality(Cache(c)) < (IF call[c].readOnly THEN MaxReaders ELSE 1)
    /\ Cardinality(idleRead) + Cardinality(idleWrite) < MaxIdleHandles

(* Mutant: a connection that met an I/O error goes back to the pool.       *)
ReleaseRegardless(c) ==
    /\ Releases(c) /\ dbQueue = NoClient
    /\ \/ /\ HasRoom(c)
          /\ idleRead' = IF call[c].readOnly THEN idleRead \cup {call[c].conn}
                         ELSE idleRead
          /\ idleWrite' = IF call[c].readOnly THEN idleWrite
                          ELSE idleWrite \cup {call[c].conn}
       \/ ~HasRoom(c) /\ UNCHANGED <<idleRead, idleWrite>>
    /\ call' = [call EXCEPT ![c].conn = NoConn]
    /\ Goto(c, "signal")
    /\ UNCHANGED <<connection, resources, queues, handlers, disk, history, events>>

(* Mutant: the queue block has signalled already.                          *)
ReleaseSignals(c) ==
    /\ Releases(c) /\ dbQueue = NoClient
    /\ MakeResourceAvailable(c)
    /\ UNCHANGED <<idleRead, idleWrite>>
    /\ call' = [call EXCEPT ![c].conn = NoConn]
    /\ Goto(c, "signal")
    /\ UNCHANGED <<connection, queues, handlers, disk, history, events>>

Release(c) ==
    LET failed == connection[call[c].conn].hasIOFailure IN
    /\ Releases(c) /\ dbQueue = NoClient
    /\ \/ /\ failed /\ idleRead' = {} /\ idleWrite' = {}
          /\ connection' = Destroy(idleRead \cup idleWrite \cup {call[c].conn})
       \/ /\ ~failed /\ HasRoom(c)
          /\ idleRead' = IF call[c].readOnly THEN idleRead \cup {call[c].conn}
                         ELSE idleRead
          /\ idleWrite' = IF call[c].readOnly THEN idleWrite
                          ELSE idleWrite \cup {call[c].conn}
          /\ UNCHANGED connection
       \/ /\ ~failed /\ ~HasRoom(c) /\ UNCHANGED <<idleRead, idleWrite>>
          /\ connection' = Destroy({call[c].conn})
    /\ call' = [call EXCEPT ![c].conn = NoConn]
    /\ Goto(c, "signal")
    /\ UNCHANGED <<resources, queues, handlers, disk, history, events>>

Signal(c) ==
    /\ pc[c] = "signal"
    /\ MakeResourceAvailable(c)
    /\ call' = [call EXCEPT ![c] = NoCall]
    /\ Goto(c, "idle")
    /\ UNCHANGED <<pool, queues, handlers, disk, history, events>>

(* SecDbReleaseAllConnections empties the pool, not the hands of clients.  *)
ReleaseAllConnections ==
    /\ dbQueue = NoClient
    /\ idleRead' = {} /\ idleWrite' = {}
    /\ connection' = Destroy(idleRead \cup idleWrite)
    /\ UNCHANGED <<callVars, resources, queues, handlers, disk, history,
                   events>>

(* SOS and CKKS register their blocks some time after the first open.      *)
AddNotifyPhaseBlock ==
    /\ ~notify /\ didFirstOpen
    /\ notify' = TRUE
    /\ UNCHANGED <<callVars, pool, resources, queues, didFirstOpen, callAgain, disk,
                   history, events>>
-----------------------------------------------------------------------------
(* Corruption and exits.                                                   *)

BitRot ==
    /\ file = "good" /\ file' = "corrupt"
    /\ Event
    /\ UNCHANGED <<callVars, pool, resources, queues, handlers, marker, condemned,
                   history>>

RunsStatements(c) == pc[c] \in {"begin", "body", "willCommit", "exec"}
                     \/ (pc[c] = "perform" /\ call[c].readOnly)

(* SecDbHandleCorrupt: the marker is left, if it can be, and the process   *)
(* exits.  Without leave to repair it does nothing.                        *)
LeavesMarker ==
    /\ AllowRepair
    /\ \/ marker' = TRUE /\ UNCHANGED events
       \/ Event /\ UNCHANGED marker
    /\ ProcessExits
    /\ UNCHANGED <<file, history>>

(* Mutant: the integrity check is not asked.                               *)
HandleCorruptUnchecked(c) == RunsStatements(c) /\ LeavesMarker /\ UNCHANGED condemned

(* A statement finds corruption, and the integrity check confirms it.      *)
HandleCorrupt(c) ==
    /\ RunsStatements(c) /\ file = "corrupt"
    /\ LeavesMarker /\ UNCHANGED condemned

(* The opened handler gives the database up (SecDbCorrupt): the keychain's *)
(* does for almost any error of an upgrade, with no integrity check, and   *)
(* whether or not its transaction went well.                               *)
OpenedGivesUp(c) ==
    /\ pc[c] = "opened"
    /\ LeavesMarker /\ condemned' = (condemned \/ marker')

Exit ==
    /\ Event
    /\ ProcessExits
    /\ UNCHANGED <<disk, history>>
-----------------------------------------------------------------------------
(* A step of a call that has begun.                                        *)
Step(c) ==
    \/ ConsumeResource(c) \/ EnterQueue(c) \/ EnterFirstOpen(c)
    \/ ProcessMarker(c) \/ RemoveDatabase(c) \/ FirstOpen(c)
    \/ FirstOpenDone(c) \/ OpenedFails(c) \/ OpenedAgainDone(c)
    \/ Create(c) \/ CheckHandler(c) \/ AcquireFailed(c)
    \/ Read(c) \/ BeginTransaction(c) \/ EnterCommitQueue(c) \/ EnterEngine(c) \/ RunBlock(c)
    \/ EndTransaction(c) \/ WillCommit(c) \/ ExecEnd(c) \/ DidEnd(c)
    \/ Release(c) \/ Signal(c)

SecDbNext ==
    \/ \E c \in Client : Request(c) \/ Step(c) \/ HandleCorrupt(c) \/ OpenedGivesUp(c)
    \/ ReleaseAllConnections \/ AddNotifyPhaseBlock \/ BitRot \/ Exit

SecDbSpec == SecDbInit /\ [][SecDbNext]_secDbVars

(* The mutex is created with the fair-share policy, semaphores and queues  *)
(* serve in order: a client that keeps finding its turn gets it.           *)
SecDbFairSpec == SecDbSpec /\ \A c \in Client : SF_secDbVars(Step(c))
-----------------------------------------------------------------------------
Labels == {"idle", "consume", "enter", "marker", "remove", "open", "begin",
           "queueUp", "engine", "body", "end", "willCommit", "exec", "did",
           "opened", "create", "check", "failed", "perform", "release", "signal"}

SecDbTypeOK ==
    /\ pc \in [Client -> Labels]
    /\ call \in [Client -> CallType]
    /\ connection \in [Conn -> ConnectionType]
    /\ idleRead \subseteq Conn /\ idleWrite \subseteq Conn
    /\ readSemaphore \in 0 .. MaxReaders
    /\ writeMutex \in Client \cup {NoClient}
    /\ dbQueue \in Client \cup {NoClient}
    /\ commitBarrier \in Client \cup {NoClient}
    /\ commitShared \subseteq Client
    /\ engine \in Client \cup {NoClient}
    /\ didFirstOpen \in BOOLEAN /\ callAgain \in BOOLEAN /\ notify \in BOOLEAN
    /\ file \in {"absent", "good", "corrupt"}
    /\ marker \in BOOLEAN /\ condemned \in BOOLEAN
    /\ recorded \subseteq Change /\ committed \subseteq Change
    /\ announced \in [Phase -> SUBSET Change]
    /\ txCount \in 0 .. MaxTx
    /\ events \in 0 .. MaxEvents

(* No two clients hold a read-write connection, though a reader's first    *)
(* open makes and uses one without the write mutex (only db->queue and     *)
(* didFirstOpen keep it apart from the writers).                           *)
OneWriter ==
    \A c, d \in Client :
        /\ c # d
        /\ call[c].conn # NoConn /\ ~connection[call[c].conn].readOnly
        /\ call[d].conn # NoConn
        => connection[call[d].conn].readOnly

(* "Did not expect to run out of room in the cache when releasing": with   *)
(* room for every reader and the writer (kSecDbMaxIdleHandles), a healthy  *)
(* connection released, by whatever history, fits into its cache.          *)
ReturnedFindsRoom ==
    \A c \in Client :
        /\ Releases(c)
        /\ ~connection[call[c].conn].hasIOFailure
        /\ MaxIdleHandles >= MaxReaders + 1
        => HasRoom(c)

(* A pooled connection is nobody's, is of its cache's kind, never met an   *)
(* I/O error, and carries nothing into the next client's transaction: no   *)
(* open transaction, and no recorded change that the next phase would      *)
(* announce as the next client's.                                          *)
PooledIsClean ==
    \A k \in idleRead \cup idleWrite :
        /\ \A c \in Client : call[c].conn # k
        /\ connection[k].readOnly <=> k \in idleRead
        /\ ~connection[k].hasIOFailure
        /\ ~connection[k].inTransaction
        /\ connection[k].rows = {} /\ connection[k].changes = {}

(* What the notify blocks are told in the last phase is true of the file:  *)
(* DidCommit only of changes that are in it, DidRollback only of changes   *)
(* that never were, also if END or a statement failed.                     *)
AnnouncementsTrue ==
    /\ announced["didCommit"] \subseteq committed
    /\ announced["didRollback"] \cap committed = {}

(* Once the blocks are registered, a client's change reaches the file only *)
(* after they have seen it (CKKS queues the upload in the same transaction *)
(* as the change itself, in WillCommit), through exits and failures.       *)
CommittedWasAnnounced ==
    \A ch \in committed \cap recorded :
        ch.by = "block" => ch \in announced["willCommit"]

(* A database is deleted only if it is corrupt, as an integrity check has  *)
(* found, or if its opened handler gave this very database up: neither a   *)
(* statement's error alone nor a marker that has been acted on, also half  *)
(* way before an exit, deletes it or the one made after it.                *)
DeletionWasAskedFor ==
    [][file' = "absent" => file # "good" \/ condemned]_secDbVars

(* Every acquisition returns and every connection comes back: no order of  *)
(* the mutex, the semaphore, db->queue, the commit queue and the engine's  *)
(* queue leaves everyone waiting, and no failure keeps a resource.         *)
EveryCallReturns ==
    \A c \in Client : pc[c] # "idle" ~> pc[c] = "idle"
=============================================================================
