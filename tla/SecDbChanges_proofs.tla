------------------------ MODULE SecDbChanges_proofs -------------------------
(***************************************************************************)
(* What SecDb tells its notify blocks, and the room in its pool, for any   *)
(* number of clients, readers, transactions, failures and exits: DidCommit *)
(* and DidRollback are true of the file, no recorded change gets into the  *)
(* file before the blocks have seen it, and a returned connection finds    *)
(* room in its cache.                                                      *)
(*                                                                         *)
(* SecDbInv of SecDb_proofs keeps the connections of clients apart.        *)
(* TransactionInv adds where the changes of an open transaction are, step  *)
(* by step; RoomInv counts idle read connections and the readers that have *)
(* taken theirs against kSecDbMaxReaders.                                  *)
(***************************************************************************)
EXTENDS SecDb_proofs

USE ClientAssumption, ConnAssumption, BoundsAssumption
    DEF ClientAssumption, ConnAssumption, BoundsAssumption

(* Where a client is in a transaction.                                     *)
TransactionSteps ==
    {"queueUp", "engine", "body", "end", "willCommit", "exec", "did"}
OfTx(t) == {ch \in Change : ch.tx = t}
ByBlock == {ch \in Change : ch.by = "block"}

(* A transaction that has not begun has left no trace.                     *)
FutureIsBlank ==
    \A ch \in Change : ch.tx > txCount =>
        /\ ch \notin recorded /\ ch \notin committed
        /\ \A p \in Phase : ch \notin announced[p]

(* The transaction of a client: what its connection holds is its own; what *)
(* is recorded of it waits in the connection until the blocks have seen    *)
(* it; nothing of it is in the file, or announced as ended, before it has. *)
TransactionInOrder(c) ==
    LET r == connection[call[c].conn]
        own == OfTx(call[c].tx)
    IN /\ call[c].conn # NoConn => r.rows \subseteq own /\ r.changes \subseteq own
       /\ call[c].tx # 0 =>
            /\ call[c].tx <= txCount /\ pc[c] \in TransactionSteps
            /\ ~call[c].readOnly /\ call[c].stage = "perform"
            /\ announced["didCommit"] \cap own = {}
            /\ announced["didRollback"] \cap own = {}
            /\ pc[c] # "did" => committed \cap own = {} /\ r.changes \subseteq r.rows
            /\ pc[c] \in {"queueUp", "engine", "body"} => recorded \cap own = {}
            /\ pc[c] \in {"end", "willCommit"} =>
                 recorded \cap own \cap ByBlock \subseteq r.changes
            /\ pc[c] = "exec" /\ call[c].commit =>
                 recorded \cap own \cap ByBlock \subseteq announced["willCommit"]
            /\ pc[c] = "did" =>
                 IF call[c].commit THEN r.changes \subseteq committed
                 ELSE committed \cap own = {}

TransactionInv ==
    /\ FutureIsBlank
    /\ \A c \in Client : TransactionInOrder(c)
    /\ AnnouncementsTrue
    /\ CommittedWasAnnounced

(* The readers that took their connection from the cache, or found none.   *)
Served ==
    {c \in Client : /\ call[c].readOnly /\ call[c].stage = "perform"
                    /\ pc[c] \in {"create", "perform", "engine", "body", "release"}}

(* The idle readers' connections and those taken are within the limit; a   *)
(* second write connection is not made while one is idle.                  *)
ReadRoom ==
    /\ IsFiniteSet(idleRead)
    /\ Cardinality(idleRead) + Cardinality(Served) <= MaxReaders
HasWriteConnection(c) ==
    ~call[c].readOnly /\ (call[c].conn # NoConn \/ pc[c] = "create")
WriteRoom ==
    /\ \A k, l \in idleWrite : k = l
    /\ \A c \in Client : HasWriteConnection(c) => idleWrite = {}

RoomInv == ReadRoom /\ WriteRoom

-----------------------------------------------------------------------------
(* While a writer is in its call, no other client has a transaction with   *)
(* changes.                                                                *)
LEMMA OtherHasNoTransaction ==
    ASSUME SecDbInv, TransactionInv, NEW c \in Client, NEW d \in Client \ {c},
           ~call[c].readOnly, pc[c] \notin {"idle", "consume"}
    PROVE  call[d].tx = 0
<1>1. writeMutex = c
  BY DEF SecDbInv, CallsInOrder, CallInOrder
<1>2. call[d].tx # 0 => writeMutex = d
  BY DEF SecDbInv, CallsInOrder, CallInOrder, TransactionInv,
     TransactionInOrder, TransactionSteps
<1> QED
  BY <1>1, <1>2

(* The call of another client, and its connection, stay as they are.       *)
Apart(c) ==
    \A d \in Client \ {c} :
        /\ call'[d] = call[d] /\ pc'[d] = pc[d]
        /\ call[d].conn # NoConn =>
             connection'[call[d].conn] = connection[call[d].conn]

(* A call without a transaction whose connection is as good as new.        *)
Blank(c) ==
    /\ call[c].tx = 0
    /\ call[c].conn # NoConn =>
         connection[call[c].conn].rows = {} /\ connection[call[c].conn].changes = {}

(* A call that goes on with its transaction.                               *)
GoesOn(c) ==
    /\ call'[c] = call[c]
    /\ call[c].conn # NoConn =>
         /\ connection'[call[c].conn].rows = connection[call[c].conn].rows
         /\ connection'[call[c].conn].changes = connection[call[c].conn].changes
    /\ \/ pc'[c] = pc[c]
       \/ pc[c] \in {"queueUp", "engine"} /\ pc'[c] \in {"engine", "body"}
       \/ pc[c] = "end"
          /\ pc'[c] = IF call[c].commit THEN "willCommit" ELSE "exec"

LEMMA CallGoesOn ==
    ASSUME SecDbInv, NEW c \in Client, TransactionInOrder(c), GoesOn(c),
           UNCHANGED history
    PROVE  TransactionInOrder(c)'
<1>1. call[c].tx # 0 => call[c].conn # NoConn
  BY DEF TransactionInOrder, TransactionSteps, SecDbInv, CallsInOrder, CallInOrder,
     HoldsConnection
<1> QED
  BY <1>1 DEF TransactionInOrder, TransactionSteps, GoesOn, history

(* A step of one call that leaves the history alone.                       *)
LEMMA CallStep ==
    ASSUME SecDbInv, TransactionInv, NEW c \in Client, Apart(c),
           UNCHANGED history, Blank(c)' \/ GoesOn(c)
    PROVE  TransactionInv'
<1>1. FutureIsBlank' /\ AnnouncementsTrue' /\ CommittedWasAnnounced'
  BY DEF TransactionInv, FutureIsBlank, AnnouncementsTrue, CommittedWasAnnounced,
     history
<1>2. \A d \in Client \ {c} : TransactionInOrder(d)'
  <2> SUFFICES ASSUME NEW d \in Client \ {c} PROVE TransactionInOrder(d)'
    OBVIOUS
  <2>1. GoesOn(d)
    BY DEF Apart, GoesOn
  <2> QED
    BY <2>1, CallGoesOn DEF TransactionInv
<1>3. TransactionInOrder(c)'
  <2>1. CASE Blank(c)'
    BY <2>1 DEF Blank, TransactionInOrder
  <2>2. CASE GoesOn(c)
    BY <2>2, CallGoesOn DEF TransactionInv
  <2> QED
    BY <2>1, <2>2
<1> QED
  BY <1>1, <1>2, <1>3 DEF TransactionInv

(* A client outside a transaction has none.                                *)
LEMMA OutsideIsBlank ==
    ASSUME SecDbInv, TransactionInv, NEW c \in Client,
           \/ pc[c] \notin TransactionSteps
           \/ call[c].readOnly
           \/ call[c].stage # "perform"
    PROVE  call[c].tx = 0 /\ Blank(c)
<1>1. call[c].tx = 0
  BY DEF TransactionInv, TransactionInOrder
<1>2. OfTx(0) = {}
  BY DEF OfTx, Change
<1> QED
  BY <1>1, <1>2 DEF TransactionInv, TransactionInOrder, Blank

(* Steps of an acquisition that get no connection.                         *)
LEMMA WithoutConnection ==
    ASSUME SecDbInv, TransactionInv, NEW c \in Client,
           \/ Request(c) \/ ConsumeResource(c) \/ EnterFirstOpen(c)
           \/ ProcessMarker(c) \/ RemoveDatabase(c)
           \/ AcquireFailed(c) \/ Signal(c)
    PROVE  TransactionInv'
<1>1. call[c].tx = 0 /\ call[c].conn = NoConn
  BY OutsideIsBlank DEF TransactionSteps, Request, ConsumeResource, EnterFirstOpen,
     ProcessMarker, RemoveDatabase, AcquireFailed, Signal, SecDbInv, CallsInOrder,
     CallInOrder, HoldsConnection
<1>2. call'[c].tx = 0 /\ call'[c].conn = NoConn
  <2>1. CASE FirstOpenFails(c)
    BY <1>1, <2>1, FirstOpenFailsEffect
  <2>2. CASE ~FirstOpenFails(c)
    BY <1>1, <2>2 DEF Request, ConsumeResource, EnterFirstOpen, ProcessMarker,
       RemoveDatabase, AcquireFailed, Signal, NoCall, callVars, SecDbInv, CallsTyped,
       CallType
  <2> QED
    BY <2>1, <2>2
<1>3. Blank(c)'
  BY <1>2 DEF Blank
<1>4. Apart(c) /\ UNCHANGED history
  BY DEF Request, ConsumeResource, EnterFirstOpen, ProcessMarker, RemoveDatabase,
     FirstOpenFails, AcquireFailed, Signal, Goto, Apart, pool, history, SecDbInv,
     CallsTyped
<1> QED
  BY <1>3, <1>4, CallStep

LEMMA TakenHasNoTransaction ==
    ASSUME SecDbInv, NEW c \in Client, call[c].tx = 0, NEW cache, NEW ran,
           TakesFromCache(c, cache, ran)
    PROVE  call'[c].tx = 0
<1>1. call[c] \in CallType /\ call \in [Client -> CallType]
  BY DEF SecDbInv, CallsTyped
<1>2. \E k : call' = [call EXCEPT ![c] =
                        [@ EXCEPT !.conn = k, !.stage = "perform", !.commit = FALSE]]
  BY DEF TakesFromCache
<1> QED
  BY <1>1, <1>2 DEF CallType

(* A connection from the cache is blank, and so is a new one.              *)
LEMMA FromCache ==
    ASSUME SecDbInv, TransactionInv, NEW c \in Client,
           EnterQueue(c) \/ FirstOpenDone(c)
    PROVE  TransactionInv'
<1>1. call[c].tx = 0 /\ Blank(c)
  BY OutsideIsBlank DEF TransactionSteps, EnterQueue, FirstOpenDone
<1>2. /\ \A k \in idleRead \cup idleWrite :
            connection[k].rows = {} /\ connection[k].changes = {}
  BY DEF SecDbInv, ConnectionsInOrder, Clean
<1>3. UNCHANGED <<connection, history>>
  BY DEF EnterQueue, FirstOpenDone
<1>4. CASE EnterQueue(c)
  <2>1. TakesFromCache(c, idleWrite, FALSE)
    BY <1>4 DEF EnterQueue
  <2>2. TookConnection(c, idleWrite)
    BY <2>1, TakesFromCacheEffect DEF SecDbInv, PoolTyped
  <2>3. call'[c].tx = 0
    BY <1>1, <2>1, TakenHasNoTransaction
  <2> QED
    BY <1>2, <1>3, <2>2, <2>3, CallStep DEF TookConnection, Apart, Blank
<1>5. CASE FirstOpenDone(c)
  <2>0. call[c].conn \in Conn /\ call[c].conn # NoConn
    BY <1>5 DEF FirstOpenDone, SecDbInv, CallsTyped, CallType, CallsInOrder, CallInOrder,
       HoldsConnection
  <2>1. TakesFromCache(c, idleWrite \cup {call[c].conn}, TRUE)
    BY <1>5 DEF FirstOpenDone
  <2>2. TookConnection(c, idleWrite \cup {call[c].conn})
    BY <2>0, <2>1, TakesFromCacheEffect DEF SecDbInv, PoolTyped
  <2>3. call'[c].tx = 0
    BY <1>1, <2>1, TakenHasNoTransaction
  <2> QED
    BY <1>1, <1>2, <1>3, <2>0, <2>2, <2>3, CallStep DEF TookConnection, Apart, Blank
<1> QED
  BY <1>4, <1>5

LEMMA NewlyMade ==
    ASSUME SecDbInv, TransactionInv, NEW c \in Client, FirstOpen(c) \/ Create(c)
    PROVE  TransactionInv'
<1>1. call[c].tx = 0 /\ Blank(c)
  BY OutsideIsBlank DEF TransactionSteps, FirstOpen, Create
<1>2. UNCHANGED history
  BY DEF FirstOpen, Create
<1>3. call[c].conn = NoConn
  BY DEF FirstOpen, Create, SecDbInv, CallsInOrder, CallInOrder, HoldsConnection
<1>4. CASE /\ UNCHANGED connection /\ call'[c].conn = NoConn /\ call'[c].tx = 0
           /\ \A d \in Client \ {c} : call'[d] = call[d] /\ pc'[d] = pc[d]
  BY <1>2, <1>4, CallStep DEF Apart, Blank
<1>5. CASE /\ ~(Conn \subseteq InUse)
           /\ \E ro \in BOOLEAN :
                connection' = [connection EXCEPT ![Spare] = NewConnection(ro)]
           /\ call'[c].conn = Spare /\ call'[c].tx = 0
           /\ \A d \in Client \ {c} : call'[d] = call[d] /\ pc'[d] = pc[d]
  <2>1. Spare \in Conn /\ \A d \in Client : call[d].conn # Spare
    BY <1>5, SpareIsFree
  <2>2. Apart(c)
    BY <1>5, <2>1 DEF Apart, SecDbInv, PoolTyped, CallsTyped, CallType
  <2>3. Blank(c)'
    BY <1>5, <2>1 DEF Blank, NewConnection, SecDbInv, PoolTyped
  <2> QED
    BY <1>2, <2>2, <2>3, CallStep
<1>6. call[c] \in CallType /\ call \in [Client -> CallType] /\ pc \in [Client -> Labels]
  BY DEF SecDbInv, CallsTyped
<1>7. CASE FirstOpen(c)
  <2>1. CASE FirstOpenFails(c) /\ UNCHANGED connection
    BY <1>1, <1>4, <1>6, <2>1 DEF FirstOpenFails, Goto, CallType
  <2>2. CASE /\ ~(Conn \subseteq InUse)
             /\ connection' = [connection EXCEPT ![Spare] = NewConnection(FALSE)]
             /\ call' = [call EXCEPT ![c] =
                           [@ EXCEPT !.conn = Spare, !.stage = "firstOpen"]]
             /\ Goto(c, "begin")
    BY <1>1, <1>5, <1>6, <2>2 DEF Goto, CallType
  <2> QED
    BY <1>7, <2>1, <2>2 DEF FirstOpen
<1>8. CASE Create(c)
  BY <1>1, <1>3, <1>4, <1>5, <1>6, <1>8 DEF Create, Goto, CallType
<1> QED
  BY <1>7, <1>8

(* Giving a connection back, and destroying those in the pool.             *)
LEMMA GivenBack ==
    ASSUME SecDbInv, TransactionInv, NEW c \in Client, OpenedFails(c) \/ Release(c)
    PROVE  TransactionInv'
<1>1. call[c].tx = 0
  BY OutsideIsBlank DEF TransactionSteps, OpenedFails, Release, Releases
<1>2. UNCHANGED history
  BY DEF OpenedFails, Release
<1>3. call'[c].tx = 0 /\ call'[c].conn = NoConn
  <2>1. CASE OpenedFails(c)
    BY <1>1, <2>1, FirstOpenFailsEffect DEF OpenedFails
  <2>2. CASE Release(c)
    BY <1>1, <2>2 DEF Release, SecDbInv, CallsTyped, CallType
  <2> QED
    BY <2>1, <2>2
<1>4. Apart(c)
  <2>1. call[c].conn # NoConn
    BY DEF OpenedFails, Release, Releases, SecDbInv, CallsInOrder, CallInOrder,
       HoldsConnection
  <2>2. \A d \in Client \ {c} : call[d].conn # NoConn =>
          call[d].conn \in Conn /\ call[d].conn \notin idleRead \cup idleWrite \cup {call[c].conn}
    BY <2>1 DEF SecDbInv, PoolInOrder, CallsTyped, CallType
  <2> QED
    BY <2>2 DEF OpenedFails, FirstOpenFails, Release, Destroy, Goto, Apart, SecDbInv,
       CallsTyped
<1> QED
  BY <1>2, <1>3, <1>4, CallStep DEF Blank

(* Steps of a call that keeps its connection, outside a transaction or     *)
(* between its steps.                                                      *)
LEMMA KeepsConnection ==
    ASSUME SecDbInv, TransactionInv, NEW c \in Client,
           \/ OpenedAgainDone(c) \/ CheckHandler(c) \/ Read(c)
           \/ EnterCommitQueue(c) \/ EnterEngine(c) \/ EndTransaction(c)
    PROVE  TransactionInv'
<1>1. UNCHANGED history
  BY DEF OpenedAgainDone, CheckHandler, Read, EnterCommitQueue, EnterEngine,
     EndTransaction
<1>2. CASE EnterCommitQueue(c) \/ EnterEngine(c) \/ EndTransaction(c)
  <2>1. Apart(c)
    BY <1>2 DEF EnterCommitQueue, EnterEngine, EndTransaction, Goto, pool, Apart,
       SecDbInv, CallsTyped
  <2>2. CASE pc[c] # "perform"
    BY <1>1, <1>2, <2>1, <2>2, CallStep DEF EnterCommitQueue, EnterEngine,
       EndTransaction, Goto, pool, GoesOn, SecDbInv, CallsTyped
  <2>3. CASE pc[c] = "perform"
    <3>1. Blank(c)
      BY <2>3, OutsideIsBlank DEF TransactionSteps
    <3>2. Blank(c)'
      BY <1>2, <3>1 DEF EnterCommitQueue, EnterEngine, EndTransaction, pool, Blank
    <3> QED
      BY <1>1, <2>1, <3>2, CallStep
  <2> QED
    BY <2>2, <2>3
<1>3. CASE OpenedAgainDone(c) \/ CheckHandler(c)
  <2>1. Apart(c)
    BY <1>3 DEF OpenedAgainDone, CheckHandler, Goto, pool, Apart, SecDbInv, CallsTyped
  <2>2. Blank(c)
    BY <1>3, OutsideIsBlank DEF OpenedAgainDone, CheckHandler, TransactionSteps
  <2>3. Blank(c)'
    <3>1. /\ call'[c].tx = call[c].tx /\ call'[c].conn = call[c].conn
          /\ UNCHANGED connection
      BY <1>3, OpenedAgainDoneEffect DEF OpenedAgainDone, CheckHandler, pool, SecDbInv,
         CallsTyped, CallType
    <3> QED
      BY <2>2, <3>1 DEF Blank
  <2> QED
    BY <1>1, <2>1, <2>3, CallStep
<1>4. CASE Read(c)
  <2>1. Blank(c)
    BY <1>4, OutsideIsBlank DEF Read, TransactionSteps
  <2>2. call' = call /\ \A d \in Client \ {c} : pc'[d] = pc[d]
    BY <1>4 DEF Read, Goto, SecDbInv, CallsTyped
  <2>3. call[c].conn \in Conn /\ call[c].conn # NoConn
    BY <1>4 DEF Read, SecDbInv, CallsTyped, CallType, CallsInOrder, CallInOrder,
       HoldsConnection
  <2>4. \/ UNCHANGED connection
        \/ \E r \in ConnectionType :
             /\ connection' = [connection EXCEPT ![call[c].conn] = r]
             /\ Alike(r, connection[call[c].conn])
    BY <1>4, <2>3, StatementFailsEffect DEF Read, SecDbInv
  <2>5. Apart(c) /\ Blank(c)'
    BY <2>1, <2>2, <2>3, <2>4 DEF Alike, Apart, Blank, SecDbInv, PoolTyped, PoolInOrder,
       CallsTyped, CallType
  <2> QED
    BY <1>1, <2>5, CallStep
<1> QED
  BY <1>2, <1>3, <1>4

(* Steps of nobody's call, and the end of a process.                       *)
LEMMA NobodysStep ==
    ASSUME SecDbInv, TransactionInv,
           \/ ReleaseAllConnections \/ AddNotifyPhaseBlock \/ BitRot \/ Exit
           \/ \E c \in Client : HandleCorrupt(c) \/ OpenedGivesUp(c)
           \/ UNCHANGED secDbVars
    PROVE  TransactionInv'
<1>1. UNCHANGED history
  BY DEF ReleaseAllConnections, AddNotifyPhaseBlock, BitRot, Exit, HandleCorrupt,
     OpenedGivesUp, LeavesMarker, secDbVars
<1>2. FutureIsBlank' /\ AnnouncementsTrue' /\ CommittedWasAnnounced'
  BY <1>1 DEF TransactionInv, FutureIsBlank, AnnouncementsTrue, CommittedWasAnnounced,
     history
<1>3. ASSUME NEW c \in Client PROVE TransactionInOrder(c)'
  <2>1. CASE ProcessExits
    <3>1. call'[c].tx = 0 /\ call'[c].conn = NoConn
      BY <2>1 DEF ProcessExits, NoCalls, NoCall
    <3> QED
      BY <3>1 DEF TransactionInOrder
  <2>2. CASE ReleaseAllConnections \/ AddNotifyPhaseBlock \/ BitRot \/ UNCHANGED secDbVars
    <3>1. call' = call /\ pc' = pc
      BY <2>2 DEF ReleaseAllConnections, AddNotifyPhaseBlock, BitRot, secDbVars, callVars
    <3>2. call[c].conn # NoConn => connection'[call[c].conn] = connection[call[c].conn]
      BY <2>2 DEF ReleaseAllConnections, AddNotifyPhaseBlock, BitRot, secDbVars, pool,
         Destroy, SecDbInv, PoolInOrder, PoolTyped, CallsTyped, CallType
    <3>3. GoesOn(c)
      BY <3>1, <3>2 DEF GoesOn
    <3> QED
      BY <1>1, <3>3, CallGoesOn DEF TransactionInv
  <2> QED
    BY <2>1, <2>2 DEF Exit, HandleCorrupt, OpenedGivesUp, LeavesMarker
<1> QED
  BY <1>2, <1>3 DEF TransactionInv

(* A step of a writer, or of an opened handler, in its transaction.        *)
LEMMA WritersStep ==
    ASSUME SecDbInv, TransactionInv, NEW c \in Client, Apart(c),
           ~call[c].readOnly, pc[c] \notin {"idle", "consume"},
           FutureIsBlank', AnnouncementsTrue', CommittedWasAnnounced',
           TransactionInOrder(c)'
    PROVE  TransactionInv'
<1>1. ASSUME NEW d \in Client \ {c} PROVE TransactionInOrder(d)'
  <2>1. call[d].tx = 0
    BY OtherHasNoTransaction
  <2>2. OfTx(0) = {}
    BY DEF OfTx, Change
  <2>3. Blank(d)
    BY <2>1, <2>2 DEF TransactionInv, TransactionInOrder, Blank
  <2>4. Blank(d)'
    BY <2>3 DEF Apart, Blank
  <2> QED
    BY <2>4 DEF Blank, TransactionInOrder
<1> QED
  BY <1>1 DEF TransactionInv

(* The place of a call in its transaction, and its connection.             *)
LEMMA InTransaction ==
    ASSUME SecDbInv, TransactionInv, NEW c \in Client, pc[c] \in HoldsConnection
    PROVE  /\ call[c].conn \in Conn /\ call[c].conn # NoConn
           /\ call[c] \in CallType /\ connection[call[c].conn] \in ConnectionType
           /\ call \in [Client -> CallType] /\ pc \in [Client -> Labels]
           /\ connection \in [Conn -> ConnectionType]
           /\ TransactionInOrder(c) /\ CallInOrder(c)
           /\ \A d \in Client \ {c} : call[d].conn # call[c].conn
           /\ \A d \in Client : call[d].conn # NoConn => call[d].conn \in Conn
BY DEF SecDbInv, CallsTyped, PoolTyped, CallsInOrder, CallInOrder, PoolInOrder,
   TransactionInv, CallType

(* BEGIN: a writer's transaction gets a number nobody has used.            *)
LEMMA BeginTransactionStep ==
    ASSUME SecDbInv, TransactionInv, NEW c \in Client, BeginTransaction(c)
    PROVE  TransactionInv'
<1> DEFINE k == call[c].conn
<1>1. pc[c] \in HoldsConnection /\ pc[c] \notin TransactionSteps
  BY DEF BeginTransaction, HoldsConnection, TransactionSteps
<1>2. Blank(c) /\ call[c].tx = 0
  BY <1>1, OutsideIsBlank
<1>3. PICK s \in Source, tx \in 0 .. MaxTx :
        /\ Begins(c, s, tx)
        /\ \/ tx = 0 /\ UNCHANGED txCount
           \/ /\ pc[c] = "perform" /\ ~call[c].readOnly
              /\ txCount' = txCount + 1 /\ tx = txCount + 1
  <2>1. CASE pc[c] = "begin" /\ Begins(c, "api", 0) /\ UNCHANGED txCount
    BY <2>1 DEF Source
  <2>2. CASE /\ pc[c] = "perform" /\ ~call[c].readOnly
             /\ txCount < MaxTx /\ txCount' = txCount + 1
             /\ \E s \in {"api", "sos", "ckks"} : Begins(c, s, txCount + 1)
    <3>1. PICK s \in {"api", "sos", "ckks"} : Begins(c, s, txCount + 1)
      BY <2>2
    <3>2. s \in Source /\ txCount + 1 \in 0 .. MaxTx
      BY <2>2 DEF Source, SecDbInv, HistoryTyped
    <3> QED
      BY <2>2, <3>1, <3>2
  <2> QED
    BY <2>1, <2>2 DEF BeginTransaction
<1>4. UNCHANGED <<recorded, committed, announced>>
  BY DEF BeginTransaction
<1>5. /\ connection'[k].rows = {} /\ connection'[k].changes = {}
      /\ \A j \in Conn \ {k} : connection'[j] = connection[j]
  <2>1. connection[k].rows = {} /\ connection[k].changes = {}
    BY <1>1, <1>2, InTransaction DEF Blank
  <2> DEFINE begun == [connection[k] EXCEPT !.source = IF s = "api" THEN @ ELSE s]
  <2>2. begun.rows = {} /\ begun.changes = {} /\ begun \in ConnectionType
    BY <1>1, <2>1, InTransaction DEF ConnectionType, Source
  <2> HIDE DEF begun
  <2>3. \/ connection' = [connection EXCEPT ![k] = [begun EXCEPT !.inTransaction = TRUE]]
        \/ \E io \in BOOLEAN : connection' =
             [connection EXCEPT ![k] = [begun EXCEPT !.hasIOFailure = @ \/ io]]
    BY <1>3 DEF Begins, begun
  <2>4. ASSUME NEW io, connection' = [connection EXCEPT ![k] =
                                        [begun EXCEPT !.hasIOFailure = @ \/ io]]
        PROVE  /\ connection'[k].rows = {} /\ connection'[k].changes = {}
               /\ \A j \in Conn \ {k} : connection'[j] = connection[j]
    <3> DEFINE f == begun.hasIOFailure \/ io
    <3>1. connection' = [connection EXCEPT ![k] = [begun EXCEPT !.hasIOFailure = f]]
      BY <2>4
    <3> HIDE DEF f
    <3> QED
      BY <1>1, <2>2, <3>1, InTransaction DEF ConnectionType
  <2>5. CASE connection' = [connection EXCEPT ![k] = [begun EXCEPT !.inTransaction = TRUE]]
    BY <1>1, <2>2, <2>5, InTransaction DEF ConnectionType
  <2> QED
    BY <2>3, <2>4, <2>5
<1>6. /\ call'[c].tx \in {0, tx} /\ call'[c].conn = k
      /\ call'[c].readOnly = call[c].readOnly /\ call'[c].stage = call[c].stage
      /\ \A d \in Client \ {c} : call'[d] = call[d] /\ pc'[d] = pc[d]
      /\ call'[c].tx # 0 => pc'[c] \in {"queueUp", "body"}
  BY <1>2, <1>3, BeginsEffect DEF SecDbInv
<1>7. Apart(c)
  BY <1>1, <1>5, <1>6, InTransaction DEF Apart
<1>8. CASE tx = 0 /\ UNCHANGED txCount
  BY <1>1, <1>4, <1>5, <1>6, <1>7, <1>8, CallStep DEF Blank, history
<1>9. CASE /\ pc[c] = "perform" /\ ~call[c].readOnly
           /\ txCount' = txCount + 1 /\ tx = txCount + 1
  <2>1. FutureIsBlank'
    BY <1>4, <1>9 DEF TransactionInv, FutureIsBlank, SecDbInv, HistoryTyped, Change
  <2>2. AnnouncementsTrue' /\ CommittedWasAnnounced'
    BY <1>4 DEF TransactionInv, AnnouncementsTrue, CommittedWasAnnounced
  <2>3. \A ch \in OfTx(txCount + 1) :
          /\ ch \notin recorded /\ ch \notin committed
          /\ ch \notin announced["didCommit"] /\ ch \notin announced["didRollback"]
    BY DEF TransactionInv, FutureIsBlank, SecDbInv, HistoryTyped, Change, OfTx, Phase
  <2>4. call[c].stage = "perform"
    BY <1>1, <1>9, InTransaction DEF CallInOrder
  <2>5. TransactionInOrder(c)'
    BY <1>1, <1>4, <1>5, <1>6, <1>9, <2>3, <2>4, InTransaction
    DEF TransactionInOrder, TransactionSteps, SecDbInv, HistoryTyped
  <2> QED
    BY <1>7, <1>9, <2>1, <2>2, <2>5, WritersStep
<1> QED
  BY <1>3, <1>8, <1>9

(* The block: what it writes is of its own transaction.                    *)
LEMMA RunBlockStep ==
    ASSUME SecDbInv, TransactionInv, NEW c \in Client, RunBlock(c)
    PROVE  TransactionInv'
<1> DEFINE k == call[c].conn
           own == OfTx(call[c].tx)
<1>1. pc[c] = "body" /\ pc[c] \in HoldsConnection
      /\ UNCHANGED <<idleRead, idleWrite, committed, announced, txCount>>
  BY DEF RunBlock, HoldsConnection
<1>2. Written(c) \subseteq own /\ Recorded(c) \subseteq Written(c)
  BY <1>1, InTransaction DEF Written, Recorded, OfTx, Change, CallType
<1> DEFINE Adds(w, l) ==
             /\ connection'[k].rows = connection[k].rows \cup w
             /\ connection'[k].changes = connection[k].changes \cup l
             /\ recorded' = recorded \cup l
             /\ \A j \in Conn \ {k} : connection'[j] = connection[j]
<1>3. Adds({}, {}) \/ Adds(Written(c), Recorded(c))
  <2>1. CASE UNCHANGED <<connection, recorded>>
    BY <2>1
  <2>2. CASE /\ connection' = [connection EXCEPT ![k] =
                                 [@ EXCEPT !.rows = connection[k].rows \cup Written(c),
                                           !.changes =
                                             connection[k].changes \cup Recorded(c)]]
             /\ recorded' = recorded \cup Recorded(c)
    BY <1>1, <1>2, <2>2, InTransaction DEF ConnectionType
  <2>3. CASE StatementFails(c) /\ UNCHANGED recorded
    <3>1. PICK r \in ConnectionType :
             /\ connection' = [connection EXCEPT ![k] = r]
             /\ Alike(r, connection[k])
      BY <1>1, <2>3, InTransaction, StatementFailsEffect DEF SecDbInv
    <3> QED
      BY <1>1, <2>3, <3>1, InTransaction DEF Alike
  <2> QED
    BY <2>1, <2>2, <2>3 DEF RunBlock
<1> HIDE DEF Adds
<1>4. PICK w \in SUBSET Written(c), l \in SUBSET Recorded(c) : Adds(w, l) /\ l \subseteq w
  BY <1>2, <1>3
<1>5. /\ call'[c].tx = call[c].tx /\ call'[c].conn = k
      /\ call'[c].readOnly = call[c].readOnly /\ call'[c].stage = call[c].stage
      /\ \A d \in Client \ {c} : call'[d] = call[d] /\ pc'[d] = pc[d]
      /\ pc'[c] = "end" \/ (call[c].readOnly /\ call[c].stage = "perform")
  <2>1. \/ UNCHANGED call
        \/ \E b \in BOOLEAN : call' = [call EXCEPT ![c].commit = b]
    BY DEF RunBlock
  <2>2. /\ call'[c].tx = call[c].tx /\ call'[c].conn = k
        /\ call'[c].readOnly = call[c].readOnly /\ call'[c].stage = call[c].stage
        /\ \A d \in Client \ {c} : call'[d] = call[d]
    BY <1>1, <2>1, InTransaction DEF CallType
  <2>3. \/ pc' = [pc EXCEPT ![c] = "end"]
        \/ pc' = [pc EXCEPT ![c] = "release"] /\ call[c].readOnly /\ call[c].stage = "perform"
    BY DEF RunBlock, Goto
  <2>4. /\ pc'[c] = "end" \/ (call[c].readOnly /\ call[c].stage = "perform")
        /\ \A d \in Client \ {c} : pc'[d] = pc[d]
    <3>1. pc \in [Client -> Labels]
      BY DEF SecDbInv, CallsTyped
    <3>2. ASSUME NEW label, pc' = [pc EXCEPT ![c] = label]
          PROVE  pc'[c] = label /\ \A d \in Client \ {c} : pc'[d] = pc[d]
      BY <3>1, <3>2
    <3> QED
      BY <2>3, <3>2
  <2> QED
    BY <2>2, <2>4
<1>6. Apart(c)
  BY <1>1, <1>4, <1>5, InTransaction DEF Adds, Apart
<1>7. CASE call[c].tx = 0
  <2>1. w = {} /\ l = {}
    BY <1>2, <1>7 DEF Written
  <2>2. Blank(c)'
    BY <1>1, <1>4, <1>5, <1>7, <2>1, InTransaction DEF Adds, TransactionInOrder, Blank, OfTx, Change
  <2> QED
    BY <1>1, <1>4, <1>6, <2>1, <2>2, CallStep DEF Adds, history
<1>8. CASE call[c].tx # 0
  <2>1. FutureIsBlank'
    BY <1>1, <1>2, <1>4, <1>8, InTransaction
    DEF Adds, TransactionInv, FutureIsBlank, TransactionInOrder, OfTx, SecDbInv, HistoryTyped,
        CallType
  <2>2. AnnouncementsTrue' /\ CommittedWasAnnounced'
    BY <1>1, <1>2, <1>4, <1>8, InTransaction
    DEF Adds, TransactionInv, AnnouncementsTrue, CommittedWasAnnounced, TransactionInOrder
  <2>3. TransactionInOrder(c)'
    BY <1>1, <1>2, <1>4, <1>5, <1>8, InTransaction DEF Adds, TransactionInOrder, TransactionSteps
  <2> QED
    BY <1>1, <1>6, <1>8, <2>1, <2>2, <2>3, InTransaction, WritersStep DEF TransactionInOrder
<1> QED
  BY <1>7, <1>8

(* WillCommit: the blocks see what is recorded, and may record more.       *)
LEMMA WillCommitStep ==
    ASSUME SecDbInv, TransactionInv, NEW c \in Client, WillCommit(c)
    PROVE  TransactionInv'
<1> DEFINE k == call[c].conn
           own == OfTx(call[c].tx)
<1>1. /\ pc[c] = "willCommit" /\ pc[c] \in HoldsConnection
      /\ pc' = [pc EXCEPT ![c] = "exec"]
      /\ UNCHANGED <<call, idleRead, idleWrite, committed, txCount>>
  BY DEF WillCommit, Goto, HoldsConnection
<1>2. PICK more \in SUBSET {[tx |-> call[c].tx, by |-> "notify"]} :
        more \subseteq Change /\ NotifyPhase(c, "willCommit", more)
  BY DEF WillCommit
<1>3. more \subseteq own \ ByBlock
  BY <1>2 DEF OfTx, ByBlock
<1>4. \/ /\ announced' = [announced EXCEPT !["willCommit"] = @ \cup connection[k].changes]
         /\ connection'[k].changes = more
         /\ connection'[k].rows = connection[k].rows \cup more
         /\ recorded' = recorded \cup more
         /\ \A j \in Conn \ {k} : connection'[j] = connection[j]
      \/ connection[k].changes = {} /\ UNCHANGED <<announced, connection, recorded>>
  <2>1. CASE /\ announced' = [announced EXCEPT !["willCommit"] = @ \cup connection[k].changes]
             /\ connection' = [connection EXCEPT ![k] =
                                 [@ EXCEPT !.changes = more,
                                           !.rows = connection[k].rows \cup more]]
             /\ recorded' = recorded \cup more
    BY <1>1, <2>1, InTransaction DEF ConnectionType
  <2>2. ~notify => connection[k].changes = {}
    BY <1>1, InTransaction DEF SecDbInv, ConnectionsInOrder
  <2> QED
    BY <1>2, <2>1, <2>2 DEF NotifyPhase
<1>5. Apart(c)
  BY <1>1, <1>4, InTransaction DEF Apart
<1>6. CASE call[c].tx = 0
  <2>1. own = {} /\ connection[k].changes = {} /\ connection[k].rows = {}
    BY <1>1, <1>6, InTransaction DEF TransactionInOrder, OfTx, Change
  <2>2. more = {} /\ announced' = announced /\ recorded' = recorded
    BY <1>3, <1>4, <2>1 DEF SecDbInv, HistoryTyped, Phase
  <2>3. Blank(c)'
    BY <1>1, <1>4, <1>6, <2>1, <2>2 DEF Blank
  <2> QED
    BY <1>1, <1>5, <2>2, <2>3, CallStep DEF history
<1>7. CASE call[c].tx # 0
  <2>1. /\ announced'["didCommit"] = announced["didCommit"]
        /\ announced'["didRollback"] = announced["didRollback"]
        /\ announced'["willCommit"] \subseteq announced["willCommit"] \cup own
        /\ announced["willCommit"] \subseteq announced'["willCommit"]
        /\ connection[k].changes \subseteq announced'["willCommit"]
    BY <1>1, <1>4, <1>7, InTransaction DEF TransactionInOrder, SecDbInv, HistoryTyped, Phase
  <2>2. recorded' \subseteq recorded \cup (own \ ByBlock) /\ recorded \subseteq recorded'
    BY <1>3, <1>4
  <2>3. FutureIsBlank'
    BY <1>1, <1>7, <2>1, <2>2, InTransaction
    DEF TransactionInv, FutureIsBlank, TransactionInOrder, OfTx, SecDbInv, HistoryTyped,
        CallType, Phase
  <2>4. AnnouncementsTrue' /\ CommittedWasAnnounced'
    BY <1>1, <1>7, <2>1, <2>2, InTransaction
    DEF TransactionInv, AnnouncementsTrue, CommittedWasAnnounced, TransactionInOrder
  <2>5. connection'[k].changes \subseteq connection'[k].rows
        /\ connection'[k].rows \subseteq own
    BY <1>1, <1>3, <1>4, <1>7, InTransaction DEF TransactionInOrder
  <2>6. TransactionInOrder(c)'
    BY <1>1, <1>7, <2>1, <2>2, <2>5, InTransaction DEF TransactionInOrder, TransactionSteps
  <2> QED
    BY <1>1, <1>5, <1>7, <2>3, <2>4, <2>6, InTransaction, WritersStep DEF TransactionInOrder
<1> QED
  BY <1>6, <1>7

(* END: the changes of the transaction are in the file, or none is.        *)
LEMMA ExecEndStep ==
    ASSUME SecDbInv, TransactionInv, NEW c \in Client, ExecEnd(c)
    PROVE  TransactionInv'
<1> DEFINE k == call[c].conn
           own == OfTx(call[c].tx)
<1>1. /\ pc[c] = "exec" /\ pc[c] \in HoldsConnection
      /\ pc' = [pc EXCEPT ![c] = "did"]
      /\ connection' = [connection EXCEPT ![k] =
                          [@ EXCEPT !.rows = {}, !.inTransaction = FALSE]]
      /\ UNCHANGED <<idleRead, idleWrite, recorded, announced, txCount>>
  BY DEF ExecEnd, Goto, HoldsConnection
<1>2. /\ connection'[k].rows = {} /\ connection'[k].changes = connection[k].changes
      /\ \A j \in Conn \ {k} : connection'[j] = connection[j]
  BY <1>1, InTransaction DEF ConnectionType
<1>3. /\ call'[c].tx = call[c].tx /\ call'[c].conn = k
      /\ call'[c].readOnly = call[c].readOnly /\ call'[c].stage = call[c].stage
      /\ \A d \in Client \ {c} : call'[d] = call[d]
      /\ \/ call[c].commit /\ call'[c].commit /\ committed' = committed \cup connection[k].rows
         \/ ~call'[c].commit /\ committed' = committed
  <2>1. CASE call[c].commit /\ committed' = committed \cup connection[k].rows /\ UNCHANGED call
    BY <1>1, <2>1, InTransaction
  <2>2. CASE call[c].commit /\ call' = [call EXCEPT ![c].commit = FALSE] /\ UNCHANGED committed
    BY <1>1, <2>2, InTransaction DEF CallType
  <2>3. CASE ~call[c].commit /\ UNCHANGED <<call, committed>>
    BY <1>1, <2>3, InTransaction
  <2> QED
    BY <2>1, <2>2, <2>3 DEF ExecEnd
<1>4. Apart(c)
  BY <1>1, <1>2, <1>3, InTransaction DEF Apart
<1>5. CASE call[c].tx = 0
  <2>1. connection[k].rows = {} /\ connection[k].changes = {}
    BY <1>1, <1>5, InTransaction DEF TransactionInOrder, OfTx, Change
  <2>2. Blank(c)' /\ committed' = committed
    BY <1>2, <1>3, <1>5, <2>1 DEF Blank
  <2> QED
    BY <1>1, <1>4, <2>2, CallStep DEF history
<1>6. CASE call[c].tx # 0
  <2>1. /\ connection[k].changes \subseteq connection[k].rows
        /\ connection[k].rows \subseteq own /\ committed \cap own = {}
        /\ call[c].tx <= txCount
        /\ announced["didRollback"] \cap own = {}
        /\ call[c].commit => recorded \cap own \cap ByBlock \subseteq announced["willCommit"]
    BY <1>1, <1>6, InTransaction DEF TransactionInOrder
  <2>2. FutureIsBlank'
    BY <1>1, <1>3, <2>1, InTransaction
    DEF TransactionInv, FutureIsBlank, OfTx, SecDbInv, HistoryTyped, CallType
  <2>3. AnnouncementsTrue'
    BY <1>1, <1>3, <2>1 DEF TransactionInv, AnnouncementsTrue
  <2>4. CommittedWasAnnounced'
    BY <1>1, <1>3, <2>1 DEF TransactionInv, CommittedWasAnnounced, ByBlock, OfTx
  <2>5. TransactionInOrder(c)'
    <3>1. pc'[c] = "did"
      BY <1>1 DEF SecDbInv, CallsTyped
    <3>2. IF call'[c].commit THEN connection[k].changes \subseteq committed'
          ELSE committed' \cap own = {}
      BY <1>3, <2>1
    <3> QED
      BY <1>1, <1>2, <1>3, <1>6, <2>1, <3>1, <3>2, InTransaction
      DEF TransactionInOrder, TransactionSteps
  <2> QED
    BY <1>1, <1>4, <1>6, <2>2, <2>3, <2>4, <2>5, InTransaction, WritersStep
    DEF TransactionInOrder
<1> QED
  BY <1>5, <1>6

(* The last phase tells what became of the changes.                        *)
LEMMA DidEndStep ==
    ASSUME SecDbInv, TransactionInv, NEW c \in Client, DidEnd(c)
    PROVE  TransactionInv'
<1> DEFINE k == call[c].conn
           own == OfTx(call[c].tx)
           phase == IF call[c].commit THEN "didCommit" ELSE "didRollback"
           told == connection[k].changes # {} /\ notify
<1>1. /\ pc[c] = "did" /\ pc[c] \in HoldsConnection
      /\ announced' = IF told THEN [announced EXCEPT ![phase] = @ \cup connection[k].changes]
                      ELSE announced
      /\ connection' = [connection EXCEPT ![k] =
                          [@ EXCEPT !.source = "api",
                                    !.changes = IF told THEN {} ELSE connection[k].changes]]
      /\ TransactionReturns(c, call[c].commit)
      /\ UNCHANGED <<idleRead, idleWrite, recorded, committed, txCount>>
  BY DEF DidEnd, HoldsConnection
<1>2. ~notify => connection[k].changes = {}
  BY <1>1, InTransaction DEF SecDbInv, ConnectionsInOrder
<1>3. connection[k].rows = {}
  BY <1>1, InTransaction DEF SecDbInv, ConnectionsInOrder, UseInOrder
<1>4. /\ connection'[k].rows = {} /\ connection'[k].changes = {}
      /\ \A j \in Conn \ {k} : connection'[j] = connection[j]
  <2> DEFINE r == [connection[k] EXCEPT
                     !.source = "api", !.changes = IF told THEN {} ELSE connection[k].changes]
  <2>1. connection[k] \in ConnectionType /\ k \in Conn /\ connection \in [Conn -> ConnectionType]
    BY <1>1, InTransaction
  <2>2. r.rows = {} /\ r.changes = {}
    BY <1>2, <1>3, <2>1 DEF ConnectionType
  <2>3. connection' = [connection EXCEPT ![k] = r]
    BY <1>1
  <2> HIDE DEF r
  <2> QED
    BY <2>1, <2>2, <2>3
<1>5. /\ announced'[phase] = announced[phase] \cup connection[k].changes
      /\ \A p \in Phase \ {phase} : announced'[p] = announced[p]
  BY <1>1, <1>2 DEF Phase, SecDbInv, HistoryTyped
<1>6. /\ call'[c].tx = 0 \/ (call'[c].tx = call[c].tx /\ call[c].stage # "perform")
      /\ call'[c].conn = k
      /\ \A d \in Client \ {c} : call'[d] = call[d] /\ pc'[d] = pc[d]
  <2>1. CallsTyped /\ call[c].commit \in BOOLEAN
    BY DEF SecDbInv, CallsTyped, CallType
  <2> QED
    BY <1>1, <2>1, TransactionReturnsEffect
<1>7. call'[c].tx = 0 /\ Blank(c)'
  <2>1. call[c].stage # "perform" => call[c].tx = 0
    BY <1>1, InTransaction DEF TransactionInOrder
  <2> QED
    BY <1>4, <1>6, <2>1 DEF Blank
<1>8. Apart(c)
  BY <1>1, <1>4, <1>6, InTransaction DEF Apart
<1>9. CASE call[c].tx = 0
  <2>1. connection[k].changes = {}
    BY <1>1, <1>9, InTransaction DEF TransactionInOrder, OfTx, Change
  <2> QED
    BY <1>1, <1>7, <1>8, <2>1, CallStep DEF history
<1>10. CASE call[c].tx # 0
  <2>1. /\ connection[k].changes \subseteq own
        /\ call[c].tx <= txCount /\ call[c].tx \in Nat
        /\ IF call[c].commit THEN connection[k].changes \subseteq committed
           ELSE committed \cap own = {}
    BY <1>1, <1>10, InTransaction DEF TransactionInOrder, CallType
  <2>2. FutureIsBlank'
    <3> SUFFICES ASSUME NEW ch \in Change, ch.tx > txCount
                 PROVE  /\ ch \notin recorded /\ ch \notin committed
                        /\ \A p \in Phase : ch \notin announced'[p]
      BY <1>1 DEF FutureIsBlank
    <3>1. ch \notin own
      BY <2>1 DEF OfTx, Change, SecDbInv, HistoryTyped
    <3> QED
      BY <1>5, <2>1, <3>1 DEF TransactionInv, FutureIsBlank
  <2>3. AnnouncementsTrue'
    BY <1>1, <1>5, <2>1 DEF TransactionInv, AnnouncementsTrue, Phase
  <2>4. CommittedWasAnnounced'
    BY <1>1, <1>5 DEF TransactionInv, CommittedWasAnnounced, Phase
  <2>5. TransactionInOrder(c)'
    BY <1>7 DEF Blank, TransactionInOrder
  <2> QED
    BY <1>1, <1>8, <1>10, <2>2, <2>3, <2>4, <2>5, InTransaction, WritersStep
    DEF TransactionInOrder
<1> QED
  BY <1>9, <1>10

(* Where the changes are stays in order, a stuttering step included.       *)
LEMMA TransactionNextInv ==
    SecDbInv /\ TransactionInv /\ [SecDbNext]_secDbVars => TransactionInv'
BY WithoutConnection, FromCache, NewlyMade, GivenBack, KeepsConnection, NobodysStep,
   BeginTransactionStep, RunBlockStep, WillCommitStep, ExecEndStep, DidEndStep
   DEF SecDbNext, Step

LEMMA TransactionInitInv == SecDbInit => TransactionInv
<1> SUFFICES ASSUME SecDbInit PROVE TransactionInv
  OBVIOUS
<1>1. FutureIsBlank /\ AnnouncementsTrue /\ CommittedWasAnnounced
  BY DEF SecDbInit, FutureIsBlank, AnnouncementsTrue, CommittedWasAnnounced, Phase
<1>2. \A c \in Client : call[c].tx = 0 /\ call[c].conn = NoConn
  BY DEF SecDbInit, ProcessStart, NoCalls, NoCall
<1> QED
  BY <1>1, <1>2 DEF TransactionInv, TransactionInOrder

LEMMA ChangesInvariant == SecDbSpec => []TransactionInv
BY PoolInvariant, TransactionInitInv, TransactionNextInv, PTL DEF SecDbSpec

(* DidCommit is announced of changes that are in the file only, DidRollback *)
(* of changes that never were, whichever statement, END or process failed. *)
THEOREM AnnouncementsAreTrue == SecDbSpec => []AnnouncementsTrue
<1>1. TransactionInv => AnnouncementsTrue
  BY DEF TransactionInv
<1> QED
  BY ChangesInvariant, <1>1, PTL

(* No change a block recorded is in the file before WillCommit has shown   *)
(* it to the notify blocks, which queue its upload in the same transaction.*)
THEOREM ChangesAreAnnouncedFirst == SecDbSpec => []CommittedWasAnnounced
<1>1. TransactionInv => CommittedWasAnnounced
  BY DEF TransactionInv
<1> QED
  BY ChangesInvariant, <1>1, PTL
-----------------------------------------------------------------------------
(* The pool gets nothing, and no client gets a connection out of it.       *)
Quiet ==
    /\ idleRead' \subseteq idleRead /\ idleWrite' \subseteq idleWrite
    /\ Served' \subseteq Served
    /\ \A c \in Client : HasWriteConnection(c)' => HasWriteConnection(c) \/ idleWrite' = {}

LEMMA ReadRoomShrinks ==
    ASSUME ReadRoom, idleRead' \subseteq idleRead, Served' \subseteq Served
    PROVE  ReadRoom'
<1>1. IsFiniteSet(idleRead') /\ Cardinality(idleRead') <= Cardinality(idleRead)
  BY FS_Subset DEF ReadRoom
<1>2. IsFiniteSet(Served) /\ IsFiniteSet(Served')
      /\ Cardinality(Served') <= Cardinality(Served)
  BY FS_Subset DEF Served
<1>3. /\ Cardinality(idleRead') \in Nat /\ Cardinality(idleRead) \in Nat
      /\ Cardinality(Served') \in Nat /\ Cardinality(Served) \in Nat
  BY <1>1, <1>2, FS_CardinalityType DEF ReadRoom
<1> HIDE DEF Served
<1> QED
  BY <1>1, <1>2, <1>3 DEF ReadRoom

LEMMA QuietStep == RoomInv /\ Quiet => RoomInv'
BY ReadRoomShrinks DEF RoomInv, WriteRoom, Quiet

(* Served readers are readers: with no idle connection there is room.      *)
LEMMA NoneIdle ==
    ASSUME SecDbInv', idleRead' = {} PROVE ReadRoom'
<1>1. Served' \subseteq Readers' /\ IsFiniteSet(Readers')
  BY FS_Subset DEF Served, Readers
<1>2. Cardinality(Served') <= Cardinality(Readers') /\ Cardinality(Readers') \in Nat
      /\ Cardinality(Served') \in Nat
  BY <1>1, FS_Subset, FS_CardinalityType
<1>3. readSemaphore' \in Nat /\ readSemaphore' + Cardinality(Readers') = MaxReaders
  BY DEF SecDbInv, SlotsInOrder
<1>4. IsFiniteSet(idleRead') /\ Cardinality(idleRead') = 0
  BY FS_EmptySet
<1> QED
  BY <1>2, <1>3, <1>4 DEF ReadRoom

(* Before the client has a connection.                                     *)
LEMMA QuietBefore ==
    ASSUME SecDbInv, NEW c \in Client,
           \/ Request(c) \/ ConsumeResource(c) \/ EnterFirstOpen(c)
           \/ ProcessMarker(c) \/ RemoveDatabase(c)
           \/ AcquireFailed(c) \/ Signal(c) \/ FirstOpen(c) \/ OpenedFails(c)
    PROVE  Quiet
<1>1. UNCHANGED <<idleRead, idleWrite>>
  BY DEF Request, ConsumeResource, EnterFirstOpen, ProcessMarker, RemoveDatabase,
     AcquireFailed, Signal, FirstOpen, OpenedFails, pool
<1>2. CallsTyped
  BY DEF SecDbInv
<1>3. \A d \in Client \ {c} : call'[d] = call[d] /\ pc'[d] = pc[d]
  BY <1>2 DEF Request, ConsumeResource, EnterFirstOpen, ProcessMarker, RemoveDatabase,
     AcquireFailed, Signal, FirstOpen, OpenedFails, FirstOpenFails, Goto, CallsTyped
<1>4. pc'[c] \in {"consume", "enter", "marker", "remove", "open", "failed", "idle", "begin"}
  BY <1>2 DEF Request, ConsumeResource, EnterFirstOpen, ProcessMarker, RemoveDatabase,
     AcquireFailed, Signal, FirstOpen, OpenedFails, FirstOpenFails, Goto, CallsTyped
<1>5. CASE FirstOpen(c)
  <2>1. idleWrite' = {}
    BY <1>1, <1>5 DEF FirstOpen, SecDbInv, PoolInOrder, CallsInOrder, CallInOrder
  <2> QED
    BY <1>1, <1>3, <1>4, <2>1 DEF Quiet, Served, HasWriteConnection
<1>6. CASE ~FirstOpen(c)
  <2>1. call'[c].conn = NoConn
    <3>1. CASE FirstOpenFails(c)
      BY <3>1, FirstOpenFailsEffect
    <3>2. CASE ~FirstOpenFails(c)
      BY <1>2, <1>6, <3>2 DEF Request, ConsumeResource, EnterFirstOpen, ProcessMarker,
         RemoveDatabase, AcquireFailed, Signal, OpenedFails, NoCall, CallsTyped, CallType,
         SecDbInv, CallsInOrder, CallInOrder, HoldsConnection
    <3> QED
      BY <3>1, <3>2
  <2> QED
    BY <1>1, <1>3, <1>4, <2>1 DEF Quiet, Served, HasWriteConnection
<1> QED
  BY <1>5, <1>6

(* While it has a connection, and keeps it.                                *)
LEMMA QuietDuring ==
    ASSUME SecDbInv, NEW c \in Client,
           \/ OpenedAgainDone(c) \/ CheckHandler(c) \/ Read(c) \/ BeginTransaction(c)
           \/ EnterCommitQueue(c) \/ EnterEngine(c) \/ RunBlock(c) \/ EndTransaction(c)
           \/ WillCommit(c) \/ ExecEnd(c) \/ DidEnd(c)
    PROVE  Quiet
<1>1. UNCHANGED <<idleRead, idleWrite>>
  BY DEF OpenedAgainDone, CheckHandler, Read, BeginTransaction, EnterCommitQueue,
     EnterEngine, RunBlock, EndTransaction, WillCommit, ExecEnd, DidEnd, pool
<1>2. CallsTyped /\ CallInOrder(c)
  BY DEF SecDbInv, CallsInOrder
<1>3. /\ \A d \in Client \ {c} : call'[d] = call[d] /\ pc'[d] = pc[d]
      /\ call'[c].readOnly = call[c].readOnly
      /\ call[c].stage = "firstOpen" => call'[c].stage = "firstOpen"
  <2>1. CASE BeginTransaction(c)
    <3>1. PICK s \in Source, tx \in 0 .. MaxTx : Begins(c, s, tx)
      <4>1. \A s \in {"api", "sos", "ckks"} : s \in Source
        BY DEF Source
      <4>2. txCount < MaxTx => txCount + 1 \in 0 .. MaxTx
        BY DEF SecDbInv, HistoryTyped
      <4> QED
        BY <2>1, <4>1, <4>2 DEF BeginTransaction
    <3> QED
      BY <1>2, <3>1, BeginsEffect
  <2>2. CASE DidEnd(c)
    <3>1. TransactionReturns(c, call[c].commit) /\ call[c].commit \in BOOLEAN
      BY <1>2, <2>2 DEF DidEnd, CallsTyped, CallType
    <3> QED
      BY <1>2, <3>1, TransactionReturnsEffect
  <2>3. CASE OpenedAgainDone(c)
    BY <1>2, <2>3, OpenedAgainDoneEffect DEF OpenedAgainDone
  <2>4. CASE CheckHandler(c)
    BY <1>2, <2>4 DEF CheckHandler, Goto, CallsTyped, CallType, CallInOrder
  <2>5. CASE \/ Read(c) \/ EnterCommitQueue(c) \/ EnterEngine(c) \/ EndTransaction(c)
             \/ WillCommit(c)
    BY <1>2, <2>5 DEF Read, EnterCommitQueue, EnterEngine, EndTransaction, WillCommit,
       Goto, CallsTyped
  <2>6. CASE RunBlock(c) \/ ExecEnd(c)
    <3>1. \/ UNCHANGED call
          \/ \E b \in BOOLEAN : call' = [call EXCEPT ![c].commit = b]
      BY <2>6 DEF RunBlock, ExecEnd
    <3>2. \E label : Goto(c, label)
      BY <2>6 DEF RunBlock, ExecEnd
    <3> QED
      BY <1>2, <3>1, <3>2 DEF Goto, CallsTyped, CallType
  <2> QED
    BY <2>1, <2>2, <2>3, <2>4, <2>5, <2>6
<1>5. call[c].conn # NoConn
  BY <1>2 DEF OpenedAgainDone, CheckHandler, Read, BeginTransaction, EnterCommitQueue,
     EnterEngine, RunBlock, EndTransaction, WillCommit, ExecEnd, DidEnd, CallInOrder,
     HoldsConnection
<1>4. c \in Served' => c \in Served
  <2>1. CASE ~call[c].readOnly
    BY <1>3, <2>1 DEF Served
  <2>2. CASE call[c].readOnly /\ call[c].stage = "perform"
    BY <1>2, <1>3, <2>2 DEF OpenedAgainDone, CheckHandler, Read, BeginTransaction,
       EnterCommitQueue, EnterEngine, RunBlock, EndTransaction, WillCommit, ExecEnd,
       DidEnd, CallInOrder, Served
  <2>3. CASE call[c].readOnly /\ call[c].stage # "perform"
    <3>1. call[c].stage = "firstOpen"
      BY <1>2, <2>3 DEF CallsTyped, CallType, CallInOrder
    <3> QED
      BY <1>3, <3>1 DEF Served
  <2> QED
    BY <2>1, <2>2, <2>3
<1> QED
  BY <1>1, <1>3, <1>4, <1>5 DEF Quiet, Served, HasWriteConnection

(* Steps of nobody's call, and the end of a process.                       *)
LEMMA QuietApart ==
    ASSUME SecDbInv,
           \/ ReleaseAllConnections \/ AddNotifyPhaseBlock \/ BitRot \/ Exit
           \/ \E c \in Client : HandleCorrupt(c) \/ OpenedGivesUp(c)
           \/ UNCHANGED secDbVars
    PROVE  Quiet
<1>1. CASE ProcessExits
  BY <1>1 DEF ProcessExits, NoCalls, AllIdle, Quiet, Served, HasWriteConnection
<1>2. CASE ReleaseAllConnections \/ AddNotifyPhaseBlock \/ BitRot \/ UNCHANGED secDbVars
  BY <1>2 DEF ReleaseAllConnections, AddNotifyPhaseBlock, BitRot, secDbVars, callVars,
     pool, Quiet, Served, HasWriteConnection
<1> QED
  BY <1>1, <1>2 DEF Exit, HandleCorrupt, OpenedGivesUp, LeavesMarker

(* A connection that is created: the caches stay as they are, and a writer *)
(* that comes to make one found its cache empty.                           *)
LEMMA QuietCreate ==
    ASSUME SecDbInv, NEW c \in Client, Create(c)
    PROVE  Quiet
<1>1. CallsTyped /\ UNCHANGED <<idleRead, idleWrite>> /\ pc[c] = "create"
      /\ call[c].stage = "perform"
  BY DEF Create, SecDbInv, CallsInOrder, CallInOrder
<1>2. /\ \A d \in Client \ {c} : call'[d] = call[d] /\ pc'[d] = pc[d]
      /\ call'[c].readOnly = call[c].readOnly
  BY <1>1 DEF Create, Goto, CallsTyped, CallType
<1> QED
  BY <1>1, <1>2 DEF Quiet, Served, HasWriteConnection

(* A client that gets a connection from its cache, or nothing from it.     *)
LEMMA TakeStep ==
    ASSUME SecDbInv, SecDbInv', RoomInv, NEW c \in Client, c \notin Served,
           NEW writeCache, TookConnection(c, writeCache),
           \A k, l \in writeCache : k = l,
           \A d \in Client \ {c} : HasWriteConnection(d) => writeCache = {}
    PROVE  RoomInv'
<1> DEFINE k == call'[c].conn
<1>1. WriteRoom'
  BY DEF TookConnection, WriteRoom, HasWriteConnection
<1>2. Served' \subseteq Served \cup {c}
  BY DEF TookConnection, Served
<1>3. idleRead' = idleRead \ {k}
  BY DEF TookConnection
<1>4. CASE ~call[c].readOnly
  <2>1. Served' \subseteq Served
    BY <1>2, <1>4 DEF TookConnection, Served
  <2> QED
    BY <1>1, <1>3, <2>1, ReadRoomShrinks DEF RoomInv
<1>5. CASE call[c].readOnly /\ k \in idleRead
  <2>1. IsFiniteSet(idleRead') /\ Cardinality(idleRead') = Cardinality(idleRead) - 1
    BY <1>3, <1>5, FS_RemoveElement DEF RoomInv, ReadRoom
  <2>2. IsFiniteSet(Served) /\ IsFiniteSet(Served \cup {c})
    BY FS_Subset DEF Served
  <2>3. Cardinality(Served') <= Cardinality(Served) + 1
        /\ Cardinality(Served') \in Nat /\ Cardinality(Served) \in Nat
        /\ Cardinality(idleRead) \in Nat
    BY <1>2, <2>2, FS_AddElement, FS_Subset, FS_CardinalityType DEF RoomInv, ReadRoom
  <2> QED
    BY <1>1, <2>1, <2>3 DEF RoomInv, ReadRoom
<1>6. CASE call[c].readOnly /\ idleRead = {}
  BY <1>1, <1>3, <1>6, NoneIdle DEF RoomInv
<1> QED
  BY <1>4, <1>5, <1>6 DEF TookConnection

LEMMA EnterQueueRoom ==
    ASSUME SecDbInv, SecDbInv', RoomInv, NEW c \in Client, EnterQueue(c)
    PROVE  RoomInv'
<1>1. TookConnection(c, idleWrite)
  BY TakesFromCacheEffect DEF EnterQueue, SecDbInv, PoolTyped
<1>2. c \notin Served
  BY DEF EnterQueue, Served
<1> QED
  BY <1>1, <1>2, TakeStep DEF RoomInv, WriteRoom

(* Before the first open is done nobody else has a connection.             *)
LEMMA FirstOpenDoneRoom ==
    ASSUME SecDbInv, SecDbInv', RoomInv, NEW c \in Client, FirstOpenDone(c)
    PROVE  RoomInv'
<1>1. /\ idleRead = {} /\ idleWrite = {} /\ call[c].conn \in Conn /\ c \notin Served
      /\ ~didFirstOpen /\ dbQueue = c
  BY DEF FirstOpenDone, SecDbInv, CallsTyped, CallType, CallsInOrder, CallInOrder,
     HoldsConnection, PoolInOrder, Served
<1>2. TookConnection(c, {call[c].conn})
  BY <1>1, TakesFromCacheEffect DEF FirstOpenDone
<1>3. \A d \in Client \ {c} : ~HasWriteConnection(d)
  BY <1>1 DEF SecDbInv, CallsInOrder, CallInOrder, PoolInOrder, HasWriteConnection
<1> QED
  BY <1>1, <1>2, <1>3, TakeStep

(* A connection that is given back goes into its cache, or all are dropped.*)
LEMMA ReleaseRoom ==
    ASSUME SecDbInv, RoomInv, NEW c \in Client, Release(c)
    PROVE  RoomInv'
<1> DEFINE k == call[c].conn
<1>1. CallsTyped /\ CallInOrder(c) /\ (call[c].readOnly => c \in Served)
      /\ k \notin idleRead
      /\ (~call[c].readOnly => HasWriteConnection(c) /\ writeMutex = c)
  BY DEF Release, Releases, SecDbInv, CallsInOrder, CallInOrder, CallsTyped, CallType,
     Served, PoolInOrder, HasWriteConnection, HoldsConnection
<1>2. /\ \A d \in Client \ {c} : call'[d] = call[d] /\ pc'[d] = pc[d]
      /\ call'[c].conn = NoConn /\ pc'[c] = "signal"
  BY <1>1 DEF Release, Goto, CallsTyped, CallType
<1>3. Served' \subseteq Served \ {c}
  BY <1>2 DEF Served
<1>4. CASE idleRead' \subseteq idleRead /\ idleWrite' \subseteq idleWrite
  <2>1. Quiet
    BY <1>2, <1>3, <1>4 DEF Quiet, HasWriteConnection
  <2> QED
    BY <2>1, QuietStep
<1>5. CASE call[c].readOnly /\ idleRead' = idleRead \cup {k} /\ idleWrite' = idleWrite
  <2>1. IsFiniteSet(idleRead') /\ Cardinality(idleRead') = Cardinality(idleRead) + 1
    BY <1>1, <1>5, FS_AddElement DEF RoomInv, ReadRoom
  <2>2. IsFiniteSet(Served)
    BY FS_Subset DEF Served
  <2>3. IsFiniteSet(Served \ {c}) /\ Cardinality(Served \ {c}) = Cardinality(Served) - 1
    BY <1>1, <1>5, <2>2, FS_RemoveElement
  <2>4. /\ Cardinality(Served') <= Cardinality(Served) - 1
        /\ Cardinality(Served') \in Nat /\ Cardinality(Served) \in Nat
        /\ Cardinality(idleRead) \in Nat
    BY <1>3, <2>2, <2>3, FS_Subset, FS_CardinalityType DEF RoomInv, ReadRoom
  <2>5. WriteRoom'
    BY <1>2, <1>5 DEF RoomInv, WriteRoom, HasWriteConnection
  <2> QED
    BY <2>1, <2>4, <2>5 DEF RoomInv, ReadRoom
<1>6. CASE ~call[c].readOnly /\ idleRead' = idleRead /\ idleWrite' = idleWrite \cup {k}
  <2>1. idleWrite = {}
    BY <1>1, <1>6 DEF RoomInv, WriteRoom
  <2>2. \A d \in Client : ~HasWriteConnection(d)'
    BY <1>1, <1>2, <1>6 DEF HasWriteConnection, SecDbInv, CallsInOrder, CallInOrder,
       HoldsConnection
  <2>3. WriteRoom'
    BY <1>6, <2>1, <2>2 DEF WriteRoom
  <2> QED
    BY <1>3, <1>6, <2>3, ReadRoomShrinks DEF RoomInv
<1> QED
  BY <1>4, <1>5, <1>6 DEF Release

LEMMA RoomNextInv == SecDbInv /\ SecDbInv' /\ RoomInv /\ [SecDbNext]_secDbVars => RoomInv'
BY QuietBefore, QuietDuring, QuietApart, QuietCreate, QuietStep, EnterQueueRoom,
   FirstOpenDoneRoom, ReleaseRoom DEF SecDbNext, Step

LEMMA RoomInitInv == SecDbInit => RoomInv
<1> SUFFICES ASSUME SecDbInit PROVE RoomInv
  OBVIOUS
<1>1. idleRead = {} /\ idleWrite = {} /\ Served = {}
  BY DEF SecDbInit, ProcessStart, AllIdle, Served
<1> QED
  BY <1>1, FS_EmptySet DEF RoomInv, ReadRoom, WriteRoom

(* A healthy connection that comes back finds room in its cache, if there  *)
(* may be as many idle handles as readers and the writer: the message "Did *)
(* not expect to run out of room in the cache" is never logged.            *)
THEOREM ReturnedAlwaysFindsRoom == SecDbSpec => []ReturnedFindsRoom
<1>1. SecDbInv /\ RoomInv => ReturnedFindsRoom
  <2> SUFFICES ASSUME SecDbInv, RoomInv, NEW c \in Client, Releases(c),
                      MaxIdleHandles >= MaxReaders + 1
               PROVE  HasRoom(c)
    BY DEF ReturnedFindsRoom
  <2>1. IsFiniteSet(Served) /\ Cardinality(Served) \in Nat
        /\ Cardinality(idleRead) \in Nat
        /\ Cardinality(idleRead) + Cardinality(Served) <= MaxReaders
    BY FS_Subset, FS_CardinalityType DEF RoomInv, ReadRoom, Served
  <2>2. Cardinality(idleWrite) \in {0, 1}
    <3>1. CASE idleWrite = {}
      BY <3>1, FS_EmptySet
    <3>2. CASE idleWrite # {}
      <4>1. PICK k : idleWrite = {k}
        BY <3>2 DEF RoomInv, WriteRoom
      <4> QED
        BY <4>1, FS_Singleton
    <3> QED
      BY <3>1, <3>2
  <2>3. CASE call[c].readOnly
    <3>1. c \in Served
      BY <2>3 DEF Releases, Served, SecDbInv, CallsInOrder, CallInOrder, CallsTyped,
         CallType
    <3>2. Served # {}
      BY <3>1
    <3>3. Cardinality(Served) # 0
      BY <2>1, <3>2, FS_EmptySet
    <3> QED
      BY <2>1, <2>2, <2>3, <3>3 DEF HasRoom, Cache
  <2>4. CASE ~call[c].readOnly
    <3>1. HasWriteConnection(c)
      BY <2>4 DEF Releases, HasWriteConnection, SecDbInv, CallsInOrder, CallInOrder,
         HoldsConnection
    <3>2. Cardinality(idleWrite) = 0
      BY <3>1, FS_EmptySet DEF RoomInv, WriteRoom
    <3> QED
      BY <2>1, <2>4, <3>2 DEF HasRoom, Cache
  <2> QED
    BY <2>3, <2>4
<1>2. SecDbSpec => []RoomInv
  BY PoolInvariant, RoomInitInv, RoomNextInv, PTL DEF SecDbSpec
<1> QED
  BY PoolInvariant, <1>1, <1>2, PTL
=============================================================================
