---------------------------- MODULE SecDb_proofs -----------------------------
(***************************************************************************)
(* The connection pool of SecDb, for any number of clients, readers and    *)
(* transactions, any failures and exits: variables keep their types, one   *)
(* client at a time has a read-write connection, what is pooled is clean,  *)
(* and a database is deleted only when it is corrupt or was given up.      *)
(*                                                                         *)
(* The inductive invariant SecDbInv says where in its call a client holds  *)
(* a connection, the writer mutex, a reader's slot or db->queue; whose     *)
(* each connection is; which are clean; and what the marker means.         *)
(***************************************************************************)
EXTENDS SecDb, FiniteSetTheorems, TLAPS

HoldsConnection ==
    {"begin", "queueUp", "engine", "body", "end", "willCommit", "exec", "did",
     "opened", "check", "perform", "release"}

(* The type invariant in parts.                                            *)
CallsTyped == pc \in [Client -> Labels] /\ call \in [Client -> CallType]
PoolTyped ==
    /\ connection \in [Conn -> ConnectionType]
    /\ idleRead \subseteq Conn /\ idleWrite \subseteq Conn
QueuesTyped ==
    /\ writeMutex \in Client \cup {NoClient}
    /\ dbQueue \in Client \cup {NoClient}
    /\ commitBarrier \in Client \cup {NoClient}
    /\ commitShared \subseteq Client
    /\ engine \in Client \cup {NoClient}
    /\ didFirstOpen \in BOOLEAN /\ callAgain \in BOOLEAN /\ notify \in BOOLEAN
    /\ file \in {"absent", "good", "corrupt"}
    /\ marker \in BOOLEAN /\ condemned \in BOOLEAN
HistoryTyped ==
    /\ recorded \subseteq Change /\ committed \subseteq Change
    /\ announced \in [Phase -> SUBSET Change]
    /\ txCount \in 0 .. MaxTx
    /\ events \in 0 .. MaxEvents

(* Each reader in its call has one of the semaphore's units.               *)
Readers == {c \in Client : call[c].readOnly /\ pc[c] \notin {"idle", "consume"}}
SlotsInOrder ==
    readSemaphore \in Nat /\ readSemaphore + Cardinality(Readers) = MaxReaders

(* A client has a connection, db->queue and the writer mutex where its     *)
(* call needs them.                                                        *)
CallInOrder(c) ==
    /\ call[c].conn # NoConn <=> pc[c] \in HoldsConnection
    /\ call[c].stage # "perform" =>
         /\ dbQueue = c
         /\ pc[c] \in {"begin", "body", "end", "willCommit", "exec", "did", "opened"}
    /\ pc[c] \in {"begin", "opened"} => call[c].stage # "perform"
    /\ pc[c] \in {"marker", "remove", "open"} => dbQueue = c
    /\ call[c].stage = "again" \/ pc[c] \in {"check", "queueUp"} => ~call[c].readOnly
    /\ call[c].readOnly /\ call[c].stage = "perform" =>
         pc[c] \notin {"queueUp", "end", "willCommit", "exec", "did"}
    /\ ~call[c].readOnly /\ pc[c] \notin {"idle", "consume"} => writeMutex = c
    /\ pc[c] \in {"marker", "remove", "open"} \/ call[c].stage = "firstOpen" =>
         ~didFirstOpen
    /\ pc[c] = "create" => didFirstOpen
CallsInOrder == \A c \in Client : CallInOrder(c)

(* Connections are not shared, are of the kind asked for, and before the   *)
(* first open there is only the one that it uses.                          *)
PoolInOrder ==
    /\ \A c, d \in Client :
         c # d /\ call[c].conn # NoConn => call[c].conn # call[d].conn
    /\ \A c \in Client : call[c].conn \notin idleRead \cup idleWrite
    /\ \A k \in idleRead : connection[k].readOnly
    /\ \A k \in idleWrite : ~connection[k].readOnly
    /\ ~didFirstOpen =>
         /\ idleRead = {} /\ idleWrite = {}
         /\ \A c \in Client : call[c].conn # NoConn => call[c].stage = "firstOpen"

Clean(r) == ~r.inTransaction /\ r.rows = {} /\ r.changes = {}

(* What the connection of a client is like, by where the call is.          *)
UseInOrder(c) ==
    LET r == connection[call[c].conn] IN
    /\ r.readOnly <=> call[c].readOnly /\ call[c].stage # "firstOpen"
    /\ \/ pc[c] \in {"perform", "release", "check", "opened", "begin"}
       \/ call[c].readOnly /\ call[c].stage = "perform"
       => Clean(r)
    /\ pc[c] = "did" => ~r.inTransaction /\ r.rows = {}
    /\ call[c].stage = "firstOpen" /\ r.hasIOFailure =>
         ~call[c].commit /\ pc[c] \in {"end", "exec", "did", "opened"}

ConnectionsInOrder ==
    /\ \A k \in idleRead \cup idleWrite :
         Clean(connection[k]) /\ ~connection[k].hasIOFailure
    /\ ~notify => \A k \in Conn : connection[k].changes = {}
    /\ \A c \in Client : call[c].conn # NoConn =>
         UseInOrder(c)

(* The marker stands only beside a corrupt database or one that was given  *)
(* up, and is gone before that database is removed.                        *)
DiskInOrder ==
    /\ marker => file = "corrupt" \/ condemned
    /\ \A c \in Client :
         pc[c] = "remove" => ~marker /\ (file = "corrupt" \/ condemned)

SecDbInv ==
    /\ CallsTyped /\ PoolTyped /\ QueuesTyped /\ HistoryTyped
    /\ SlotsInOrder /\ CallsInOrder /\ PoolInOrder /\ ConnectionsInOrder /\ DiskInOrder

USE ClientAssumption, ConnAssumption, BoundsAssumption
    DEF ClientAssumption, ConnAssumption, BoundsAssumption

(* A connection is created under an identity nobody refers to.             *)
LEMMA SpareIsFree ==
    ~(Conn \subseteq InUse) =>
      /\ Spare \in Conn /\ Spare \notin idleRead \cup idleWrite
      /\ \A c \in Client : call[c].conn # Spare
BY DEF Spare, InUse

(* A step of a client that uses its connection: its place, its call and    *)
(* its connection change, and nothing that is another's.                   *)
Uses(c) ==
    /\ pc[c] \in HoldsConnection /\ pc'[c] \in HoldsConnection
    /\ pc' = [pc EXCEPT ![c] = pc'[c]]
    /\ call' = [call EXCEPT ![c] = call'[c]] /\ call'[c] \in CallType
    /\ connection' = [connection EXCEPT ![call[c].conn] = connection'[call[c].conn]]
    /\ connection'[call[c].conn] \in ConnectionType
    /\ call'[c].conn = call[c].conn /\ call'[c].readOnly = call[c].readOnly
    /\ call'[c].stage = "firstOpen" <=> call[c].stage = "firstOpen"
    /\ UNCHANGED <<idleRead, idleWrite, didFirstOpen, notify, writeMutex, readSemaphore>>
    /\ \A d \in Client \ {c} : dbQueue = d => dbQueue' = d
    /\ ~notify => connection'[call[c].conn].changes = {}

LEMMA UseStep ==
    ASSUME SecDbInv, NEW c \in Client, Uses(c), CallInOrder(c)', UseInOrder(c)'
    PROVE  /\ CallsTyped' /\ PoolTyped' /\ SlotsInOrder'
           /\ CallsInOrder' /\ PoolInOrder' /\ ConnectionsInOrder'
<1>1. call[c].conn \in Conn /\ call[c].conn # NoConn
  BY DEF SecDbInv, CallsTyped, CallType, CallsInOrder, CallInOrder, Uses
<1>2. /\ call' \in [Client -> CallType]
      /\ \A d \in Client \ {c} : call'[d] = call[d]
  BY DEF SecDbInv, CallsTyped, Uses
<1>3. /\ pc' \in [Client -> Labels]
      /\ \A d \in Client \ {c} : pc'[d] = pc[d]
  BY DEF SecDbInv, CallsTyped, HoldsConnection, Labels, Uses
<1>4. /\ connection' \in [Conn -> ConnectionType]
      /\ \A k \in Conn \ {call[c].conn} : connection'[k] = connection[k]
  BY <1>1 DEF SecDbInv, PoolTyped, Uses
<1>5. CallsTyped' /\ PoolTyped'
  BY <1>2, <1>3, <1>4 DEF SecDbInv, CallsTyped, PoolTyped, Uses
<1>6. SlotsInOrder'
  <2>1. Readers' = Readers
    BY <1>2, <1>3 DEF Readers, HoldsConnection, Uses
  <2> QED
    BY <2>1 DEF SecDbInv, SlotsInOrder, Uses
<1>7. CallsInOrder'
  <2>1. \A d \in Client \ {c} : CallInOrder(d)'
    BY <1>2, <1>3 DEF SecDbInv, CallsInOrder, CallInOrder, Uses
  <2> QED
    BY <2>1 DEF CallsInOrder
<1>8. PoolInOrder'
  <2>1. \A k \in idleRead \cup idleWrite : k \in Conn /\ k # call[c].conn
    BY DEF SecDbInv, PoolInOrder, PoolTyped
  <2>2. \A d \in Client : call'[d].conn = call[d].conn
    BY <1>2 DEF Uses
  <2>3. \A d \in Client :
          call[d].stage = "firstOpen" => call'[d].stage = "firstOpen"
    BY <1>2 DEF Uses
  <2> QED
    BY <1>1, <1>4, <2>1, <2>2, <2>3 DEF SecDbInv, PoolInOrder, PoolTyped,
       Uses
<1>9. ConnectionsInOrder'
  <2>1. \A d \in Client \ {c} : call[d].conn # NoConn =>
          call[d].conn \in Conn /\ call[d].conn # call[c].conn
    BY <1>1 DEF SecDbInv, PoolInOrder, CallsTyped, CallType
  <2>2. \A k \in idleRead \cup idleWrite : k \in Conn /\ k # call[c].conn
    BY DEF SecDbInv, PoolInOrder, PoolTyped
  <2>3. \A d \in Client \ {c} : (call[d].conn # NoConn)' => UseInOrder(d)'
    <3> SUFFICES ASSUME NEW d \in Client \ {c}, call[d].conn # NoConn
                 PROVE  UseInOrder(d)'
      BY <1>2
    <3>1. UseInOrder(d) /\ connection'[call'[d].conn] = connection[call[d].conn]
      BY <1>2, <1>4, <2>1 DEF SecDbInv, ConnectionsInOrder
    <3> QED
      BY <1>2, <1>3, <3>1 DEF UseInOrder, Clean
  <2>4. ~notify => \A k \in Conn : connection'[k].changes = {}
    BY <1>1, <1>4 DEF SecDbInv, ConnectionsInOrder, Uses
  <2> QED
    BY <1>4, <2>2, <2>3, <2>4 DEF SecDbInv, ConnectionsInOrder, Clean, Uses
<1> QED
  BY <1>5, <1>6, <1>7, <1>8, <1>9

Alike(r, s) ==
    /\ r.readOnly = s.readOnly /\ r.inTransaction = s.inTransaction
    /\ r.rows = s.rows /\ r.changes = s.changes

(* A failing statement leaves its mark on the connection and nothing else. *)
LEMMA StatementFailsEffect ==
    ASSUME NEW c \in Client, PoolTyped, call[c].conn \in Conn, StatementFails(c)
    PROVE  \E r \in ConnectionType :
             /\ connection' = [connection EXCEPT ![call[c].conn] = r]
             /\ Alike(r, connection[call[c].conn])
<1> DEFINE k == call[c].conn
<1>1. PICK io \in BOOLEAN :
        connection' = [connection EXCEPT ![k].hasIOFailure = @ \/ io]
  BY DEF StatementFails
<1> DEFINE r == [connection[k] EXCEPT !.hasIOFailure = @ \/ io]
<1>2. connection[k] \in ConnectionType
  BY DEF PoolTyped
<1>3. (connection[k].hasIOFailure \/ io) \in BOOLEAN
  OBVIOUS
<1>4. r \in ConnectionType
  BY <1>2, <1>3 DEF ConnectionType
<1>5. Alike(r, connection[k])
  BY <1>2 DEF ConnectionType, Alike
<1> QED
  BY <1>1, <1>4, <1>5

(* The queues a transaction waits for are not the pool's.                  *)
LEMMA EnterCommitQueueInv ==
    ASSUME SecDbInv, NEW c \in Client, EnterCommitQueue(c)
    PROVE SecDbInv'
<1>1. /\ call[c] \in CallType /\ call[c].conn \in Conn /\ pc[c] \in HoldsConnection
      /\ connection[call[c].conn] \in ConnectionType
      /\ CallInOrder(c) /\ UseInOrder(c)
      /\ ~notify => connection[call[c].conn].changes = {}
      /\ ~didFirstOpen => call[c].stage = "firstOpen"
  BY DEF EnterCommitQueue, SecDbInv, CallsTyped, PoolTyped, CallType,
     CallsInOrder, CallInOrder, PoolInOrder, ConnectionsInOrder,
     HoldsConnection
<1>2. Uses(c)
  BY <1>1 DEF EnterCommitQueue, Goto, pool, resources, handlers, Uses,
     HoldsConnection, SecDbInv, CallsTyped, PoolTyped
<1>3. CallInOrder(c)'
  BY <1>1 DEF EnterCommitQueue, Goto, resources, CallInOrder, HoldsConnection
<1>4. UseInOrder(c)'
  BY <1>1 DEF EnterCommitQueue, Goto, pool, UseInOrder
<1>5. QueuesTyped'
  BY <1>1 DEF EnterCommitQueue, resources, handlers, disk, SecDbInv,
     QueuesTyped
<1>6. HistoryTyped'
  BY <1>1 DEF EnterCommitQueue, history, SecDbInv, HistoryTyped
<1>7. DiskInOrder'
  BY <1>1 DEF EnterCommitQueue, Goto, disk, SecDbInv, DiskInOrder
<1> QED
  BY <1>2, <1>3, <1>4, <1>5, <1>6, <1>7, UseStep DEF SecDbInv

(* Nor is the engine's.                                                    *)
LEMMA EnterEngineInv ==
    ASSUME SecDbInv, NEW c \in Client, EnterEngine(c)
    PROVE SecDbInv'
<1>1. /\ call[c] \in CallType /\ call[c].conn \in Conn /\ pc[c] \in HoldsConnection
      /\ connection[call[c].conn] \in ConnectionType
      /\ CallInOrder(c) /\ UseInOrder(c)
      /\ ~notify => connection[call[c].conn].changes = {}
      /\ ~didFirstOpen => call[c].stage = "firstOpen"
  BY DEF EnterEngine, SecDbInv, CallsTyped, PoolTyped, CallType,
     CallsInOrder, CallInOrder, PoolInOrder, ConnectionsInOrder,
     HoldsConnection
<1>2. Uses(c)
  BY <1>1 DEF EnterEngine, Goto, pool, resources, handlers, Uses,
     HoldsConnection, SecDbInv, CallsTyped, PoolTyped
<1>3. CallInOrder(c)'
  BY <1>1 DEF EnterEngine, Goto, resources, CallInOrder, HoldsConnection
<1>4. UseInOrder(c)'
  BY <1>1 DEF EnterEngine, Goto, pool, UseInOrder
<1>5. QueuesTyped'
  BY <1>1 DEF EnterEngine, resources, handlers, disk, SecDbInv, QueuesTyped
<1>6. HistoryTyped'
  BY <1>1 DEF EnterEngine, history, SecDbInv, HistoryTyped
<1>7. DiskInOrder'
  BY <1>1 DEF EnterEngine, Goto, disk, SecDbInv, DiskInOrder
<1> QED
  BY <1>2, <1>3, <1>4, <1>5, <1>6, <1>7, UseStep DEF SecDbInv

(* Nor is the barrier.                                                     *)
LEMMA EndTransactionInv ==
    ASSUME SecDbInv, NEW c \in Client, EndTransaction(c)
    PROVE SecDbInv'
<1>1. /\ call[c] \in CallType /\ call[c].conn \in Conn /\ pc[c] \in HoldsConnection
      /\ connection[call[c].conn] \in ConnectionType
      /\ CallInOrder(c) /\ UseInOrder(c)
      /\ ~notify => connection[call[c].conn].changes = {}
      /\ ~didFirstOpen => call[c].stage = "firstOpen"
  BY DEF EndTransaction, SecDbInv, CallsTyped, PoolTyped, CallType,
     CallsInOrder, CallInOrder, PoolInOrder, ConnectionsInOrder,
     HoldsConnection
<1>2. Uses(c)
  BY <1>1 DEF EndTransaction, Goto, pool, resources, handlers, Uses,
     HoldsConnection, SecDbInv, CallsTyped, PoolTyped
<1>3. CallInOrder(c)'
  BY <1>1 DEF EndTransaction, Goto, resources, handlers, CallInOrder,
     HoldsConnection
<1>4. UseInOrder(c)'
  BY <1>1 DEF EndTransaction, Goto, pool, UseInOrder
<1>5. QueuesTyped'
  BY <1>1 DEF EndTransaction, resources, handlers, disk, SecDbInv,
     QueuesTyped
<1>6. HistoryTyped'
  BY <1>1 DEF EndTransaction, history, SecDbInv, HistoryTyped
<1>7. DiskInOrder'
  BY <1>1 DEF EndTransaction, Goto, disk, SecDbInv, DiskInOrder
<1> QED
  BY <1>2, <1>3, <1>4, <1>5, <1>6, <1>7, UseStep DEF SecDbInv

(* What the notify blocks add is recorded on the connection of the         *)
(* transaction.                                                            *)
LEMMA WillCommitInv ==
    ASSUME SecDbInv, NEW c \in Client, WillCommit(c)
    PROVE SecDbInv'
<1>1. /\ call[c] \in CallType /\ call[c].conn \in Conn /\ pc[c] \in HoldsConnection
      /\ connection[call[c].conn] \in ConnectionType
      /\ CallInOrder(c) /\ UseInOrder(c)
      /\ ~notify => connection[call[c].conn].changes = {}
      /\ ~didFirstOpen => call[c].stage = "firstOpen"
  BY DEF WillCommit, SecDbInv, CallsTyped, PoolTyped, CallType, CallsInOrder,
     CallInOrder, PoolInOrder, ConnectionsInOrder, HoldsConnection
<1> DEFINE k == call[c].conn
<1>2. PICK r \in ConnectionType :
        /\ connection' = [connection EXCEPT ![k] = r] /\ connection'[k] = r
        /\ r.readOnly = connection[k].readOnly
        /\ r.hasIOFailure = connection[k].hasIOFailure
        /\ ~notify => r.changes = {}
  <2>1. PICK more \in SUBSET Change : NotifyPhase(c, "willCommit", more)
    BY DEF WillCommit
  <2> DEFINE s == [connection[k] EXCEPT !.changes = more,
                                        !.rows = connection[k].rows \cup more]
  <2>2. /\ s \in ConnectionType
        /\ s.readOnly = connection[k].readOnly
        /\ s.hasIOFailure = connection[k].hasIOFailure
    BY <1>1 DEF ConnectionType
  <2>3. UNCHANGED connection \/ (notify /\ connection' = [connection EXCEPT ![k] = s])
    BY <2>1 DEF NotifyPhase
  <2> HIDE DEF s
  <2>4. CASE UNCHANGED connection
    BY <1>1, <2>4 DEF SecDbInv, PoolTyped
  <2>5. CASE notify /\ connection' = [connection EXCEPT ![k] = s]
    BY <1>1, <2>2, <2>5 DEF SecDbInv, PoolTyped
  <2> QED
    BY <2>3, <2>4, <2>5
<1>3. /\ pc[c] = "willCommit" /\ pc' = [pc EXCEPT ![c] = "exec"] /\ pc'[c] = "exec"
      /\ UNCHANGED <<call, idleRead, idleWrite, resources, queues, handlers>>
      /\ call' = [call EXCEPT ![c] = call'[c]]
  BY <1>1 DEF WillCommit, Goto, SecDbInv, CallsTyped
<1>4. Uses(c) /\ CallInOrder(c)' /\ UseInOrder(c)'
  <2>1. Uses(c)
    BY <1>1, <1>2, <1>3 DEF Uses, HoldsConnection, resources, queues, handlers
  <2>2. CallInOrder(c)'
    BY <1>1, <1>3 DEF CallInOrder, HoldsConnection, resources, queues, handlers
  <2>3. UseInOrder(c)'
    BY <1>1, <1>2, <1>3 DEF CallInOrder, UseInOrder, Clean
  <2> QED
    BY <2>1, <2>2, <2>3
<1>5. QueuesTyped'
  BY <1>1 DEF WillCommit, resources, queues, handlers, disk, SecDbInv,
     QueuesTyped
<1>6. HistoryTyped'
  BY <1>1 DEF WillCommit, NotifyPhase, Goto, callVars, pool, resources,
     queues, handlers, disk, history, CallType, ConnectionType, SecDbInv,
     HistoryTyped
<1>7. DiskInOrder'
  BY <1>1 DEF WillCommit, Goto, disk, SecDbInv, DiskInOrder
<1> QED
  BY <1>4, <1>5, <1>6, <1>7, UseStep DEF SecDbInv

LEMMA OpenedAgainDoneEffect ==
    ASSUME CallsTyped, NEW c \in Client, OpenedAgainDone(c)
    PROVE  /\ call'[c] \in CallType /\ call' = [call EXCEPT ![c] = call'[c]]
           /\ call'[c].conn = call[c].conn /\ call'[c].readOnly = call[c].readOnly
           /\ call'[c].stage = "perform" /\ call'[c].tx = call[c].tx
           /\ \A d \in Client \ {c} : call'[d] = call[d] /\ pc'[d] = pc[d]
<1> DEFINE q == [call[c] EXCEPT !.stage = "perform", !.commit = FALSE]
<1>1. /\ q \in CallType /\ q.conn = call[c].conn /\ q.readOnly = call[c].readOnly
      /\ q.stage = "perform" /\ q.tx = call[c].tx
  BY DEF CallsTyped, CallType
<1>2. call' = [call EXCEPT ![c] = q] /\ pc' = [pc EXCEPT ![c] = "perform"]
  BY DEF OpenedAgainDone, Goto
<1> HIDE DEF q
<1> QED
  BY <1>1, <1>2 DEF CallsTyped

(* The handler called again leaves db->queue, its connection clean since   *)
(* DidEnd.                                                                 *)
LEMMA OpenedAgainDoneInv ==
    ASSUME SecDbInv, NEW c \in Client, OpenedAgainDone(c)
    PROVE SecDbInv'
<1>1. /\ call[c] \in CallType /\ call[c].conn \in Conn /\ pc[c] \in HoldsConnection
      /\ connection[call[c].conn] \in ConnectionType
      /\ CallInOrder(c) /\ UseInOrder(c)
      /\ ~notify => connection[call[c].conn].changes = {}
      /\ ~didFirstOpen => call[c].stage = "firstOpen"
  BY DEF OpenedAgainDone, SecDbInv, CallsTyped, PoolTyped, CallType,
     CallsInOrder, CallInOrder, PoolInOrder, ConnectionsInOrder,
     HoldsConnection
<1>2. /\ call'[c] \in CallType /\ call' = [call EXCEPT ![c] = call'[c]]
      /\ call'[c].conn = call[c].conn /\ call'[c].readOnly = call[c].readOnly
      /\ call'[c].stage = "perform"
  BY OpenedAgainDoneEffect DEF SecDbInv
<1>3. /\ pc[c] = "opened" /\ call[c].stage = "again"
      /\ pc' = [pc EXCEPT ![c] = "perform"] /\ pc'[c] = "perform"
      /\ UNCHANGED <<pool, resources, didFirstOpen, notify>>
      /\ connection' = [connection EXCEPT ![call[c].conn] = connection'[call[c].conn]]
  BY <1>1 DEF OpenedAgainDone, Goto, SecDbInv, CallsTyped, PoolTyped, pool
<1>4. Uses(c) /\ CallInOrder(c)' /\ UseInOrder(c)'
  <2>1. dbQueue = c /\ dbQueue' = NoClient
    BY <1>1, <1>3 DEF OpenedAgainDone, CallInOrder
  <2>2. Uses(c)
    BY <1>1, <1>2, <1>3, <2>1 DEF Uses, HoldsConnection, resources, pool
  <2>3. CallInOrder(c)'
    BY <1>1, <1>2, <1>3 DEF CallInOrder, HoldsConnection, resources
  <2>4. UseInOrder(c)'
    BY <1>1, <1>2, <1>3 DEF CallInOrder, UseInOrder, Clean, pool
  <2> QED
    BY <2>2, <2>3, <2>4
<1>5. QueuesTyped'
  BY <1>1 DEF OpenedAgainDone, AsksAgain, resources, disk, SecDbInv,
     QueuesTyped
<1>6. HistoryTyped'
  BY <1>1 DEF OpenedAgainDone, AsksAgain, Event, history, SecDbInv,
     HistoryTyped
<1>7. DiskInOrder'
  BY <1>1 DEF OpenedAgainDone, Goto, disk, SecDbInv, DiskInOrder
<1> QED
  BY <1>4, <1>5, <1>6, <1>7, UseStep DEF SecDbInv

(* A reader's connection may be marked as failed, and stays clean.         *)
LEMMA ReadInv == ASSUME SecDbInv, NEW c \in Client, Read(c) PROVE SecDbInv'
<1>1. /\ call[c] \in CallType /\ call[c].conn \in Conn /\ pc[c] \in HoldsConnection
      /\ connection[call[c].conn] \in ConnectionType
      /\ CallInOrder(c) /\ UseInOrder(c)
      /\ ~notify => connection[call[c].conn].changes = {}
      /\ ~didFirstOpen => call[c].stage = "firstOpen"
  BY DEF Read, SecDbInv, CallsTyped, PoolTyped, CallType, CallsInOrder,
     CallInOrder, PoolInOrder, ConnectionsInOrder, HoldsConnection
<1>2. PICK r \in ConnectionType :
         /\ connection' = [connection EXCEPT ![call[c].conn] = r]
         /\ Alike(r, connection[call[c].conn])
  BY <1>1, StatementFailsEffect DEF Read, Alike, SecDbInv, PoolTyped
<1>3. connection'[call[c].conn] = r
  BY <1>1, <1>2 DEF SecDbInv, PoolTyped
<1>4. Uses(c)
  BY <1>1, <1>2, <1>3 DEF Read, Goto, resources, queues, handlers, Uses,
     Alike, HoldsConnection, SecDbInv, CallsTyped
<1>5. CallInOrder(c)'
  BY <1>1 DEF Read, Goto, CallInOrder, HoldsConnection
<1>6. UseInOrder(c)'
  BY <1>1, <1>2, <1>3 DEF Read, CallInOrder, UseInOrder, Clean, Alike
<1>7. QueuesTyped' /\ HistoryTyped' /\ DiskInOrder'
  BY DEF Read, StatementFails, Event, Goto, resources, queues, handlers,
     disk, history, SecDbInv, QueuesTyped, HistoryTyped, DiskInOrder
<1> QED
  BY <1>4, <1>5, <1>6, <1>7, UseStep DEF SecDbInv

(* A writer whose handler is called again takes db->queue.                 *)
LEMMA CheckHandlerInv ==
    ASSUME SecDbInv, NEW c \in Client, CheckHandler(c)
    PROVE SecDbInv'
<1>1. /\ call[c] \in CallType /\ call[c].conn \in Conn /\ pc[c] \in HoldsConnection
      /\ connection[call[c].conn] \in ConnectionType
      /\ CallInOrder(c) /\ UseInOrder(c)
      /\ ~notify => connection[call[c].conn].changes = {}
      /\ ~didFirstOpen => call[c].stage = "firstOpen"
  BY DEF CheckHandler, SecDbInv, CallsTyped, PoolTyped, CallType,
     CallsInOrder, CallInOrder, PoolInOrder, ConnectionsInOrder,
     HoldsConnection
<1>2. ~call[c].readOnly /\ call[c].stage = "perform" /\ pc[c] = "check"
  BY <1>1 DEF CheckHandler, CallInOrder, CallType
<1>3. /\ connection' = connection /\ pc'[c] \in {"perform", "begin"}
      /\ pc' = [pc EXCEPT ![c] = pc'[c]]
  BY <1>1 DEF CheckHandler, Goto, pool, SecDbInv, CallsTyped
<1>4. /\ call'[c] \in CallType
      /\ call' = [call EXCEPT ![c] = call'[c]]
      /\ call'[c].conn = call[c].conn /\ call'[c].readOnly = call[c].readOnly
      /\ call'[c].stage \in {"perform", "again"}
  BY <1>1, <1>2 DEF CheckHandler, CallType, SecDbInv, CallsTyped
<1>5. Uses(c)
  <2>1. connection' = [connection EXCEPT ![call[c].conn] = connection'[call[c].conn]]
    BY <1>1, <1>3 DEF SecDbInv, PoolTyped
  <2>2. pc'[c] \in HoldsConnection
    BY <1>3 DEF HoldsConnection
  <2>3. \A d \in Client \ {c} : dbQueue = d => dbQueue' = d
    BY DEF CheckHandler, ClientAssumption
  <2>4. UNCHANGED <<idleRead, idleWrite, didFirstOpen, notify, writeMutex, readSemaphore>>
    BY DEF CheckHandler, pool, resources
  <2> QED
    BY <1>1, <1>2, <1>3, <1>4, <2>1, <2>2, <2>3, <2>4 DEF Uses
<1>6. CallInOrder(c)'
  <2>1. call'[c].stage # "perform" => dbQueue' = c /\ pc'[c] = "begin"
    BY <1>2, <1>3, <1>4 DEF CheckHandler, Goto, SecDbInv, CallsTyped
  <2>2. pc'[c] = "begin" => call'[c].stage # "perform"
    <3>1. pc'[c] = "begin" => call' = [call EXCEPT ![c].stage = "again"]
      BY DEF CheckHandler, Goto, SecDbInv, CallsTyped
    <3> QED
      BY <1>1, <3>1 DEF CallType, SecDbInv, CallsTyped
  <2>3. writeMutex' = writeMutex /\ didFirstOpen' = didFirstOpen
    BY DEF CheckHandler, resources
  <2>4. call[c].conn # NoConn /\ writeMutex = c
    BY <1>1, <1>2 DEF CallInOrder
  <2> QED
    BY <1>2, <1>3, <1>4, <2>1, <2>2, <2>3, <2>4 DEF CallInOrder,
       HoldsConnection
<1>7. UseInOrder(c)'
  <2>1. Clean(connection[call[c].conn]) /\ ~connection[call[c].conn].readOnly
    BY <1>1, <1>2 DEF UseInOrder
  <2> QED
    BY <1>2, <1>3, <1>4, <2>1 DEF UseInOrder, Clean
<1>8. QueuesTyped' /\ HistoryTyped' /\ DiskInOrder'
  BY DEF CheckHandler, Goto, resources, disk, history, SecDbInv, CallsTyped,
     QueuesTyped, HistoryTyped, DiskInOrder
<1> QED
  BY <1>5, <1>6, <1>7, <1>8, UseStep DEF SecDbInv

(* END and ROLLBACK close the transaction; a failed END is no commit.      *)
LEMMA ExecEndInv ==
    ASSUME SecDbInv, NEW c \in Client, ExecEnd(c)
    PROVE SecDbInv'
<1>1. /\ call[c] \in CallType /\ call[c].conn \in Conn /\ pc[c] \in HoldsConnection
      /\ connection[call[c].conn] \in ConnectionType
      /\ CallInOrder(c) /\ UseInOrder(c)
      /\ ~notify => connection[call[c].conn].changes = {}
      /\ ~didFirstOpen => call[c].stage = "firstOpen"
  BY DEF ExecEnd, SecDbInv, CallsTyped, PoolTyped, CallType, CallsInOrder,
     CallInOrder, PoolInOrder, ConnectionsInOrder, HoldsConnection
<1> DEFINE k == call[c].conn
           r == [connection[k] EXCEPT !.rows = {}, !.inTransaction = FALSE]
<1>2. /\ connection' = [connection EXCEPT ![k] = r] /\ r \in ConnectionType
      /\ r.readOnly = connection[k].readOnly /\ r.changes = connection[k].changes
      /\ r.hasIOFailure = connection[k].hasIOFailure
      /\ ~r.inTransaction /\ r.rows = {}
  BY <1>1 DEF ExecEnd, ConnectionType
<1>3. connection'[k] = r
  BY <1>1, <1>2 DEF SecDbInv, PoolTyped
<1> HIDE DEF r
<1>4. /\ call'[c] \in CallType
      /\ call' = [call EXCEPT ![c] = call'[c]]
      /\ call'[c].conn = call[c].conn /\ call'[c].readOnly = call[c].readOnly
      /\ call'[c].stage = call[c].stage
      /\ call'[c].commit => call[c].commit
  <2>1. UNCHANGED call \/ call' = [call EXCEPT ![c].commit = FALSE]
    BY DEF ExecEnd
  <2>2. call'[c] = call[c] \/ call'[c] = [call[c] EXCEPT !.commit = FALSE]
    BY <2>1 DEF SecDbInv, CallsTyped
  <2>3. call' = [call EXCEPT ![c] = call'[c]]
    BY <2>1, <2>2 DEF SecDbInv, CallsTyped
  <2> QED
    BY <1>1, <2>2, <2>3 DEF CallType
<1>5. pc[c] = "exec" /\ pc' = [pc EXCEPT ![c] = "did"] /\ pc'[c] = "did"
  BY DEF ExecEnd, Goto, SecDbInv, CallsTyped
<1>6. Uses(c)
  BY <1>1, <1>2, <1>3, <1>4, <1>5 DEF ExecEnd, resources, queues, handlers,
     Uses, HoldsConnection
<1>7. CallInOrder(c)'
  BY <1>1, <1>4, <1>5 DEF ExecEnd, resources, queues, handlers, CallInOrder,
     HoldsConnection
<1>8. UseInOrder(c)'
  <2>1. ~(call[c].readOnly /\ call[c].stage = "perform")
    BY <1>1, <1>5 DEF CallInOrder
  <2> QED
    BY <1>1, <1>2, <1>3, <1>4, <1>5, <2>1 DEF UseInOrder
<1>9. QueuesTyped' /\ DiskInOrder'
  BY DEF ExecEnd, Goto, resources, queues, handlers, disk, SecDbInv,
     QueuesTyped, DiskInOrder
<1>10. HistoryTyped'
  BY <1>1 DEF ExecEnd, Event, ConnectionType, SecDbInv, HistoryTyped
<1> QED
  BY <1>6, <1>7, <1>8, <1>9, <1>10, UseStep DEF SecDbInv

(* The block's changes are recorded only if there are notify blocks.       *)
LEMMA RunBlockInv ==
    ASSUME SecDbInv, NEW c \in Client, RunBlock(c)
    PROVE SecDbInv'
<1>1. /\ call[c] \in CallType /\ call[c].conn \in Conn /\ pc[c] \in HoldsConnection
      /\ connection[call[c].conn] \in ConnectionType
      /\ CallInOrder(c) /\ UseInOrder(c)
      /\ ~notify => connection[call[c].conn].changes = {}
      /\ ~didFirstOpen => call[c].stage = "firstOpen"
  BY DEF RunBlock, SecDbInv, CallsTyped, PoolTyped, CallType, CallsInOrder,
     CallInOrder, PoolInOrder, ConnectionsInOrder, HoldsConnection
<1> DEFINE k == call[c].conn
<1>2. Written(c) \subseteq Change /\ Recorded(c) \subseteq Written(c)
  BY <1>1 DEF Written, Recorded, Change, CallType
<1>3. PICK r \in ConnectionType :
        /\ connection' = [connection EXCEPT ![k] = r]
        /\ r.readOnly = connection[k].readOnly
        /\ ~notify => r.changes = {}
        /\ pc'[c] = "release" => r = connection[k]
        /\ r.hasIOFailure => connection[k].hasIOFailure \/ ~call'[c].commit
  <2>1. CASE pc' = [pc EXCEPT ![c] = "release"] /\ UNCHANGED connection
    BY <1>1, <2>1 DEF SecDbInv, CallsTyped, PoolTyped
  <2>2. CASE /\ pc' = [pc EXCEPT ![c] = "end"]
             /\ connection' = [connection EXCEPT ![k] =
                                 [@ EXCEPT !.rows = connection[k].rows \cup Written(c),
                                           !.changes =
                                             connection[k].changes \cup Recorded(c)]]
    <3> DEFINE s == [connection[k] EXCEPT
                       !.rows = connection[k].rows \cup Written(c),
                       !.changes = connection[k].changes \cup Recorded(c)]
    <3>1. s \in ConnectionType
      BY <1>1, <1>2 DEF ConnectionType
    <3>2. /\ s.readOnly = connection[k].readOnly
          /\ s.changes = connection[k].changes \cup Recorded(c)
          /\ s.hasIOFailure = connection[k].hasIOFailure
      BY <1>1 DEF ConnectionType
    <3>3. ~notify => s.changes = {}
      BY <1>1, <3>2 DEF Recorded
    <3>4. connection' = [connection EXCEPT ![k] = s]
      BY <1>1, <2>2 DEF SecDbInv, PoolTyped
    <3>5. pc'[c] # "release"
      BY <2>2 DEF SecDbInv, CallsTyped
    <3> HIDE DEF s
    <3> QED
      BY <3>1, <3>2, <3>3, <3>4, <3>5
  <2>3. CASE /\ pc' = [pc EXCEPT ![c] = "end"] /\ StatementFails(c)
             /\ call' = [call EXCEPT ![c].commit = FALSE]
    <3>1. ~call'[c].commit
      BY <1>1, <2>3 DEF SecDbInv, CallsTyped, CallType
    <3>2. pc'[c] # "release"
      BY <2>3 DEF SecDbInv, CallsTyped
    <3>3. PICK s \in ConnectionType :
            connection' = [connection EXCEPT ![k] = s] /\ Alike(s, connection[k])
      BY <1>1, <2>3, StatementFailsEffect DEF SecDbInv
    <3> QED
      BY <1>1, <3>1, <3>2, <3>3 DEF Alike
  <2> QED
    BY <2>1, <2>2, <2>3 DEF RunBlock, Goto
<1>4. connection'[k] = r
  BY <1>1, <1>3 DEF SecDbInv, PoolTyped
<1>5. /\ call'[c] \in CallType
      /\ call' = [call EXCEPT ![c] = call'[c]]
      /\ call'[c].conn = call[c].conn /\ call'[c].readOnly = call[c].readOnly
      /\ call'[c].stage = call[c].stage
  <2>1. PICK commit \in BOOLEAN :
          UNCHANGED call \/ call' = [call EXCEPT ![c].commit = commit]
    BY DEF RunBlock
  <2>2. call'[c] = call[c] \/ call'[c] = [call[c] EXCEPT !.commit = commit]
    BY <2>1 DEF SecDbInv, CallsTyped
  <2>3. call' = [call EXCEPT ![c] = call'[c]]
    BY <2>1, <2>2 DEF SecDbInv, CallsTyped
  <2> QED
    BY <1>1, <2>2, <2>3 DEF CallType
<1>6. /\ pc[c] = "body" /\ pc' = [pc EXCEPT ![c] = pc'[c]]
      /\ pc'[c] = IF call[c].readOnly /\ call[c].stage = "perform"
                  THEN "release" ELSE "end"
  BY DEF RunBlock, Goto, SecDbInv, CallsTyped
<1>7. Uses(c)
  BY <1>1, <1>3, <1>4, <1>5, <1>6 DEF RunBlock, resources, handlers, Uses,
     HoldsConnection
<1>8. CallInOrder(c)'
  BY <1>1, <1>5, <1>6 DEF RunBlock, resources, handlers, CallInOrder,
     HoldsConnection
<1>9. UseInOrder(c)'
  <2>1. call[c].stage = "firstOpen" => ~connection[k].hasIOFailure
    BY <1>1, <1>6 DEF UseInOrder
  <2> QED
    BY <1>1, <1>3, <1>4, <1>5, <1>6, <2>1 DEF UseInOrder, Clean
<1>10. QueuesTyped' /\ DiskInOrder'
  BY DEF RunBlock, Goto, resources, handlers, disk, SecDbInv, CallsTyped,
     QueuesTyped, DiskInOrder
<1>11. HistoryTyped'
  BY <1>2 DEF RunBlock, StatementFails, Event, callVars, pool, resources,
     SecDbInv, HistoryTyped
<1> QED
  BY <1>7, <1>8, <1>9, <1>10, <1>11, UseStep DEF SecDbInv

(* A transaction that returns leaves its client the same connection and    *)
(* stage.                                                                  *)
LEMMA TransactionReturnsEffect ==
    ASSUME CallsTyped, NEW c \in Client, NEW ok \in BOOLEAN, TransactionReturns(c, ok)
    PROVE  /\ call'[c] \in CallType /\ call' = [call EXCEPT ![c] = call'[c]]
           /\ call'[c].conn = call[c].conn /\ call'[c].readOnly = call[c].readOnly
           /\ call'[c].stage = call[c].stage
           /\ call[c].stage # "perform" => call'[c].commit = ok
           /\ call[c].stage = "perform" => ~call'[c].commit /\ call'[c].tx = 0
           /\ call[c].stage # "perform" => call'[c].tx = call[c].tx
           /\ pc'[c] = IF call[c].stage = "perform" THEN "perform" ELSE "opened"
           /\ \A d \in Client \ {c} : call'[d] = call[d] /\ pc'[d] = pc[d]
<1> DEFINE p == [call[c] EXCEPT !.source = "api", !.tx = 0, !.commit = FALSE]
           q == [call[c] EXCEPT !.commit = ok]
<1>1. /\ p \in CallType /\ p.conn = call[c].conn /\ p.readOnly = call[c].readOnly
      /\ p.stage = call[c].stage /\ ~p.commit /\ p.tx = 0
  <2>1. call[c] \in CallType /\ "api" \in Source /\ 0 \in 0 .. MaxTx
    BY DEF CallsTyped, Source
  <2> QED
    BY <2>1 DEF CallType
<1>2. /\ q \in CallType /\ q.conn = call[c].conn /\ q.readOnly = call[c].readOnly
      /\ q.stage = call[c].stage /\ q.commit = ok /\ q.tx = call[c].tx
  BY DEF CallsTyped, CallType
<1>3. \/ call[c].stage = "perform" /\ call' = [call EXCEPT ![c] = p]
      \/ call[c].stage # "perform" /\ call' = [call EXCEPT ![c] = q]
  BY DEF TransactionReturns
<1> HIDE DEF p, q
<1>4. /\ pc'[c] = IF call[c].stage = "perform" THEN "perform" ELSE "opened"
      /\ \A d \in Client \ {c} : pc'[d] = pc[d]
  BY DEF TransactionReturns, Goto, CallsTyped
<1> QED
  BY <1>1, <1>2, <1>3, <1>4 DEF CallsTyped

(* The last phase, or the lack of blocks, leaves no change behind.         *)
LEMMA DidEndInv == ASSUME SecDbInv, NEW c \in Client, DidEnd(c) PROVE SecDbInv'
<1>1. /\ call[c] \in CallType /\ call[c].conn \in Conn /\ pc[c] \in HoldsConnection
      /\ connection[call[c].conn] \in ConnectionType
      /\ CallInOrder(c) /\ UseInOrder(c)
      /\ ~notify => connection[call[c].conn].changes = {}
      /\ ~didFirstOpen => call[c].stage = "firstOpen"
  BY DEF DidEnd, SecDbInv, CallsTyped, PoolTyped, CallType, CallsInOrder,
     CallInOrder, PoolInOrder, ConnectionsInOrder, HoldsConnection
<1> DEFINE k == call[c].conn
           r == [connection[k] EXCEPT
                   !.source = "api",
                   !.changes = IF connection[k].changes # {} /\ notify THEN {}
                               ELSE connection[k].changes]
<1>2. /\ r \in ConnectionType
      /\ r.readOnly = connection[k].readOnly
      /\ r.hasIOFailure = connection[k].hasIOFailure
      /\ r.inTransaction = connection[k].inTransaction /\ r.rows = connection[k].rows
      /\ r.changes = IF connection[k].changes # {} /\ notify THEN {}
                     ELSE connection[k].changes
  BY <1>1 DEF ConnectionType, Source
<1>3. r.changes = {}
  BY <1>1, <1>2
<1>4. connection' = [connection EXCEPT ![k] = r] /\ connection'[k] = r
  BY <1>1 DEF DidEnd, SecDbInv, PoolTyped
<1> HIDE DEF r
<1>5. pc[c] = "did" /\ ~(call[c].readOnly /\ call[c].stage = "perform")
  BY <1>1 DEF DidEnd, CallInOrder
<1>6. /\ call'[c] \in CallType
      /\ call' = [call EXCEPT ![c] = call'[c]]
      /\ call'[c].conn = call[c].conn /\ call'[c].readOnly = call[c].readOnly
      /\ call'[c].stage = call[c].stage
      /\ call[c].stage # "perform" => call'[c].commit = call[c].commit
  <2>1. call[c].commit \in BOOLEAN
    BY <1>1 DEF CallType
  <2>2. CallsTyped /\ TransactionReturns(c, call[c].commit)
    BY DEF DidEnd, SecDbInv
  <2> QED
    BY <2>1, <2>2, TransactionReturnsEffect
<1>7. /\ pc' = [pc EXCEPT ![c] = pc'[c]]
      /\ pc'[c] = IF call[c].stage = "perform" THEN "perform" ELSE "opened"
  BY DEF DidEnd, TransactionReturns, Goto, SecDbInv, CallsTyped
<1>8. Uses(c)
  BY <1>1, <1>2, <1>3, <1>4, <1>6, <1>7 DEF DidEnd, resources, handlers,
     Uses, HoldsConnection
<1>9. CallInOrder(c)'
  BY <1>1, <1>5, <1>6, <1>7 DEF DidEnd, resources, handlers, CallInOrder,
     HoldsConnection
<1>10. UseInOrder(c)'
  <2>1. ~connection[k].inTransaction /\ connection[k].rows = {}
    BY <1>1, <1>5 DEF UseInOrder
  <2> QED
    BY <1>1, <1>2, <1>3, <1>4, <1>5, <1>6, <1>7, <2>1 DEF UseInOrder, Clean
<1>11. QueuesTyped' /\ DiskInOrder'
  BY DEF DidEnd, TransactionReturns, Goto, resources, handlers, disk,
     SecDbInv, CallsTyped, QueuesTyped, DiskInOrder
<1>12. HistoryTyped'
  BY <1>1 DEF DidEnd, pool, disk, history, ConnectionType, Phase, SecDbInv,
     HistoryTyped
<1> QED
  BY <1>8, <1>9, <1>10, <1>11, <1>12, UseStep DEF SecDbInv

(* BEGIN changes no more of a call than its transaction.                   *)
LEMMA BeginsEffect ==
    ASSUME CallsTyped, NEW c \in Client, NEW s \in Source, NEW tx \in 0 .. MaxTx,
           Begins(c, s, tx)
    PROVE  /\ call'[c] \in CallType /\ call' = [call EXCEPT ![c] = call'[c]]
           /\ call'[c].conn = call[c].conn /\ call'[c].readOnly = call[c].readOnly
           /\ call'[c].stage = call[c].stage
           /\ \A d \in Client \ {c} : call'[d] = call[d] /\ pc'[d] = pc[d]
           /\ \/ call'[c].tx \in {0, call[c].tx}
              \/ call'[c].tx = tx /\ pc'[c] \in {"queueUp", "body"}
<1> DEFINE q == [call[c] EXCEPT !.source = s, !.tx = tx]
<1>1. /\ q \in CallType /\ q.conn = call[c].conn /\ q.readOnly = call[c].readOnly
      /\ q.stage = call[c].stage /\ q.tx = tx
  BY DEF CallsTyped, CallType
<1>2. \/ /\ call' = [call EXCEPT ![c] = q]
         /\ pc' = [pc EXCEPT ![c] = IF s = "sos" THEN "queueUp" ELSE "body"]
      \/ TransactionReturns(c, FALSE)
  BY DEF Begins, Goto
<1> HIDE DEF q
<1>3. CASE /\ call' = [call EXCEPT ![c] = q]
           /\ pc' = [pc EXCEPT ![c] = IF s = "sos" THEN "queueUp" ELSE "body"]
  <2>1. call'[c] = q /\ \A d \in Client \ {c} : call'[d] = call[d]
    BY <1>3 DEF CallsTyped
  <2>2. pc'[c] \in {"queueUp", "body"} /\ \A d \in Client \ {c} : pc'[d] = pc[d]
    BY <1>3 DEF CallsTyped
  <2> QED
    BY <1>1, <1>3, <2>1, <2>2
<1>4. CASE TransactionReturns(c, FALSE)
  BY <1>4, TransactionReturnsEffect
<1> QED
  BY <1>2, <1>3, <1>4

(* BEGIN finds a clean connection; if it fails, the connection is clean    *)
(* still.                                                                  *)
LEMMA BeginTransactionInv ==
    ASSUME SecDbInv, NEW c \in Client, BeginTransaction(c)
    PROVE SecDbInv'
<1>1. /\ call[c] \in CallType /\ call[c].conn \in Conn /\ pc[c] \in HoldsConnection
      /\ connection[call[c].conn] \in ConnectionType
      /\ CallInOrder(c) /\ UseInOrder(c)
      /\ ~notify => connection[call[c].conn].changes = {}
      /\ ~didFirstOpen => call[c].stage = "firstOpen"
  BY DEF BeginTransaction, SecDbInv, CallsTyped, PoolTyped, CallType,
     CallsInOrder, CallInOrder, PoolInOrder, ConnectionsInOrder,
     HoldsConnection
<1> DEFINE k == call[c].conn
<1>2. PICK s \in Source, tx \in 0 .. MaxTx :
        /\ Begins(c, s, tx)
        /\ s = "sos" => ~call[c].readOnly /\ call[c].stage = "perform"
        /\ pc[c] \in {"begin", "perform"}
        /\ call[c].readOnly => call[c].stage # "perform"
  <2>1. CASE pc[c] = "begin" /\ Begins(c, "api", 0)
    BY <1>1, <2>1 DEF Source, CallInOrder
  <2>2. CASE /\ pc[c] = "perform" /\ ~call[c].readOnly /\ txCount < MaxTx
             /\ \E s \in {"api", "sos", "ckks"} : Begins(c, s, txCount + 1)
    <3>1. PICK s \in {"api", "sos", "ckks"} : Begins(c, s, txCount + 1)
      BY <2>2
    <3>2. s \in Source /\ txCount + 1 \in 0 .. MaxTx
      BY <2>2 DEF Source, SecDbInv, HistoryTyped
    <3>3. call[c].stage = "perform"
      BY <1>1, <2>2 DEF CallInOrder
    <3> QED
      BY <2>2, <3>1, <3>2, <3>3
  <2> QED
    BY <2>1, <2>2 DEF BeginTransaction
<1> DEFINE begun == [connection[k] EXCEPT !.source = IF s = "api" THEN @ ELSE s]
<1>3. begun \in ConnectionType /\ Alike(begun, connection[k])
      /\ begun.hasIOFailure = connection[k].hasIOFailure
  BY <1>1 DEF ConnectionType, Source, Alike
<1> HIDE DEF begun
<1>4. Clean(connection[k])
  BY <1>1, <1>2 DEF UseInOrder
<1>5. PICK r \in ConnectionType :
        /\ connection' = [connection EXCEPT ![k] = r]
        /\ r.readOnly = connection[k].readOnly
        /\ r.rows = {} /\ r.changes = {}
        /\ pc'[c] \in {"queueUp", "body"} => r.hasIOFailure = connection[k].hasIOFailure
        /\ pc'[c] \in {"perform", "opened"} => ~r.inTransaction
        /\ pc'[c] = "opened" => ~call'[c].commit
        /\ pc'[c] \in {"queueUp", "body", "perform", "opened"}
  <2>1. CASE /\ connection' = [connection EXCEPT ![k] = [begun EXCEPT !.inTransaction = TRUE]]
             /\ pc' = [pc EXCEPT ![c] = IF s = "sos" THEN "queueUp" ELSE "body"]
    <3> DEFINE b == [begun EXCEPT !.inTransaction = TRUE]
    <3>1. b \in ConnectionType
      BY <1>3 DEF ConnectionType
    <3>2. /\ b.readOnly = connection[k].readOnly
          /\ b.hasIOFailure = connection[k].hasIOFailure
          /\ b.rows = {} /\ b.changes = {}
      BY <1>3, <1>4 DEF ConnectionType, Alike, Clean
    <3>3. pc'[c] \in {"queueUp", "body"}
      BY <2>1 DEF SecDbInv, CallsTyped
    <3> QED
      BY <2>1, <3>1, <3>2, <3>3
  <2>2. ASSUME NEW io \in BOOLEAN, TransactionReturns(c, FALSE),
               connection' = [connection EXCEPT ![k] = [begun EXCEPT !.hasIOFailure = @ \/ io]]
        PROVE  \E b \in ConnectionType :
                 /\ connection' = [connection EXCEPT ![k] = b]
                 /\ Alike(b, begun)
                 /\ pc'[c] \in {"perform", "opened"} /\ ~call'[c].commit
    <3> DEFINE b == [begun EXCEPT !.hasIOFailure = @ \/ io]
    <3>1. (begun.hasIOFailure \/ io) \in BOOLEAN
      OBVIOUS
    <3>2. b \in ConnectionType
      BY <1>3, <3>1 DEF ConnectionType
    <3>3. Alike(b, begun)
      BY <1>3 DEF ConnectionType, Alike
    <3>4. pc'[c] \in {"perform", "opened"} /\ ~call'[c].commit
      <4>1. CallsTyped /\ call[c].stage \in {"perform", "firstOpen", "again"}
        BY <1>1 DEF SecDbInv, CallType
      <4> QED
        BY <2>2, <4>1, TransactionReturnsEffect
    <3> QED
      BY <2>2, <3>2, <3>3, <3>4
  <2>3. CASE /\ TransactionReturns(c, FALSE)
             /\ \E io \in BOOLEAN : connection' =
                  [connection EXCEPT ![k] = [begun EXCEPT !.hasIOFailure = @ \/ io]]
    <3>1. PICK b \in ConnectionType :
                 /\ connection' = [connection EXCEPT ![k] = b]
                 /\ Alike(b, begun)
                 /\ pc'[c] \in {"perform", "opened"} /\ ~call'[c].commit
      BY <2>2, <2>3
    <3> QED
      BY <1>3, <1>4, <3>1 DEF Alike, Clean
  <2> QED
    BY <1>2, <2>1, <2>3 DEF Begins, Goto, begun
<1>6. connection'[k] = r
  BY <1>1, <1>5 DEF SecDbInv, PoolTyped
<1>7. /\ call'[c] \in CallType
      /\ call' = [call EXCEPT ![c] = call'[c]]
      /\ call'[c].conn = call[c].conn /\ call'[c].readOnly = call[c].readOnly
      /\ call'[c].stage = call[c].stage
  BY <1>2, BeginsEffect DEF SecDbInv
<1>8. /\ pc' = [pc EXCEPT ![c] = pc'[c]]
      /\ pc'[c] = "perform" => call[c].stage = "perform"
      /\ pc'[c] = "opened" => call[c].stage # "perform"
      /\ pc'[c] = "queueUp" => ~call[c].readOnly /\ call[c].stage = "perform"
  BY <1>2 DEF Begins, TransactionReturns, Goto, SecDbInv, CallsTyped
<1>9. Uses(c)
  BY <1>1, <1>5, <1>6, <1>7, <1>8 DEF BeginTransaction, resources, queues,
     handlers, Uses, HoldsConnection
<1>10. CallInOrder(c)'
  BY <1>1, <1>2, <1>5, <1>7, <1>8 DEF BeginTransaction, resources, queues,
     handlers, CallInOrder, HoldsConnection
<1>11. UseInOrder(c)'
  <2>1. call[c].stage = "firstOpen" => ~connection[k].hasIOFailure
    BY <1>1, <1>2 DEF UseInOrder
  <2> QED
    BY <1>1, <1>2, <1>5, <1>6, <1>7, <1>8, <2>1 DEF UseInOrder, Clean
<1>12. QueuesTyped'
  BY DEF BeginTransaction, resources, queues, handlers, disk, SecDbInv,
     QueuesTyped
<1>13. DiskInOrder'
  <2>1. \A d \in Client : pc'[d] = "remove" => pc[d] = "remove"
    BY <1>5, <1>8 DEF SecDbInv, CallsTyped
  <2> QED
    BY <2>1 DEF BeginTransaction, disk, SecDbInv, DiskInOrder
<1>14. HistoryTyped'
  <2>1. UNCHANGED events \/ Event
    BY <1>2 DEF Begins
  <2>2. events' \in 0 .. MaxEvents
    BY <2>1 DEF Event, SecDbInv, HistoryTyped
  <2> QED
    BY <2>2 DEF BeginTransaction, SecDbInv, HistoryTyped
<1> QED
  BY <1>9, <1>10, <1>11, <1>12, <1>13, <1>14, UseStep DEF SecDbInv

(* The readers can be counted.                                             *)
LEMMA ReadersFinite == IsFiniteSet(Readers)
BY FS_Subset DEF Readers

(* The end of the first block of an acquisition.                           *)
TookConnection(c, writeCache) ==
    LET k == call'[c].conn IN
    /\ call' \in [Client -> CallType] /\ pc' \in [Client -> Labels]
    /\ \A d \in Client \ {c} : call'[d] = call[d] /\ pc'[d] = pc[d]
    /\ call'[c].readOnly = call[c].readOnly /\ call'[c].stage = "perform"
    /\ idleRead' = idleRead \ {k} /\ idleWrite' = writeCache \ {k}
    /\ \/ /\ k # NoConn
          /\ k \in (IF call[c].readOnly THEN idleRead ELSE writeCache)
          /\ pc'[c] \in {"perform", "check"}
          /\ pc'[c] = "check" => ~call[c].readOnly
       \/ /\ k = NoConn /\ pc'[c] = "create"
          /\ (IF call[c].readOnly THEN idleRead ELSE writeCache) = {}

(* An acquisition in db->queue that fails.                                 *)
LEMMA FirstOpenFailsEffect ==
    ASSUME SecDbInv, NEW c \in Client, FirstOpenFails(c)
    PROVE  /\ call' \in [Client -> CallType] /\ pc' \in [Client -> Labels]
           /\ \A d \in Client \ {c} : call'[d] = call[d] /\ pc'[d] = pc[d]
           /\ call'[c].conn = NoConn /\ call'[c].stage = "perform"
           /\ call'[c].readOnly = call[c].readOnly /\ call'[c].tx = call[c].tx
           /\ pc'[c] = "failed" /\ dbQueue' = NoClient
<1> DEFINE q == [call[c] EXCEPT !.conn = NoConn, !.stage = "perform", !.commit = FALSE]
<1>1. CallsTyped
  BY DEF SecDbInv
<1>2. /\ call' = [call EXCEPT ![c] = q]
      /\ q \in CallType /\ q.conn = NoConn /\ q.stage = "perform"
      /\ q.readOnly = call[c].readOnly /\ q.tx = call[c].tx
  <2>1. call' = [call EXCEPT ![c] =
                   [@ EXCEPT !.conn = NoConn, !.stage = "perform", !.commit = FALSE]]
    BY DEF FirstOpenFails
  <2> QED
    BY <1>1, <2>1 DEF CallsTyped, CallType
<1> HIDE DEF q
<1>3. call' \in [Client -> CallType] /\ call'[c] = q
      /\ \A d \in Client \ {c} : call'[d] = call[d]
  BY <1>1, <1>2 DEF CallsTyped
<1>4. pc' \in [Client -> Labels] /\ pc'[c] = "failed" /\ dbQueue' = NoClient
      /\ \A d \in Client \ {c} : pc'[d] = pc[d]
  BY <1>1 DEF FirstOpenFails, Goto, CallsTyped, Labels
<1> QED
  BY <1>2, <1>3, <1>4

(* An acquisition that gets to the end of its block in db->queue.          *)
LEMMA TakesFromCacheEffect ==
    ASSUME SecDbInv, NEW c \in Client, NEW writeCache \in SUBSET Conn,
           NEW ran \in BOOLEAN, TakesFromCache(c, writeCache, ran)
    PROVE  TookConnection(c, writeCache)
<1> DEFINE cached == IF call[c].readOnly THEN idleRead ELSE writeCache
<1>1. CallsTyped /\ PoolTyped /\ pc[c] \in Labels /\ NoConn \notin Conn
  BY DEF SecDbInv, CallsTyped
<1>2. CASE \E k \in cached :
         /\ idleRead' = idleRead \ {k} /\ idleWrite' = writeCache \ {k}
         /\ call' = [call EXCEPT ![c] =
                       [@ EXCEPT !.conn = k, !.stage = "perform", !.commit = FALSE]]
         /\ Goto(c, IF call[c].readOnly \/ ran THEN "perform" ELSE "check")
  <2>1. PICK k \in cached :
         /\ idleRead' = idleRead \ {k} /\ idleWrite' = writeCache \ {k}
         /\ call' = [call EXCEPT ![c] =
                       [@ EXCEPT !.conn = k, !.stage = "perform", !.commit = FALSE]]
         /\ Goto(c, IF call[c].readOnly \/ ran THEN "perform" ELSE "check")
    BY <1>2
  <2>2. k \in Conn /\ k # NoConn
    BY <1>1, <2>1 DEF PoolTyped
  <2> DEFINE q == [call[c] EXCEPT !.conn = k, !.stage = "perform", !.commit = FALSE]
  <2>3. /\ call' = [call EXCEPT ![c] = q]
        /\ q \in CallType /\ q.conn = k /\ q.stage = "perform"
        /\ q.readOnly = call[c].readOnly
    BY <1>1, <2>1, <2>2 DEF CallsTyped, CallType
  <2> HIDE DEF q
  <2>4. call' \in [Client -> CallType] /\ call'[c] = q
        /\ \A d \in Client \ {c} : call'[d] = call[d]
    BY <1>1, <2>3 DEF CallsTyped
  <2>5. pc' \in [Client -> Labels] /\ pc'[c] \in {"perform", "check"}
        /\ (pc'[c] = "check" => ~call[c].readOnly)
        /\ \A d \in Client \ {c} : pc'[d] = pc[d]
    BY <1>1, <2>1 DEF Goto, CallsTyped, Labels
  <2> QED
    BY <2>1, <2>2, <2>3, <2>4, <2>5 DEF TookConnection
<1>3. CASE
       /\ cached = {} /\ UNCHANGED idleRead /\ idleWrite' = writeCache
       /\ call' = [call EXCEPT ![c] =
                     [@ EXCEPT !.conn = NoConn, !.stage = "perform", !.commit = FALSE]]
       /\ Goto(c, "create")
  <2> DEFINE q == [call[c] EXCEPT !.conn = NoConn, !.stage = "perform", !.commit = FALSE]
  <2>1. /\ call' = [call EXCEPT ![c] = q]
        /\ q \in CallType /\ q.conn = NoConn /\ q.stage = "perform"
        /\ q.readOnly = call[c].readOnly
    BY <1>1, <1>3 DEF CallsTyped, CallType
  <2> HIDE DEF q
  <2>2. call' \in [Client -> CallType] /\ call'[c] = q
        /\ \A d \in Client \ {c} : call'[d] = call[d]
    BY <1>1, <2>1 DEF CallsTyped
  <2>3. pc' \in [Client -> Labels] /\ pc'[c] = "create"
        /\ \A d \in Client \ {c} : pc'[d] = pc[d]
    BY <1>1, <1>3 DEF Goto, CallsTyped, Labels
  <2>4. idleRead' = idleRead \ {NoConn} /\ idleWrite' = writeCache \ {NoConn}
    BY <1>1, <1>3 DEF PoolTyped
  <2> QED
    BY <1>3, <2>1, <2>2, <2>3, <2>4 DEF TookConnection
<1> QED
  BY <1>2, <1>3 DEF TakesFromCache

(* A request has neither a connection nor a resource.                      *)
LEMMA RequestInv ==
    ASSUME SecDbInv, NEW c \in Client, Request(c)
    PROVE SecDbInv'
<1>1. CallsTyped'
  BY DEF Request, Goto, CallType, Labels, SecDbInv, CallsTyped
<1>2. PoolTyped'
  BY DEF Request, pool, SecDbInv, PoolTyped
<1>3. QueuesTyped'
  BY DEF Request, resources, queues, handlers, disk, SecDbInv, QueuesTyped
<1>4. HistoryTyped'
  BY DEF Request, history, SecDbInv, HistoryTyped
<1>5. SlotsInOrder'
  <2>1. Readers' = Readers
    BY DEF Request, Goto, Readers
  <2> QED
    BY <2>1 DEF Request, resources, SecDbInv, SlotsInOrder
<1>6. CallsInOrder'
  BY DEF Request, Goto, resources, queues, handlers, SecDbInv, CallsInOrder,
     CallInOrder, HoldsConnection
<1>7. PoolInOrder'
  BY DEF Request, pool, handlers, SecDbInv, PoolInOrder
<1>8. ConnectionsInOrder'
  BY DEF Request, Goto, callVars, pool, resources, queues, handlers, disk,
     history, CallType, SecDbInv, CallsTyped, PoolTyped, QueuesTyped,
     HistoryTyped, CallsInOrder, CallInOrder, HoldsConnection, PoolInOrder,
     ConnectionsInOrder, UseInOrder, Clean
<1>9. DiskInOrder'
  BY DEF Request, Goto, disk, SecDbInv, DiskInOrder
<1> QED
  BY <1>1, <1>2, <1>3, <1>4, <1>5, <1>6, <1>7, <1>8, <1>9 DEF SecDbInv

(* A reader takes one unit of the semaphore, a writer the mutex.           *)
LEMMA ConsumeResourceInv ==
    ASSUME SecDbInv, NEW c \in Client, ConsumeResource(c)
    PROVE SecDbInv'
<1>1. CallsTyped'
  BY DEF ConsumeResource, Goto, Labels, SecDbInv, CallsTyped
<1>2. PoolTyped'
  BY DEF ConsumeResource, pool, SecDbInv, PoolTyped
<1>3. QueuesTyped'
  BY DEF ConsumeResource, queues, handlers, disk, SecDbInv, QueuesTyped
<1>4. HistoryTyped'
  BY DEF ConsumeResource, history, SecDbInv, HistoryTyped
<1>5. SlotsInOrder'
  <2>1. CASE call[c].readOnly
    <3>1. Readers' = Readers \cup {c} /\ c \notin Readers
      BY <2>1 DEF ConsumeResource, Goto, Readers, SecDbInv, CallsTyped
    <3>2. Cardinality(Readers') = Cardinality(Readers) + 1
      BY <3>1, ReadersFinite, FS_AddElement
    <3> QED
      BY <2>1, <3>2, ReadersFinite, FS_CardinalityType DEF ConsumeResource,
         SecDbInv, SlotsInOrder
  <2>2. CASE ~call[c].readOnly
    <3>1. Readers' = Readers
      BY <2>2 DEF ConsumeResource, Goto, Readers, SecDbInv, CallsTyped
    <3> QED
      BY <2>2, <3>1 DEF ConsumeResource, SecDbInv, SlotsInOrder
  <2> QED
    BY <2>1, <2>2
<1>6. CallsInOrder'
  BY DEF ConsumeResource, Goto, queues, handlers, SecDbInv, CallsInOrder,
     CallInOrder, HoldsConnection
<1>7. PoolInOrder'
  BY DEF ConsumeResource, pool, handlers, SecDbInv, PoolInOrder
<1>8. ConnectionsInOrder'
  BY DEF ConsumeResource, Goto, pool, handlers, CallType, SecDbInv,
     CallsInOrder, CallInOrder, PoolInOrder, ConnectionsInOrder, UseInOrder
<1>9. DiskInOrder'
  BY DEF ConsumeResource, Goto, disk, SecDbInv, DiskInOrder
<1> QED
  BY <1>1, <1>2, <1>3, <1>4, <1>5, <1>6, <1>7, <1>8, <1>9 DEF SecDbInv

(* A connection taken out of its cache is nobody else's.                   *)
LEMMA EnterQueueInv ==
    ASSUME SecDbInv, NEW c \in Client, EnterQueue(c)
    PROVE SecDbInv'
<1>1. TookConnection(c, idleWrite)
  BY TakesFromCacheEffect DEF EnterQueue, SecDbInv, PoolTyped
<1>2. /\ pc[c] = "enter" /\ dbQueue = NoClient /\ didFirstOpen
      /\ UNCHANGED <<connection, resources, queues, handlers, disk, history, events>>
  BY DEF EnterQueue
<1>3. call[c].conn = NoConn /\ call[c].stage = "perform"
      /\ (~call[c].readOnly => writeMutex = c)
  BY <1>2 DEF SecDbInv, CallsInOrder, CallInOrder, HoldsConnection,
     CallsTyped, CallType
<1>4. CallsTyped' /\ PoolTyped' /\ QueuesTyped' /\ HistoryTyped'
  BY <1>1, <1>2 DEF TookConnection, resources, queues, handlers, disk,
     history, SecDbInv, CallsTyped, PoolTyped, QueuesTyped, HistoryTyped
<1>5. SlotsInOrder'
  <2>1. Readers' = Readers
    BY <1>1, <1>2 DEF TookConnection, Readers
  <2> QED
    BY <1>2, <2>1 DEF resources, SecDbInv, SlotsInOrder
<1>6. CallsInOrder'
  <2>1. CallInOrder(c)'
    BY <1>1, <1>2, <1>3 DEF TookConnection, resources, handlers,
       CallInOrder, HoldsConnection
  <2>2. \A d \in Client \ {c} : CallInOrder(d)'
    BY <1>1, <1>2 DEF TookConnection, resources, handlers, SecDbInv,
       CallsInOrder, CallInOrder
  <2> QED
    BY <2>1, <2>2 DEF CallsInOrder
<1>7. PoolInOrder'
  BY <1>1, <1>2, <1>3 DEF TookConnection, handlers, SecDbInv, PoolInOrder
<1>8. ConnectionsInOrder'
  <2>1. \A d \in Client \ {c} : (call[d].conn # NoConn)' => UseInOrder(d)'
    <3> SUFFICES ASSUME NEW d \in Client \ {c}, call[d].conn # NoConn
                 PROVE  UseInOrder(d)'
      BY <1>1 DEF TookConnection
    <3>1. UseInOrder(d)
      BY DEF SecDbInv, ConnectionsInOrder
    <3> QED
      BY <1>1, <1>2, <3>1 DEF TookConnection, UseInOrder, Clean
  <2>2. (call[c].conn # NoConn)' => UseInOrder(c)'
    BY <1>1, <1>2, <1>3 DEF TookConnection, SecDbInv, PoolInOrder,
       ConnectionsInOrder, UseInOrder
  <2>3. \A k \in (idleRead \cup idleWrite)' : k \in idleRead \cup idleWrite
    BY <1>1 DEF TookConnection
  <2> QED
    BY <1>2, <2>1, <2>2, <2>3 DEF handlers, SecDbInv, ConnectionsInOrder
<1>9. DiskInOrder'
  BY <1>1, <1>2 DEF TookConnection, disk, SecDbInv, DiskInOrder
<1> QED
  BY <1>4, <1>5, <1>6, <1>7, <1>8, <1>9 DEF SecDbInv

(* The first open keeps db->queue.                                         *)
LEMMA EnterFirstOpenInv ==
    ASSUME SecDbInv, NEW c \in Client, EnterFirstOpen(c)
    PROVE SecDbInv'
<1>1. CallsTyped'
  BY DEF EnterFirstOpen, Goto, Labels, SecDbInv, CallsTyped
<1>2. PoolTyped'
  BY DEF EnterFirstOpen, pool, SecDbInv, PoolTyped
<1>3. QueuesTyped'
  BY DEF EnterFirstOpen, resources, handlers, disk, SecDbInv, QueuesTyped
<1>4. HistoryTyped'
  BY DEF EnterFirstOpen, history, SecDbInv, HistoryTyped
<1>5. SlotsInOrder'
  <2>1. Readers' = Readers
    BY DEF EnterFirstOpen, Goto, Readers
  <2> QED
    BY <2>1 DEF EnterFirstOpen, resources, SecDbInv, SlotsInOrder
<1>6. CallsInOrder'
  BY DEF EnterFirstOpen, Goto, resources, handlers, SecDbInv, CallsInOrder,
     CallInOrder, HoldsConnection
<1>7. PoolInOrder'
  BY DEF EnterFirstOpen, pool, SecDbInv, PoolInOrder
<1>8. ConnectionsInOrder'
  BY DEF EnterFirstOpen, pool, handlers, SecDbInv, CallsInOrder, CallInOrder,
     PoolInOrder, ConnectionsInOrder
<1>9. DiskInOrder'
  BY DEF EnterFirstOpen, Goto, disk, SecDbInv, DiskInOrder
<1> QED
  BY <1>1, <1>2, <1>3, <1>4, <1>5, <1>6, <1>7, <1>8, <1>9 DEF SecDbInv

(* The marker is gone before the database is.                              *)
LEMMA ProcessMarkerInv ==
    ASSUME SecDbInv, NEW c \in Client, ProcessMarker(c)
    PROVE SecDbInv'
<1>1. /\ pc[c] = "marker" /\ file' = file /\ condemned' = condemned
      /\ dbQueue = c /\ call[c].conn = NoConn /\ call[c].stage = "perform"
      /\ UNCHANGED <<pool, resources, commitBarrier, commitShared, engine, handlers, history>>
  BY DEF ProcessMarker, SecDbInv, CallsInOrder, CallInOrder, HoldsConnection
<1>2. /\ call' \in [Client -> CallType] /\ pc' \in [Client -> Labels]
      /\ \A d \in Client \ {c} : call'[d] = call[d] /\ pc'[d] = pc[d]
      /\ call'[c].conn = NoConn /\ call'[c].stage = "perform"
      /\ call'[c].readOnly = call[c].readOnly
      /\ \/ /\ pc'[c] \in {"open", "remove"} /\ dbQueue' = dbQueue
            /\ Event \/ UNCHANGED events
         \/ pc'[c] = "failed" /\ dbQueue' = NoClient /\ Event
      /\ marker' \in BOOLEAN
      /\ marker' => marker /\ pc'[c] # "remove"
      /\ pc'[c] = "remove" => marker
  <2>1. CASE FirstOpenFails(c) /\ marker /\ Event /\ UNCHANGED marker
    BY <2>1, FirstOpenFailsEffect DEF SecDbInv, QueuesTyped
  <2>2. CASE ~marker /\ Goto(c, "open") /\ UNCHANGED <<marker, call, dbQueue, events>>
    BY <1>1, <2>2 DEF Goto, Labels, SecDbInv, CallsTyped, QueuesTyped
  <2>3. CASE /\ marker /\ marker' = FALSE
             /\ Goto(c, "remove") /\ UNCHANGED <<call, dbQueue, events>>
    BY <1>1, <2>3 DEF Goto, Labels, SecDbInv, CallsTyped, QueuesTyped
  <2>4. CASE /\ marker /\ Event /\ UNCHANGED marker
             /\ Goto(c, "open") /\ UNCHANGED <<call, dbQueue>>
    BY <1>1, <2>4 DEF Goto, Labels, SecDbInv, CallsTyped, QueuesTyped
  <2> QED
    BY <2>1, <2>2, <2>3, <2>4 DEF ProcessMarker
<1>3. CallsTyped' /\ PoolTyped' /\ QueuesTyped' /\ HistoryTyped'
  BY <1>1, <1>2 DEF Event, pool, resources, handlers, history, SecDbInv,
     CallsTyped, PoolTyped, QueuesTyped, HistoryTyped
<1>4. SlotsInOrder'
  <2>1. Readers' = Readers
    BY <1>1, <1>2 DEF Readers
  <2> QED
    BY <1>1, <2>1 DEF resources, SecDbInv, SlotsInOrder
<1>5. CallsInOrder'
  BY <1>1, <1>2 DEF resources, handlers, HoldsConnection, SecDbInv,
     CallsInOrder, CallInOrder
<1>6. PoolInOrder'
  BY <1>1, <1>2 DEF pool, handlers, SecDbInv, PoolInOrder
<1>7. ConnectionsInOrder'
  <2>1. \A d \in Client : (call[d].conn # NoConn)' => UseInOrder(d)'
    <3> SUFFICES ASSUME NEW d \in Client \ {c}, call[d].conn # NoConn
                 PROVE  UseInOrder(d)'
      BY <1>2
    <3>1. UseInOrder(d)
      BY DEF SecDbInv, ConnectionsInOrder
    <3> QED
      BY <1>1, <1>2, <3>1 DEF pool, UseInOrder, Clean
  <2> QED
    BY <1>1, <2>1 DEF pool, handlers, SecDbInv, ConnectionsInOrder, Clean
<1>8. DiskInOrder'
  BY <1>1, <1>2 DEF SecDbInv, DiskInOrder, CallsInOrder, CallInOrder
<1> QED
  BY <1>3, <1>4, <1>5, <1>6, <1>7, <1>8 DEF SecDbInv

(* With the file goes what was held against it.                            *)
LEMMA RemoveDatabaseInv ==
    ASSUME SecDbInv, NEW c \in Client, RemoveDatabase(c)
    PROVE SecDbInv'
<1>1. /\ pc[c] = "remove" /\ marker' = marker /\ dbQueue = c /\ call[c].conn = NoConn
      /\ call[c].stage = "perform" /\ ~marker
      /\ UNCHANGED <<pool, resources, commitBarrier, commitShared, engine, handlers, history>>
  BY DEF RemoveDatabase, SecDbInv, CallsInOrder, CallInOrder, HoldsConnection,
     DiskInOrder
<1>2. /\ call' \in [Client -> CallType] /\ pc' \in [Client -> Labels]
      /\ \A d \in Client \ {c} : call'[d] = call[d] /\ pc'[d] = pc[d]
      /\ call'[c].conn = NoConn /\ call'[c].stage = "perform"
      /\ call'[c].readOnly = call[c].readOnly
      /\ \/ pc'[c] = "open" /\ dbQueue' = dbQueue /\ UNCHANGED events
         \/ pc'[c] = "failed" /\ dbQueue' = NoClient /\ Event
      /\ file' \in {file, "absent"} /\ condemned' \in {condemned, FALSE}
  <2>1. CASE Event /\ FirstOpenFails(c) /\ UNCHANGED <<file, condemned>>
    BY <2>1, FirstOpenFailsEffect
  <2>2. CASE /\ file' = "absent" /\ condemned' = FALSE
             /\ Goto(c, "open") /\ UNCHANGED <<call, dbQueue, events>>
    BY <1>1, <2>2 DEF Goto, Labels, SecDbInv, CallsTyped
  <2> QED
    BY <2>1, <2>2 DEF RemoveDatabase
<1>3. CallsTyped' /\ PoolTyped' /\ QueuesTyped' /\ HistoryTyped'
  <2>1. file' \in {"absent", "good", "corrupt"} /\ condemned' \in BOOLEAN
    BY <1>2 DEF SecDbInv, QueuesTyped
  <2>2. CallsTyped' /\ PoolTyped' /\ HistoryTyped'
    BY <1>1, <1>2 DEF Event, pool, resources, history, SecDbInv,
       CallsTyped, PoolTyped, HistoryTyped
  <2>3. QueuesTyped'
    BY <1>1, <1>2, <2>1 DEF resources, handlers, SecDbInv, QueuesTyped
  <2> QED
    BY <2>2, <2>3
<1>4. SlotsInOrder'
  <2>1. Readers' = Readers
    BY <1>1, <1>2 DEF Readers
  <2> QED
    BY <1>1, <2>1 DEF resources, SecDbInv, SlotsInOrder
<1>5. CallsInOrder'
  BY <1>1, <1>2 DEF resources, handlers, HoldsConnection, SecDbInv,
     CallsInOrder, CallInOrder
<1>6. PoolInOrder'
  BY <1>1, <1>2 DEF pool, handlers, SecDbInv, PoolInOrder
<1>7. ConnectionsInOrder'
  <2>1. \A d \in Client : (call[d].conn # NoConn)' => UseInOrder(d)'
    <3> SUFFICES ASSUME NEW d \in Client \ {c}, (call[d].conn # NoConn)'
                 PROVE  UseInOrder(d)'
      BY <1>2
    <3>1. UseInOrder(d)
      BY <1>2 DEF SecDbInv, ConnectionsInOrder
    <3> QED
      BY <1>1, <1>2, <3>1 DEF pool, UseInOrder, Clean
  <2> QED
    BY <1>1, <2>1 DEF pool, handlers, SecDbInv, ConnectionsInOrder, Clean
<1>8. DiskInOrder'
  BY <1>1, <1>2 DEF SecDbInv, DiskInOrder, CallsInOrder, CallInOrder
<1> QED
  BY <1>3, <1>4, <1>5, <1>6, <1>7, <1>8 DEF SecDbInv

(* The first open makes the only connection there is.                      *)
LEMMA FirstOpenInv ==
    ASSUME SecDbInv, NEW c \in Client, FirstOpen(c)
    PROVE SecDbInv'
<1>1. /\ pc[c] = "open" /\ dbQueue = c /\ ~didFirstOpen /\ call[c].conn = NoConn
      /\ call[c].stage = "perform"
      /\ ~call[c].readOnly => writeMutex = c
      /\ UNCHANGED <<idleRead, idleWrite, resources, commitBarrier, commitShared,
                     engine, didFirstOpen, notify, marker, history>>
  BY DEF FirstOpen, SecDbInv, CallsInOrder, CallInOrder, HoldsConnection
<1>2. idleRead = {} /\ idleWrite = {} /\ \A d \in Client : call[d].conn = NoConn
  BY <1>1 DEF SecDbInv, PoolInOrder, CallsInOrder, CallInOrder
<1>3. CASE /\ FirstOpenFails(c) /\ Event
            /\ UNCHANGED <<connection, file, condemned, callAgain>>
  <2>1. CallsTyped' /\ PoolTyped' /\ QueuesTyped' /\ HistoryTyped'
    BY <1>1, <1>3, FirstOpenFailsEffect DEF Event, resources, history,
       SecDbInv, CallsTyped, PoolTyped, QueuesTyped, HistoryTyped
  <2>2. SlotsInOrder'
    <3>1. Readers' = Readers
      BY <1>1, <1>3, FirstOpenFailsEffect DEF Readers
    <3> QED
      BY <1>1, <3>1 DEF resources, SecDbInv, SlotsInOrder
  <2>3. CallsInOrder' /\ DiskInOrder'
    BY <1>1, <1>3, FirstOpenFailsEffect DEF resources, HoldsConnection,
       SecDbInv, CallsInOrder, CallInOrder, DiskInOrder
  <2>4. PoolInOrder' /\ ConnectionsInOrder'
    BY <1>1, <1>2, <1>3, FirstOpenFailsEffect DEF SecDbInv, PoolInOrder,
       ConnectionsInOrder, UseInOrder, Clean
  <2> QED
    BY <2>1, <2>2, <2>3, <2>4 DEF SecDbInv
<1>4. CASE
        /\ ~(Conn \subseteq InUse)
        /\ connection' = [connection EXCEPT ![Spare] = NewConnection(FALSE)]
        /\ call' = [call EXCEPT ![c] = [@ EXCEPT !.conn = Spare, !.stage = "firstOpen"]]
        /\ file' = IF file = "absent" THEN "good" ELSE file
        /\ condemned' = (condemned /\ marker)
        /\ callAgain' = FALSE
        /\ Goto(c, "begin") /\ UNCHANGED <<dbQueue, events>>
  <2> DEFINE q == [call[c] EXCEPT !.conn = Spare, !.stage = "firstOpen"]
  <2>1. Spare \in Conn /\ Spare # NoConn
    BY <1>4, SpareIsFree
  <2>2. /\ q \in CallType /\ q.conn = Spare /\ q.stage = "firstOpen"
        /\ q.readOnly = call[c].readOnly
        /\ call' = [call EXCEPT ![c] = q]
    BY <1>4, <2>1 DEF SecDbInv, CallsTyped, CallType
  <2> HIDE DEF q
  <2>3. /\ call' \in [Client -> CallType] /\ call'[c] = q
        /\ \A d \in Client \ {c} : call'[d] = call[d]
    BY <2>2 DEF SecDbInv, CallsTyped
  <2>4. /\ pc' \in [Client -> Labels] /\ pc'[c] = "begin"
        /\ \A d \in Client \ {c} : pc'[d] = pc[d]
    BY <1>4 DEF Goto, Labels, SecDbInv, CallsTyped
  <2>5. /\ connection' \in [Conn -> ConnectionType]
        /\ connection'[Spare] = NewConnection(FALSE)
        /\ \A k \in Conn \ {Spare} : connection'[k] = connection[k]
    BY <1>4, <2>1 DEF NewConnection, ConnectionType, Source, SecDbInv,
       PoolTyped
  <2>6. CallsTyped' /\ PoolTyped' /\ QueuesTyped' /\ HistoryTyped'
    BY <1>1, <1>4, <2>3, <2>4, <2>5 DEF resources, history, SecDbInv,
       CallsTyped, PoolTyped, QueuesTyped, HistoryTyped
  <2>7. SlotsInOrder'
    <3>1. Readers' = Readers
      BY <1>1, <2>2, <2>3, <2>4 DEF Readers
    <3> QED
      BY <1>1, <3>1 DEF resources, SecDbInv, SlotsInOrder
  <2>8. CallsInOrder'
    BY <1>1, <1>4, <2>1, <2>2, <2>3, <2>4 DEF resources, HoldsConnection,
       SecDbInv, CallsInOrder, CallInOrder
  <2>9. PoolInOrder'
    BY <1>1, <1>2, <2>1, <2>2, <2>3 DEF PoolInOrder
  <2>10. ConnectionsInOrder'
    <3>1. Clean(connection'[Spare]) /\ ~connection'[Spare].readOnly
          /\ ~connection'[Spare].hasIOFailure
      BY <2>5 DEF NewConnection, Clean
    <3>2. UseInOrder(c)'
      BY <2>2, <2>3, <2>4, <3>1 DEF UseInOrder, Clean
    <3>3. ~notify' => \A k \in Conn : connection'[k].changes = {}
      BY <1>1, <2>1, <2>5, <3>1 DEF SecDbInv, ConnectionsInOrder, Clean
    <3> QED
      BY <1>1, <1>2, <2>3, <3>2, <3>3 DEF ConnectionsInOrder
  <2>11. DiskInOrder'
    <3>1. \A d \in Client : pc'[d] # "remove"
      BY <1>1, <2>4 DEF SecDbInv, CallsInOrder, CallInOrder
    <3>2. marker => file' = "corrupt" \/ condemned'
      BY <1>4 DEF SecDbInv, DiskInOrder
    <3> QED
      BY <1>1, <3>1, <3>2 DEF DiskInOrder
  <2> QED
    BY <2>6, <2>7, <2>8, <2>9, <2>10, <2>11 DEF SecDbInv
<1> QED
  BY <1>3, <1>4 DEF FirstOpen

(* Its connection, clean and healthy as the handler succeeded, enters the  *)
(* pool.                                                                   *)
LEMMA FirstOpenDoneInv ==
    ASSUME SecDbInv, NEW c \in Client, FirstOpenDone(c)
    PROVE SecDbInv'
<1> DEFINE own == call[c].conn
<1>1. /\ pc[c] = "opened" /\ call[c].stage = "firstOpen" /\ call[c].commit
      /\ didFirstOpen' = TRUE /\ dbQueue' = NoClient
      /\ UNCHANGED <<connection, resources, commitBarrier, commitShared, engine,
                     notify, disk, history>>
  BY DEF FirstOpenDone
<1>2. /\ dbQueue = c /\ ~didFirstOpen /\ own \in Conn /\ own # NoConn
      /\ ~call[c].readOnly => writeMutex = c
  BY <1>1 DEF SecDbInv, CallsTyped, CallType, CallsInOrder, CallInOrder,
     HoldsConnection
<1>3. /\ idleRead = {} /\ idleWrite = {}
      /\ \A d \in Client \ {c} :
           /\ call[d].conn = NoConn /\ call[d].stage = "perform"
           /\ pc[d] \notin {"marker", "remove", "open"}
  BY <1>1, <1>2 DEF SecDbInv, PoolInOrder, CallsInOrder, CallInOrder
<1>4. /\ ~connection[own].readOnly /\ Clean(connection[own])
      /\ ~connection[own].hasIOFailure
  BY <1>1, <1>2 DEF SecDbInv, ConnectionsInOrder, UseInOrder
<1>5. TookConnection(c, {own})
  <2>1. TakesFromCache(c, {own}, TRUE)
    BY <1>3 DEF FirstOpenDone
  <2> QED
    BY <1>2, <2>1, TakesFromCacheEffect
<1>6. QueuesTyped' /\ HistoryTyped'
  <2>1. callAgain' \in BOOLEAN /\ (UNCHANGED events \/ Event)
    BY DEF FirstOpenDone, AsksAgain
  <2>2. events' \in 0 .. MaxEvents
    BY <2>1 DEF Event, SecDbInv, HistoryTyped
  <2> QED
    BY <1>1, <2>1, <2>2 DEF resources, disk, history, SecDbInv,
       QueuesTyped, HistoryTyped
<1>7. CallsTyped' /\ PoolTyped'
  BY <1>1, <1>2, <1>3, <1>5 DEF TookConnection, SecDbInv, CallsTyped,
     PoolTyped
<1>8. SlotsInOrder'
  <2>1. Readers' = Readers
    BY <1>1, <1>5 DEF TookConnection, Readers
  <2> QED
    BY <1>1, <2>1 DEF resources, SecDbInv, SlotsInOrder
<1>9. CallsInOrder'
  <2>1. CallInOrder(c)'
    BY <1>1, <1>2, <1>5 DEF TookConnection, resources, CallInOrder,
       HoldsConnection
  <2>2. \A d \in Client \ {c} : CallInOrder(d)'
    BY <1>1, <1>3, <1>5 DEF TookConnection, resources, SecDbInv,
       CallsInOrder, CallInOrder
  <2> QED
    BY <2>1, <2>2 DEF CallsInOrder
<1>10. PoolInOrder'
  BY <1>1, <1>2, <1>3, <1>4, <1>5 DEF TookConnection, PoolInOrder
<1>11. ConnectionsInOrder'
  <2>1. \A d \in Client \ {c} : call'[d].conn = NoConn
    BY <1>3, <1>5 DEF TookConnection
  <2>2. (call[c].conn # NoConn)' => UseInOrder(c)'
    BY <1>1, <1>3, <1>4, <1>5 DEF TookConnection, UseInOrder, Clean
  <2>3. \A k \in (idleRead \cup idleWrite)' : k = own
    BY <1>3, <1>5 DEF TookConnection
  <2>4. ~notify' => \A k \in Conn : connection'[k].changes = {}
    BY <1>1 DEF SecDbInv, ConnectionsInOrder
  <2> QED
    BY <1>1, <1>4, <2>1, <2>2, <2>3, <2>4 DEF ConnectionsInOrder, Clean
<1>12. DiskInOrder'
  BY <1>1, <1>5 DEF TookConnection, disk, SecDbInv, DiskInOrder
<1> QED
  BY <1>6, <1>7, <1>8, <1>9, <1>10, <1>11, <1>12 DEF SecDbInv

(* A connection whose handler failed is destroyed.                         *)
LEMMA OpenedFailsInv ==
    ASSUME SecDbInv, NEW c \in Client, OpenedFails(c)
    PROVE SecDbInv'
<1>1. /\ pc[c] = "opened" /\ call[c].stage # "perform" /\ FirstOpenFails(c)
      /\ connection' = Destroy({call[c].conn})
      /\ UNCHANGED <<idleRead, idleWrite, resources, commitBarrier, commitShared, engine,
                     didFirstOpen, notify, disk, history>>
  BY DEF OpenedFails, SecDbInv, CallsInOrder, CallInOrder
<1>2. /\ dbQueue = c /\ call[c].conn \in Conn
      /\ ~call[c].readOnly => writeMutex = c
  BY <1>1 DEF SecDbInv, CallsTyped, CallType, CallsInOrder, CallInOrder,
     HoldsConnection
<1>3. /\ call' \in [Client -> CallType] /\ pc' \in [Client -> Labels]
      /\ \A d \in Client \ {c} : call'[d] = call[d] /\ pc'[d] = pc[d]
      /\ call'[c].conn = NoConn /\ call'[c].stage = "perform"
      /\ call'[c].readOnly = call[c].readOnly
      /\ pc'[c] = "failed" /\ dbQueue' = NoClient
  BY <1>1, FirstOpenFailsEffect
<1>4. /\ connection' \in [Conn -> ConnectionType]
      /\ \A k \in Conn \ {call[c].conn} : connection'[k] = connection[k]
      /\ connection'[call[c].conn].changes = {}
  BY <1>1, <1>2 DEF Destroy, NewConnection, ConnectionType, Source,
     SecDbInv, PoolTyped
<1>5. CallsTyped' /\ PoolTyped' /\ QueuesTyped' /\ HistoryTyped'
  <2>1. callAgain' \in BOOLEAN /\ (UNCHANGED events \/ Event)
    BY DEF OpenedFails, AsksAgain
  <2>2. events' \in 0 .. MaxEvents
    BY <2>1 DEF Event, SecDbInv, HistoryTyped
  <2> QED
    BY <1>1, <1>4, <2>1, <2>2, <1>3 DEF resources, disk, history, SecDbInv,
       CallsTyped, PoolTyped, QueuesTyped, HistoryTyped
<1>6. SlotsInOrder'
  <2>1. Readers' = Readers
    BY <1>1, <1>3 DEF Readers
  <2> QED
    BY <1>1, <2>1 DEF resources, SecDbInv, SlotsInOrder
<1>7. CallsInOrder'
  BY <1>1, <1>2, <1>3 DEF resources, HoldsConnection, SecDbInv,
     CallsInOrder, CallInOrder
<1>8. PoolInOrder'
  <2>1. \A k \in idleRead \cup idleWrite : k \in Conn \ {call[c].conn}
    BY DEF SecDbInv, PoolInOrder, PoolTyped
  <2>2. NoConn \notin idleRead \cup idleWrite
    BY DEF SecDbInv, PoolTyped
  <2>3. \A d, e \in Client :
          d # e /\ call'[d].conn # NoConn => call'[d].conn # call'[e].conn
    BY <1>3 DEF SecDbInv, PoolInOrder
  <2>4. \A d \in Client : call'[d].conn \notin idleRead \cup idleWrite
    BY <1>3, <2>2 DEF SecDbInv, PoolInOrder
  <2>5. \A k \in idleRead \cup idleWrite : connection'[k] = connection[k]
    BY <1>4, <2>1
  <2>6. ~didFirstOpen =>
          \A d \in Client : call'[d].conn # NoConn => call'[d].stage = "firstOpen"
    BY <1>3 DEF SecDbInv, PoolInOrder
  <2> QED
    BY <1>1, <2>3, <2>4, <2>5, <2>6 DEF SecDbInv, PoolInOrder
<1>9. ConnectionsInOrder'
  <2>1. \A k \in idleRead \cup idleWrite : k \in Conn \ {call[c].conn}
    BY DEF SecDbInv, PoolInOrder, PoolTyped
  <2>2. \A d \in Client \ {c} : (call[d].conn # NoConn)' => UseInOrder(d)'
    <3> SUFFICES ASSUME NEW d \in Client \ {c}, call[d].conn # NoConn
                 PROVE  UseInOrder(d)'
      BY <1>3
    <3>1. UseInOrder(d) /\ call[d].conn \in Conn \ {call[c].conn}
      BY DEF SecDbInv, ConnectionsInOrder, PoolInOrder, CallsTyped,
         CallType
    <3> QED
      BY <1>1, <1>4, <3>1, <1>3 DEF UseInOrder, Clean
  <2>3. ~notify' => \A k \in Conn : connection'[k].changes = {}
    BY <1>1, <1>4 DEF SecDbInv, ConnectionsInOrder
  <2> QED
    BY <1>1, <1>4, <2>1, <2>2, <2>3, <1>3 DEF SecDbInv, ConnectionsInOrder,
       Clean
<1>10. DiskInOrder'
  BY <1>1, <1>3 DEF disk, SecDbInv, DiskInOrder
<1> QED
  BY <1>5, <1>6, <1>7, <1>8, <1>9, <1>10 DEF SecDbInv

(* A connection created outside the queue is of the kind asked for.        *)
LEMMA CreateInv == ASSUME SecDbInv, NEW c \in Client, Create(c) PROVE SecDbInv'
<1>1. /\ pc[c] = "create" /\ call[c].conn = NoConn /\ call[c].stage = "perform"
      /\ ~call[c].readOnly => writeMutex = c
      /\ UNCHANGED <<idleRead, idleWrite, resources, queues, handlers, disk, history>>
  BY DEF Create, SecDbInv, CallsInOrder, CallInOrder, HoldsConnection
<1>2. CASE Event /\ Goto(c, "failed") /\ UNCHANGED <<call, connection>>
  <2>1. CallsTyped' /\ PoolTyped' /\ QueuesTyped' /\ HistoryTyped'
    BY <1>1, <1>2 DEF Event, Goto, Labels, resources, queues, handlers,
       disk, history, SecDbInv, CallsTyped, PoolTyped, QueuesTyped,
       HistoryTyped
  <2>2. SlotsInOrder'
    <3>1. Readers' = Readers
      BY <1>1, <1>2 DEF Goto, Readers, SecDbInv, CallsTyped
    <3> QED
      BY <1>1, <3>1 DEF resources, SecDbInv, SlotsInOrder
  <2>3. CallsInOrder' /\ DiskInOrder'
    BY <1>1, <1>2 DEF Goto, resources, queues, handlers, disk,
       HoldsConnection, SecDbInv, CallsInOrder, CallInOrder, DiskInOrder
  <2>4. PoolInOrder' /\ ConnectionsInOrder'
    BY <1>1, <1>2 DEF Goto, handlers, SecDbInv, PoolInOrder,
       ConnectionsInOrder, UseInOrder
  <2> QED
    BY <2>1, <2>2, <2>3, <2>4 DEF SecDbInv
<1>3. CASE
        /\ ~(Conn \subseteq InUse)
        /\ connection' = [connection EXCEPT ![Spare] = NewConnection(call[c].readOnly)]
        /\ call' = [call EXCEPT ![c].conn = Spare]
        /\ Goto(c, IF call[c].readOnly THEN "perform" ELSE "check")
        /\ UNCHANGED events
  <2> DEFINE q == [call[c] EXCEPT !.conn = Spare]
  <2>1. /\ Spare \in Conn /\ Spare # NoConn /\ Spare \notin idleRead \cup idleWrite
        /\ \A d \in Client : call[d].conn # Spare
    BY <1>3, SpareIsFree
  <2>2. /\ q \in CallType /\ q.conn = Spare /\ q.stage = "perform"
        /\ q.readOnly = call[c].readOnly
        /\ call' = [call EXCEPT ![c] = q]
    BY <1>1, <1>3, <2>1 DEF SecDbInv, CallsTyped, CallType
  <2> HIDE DEF q
  <2>3. /\ call' \in [Client -> CallType] /\ call'[c] = q
        /\ \A d \in Client \ {c} : call'[d] = call[d]
    BY <2>2 DEF SecDbInv, CallsTyped
  <2>4. /\ pc' \in [Client -> Labels]
        /\ pc'[c] = IF call[c].readOnly THEN "perform" ELSE "check"
        /\ \A d \in Client \ {c} : pc'[d] = pc[d]
    BY <1>3 DEF Goto, Labels, SecDbInv, CallsTyped
  <2>5. call[c].readOnly \in BOOLEAN
    BY DEF SecDbInv, CallsTyped, CallType
  <2>6. /\ NewConnection(call[c].readOnly) \in ConnectionType
        /\ Clean(NewConnection(call[c].readOnly))
        /\ NewConnection(call[c].readOnly).readOnly = call[c].readOnly
    BY <2>5 DEF NewConnection, ConnectionType, Source, Clean
  <2>7. /\ connection' \in [Conn -> ConnectionType]
        /\ connection'[Spare] = NewConnection(call[c].readOnly)
        /\ \A k \in Conn \ {Spare} : connection'[k] = connection[k]
    BY <1>3, <2>1, <2>6 DEF SecDbInv, PoolTyped
  <2>8. CallsTyped' /\ PoolTyped' /\ QueuesTyped' /\ HistoryTyped'
    BY <1>1, <1>3, <2>3, <2>4, <2>7 DEF resources, queues, handlers, disk,
       history, SecDbInv, CallsTyped, PoolTyped, QueuesTyped, HistoryTyped
  <2>9. SlotsInOrder'
    <3>1. Readers' = Readers
      BY <1>1, <2>2, <2>3, <2>4 DEF Readers
    <3> QED
      BY <1>1, <3>1 DEF resources, SecDbInv, SlotsInOrder
  <2>10. CallsInOrder'
    BY <1>1, <2>1, <2>2, <2>3, <2>4 DEF resources, queues, handlers,
       HoldsConnection, SecDbInv, CallsInOrder, CallInOrder
  <2>11. didFirstOpen
    BY <1>1 DEF SecDbInv, CallsInOrder, CallInOrder
  <2>12. PoolInOrder'
    BY <1>1, <2>1, <2>2, <2>3, <2>7, <2>11 DEF handlers, SecDbInv,
       PoolInOrder, PoolTyped
  <2>13. ConnectionsInOrder'
    <3>1. UseInOrder(c)'
      BY <2>2, <2>3, <2>4, <2>6, <2>7 DEF UseInOrder, Clean
    <3>2. \A d \in Client \ {c} : (call[d].conn # NoConn)' => UseInOrder(d)'
      <4> SUFFICES ASSUME NEW d \in Client \ {c}, call[d].conn # NoConn
                   PROVE  UseInOrder(d)'
        BY <2>3
      <4>1. UseInOrder(d) /\ call[d].conn \in Conn \ {Spare}
        BY <2>1 DEF SecDbInv, ConnectionsInOrder, CallsTyped, CallType
      <4> QED
        BY <2>3, <2>4, <2>7, <4>1 DEF UseInOrder, Clean
    <3>3. ~notify' => \A k \in Conn : connection'[k].changes = {}
      BY <1>1, <2>1, <2>6, <2>7 DEF handlers, SecDbInv, ConnectionsInOrder,
         Clean
    <3>4. \A k \in idleRead \cup idleWrite : k \in Conn \ {Spare}
      BY <2>1 DEF SecDbInv, PoolTyped
    <3> QED
      BY <1>1, <2>7, <3>1, <3>2, <3>3, <3>4 DEF SecDbInv,
         ConnectionsInOrder, Clean
  <2>14. DiskInOrder'
    BY <1>1, <2>4 DEF disk, SecDbInv, DiskInOrder
  <2> QED
    BY <2>8, <2>9, <2>10, <2>12, <2>13, <2>14 DEF SecDbInv
<1> QED
  BY <1>2, <1>3 DEF Create

(* A failed acquisition gives back what it took.                           *)
LEMMA AcquireFailedInv ==
    ASSUME SecDbInv, NEW c \in Client, AcquireFailed(c)
    PROVE SecDbInv'
<1>1. CallsTyped'
  BY DEF AcquireFailed, Goto, NoCall, CallType, Source, Labels, SecDbInv,
     CallsTyped
<1>2. PoolTyped'
  BY DEF AcquireFailed, pool, SecDbInv, PoolTyped
<1>3. QueuesTyped'
  BY DEF AcquireFailed, MakeResourceAvailable, queues, handlers, disk,
     SecDbInv, QueuesTyped
<1>4. HistoryTyped'
  BY DEF AcquireFailed, history, SecDbInv, HistoryTyped
<1>5. SlotsInOrder'
  <2>1. CASE call[c].readOnly
    <3>1. Readers' = Readers \ {c} /\ c \in Readers
      BY <2>1 DEF AcquireFailed, Goto, NoCall, Readers, SecDbInv,
         CallsTyped
    <3>2. Cardinality(Readers') = Cardinality(Readers) - 1
      BY <3>1, ReadersFinite, FS_RemoveElement
    <3> QED
      BY <2>1, <3>2, ReadersFinite, FS_CardinalityType DEF AcquireFailed,
         MakeResourceAvailable, SecDbInv, SlotsInOrder
  <2>2. CASE ~call[c].readOnly
    <3>1. Readers' = Readers
      BY <2>2 DEF AcquireFailed, Goto, NoCall, Readers, SecDbInv,
         CallsTyped
    <3> QED
      BY <2>2, <3>1 DEF AcquireFailed, MakeResourceAvailable, SecDbInv,
         SlotsInOrder
  <2> QED
    BY <2>1, <2>2
<1>6. CallsInOrder'
  BY DEF AcquireFailed, MakeResourceAvailable, Goto, NoCall, queues,
     handlers, SecDbInv, CallsTyped, CallsInOrder, CallInOrder,
     HoldsConnection
<1>7. PoolInOrder'
  BY DEF AcquireFailed, NoCall, pool, handlers, SecDbInv, PoolTyped,
     PoolInOrder
<1>8. ConnectionsInOrder'
  BY DEF AcquireFailed, Goto, NoCall, pool, handlers, SecDbInv, CallsTyped,
     ConnectionsInOrder, UseInOrder
<1>9. DiskInOrder'
  BY DEF AcquireFailed, Goto, disk, SecDbInv, DiskInOrder
<1> QED
  BY <1>1, <1>2, <1>3, <1>4, <1>5, <1>6, <1>7, <1>8, <1>9 DEF SecDbInv

(* A connection that met an I/O error takes the pool with it.              *)
LEMMA ReleaseInv ==
    ASSUME SecDbInv, NEW c \in Client, Release(c)
    PROVE SecDbInv'
<1>1. CallsTyped'
  BY DEF Release, Releases, Destroy, NewConnection, Goto, callVars, pool,
     resources, queues, handlers, disk, history, CallType, Source, Labels,
     SecDbInv, CallsTyped, PoolTyped, QueuesTyped, HistoryTyped, PoolInOrder
<1>2. PoolTyped'
  <2>1. \A ks \in SUBSET Conn : Destroy(ks) \in [Conn -> ConnectionType]
    BY DEF Destroy, NewConnection, ConnectionType, Source, SecDbInv,
       PoolTyped
  <2>2. call[c].conn \in Conn
    BY DEF Release, Releases, SecDbInv, CallsTyped, CallType, CallsInOrder,
       CallInOrder, HoldsConnection
  <2>3. {call[c].conn} \subseteq Conn /\ idleRead \cup idleWrite \cup {call[c].conn} \subseteq Conn
    BY <2>2 DEF SecDbInv, PoolTyped
  <2>4. connection' \in [Conn -> ConnectionType]
    BY <2>1, <2>3 DEF Release, SecDbInv, PoolTyped
  <2> QED
    BY <2>2, <2>4 DEF Release, SecDbInv, PoolTyped
<1>3. QueuesTyped'
  BY DEF Release, resources, queues, handlers, disk, SecDbInv, QueuesTyped
<1>4. HistoryTyped'
  BY DEF Release, history, SecDbInv, HistoryTyped
<1>5. SlotsInOrder'
  <2>1. Readers' = Readers
    BY DEF Release, Releases, Goto, Readers
  <2> QED
    BY <2>1 DEF Release, resources, SecDbInv, SlotsInOrder
<1>6. CallsInOrder'
  BY DEF Release, Releases, Goto, resources, handlers, SecDbInv, CallsTyped,
     CallsInOrder, CallInOrder, HoldsConnection
<1>7. PoolInOrder'
  BY DEF Release, Releases, Destroy, NewConnection, Goto, callVars, pool,
     resources, queues, handlers, disk, history, CallType, SecDbInv,
     CallsTyped, PoolTyped, QueuesTyped, HistoryTyped, CallsInOrder,
     CallInOrder, HoldsConnection, PoolInOrder, ConnectionsInOrder,
     UseInOrder, Clean
<1>8. ConnectionsInOrder'
  <2> DEFINE k == call[c].conn
  <2>1. /\ k # NoConn /\ Clean(connection[k]) /\ pc[c] \in HoldsConnection
        /\ \A i \in idleRead \cup idleWrite :
             Clean(connection[i]) /\ ~connection[i].hasIOFailure
    BY DEF Release, Releases, HoldsConnection, SecDbInv, CallsInOrder,
       CallInOrder, ConnectionsInOrder, UseInOrder
  <2>2. /\ call'[c].conn = NoConn
        /\ \A d \in Client \ {c} : call'[d] = call[d] /\ pc'[d] = pc[d]
    BY DEF Release, Goto, SecDbInv, CallsTyped, CallType
  <2>3. \A i \in idleRead' \cup idleWrite' :
          /\ i \in idleRead \cup idleWrite \/ (i = k /\ ~connection[k].hasIOFailure)
          /\ connection'[i] = connection[i]
    <3>1. CASE connection[k].hasIOFailure
      BY <3>1 DEF Release
    <3>2. CASE ~connection[k].hasIOFailure /\ HasRoom(c)
      BY <3>2 DEF Release
    <3>3. CASE ~connection[k].hasIOFailure /\ ~HasRoom(c)
      <4>1. k \notin idleRead \cup idleWrite
        BY DEF SecDbInv, PoolInOrder
      <4> QED
        BY <3>3, <4>1 DEF Release, Destroy, SecDbInv, PoolTyped
    <3> QED
      BY <3>1, <3>2, <3>3
  <2>4. \A d \in Client \ {c} : call[d].conn # NoConn =>
          connection'[call[d].conn] = connection[call[d].conn]
    <3> SUFFICES ASSUME NEW d \in Client \ {c}, call[d].conn # NoConn
                 PROVE  connection'[call[d].conn] = connection[call[d].conn]
      OBVIOUS
    <3>1. /\ call[d].conn \in Conn
          /\ call[d].conn \notin idleRead \cup idleWrite \cup {k}
      BY DEF SecDbInv, CallsTyped, CallType, PoolInOrder
    <3>2. connection' = connection \/ connection' = Destroy({k})
          \/ connection' = Destroy(idleRead \cup idleWrite \cup {k})
      BY DEF Release
    <3> QED
      BY <3>1, <3>2 DEF Destroy
  <2>5. \A d \in Client : (call[d].conn # NoConn)' => UseInOrder(d)'
    <3> SUFFICES ASSUME NEW d \in Client \ {c}, call[d].conn # NoConn
                 PROVE  UseInOrder(d)'
      BY <2>2
    <3>1. UseInOrder(d)
      BY DEF SecDbInv, ConnectionsInOrder
    <3> QED
      BY <2>2, <2>4, <3>1 DEF UseInOrder, Clean
  <2>6. ~notify' => \A i \in Conn : connection'[i].changes = {}
    BY DEF Release, Destroy, NewConnection, handlers, SecDbInv,
       ConnectionsInOrder
  <2>7. \A i \in idleRead' \cup idleWrite' :
          Clean(connection'[i]) /\ ~connection'[i].hasIOFailure
    BY <2>1, <2>3
  <2> QED
    BY <2>5, <2>6, <2>7 DEF ConnectionsInOrder, Clean
<1>9. DiskInOrder'
  BY DEF Release, Goto, disk, SecDbInv, DiskInOrder
<1> QED
  BY <1>1, <1>2, <1>3, <1>4, <1>5, <1>6, <1>7, <1>8, <1>9 DEF SecDbInv

(* A client that is done gives back what it took.                          *)
LEMMA SignalInv == ASSUME SecDbInv, NEW c \in Client, Signal(c) PROVE SecDbInv'
<1>1. CallsTyped'
  BY DEF Signal, Goto, NoCall, CallType, Source, Labels, SecDbInv, CallsTyped
<1>2. PoolTyped'
  BY DEF Signal, pool, SecDbInv, PoolTyped
<1>3. QueuesTyped'
  BY DEF Signal, MakeResourceAvailable, queues, handlers, disk, SecDbInv,
     QueuesTyped
<1>4. HistoryTyped'
  BY DEF Signal, history, SecDbInv, HistoryTyped
<1>5. SlotsInOrder'
  <2>1. CASE call[c].readOnly
    <3>1. Readers' = Readers \ {c} /\ c \in Readers
      BY <2>1 DEF Signal, Goto, NoCall, Readers, SecDbInv, CallsTyped
    <3>2. Cardinality(Readers') = Cardinality(Readers) - 1
      BY <3>1, ReadersFinite, FS_RemoveElement
    <3> QED
      BY <2>1, <3>2, ReadersFinite, FS_CardinalityType DEF Signal,
         MakeResourceAvailable, SecDbInv, SlotsInOrder
  <2>2. CASE ~call[c].readOnly
    <3>1. Readers' = Readers
      BY <2>2 DEF Signal, Goto, NoCall, Readers, SecDbInv, CallsTyped
    <3> QED
      BY <2>2, <3>1 DEF Signal, MakeResourceAvailable, SecDbInv,
         SlotsInOrder
  <2> QED
    BY <2>1, <2>2
<1>6. CallsInOrder'
  BY DEF Signal, MakeResourceAvailable, Goto, NoCall, queues, handlers,
     SecDbInv, CallsTyped, CallsInOrder, CallInOrder, HoldsConnection
<1>7. PoolInOrder'
  BY DEF Signal, NoCall, pool, handlers, SecDbInv, PoolTyped, PoolInOrder
<1>8. ConnectionsInOrder'
  BY DEF Signal, Goto, NoCall, pool, handlers, SecDbInv, CallsTyped,
     ConnectionsInOrder, UseInOrder
<1>9. DiskInOrder'
  BY DEF Signal, Goto, disk, SecDbInv, DiskInOrder
<1> QED
  BY <1>1, <1>2, <1>3, <1>4, <1>5, <1>6, <1>7, <1>8, <1>9 DEF SecDbInv

(* The marker is left beside a corrupt file.                               *)
LEMMA HandleCorruptInv ==
    ASSUME SecDbInv, NEW c \in Client, HandleCorrupt(c)
    PROVE SecDbInv'
<1>1. CallsTyped'
  BY DEF HandleCorrupt, LeavesMarker, ProcessExits, AllIdle, NoCalls, NoCall, CallType,
     Source, Labels, CallsTyped
<1>2. PoolTyped'
  BY DEF HandleCorrupt, LeavesMarker, ProcessExits, NoConnections, NewConnection,
     ConnectionType, Source, PoolTyped
<1>3. QueuesTyped'
  BY DEF HandleCorrupt, LeavesMarker, ProcessExits, SecDbInv, QueuesTyped
<1>4. HistoryTyped'
  BY DEF HandleCorrupt, LeavesMarker, Event, history, SecDbInv, HistoryTyped
<1>5. SlotsInOrder'
  <2>1. Readers' = {}
    BY DEF HandleCorrupt, LeavesMarker, ProcessExits, AllIdle, Readers
  <2> QED
    BY <2>1, FS_EmptySet DEF HandleCorrupt, LeavesMarker, ProcessExits, SlotsInOrder
<1>6. CallsInOrder'
  BY DEF HandleCorrupt, LeavesMarker, ProcessExits, AllIdle, NoCalls, NoCall, CallsInOrder,
     CallInOrder, HoldsConnection
<1>7. PoolInOrder'
  BY DEF HandleCorrupt, LeavesMarker, ProcessExits, NoCalls, NoCall, PoolInOrder
<1>8. ConnectionsInOrder'
  BY DEF HandleCorrupt, LeavesMarker, ProcessExits, NoCalls, NoCall, NoConnections,
     NewConnection, ConnectionsInOrder
<1>9. DiskInOrder'
  BY DEF HandleCorrupt, LeavesMarker, ProcessExits, AllIdle, DiskInOrder
<1> QED
  BY <1>1, <1>2, <1>3, <1>4, <1>5, <1>6, <1>7, <1>8, <1>9 DEF SecDbInv

(* The marker is left beside a file given up.                              *)
LEMMA OpenedGivesUpInv ==
    ASSUME SecDbInv, NEW c \in Client, OpenedGivesUp(c)
    PROVE SecDbInv'
<1>1. CallsTyped'
  BY DEF OpenedGivesUp, LeavesMarker, ProcessExits, AllIdle, NoCalls, NoCall, CallType,
     Source, Labels, CallsTyped
<1>2. PoolTyped'
  BY DEF OpenedGivesUp, LeavesMarker, ProcessExits, NoConnections, NewConnection,
     ConnectionType, Source, PoolTyped
<1>3. QueuesTyped'
  BY DEF OpenedGivesUp, LeavesMarker, ProcessExits, SecDbInv, QueuesTyped
<1>4. HistoryTyped'
  BY DEF OpenedGivesUp, LeavesMarker, Event, history, SecDbInv, HistoryTyped
<1>5. SlotsInOrder'
  <2>1. Readers' = {}
    BY DEF OpenedGivesUp, LeavesMarker, ProcessExits, AllIdle, Readers
  <2> QED
    BY <2>1, FS_EmptySet DEF OpenedGivesUp, LeavesMarker, ProcessExits, SlotsInOrder
<1>6. CallsInOrder'
  BY DEF OpenedGivesUp, LeavesMarker, ProcessExits, AllIdle, NoCalls, NoCall, CallsInOrder,
     CallInOrder, HoldsConnection
<1>7. PoolInOrder'
  BY DEF OpenedGivesUp, LeavesMarker, ProcessExits, NoCalls, NoCall, PoolInOrder
<1>8. ConnectionsInOrder'
  BY DEF OpenedGivesUp, LeavesMarker, ProcessExits, NoCalls, NoCall, NoConnections,
     NewConnection, ConnectionsInOrder
<1>9. DiskInOrder'
  BY DEF OpenedGivesUp, LeavesMarker, ProcessExits, AllIdle, DiskInOrder
<1> QED
  BY <1>1, <1>2, <1>3, <1>4, <1>5, <1>6, <1>7, <1>8, <1>9 DEF SecDbInv

(* The pool may be emptied under the clients.                              *)
LEMMA ReleaseAllConnectionsInv ==
    ASSUME SecDbInv, ReleaseAllConnections
    PROVE SecDbInv'
<1>1. CallsTyped'
  BY DEF ReleaseAllConnections, callVars, SecDbInv, CallsTyped
<1>2. PoolTyped'
  BY DEF ReleaseAllConnections, Destroy, NewConnection, ConnectionType,
     Source, SecDbInv, PoolTyped
<1>3. QueuesTyped'
  BY DEF ReleaseAllConnections, resources, queues, handlers, disk, SecDbInv,
     QueuesTyped
<1>4. HistoryTyped'
  BY DEF ReleaseAllConnections, history, SecDbInv, HistoryTyped
<1>5. SlotsInOrder'
  <2>1. Readers' = Readers
    BY DEF ReleaseAllConnections, callVars, Readers
  <2> QED
    BY <2>1 DEF ReleaseAllConnections, resources, SecDbInv, SlotsInOrder
<1>6. CallsInOrder'
  BY DEF ReleaseAllConnections, callVars, resources, handlers, SecDbInv,
     CallsInOrder, CallInOrder
<1>7. PoolInOrder'
  BY DEF ReleaseAllConnections, callVars, handlers, SecDbInv, PoolInOrder
<1>8. ConnectionsInOrder'
  BY DEF ReleaseAllConnections, Destroy, NewConnection, callVars, pool,
     resources, queues, handlers, disk, history, CallType, SecDbInv,
     CallsTyped, PoolTyped, QueuesTyped, HistoryTyped, CallsInOrder,
     CallInOrder, HoldsConnection, PoolInOrder, ConnectionsInOrder,
     UseInOrder, Clean
<1>9. DiskInOrder'
  BY DEF ReleaseAllConnections, callVars, disk, SecDbInv, DiskInOrder
<1> QED
  BY <1>1, <1>2, <1>3, <1>4, <1>5, <1>6, <1>7, <1>8, <1>9 DEF SecDbInv

(* Blocks are registered when no connection has changes recorded.          *)
LEMMA AddNotifyPhaseBlockInv ==
    ASSUME SecDbInv, AddNotifyPhaseBlock
    PROVE SecDbInv'
<1>1. CallsTyped'
  BY DEF AddNotifyPhaseBlock, callVars, SecDbInv, CallsTyped
<1>2. PoolTyped'
  BY DEF AddNotifyPhaseBlock, pool, SecDbInv, PoolTyped
<1>3. QueuesTyped'
  BY DEF AddNotifyPhaseBlock, resources, queues, disk, SecDbInv, QueuesTyped
<1>4. HistoryTyped'
  BY DEF AddNotifyPhaseBlock, history, SecDbInv, HistoryTyped
<1>5. SlotsInOrder'
  <2>1. Readers' = Readers
    BY DEF AddNotifyPhaseBlock, callVars, Readers, SecDbInv, CallsTyped,
       CallType
  <2> QED
    BY <2>1 DEF AddNotifyPhaseBlock, resources, SecDbInv, SlotsInOrder
<1>6. CallsInOrder'
  BY DEF AddNotifyPhaseBlock, callVars, resources, queues, SecDbInv,
     CallsInOrder, CallInOrder
<1>7. PoolInOrder'
  BY DEF AddNotifyPhaseBlock, callVars, pool, SecDbInv, PoolInOrder
<1>8. ConnectionsInOrder'
  BY DEF AddNotifyPhaseBlock, callVars, pool, SecDbInv, ConnectionsInOrder,
     UseInOrder
<1>9. DiskInOrder'
  BY DEF AddNotifyPhaseBlock, callVars, disk, SecDbInv, DiskInOrder
<1> QED
  BY <1>1, <1>2, <1>3, <1>4, <1>5, <1>6, <1>7, <1>8, <1>9 DEF SecDbInv

(* A file may go bad at any time.                                          *)
LEMMA BitRotInv == ASSUME SecDbInv, BitRot PROVE SecDbInv'
<1>1. CallsTyped'
  BY DEF BitRot, callVars, SecDbInv, CallsTyped
<1>2. PoolTyped'
  BY DEF BitRot, pool, SecDbInv, PoolTyped
<1>3. QueuesTyped'
  BY DEF BitRot, resources, queues, handlers, SecDbInv, QueuesTyped
<1>4. HistoryTyped'
  BY DEF BitRot, Event, history, SecDbInv, HistoryTyped
<1>5. SlotsInOrder'
  <2>1. Readers' = Readers
    BY DEF BitRot, callVars, Readers
  <2> QED
    BY <2>1 DEF BitRot, resources, SecDbInv, SlotsInOrder
<1>6. CallsInOrder'
  BY DEF BitRot, callVars, resources, queues, handlers, SecDbInv,
     CallsInOrder, CallInOrder
<1>7. PoolInOrder'
  BY DEF BitRot, callVars, pool, handlers, SecDbInv, PoolInOrder
<1>8. ConnectionsInOrder'
  BY DEF BitRot, callVars, pool, handlers, SecDbInv, CallsTyped,
     ConnectionsInOrder, UseInOrder
<1>9. DiskInOrder'
  <2>1. pc' = pc /\ file' = "corrupt"
    BY DEF BitRot, callVars
  <2>2. marker' = marker
    BY DEF BitRot
  <2> QED
    BY <2>1, <2>2 DEF SecDbInv, DiskInOrder
<1> QED
  BY <1>1, <1>2, <1>3, <1>4, <1>5, <1>6, <1>7, <1>8, <1>9 DEF SecDbInv

(* A process that exits leaves the file and the marker as they are.        *)
LEMMA ExitInv == ASSUME SecDbInv, Exit PROVE SecDbInv'
<1>1. CallsTyped'
  BY DEF Exit, ProcessExits, AllIdle, NoCalls, NoCall, CallType, Source,
     Labels, CallsTyped
<1>2. PoolTyped'
  BY DEF Exit, ProcessExits, NoConnections, NewConnection, ConnectionType,
     Source, PoolTyped
<1>3. QueuesTyped'
  BY DEF Exit, ProcessExits, disk, SecDbInv, QueuesTyped
<1>4. HistoryTyped'
  BY DEF Exit, Event, history, SecDbInv, HistoryTyped
<1>5. SlotsInOrder'
  <2>1. Readers' = {}
    BY DEF Exit, ProcessExits, AllIdle, Readers
  <2> QED
    BY <2>1, FS_EmptySet DEF Exit, ProcessExits, SlotsInOrder
<1>6. CallsInOrder'
  BY DEF Exit, ProcessExits, AllIdle, NoCalls, NoCall, CallsInOrder,
     CallInOrder, HoldsConnection
<1>7. PoolInOrder'
  BY DEF Exit, ProcessExits, NoCalls, NoCall, PoolInOrder
<1>8. ConnectionsInOrder'
  BY DEF Exit, ProcessExits, NoCalls, NoCall, NoConnections, NewConnection,
     ConnectionsInOrder
<1>9. DiskInOrder'
  BY DEF Exit, ProcessExits, AllIdle, disk, SecDbInv, DiskInOrder
<1> QED
  BY <1>1, <1>2, <1>3, <1>4, <1>5, <1>6, <1>7, <1>8, <1>9 DEF SecDbInv

-----------------------------------------------------------------------------
(* No step of the pool leaves the invariant, a stuttering one included.    *)
LEMMA SecDbNextInv == SecDbInv /\ [SecDbNext]_secDbVars => SecDbInv'
<1> SUFFICES ASSUME SecDbInv, [SecDbNext]_secDbVars PROVE SecDbInv'
  OBVIOUS
<1>1. CASE UNCHANGED secDbVars
  <2>1. Readers' = Readers
    BY <1>1 DEF secDbVars, callVars, Readers
  <2>2. CallsInOrder' /\ DiskInOrder'
    BY <1>1 DEF secDbVars, callVars, resources, queues, handlers, disk,
       SecDbInv, CallsInOrder, CallInOrder, DiskInOrder
  <2>3. PoolInOrder' /\ ConnectionsInOrder'
    BY <1>1 DEF secDbVars, callVars, pool, handlers, SecDbInv, PoolInOrder,
       ConnectionsInOrder, UseInOrder
  <2>4. CallsTyped' /\ PoolTyped' /\ QueuesTyped' /\ HistoryTyped' /\ SlotsInOrder'
    BY <1>1, <2>1 DEF secDbVars, callVars, pool, resources, queues,
       handlers, disk, history, SecDbInv, CallsTyped, PoolTyped,
       QueuesTyped, HistoryTyped, SlotsInOrder
  <2> QED
    BY <2>2, <2>3, <2>4 DEF SecDbInv
<1> QED
  BY ReadInv, BeginTransactionInv, EnterCommitQueueInv, EnterEngineInv,
     RunBlockInv, EndTransactionInv, WillCommitInv, ExecEndInv, DidEndInv,
     CheckHandlerInv, OpenedAgainDoneInv, RequestInv, ConsumeResourceInv,
     EnterQueueInv, EnterFirstOpenInv, ProcessMarkerInv, RemoveDatabaseInv,
     FirstOpenInv, FirstOpenDoneInv, OpenedFailsInv, CreateInv,
     AcquireFailedInv, ReleaseInv, SignalInv, HandleCorruptInv, OpenedGivesUpInv,
     ReleaseAllConnectionsInv, AddNotifyPhaseBlockInv, BitRotInv, ExitInv,
     <1>1 DEF SecDbNext, Step

(* A new process is in order.                                              *)
LEMMA SecDbInitInv == SecDbInit => SecDbInv
<1> SUFFICES ASSUME SecDbInit PROVE SecDbInv
  OBVIOUS
<1>1. /\ \A c \in Client : pc[c] = "idle" /\ call[c] = NoCall
      /\ NoCall \in CallType /\ NoCall.conn = NoConn /\ NoCall.stage = "perform"
      /\ ~NoCall.readOnly
  BY DEF SecDbInit, ProcessStart, AllIdle, NoCalls, NoCall, CallType, Source
<1>2. /\ NewConnection(FALSE) \in ConnectionType
      /\ connection = [k \in Conn |-> NewConnection(FALSE)]
      /\ NewConnection(FALSE).changes = {}
  BY DEF SecDbInit, ProcessStart, NoConnections, NewConnection,
     ConnectionType, Source
<1>3. CallsTyped
  BY <1>1 DEF SecDbInit, ProcessStart, AllIdle, NoCalls, CallsTyped, Labels
<1>4. PoolTyped /\ QueuesTyped /\ HistoryTyped
  <2>1. PoolTyped
    BY <1>2 DEF SecDbInit, ProcessStart, PoolTyped
  <2>2. QueuesTyped
    BY DEF SecDbInit, ProcessStart, QueuesTyped
  <2>3. HistoryTyped
    BY DEF SecDbInit, HistoryTyped
  <2> QED
    BY <2>1, <2>2, <2>3
<1>5. SlotsInOrder
  <2>1. Readers = {}
    BY <1>1 DEF Readers
  <2> QED
    BY <2>1, FS_EmptySet DEF SecDbInit, ProcessStart, SlotsInOrder
<1>6. CallsInOrder
  BY <1>1 DEF CallsInOrder, CallInOrder, HoldsConnection
<1>7. PoolInOrder
  BY <1>1 DEF SecDbInit, ProcessStart, PoolInOrder
<1>8. ConnectionsInOrder
  BY <1>1, <1>2 DEF SecDbInit, ProcessStart, ConnectionsInOrder
<1>9. DiskInOrder
  BY <1>1 DEF SecDbInit, DiskInOrder
<1> QED
  BY <1>3, <1>4, <1>5, <1>6, <1>7, <1>8, <1>9 DEF SecDbInv

(* The invariant holds in every reachable state.                           *)
THEOREM PoolInvariant == SecDbSpec => []SecDbInv
BY SecDbInitInv, SecDbNextInv, PTL DEF SecDbSpec

(* Every variable keeps its type; in particular the semaphore never has    *)
(* more units than kSecDbMaxReaders, whatever fails in between.            *)
THEOREM SecDbTypeCorrect == SecDbSpec => []SecDbTypeOK
<1>1. SecDbInv => SecDbTypeOK
  <2> SUFFICES ASSUME SecDbInv PROVE SecDbTypeOK
    OBVIOUS
  <2>1. readSemaphore \in 0 .. MaxReaders
    BY ReadersFinite, FS_CardinalityType DEF SecDbInv, SlotsInOrder
  <2> QED
    BY <2>1 DEF SecDbInv, CallsTyped, PoolTyped, QueuesTyped, HistoryTyped,
       SecDbTypeOK
<1> QED
  BY PoolInvariant, <1>1, PTL

(* No two clients hold a read-write connection, also while a reader makes  *)
(* the first open with one.                                                *)
THEOREM OneWriterAtATime == SecDbSpec => []OneWriter
<1>1. SecDbInv => OneWriter
  <2> SUFFICES ASSUME SecDbInv, NEW c \in Client, NEW d \in Client, c # d,
                      call[c].conn # NoConn, ~connection[call[c].conn].readOnly,
                      call[d].conn # NoConn, ~connection[call[d].conn].readOnly
               PROVE  FALSE
    BY DEF OneWriter
  <2>1. \A e \in {c, d} : call[e].readOnly => call[e].stage = "firstOpen"
    BY DEF SecDbInv, ConnectionsInOrder, UseInOrder
  <2>2. \A e \in {c, d} : call[e].stage = "firstOpen" => dbQueue = e /\ ~didFirstOpen
    BY DEF SecDbInv, CallsInOrder, CallInOrder
  <2>3. \A e \in {c, d} : ~call[e].readOnly => writeMutex = e
    BY DEF SecDbInv, CallsInOrder, CallInOrder, HoldsConnection
  <2>4. ~didFirstOpen => call[c].stage = "firstOpen" /\ call[d].stage = "firstOpen"
    BY DEF SecDbInv, PoolInOrder
  <2> QED
    BY <2>1, <2>2, <2>3, <2>4
<1> QED
  BY PoolInvariant, <1>1, PTL

(* A connection in the pool is nobody's, is of its cache's kind, and       *)
(* carries no failure, transaction or change into its next use.            *)
THEOREM PoolIsClean == SecDbSpec => []PooledIsClean
<1>1. SecDbInv => PooledIsClean
  <2> SUFFICES ASSUME SecDbInv, NEW k \in idleRead \cup idleWrite
               PROVE  /\ \A c \in Client : call[c].conn # k
                      /\ connection[k].readOnly <=> k \in idleRead
                      /\ ~connection[k].hasIOFailure
                      /\ ~connection[k].inTransaction
                      /\ connection[k].rows = {} /\ connection[k].changes = {}
    BY DEF PooledIsClean
  <2>1. /\ \A c \in Client : call[c].conn # k
        /\ connection[k].readOnly <=> k \in idleRead
    BY DEF SecDbInv, PoolInOrder
  <2>2. Clean(connection[k]) /\ ~connection[k].hasIOFailure
    BY DEF SecDbInv, ConnectionsInOrder
  <2> QED
    BY <2>1, <2>2 DEF Clean
<1> QED
  BY PoolInvariant, <1>1, PTL

(* A database is deleted only if it is corrupt or its opened handler gave  *)
(* it up: only RemoveDatabase makes the file absent, and only behind a     *)
(* marker that stood beside such a file; the file made anew has none.      *)
THEOREM DeletionWasAlwaysAskedFor == SecDbSpec => DeletionWasAskedFor
<1>1. SecDbInv /\ [SecDbNext]_secDbVars =>
        [file' = "absent" => file # "good" \/ condemned]_secDbVars
  <2> SUFFICES ASSUME SecDbInv, SecDbNext, file' = "absent", file = "good", ~condemned
               PROVE  FALSE
    OBVIOUS
  <2>1. \A c \in Client : ~RemoveDatabase(c)
    BY DEF RemoveDatabase, SecDbInv, DiskInOrder
  <2>2. UNCHANGED file \/ file' \in {"good", "corrupt"}
    BY <2>1 DEF SecDbNext, Step, disk, Request, ConsumeResource,
       EnterQueue, EnterFirstOpen, ProcessMarker, FirstOpen, FirstOpenDone,
       OpenedFails, OpenedAgainDone, Create, CheckHandler, AcquireFailed,
       Read, BeginTransaction, EnterCommitQueue, EnterEngine, RunBlock,
       EndTransaction, WillCommit, ExecEnd, DidEnd, Release, Signal,
       LeavesMarker, HandleCorrupt, OpenedGivesUp, ReleaseAllConnections,
       AddNotifyPhaseBlock, BitRot, Exit
  <2> QED
    BY <2>2
<1> QED
  BY PoolInvariant, <1>1, PTL DEF SecDbSpec, DeletionWasAskedFor
=============================================================================
