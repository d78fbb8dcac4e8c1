---------------------------- MODULE CKKSItemSync ----------------------------
(***************************************************************************)
(* One view of CKKSKeychainView: how the items of this device's keychain   *)
(* and the records of a CloudKit zone follow each other.  A local change   *)
(* becomes an outgoing queue entry (OQE), a fetched record an incoming     *)
(* queue entry (IQE); the CKMirror holds the records as last known.  The   *)
(* database holds at most one OQE of each state and one IQE per UUID.      *)
(*                                                                         *)
(* Three things happen concurrently: the keychain API (LocalChange), the   *)
(* zone change fetcher (changesFetched) and the view's state machine, which *)
(* runs one operation at a time: incoming, reencrypt or outgoing.  Each    *)
(* takes the database transaction for its step, not for its whole life.    *)
(*                                                                         *)
(* Records are reduced to their change tag, their content and who wrote    *)
(* them; the tags are the zone's clock, which is the change token as well. *)
(* CloudKit and the other devices are external.  Left out: keys and their  *)
(* rolling, a locked device, two UUIDs with one primary key, items in the  *)
(* wrong view, tombstones, and the daily scan of the keychain.             *)
(***************************************************************************)
EXTENDS Integers, FiniteSets, FiniteSetsExt

CONSTANTS
    Item,               \* UUIDs, as numbers: the incoming queue is read in order
    Value, NoValue,     \* contents of an item, and its absence
    NoEntry, NoUpload, NoFetch,
    OutgoingItemsAtOnce, IncomingItemsAtOnce,
    MaxEdits, MaxRemote, MaxFailures    \* bounds: local changes, writes of
                                        \* other devices, failures and crashes

ASSUME ItemAssumption == Item \subseteq Nat \ {0} /\ IsFiniteSet(Item)
ASSUME ValueAssumption == NoValue \notin Value /\ NoEntry \notin Value \cup {NoValue}
ASSUME SizeAssumption == {OutgoingItemsAtOnce, IncomingItemsAtOnce} \subseteq Nat \ {0}
ASSUME BoundAssumption == {MaxEdits, MaxRemote, MaxFailures} \subseteq Nat

VARIABLES
    keychain,   \* content of each item in the local keychain
    mirror,     \* CKKSMirrorEntry (ckme): the record as last known
    new, reencrypt, inflight,   \* the OQEs, by state
    incoming,   \* the IQEs: a content, NoValue for a delete, or NoEntry
    flags,      \* CKKSFlag..., the flags of the view's state machine
    state,      \* what the view's state machine is doing
    cursor,     \* lastMaxUUID of the incoming queue operation
    token,      \* the zone's change token
    upload,     \* the CKModifyRecordsOperation the outgoing operation waits for
    orphan,     \* an upload whose device has crashed, still on its way
    fetch,      \* changes on their way to the device
    server,     \* the zone: the last write of each record, deletes included
    clock,      \* tag of the last write
    strayed,    \* history: items one of five races has hit, see Stray...
    edits, remotes, failures    \* counters for the bounds

queues == <<new, reencrypt, inflight, incoming>>
cloud == <<server, clock, orphan, remotes>>
ckvars == <<keychain, mirror, queues, flags, state, cursor, token, upload,
            fetch, cloud, strayed, edits, failures>>

NoRecord == [tag |-> 0, value |-> NoValue, mine |-> FALSE]
Known(rec) == rec.tag # 0
Exists(rec) == rec.value # NoValue
Of(queue) == {i \in Item : queue[i] # NoEntry}
Without(queue, S) == [i \in Item |-> IF i \in S THEN NoEntry ELSE queue[i]]
-----------------------------------------------------------------------------
(* A view that has finished syncing a zone the other devices have filled.  *)
CKInit ==
    /\ keychain \in [Item -> Value \cup {NoValue}]
    /\ clock = 1 /\ token = clock
    /\ server = [i \in Item |-> IF keychain[i] = NoValue THEN NoRecord
                               ELSE [tag |-> clock, value |-> keychain[i], mine |-> FALSE]]
    /\ mirror = server
    /\ new = [i \in Item |-> NoEntry] /\ reencrypt = new /\ inflight = new
    /\ incoming = new
    /\ flags = {} /\ state = "ready" /\ cursor = 0
    /\ upload = NoUpload /\ orphan = NoUpload /\ fetch = NoFetch
    /\ strayed = {} /\ edits = 0 /\ remotes = 0 /\ failures = 0

(* The action of a change to an item: add, modify or delete.               *)
ActionFor(before, after) ==
    CASE before = NoValue -> "add" [] after = NoValue -> "delete" [] OTHER -> "modify"

(* withItem coalesces with the entry in state new, and only with that one. *)
Coalesced(i, action) ==
    CASE new[i] = NoEntry -> action
      [] new[i] # NoEntry /\ new[i].action = "add" /\ action = "modify" -> "add"
      [] new[i] # NoEntry /\ new[i].action = "delete" /\ action = "add" -> "modify"
      [] OTHER -> action

(* The change is taken for one of the modification date only.              *)
OnlyChangesMdat(i, v) ==
    /\ keychain[i] # NoValue /\ v # NoValue
    /\ Known(mirror[i]) /\ new[i] = NoEntry /\ mirror[i].value = v

(* The deletion of an item CloudKit has never heard of.                    *)
DeletesUnknown(i, v) ==
    /\ v = NoValue /\ ~Known(mirror[i])
    /\ IF new[i] # NoEntry THEN new[i].action = "add"
                           ELSE i \notin Of(reencrypt) \cup Of(inflight)

NewEntry(i, action, v) ==
    [action |-> Coalesced(i, action), value |-> v, tag |-> mirror[i].tag]

(* A new entry supersedes all other changes to its item, remote ones as    *)
(* well, except a local one in flight.                                     *)
Supersede(i) ==
    /\ reencrypt' = Without(reencrypt, {i})
    /\ incoming' = Without(incoming, {i})
    /\ flags' = flags \cup {"outgoing"}

(* A client adds, changes or deletes an item: SecDb commits it and calls   *)
(* handleKeychainEventDbConnection in the same transaction.                *)
LocalChange(i, v) ==
    /\ edits < MaxEdits /\ edits' = edits + 1
    /\ keychain[i] # NoValue \/ v # NoValue
    /\ keychain' = [keychain EXCEPT ![i] = v]
    /\ LET action == ActionFor(keychain[i], v) IN
       IF OnlyChangesMdat(i, v) \/ DeletesUnknown(i, v)
       THEN /\ new' = Without(new, {i})
            /\ strayed' = IF i \in Of(inflight) \cup Of(reencrypt)
                          THEN strayed \cup {i} ELSE strayed     \* not sent
            /\ UNCHANGED <<reencrypt, incoming, flags>>
       ELSE /\ new' = [new EXCEPT ![i] = NewEntry(i, action, v)]
            /\ Supersede(i)
            /\ strayed' = IF i \in Of(inflight) /\ inflight[i].action = "delete" /\ Known(mirror[i])
                          THEN strayed \cup {i} ELSE strayed     \* changed again
    /\ UNCHANGED <<mirror, inflight, state, cursor, token, upload, fetch, cloud, failures>>
-----------------------------------------------------------------------------
(* Mutant: a record is skipped whenever the mirror has one, old or not.    *)
RecordedSkipsKnown(told, resync) ==
    {i \in DOMAIN told : IF Exists(told[i]) THEN resync \/ ~Known(mirror[i])
                                            ELSE Known(mirror[i])}

(* Recording what CloudKit says of a set of items: CKKSItem's              *)
(* intransactionRecordChanged for records, intransactionRecordDeleted for  *)
(* deletes; a deletion of an unknown record is ignored, and a record that  *)
(* the mirror holds is skipped unless it is resynced.                      *)
Recorded(told, resync) ==
    {i \in DOMAIN told : IF Exists(told[i]) THEN resync \/ mirror[i].tag # told[i].tag
                                            ELSE Known(mirror[i])}

Mirrored(told, S) ==
    [i \in Item |-> IF i \notin S THEN mirror[i]
                    ELSE IF Exists(told[i]) THEN told[i] ELSE NoRecord]

Record(told, resync) ==
    LET S == Recorded(told, resync) IN
    /\ mirror' = Mirrored(told, S)
    /\ incoming' = [i \in Item |-> IF i \in S THEN told[i].value ELSE incoming[i]]
    /\ reencrypt' = Without(reencrypt, S)

(* Mutant: a fetched change leaves the pending local changes alone.        *)
ChangesFetchedKeepsLocal ==
    /\ fetch # NoFetch
    /\ Record(fetch.changes, FALSE)
    /\ token' = fetch.upto
    /\ flags' = IF DOMAIN fetch.changes = {} THEN flags ELSE flags \cup {"incoming"}
    /\ fetch' = NoFetch
    /\ UNCHANGED <<keychain, new, inflight, state, cursor, upload, cloud, strayed, edits,
                   failures>>

ChangesFetched ==
    /\ fetch # NoFetch
    /\ Record(fetch.changes, FALSE)
    /\ new' = Without(new, Recorded(fetch.changes, FALSE))
    /\ token' = fetch.upto
    /\ flags' = IF DOMAIN fetch.changes = {} THEN flags ELSE flags \cup {"incoming"}
    /\ fetch' = NoFetch
    /\ UNCHANGED <<keychain, inflight, state, cursor, upload, cloud, strayed, edits, failures>>
-----------------------------------------------------------------------------
(* Mutant: BecomeReady leaves it to the flags that survive.                *)
BecomeReadyCountsNothing ==
    /\ state = "becomeReady"
    /\ state' = "ready"
    /\ UNCHANGED <<keychain, mirror, queues, flags, cursor, token, upload, fetch, cloud,
                   strayed, edits, failures>>

(* The state machine's state BecomeReady: entries that have come in since  *)
(* are processed first, then those to reencrypt.                           *)
BecomeReady ==
    /\ state = "becomeReady"
    /\ \/ /\ Of(incoming) # {}
          /\ state' = "incomingDeletes" /\ cursor' = 0 /\ UNCHANGED flags
       \/ /\ Of(incoming) = {} /\ Of(reencrypt) # {}
          /\ state' = "reencrypt" /\ UNCHANGED <<cursor, flags>>
       \/ /\ Of(incoming) = {} /\ Of(reencrypt) = {}
          /\ state' = "ready" /\ UNCHANGED cursor
          /\ flags' = IF Of(new) # {} THEN flags \cup {"outgoing"} ELSE flags
    /\ UNCHANGED <<keychain, mirror, queues, token, upload, fetch, cloud,
                   strayed, edits, failures>>

NextOperation ==
    /\ state = "ready" /\ flags # {}
    /\ LET f == IF "reencrypt" \in flags THEN "reencrypt"
                ELSE IF "incoming" \in flags THEN "incoming" ELSE "outgoing"
       IN  /\ flags' = flags \ {f}
           /\ state' = IF f = "incoming" THEN "incomingDeletes" ELSE f
    /\ cursor' = 0
    /\ UNCHANGED <<keychain, mirror, queues, token, upload, fetch, cloud,
                   strayed, edits, failures>>

(* What is left of a pass over the incoming queue: the first pass is for   *)
(* the deletes, the second for every entry.                                *)
Ahead == {i \in Of(incoming) :
             i > cursor /\ (state = "incomingAll" \/ incoming[i] = NoValue)}
Batch == {i \in Ahead : Cardinality({j \in Ahead : j < i}) < IncomingItemsAtOnce}

Applied(batch) == [i \in Item |-> IF i \in batch THEN incoming[i] ELSE keychain[i]]

(* One batch, in a transaction of its own; a batch that is not full is the *)
(* last one of its pass.                                                   *)
IncomingBatch ==
    /\ state \in {"incomingDeletes", "incomingAll"}
    /\ keychain' = Applied(Batch)
    /\ incoming' = Without(incoming, Batch)
    /\ IF Cardinality(Batch) = IncomingItemsAtOnce
       THEN cursor' = Max(Batch) /\ state' = state
       ELSE /\ cursor' = 0
            /\ state' = IF state = "incomingDeletes" THEN "incomingAll" ELSE "becomeReady"
    /\ UNCHANGED <<mirror, new, reencrypt, inflight, flags, token, upload, fetch, cloud,
                   strayed, edits, failures>>

(* Mutant: the entry is encrypted again on the record it had.              *)
RebasedOnItself(i) == reencrypt[i]

(* The reencryption: an entry is rebuilt on the record the mirror holds,   *)
(* unless a newer one replaces it.                                         *)
Rebased(i) ==
    [reencrypt[i] EXCEPT !.tag = IF Known(mirror[i]) THEN mirror[i].tag ELSE @]

Reencrypt ==
    /\ state = "reencrypt"
    /\ LET rebuilt == Of(reencrypt) \ Of(new) IN
       /\ new' = [i \in Item |-> IF i \in rebuilt THEN Rebased(i) ELSE new[i]]
       /\ flags' = IF rebuilt = {} THEN flags ELSE flags \cup {"outgoing"}
    /\ reencrypt' = Without(reencrypt, Item)
    /\ state' = "becomeReady"
    /\ UNCHANGED <<keychain, mirror, inflight, incoming, cursor, token, upload, fetch,
                   cloud, strayed, edits, failures>>
-----------------------------------------------------------------------------
(* groupStart of the outgoing queue operation.  An update built on another *)
(* record than the mirror's goes to reencryption instead.                  *)
Stale(i) == /\ new[i].action = "modify"
            /\ Known(mirror[i]) /\ new[i].tag # mirror[i].tag

(* ontransactionFetchEntries: which entries go first is for the waiting    *)
(* clients and the database to say.                                        *)
FetchEntries ==
    {batch \in SUBSET Of(new) :
        \/ Cardinality(batch) = OutgoingItemsAtOnce
        \/ Cardinality(batch) < OutgoingItemsAtOnce /\ batch = Of(new)}

StartUpload ==
    /\ state = "outgoing"
    /\ \E batch \in FetchEntries :
         LET fetched == batch \ Of(inflight)
             stale == {i \in fetched : Stale(i)}
             sent == fetched \ stale
         IN  /\ new' = Without(new, fetched)
             /\ reencrypt' = [i \in Item |-> IF i \in stale THEN new[i] ELSE reencrypt[i]]
             /\ inflight' = [i \in Item |-> IF i \in sent THEN new[i] ELSE inflight[i]]
             /\ flags' = IF stale = {} THEN flags ELSE flags \cup {"reencrypt"}
             /\ state' = IF sent = {} THEN "becomeReady" ELSE "upload"
             /\ upload' = IF sent = {} THEN NoUpload
                          ELSE [asks |-> [i \in sent |-> new[i]],
                                full |-> Cardinality(batch) = OutgoingItemsAtOnce,
                                answer |-> "none", at |-> 0,
                                told |-> [i \in {} |-> NoRecord]]
    /\ UNCHANGED <<keychain, mirror, incoming, cursor, token, fetch, cloud,
                   strayed, edits, failures>>

(* In-flight entries that go back to new, unless a newer one is there.     *)
Requeued(S) == [i \in Item |-> IF i \in S /\ new[i] = NoEntry THEN inflight[i] ELSE new[i]]

(* History: an answer older than what has been fetched since, a change that *)
(* is queued again, or saved, while a remote change waits to be applied.   *)
StrayLate(told, at) ==
    {i \in DOMAIN told :
        /\ token >= at
        /\ mirror[i].tag # IF Exists(told[i]) THEN told[i].tag ELSE 0}
StrayRequeued(S) == {i \in S : new[i] = NoEntry /\ incoming[i] # NoEntry}
StraySaved(S) == {i \in S : incoming[i] # NoEntry}

(* modifyRecordsCompleted without an error.                                *)
UploadSaved ==
    /\ state = "upload" /\ upload.answer = "saved"
    /\ mirror' = Mirrored(upload.told, DOMAIN upload.told)
    /\ inflight' = Without(inflight, DOMAIN upload.asks)
    /\ flags' = IF upload.full THEN flags \cup {"outgoing"} ELSE flags
    /\ strayed' = strayed \cup StrayLate(upload.told, upload.at)
                          \cup StraySaved(DOMAIN upload.told)
    /\ UNCHANGED <<new, reencrypt, incoming>>

(* intransactionCKWriteFailed: a partial failure tells what the server has. *)
WriteFailed(told) == Record(told, TRUE)

(* With a partial failure: what the server has is recorded first, then the *)
(* entries it refused are dropped and the others queued again.             *)
UploadRefused ==
    /\ state = "upload" /\ upload.answer = "refused"
    /\ LET refused == DOMAIN upload.told
           others == DOMAIN upload.asks \ refused
           S == Recorded(upload.told, TRUE)
       IN  /\ WriteFailed(upload.told)
           /\ new' = Without(Requeued(others), S)
           /\ inflight' = Without(inflight, DOMAIN upload.asks)
           /\ flags' = flags \cup {"incoming", "outgoing"}
           /\ strayed' = strayed \cup StrayLate(upload.told, upload.at)
                                 \cup StrayRequeued(others)

(* Mutant: any other error drops what was in flight.                       *)
UploadFailedDrops ==
    /\ state = "upload" /\ upload.answer = "failed"
    /\ inflight' = Without(inflight, DOMAIN upload.asks)
    /\ flags' = flags \cup {"outgoing"}
    /\ UNCHANGED <<mirror, new, reencrypt, incoming, strayed>>

(* With any other error.                                                   *)
UploadFailed ==
    /\ state = "upload" /\ upload.answer = "failed"
    /\ new' = Requeued(Of(inflight))
    /\ strayed' = strayed \cup StrayRequeued(Of(inflight))
    /\ inflight' = Without(inflight, DOMAIN upload.asks)
    /\ flags' = flags \cup {"outgoing"}
    /\ UNCHANGED <<mirror, reencrypt, incoming>>

UploadCompleted ==
    /\ UploadSaved \/ UploadRefused \/ UploadFailed
    /\ upload' = NoUpload /\ state' = "becomeReady"
    /\ UNCHANGED <<keychain, cursor, token, fetch, cloud, edits, failures>>
-----------------------------------------------------------------------------
(* securityd stops at any moment; an upload it waited for may still reach  *)
(* the server.  Only the database is left.                                 *)
Crash ==
    /\ failures < MaxFailures /\ failures' = failures + 1
    /\ state' = "initializing" /\ flags' = {} /\ cursor' = 0
    /\ upload' = NoUpload /\ fetch' = NoFetch
    /\ orphan' = IF upload # NoUpload /\ upload.answer = "none" THEN upload ELSE orphan
    /\ UNCHANGED <<keychain, mirror, queues, token, server, clock, remotes, strayed, edits>>

(* Mutant: the restart leaves the in-flight entries where they are.        *)
RestartAsIs ==
    /\ state = "initializing" /\ state' = "incomingDeletes"
    /\ UNCHANGED <<keychain, mirror, queues, flags, cursor, token, upload, fetch, cloud,
                   strayed, edits, failures>>

(* The restart puts the in-flight entries back, then heads for the queues. *)
Restart ==
    /\ state = "initializing"
    /\ new' = Requeued(Of(inflight))
    /\ strayed' = strayed \cup StrayRequeued(Of(inflight))
    /\ inflight' = Without(inflight, Item)
    /\ state' = "incomingDeletes"
    /\ UNCHANGED <<keychain, mirror, reencrypt, incoming, flags, cursor, token, upload,
                   fetch, cloud, edits, failures>>
-----------------------------------------------------------------------------
(* CloudKit: an upload is atomic, a save must name the record it replaces, *)
(* a delete need not.                                                      *)
Refused(asks) ==
    {i \in DOMAIN asks :
        asks[i].action # "delete" /\ asks[i].tag # IF Exists(server[i]) THEN server[i].tag ELSE 0}

Written(asks) ==
    [i \in DOMAIN asks |-> [tag |-> clock + 1, value |-> asks[i].value, mine |-> TRUE]]

Commit(asks) ==
    IF Refused(asks) # {} THEN UNCHANGED <<server, clock>>
    ELSE /\ clock' = clock + 1
         /\ server' = [i \in Item |-> IF i \in DOMAIN asks THEN Written(asks)[i] ELSE server[i]]

ServerHandlesUpload ==
    /\ upload # NoUpload /\ upload.answer = "none"
    /\ Commit(upload.asks)
    /\ upload' = LET refused == Refused(upload.asks) IN
                 [upload EXCEPT !.answer = IF refused = {} THEN "saved" ELSE "refused",
                                !.at = clock',
                                !.told = IF refused = {} THEN Written(upload.asks)
                                         ELSE [i \in refused |-> server[i]]]
    /\ UNCHANGED <<keychain, mirror, queues, flags, state, cursor, token, fetch, orphan,
                   remotes, strayed, edits, failures>>

ServerHandlesOrphan ==
    /\ orphan # NoUpload
    /\ Commit(orphan.asks) /\ orphan' = NoUpload
    /\ UNCHANGED <<keychain, mirror, queues, flags, state, cursor, token, upload, fetch,
                   remotes, strayed, edits, failures>>

(* The request or its answer is lost: the operation ends with an error.    *)
NetworkFails ==
    /\ failures < MaxFailures /\ failures' = failures + 1
    /\ upload # NoUpload /\ upload.answer # "failed"
    /\ upload' = [upload EXCEPT !.answer = "failed", !.told = [i \in {} |-> NoRecord]]
    /\ UNCHANGED <<keychain, mirror, queues, flags, state, cursor, token, fetch, cloud,
                   strayed, edits>>

OtherDevice(i, v) ==
    /\ remotes < MaxRemote /\ remotes' = remotes + 1
    /\ Exists(server[i]) \/ v # NoValue
    /\ clock' = clock + 1
    /\ server' = [server EXCEPT ![i] = [tag |-> clock + 1, value |-> v, mine |-> FALSE]]
    /\ UNCHANGED <<keychain, mirror, queues, flags, state, cursor, token, upload, orphan,
                   fetch, strayed, edits, failures>>

(* Mutant: the token names the next write as well.                         *)
ServerAnswersFetchAhead ==
    /\ fetch = NoFetch /\ clock > token
    /\ fetch' = [upto |-> clock + 1,
                 changes |-> [i \in {j \in Item : server[j].tag > token} |-> server[i]]]
    /\ UNCHANGED <<keychain, mirror, queues, flags, state, cursor, token, upload, cloud,
                   strayed, edits, failures>>

(* The zone change fetcher has one fetch at a time, whatever the state     *)
(* machine does.                                                           *)
ServerAnswersFetch ==
    /\ fetch = NoFetch /\ clock > token
    /\ fetch' = [upto |-> clock,
                 changes |-> [i \in {j \in Item : server[j].tag > token} |-> server[i]]]
    /\ UNCHANGED <<keychain, mirror, queues, flags, state, cursor, token, upload, cloud,
                   strayed, edits, failures>>
-----------------------------------------------------------------------------
Machine == BecomeReady \/ NextOperation \/ IncomingBatch \/ Reencrypt
             \/ StartUpload \/ UploadCompleted \/ Restart
External == \/ ServerHandlesUpload \/ ServerHandlesOrphan \/ NetworkFails
            \/ ServerAnswersFetch
            \/ \E i \in Item, v \in Value \cup {NoValue} : OtherDevice(i, v)
CKNext == \/ Machine \/ ChangesFetched \/ External \/ Crash
          \/ \E i \in Item, v \in Value \cup {NoValue} : LocalChange(i, v)

CKSpec == CKInit /\ [][CKNext]_ckvars
(* The state machine keeps running its operations, CloudKit answers what   *)
(* it is asked, and a change in the zone leads to a fetch.                 *)
CKFairSpec == /\ CKSpec /\ WF_ckvars(Machine) /\ WF_ckvars(ChangesFetched)
              /\ WF_ckvars(ServerHandlesUpload) /\ WF_ckvars(ServerAnswersFetch)
-----------------------------------------------------------------------------
Entry == [action : {"add", "modify", "delete"}, value : Value \cup {NoValue}, tag : Nat]
ASSUME EntryAssumption == NoEntry \notin Entry
RecordType == [tag : Nat, value : Value \cup {NoValue}, mine : BOOLEAN]
States == {"ready", "becomeReady", "incomingDeletes", "incomingAll", "reencrypt",
           "outgoing", "upload", "initializing"}

(* The variables keep to the types their declarations name.                *)
CKTypeOK ==
    /\ keychain \in [Item -> Value \cup {NoValue}]
    /\ {mirror, server} \subseteq [Item -> RecordType]
    /\ {new, reencrypt, inflight} \subseteq [Item -> Entry \cup {NoEntry}]
    /\ incoming \in [Item -> Value \cup {NoValue, NoEntry}]
    /\ flags \subseteq {"reencrypt", "incoming", "outgoing"}
    /\ state \in States /\ cursor \in Nat
    /\ {token, clock} \subseteq Nat /\ token <= clock
    /\ strayed \subseteq Item

(* modifyRecordsCompleted looks up its entries by state in flight and      *)
(* rolls everything back when one is missing: the entries in flight are    *)
(* exactly those of the upload being waited for, across crashes and all    *)
(* that clients and the fetcher do meanwhile.                              *)
InflightIsTheUpload ==
    state # "initializing" =>
        Of(inflight) = IF state = "upload" THEN DOMAIN upload.asks ELSE {}

(* The mirror never loses track of the zone: it holds the record the zone  *)
(* has, or the token is still before that record's last write.             *)
MirrorTracksServer ==
    \A i \in Item \ strayed :
        \/ server[i].tag > token
        \/ mirror[i].tag = IF Exists(server[i]) THEN server[i].tag ELSE 0

(* No change is forgotten on the way between keychain and mirror: where    *)
(* they differ some queue holds an entry.                                  *)
DifferenceIsQueued ==
    \A i \in Item \ strayed :
        keychain[i] # mirror[i].value =>
            i \in Of(new) \cup Of(reencrypt) \cup Of(inflight) \cup Of(incoming)

(* Applying the incoming queue never overwrites a change that waits to be  *)
(* uploaded, and never applies other content than the mirror's.            *)
IncomingOverwritesNothing ==
    \A i \in Of(incoming) \ strayed :
        /\ i \notin Of(new) \cup Of(reencrypt)
        /\ incoming[i] = mirror[i].value

(* The machine does not rest in Ready on a queue that has entries: each of *)
(* the three queues has its flag set.                                      *)
QueuesAreFlagged ==
    state = "ready" =>
        /\ Of(new) # {} => "outgoing" \in flags
        /\ Of(reencrypt) # {} => "reencrypt" \in flags
        /\ Of(incoming) # {} => "incoming" \in flags

(* A queued local change is not kept waiting for ever, nor sent round and  *)
(* round between uploading, refusal and reencryption: it is uploaded, or   *)
(* gives way to a change of the zone.                                      *)
LocalChangeIsSettled ==
    \A i \in Item : []<>(i \notin Of(new) \cup Of(reencrypt) \cup Of(inflight))

(* CKKSItem.m, of a record that a fetch brings back: "almost certainly a   *)
(* record we uploaded".  Hearing of this device's own record again costs   *)
(* no change to other content that is queued behind it.                    *)
OwnRecordDropsNothing ==
    [][\A i \in Item :
         /\ mirror'[i] # mirror[i] /\ mirror'[i].mine
         /\ new[i] # NoEntry /\ new[i].value # mirror'[i].value
         => new'[i] # NoEntry]_ckvars

(* CKKSItem.m, on a remote change: "Delete any pending local changes; they *)
(* will be overwritten".  A remote change that waits to be applied and a   *)
(* local one that waits to be uploaded are never of the same item.         *)
RemoteChangeDropsLocal == Of(incoming) \cap Of(new) = {}

(* CKKSOutgoingQueueEntry.m: "Is this modification just changing the       *)
(* mdat?"  A change that is skipped for that reason does not leave an      *)
(* entry with other content on its way to CloudKit.                        *)
SkippedMeansOnlyMdat ==
    [][\A i \in Item, v \in Value :
         LocalChange(i, v) /\ OnlyChangesMdat(i, v) /\ inflight[i] # NoEntry
            => inflight[i].value = v]_ckvars
=============================================================================
