------------------------- MODULE CKKSItemSync_proofs -------------------------
(***************************************************************************)
(* Safety of the item queues for every set of items and contents and every *)
(* batch size: the entries in flight are those of the upload being waited  *)
(* for, and the machine does not rest on a queue with entries.             *)
(*                                                                         *)
(* The second needs an argument about the passes over the incoming queue:  *)
(* a fetch may add an entry behind the cursor of a pass, where the pass    *)
(* will not see it; then its flag is set.  IncomingIsAhead says that an    *)
(* entry without a flag is still ahead, and the lemmas about batches say   *)
(* that a pass which ends leaves nothing ahead.                            *)
(***************************************************************************)
EXTENDS CKKSItemSync, FiniteSetTheorems, WellFoundedInduction, TLAPS

Partial(T) == UNION {[S -> T] : S \in SUBSET Item}
UploadType == [asks : Partial(Entry), full : BOOLEAN,
               answer : {"none", "saved", "refused", "failed"}, at : Nat,
               told : Partial(RecordType)]
FetchType == [upto : Nat, changes : Partial(RecordType)]

(* What is on its way between the device and CloudKit.                     *)
Carried ==
    /\ state = "upload" => upload \in UploadType
    /\ state # "upload" => upload = NoUpload
    /\ orphan # NoUpload => orphan \in UploadType
    /\ fetch # NoFetch => fetch \in FetchType /\ fetch.upto <= clock

IncomingIsAhead ==
    Of(incoming) # {} /\ "incoming" \notin flags =>
        \/ state \in {"initializing", "incomingDeletes"}
        \/ state = "incomingAll" /\ \A i \in Of(incoming) : i > cursor

CKInv ==
    /\ CKTypeOK
    /\ Carried
    /\ InflightIsTheUpload
    /\ QueuesAreFlagged
    /\ IncomingIsAhead

USE ItemAssumption, ValueAssumption, SizeAssumption, EntryAssumption
    DEF ItemAssumption, ValueAssumption, SizeAssumption, EntryAssumption
-----------------------------------------------------------------------------
(* A finite set of numbers has a largest and a smallest element: the sets  *)
(* of larger (smaller) elements are ordered by inclusion, which is         *)
(* well-founded.                                                           *)
LEMMA LargestElement ==
    ASSUME NEW A \in SUBSET Nat, IsFiniteSet(A), A # {}
    PROVE  /\ \E x \in A : \A y \in A : x >= y
           /\ Max(A) \in A /\ \A y \in A : Max(A) >= y
<1> DEFINE Above(i) == {k \in A : k > i}
           T == {Above(i) : i \in A}
<1>1. IsWellFoundedOn(StrictSubsetOrdering(A), SUBSET A)
  BY FS_StrictSubsetOrderingWellFounded, FS_FiniteSubsetsOfFinite
<1>2. T \subseteq SUBSET A /\ T # {}
  OBVIOUS
<1>3. \E t \in T : \A u \in T : ~(<<u, t>> \in StrictSubsetOrdering(A))
  <2> HIDE DEF T
  <2> QED
    BY <1>1, <1>2, WFMin
<1>4. PICK x \in A : \A y \in A : ~(<<Above(y), Above(x)>> \in StrictSubsetOrdering(A))
  BY <1>3
<1>5. ASSUME NEW y \in A, y > x PROVE FALSE
  <2>1. \A k \in A : k > y => k > x
    <3> SUFFICES ASSUME NEW k \in A, k > y PROVE k > x
      OBVIOUS
    <3>1. k \in Nat /\ y \in Nat /\ x \in Nat
      OBVIOUS
    <3> QED
      BY <1>5, <3>1
  <2>2. y \in Above(x) /\ y \notin Above(y)
    <3>1. y \in Nat
      OBVIOUS
    <3> QED
      BY <1>5, <3>1
  <2>3. Above(y) \subseteq Above(x)
    BY <2>1
  <2>4. Above(y) \in SUBSET A /\ Above(x) \in SUBSET A
    OBVIOUS
  <2> HIDE DEF Above
  <2> QED
    BY <1>4, <2>2, <2>3, <2>4 DEF StrictSubsetOrdering
<1>6. \A y \in A : x >= y
  BY <1>5
<1> QED
  BY <1>6 DEF Max

LEMMA SmallestElement ==
    ASSUME NEW A \in SUBSET Nat, IsFiniteSet(A), A # {}
    PROVE  \E x \in A : \A y \in A : x <= y
<1> DEFINE Below(i) == {k \in A : k < i}
           T == {Below(i) : i \in A}
<1>1. IsWellFoundedOn(StrictSubsetOrdering(A), SUBSET A)
  BY FS_StrictSubsetOrderingWellFounded, FS_FiniteSubsetsOfFinite
<1>2. T \subseteq SUBSET A /\ T # {}
  OBVIOUS
<1>3. \E t \in T : \A u \in T : ~(<<u, t>> \in StrictSubsetOrdering(A))
  <2> HIDE DEF T
  <2> QED
    BY <1>1, <1>2, WFMin
<1>4. PICK x \in A : \A y \in A : ~(<<Below(y), Below(x)>> \in StrictSubsetOrdering(A))
  BY <1>3
<1>5. ASSUME NEW y \in A, y < x PROVE FALSE
  <2>1. \A k \in A : k < y => k < x
    <3> SUFFICES ASSUME NEW k \in A, k < y PROVE k < x
      OBVIOUS
    <3>1. k \in Nat /\ y \in Nat /\ x \in Nat
      OBVIOUS
    <3> QED
      BY <1>5, <3>1
  <2>2. y \in Below(x) /\ y \notin Below(y)
    <3>1. y \in Nat
      OBVIOUS
    <3> QED
      BY <1>5, <3>1
  <2>3. Below(y) \subseteq Below(x)
    BY <2>1
  <2>4. Below(y) \in SUBSET A /\ Below(x) \in SUBSET A
    OBVIOUS
  <2> HIDE DEF Below
  <2> QED
    BY <1>4, <2>2, <2>3, <2>4 DEF StrictSubsetOrdering
<1> QED
  BY <1>5

(* The first n elements of a finite set: they are downward closed, at most *)
(* n, and all of the set if they are fewer than n.                         *)
FirstOf(A, n) == {i \in A : Cardinality({j \in A : j < i}) < n}

LEMMA FirstOfFacts ==
    ASSUME NEW A \in SUBSET Nat, IsFiniteSet(A), NEW n \in Nat \ {0}
    PROVE  /\ IsFiniteSet(FirstOf(A, n))
           /\ Cardinality(FirstOf(A, n)) \in Nat
           /\ \A i \in FirstOf(A, n), j \in A \ FirstOf(A, n) : i < j
           /\ Cardinality(FirstOf(A, n)) # n => FirstOf(A, n) = A
<1> DEFINE Below(i) == {j \in A : j < i}
           F == FirstOf(A, n)
<1>1. \A i : /\ Below(i) \in SUBSET A /\ IsFiniteSet(Below(i))
             /\ Cardinality(Below(i)) \in Nat
  BY FS_Subset, FS_CardinalityType
<1>2. F = {i \in A : Cardinality(Below(i)) < n}
  BY DEF FirstOf
<1>3. IsFiniteSet(F) /\ Cardinality(F) \in Nat /\ F \in SUBSET A
  BY <1>2, FS_Subset, FS_CardinalityType
<1>4. ASSUME NEW i \in F, NEW j \in A \ F PROVE i < j
  <2> SUFFICES ASSUME ~(i < j) PROVE FALSE
    OBVIOUS
  <2>1. Below(j) \in SUBSET Below(i)
    <3>1. i \in Nat /\ j \in Nat
      BY <1>3
    <3>2. \A k \in A : k < j => k < i
      <4> SUFFICES ASSUME NEW k \in A, k < j PROVE k < i
        OBVIOUS
      <4>1. k \in Nat
        OBVIOUS
      <4> QED
        BY <3>1, <4>1
    <3> QED
      BY <3>2
  <2>2. Cardinality(Below(j)) <= Cardinality(Below(i))
    <3> HIDE DEF Below
    <3> QED
      BY <1>1, <2>1, FS_Subset
  <2> HIDE DEF Below, F
  <2> QED
    BY <1>1, <1>2, <2>2
<1>5. ASSUME Cardinality(F) < n PROVE F = A
  <2> SUFFICES ASSUME A \ F # {} PROVE FALSE
    BY <1>3
  <2>1. PICK j \in A \ F : \A k \in A \ F : j <= k
    <3>1. A \ F \in SUBSET Nat /\ IsFiniteSet(A \ F)
      BY FS_Subset
    <3> HIDE DEF F
    <3> QED
      BY <3>1, SmallestElement
  <2>2. Below(j) \in SUBSET F
    <3> SUFFICES ASSUME NEW k \in A, k < j, k \notin F PROVE FALSE
      OBVIOUS
    <3>1. k \in Nat /\ j \in Nat
      OBVIOUS
    <3> HIDE DEF F
    <3> QED
      BY <2>1, <3>1
  <2>3. Cardinality(Below(j)) <= Cardinality(F)
    <3> HIDE DEF Below, F
    <3> QED
      BY <1>3, <2>2, FS_Subset
  <2> HIDE DEF Below, F
  <2> QED
    BY <1>1, <1>2, <1>3, <1>5, <2>1, <2>3
<1>6. Cardinality(F) <= n
  <2>1. CASE F = {}
    BY <2>1, FS_EmptySet
  <2>2. CASE F # {}
    <3>1. PICK i \in F : \A k \in F : i >= k
      <4> HIDE DEF F
      <4> QED
        BY <1>3, <2>2, LargestElement
    <3>2. F \in SUBSET (Below(i) \cup {i})
      <4> SUFFICES ASSUME NEW k \in F PROVE k \in Below(i) \cup {i}
        OBVIOUS
      <4>1. k \in A /\ k \in Nat /\ i \in Nat
        BY <1>3
      <4> HIDE DEF F
      <4> QED
        BY <3>1, <4>1
    <3>3. /\ IsFiniteSet(Below(i) \cup {i})
          /\ Cardinality(Below(i) \cup {i}) = Cardinality(Below(i)) + 1
      <4>1. i \notin Below(i)
        <5>1. i \in Nat
          BY <1>3
        <5> QED
          BY <5>1
      <4> HIDE DEF Below
      <4> QED
        BY <1>1, <4>1, FS_AddElement
    <3>4. Cardinality(F) <= Cardinality(Below(i)) + 1
      <4> HIDE DEF Below, F
      <4> QED
        BY <3>2, <3>3, FS_Subset
    <3> HIDE DEF Below, F
    <3> QED
      BY <1>1, <1>2, <1>3, <3>1, <3>4
  <2> QED
    BY <2>1, <2>2
<1> QED
  <2> HIDE DEF F
  <2>1. Cardinality(F) # n => F = A
    BY <1>3, <1>5, <1>6
  <2> QED
    BY <1>3, <1>4, <2>1 DEF F
-----------------------------------------------------------------------------
LEMMA PartialFacts ==
    ASSUME NEW T, NEW f \in Partial(T)
    PROVE  /\ DOMAIN f \in SUBSET Item
           /\ \A i \in DOMAIN f : f[i] \in T
           /\ f = [i \in DOMAIN f |-> f[i]]
BY DEF Partial

LEMMA PartialIntro ==
    ASSUME NEW T, NEW S \in SUBSET Item, NEW f \in [S -> T]
    PROVE  f \in Partial(T)
BY DEF Partial

LEMMA NoRecordTyped == NoRecord \in RecordType
BY DEF NoRecord, RecordType

(* What CloudKit tells is recorded in types, and every entry it adds is of *)
(* an item it tells of.                                                    *)
LEMMA RecordPost ==
    ASSUME CKTypeOK, NEW told \in Partial(RecordType), NEW resync \in BOOLEAN,
           Record(told, resync)
    PROVE  /\ Recorded(told, resync) \subseteq DOMAIN told
           /\ mirror' \in [Item -> RecordType]
           /\ incoming' \in [Item -> Value \cup {NoValue, NoEntry}]
           /\ reencrypt' \in [Item -> Entry \cup {NoEntry}]
           /\ Of(incoming)' \subseteq Of(incoming) \cup DOMAIN told
           /\ Of(reencrypt)' \subseteq Of(reencrypt)
<1> DEFINE S == Recorded(told, resync)
<1>1. S \subseteq DOMAIN told /\ DOMAIN told \subseteq Item
  BY PartialFacts DEF Recorded
<1>2. \A i \in S : told[i] \in RecordType
  BY <1>1, PartialFacts
<1>3. \A i \in S : told[i].value \in Value \cup {NoValue}
  BY <1>2 DEF RecordType
<1>4. /\ mirror' = Mirrored(told, S)
      /\ incoming' = [i \in Item |-> IF i \in S THEN told[i].value ELSE incoming[i]]
      /\ reencrypt' = Without(reencrypt, S)
  BY DEF Record
<1> HIDE DEF S
<1>5. mirror' \in [Item -> RecordType]
  BY <1>2, <1>4, NoRecordTyped DEF Mirrored, CKTypeOK
<1>6. /\ incoming' \in [Item -> Value \cup {NoValue, NoEntry}]
      /\ Of(incoming)' \subseteq Of(incoming) \cup DOMAIN told
  BY <1>1, <1>3, <1>4 DEF CKTypeOK, Of
<1>7. /\ reencrypt' \in [Item -> Entry \cup {NoEntry}]
      /\ Of(reencrypt)' \subseteq Of(reencrypt)
  BY <1>4 DEF CKTypeOK, Without, Of
<1> QED
  BY <1>1, <1>5, <1>6, <1>7 DEF S

LEMMA MirroredTyped ==
    ASSUME CKTypeOK, NEW told \in Partial(RecordType), NEW S \in SUBSET DOMAIN told
    PROVE  Mirrored(told, S) \in [Item -> RecordType]
BY PartialFacts, NoRecordTyped DEF Mirrored, CKTypeOK

LEMMA RequeuedTyped ==
    ASSUME CKTypeOK, NEW S
    PROVE  Requeued(S) \in [Item -> Entry \cup {NoEntry}]
BY DEF Requeued, CKTypeOK

LEMMA WithoutTyped ==
    ASSUME NEW queue \in [Item -> Entry \cup {NoEntry}], NEW S
    PROVE  /\ Without(queue, S) \in [Item -> Entry \cup {NoEntry}]
           /\ Of(Without(queue, S)) = Of(queue) \ S
BY DEF Without, Of

(* CloudKit answers an upload in types; its clock never goes back.         *)
LEMMA CommitPost ==
    ASSUME CKTypeOK, NEW asks \in Partial(Entry), Commit(asks)
    PROVE  /\ server' \in [Item -> RecordType]
           /\ clock' \in Nat /\ clock <= clock'
           /\ Written(asks) \in Partial(RecordType)
           /\ [i \in Refused(asks) |-> server[i]] \in Partial(RecordType)
<1>1. DOMAIN asks \in SUBSET Item /\ \A i \in DOMAIN asks : asks[i] \in Entry
  BY PartialFacts
<1>2. /\ server \in [Item -> RecordType] /\ clock \in Nat
  BY DEF CKTypeOK
<1>3. Written(asks) \in [DOMAIN asks -> RecordType]
  BY <1>1, <1>2 DEF Written, Entry, RecordType
<1>4. Written(asks) \in Partial(RecordType)
  BY <1>1, <1>3, PartialIntro
<1>5. Refused(asks) \in SUBSET Item
  BY <1>1 DEF Refused
<1>6. [i \in Refused(asks) |-> server[i]] \in [Refused(asks) -> RecordType]
  BY <1>2, <1>5
<1>7. [i \in Refused(asks) |-> server[i]] \in Partial(RecordType)
  BY <1>5, <1>6, PartialIntro
<1>8. server' \in [Item -> RecordType] /\ clock' \in Nat /\ clock <= clock'
  <2>1. CASE Refused(asks) # {}
    BY <2>1, <1>2 DEF Commit
  <2>2. CASE Refused(asks) = {}
    BY <2>2, <1>1, <1>2, <1>3 DEF Commit
  <2> QED
    BY <2>1, <2>2
<1> QED
  BY <1>4, <1>7, <1>8
-----------------------------------------------------------------------------
LEMMA CKInitInv == CKInit => CKInv
<1> SUFFICES ASSUME CKInit PROVE CKInv
  OBVIOUS
<1>1. server \in [Item -> RecordType]
  BY NoRecordTyped DEF CKInit, RecordType
<1>2. CKTypeOK
  BY <1>1 DEF CKInit, CKTypeOK, States
<1>3. Carried /\ InflightIsTheUpload /\ QueuesAreFlagged /\ IncomingIsAhead
  BY DEF CKInit, Carried, InflightIsTheUpload, QueuesAreFlagged, IncomingIsAhead, Of
<1> QED
  BY <1>2, <1>3 DEF CKInv

LEMMA LocalChangeInv ==
    ASSUME CKInv, NEW i \in Item, NEW v \in Value \cup {NoValue}, LocalChange(i, v)
    PROVE  CKInv'
<1> USE DEF CKInv
<1>0. /\ UNCHANGED <<mirror, inflight, state, cursor, token, upload, fetch, cloud>>
      /\ keychain' = [keychain EXCEPT ![i] = v]
  BY DEF LocalChange
<1>1. keychain' \in [Item -> Value \cup {NoValue}]
  BY <1>0 DEF CKTypeOK
<1>2. CASE OnlyChangesMdat(i, v) \/ DeletesUnknown(i, v)
  <2>1. /\ new' = Without(new, {i})
        /\ UNCHANGED <<reencrypt, incoming, flags>>
        /\ strayed' \subseteq strayed \cup {i}
    BY <1>2 DEF LocalChange
  <2>2. new' \in [Item -> Entry \cup {NoEntry}] /\ Of(new)' \subseteq Of(new)
    BY <2>1 DEF CKTypeOK, Without, Of
  <2>3. CKTypeOK'
    BY <1>0, <1>1, <2>1, <2>2 DEF CKTypeOK, cloud
  <2> QED
    BY <1>0, <2>1, <2>2, <2>3
    DEF Carried, InflightIsTheUpload, QueuesAreFlagged, IncomingIsAhead, Of, cloud
<1>3. CASE ~(OnlyChangesMdat(i, v) \/ DeletesUnknown(i, v))
  <2> DEFINE e == NewEntry(i, ActionFor(keychain[i], v), v)
  <2>1. /\ new' = [new EXCEPT ![i] = e]
        /\ Supersede(i)
        /\ strayed' \subseteq strayed \cup {i}
    BY <1>3 DEF LocalChange
  <2>2. e \in Entry
    <3>1. ActionFor(keychain[i], v) \in {"add", "modify", "delete"}
      BY DEF ActionFor
    <3>2. Coalesced(i, ActionFor(keychain[i], v)) \in {"add", "modify", "delete"}
      BY <3>1 DEF Coalesced
    <3>3. mirror[i].tag \in Nat
      BY DEF CKTypeOK, RecordType
    <3> QED
      BY <3>2, <3>3 DEF NewEntry, Entry
  <2> HIDE DEF e
  <2>3. new' \in [Item -> Entry \cup {NoEntry}]
    BY <2>1, <2>2 DEF CKTypeOK
  <2>4. /\ reencrypt' \in [Item -> Entry \cup {NoEntry}]
        /\ Of(reencrypt)' \subseteq Of(reencrypt)
        /\ incoming' \in [Item -> Value \cup {NoValue, NoEntry}]
        /\ Of(incoming)' \subseteq Of(incoming)
        /\ flags' = flags \cup {"outgoing"}
    BY <2>1 DEF Supersede, CKTypeOK, Without, Of
  <2>5. CKTypeOK'
    BY <1>0, <1>1, <2>1, <2>3, <2>4 DEF CKTypeOK, cloud
  <2> QED
    BY <1>0, <2>4, <2>5
    DEF Carried, InflightIsTheUpload, QueuesAreFlagged, IncomingIsAhead, Of, cloud
<1> QED
  BY <1>2, <1>3

LEMMA ChangesFetchedInv == CKInv /\ ChangesFetched => CKInv'
<1> SUFFICES ASSUME CKInv, ChangesFetched PROVE CKInv'
  OBVIOUS
<1> USE DEF CKInv
<1>1. /\ fetch \in FetchType /\ fetch.upto <= clock
      /\ Record(fetch.changes, FALSE)
      /\ new' = Without(new, Recorded(fetch.changes, FALSE))
      /\ token' = fetch.upto
      /\ flags' = IF DOMAIN fetch.changes = {} THEN flags ELSE flags \cup {"incoming"}
      /\ fetch' = NoFetch
      /\ UNCHANGED <<keychain, inflight, state, cursor, upload, cloud, strayed>>
  BY DEF ChangesFetched, Carried
<1>2. fetch.changes \in Partial(RecordType) /\ fetch.upto \in Nat
  BY <1>1 DEF FetchType
<1>3. /\ mirror' \in [Item -> RecordType]
      /\ incoming' \in [Item -> Value \cup {NoValue, NoEntry}]
      /\ reencrypt' \in [Item -> Entry \cup {NoEntry}]
      /\ Of(incoming)' \subseteq Of(incoming) \cup DOMAIN fetch.changes
      /\ Of(reencrypt)' \subseteq Of(reencrypt)
  BY <1>1, <1>2, RecordPost
<1>4. new' \in [Item -> Entry \cup {NoEntry}] /\ Of(new)' \subseteq Of(new)
  BY <1>1 DEF CKTypeOK, Without, Of
<1>5. CKTypeOK'
  BY <1>1, <1>2, <1>3, <1>4 DEF CKTypeOK, cloud
<1>6. Carried' /\ InflightIsTheUpload'
  BY <1>1 DEF Carried, InflightIsTheUpload, Of, cloud
<1>7. QueuesAreFlagged' /\ IncomingIsAhead'
  BY <1>1, <1>3, <1>4 DEF QueuesAreFlagged, IncomingIsAhead
<1> QED
  BY <1>5, <1>6, <1>7
-----------------------------------------------------------------------------
LEMMA BecomeReadyInv == CKInv /\ BecomeReady => CKInv'
<1> SUFFICES ASSUME CKInv, BecomeReady PROVE CKInv'
  OBVIOUS
<1>1. /\ state = "becomeReady" /\ state' \in {"incomingDeletes", "reencrypt", "ready"}
      /\ cursor' \in {0, cursor} /\ flags \subseteq flags'
      /\ flags' \subseteq {"reencrypt", "incoming", "outgoing"}
      /\ state' = "ready" => /\ Of(incoming) = {} /\ Of(reencrypt) = {}
                             /\ Of(new) # {} => "outgoing" \in flags'
  BY DEF BecomeReady, CKInv, CKTypeOK
<1>2. UNCHANGED <<keychain, mirror, queues, token, upload, fetch, cloud,
                  strayed, edits, failures>>
  BY DEF BecomeReady
<1>3. CKTypeOK'
  BY <1>1, <1>2 DEF CKInv, CKTypeOK, States, queues, cloud
<1>4. Carried' /\ InflightIsTheUpload'
  BY <1>1, <1>2 DEF CKInv, Carried, InflightIsTheUpload, Of, queues, cloud
<1>5. QueuesAreFlagged' /\ IncomingIsAhead'
  BY <1>1, <1>2 DEF CKInv, QueuesAreFlagged, IncomingIsAhead, Of, queues
<1> QED
  BY <1>3, <1>4, <1>5 DEF CKInv

LEMMA NextOperationInv == CKInv /\ NextOperation => CKInv'
<1> SUFFICES ASSUME CKInv, NextOperation PROVE CKInv'
  OBVIOUS
<1> USE DEF CKInv
<1>1. PICK f \in {"reencrypt", "incoming", "outgoing"} :
          /\ flags' = flags \ {f}
          /\ state' = IF f = "incoming" THEN "incomingDeletes" ELSE f
  BY DEF NextOperation
<1>2. /\ state = "ready" /\ cursor' = 0
      /\ UNCHANGED <<keychain, mirror, queues, token, upload, fetch, cloud, strayed>>
  BY DEF NextOperation
<1>3. CKTypeOK'
  BY <1>1, <1>2 DEF CKTypeOK, States, queues, cloud
<1>4. Carried' /\ InflightIsTheUpload' /\ QueuesAreFlagged'
  BY <1>1, <1>2 DEF Carried, InflightIsTheUpload, QueuesAreFlagged, Of, queues, cloud
<1>5. IncomingIsAhead'
  BY <1>1, <1>2 DEF IncomingIsAhead, Of, queues
<1> QED
  BY <1>3, <1>4, <1>5

(* A batch leaves nothing behind its cursor, and the last batch of a pass  *)
(* nothing at all.                                                         *)
LEMMA BatchFacts ==
    ASSUME CKTypeOK
    PROVE  /\ Batch \subseteq Ahead /\ Ahead \subseteq Of(incoming)
           /\ Cardinality(Batch) = IncomingItemsAtOnce =>
                Max(Batch) \in Nat /\ \A j \in Ahead \ Batch : j > Max(Batch)
           /\ Cardinality(Batch) # IncomingItemsAtOnce => Batch = Ahead
<1>1. Ahead \in SUBSET Nat /\ IsFiniteSet(Ahead) /\ Ahead \subseteq Of(incoming)
  <2>1. Ahead \in SUBSET Item
    BY DEF Ahead, Of
  <2> QED
    BY <2>1, FS_Subset DEF Ahead
<1>2. Batch = FirstOf(Ahead, IncomingItemsAtOnce)
  BY DEF Batch, FirstOf
<1>3. /\ IsFiniteSet(Batch)
      /\ \A i \in Batch, j \in Ahead \ Batch : i < j
      /\ Cardinality(Batch) # IncomingItemsAtOnce => Batch = Ahead
  BY <1>1, <1>2, FirstOfFacts
<1>4. Batch \subseteq Ahead
  BY DEF Batch
<1>5. ASSUME Cardinality(Batch) = IncomingItemsAtOnce
      PROVE  Max(Batch) \in Batch
  <2>1. Batch # {}
    BY <1>5, FS_EmptySet
  <2> QED
    BY <1>1, <1>3, <1>4, <2>1, LargestElement
<1> QED
  BY <1>1, <1>3, <1>4, <1>5

LEMMA IncomingBatchInv == CKInv /\ IncomingBatch => CKInv'
<1> SUFFICES ASSUME CKInv, IncomingBatch PROVE CKInv'
  OBVIOUS
<1> USE DEF CKInv
<1>1. /\ state \in {"incomingDeletes", "incomingAll"}
      /\ keychain' = Applied(Batch)
      /\ incoming' = Without(incoming, Batch)
      /\ UNCHANGED <<mirror, new, reencrypt, inflight, flags, token, upload, fetch, cloud,
                     strayed>>
  BY DEF IncomingBatch
<1>2. \/ /\ Cardinality(Batch) = IncomingItemsAtOnce
         /\ cursor' = Max(Batch) /\ state' = state
      \/ /\ Cardinality(Batch) # IncomingItemsAtOnce /\ cursor' = 0
         /\ state' = IF state = "incomingDeletes" THEN "incomingAll" ELSE "becomeReady"
  BY DEF IncomingBatch
<1>3. cursor' \in Nat /\ state' \in States /\ state' \notin {"ready", "upload", "initializing"}
  BY <1>1, <1>2, BatchFacts DEF States
<1>4. keychain' \in [Item -> Value \cup {NoValue}]
  BY <1>1, BatchFacts DEF CKTypeOK, Applied, Of
<1>5. /\ incoming' \in [Item -> Value \cup {NoValue, NoEntry}]
      /\ Of(incoming)' = Of(incoming) \ Batch
  BY <1>1 DEF CKTypeOK, Without, Of
<1>6. CKTypeOK'
  BY <1>1, <1>3, <1>4, <1>5 DEF CKTypeOK, cloud
<1>7. Carried' /\ InflightIsTheUpload' /\ QueuesAreFlagged'
  BY <1>1, <1>3 DEF Carried, InflightIsTheUpload, QueuesAreFlagged, Of, cloud
<1>8. IncomingIsAhead'
  <2>1. CASE "incoming" \in flags \/ state' = "incomingDeletes"
    BY <1>1, <2>1 DEF IncomingIsAhead
  <2>2. CASE state = "incomingDeletes" /\ state' = "incomingAll"
    <3>1. cursor' = 0
      BY <1>2, <2>2
    <3> QED
      BY <2>2, <3>1 DEF IncomingIsAhead, Of
  <2>3. CASE "incoming" \notin flags /\ state = "incomingAll"
    <3>1. Of(incoming) \subseteq Ahead
      BY <2>3 DEF IncomingIsAhead, Ahead
    <3>2. CASE Cardinality(Batch) = IncomingItemsAtOnce
      BY <1>2, <1>5, <2>3, <3>1, <3>2, BatchFacts DEF IncomingIsAhead
    <3>3. CASE Cardinality(Batch) # IncomingItemsAtOnce
      BY <1>2, <1>5, <2>3, <3>1, <3>3, BatchFacts DEF IncomingIsAhead
    <3> QED
      BY <3>2, <3>3
  <2> QED
    BY <1>1, <1>2, <2>1, <2>2, <2>3
<1> QED
  BY <1>6, <1>7, <1>8

LEMMA ReencryptInv == CKInv /\ Reencrypt => CKInv'
<1> SUFFICES ASSUME CKInv, Reencrypt PROVE CKInv'
  OBVIOUS
<1> USE DEF CKInv
<1> DEFINE rebuilt == Of(reencrypt) \ Of(new)
<1>1. /\ state = "reencrypt" /\ state' = "becomeReady"
      /\ new' = [i \in Item |-> IF i \in rebuilt THEN Rebased(i) ELSE new[i]]
      /\ flags \subseteq flags' /\ flags' \subseteq flags \cup {"outgoing"}
      /\ reencrypt' = Without(reencrypt, Item)
      /\ UNCHANGED <<keychain, mirror, inflight, incoming, cursor, token, upload, fetch,
                     cloud, strayed>>
  BY DEF Reencrypt
<1>2. \A i \in rebuilt : Rebased(i) \in Entry
  <2> SUFFICES ASSUME NEW i \in rebuilt PROVE Rebased(i) \in Entry
    OBVIOUS
  <2>1. i \in Item /\ reencrypt[i] \in Entry /\ mirror[i].tag \in Nat
    BY DEF Of, CKTypeOK, RecordType
  <2>2. reencrypt[i].tag \in Nat
    BY <2>1 DEF Entry
  <2> QED
    BY <2>1, <2>2 DEF Rebased, Entry
<1> HIDE DEF rebuilt
<1>3. new' \in [Item -> Entry \cup {NoEntry}]
  BY <1>1, <1>2 DEF CKTypeOK
<1>4. reencrypt' \in [Item -> Entry \cup {NoEntry}]
  BY <1>1 DEF CKTypeOK, Without
<1>5. CKTypeOK'
  BY <1>1, <1>3, <1>4 DEF CKTypeOK, cloud, States
<1> QED
  BY <1>1, <1>5
  DEF Carried, InflightIsTheUpload, QueuesAreFlagged, IncomingIsAhead, Of, cloud
-----------------------------------------------------------------------------
LEMMA StartUploadInv == CKInv /\ StartUpload => CKInv'
<1> SUFFICES ASSUME CKInv, StartUpload PROVE CKInv'
  OBVIOUS
<1> USE DEF CKInv
<1>1. PICK batch \in FetchEntries :
         LET fetched == batch \ Of(inflight)
             stale == {i \in fetched : Stale(i)}
             sent == fetched \ stale
         IN  /\ new' = Without(new, fetched)
             /\ reencrypt' = [i \in Item |-> IF i \in stale THEN new[i] ELSE reencrypt[i]]
             /\ inflight' = [i \in Item |-> IF i \in sent THEN new[i] ELSE inflight[i]]
             /\ flags' = IF stale = {} THEN flags ELSE flags \cup {"reencrypt"}
             /\ state' = IF sent = {} THEN "becomeReady" ELSE "upload"
             /\ upload' = IF sent = {} THEN NoUpload
                          ELSE [asks |-> [i \in sent |-> new[i]],
                                full |-> Cardinality(batch) = OutgoingItemsAtOnce,
                                answer |-> "none", at |-> 0,
                                told |-> [i \in {} |-> NoRecord]]
  BY DEF StartUpload
<1> DEFINE fetched == batch \ Of(inflight)
           stale == {i \in fetched : Stale(i)}
           sent == fetched \ stale
           asks == [i \in sent |-> new[i]]
           none == [i \in {} |-> NoRecord]
           full == Cardinality(batch) = OutgoingItemsAtOnce
<1>2. /\ state = "outgoing"
      /\ UNCHANGED <<keychain, mirror, incoming, cursor, token, fetch, cloud, strayed>>
  BY DEF StartUpload
<1>3. /\ new' = Without(new, fetched)
      /\ reencrypt' = [i \in Item |-> IF i \in stale THEN new[i] ELSE reencrypt[i]]
      /\ inflight' = [i \in Item |-> IF i \in sent THEN new[i] ELSE inflight[i]]
      /\ flags \subseteq flags' /\ flags' \subseteq flags \cup {"reencrypt"}
      /\ state' = IF sent = {} THEN "becomeReady" ELSE "upload"
      /\ upload' = IF sent = {} THEN NoUpload
                   ELSE [asks |-> asks, full |-> full, answer |-> "none", at |-> 0,
                         told |-> none]
  BY <1>1
<1>4. /\ sent \in SUBSET Item /\ stale \in SUBSET Item
      /\ \A i \in sent : new[i] \in Entry /\ new[i] # NoEntry
      /\ \A i \in stale : new[i] \in Entry
  BY DEF FetchEntries, Of, CKTypeOK
<1>5. asks \in Partial(Entry) /\ DOMAIN asks = sent
  <2>1. asks \in [sent -> Entry]
    BY <1>4
  <2> QED
    BY <1>4, <2>1, PartialIntro
<1>6. none \in Partial(RecordType)
  <2>1. none \in [{} -> RecordType]
    OBVIOUS
  <2> QED
    BY <2>1, PartialIntro
<1>7. full \in BOOLEAN
  OBVIOUS
<1> HIDE DEF fetched, stale, sent, asks, none, full
<1>8. CKTypeOK'
  <2>1. /\ new' \in [Item -> Entry \cup {NoEntry}]
        /\ reencrypt' \in [Item -> Entry \cup {NoEntry}]
        /\ inflight' \in [Item -> Entry \cup {NoEntry}]
    BY <1>3, <1>4 DEF CKTypeOK, Without
  <2>2. state' \in States /\ flags' \subseteq {"reencrypt", "incoming", "outgoing"}
    BY <1>3 DEF CKTypeOK, States
  <2> QED
    BY <1>2, <2>1, <2>2 DEF CKTypeOK, cloud
<1>9. Carried'
  <2>1. sent # {} => upload' \in UploadType
    BY <1>3, <1>5, <1>6, <1>7 DEF UploadType
  <2> QED
    BY <1>2, <1>3, <2>1 DEF Carried, cloud
<1>10. InflightIsTheUpload'
  <2>1. Of(inflight) = {}
    BY <1>2 DEF InflightIsTheUpload
  <2>2. Of(inflight)' = sent
    BY <1>3, <1>4, <2>1 DEF Of
  <2>3. sent # {} => upload'.asks = asks
    BY <1>3
  <2> QED
    BY <1>3, <1>5, <2>2, <2>3 DEF InflightIsTheUpload
<1>11. QueuesAreFlagged' /\ IncomingIsAhead'
  BY <1>2, <1>3 DEF QueuesAreFlagged, IncomingIsAhead, Of
<1> QED
  BY <1>8, <1>9, <1>10, <1>11

(* However the upload has ended, its entries are no longer in flight.      *)
LEMMA UploadCompletedInv == CKInv /\ UploadCompleted => CKInv'
<1> SUFFICES ASSUME CKInv, UploadCompleted PROVE CKInv'
  OBVIOUS
<1> USE DEF CKInv
<1>1. /\ state = "upload" /\ state' = "becomeReady" /\ upload' = NoUpload
      /\ inflight' = Without(inflight, DOMAIN upload.asks)
      /\ UNCHANGED <<keychain, cursor, token, fetch, cloud>>
  BY DEF UploadCompleted, UploadSaved, UploadRefused, UploadFailed
<1>2. upload \in UploadType
  BY <1>1 DEF Carried
<1>3. /\ upload.asks \in Partial(Entry) /\ upload.told \in Partial(RecordType)
      /\ DOMAIN upload.asks \in SUBSET Item /\ DOMAIN upload.told \in SUBSET Item
  BY <1>2, PartialFacts DEF UploadType
<1>4. /\ inflight' \in [Item -> Entry \cup {NoEntry}]
      /\ Of(inflight)' = {}
  BY <1>1 DEF InflightIsTheUpload, CKTypeOK, Without, Of
<1>5. /\ mirror' \in [Item -> RecordType]
      /\ new' \in [Item -> Entry \cup {NoEntry}]
      /\ reencrypt' \in [Item -> Entry \cup {NoEntry}]
      /\ incoming' \in [Item -> Value \cup {NoValue, NoEntry}]
      /\ flags \subseteq flags' /\ flags' \subseteq {"reencrypt", "incoming", "outgoing"}
      /\ strayed' \subseteq Item
      /\ Of(incoming)' \subseteq Of(incoming) \/ "incoming" \in flags'
  <2>1. CASE UploadSaved
    <3>1. mirror' = Mirrored(upload.told, DOMAIN upload.told)
      BY <2>1 DEF UploadSaved
    <3>2. mirror' \in [Item -> RecordType]
      BY <1>3, <3>1, MirroredTyped
    <3>3. strayed' \subseteq Item
      BY <1>3, <2>1 DEF UploadSaved, StrayLate, StraySaved, CKTypeOK
    <3> QED
      BY <2>1, <3>2, <3>3 DEF UploadSaved, CKTypeOK, Of
  <2>2. CASE UploadRefused
    <3> DEFINE others == DOMAIN upload.asks \ DOMAIN upload.told
    <3>1. /\ Record(upload.told, TRUE)
          /\ new' = Without(Requeued(others), Recorded(upload.told, TRUE))
          /\ flags' = flags \cup {"incoming", "outgoing"}
          /\ strayed' = strayed \cup StrayLate(upload.told, upload.at)
                                \cup StrayRequeued(others)
      BY <2>2 DEF UploadRefused, WriteFailed
    <3>2. /\ mirror' \in [Item -> RecordType]
          /\ incoming' \in [Item -> Value \cup {NoValue, NoEntry}]
          /\ reencrypt' \in [Item -> Entry \cup {NoEntry}]
      BY <1>3, <3>1, RecordPost
    <3>3. new' \in [Item -> Entry \cup {NoEntry}]
      BY <3>1, RequeuedTyped, WithoutTyped
    <3>4. strayed' \subseteq Item
      BY <1>3, <3>1 DEF StrayLate, StrayRequeued, CKTypeOK
    <3> QED
      BY <3>1, <3>2, <3>3, <3>4 DEF CKTypeOK
  <2>3. CASE UploadFailed
    <3>1. new' \in [Item -> Entry \cup {NoEntry}]
      BY <2>3, RequeuedTyped DEF UploadFailed
    <3>2. strayed' \subseteq Item
      BY <2>3 DEF UploadFailed, StrayRequeued, Of, CKTypeOK
    <3> QED
      BY <2>3, <3>1, <3>2 DEF UploadFailed, CKTypeOK, Of
  <2> QED
    BY <2>1, <2>2, <2>3 DEF UploadCompleted
<1>6. CKTypeOK'
  BY <1>1, <1>4, <1>5 DEF CKTypeOK, States, cloud
<1>7. Carried' /\ InflightIsTheUpload' /\ QueuesAreFlagged'
  BY <1>1, <1>4 DEF Carried, InflightIsTheUpload, QueuesAreFlagged, cloud
<1>8. IncomingIsAhead'
  BY <1>1, <1>5 DEF IncomingIsAhead
<1> QED
  BY <1>6, <1>7, <1>8
-----------------------------------------------------------------------------
LEMMA CrashInv == CKInv /\ Crash => CKInv'
<1> SUFFICES ASSUME CKInv, Crash PROVE CKInv'
  OBVIOUS
<1> USE DEF CKInv
<1>1. /\ state' = "initializing" /\ flags' = {} /\ cursor' = 0
      /\ upload' = NoUpload /\ fetch' = NoFetch
      /\ orphan' = orphan \/ (upload # NoUpload /\ orphan' = upload)
      /\ UNCHANGED <<keychain, mirror, queues, token, server, clock, strayed>>
  BY DEF Crash
<1>2. CKTypeOK'
  BY <1>1 DEF CKTypeOK, States, queues
<1>3. Carried'
  BY <1>1 DEF Carried
<1> QED
  BY <1>1, <1>2, <1>3
  DEF InflightIsTheUpload, QueuesAreFlagged, IncomingIsAhead

LEMMA RestartInv == CKInv /\ Restart => CKInv'
<1> SUFFICES ASSUME CKInv, Restart PROVE CKInv'
  OBVIOUS
<1> USE DEF CKInv
<1>1. /\ state = "initializing" /\ state' = "incomingDeletes"
      /\ new' = Requeued(Of(inflight))
      /\ strayed' = strayed \cup StrayRequeued(Of(inflight))
      /\ inflight' = Without(inflight, Item)
      /\ UNCHANGED <<keychain, mirror, reencrypt, incoming, flags, cursor, token, upload,
                     fetch, cloud>>
  BY DEF Restart
<1>2. new' \in [Item -> Entry \cup {NoEntry}]
  BY <1>1, RequeuedTyped
<1>3. inflight' \in [Item -> Entry \cup {NoEntry}] /\ Of(inflight)' = {}
  BY <1>1 DEF CKTypeOK, Without, Of
<1>4. strayed' \subseteq Item
  BY <1>1 DEF StrayRequeued, Of, CKTypeOK
<1>5. CKTypeOK'
  BY <1>1, <1>2, <1>3, <1>4 DEF CKTypeOK, States, cloud
<1> QED
  BY <1>1, <1>3, <1>5
  DEF Carried, InflightIsTheUpload, QueuesAreFlagged, IncomingIsAhead, cloud

(* What CloudKit, the network and the other devices do changes only what   *)
(* is carried; an upload keeps the entries it asks for.                    *)
LEMMA ExternalInv == CKInv /\ External => CKInv'
<1> SUFFICES ASSUME CKInv, External PROVE CKInv'
  OBVIOUS
<1> USE DEF CKInv
<1>1. ASSUME server' \in [Item -> RecordType], clock' \in Nat, clock <= clock',
             upload' = upload \/ (state = "upload" /\ upload' \in UploadType
                                  /\ upload'.asks = upload.asks),
             orphan' = orphan \/ orphan' = NoUpload,
             fetch' = fetch \/ (fetch' \in FetchType /\ fetch'.upto <= clock'),
             UNCHANGED <<keychain, mirror, queues, flags, state, cursor, token, strayed>>
      PROVE  CKInv'
  <2>1. CKTypeOK'
    BY <1>1 DEF CKTypeOK, queues
  <2>2. Carried'
    <3>1. fetch # NoFetch => fetch.upto <= clock'
      BY <1>1 DEF Carried, FetchType, CKTypeOK
    <3> QED
      BY <1>1, <3>1 DEF Carried
  <2>3. InflightIsTheUpload'
    BY <1>1 DEF InflightIsTheUpload, Of, queues
  <2>4. QueuesAreFlagged' /\ IncomingIsAhead'
    BY <1>1 DEF QueuesAreFlagged, IncomingIsAhead, Of, queues
  <2> QED
    BY <2>1, <2>2, <2>3, <2>4
<1>2. /\ server \in [Item -> RecordType] /\ clock \in Nat /\ clock <= clock
  BY DEF CKTypeOK
<1>3. CASE ServerHandlesUpload
  <2>1. /\ state = "upload" /\ upload \in UploadType
        /\ upload.asks \in Partial(Entry)
    BY <1>3 DEF ServerHandlesUpload, Carried, UploadType
  <2>2. /\ server' \in [Item -> RecordType] /\ clock' \in Nat /\ clock <= clock'
        /\ Written(upload.asks) \in Partial(RecordType)
        /\ [i \in Refused(upload.asks) |-> server[i]] \in Partial(RecordType)
    BY <1>3, <2>1, CommitPost DEF ServerHandlesUpload
  <2>3. PICK a \in {"saved", "refused"}, t \in Partial(RecordType) :
           upload' = [upload EXCEPT !.answer = a, !.at = clock', !.told = t]
    <3>1. upload' = [upload EXCEPT
             !.answer = IF Refused(upload.asks) = {} THEN "saved" ELSE "refused",
             !.at = clock',
             !.told = IF Refused(upload.asks) = {} THEN Written(upload.asks)
                      ELSE [i \in Refused(upload.asks) |-> server[i]]]
      BY <1>3 DEF ServerHandlesUpload
    <3> QED
      BY <2>2, <3>1
  <2>4. upload' \in UploadType /\ upload'.asks = upload.asks
    BY <2>1, <2>2, <2>3 DEF UploadType
  <2> QED
    BY <1>1, <1>3, <2>1, <2>2, <2>4 DEF ServerHandlesUpload
<1>4. CASE ServerHandlesOrphan
  <2>1. orphan.asks \in Partial(Entry)
    BY <1>4 DEF ServerHandlesOrphan, Carried, UploadType
  <2> QED
    BY <1>1, <1>4, <2>1, CommitPost DEF ServerHandlesOrphan
<1>5. CASE NetworkFails
  <2> DEFINE none == [i \in {} |-> NoRecord]
  <2>1. /\ state = "upload" /\ upload \in UploadType
        /\ upload' = [upload EXCEPT !.answer = "failed", !.told = none]
    BY <1>5 DEF NetworkFails, Carried
  <2>2. none \in Partial(RecordType)
    <3>1. none \in [{} -> RecordType]
      OBVIOUS
    <3> QED
      BY <3>1, PartialIntro
  <2> HIDE DEF none
  <2>3. upload' \in UploadType /\ upload'.asks = upload.asks
    BY <2>1, <2>2 DEF UploadType
  <2> QED
    BY <1>1, <1>2, <1>5, <2>1, <2>3 DEF NetworkFails, cloud
<1>6. CASE ServerAnswersFetch
  <2> DEFINE S == {j \in Item : server[j].tag > token}
  <2>1. fetch' = [upto |-> clock, changes |-> [i \in S |-> server[i]]]
    BY <1>6 DEF ServerAnswersFetch
  <2>2. [i \in S |-> server[i]] \in Partial(RecordType)
    <3>1. S \in SUBSET Item
      OBVIOUS
    <3>2. [i \in S |-> server[i]] \in [S -> RecordType]
      BY <1>2
    <3> HIDE DEF S
    <3> QED
      BY <3>1, <3>2, PartialIntro
  <2> HIDE DEF S
  <2>3. fetch' \in FetchType /\ fetch'.upto <= clock
    BY <1>2, <2>1, <2>2 DEF FetchType
  <2> QED
    BY <1>1, <1>2, <1>6, <2>3 DEF ServerAnswersFetch, cloud
<1>7. ASSUME NEW i \in Item, NEW v \in Value \cup {NoValue}, OtherDevice(i, v)
      PROVE  CKInv'
  <2>1. /\ clock' = clock + 1
        /\ server' = [server EXCEPT ![i] = [tag |-> clock + 1, value |-> v, mine |-> FALSE]]
    BY <1>7 DEF OtherDevice
  <2>2. server' \in [Item -> RecordType]
    BY <1>2, <2>1 DEF RecordType
  <2> QED
    BY <1>1, <1>2, <1>7, <2>1, <2>2 DEF OtherDevice
<1> QED
  BY <1>3, <1>4, <1>5, <1>6, <1>7 DEF External

LEMMA CKNextInv == CKInv /\ [CKNext]_ckvars => CKInv'
<1>1. CKInv /\ UNCHANGED ckvars => CKInv'
  BY DEF CKInv, CKTypeOK, Carried, InflightIsTheUpload, QueuesAreFlagged,
         IncomingIsAhead, Of, ckvars, queues, cloud
<1> QED
  BY <1>1, LocalChangeInv, ChangesFetchedInv, BecomeReadyInv, NextOperationInv,
     IncomingBatchInv, ReencryptInv, StartUploadInv, UploadCompletedInv, CrashInv,
     RestartInv, ExternalInv
  DEF CKNext, Machine

LEMMA CKInvIsInvariant == CKSpec => []CKInv
BY CKInitInv, CKNextInv, PTL DEF CKSpec

(* Queues, mirror, zone and token keep their types; the token never names  *)
(* a write the zone has not made.                                          *)
THEOREM CKTypeCorrect == CKSpec => []CKTypeOK
BY CKInvIsInvariant, PTL DEF CKInv

(* modifyRecordsCompleted finds the entries it looks up: whatever clients  *)
(* and the fetcher do while an upload is under way, and after any crash,   *)
(* the entries in flight are exactly those of the upload waited for.       *)
THEOREM EntriesInFlightAreTheUploads == CKSpec => []InflightIsTheUpload
BY CKInvIsInvariant, PTL DEF CKInv

(* The view's machine never rests in Ready on a queue with entries, also   *)
(* not on one a fetch filled behind the cursor of a running pass.          *)
THEOREM NoQueueIsForgotten == CKSpec => []QueuesAreFlagged
BY CKInvIsInvariant, PTL DEF CKInv
-----------------------------------------------------------------------------
(* The mirror and the zone.  What CloudKit told the device is what it has, *)
(* until a later write.                                                    *)
WellFormed(rec) == Exists(rec) => Known(rec)

ZoneInOrder ==
    /\ token <= clock
    /\ \A i \in Item : server[i].tag <= clock /\ WellFormed(server[i])

FetchIsCurrent ==
    fetch # NoFetch =>
        /\ token <= fetch.upto /\ fetch.upto <= clock
        /\ \A i \in DOMAIN fetch.changes : WellFormed(fetch.changes[i])
        /\ \A i \in Item : server[i].tag <= fetch.upto =>
              /\ i \in DOMAIN fetch.changes <=> server[i].tag > token
              /\ i \in DOMAIN fetch.changes => fetch.changes[i] = server[i]

AnswerIsCurrent ==
    state = "upload" =>
        /\ upload.at <= clock
        /\ \A i \in DOMAIN upload.told :
              /\ upload.told[i].tag <= upload.at /\ WellFormed(upload.told[i])
              /\ server[i].tag <= upload.at => upload.told[i] = server[i]

MirrorInv == ZoneInOrder /\ FetchIsCurrent /\ AnswerIsCurrent /\ MirrorTracksServer

LEMMA MirrorInitInv == CKInit => MirrorInv
BY DEF CKInit, MirrorInv, ZoneInOrder, FetchIsCurrent, AnswerIsCurrent,
       MirrorTracksServer, WellFormed, Exists, Known, NoRecord

(* A step that touches neither mirror nor token nor zone.                  *)
LEMMA MirrorKept ==
    ASSUME MirrorInv, UNCHANGED <<mirror, token, server, clock>>,
           strayed \subseteq strayed', fetch' = fetch \/ fetch' = NoFetch,
           AnswerIsCurrent'
    PROVE  MirrorInv'
BY DEF MirrorInv, ZoneInOrder, FetchIsCurrent, MirrorTracksServer, WellFormed

LEMMA MirrorFetched == CKInv /\ MirrorInv /\ ChangesFetched => MirrorInv'
<1> SUFFICES ASSUME CKInv, MirrorInv, ChangesFetched PROVE MirrorInv'
  OBVIOUS
<1> DEFINE told == fetch.changes
           S == Recorded(told, FALSE)
<1>1. /\ fetch # NoFetch /\ fetch \in FetchType
      /\ token' = fetch.upto /\ fetch' = NoFetch
      /\ mirror' = Mirrored(told, S)
      /\ UNCHANGED <<state, upload, server, clock, strayed>>
  BY DEF ChangesFetched, Record, CKInv, Carried, cloud
<1>2. /\ told \in Partial(RecordType) /\ fetch.upto \in Nat
      /\ server \in [Item -> RecordType] /\ token \in Nat
  BY <1>1 DEF FetchType, CKInv, CKTypeOK
<1>3. DOMAIN told \subseteq Item
  BY <1>2, PartialFacts
<1>4. /\ token <= fetch.upto /\ fetch.upto <= clock
      /\ \A i \in DOMAIN told : WellFormed(told[i])
      /\ \A i \in Item : server[i].tag <= fetch.upto =>
            /\ i \in DOMAIN told <=> server[i].tag > token
            /\ i \in DOMAIN told => told[i] = server[i]
  BY <1>1 DEF MirrorInv, FetchIsCurrent
<1>5. S = {i \in DOMAIN told : IF Exists(told[i]) THEN mirror[i].tag # told[i].tag
                                                  ELSE Known(mirror[i])}
  BY DEF Recorded
<1> HIDE DEF told, S
<1>6. MirrorTracksServer'
  <2> SUFFICES ASSUME NEW i \in Item \ strayed, ~(server[i].tag > fetch.upto)
               PROVE  mirror'[i].tag = IF Exists(server[i]) THEN server[i].tag ELSE 0
    BY <1>1 DEF MirrorTracksServer
  <2>1. server[i].tag \in Nat /\ server[i].tag <= fetch.upto
    BY <1>2 DEF RecordType
  <2>2. CASE i \in DOMAIN told
    <3>1. told[i] = server[i]
      BY <1>4, <2>1, <2>2
    <3>2. CASE i \in S
      BY <1>1, <3>1, <3>2 DEF Mirrored, NoRecord
    <3>3. CASE i \notin S
      BY <1>1, <1>5, <2>2, <3>1, <3>3 DEF Mirrored, Known
    <3> QED
      BY <3>2, <3>3
  <2>3. CASE i \notin DOMAIN told
    <3>1. ~(server[i].tag > token) /\ i \notin S
      BY <1>4, <1>5, <2>1, <2>3
    <3> QED
      BY <1>1, <3>1 DEF Mirrored, MirrorInv, MirrorTracksServer
  <2> QED
    BY <2>2, <2>3
<1> QED
  BY <1>1, <1>4, <1>6
  DEF MirrorInv, ZoneInOrder, FetchIsCurrent, AnswerIsCurrent, WellFormed

(* The answer of an upload: an item it sets back is in strayed.            *)
LEMMA MirrorAnswered ==
    ASSUME CKInv, MirrorInv, state = "upload", NEW S \in SUBSET DOMAIN upload.told,
           \A i \in DOMAIN upload.told \ S :
               ~Exists(upload.told[i]) /\ ~Known(mirror[i]),
           mirror' = Mirrored(upload.told, S), state' = "becomeReady",
           UNCHANGED <<token, fetch, server, clock>>,
           strayed \cup StrayLate(upload.told, upload.at) \subseteq strayed'
    PROVE  MirrorInv'
<1> DEFINE told == upload.told
<1>1. /\ told \in Partial(RecordType) /\ upload.at \in Nat
      /\ server \in [Item -> RecordType] /\ token \in Nat
      /\ mirror \in [Item -> RecordType]
  BY DEF UploadType, CKInv, Carried, CKTypeOK
<1>2. DOMAIN told \subseteq Item /\ \A i \in DOMAIN told : told[i] \in RecordType
  BY <1>1, PartialFacts
<1>3. \A i \in DOMAIN told :
         /\ told[i].tag <= upload.at /\ WellFormed(told[i])
         /\ server[i].tag <= upload.at => told[i] = server[i]
  BY DEF MirrorInv, AnswerIsCurrent
<1>4. MirrorTracksServer'
  <2> SUFFICES ASSUME NEW i \in Item \ strayed', ~(server[i].tag > token)
               PROVE  mirror'[i].tag = IF Exists(server[i]) THEN server[i].tag ELSE 0
    BY DEF MirrorTracksServer
  <2>1. mirror[i].tag = IF Exists(server[i]) THEN server[i].tag ELSE 0
    BY DEF MirrorInv, MirrorTracksServer
  <2>2. CASE i \notin DOMAIN told
    BY <2>1, <2>2 DEF Mirrored
  <2>3. CASE i \in DOMAIN told
    <3> DEFINE t == IF Exists(told[i]) THEN told[i].tag ELSE 0
    <3>1. mirror'[i].tag = t
      BY <1>1, <1>2, <2>3 DEF Mirrored, NoRecord, Known
    <3>2. CASE server[i].tag <= upload.at
      BY <1>3, <2>3, <3>1, <3>2
    <3>3. CASE ~(server[i].tag <= upload.at)
      <4>1. server[i].tag \in Nat
        BY <1>1 DEF RecordType
      <4>2. token >= upload.at
        BY <1>1, <3>3, <4>1
      <4>3. mirror[i].tag = t
        BY <2>3, <4>2 DEF StrayLate
      <4> QED
        BY <2>1, <3>1, <4>3
    <3> QED
      BY <3>2, <3>3
  <2> QED
    BY <2>2, <2>3
<1> QED
  BY <1>4 DEF MirrorInv, ZoneInOrder, FetchIsCurrent, AnswerIsCurrent, WellFormed

(* A write in the zone is later than everything known of it.               *)
LEMMA ZoneWritten ==
    ASSUME CKInv, MirrorInv, clock' \in Nat, clock <= clock',
           server' \in [Item -> RecordType],
           \A i \in Item : \/ server'[i] = server[i]
                           \/ /\ server'[i].tag = clock' /\ clock < clock'
                              /\ WellFormed(server'[i]),
           UNCHANGED <<mirror, token, fetch, strayed>>
    PROVE  ZoneInOrder' /\ FetchIsCurrent' /\ MirrorTracksServer'
<1>1. /\ clock \in Nat /\ token \in Nat
      /\ \A i \in Item : server[i].tag \in Nat /\ server'[i].tag \in Nat
  BY DEF CKInv, CKTypeOK, RecordType
<1>2. ZoneInOrder'
  BY <1>1 DEF MirrorInv, ZoneInOrder, WellFormed
<1>3. FetchIsCurrent'
  <2> SUFFICES ASSUME fetch # NoFetch PROVE FetchIsCurrent'
    BY DEF FetchIsCurrent
  <2>1. fetch.upto \in Nat /\ fetch.upto <= clock
    BY DEF CKInv, Carried, FetchType
  <2> QED
    BY <1>1, <2>1 DEF MirrorInv, FetchIsCurrent, WellFormed
<1>4. MirrorTracksServer'
  BY <1>1 DEF MirrorInv, MirrorTracksServer, ZoneInOrder
<1> QED
  BY <1>2, <1>3, <1>4

LEMMA MirrorWritten ==
    ASSUME CKInv, MirrorInv, clock' \in Nat, clock <= clock',
           server' \in [Item -> RecordType],
           \A i \in Item : \/ server'[i] = server[i]
                           \/ /\ server'[i].tag = clock' /\ clock < clock'
                              /\ WellFormed(server'[i]),
           UNCHANGED <<mirror, token, fetch, strayed>>,
           state' = state, upload' = upload
    PROVE  MirrorInv'
<1>1. /\ clock \in Nat /\ token \in Nat
      /\ \A i \in Item : server[i].tag \in Nat /\ server'[i].tag \in Nat
  BY DEF CKInv, CKTypeOK, RecordType
<1>2. AnswerIsCurrent'
  <2> SUFFICES ASSUME state = "upload" PROVE AnswerIsCurrent'
    BY DEF AnswerIsCurrent
  <2>1. /\ upload.at \in Nat /\ upload.at <= clock
        /\ DOMAIN upload.told \in SUBSET Item
    BY PartialFacts DEF CKInv, Carried, UploadType, MirrorInv, AnswerIsCurrent
  <2>2. ASSUME NEW i \in DOMAIN upload.told, server'[i].tag <= upload.at
        PROVE  server'[i] = server[i]
    <3>1. i \in Item
      BY <2>1
    <3>2. upload.at < clock' \/ clock' = clock
      BY <1>1, <2>1
    <3>3. CASE server'[i].tag = clock' /\ clock < clock'
      BY <1>1, <2>1, <2>2, <3>1, <3>3
    <3> QED
      BY <3>1, <3>3
  <2> QED
    BY <1>1, <2>1, <2>2 DEF MirrorInv, AnswerIsCurrent, WellFormed
<1> QED
  BY <1>2, ZoneWritten DEF MirrorInv

LEMMA MirrorNextInv == CKInv /\ MirrorInv /\ [CKNext]_ckvars => MirrorInv'
<1> SUFFICES ASSUME CKInv, MirrorInv, [CKNext]_ckvars PROVE MirrorInv'
  OBVIOUS
<1>1. ASSUME UNCHANGED <<mirror, token, server, clock, fetch>>, strayed \subseteq strayed',
             state' # "upload" \/ (state' = state /\ upload' = upload)
      PROVE  MirrorInv'
  <2>1. AnswerIsCurrent'
    BY <1>1 DEF MirrorInv, AnswerIsCurrent, WellFormed
  <2> QED
    BY <1>1, <2>1, MirrorKept
<1>2. ASSUME NEW i \in Item, NEW v \in Value \cup {NoValue}, LocalChange(i, v)
      PROVE  MirrorInv'
  <2>1. strayed \subseteq strayed'
    BY <1>2 DEF LocalChange
  <2> QED
    BY <1>1, <1>2, <2>1 DEF LocalChange, cloud
<1>3. CASE BecomeReady \/ NextOperation \/ UNCHANGED ckvars
  BY <1>1, <1>3 DEF BecomeReady, NextOperation, cloud, ckvars
<1>4. CASE IncomingBatch
  BY <1>1, <1>4 DEF IncomingBatch, cloud
<1>5. CASE Reencrypt \/ Restart
  BY <1>1, <1>5 DEF Reencrypt, Restart, cloud
<1>6. CASE StartUpload
  <2>1. UNCHANGED <<mirror, token, server, clock, fetch, strayed>>
    BY <1>6 DEF StartUpload, cloud
  <2>2. state' = "upload" => upload'.at = 0 /\ DOMAIN upload'.told = {}
    BY <1>6 DEF StartUpload
  <2>3. AnswerIsCurrent'
    BY <2>1, <2>2 DEF AnswerIsCurrent, CKInv, CKTypeOK
  <2> QED
    BY <2>1, <2>3, MirrorKept
<1>7. CASE UploadCompleted
  <2>1. /\ state = "upload" /\ state' = "becomeReady"
        /\ UNCHANGED <<token, fetch, server, clock>>
    BY <1>7 DEF UploadCompleted, UploadSaved, UploadRefused, UploadFailed, cloud
  <2>2. CASE UploadSaved
    <3> DEFINE S == DOMAIN upload.told
    <3>1. /\ mirror' = Mirrored(upload.told, S)
          /\ strayed \cup StrayLate(upload.told, upload.at) \subseteq strayed'
      BY <2>2 DEF UploadSaved
    <3> QED
      BY <2>1, <3>1, MirrorAnswered
  <2>3. CASE UploadRefused
    <3> DEFINE S == Recorded(upload.told, TRUE)
    <3>1. /\ mirror' = Mirrored(upload.told, S)
          /\ strayed \cup StrayLate(upload.told, upload.at) \subseteq strayed'
      BY <2>3 DEF UploadRefused, WriteFailed, Record
    <3>2. /\ S \in SUBSET DOMAIN upload.told
          /\ \A i \in DOMAIN upload.told \ S :
                ~Exists(upload.told[i]) /\ ~Known(mirror[i])
      BY DEF Recorded
    <3> HIDE DEF S
    <3> QED
      BY <2>1, <3>1, <3>2, MirrorAnswered
  <2>4. CASE UploadFailed
    <3>1. mirror' = mirror /\ strayed \subseteq strayed'
      BY <2>4 DEF UploadFailed
    <3>2. strayed \subseteq strayed' /\ state' # "upload"
      BY <2>1, <3>1
    <3> QED
      BY <1>1, <2>1, <3>1, <3>2
  <2> QED
    BY <1>7, <2>2, <2>3, <2>4 DEF UploadCompleted
<1>8. CASE Crash
  <2>1. AnswerIsCurrent'
    BY <1>8 DEF Crash, AnswerIsCurrent
  <2> QED
    BY <1>8, <2>1, MirrorKept DEF Crash
<1>9. CASE ChangesFetched
  BY <1>9, MirrorFetched
<1>10. CASE External
  <2>0. /\ server \in [Item -> RecordType] /\ clock \in Nat
        /\ \A i \in Item : server[i].tag \in Nat
    BY DEF CKInv, CKTypeOK, RecordType
  <2>a. ASSUME NEW asks \in Partial(Entry), Commit(asks),
               UNCHANGED <<mirror, token, fetch, strayed>>,
               state' = state
        PROVE  /\ upload' = upload => MirrorInv'
               /\ Refused(asks) = {} =>
                    clock' = clock + 1 /\ \A i \in DOMAIN asks : server'[i] = Written(asks)[i]
    <3>1. DOMAIN asks \in SUBSET Item
      BY PartialFacts
    <3>2. \A i \in DOMAIN asks : Written(asks)[i].tag = clock + 1
      BY DEF Written
    <3>3. CASE Refused(asks) # {}
      <4>1. UNCHANGED <<server, clock>>
        BY <2>a, <3>3 DEF Commit
      <4> QED
        BY <1>1, <2>a, <3>3, <4>1
    <3>4. CASE Refused(asks) = {}
      <4>1. /\ clock' = clock + 1
            /\ server' = [i \in Item |-> IF i \in DOMAIN asks THEN Written(asks)[i]
                                                              ELSE server[i]]
        BY <2>a, <3>4 DEF Commit
      <4>2. \A i \in Item : \/ server'[i] = server[i]
                            \/ /\ server'[i].tag = clock' /\ clock < clock'
                               /\ WellFormed(server'[i])
        BY <2>0, <3>2, <4>1 DEF WellFormed, Known
      <4>3. server' \in [Item -> RecordType] /\ clock' \in Nat /\ clock <= clock'
        BY <2>a, CommitPost DEF CKInv
      <4>4. upload' = upload => MirrorInv'
        BY <2>a, <4>2, <4>3, MirrorWritten
      <4>5. \A i \in DOMAIN asks : server'[i] = Written(asks)[i]
        BY <3>1, <4>1
      <4> QED
        BY <4>1, <4>4, <4>5
    <3> QED
      BY <3>3, <3>4
  <2>1. CASE ServerHandlesUpload
    <3> DEFINE asks == upload.asks
    <3>1. /\ state = "upload" /\ upload \in UploadType /\ asks \in Partial(Entry)
          /\ Commit(asks)
          /\ UNCHANGED <<mirror, token, fetch, strayed>> /\ state' = state
      BY <2>1 DEF ServerHandlesUpload, CKInv, Carried, UploadType
    <3>2. upload' = [upload EXCEPT
             !.answer = IF Refused(asks) = {} THEN "saved" ELSE "refused",
             !.at = clock',
             !.told = IF Refused(asks) = {} THEN Written(asks)
                      ELSE [i \in Refused(asks) |-> server[i]]]
      BY <2>1 DEF ServerHandlesUpload
    <3>3. upload'.at = clock'
          /\ upload'.told = IF Refused(asks) = {} THEN Written(asks)
                            ELSE [i \in Refused(asks) |-> server[i]]
      BY <3>1, <3>2 DEF UploadType
    <3>4. DOMAIN asks \in SUBSET Item /\ Refused(asks) \in SUBSET Item
      BY <3>1, PartialFacts DEF Refused
    <3>5. /\ server' \in [Item -> RecordType] /\ clock' \in Nat /\ clock <= clock'
      BY <3>1, CommitPost DEF CKInv
    <3> HIDE DEF asks
    <3>6. AnswerIsCurrent'
      <4>1. CASE Refused(asks) = {}
        <5>1. /\ upload'.told = Written(asks) /\ DOMAIN Written(asks) = DOMAIN asks
              /\ \A i \in DOMAIN asks : Written(asks)[i].tag = clock + 1
          BY <3>3, <4>1 DEF Written
        <5>2. clock' = clock + 1 /\ \A i \in DOMAIN asks : server'[i] = Written(asks)[i]
          BY <2>a, <3>1, <4>1
        <5> QED
          BY <2>0, <3>3, <5>1, <5>2 DEF AnswerIsCurrent, WellFormed, Known
      <4>2. CASE Refused(asks) # {}
        <5>1. UNCHANGED <<server, clock>>
          BY <3>1, <4>2 DEF Commit
        <5>2. /\ DOMAIN upload'.told = Refused(asks)
              /\ \A i \in Refused(asks) : upload'.told[i] = server[i]
          BY <3>3, <4>2
        <5>3. \A i \in Item : server[i].tag <= clock /\ WellFormed(server[i])
          BY DEF MirrorInv, ZoneInOrder
        <5>4. upload'.at <= clock'
          BY <2>0, <3>3, <5>1
        <5>5. ASSUME NEW i \in DOMAIN upload'.told
              PROVE  /\ upload'.told[i].tag <= upload'.at /\ WellFormed(upload'.told[i])
                     /\ upload'.told[i] = server'[i]
          <6>1. i \in Item /\ upload'.told[i] = server[i]
            BY <3>4, <5>2, <5>5
          <6> QED
            BY <3>3, <5>1, <5>3, <6>1
        <5> QED
          BY <5>4, <5>5 DEF AnswerIsCurrent, WellFormed
      <4> QED
        BY <4>1, <4>2
    <3>7. ZoneInOrder' /\ FetchIsCurrent' /\ MirrorTracksServer'
      <4>1. CASE Refused(asks) # {}
        <5>1. UNCHANGED <<server, clock>>
          BY <3>1, <4>1 DEF Commit
        <5> QED
          BY <3>1, <5>1 DEF MirrorInv, ZoneInOrder, FetchIsCurrent, MirrorTracksServer, WellFormed
      <4>2. CASE Refused(asks) = {}
        <5>1. /\ clock' = clock + 1
              /\ server' = [i \in Item |-> IF i \in DOMAIN asks THEN Written(asks)[i]
                                                                ELSE server[i]]
          BY <3>1, <4>2 DEF Commit
        <5>2. \A i \in DOMAIN asks : Written(asks)[i].tag = clock + 1
          BY DEF Written
        <5>3. \A i \in Item : \/ server'[i] = server[i]
                              \/ /\ server'[i].tag = clock' /\ clock < clock'
                                 /\ WellFormed(server'[i])
          BY <2>0, <5>1, <5>2 DEF WellFormed, Known
        <5> QED
          BY <3>1, <3>5, <5>3, ZoneWritten
      <4> QED
        BY <4>1, <4>2
    <3> QED
      BY <3>6, <3>7 DEF MirrorInv
  <2>2. CASE ServerHandlesOrphan
    <3>1. orphan.asks \in Partial(Entry)
      BY <2>2 DEF ServerHandlesOrphan, CKInv, Carried, UploadType
    <3> QED
      BY <2>2, <2>a, <3>1 DEF ServerHandlesOrphan
  <2>3. CASE NetworkFails
    <3>1. /\ UNCHANGED <<mirror, token, server, clock, fetch, strayed>>
          /\ state = "upload" /\ upload \in UploadType
          /\ upload' = [upload EXCEPT !.answer = "failed",
                                      !.told = [i \in {} |-> NoRecord]]
      BY <2>3 DEF NetworkFails, CKInv, Carried, cloud
    <3>2. upload'.at = upload.at /\ DOMAIN upload'.told = {}
      BY <3>1 DEF UploadType
    <3>3. AnswerIsCurrent'
      BY <3>1, <3>2 DEF MirrorInv, AnswerIsCurrent
    <3> QED
      BY <3>1, <3>3, MirrorKept
  <2>4. CASE ServerAnswersFetch
    <3> DEFINE S == {j \in Item : server[j].tag > token}
    <3>1. /\ fetch' = [upto |-> clock, changes |-> [i \in S |-> server[i]]]
          /\ UNCHANGED <<mirror, token, server, clock, strayed, state, upload>>
      BY <2>4 DEF ServerAnswersFetch, cloud
    <3>2. FetchIsCurrent'
      <4>1. /\ fetch'.upto = clock /\ DOMAIN fetch'.changes = S
            /\ \A i \in S : fetch'.changes[i] = server[i]
        BY <3>1
      <4>2. /\ token <= clock
            /\ \A i \in Item : server[i].tag <= clock /\ WellFormed(server[i])
        BY DEF MirrorInv, ZoneInOrder
      <4> QED
        BY <2>0, <3>1, <4>1, <4>2 DEF FetchIsCurrent, WellFormed
    <3> QED
      BY <3>1, <3>2 DEF MirrorInv, ZoneInOrder, AnswerIsCurrent, MirrorTracksServer, WellFormed
  <2>5. ASSUME NEW i \in Item, NEW v \in Value \cup {NoValue}, OtherDevice(i, v)
        PROVE  MirrorInv'
    <3>1. /\ clock' = clock + 1
          /\ server' = [server EXCEPT ![i] = [tag |-> clock + 1, value |-> v, mine |-> FALSE]]
          /\ UNCHANGED <<mirror, token, fetch, strayed, state, upload>>
      BY <2>5 DEF OtherDevice
    <3>2. server' \in [Item -> RecordType]
      BY <2>0, <3>1 DEF RecordType
    <3>3. \A j \in Item : \/ server'[j] = server[j]
                          \/ /\ server'[j].tag = clock' /\ clock < clock'
                             /\ WellFormed(server'[j])
      BY <2>0, <3>1 DEF WellFormed, Known
    <3>4. clock' \in Nat /\ clock <= clock'
      BY <2>0, <3>1
    <3> QED
      BY <3>1, <3>2, <3>3, <3>4, MirrorWritten
  <2> QED
    BY <1>10, <2>1, <2>2, <2>3, <2>4, <2>5 DEF External
<1> QED
  BY <1>2, <1>3, <1>4, <1>5, <1>6, <1>7, <1>8, <1>9, <1>10 DEF CKNext, Machine
-----------------------------------------------------------------------------
(* The entries of an item and its content here and in the mirror.          *)
MirrorShape == \A i \in Item : Known(mirror[i]) <=> Exists(mirror[i])

DeleteShape(queue) ==
    \A i \in Item :
        queue[i] # NoEntry => (queue[i].action = "delete" <=> queue[i].value = NoValue)

ReencryptFirst ==
    /\ state = "outgoing" => Of(reencrypt) = {}
    /\ Of(inflight) \cap Of(reencrypt) = {}

(* An entry holds what the keychain holds, unless a newer one does.        *)
EntryIsKeychain(i) ==
    /\ new[i] # NoEntry => new[i].value = keychain[i]
    /\ reencrypt[i] # NoEntry => reencrypt[i].value = keychain[i]
    /\ inflight[i] # NoEntry /\ new[i] = NoEntry /\ incoming[i] = NoEntry
          => inflight[i].value = keychain[i]

(* An entry built on a record is so while the mirror has one, and no entry *)
(* is built on a record that a delete in flight is about to remove.        *)
EntryHasRecord(i) ==
    /\ new[i] # NoEntry /\ new[i].tag # 0 => Known(mirror[i])
    /\ reencrypt[i] # NoEntry /\ reencrypt[i].tag # 0 => Known(mirror[i])
    /\ inflight[i] # NoEntry /\ inflight[i].tag # 0 /\ new[i] = NoEntry
          /\ incoming[i] = NoEntry => Known(mirror[i])
    /\ inflight[i] # NoEntry /\ inflight[i].action = "delete" /\ new[i] # NoEntry
          => new[i].tag = 0

IsQueued(i) ==
    \/ new[i] # NoEntry \/ reencrypt[i] # NoEntry
    \/ inflight[i] # NoEntry \/ incoming[i] # NoEntry

ItemInOrder(i) ==
    /\ EntryIsKeychain(i)
    /\ EntryHasRecord(i)
    /\ keychain[i] # mirror[i].value => IsQueued(i)
    /\ incoming[i] # NoEntry =>
          new[i] = NoEntry /\ reencrypt[i] = NoEntry /\ incoming[i] = mirror[i].value

(* The upload asks for the entries in flight, and its answer is about them. *)
UploadIsInflight ==
    state = "upload" =>
        /\ \A i \in DOMAIN upload.asks : upload.asks[i] = inflight[i]
        /\ upload.answer = "saved" =>
              /\ DOMAIN upload.told = DOMAIN upload.asks
              /\ \A i \in DOMAIN upload.asks : upload.told[i].value = upload.asks[i].value
        /\ upload.answer = "refused" =>
              \A i \in DOMAIN upload.told :
                  /\ i \in DOMAIN upload.asks
                  /\ ~Exists(upload.told[i]) => upload.asks[i].tag # 0

QueueInv ==
    /\ MirrorShape
    /\ DeleteShape(new) /\ DeleteShape(reencrypt) /\ DeleteShape(inflight)
    /\ ReencryptFirst
    /\ UploadIsInflight
    /\ \A i \in Item \ strayed : ItemInOrder(i)

LEMMA QueueInitInv == CKInit => QueueInv
BY DEF CKInit, QueueInv, MirrorShape, DeleteShape, ReencryptFirst, UploadIsInflight,
       ItemInOrder, EntryIsKeychain, EntryHasRecord, IsQueued, Of, Known, Exists, NoRecord

LEMMA ItemKept ==
    ASSUME NEW i, ItemInOrder(i),
           keychain'[i] = keychain[i], mirror'[i] = mirror[i], new'[i] = new[i],
           reencrypt'[i] = reencrypt[i], inflight'[i] = inflight[i],
           incoming'[i] = incoming[i]
    PROVE  ItemInOrder(i)'
BY DEF ItemInOrder, EntryIsKeychain, EntryHasRecord, IsQueued, Known

(* A step that changes neither keychain, mirror nor queues.                *)
LEMMA QueuesKept ==
    ASSUME QueueInv, UNCHANGED <<keychain, mirror, queues>>,
           strayed \subseteq strayed',
           state' = "outgoing" => Of(reencrypt) = {},
           UploadIsInflight'
    PROVE  QueueInv'
<1>1. \A i \in Item \ strayed' : ItemInOrder(i)'
  BY ItemKept DEF QueueInv, queues
<1> QED
  BY <1>1 DEF QueueInv, MirrorShape, DeleteShape, ReencryptFirst, Of, queues, Known

LEMMA QueueLocalChange ==
    ASSUME CKInv, QueueInv, NEW i \in Item, NEW v \in Value \cup {NoValue},
           LocalChange(i, v)
    PROVE  QueueInv'
<1>1. /\ UNCHANGED <<mirror, inflight, state, upload>>
      /\ keychain' = [keychain EXCEPT ![i] = v]
      /\ keychain[i] # NoValue \/ v # NoValue
      /\ strayed \subseteq strayed'
  BY DEF LocalChange
<1>2. /\ keychain \in [Item -> Value \cup {NoValue}] /\ mirror \in [Item -> RecordType]
      /\ new \in [Item -> Entry \cup {NoEntry}]
      /\ reencrypt \in [Item -> Entry \cup {NoEntry}]
      /\ incoming \in [Item -> Value \cup {NoValue, NoEntry}]
  BY DEF CKInv, CKTypeOK
<1>3. UploadIsInflight' /\ MirrorShape' /\ DeleteShape(inflight)'
  BY <1>1 DEF QueueInv, UploadIsInflight, MirrorShape, DeleteShape, Known
<1>4. CASE OnlyChangesMdat(i, v) \/ DeletesUnknown(i, v)
  <2>1. /\ new' = Without(new, {i}) /\ UNCHANGED <<reencrypt, incoming>>
        /\ i \in Of(inflight) \cup Of(reencrypt) => i \in strayed'
    BY <1>4 DEF LocalChange
  <2>2. mirror[i].value = v
    BY <1>4 DEF OnlyChangesMdat, DeletesUnknown, QueueInv, MirrorShape, Known, Exists
  <2>3. ASSUME NEW j \in Item \ strayed' PROVE ItemInOrder(j)'
    <3>0. ItemInOrder(j)
      BY <1>1 DEF QueueInv
    <3>1. CASE j # i
      BY <1>1, <1>2, <2>1, <3>0, <3>1, ItemKept DEF Without
    <3>2. CASE j = i
      <4>1. /\ new'[i] = NoEntry /\ reencrypt'[i] = NoEntry /\ inflight'[i] = NoEntry
            /\ keychain'[i] = v /\ incoming'[i] = incoming[i] /\ mirror'[i] = mirror[i]
        BY <1>1, <1>2, <2>1, <3>2 DEF Without, Of
      <4> QED
        BY <2>2, <3>0, <3>2, <4>1
        DEF ItemInOrder, EntryIsKeychain, EntryHasRecord, IsQueued
    <3> QED
      BY <3>1, <3>2
  <2>4. DeleteShape(new)' /\ DeleteShape(reencrypt)' /\ ReencryptFirst'
    BY <1>1, <2>1 DEF QueueInv, DeleteShape, ReencryptFirst, Without, Of
  <2> QED
    BY <1>3, <2>3, <2>4 DEF QueueInv
<1>5. CASE ~(OnlyChangesMdat(i, v) \/ DeletesUnknown(i, v))
  <2> DEFINE action == ActionFor(keychain[i], v)
             e == NewEntry(i, action, v)
  <2>1. /\ new' = [new EXCEPT ![i] = e]
        /\ reencrypt' = Without(reencrypt, {i}) /\ incoming' = Without(incoming, {i})
        /\ i \in Of(inflight) /\ inflight[i].action = "delete" /\ Known(mirror[i])
              => i \in strayed'
    BY <1>5 DEF LocalChange, Supersede
  <2>2. /\ e \in Entry /\ e.value = v /\ e.tag = mirror[i].tag
        /\ e.action = "delete" <=> v = NoValue
    <3>1. /\ action \in {"add", "modify", "delete"}
          /\ action = "delete" <=> v = NoValue
      BY <1>1 DEF ActionFor
    <3>2. /\ Coalesced(i, action) \in {"add", "modify", "delete"}
          /\ Coalesced(i, action) = "delete" <=> v = NoValue
      <4> HIDE DEF action
      <4> QED
        BY <3>1 DEF Coalesced
    <3>3. mirror[i].tag \in Nat
      BY <1>2 DEF RecordType
    <3> HIDE DEF action
    <3> QED
      BY <3>2, <3>3 DEF NewEntry, Entry
  <2> HIDE DEF e
  <2>3. ASSUME NEW j \in Item \ strayed' PROVE ItemInOrder(j)'
    <3>0. ItemInOrder(j)
      BY <1>1 DEF QueueInv
    <3>1. CASE j # i
      BY <1>1, <1>2, <2>1, <3>0, <3>1, ItemKept DEF Without
    <3>2. CASE j = i
      <4>1. /\ new'[i] = e /\ e # NoEntry /\ reencrypt'[i] = NoEntry
            /\ inflight'[i] = inflight[i] /\ keychain'[i] = v
            /\ incoming'[i] = NoEntry /\ mirror'[i] = mirror[i]
        BY <1>1, <1>2, <2>1, <2>2, <3>2 DEF Without
      <4>2. inflight[i] # NoEntry /\ inflight[i].action = "delete" => mirror[i].tag = 0
        BY <2>1, <3>2 DEF Of, Known
      <4> QED
        BY <2>2, <3>2, <4>1, <4>2
        DEF ItemInOrder, EntryIsKeychain, EntryHasRecord, IsQueued, Known
    <3> QED
      BY <3>1, <3>2
  <2>4. DeleteShape(new)' /\ DeleteShape(reencrypt)' /\ ReencryptFirst'
    BY <1>1, <1>2, <2>1, <2>2 DEF QueueInv, DeleteShape, ReencryptFirst, Without, Of
  <2> QED
    BY <1>3, <2>3, <2>4 DEF QueueInv
<1> QED
  BY <1>4, <1>5

LEMMA QueueFetched == CKInv /\ MirrorInv /\ QueueInv /\ ChangesFetched => QueueInv'
<1> SUFFICES ASSUME CKInv, MirrorInv, QueueInv, ChangesFetched PROVE QueueInv'
  OBVIOUS
<1> DEFINE told == fetch.changes
           S == Recorded(told, FALSE)
<1>1. /\ fetch # NoFetch /\ fetch \in FetchType
      /\ mirror' = Mirrored(told, S)
      /\ incoming' = [i \in Item |-> IF i \in S THEN told[i].value ELSE incoming[i]]
      /\ reencrypt' = Without(reencrypt, S) /\ new' = Without(new, S)
      /\ UNCHANGED <<keychain, inflight, state, upload, strayed>>
  BY DEF ChangesFetched, Record, CKInv, Carried
<1>2. /\ \A i \in S : told[i] \in RecordType /\ WellFormed(told[i])
      /\ S \subseteq Item
  BY <1>1, PartialFacts DEF FetchType, Recorded, MirrorInv, FetchIsCurrent
<1>3. \A i \in S : told[i].value # NoEntry
  BY <1>2 DEF RecordType
<1> HIDE DEF told, S
<1>4. MirrorShape'
  BY <1>1, <1>2 DEF QueueInv, MirrorShape, Mirrored, WellFormed, Known, Exists, NoRecord
<1>5. DeleteShape(new)' /\ DeleteShape(reencrypt)' /\ DeleteShape(inflight)' /\ ReencryptFirst'
  BY <1>1 DEF QueueInv, DeleteShape, ReencryptFirst, Without, Of
<1>6. UploadIsInflight'
  BY <1>1 DEF QueueInv, UploadIsInflight
<1>7. ASSUME NEW j \in Item \ strayed' PROVE ItemInOrder(j)'
  <2>0. ItemInOrder(j)
    BY <1>1 DEF QueueInv
  <2>1. CASE j \notin S
    BY <1>1, <2>0, <2>1, ItemKept DEF Mirrored, Without
  <2>2. CASE j \in S
    <3>1. /\ new'[j] = NoEntry /\ reencrypt'[j] = NoEntry
          /\ incoming'[j] = told[j].value /\ incoming'[j] # NoEntry
      BY <1>1, <1>3, <2>2 DEF Without
    <3>2. mirror'[j].value = told[j].value
      BY <1>1, <2>2 DEF Mirrored, Exists, NoRecord
    <3> QED
      BY <3>1, <3>2 DEF ItemInOrder, EntryIsKeychain, EntryHasRecord, IsQueued
  <2> QED
    BY <2>1, <2>2
<1> QED
  BY <1>4, <1>5, <1>6, <1>7 DEF QueueInv

LEMMA QueueIncomingBatch == CKInv /\ QueueInv /\ IncomingBatch => QueueInv'
<1> SUFFICES ASSUME CKInv, QueueInv, IncomingBatch PROVE QueueInv'
  OBVIOUS
<1>1. /\ state \in {"incomingDeletes", "incomingAll"}
      /\ state' \in {"incomingDeletes", "incomingAll", "becomeReady"}
      /\ keychain' = Applied(Batch) /\ incoming' = Without(incoming, Batch)
      /\ UNCHANGED <<mirror, new, reencrypt, inflight, strayed>>
  BY DEF IncomingBatch
<1>2. Of(inflight) = {} /\ \A i \in Batch : i \in Item /\ incoming[i] # NoEntry
  BY <1>1, BatchFacts DEF CKInv, InflightIsTheUpload, Of
<1>3. ASSUME NEW j \in Item \ strayed' PROVE ItemInOrder(j)'
  <2>0. ItemInOrder(j) /\ inflight[j] = NoEntry
    BY <1>1, <1>2 DEF QueueInv, Of
  <2>1. CASE j \notin Batch
    BY <1>1, <2>0, <2>1, ItemKept DEF Applied, Without
  <2>2. CASE j \in Batch
    <3>1. keychain'[j] = incoming[j] /\ incoming'[j] = NoEntry /\ incoming[j] # NoEntry
      BY <1>1, <1>2, <2>2 DEF Applied, Without
    <3> QED
      BY <1>1, <2>0, <3>1 DEF ItemInOrder, EntryIsKeychain, EntryHasRecord, IsQueued
  <2> QED
    BY <2>1, <2>2
<1> QED
  BY <1>1, <1>3
  DEF QueueInv, MirrorShape, DeleteShape, ReencryptFirst, UploadIsInflight, Of, Known

LEMMA QueueReencrypt == CKInv /\ QueueInv /\ Reencrypt => QueueInv'
<1> SUFFICES ASSUME CKInv, QueueInv, Reencrypt PROVE QueueInv'
  OBVIOUS
<1>1. /\ state = "reencrypt" /\ state' = "becomeReady"
      /\ new' = [i \in Item |-> IF i \in Of(reencrypt) \ Of(new) THEN Rebased(i)
                                                                 ELSE new[i]]
      /\ reencrypt' = Without(reencrypt, Item)
      /\ UNCHANGED <<keychain, mirror, inflight, incoming, strayed>>
  BY DEF Reencrypt
<1>2. Of(inflight) = {}
  BY <1>1 DEF CKInv, InflightIsTheUpload
<1>3. ASSUME NEW i \in Of(reencrypt)
      PROVE  /\ Rebased(i) \in Entry
             /\ Rebased(i).value = reencrypt[i].value
             /\ Rebased(i).action = reencrypt[i].action
             /\ Rebased(i).tag = IF Known(mirror[i]) THEN mirror[i].tag ELSE reencrypt[i].tag
  <2>1. i \in Item /\ reencrypt[i] \in Entry /\ mirror[i].tag \in Nat
    BY DEF Of, CKInv, CKTypeOK, RecordType
  <2> QED
    BY <2>1 DEF Rebased, Entry
<1>4. ASSUME NEW j \in Item \ strayed' PROVE ItemInOrder(j)'
  <2>0. /\ ItemInOrder(j) /\ inflight[j] = NoEntry /\ reencrypt'[j] = NoEntry
    BY <1>1, <1>2 DEF QueueInv, Of, Without
  <2>1. CASE j \in Of(reencrypt) \ Of(new)
    <3>1. new'[j] = Rebased(j) /\ Rebased(j) # NoEntry /\ reencrypt[j] # NoEntry
      BY <1>1, <1>3, <2>1 DEF Of
    <3> QED
      BY <1>1, <1>3, <2>0, <2>1, <3>1
      DEF ItemInOrder, EntryIsKeychain, EntryHasRecord, IsQueued, Known
  <2>2. CASE j \notin Of(reencrypt) \ Of(new)
    <3>1. new'[j] = new[j] /\ (reencrypt[j] = NoEntry \/ new[j] # NoEntry)
      BY <1>1, <2>2 DEF Of
    <3> QED
      BY <1>1, <2>0, <3>1
      DEF ItemInOrder, EntryIsKeychain, EntryHasRecord, IsQueued, Known
  <2> QED
    BY <2>1, <2>2
<1>5. DeleteShape(new)'
  <2>1. ASSUME NEW i \in Of(reencrypt)
        PROVE  Rebased(i).action = "delete" <=> Rebased(i).value = NoValue
    BY <1>3, <2>1 DEF QueueInv, DeleteShape, Of
  <2> QED
    BY <1>1, <2>1 DEF QueueInv, DeleteShape
<1> QED
  BY <1>1, <1>2, <1>4, <1>5
  DEF QueueInv, MirrorShape, DeleteShape, ReencryptFirst, UploadIsInflight, Of, Known, Without

LEMMA QueueStartUpload == CKInv /\ QueueInv /\ StartUpload => QueueInv'
<1> SUFFICES ASSUME CKInv, QueueInv, StartUpload PROVE QueueInv'
  OBVIOUS
<1>1. PICK batch \in FetchEntries :
         LET fetched == batch \ Of(inflight)
             stale == {i \in fetched : Stale(i)}
             sent == fetched \ stale
         IN  /\ new' = Without(new, fetched)
             /\ reencrypt' = [i \in Item |-> IF i \in stale THEN new[i] ELSE reencrypt[i]]
             /\ inflight' = [i \in Item |-> IF i \in sent THEN new[i] ELSE inflight[i]]
             /\ state' = IF sent = {} THEN "becomeReady" ELSE "upload"
             /\ upload' = IF sent = {} THEN NoUpload
                          ELSE [asks |-> [i \in sent |-> new[i]],
                                full |-> Cardinality(batch) = OutgoingItemsAtOnce,
                                answer |-> "none", at |-> 0,
                                told |-> [i \in {} |-> NoRecord]]
  BY DEF StartUpload
<1> DEFINE fetched == batch \ Of(inflight)
           stale == {i \in fetched : Stale(i)}
           sent == fetched \ stale
<1>2. /\ state = "outgoing" /\ state' # "outgoing"
      /\ new' = Without(new, fetched)
      /\ reencrypt' = [i \in Item |-> IF i \in stale THEN new[i] ELSE reencrypt[i]]
      /\ inflight' = [i \in Item |-> IF i \in sent THEN new[i] ELSE inflight[i]]
      /\ state' = "upload" =>
            /\ DOMAIN upload'.asks = sent /\ upload'.answer = "none"
            /\ \A i \in sent : upload'.asks[i] = new[i]
      /\ UNCHANGED <<keychain, mirror, incoming, strayed>>
  BY <1>1 DEF StartUpload
<1>3. /\ fetched \subseteq Item /\ \A i \in fetched : new[i] # NoEntry
      /\ stale \subseteq fetched /\ sent = fetched \ stale
  BY DEF FetchEntries, Of
<1>4. Of(inflight) = {} /\ Of(reencrypt) = {}
  BY <1>2 DEF CKInv, InflightIsTheUpload, QueueInv, ReencryptFirst
<1> HIDE DEF fetched, stale, sent
<1>5. ASSUME NEW j \in Item \ strayed' PROVE ItemInOrder(j)'
  <2>0. ItemInOrder(j) /\ inflight[j] = NoEntry /\ reencrypt[j] = NoEntry
    BY <1>2, <1>4 DEF QueueInv, Of
  <2>1. CASE j \notin fetched
    BY <1>2, <1>3, <2>0, <2>1, ItemKept DEF Without
  <2>2. CASE j \in stale
    <3>1. /\ new'[j] = NoEntry /\ reencrypt'[j] = new[j] /\ inflight'[j] = NoEntry
          /\ new[j] # NoEntry
      BY <1>2, <1>3, <2>0, <2>2 DEF Without
    <3> QED
      BY <1>2, <2>0, <3>1
      DEF ItemInOrder, EntryIsKeychain, EntryHasRecord, IsQueued, Known
  <2>3. CASE j \in sent
    <3>1. /\ new'[j] = NoEntry /\ reencrypt'[j] = NoEntry /\ inflight'[j] = new[j]
          /\ new[j] # NoEntry
      BY <1>2, <1>3, <2>0, <2>3 DEF Without
    <3> QED
      BY <1>2, <2>0, <3>1
      DEF ItemInOrder, EntryIsKeychain, EntryHasRecord, IsQueued, Known
  <2> QED
    BY <1>3, <2>1, <2>2, <2>3
<1>6. MirrorShape' /\ DeleteShape(new)' /\ DeleteShape(reencrypt)' /\ DeleteShape(inflight)'
  BY <1>2, <1>3 DEF QueueInv, MirrorShape, DeleteShape, Without, Known
<1>7. ReencryptFirst'
  BY <1>2, <1>3, <1>4 DEF ReencryptFirst, Of
<1>8. UploadIsInflight'
  BY <1>2, <1>3 DEF UploadIsInflight
<1> QED
  BY <1>5, <1>6, <1>7, <1>8 DEF QueueInv

(* Entries that go back to new are no older than what the keychain holds.  *)
LEMMA QueueRequeued ==
    ASSUME CKInv, QueueInv, NEW j \in Item \ strayed, inflight[j] # NoEntry,
           new'[j] = IF new[j] = NoEntry THEN inflight[j] ELSE new[j],
           inflight'[j] = NoEntry, reencrypt'[j] = reencrypt[j],
           incoming'[j] = incoming[j], mirror'[j] = mirror[j],
           keychain'[j] = keychain[j],
           ~(new[j] = NoEntry /\ incoming[j] # NoEntry)
    PROVE  ItemInOrder(j)'
<1>1. ItemInOrder(j)
  BY DEF QueueInv
<1>2. reencrypt[j] = NoEntry
  BY DEF QueueInv, ReencryptFirst, Of
<1> QED
  BY <1>1, <1>2
  DEF ItemInOrder, EntryIsKeychain, EntryHasRecord, IsQueued, Known

LEMMA QueueRestart == CKInv /\ QueueInv /\ Restart => QueueInv'
<1> SUFFICES ASSUME CKInv, QueueInv, Restart PROVE QueueInv'
  OBVIOUS
<1>1. /\ state' = "incomingDeletes"
      /\ new' = Requeued(Of(inflight)) /\ inflight' = Without(inflight, Item)
      /\ strayed' = strayed \cup StrayRequeued(Of(inflight))
      /\ UNCHANGED <<keychain, mirror, reencrypt, incoming>>
  BY DEF Restart
<1>2. ASSUME NEW j \in Item \ strayed' PROVE ItemInOrder(j)'
  <2>0. ItemInOrder(j) /\ j \in Item \ strayed /\ inflight'[j] = NoEntry
    BY <1>1 DEF QueueInv, Without
  <2>1. CASE inflight[j] = NoEntry
    BY <1>1, <2>0, <2>1, ItemKept DEF Requeued, Of
  <2>2. CASE inflight[j] # NoEntry
    <3>1. new'[j] = IF new[j] = NoEntry THEN inflight[j] ELSE new[j]
      BY <1>1, <2>2 DEF Requeued, Of
    <3>2. ~(new[j] = NoEntry /\ incoming[j] # NoEntry)
      BY <1>1, <2>2 DEF StrayRequeued, Of
    <3> QED
      BY <1>1, <2>0, <2>2, <3>1, <3>2, QueueRequeued
  <2> QED
    BY <2>1, <2>2
<1>3. DeleteShape(new)' /\ DeleteShape(reencrypt)' /\ DeleteShape(inflight)'
  BY <1>1 DEF QueueInv, DeleteShape, Requeued, Without
<1>4. MirrorShape' /\ ReencryptFirst' /\ UploadIsInflight'
  BY <1>1
  DEF QueueInv, MirrorShape, ReencryptFirst, UploadIsInflight, Without, Of, Known
<1> QED
  BY <1>2, <1>3, <1>4 DEF QueueInv

LEMMA QueueUploadCompleted ==
    CKInv /\ MirrorInv /\ QueueInv /\ UploadCompleted => QueueInv'
<1> SUFFICES ASSUME CKInv, MirrorInv, QueueInv, UploadCompleted PROVE QueueInv'
  OBVIOUS
<1> DEFINE told == upload.told
           asks == upload.asks
<1>1. /\ state = "upload" /\ state' = "becomeReady" /\ keychain' = keychain
      /\ inflight' = Without(inflight, DOMAIN asks)
      /\ strayed \subseteq strayed'
  BY DEF UploadCompleted, UploadSaved, UploadRefused, UploadFailed
<1>2. /\ Of(inflight) = DOMAIN asks /\ DOMAIN told \subseteq Item
      /\ \A i \in DOMAIN told : told[i] \in RecordType /\ WellFormed(told[i])
      /\ \A i \in DOMAIN asks : asks[i] = inflight[i]
  BY <1>1, PartialFacts
  DEF CKInv, InflightIsTheUpload, Carried, UploadType, MirrorInv, AnswerIsCurrent,
      QueueInv, UploadIsInflight
<1>3. \A i \in DOMAIN told : told[i].value # NoEntry
  BY <1>2 DEF RecordType
<1>4. \A i \in Item : inflight'[i] = NoEntry
  BY <1>1, <1>2 DEF Without, Of
<1>5. /\ DeleteShape(inflight)' /\ UploadIsInflight'
      /\ reencrypt' \in [Item -> Entry \cup {NoEntry}] => ReencryptFirst'
  BY <1>1, <1>4 DEF DeleteShape, UploadIsInflight, ReencryptFirst, Of
<1>6. CASE UploadSaved
  <2>1. /\ mirror' = Mirrored(told, DOMAIN told)
        /\ StraySaved(DOMAIN told) \subseteq strayed'
        /\ UNCHANGED <<new, reencrypt, incoming>>
        /\ DOMAIN told = DOMAIN asks
        /\ \A i \in DOMAIN asks : told[i].value = asks[i].value
    BY <1>1, <1>6 DEF UploadSaved, QueueInv, UploadIsInflight
  <2> HIDE DEF told, asks
  <2>2. ASSUME NEW j \in Item \ strayed' PROVE ItemInOrder(j)'
    <3>0. ItemInOrder(j) /\ inflight'[j] = NoEntry
      BY <1>1, <1>4 DEF QueueInv
    <3>1. CASE inflight[j] = NoEntry
      <4>1. j \notin DOMAIN told
        BY <1>2, <2>1, <3>1 DEF Of
      <4> QED
        BY <1>1, <2>1, <3>0, <3>1, <4>1, ItemKept DEF Mirrored
    <3>2. CASE inflight[j] # NoEntry
      <4>1. j \in DOMAIN told /\ told[j].value = inflight[j].value
        BY <1>2, <2>1, <3>2 DEF Of
      <4>2. incoming[j] = NoEntry /\ reencrypt[j] = NoEntry
        BY <2>1, <3>2, <4>1 DEF StraySaved, QueueInv, ReencryptFirst, Of
      <4>3. mirror'[j].value = inflight[j].value
        BY <2>1, <4>1 DEF Mirrored, Exists, NoRecord
      <4>4. inflight[j].action # "delete" => Known(mirror'[j])
        <5>1. inflight[j].action # "delete" => Exists(told[j])
          BY <3>2, <4>1 DEF QueueInv, DeleteShape, Exists
        <5> QED
          BY <1>2, <2>1, <4>1, <5>1 DEF Mirrored, WellFormed
      <4> QED
        BY <1>1, <2>1, <3>0, <3>2, <4>2, <4>3, <4>4
        DEF ItemInOrder, EntryIsKeychain, EntryHasRecord, IsQueued
    <3> QED
      BY <3>1, <3>2
  <2>3. MirrorShape'
    BY <1>2, <2>1 DEF QueueInv, MirrorShape, Mirrored, WellFormed, Known, Exists, NoRecord
  <2>4. DeleteShape(new)' /\ DeleteShape(reencrypt)' /\ ReencryptFirst'
    BY <1>1, <1>4, <2>1 DEF QueueInv, DeleteShape, ReencryptFirst, Of
  <2> QED
    BY <1>5, <2>2, <2>3, <2>4 DEF QueueInv
<1>7. CASE UploadRefused
  <2> DEFINE S == Recorded(told, TRUE)
             others == DOMAIN asks \ DOMAIN told
  <2>1. /\ mirror' = Mirrored(told, S)
        /\ incoming' = [i \in Item |-> IF i \in S THEN told[i].value ELSE incoming[i]]
        /\ reencrypt' = Without(reencrypt, S)
        /\ new' = Without(Requeued(others), S)
        /\ StrayRequeued(others) \subseteq strayed'
        /\ \A i \in DOMAIN told : i \in DOMAIN asks /\ (~Exists(told[i]) => asks[i].tag # 0)
    BY <1>1, <1>7 DEF UploadRefused, WriteFailed, Record, QueueInv, UploadIsInflight
  <2>2. /\ S \subseteq DOMAIN told
        /\ \A i \in DOMAIN told \ S : ~Exists(told[i]) /\ ~Known(mirror[i])
    BY DEF Recorded
  <2>3. others = DOMAIN asks \ DOMAIN told
    OBVIOUS
  <2> HIDE DEF told, asks, S, others
  <2>4. ASSUME NEW j \in Item \ strayed' PROVE ItemInOrder(j)'
    <3>0. ItemInOrder(j) /\ inflight'[j] = NoEntry /\ j \in Item \ strayed
      BY <1>1, <1>4 DEF QueueInv
    <3>1. CASE j \in S
      <4>1. /\ new'[j] = NoEntry /\ reencrypt'[j] = NoEntry
            /\ incoming'[j] = told[j].value /\ incoming'[j] # NoEntry
        BY <1>3, <2>1, <2>2, <3>1 DEF Without
      <4>2. mirror'[j].value = told[j].value
        BY <2>1, <3>1 DEF Mirrored, Exists, NoRecord
      <4> QED
        BY <3>0, <4>1, <4>2 DEF ItemInOrder, EntryIsKeychain, EntryHasRecord, IsQueued
    <3>2. CASE j \notin S
      <4>1. /\ mirror'[j] = mirror[j] /\ incoming'[j] = incoming[j]
            /\ reencrypt'[j] = reencrypt[j] /\ keychain'[j] = keychain[j]
            /\ new'[j] = IF j \in others /\ new[j] = NoEntry THEN inflight[j] ELSE new[j]
        BY <1>1, <2>1, <3>2 DEF Mirrored, Without, Requeued
      <4>2. CASE inflight[j] = NoEntry
        <5>1. new'[j] = new[j]
          BY <4>1, <4>2
        <5> QED
          BY <3>0, <4>1, <4>2, <5>1, ItemKept
      <4>3. CASE inflight[j] # NoEntry /\ j \in others
        <5>1. ~(new[j] = NoEntry /\ incoming[j] # NoEntry)
          BY <2>1, <4>3 DEF StrayRequeued
        <5> QED
          BY <3>0, <4>1, <4>3, <5>1, QueueRequeued
      <4>4. CASE inflight[j] # NoEntry /\ j \notin others
        <5>1. j \in DOMAIN told /\ j \in DOMAIN asks
          BY <1>2, <2>3, <4>4 DEF Of
        <5>2. inflight[j].tag # 0 /\ ~Known(mirror[j])
          BY <1>2, <2>1, <2>2, <3>2, <5>1
        <5>3. reencrypt[j] = NoEntry
          BY <4>4 DEF QueueInv, ReencryptFirst, Of
        <5> QED
          BY <3>0, <4>1, <4>4, <5>2, <5>3
          DEF ItemInOrder, EntryIsKeychain, EntryHasRecord, IsQueued, Known
      <4> QED
        BY <4>2, <4>3, <4>4
    <3> QED
      BY <3>1, <3>2
  <2>5. MirrorShape'
    BY <1>2, <2>1, <2>2
    DEF QueueInv, MirrorShape, Mirrored, WellFormed, Known, Exists, NoRecord
  <2>6. DeleteShape(new)' /\ DeleteShape(reencrypt)' /\ ReencryptFirst'
    BY <1>1, <1>4, <2>1 DEF QueueInv, DeleteShape, ReencryptFirst, Of, Without, Requeued
  <2> QED
    BY <1>5, <2>4, <2>5, <2>6 DEF QueueInv
<1>8. CASE UploadFailed
  <2>1. /\ new' = Requeued(Of(inflight))
        /\ strayed' = strayed \cup StrayRequeued(Of(inflight))
        /\ UNCHANGED <<mirror, reencrypt, incoming>>
    BY <1>8 DEF UploadFailed
  <2>2. ASSUME NEW j \in Item \ strayed' PROVE ItemInOrder(j)'
    <3>0. ItemInOrder(j) /\ inflight'[j] = NoEntry /\ j \in Item \ strayed
      BY <1>1, <1>4 DEF QueueInv
    <3>1. CASE inflight[j] = NoEntry
      BY <1>1, <2>1, <3>0, <3>1, ItemKept DEF Requeued, Of
    <3>2. CASE inflight[j] # NoEntry
      <4>1. new'[j] = IF new[j] = NoEntry THEN inflight[j] ELSE new[j]
        BY <2>1, <3>2 DEF Requeued, Of
      <4>2. ~(new[j] = NoEntry /\ incoming[j] # NoEntry)
        BY <2>1, <3>2 DEF StrayRequeued, Of
      <4> QED
        BY <1>1, <2>1, <3>0, <3>2, <4>1, <4>2, QueueRequeued
    <3> QED
      BY <3>1, <3>2
  <2>3. MirrorShape' /\ DeleteShape(new)' /\ DeleteShape(reencrypt)' /\ ReencryptFirst'
    BY <1>1, <1>4, <2>1
    DEF QueueInv, MirrorShape, DeleteShape, ReencryptFirst, Requeued, Of, Known
  <2> QED
    BY <1>5, <2>2, <2>3 DEF QueueInv
<1> QED
  BY <1>6, <1>7, <1>8 DEF UploadCompleted

LEMMA QueueExternal == CKInv /\ QueueInv /\ External => QueueInv'
<1> SUFFICES ASSUME CKInv, QueueInv, External PROVE QueueInv'
  OBVIOUS
<1>1. ASSUME UNCHANGED <<keychain, mirror, queues, state, strayed>>, UploadIsInflight'
      PROVE  QueueInv'
  BY <1>1, QueuesKept DEF QueueInv, ReencryptFirst
<1>2. CASE ServerHandlesUpload
  <2> DEFINE asks == upload.asks
  <2>1. /\ state = "upload" /\ upload \in UploadType /\ asks \in Partial(Entry)
        /\ UNCHANGED <<keychain, mirror, queues, state, strayed>>
        /\ upload' = [upload EXCEPT
              !.answer = IF Refused(asks) = {} THEN "saved" ELSE "refused",
              !.at = clock',
              !.told = IF Refused(asks) = {} THEN Written(asks)
                       ELSE [i \in Refused(asks) |-> server[i]]]
    BY <1>2 DEF ServerHandlesUpload, CKInv, Carried, UploadType
  <2>2. /\ upload'.asks = asks
        /\ upload'.answer = IF Refused(asks) = {} THEN "saved" ELSE "refused"
        /\ upload'.told = IF Refused(asks) = {} THEN Written(asks)
                          ELSE [i \in Refused(asks) |-> server[i]]
    BY <2>1 DEF UploadType
  <2>3. \A i \in DOMAIN asks : asks[i] = inflight[i]
    BY <2>1 DEF QueueInv, UploadIsInflight
  <2> HIDE DEF asks
  <2>4. CASE Refused(asks) = {}
    BY <1>1, <2>1, <2>2, <2>3, <2>4 DEF UploadIsInflight, Written, queues
  <2>5. CASE Refused(asks) # {}
    <3>1. \A i \in Refused(asks) :
             i \in DOMAIN asks /\ (~Exists(server[i]) => asks[i].tag # 0)
      BY DEF Refused
    <3> QED
      BY <1>1, <2>1, <2>2, <2>3, <2>5, <3>1 DEF UploadIsInflight, queues
  <2> QED
    BY <2>4, <2>5
<1>3. CASE NetworkFails
  <2>1. /\ upload \in UploadType /\ UNCHANGED <<keychain, mirror, queues, state, strayed>>
        /\ upload' = [upload EXCEPT !.answer = "failed", !.told = [i \in {} |-> NoRecord]]
    BY <1>3 DEF NetworkFails, CKInv, Carried
  <2>2. upload'.asks = upload.asks /\ upload'.answer = "failed"
    BY <2>1 DEF UploadType
  <2> QED
    BY <1>1, <2>1, <2>2 DEF QueueInv, UploadIsInflight, queues
<1>4. ASSUME UNCHANGED <<keychain, mirror, queues, state, strayed, upload>>
      PROVE  QueueInv'
  BY <1>1, <1>4 DEF QueueInv, UploadIsInflight, queues
<1>5. CASE ServerHandlesOrphan \/ ServerAnswersFetch
  BY <1>4, <1>5 DEF ServerHandlesOrphan, ServerAnswersFetch
<1>6. ASSUME NEW i \in Item, NEW v \in Value \cup {NoValue}, OtherDevice(i, v)
      PROVE  QueueInv'
  BY <1>4, <1>6 DEF OtherDevice
<1> QED
  BY <1>2, <1>3, <1>5, <1>6 DEF External

LEMMA QueueNextInv == CKInv /\ MirrorInv /\ QueueInv /\ [CKNext]_ckvars => QueueInv'
<1> SUFFICES ASSUME CKInv, MirrorInv, QueueInv, [CKNext]_ckvars PROVE QueueInv'
  OBVIOUS
<1>1. CASE BecomeReady
  BY <1>1, QueuesKept DEF BecomeReady, UploadIsInflight
<1>2. CASE NextOperation
  <2>1. /\ state = "ready" /\ UNCHANGED <<keychain, mirror, queues, strayed>>
        /\ state' # "upload"
        /\ state' = "outgoing" => "reencrypt" \notin flags
    BY <1>2 DEF NextOperation
  <2>2. "reencrypt" \notin flags => Of(reencrypt) = {}
    BY <2>1 DEF CKInv, QueuesAreFlagged
  <2>3. UploadIsInflight'
    BY <2>1 DEF UploadIsInflight
  <2> QED
    BY <2>1, <2>2, <2>3, QueuesKept
<1>3. CASE Crash
  BY <1>3, QueuesKept DEF Crash, UploadIsInflight
<1>4. CASE UNCHANGED ckvars
  BY <1>4, QueuesKept DEF ckvars, queues, QueueInv, UploadIsInflight, ReencryptFirst
<1> QED
  BY <1>1, <1>2, <1>3, <1>4, QueueLocalChange, QueueFetched, QueueIncomingBatch,
     QueueReencrypt, QueueStartUpload, QueueUploadCompleted, QueueRestart, QueueExternal
  DEF CKNext, Machine

LEMMA QueueInvIsInvariant == CKSpec => [](MirrorInv /\ QueueInv)
<1>1. CKInit => MirrorInv /\ QueueInv
  BY MirrorInitInv, QueueInitInv
<1>2. CKInv /\ (MirrorInv /\ QueueInv) /\ [CKNext]_ckvars => (MirrorInv /\ QueueInv)'
  BY MirrorNextInv, QueueNextInv
<1> QED
  BY <1>1, <1>2, CKInvIsInvariant, PTL DEF CKSpec

(* The mirror holds the record the zone has, or the change token is still  *)
(* before that record's last write, for every item no race has hit.        *)
THEOREM MirrorFollowsTheZone == CKSpec => []MirrorTracksServer
BY QueueInvIsInvariant, PTL DEF MirrorInv

(* Where keychain and mirror differ some queue holds an entry: no local    *)
(* and no remote change is forgotten, whatever is refused, reencrypted,    *)
(* lost or interrupted, for every item no race has hit.                    *)
THEOREM NoChangeIsForgotten == CKSpec => []DifferenceIsQueued
<1>1. QueueInv => DifferenceIsQueued
  BY DEF QueueInv, DifferenceIsQueued, ItemInOrder, IsQueued, Of
<1> QED
  BY <1>1, QueueInvIsInvariant, PTL

(* The incoming queue is applied over no waiting local change.             *)
THEOREM NoWaitingChangeIsOverwritten == CKSpec => []IncomingOverwritesNothing
<1>1. QueueInv => IncomingOverwritesNothing
  BY DEF QueueInv, IncomingOverwritesNothing, ItemInOrder, Of
<1> QED
  BY <1>1, QueueInvIsInvariant, PTL
=============================================================================
