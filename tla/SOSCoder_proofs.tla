---------------------------- MODULE SOSCoder_proofs ---------------------------
(***************************************************************************)
(* The coders of two peers, for any keys, any number of local changes and  *)
(* any number of repeated messages, timers, lost coders and exits: what    *)
(* they hold keeps its type, the key cache of a session never needs more   *)
(* than its four places, and a message is opened once.                     *)
(*                                                                         *)
(* Sessions, Packets and Coders are the values that occur: a session that  *)
(* is not idle has its two keys, one that is done has the other end's; a   *)
(* cached pair is of this end's two keys and the other end's two; a packet *)
(* has its sender's key.  Each operation of a session or a coder stays in  *)
(* these sets, and so does every step.                                     *)
(*                                                                         *)
(* KeysApart says whose keys they are: those a session uses for this end   *)
(* are of this end's pools, the others of the other end's.  With that, a   *)
(* packet that has been opened stays Spent for the session that opened it. *)
(***************************************************************************)
EXTENDS SOSCoder, FiniteSetTheorems, TLAPS

USE KeyAssumption, SlowRollAssumption, PeerAssumption, KeysAssumption, BoundAssumption
    DEF KeyAssumption, SlowRollAssumption, PeerAssumption, KeysAssumption,
        BoundAssumption

Caches == UNION {[P -> Counters] : P \in SUBSET (Key \X Key)}

SessionRecords ==
    [state : Negotiating \cup {"Done"}, receivedDH : KeyOrNone,
     receivedDHKey : KeyOrNone, keyID : Nat, myKey : KeyOrNone,
     myNextKey : KeyOrNone, theirKeyID : Nat, theirKey : KeyOrNone,
     theirPreviousKey : KeyOrNone, keyCache : Caches,
     stallingTheirRoll : BOOLEAN, timeToRoll : BOOLEAN,
     missedAck : BOOLEAN, receivedAck : BOOLEAN]

(* Pairs are of the keys the session has now.                              *)
PairsAreCurrent(s) ==
    \A p \in DOMAIN s.keyCache :
        p[1] \in {s.myKey, s.myNextKey} /\ p[2] \in {s.theirKey, s.theirPreviousKey}

HasItsKeys(s) ==
    /\ s.state # "Idle" => s.myKey # NoKey
    /\ s.myKey # NoKey => s.myNextKey # NoKey
    /\ s.state \in {"AwaitingSignature", "Done"} => s.theirKey # NoKey
    /\ s.state = "AwaitingRevealSignature" => s.receivedDH # NoKey
    /\ s.theirPreviousKey # NoKey =>
         s.theirKeyID > 0 /\ s.state # "AwaitingSignature"

Sessions == {s \in SessionRecords : PairsAreCurrent(s) /\ HasItsKeys(s)}

Contents == [made : Nat, seen : Nat]
PacketRecords ==
    [type : PacketTypes \ {"none"}, from : Key, to : KeyOrNone, keyID : Nat,
     theirKeyID : Nat, next : KeyOrNone, counter : Nat, content : Contents \cup {<<>>}]
Negotiations == {m \in PacketRecords : m.type # "Data" /\ m.content = <<>>}
DataPackets == {m \in PacketRecords : m.type = "Data" /\ m.next # NoKey /\ m.content \in Contents}
Packets == {NoPacket} \cup Negotiations \cup DataPackets

Coders ==
    [session : Sessions, waitingForDataPacket : BOOLEAN,
     pendingResponse : {NoPacket} \cup Negotiations, lastReceived : Packets,
     lastReceivedWasOld : BOOLEAN]
-----------------------------------------------------------------------------
(* The cache.                                                              *)

LEMMA IsCache ==
    ASSUME NEW P \in SUBSET (Key \X Key), NEW kc \in [P -> Counters]
    PROVE  kc \in Caches
<1>1. [P -> Counters] \in {[Q -> Counters] : Q \in SUBSET (Key \X Key)}
  OBVIOUS
<1> QED
  BY <1>1 DEF Caches

LEMMA NoPairsCached == NoPairs \in Caches /\ DOMAIN NoPairs = {}
<1>1. NoPairs \in [{} -> Counters] /\ DOMAIN NoPairs = {}
  BY DEF NoPairs
<1>2. {} \in SUBSET (Key \X Key)
  OBVIOUS
<1> QED
  BY <1>1, <1>2, IsCache

LEMMA CacheType ==
    ASSUME NEW kc \in Caches
    PROVE  /\ DOMAIN kc \subseteq Key \X Key
           /\ kc \in [DOMAIN kc -> Counters]
           /\ \A p \in DOMAIN kc : /\ kc[p] \in Counters
                                   /\ p = <<p[1], p[2]>> /\ p[1] \in Key /\ p[2] \in Key
BY DEF Caches

LEMMA WithoutType ==
    ASSUME NEW kc \in Caches, NEW k
    PROVE  /\ Without(kc, k) \in Caches
           /\ \A p : p \in DOMAIN Without(kc, k) <=>
                    p \in DOMAIN kc /\ k # p[1] /\ k # p[2]
<1> DEFINE P == {p \in DOMAIN kc : k \notin {p[1], p[2]}}
<1>1. Without(kc, k) \in [P -> Counters] /\ DOMAIN Without(kc, k) = P
  BY CacheType DEF Without
<1>2. P \in SUBSET (Key \X Key)
  BY CacheType
<1> QED
  BY <1>1, <1>2, IsCache

(* Sessions that differ in their caches only.                              *)
SameButCache(t, s) ==
    /\ t.state = s.state /\ t.receivedDH = s.receivedDH
    /\ t.receivedDHKey = s.receivedDHKey /\ t.keyID = s.keyID
    /\ t.myKey = s.myKey /\ t.myNextKey = s.myNextKey
    /\ t.theirKeyID = s.theirKeyID /\ t.theirKey = s.theirKey
    /\ t.theirPreviousKey = s.theirPreviousKey

(* A pair of two keys gets a place; without both keys nothing does.        *)
LEMMA FindKeysType ==
    ASSUME NEW s \in Sessions, NEW a \in {s.myKey, s.myNextKey},
           NEW b \in {s.theirKey, s.theirPreviousKey}
    PROVE  /\ FindKeys(s, a, b) \in Sessions
           /\ SameButCache(FindKeys(s, a, b), s)
           /\ a # NoKey /\ b # NoKey => <<a, b>> \in DOMAIN FindKeys(s, a, b).keyCache
<1>0. s \in SessionRecords /\ s.keyCache \in Caches
  BY DEF Sessions, SessionRecords
<1>1. CASE NoKey \in {a, b} \/ Cached(s, a, b)
  <2>1. FindKeys(s, a, b) = s
    BY <1>1 DEF FindKeys
  <2> QED
    BY <1>0, <1>1, <2>1 DEF Cached, SameButCache
<1>2. CASE ~(NoKey \in {a, b} \/ Cached(s, a, b))
  <2> DEFINE P == DOMAIN s.keyCache \cup {<<a, b>>}
             kc == [p \in P |-> IF p \in DOMAIN s.keyCache THEN s.keyCache[p]
                                ELSE [mine |-> 0, theirs |-> 0]]
  <2>1. FindKeys(s, a, b) = [s EXCEPT !.keyCache = kc]
    BY <1>2 DEF FindKeys
  <2>2. a \in Key /\ b \in Key
    BY <1>0, <1>2 DEF SessionRecords, KeyOrNone
  <2>3. kc \in [P -> Counters] /\ P \subseteq Key \X Key
    BY <1>0, <2>2, CacheType DEF Counters
  <2>4. kc \in Caches /\ DOMAIN kc = P
    BY <2>3, IsCache
  <2> HIDE DEF kc
  <2>5. [s EXCEPT !.keyCache = kc] \in SessionRecords
    BY <1>0, <2>4 DEF SessionRecords
  <2>6. PairsAreCurrent([s EXCEPT !.keyCache = kc])
    BY <1>0, <2>4 DEF SessionRecords, PairsAreCurrent, Sessions
  <2>7. HasItsKeys([s EXCEPT !.keyCache = kc])
    BY <1>0 DEF SessionRecords, HasItsKeys, Sessions
  <2>8. /\ [s EXCEPT !.keyCache = kc].keyCache = kc
        /\ SameButCache([s EXCEPT !.keyCache = kc], s)
    BY <1>0 DEF SessionRecords, SameButCache
  <2> QED
    BY <2>1, <2>4, <2>5, <2>6, <2>7, <2>8 DEF Sessions
<1> QED
  BY <1>1, <1>2

(* Counting a message of a pair, whatever else the cache holds.            *)
Counted(s, pair, counters) == [s EXCEPT !.keyCache[pair] = counters]

LEMMA CountedType ==
    ASSUME NEW s \in Sessions, NEW pair \in DOMAIN s.keyCache, NEW counters \in Counters
    PROVE  /\ Counted(s, pair, counters) \in Sessions
           /\ SameButCache(Counted(s, pair, counters), s)
           /\ Counted(s, pair, counters).keyCache[pair] = counters
<1> DEFINE kc == [s.keyCache EXCEPT ![pair] = counters]
           t == Counted(s, pair, counters)
<1>1. s \in SessionRecords /\ s.keyCache \in Caches
  BY DEF Sessions, SessionRecords
<1>2. s.keyCache \in [DOMAIN s.keyCache -> Counters]
      /\ DOMAIN s.keyCache \in SUBSET (Key \X Key)
  BY <1>1, CacheType
<1>3. kc \in [DOMAIN s.keyCache -> Counters] /\ kc[pair] = counters
  BY <1>2
<1>4. kc \in Caches /\ DOMAIN kc = DOMAIN s.keyCache
  BY <1>2, <1>3, IsCache
<1>5. t = [s EXCEPT !.keyCache = kc]
  BY DEF Counted
<1> HIDE DEF kc, t
<1>6. t \in SessionRecords
  BY <1>1, <1>4, <1>5 DEF SessionRecords
<1>7. t.keyCache = kc /\ SameButCache(t, s)
  BY <1>1, <1>5 DEF SessionRecords, SameButCache
<1>8. PairsAreCurrent(t) /\ HasItsKeys(t)
  BY <1>4, <1>7 DEF SameButCache, PairsAreCurrent, HasItsKeys, Sessions
<1> QED
  BY <1>3, <1>6, <1>7, <1>8 DEF Sessions, t
-----------------------------------------------------------------------------
(* Rolling the keys.                                                       *)

(* A session that has this end's keys, and one that differs from it in     *)
(* nothing that is the other end's.                                        *)
Keyed == {s \in Sessions : s.myKey # NoKey}
SameOtherEnd(t, s) ==
    /\ t.state = s.state /\ t.theirKey = s.theirKey
    /\ t.theirPreviousKey = s.theirPreviousKey /\ t.theirKeyID = s.theirKeyID

LEMMA FlagsType ==
    ASSUME NEW s \in Keyed, NEW a \in BOOLEAN, NEW b \in BOOLEAN, NEW d \in BOOLEAN,
           NEW e \in BOOLEAN
    PROVE  LET t == [s EXCEPT !.stallingTheirRoll = a, !.timeToRoll = b,
                              !.missedAck = d, !.receivedAck = e]
           IN t \in Keyed /\ SameOtherEnd(t, s)
<1> DEFINE t == [s EXCEPT !.stallingTheirRoll = a, !.timeToRoll = b,
                          !.missedAck = d, !.receivedAck = e]
<1>1. s \in SessionRecords
  BY DEF Keyed, Sessions
<1>2. /\ t \in SessionRecords /\ t.keyCache = s.keyCache /\ t.myKey = s.myKey
      /\ t.myNextKey = s.myNextKey /\ t.receivedDH = s.receivedDH
      /\ SameOtherEnd(t, s)
  BY <1>1 DEF SessionRecords, SameOtherEnd
<1> HIDE DEF t
<1>3. t \in Keyed
  BY <1>2 DEF Keyed, Sessions, PairsAreCurrent, HasItsKeys, SameOtherEnd
<1> QED
  BY <1>2, <1>3 DEF t

LEMMA GenerateType ==
    ASSUME NEW s \in Keyed, NEW next \in Key
    PROVE  /\ GenerateNewProposedKey(s, next) \in Keyed
           /\ SameOtherEnd(GenerateNewProposedKey(s, next), s)
           /\ GenerateNewProposedKey(s, next).stallingTheirRoll = s.stallingTheirRoll
<1> DEFINE t == GenerateNewProposedKey(s, next)
           kc == Without(s.keyCache, s.myKey)
<1>1. s \in SessionRecords /\ s \in Sessions /\ s.keyCache \in Caches
  BY DEF Keyed, Sessions, SessionRecords
<1>2. kc \in Caches /\ \A p \in DOMAIN kc : p \in DOMAIN s.keyCache /\ s.myKey # p[1]
  BY <1>1, WithoutType
<1>3. t = [s EXCEPT !.keyCache = kc, !.myKey = s.myNextKey, !.myNextKey = next,
                    !.keyID = s.keyID + 1]
  BY DEF GenerateNewProposedKey
<1> HIDE DEF kc, t
<1>4. /\ t \in SessionRecords /\ t.keyCache = kc /\ t.myKey = s.myNextKey
      /\ t.myNextKey = next /\ t.receivedDH = s.receivedDH
      /\ SameOtherEnd(t, s) /\ t.stallingTheirRoll = s.stallingTheirRoll
  <2>1. next \in KeyOrNone /\ s.myNextKey \in KeyOrNone /\ s.keyID + 1 \in Nat
    BY <1>1 DEF SessionRecords, KeyOrNone
  <2>2. t \in SessionRecords
    BY <1>1, <1>2, <1>3, <2>1 DEF SessionRecords
  <2>3. /\ t.keyCache = kc /\ t.myKey = s.myNextKey
        /\ t.myNextKey = next /\ t.receivedDH = s.receivedDH
        /\ t.stallingTheirRoll = s.stallingTheirRoll
    BY <1>1, <1>3 DEF SessionRecords
  <2>4. SameOtherEnd(t, s)
    BY <1>1, <1>3 DEF SessionRecords, SameOtherEnd
  <2> QED
    BY <2>2, <2>3, <2>4
<1>5. PairsAreCurrent(t)
  BY <1>1, <1>2, <1>4 DEF PairsAreCurrent, Sessions, SameOtherEnd
<1>6. HasItsKeys(t) /\ t.myKey # NoKey
  BY <1>1, <1>4 DEF HasItsKeys, Sessions, SameOtherEnd, Keyed
<1> QED
  BY <1>4, <1>5, <1>6 DEF Keyed, Sessions, t

LEMMA RollType ==
    ASSUME NEW s \in Keyed, NEW next \in Key
    PROVE  Roll(s, next) \in Keyed /\ SameOtherEnd(Roll(s, next), s)
<1> DEFINE going == [s EXCEPT !.stallingTheirRoll = FALSE, !.timeToRoll = FALSE]
<1>1. s \in SessionRecords
  BY DEF Keyed, Sessions
<1>2. going = [s EXCEPT !.stallingTheirRoll = FALSE, !.timeToRoll = FALSE,
                        !.missedAck = s.missedAck, !.receivedAck = s.receivedAck]
  BY <1>1 DEF SessionRecords
<1>3. s.missedAck \in BOOLEAN /\ s.receivedAck \in BOOLEAN
  BY <1>1 DEF SessionRecords
<1>4. going \in Keyed /\ SameOtherEnd(going, s)
  BY <1>2, <1>3, FlagsType
<1> HIDE DEF going
<1>5. CASE s.receivedAck
  <2> DEFINE g == GenerateNewProposedKey(going, next)
             t == [g EXCEPT !.missedAck = FALSE, !.receivedAck = FALSE]
  <2>1. g \in Keyed /\ SameOtherEnd(g, going)
    BY <1>4, GenerateType
  <2>2. Roll(s, next) = t
    BY <1>5 DEF Roll, going
  <2> HIDE DEF g
  <2>3. g \in SessionRecords /\ g.stallingTheirRoll \in BOOLEAN /\ g.timeToRoll \in BOOLEAN
    BY <2>1 DEF Keyed, Sessions, SessionRecords
  <2>4. t = [g EXCEPT !.stallingTheirRoll = g.stallingTheirRoll, !.timeToRoll = g.timeToRoll,
                      !.missedAck = FALSE, !.receivedAck = FALSE]
    BY <2>3 DEF SessionRecords
  <2>5. t \in Keyed /\ SameOtherEnd(t, g)
    BY <2>1, <2>3, <2>4, FlagsType
  <2> QED
    BY <1>4, <2>1, <2>2, <2>5 DEF SameOtherEnd
<1>6. CASE ~s.receivedAck
  <2> DEFINE t == [going EXCEPT !.missedAck = TRUE]
  <2>1. Roll(s, next) = t
    BY <1>6 DEF Roll, going
  <2>2. going \in SessionRecords /\ going.stallingTheirRoll \in BOOLEAN
        /\ going.timeToRoll \in BOOLEAN /\ going.receivedAck \in BOOLEAN
    BY <1>4 DEF Keyed, Sessions, SessionRecords
  <2>3. t = [going EXCEPT !.stallingTheirRoll = going.stallingTheirRoll,
                          !.timeToRoll = going.timeToRoll,
                          !.missedAck = TRUE, !.receivedAck = going.receivedAck]
    BY <2>2 DEF SessionRecords
  <2>4. t \in Keyed /\ SameOtherEnd(t, going)
    BY <1>4, <2>2, <2>3, FlagsType
  <2> QED
    BY <1>4, <2>1, <2>4 DEF SameOtherEnd
<1> QED
  BY <1>5, <1>6

LEMMA RollIfTimeType ==
    ASSUME NEW s \in Keyed, NEW next \in Key, NEW over
    PROVE  RollIfTime(s, next, over) \in Keyed /\ SameOtherEnd(RollIfTime(s, next, over), s)
BY RollType DEF RollIfTime, SameOtherEnd

LEMMA AcknowledgeType ==
    ASSUME NEW s \in Keyed, NEW next \in Key
    PROVE  /\ HandleProposalAcknowledge(s, next) \in Keyed
           /\ SameOtherEnd(HandleProposalAcknowledge(s, next), s)
<1> DEFINE g == IF s.missedAck THEN GenerateNewProposedKey(s, next) ELSE s
<1>1. g \in Keyed /\ SameOtherEnd(g, s)
  BY GenerateType DEF SameOtherEnd
<1>2. HandleProposalAcknowledge(s, next)
        = IF s.missedAck THEN [g EXCEPT !.missedAck = FALSE]
          ELSE [g EXCEPT !.receivedAck = TRUE, !.timeToRoll = SlowRoll]
  BY DEF HandleProposalAcknowledge
<1> HIDE DEF g
<1>3. /\ g \in SessionRecords /\ g.stallingTheirRoll \in BOOLEAN
      /\ g.timeToRoll \in BOOLEAN /\ g.missedAck \in BOOLEAN /\ g.receivedAck \in BOOLEAN
  BY <1>1 DEF Keyed, Sessions, SessionRecords
<1>4. /\ [g EXCEPT !.missedAck = FALSE]
           = [g EXCEPT !.stallingTheirRoll = g.stallingTheirRoll,
                       !.timeToRoll = g.timeToRoll,
                       !.missedAck = FALSE, !.receivedAck = g.receivedAck]
      /\ [g EXCEPT !.receivedAck = TRUE, !.timeToRoll = SlowRoll]
           = [g EXCEPT !.stallingTheirRoll = g.stallingTheirRoll, !.timeToRoll = SlowRoll,
                       !.missedAck = g.missedAck, !.receivedAck = TRUE]
  BY <1>3 DEF SessionRecords
<1> DEFINE t == HandleProposalAcknowledge(s, next)
<1>5. t \in Keyed /\ SameOtherEnd(t, g)
  <2>1. CASE s.missedAck
    <3>1. t = [g EXCEPT !.stallingTheirRoll = g.stallingTheirRoll,
                        !.timeToRoll = g.timeToRoll,
                        !.missedAck = FALSE, !.receivedAck = g.receivedAck]
      BY <1>2, <1>4, <2>1
    <3> HIDE DEF t
    <3> QED
      BY <1>1, <1>3, <3>1, FlagsType
  <2>2. CASE ~s.missedAck
    <3>1. t = [g EXCEPT !.stallingTheirRoll = g.stallingTheirRoll, !.timeToRoll = SlowRoll,
                        !.missedAck = g.missedAck, !.receivedAck = TRUE]
      BY <1>2, <1>4, <2>2
    <3> HIDE DEF t
    <3> QED
      BY <1>1, <1>3, <3>1, FlagsType
  <2> QED
    BY <2>1, <2>2
<1> QED
  BY <1>1, <1>5 DEF SameOtherEnd

LEMMA AcceptType ==
    ASSUME NEW s \in Keyed, s.state = "Done", NEW k \in Key
    PROVE  /\ AcceptNewRemoteKey(s, k) \in Keyed
           /\ AcceptNewRemoteKey(s, k).state = s.state
<1> DEFINE t == AcceptNewRemoteKey(s, k)
           kc == IF s.theirPreviousKey = NoKey THEN s.keyCache
                 ELSE Without(s.keyCache, s.theirPreviousKey)
<1>1. s \in SessionRecords /\ s \in Sessions /\ s.keyCache \in Caches
  BY DEF Keyed, Sessions, SessionRecords
<1>2. \A p \in DOMAIN s.keyCache : p[2] # NoKey
  BY <1>1, CacheType
<1>3. kc \in Caches /\ \A p \in DOMAIN kc : p \in DOMAIN s.keyCache /\ p[2] = s.theirKey
  <2>1. \A p \in DOMAIN s.keyCache : p[2] \in {s.theirKey, s.theirPreviousKey}
    BY <1>1 DEF Sessions, PairsAreCurrent
  <2>2. CASE s.theirPreviousKey = NoKey
    BY <1>1, <1>2, <2>1, <2>2
  <2>3. CASE s.theirPreviousKey # NoKey
    <3>1. kc = Without(s.keyCache, s.theirPreviousKey)
      BY <2>3
    <3> HIDE DEF kc
    <3>2. kc \in Caches
          /\ \A p \in DOMAIN kc : p \in DOMAIN s.keyCache /\ s.theirPreviousKey # p[2]
      BY <1>1, <3>1, WithoutType
    <3> QED
      BY <2>1, <3>2
  <2> QED
    BY <2>2, <2>3
<1>4. t = [s EXCEPT !.keyCache = kc, !.theirPreviousKey = s.theirKey, !.theirKey = k,
                    !.stallingTheirRoll = TRUE, !.theirKeyID = s.theirKeyID + 1,
                    !.timeToRoll = SlowRoll]
  BY DEF AcceptNewRemoteKey
<1> HIDE DEF kc, t
<1>5. /\ t \in SessionRecords /\ t.keyCache = kc /\ t.myKey = s.myKey
      /\ t.myNextKey = s.myNextKey /\ t.receivedDH = s.receivedDH
      /\ t.theirKey = k /\ t.theirPreviousKey = s.theirKey
      /\ t.theirKeyID = s.theirKeyID + 1 /\ t.state = s.state /\ s.theirKeyID \in Nat
  <2>1. k \in KeyOrNone /\ s.theirKey \in KeyOrNone /\ s.theirKeyID \in Nat
        /\ s.theirKeyID + 1 \in Nat
    BY <1>1 DEF SessionRecords, KeyOrNone
  <2>2. t \in SessionRecords
    BY <1>1, <1>3, <1>4, <2>1 DEF SessionRecords
  <2>3. /\ t.keyCache = kc /\ t.myKey = s.myKey
        /\ t.myNextKey = s.myNextKey /\ t.receivedDH = s.receivedDH
        /\ t.theirKey = k /\ t.theirPreviousKey = s.theirKey
        /\ t.theirKeyID = s.theirKeyID + 1 /\ t.state = s.state
    BY <1>1, <1>4 DEF SessionRecords
  <2> QED
    BY <2>1, <2>2, <2>3
<1>6. PairsAreCurrent(t)
  BY <1>1, <1>3, <1>5 DEF PairsAreCurrent, Sessions
<1>7. HasItsKeys(t) /\ t.myKey # NoKey
  BY <1>1, <1>5 DEF HasItsKeys, Sessions, Keyed
<1> QED
  BY <1>5, <1>6, <1>7 DEF Keyed, Sessions, t
-----------------------------------------------------------------------------
(* Starting a session, and what a reload makes of it.                      *)

LEMMA IdleType == IdleSession \in Sessions
<1>1. IdleSession.keyCache = NoPairs
  BY DEF IdleSession, NoPairs
<1>2. IdleSession \in SessionRecords
  BY <1>1, NoPairsCached DEF IdleSession, NoPairs, SessionRecords, KeyOrNone, Negotiating
<1>3. PairsAreCurrent(IdleSession)
  BY <1>1, NoPairsCached DEF PairsAreCurrent
<1>4. HasItsKeys(IdleSession)
  BY DEF IdleSession, HasItsKeys
<1> QED
  BY <1>2, <1>3, <1>4 DEF Sessions

LEMMA ResetType == ASSUME NEW s \in Sessions PROVE Reset(s) \in Sessions
<1> DEFINE t == Reset(s)
<1>1. s \in SessionRecords /\ IdleSession \in Sessions /\ IdleSession \in SessionRecords
  BY IdleType DEF Sessions
<1>2. /\ t \in SessionRecords /\ t.keyCache = IdleSession.keyCache
      /\ t.state = "Idle" /\ t.myKey = NoKey /\ t.theirPreviousKey = NoKey
  <2>1. t \in SessionRecords
    BY <1>1 DEF Reset, SessionRecords
  <2>2. /\ t.keyCache = IdleSession.keyCache /\ t.state = IdleSession.state
        /\ t.myKey = IdleSession.myKey
        /\ t.theirPreviousKey = IdleSession.theirPreviousKey
    BY <1>1 DEF Reset, SessionRecords
  <2> QED
    BY <2>1, <2>2 DEF IdleSession
<1>3. DOMAIN IdleSession.keyCache = {}
  BY DEF IdleSession
<1> HIDE DEF t
<1>4. PairsAreCurrent(t) /\ HasItsKeys(t)
  BY <1>2, <1>3 DEF PairsAreCurrent, HasItsKeys
<1> QED
  BY <1>2, <1>4 DEF Sessions, t

LEMMA InitKeysType ==
    ASSUME NEW s \in Sessions, NEW k \in Key, NEW next \in Key
    PROVE  LET t == InitMyDHKeys(s, k, next)
           IN /\ t \in Keyed /\ SameOtherEnd(t, s) /\ t.myKey = k
              /\ t.keyCache = NoPairs /\ t.receivedDH = s.receivedDH
<1> DEFINE t == InitMyDHKeys(s, k, next)
<1>1. s \in SessionRecords
  BY DEF Sessions
<1>2. k \in KeyOrNone /\ next \in KeyOrNone /\ NoPairs \in Caches
  BY NoPairsCached DEF KeyOrNone
<1>3. t \in SessionRecords
  BY <1>1, <1>2 DEF InitMyDHKeys, SessionRecords
<1>4. /\ t.keyCache = NoPairs /\ t.myKey = k /\ t.myNextKey = next
      /\ t.receivedDH = s.receivedDH
  BY <1>1 DEF InitMyDHKeys, SessionRecords
<1>5. SameOtherEnd(t, s)
  BY <1>1 DEF InitMyDHKeys, SessionRecords, SameOtherEnd
<1> HIDE DEF t
<1>6. PairsAreCurrent(t)
  BY <1>4, NoPairsCached DEF PairsAreCurrent
<1>7. HasItsKeys(t)
  BY <1>4, <1>5 DEF HasItsKeys, SameOtherEnd, Sessions
<1> QED
  BY <1>3, <1>4, <1>5, <1>6, <1>7 DEF Sessions, Keyed, t

LEMMA RemoteKeyType ==
    ASSUME NEW s \in Sessions, NEW k \in Key
    PROVE  LET t == SetupInitialRemoteKey(s, k)
           IN /\ t \in Sessions /\ t.theirKey = k /\ t.theirPreviousKey = NoKey
              /\ t.keyCache = NoPairs /\ t.state = s.state /\ t.myKey = s.myKey
              /\ t.keyID = s.keyID /\ t.receivedDH = s.receivedDH
<1> DEFINE t == SetupInitialRemoteKey(s, k)
<1>1. s \in SessionRecords
  BY DEF Sessions
<1>2. k \in KeyOrNone /\ NoKey \in KeyOrNone /\ NoPairs \in Caches
  BY NoPairsCached DEF KeyOrNone
<1>3. t \in SessionRecords
  BY <1>1, <1>2 DEF SetupInitialRemoteKey, SessionRecords
<1>4. /\ t.theirKey = k /\ t.theirPreviousKey = NoKey /\ t.keyCache = NoPairs
      /\ t.state = s.state /\ t.myKey = s.myKey /\ t.myNextKey = s.myNextKey
      /\ t.keyID = s.keyID /\ t.receivedDH = s.receivedDH
  BY <1>1 DEF SetupInitialRemoteKey, SessionRecords
<1> HIDE DEF t
<1>5. PairsAreCurrent(t)
  BY <1>4, NoPairsCached DEF PairsAreCurrent
<1>6. HasItsKeys(t)
  BY <1>4 DEF HasItsKeys, Sessions
<1> QED
  BY <1>3, <1>4, <1>5, <1>6 DEF Sessions, t

(* Another state, if the keys it needs are there.                          *)
Moved(s, st, dh, dhKey, id) ==
    [s EXCEPT !.state = st, !.receivedDH = dh, !.receivedDHKey = dhKey,
              !.theirKeyID = id]

LEMMA StateType ==
    ASSUME NEW s \in Sessions, NEW st \in Negotiating \cup {"Done"},
           NEW dh \in KeyOrNone, NEW dhKey \in KeyOrNone, NEW id \in Nat,
           st # "Idle" => s.myKey # NoKey,
           st \in {"AwaitingSignature", "Done"} => s.theirKey # NoKey,
           st = "AwaitingRevealSignature" => dh # NoKey,
           s.theirPreviousKey # NoKey => id > 0 /\ st # "AwaitingSignature"
    PROVE  /\ Moved(s, st, dh, dhKey, id) \in Sessions
           /\ Moved(s, st, dh, dhKey, id).myKey = s.myKey
           /\ Moved(s, st, dh, dhKey, id).theirKey = s.theirKey
<1> DEFINE t == Moved(s, st, dh, dhKey, id)
<1>1. s \in SessionRecords
  BY DEF Sessions
<1>2. t \in SessionRecords
  BY <1>1 DEF Moved, SessionRecords
<1>3. /\ t.keyCache = s.keyCache /\ t.myKey = s.myKey /\ t.myNextKey = s.myNextKey
      /\ t.theirKey = s.theirKey /\ t.theirPreviousKey = s.theirPreviousKey
      /\ t.state = st /\ t.receivedDH = dh /\ t.theirKeyID = id
  BY <1>1 DEF Moved, SessionRecords
<1> HIDE DEF t
<1>4. PairsAreCurrent(t) /\ HasItsKeys(t)
  BY <1>3 DEF PairsAreCurrent, HasItsKeys, Sessions
<1> QED
  BY <1>2, <1>3, <1>4 DEF Sessions, t

(* SecOTRSAppendSerialization looks up each pair of the current keys.      *)
LEMMA FindAnyType ==
    ASSUME NEW s \in Sessions, NEW a \in {s.myKey, s.myNextKey},
           NEW b \in {s.theirKey, s.theirPreviousKey},
           NEW t \in Sessions, SameButCache(t, s)
    PROVE  FindKeys(t, a, b) \in Sessions /\ SameButCache(FindKeys(t, a, b), s)
<1>1. a \in {t.myKey, t.myNextKey} /\ b \in {t.theirKey, t.theirPreviousKey}
  BY DEF SameButCache
<1>2. FindKeys(t, a, b) \in Sessions /\ SameButCache(FindKeys(t, a, b), t)
  BY <1>1, FindKeysType
<1> QED
  BY <1>2 DEF SameButCache

LEMMA SerializedType == ASSUME NEW s \in Sessions PROVE Serialized(s) \in Sessions
<1> DEFINE f1 == FindKeys(s, s.myKey, s.theirKey)
           f2 == FindKeys(f1, s.myKey, s.theirPreviousKey)
           f3 == FindKeys(f2, s.myNextKey, s.theirKey)
           f4 == FindKeys(f3, s.myNextKey, s.theirPreviousKey)
<1>1. f1 \in Sessions /\ SameButCache(f1, s)
  BY FindKeysType
<1>2. f2 \in Sessions /\ SameButCache(f2, s)
  BY <1>1, FindAnyType
<1>3. f3 \in Sessions /\ SameButCache(f3, s)
  BY <1>2, FindAnyType
<1>4. f4 \in Sessions
  BY <1>3, FindAnyType
<1> QED
  BY <1>4 DEF Serialized
-----------------------------------------------------------------------------
(* Negotiation: each packet leaves a session and a response that are in    *)
(* order, or the packet could not be decoded.                              *)

LEMMA MessagesType ==
    ASSUME NEW s \in Keyed
    PROVE  /\ DHMessage(s) \in Negotiations /\ DHKeyMessage(s) \in Negotiations
           /\ RevealSignatureMessage(s) \in Negotiations
           /\ SignatureMessage(s) \in Negotiations
<1>1. s \in SessionRecords /\ s.myKey \in Key /\ s.theirKey \in KeyOrNone /\ s.keyID \in Nat
  BY DEF Keyed, Sessions, SessionRecords, KeyOrNone
<1>2. ASSUME NEW type \in PacketTypes \ {"none", "Data"}, NEW to \in KeyOrNone, NEW id \in Nat
      PROVE  NegotiationPacket(type, s.myKey, to, id) \in Negotiations
  BY <1>1 DEF NegotiationPacket, NoPacket, Negotiations, PacketRecords, KeyOrNone
<1>3. NoKey \in KeyOrNone
  BY DEF KeyOrNone
<1> QED
  BY <1>1, <1>2, <1>3 DEF DHMessage, DHKeyMessage, RevealSignatureMessage,
     SignatureMessage, PacketTypes

Responses == {NoPacket} \cup Negotiations
Outcomes == [session : Sessions, status : {"success", "decode"}, response : Responses]

LEMMA StartType ==
    ASSUME NEW s \in Sessions, NEW k \in Key, NEW next \in Key
    PROVE  AppendStartPacket(s, k, next) \in Outcomes
           /\ AppendStartPacket(s, k, next).response \in Negotiations
<1> DEFINE i == InitMyDHKeys(s, k, next)
           t == [i EXCEPT !.state = "AwaitingDHKey"]
<1>1. i \in Keyed
  BY InitKeysType
<1> HIDE DEF i
<1>2. i \in SessionRecords /\ i \in Sessions /\ i.myKey # NoKey
  BY <1>1 DEF Keyed, Sessions
<1>3. t = Moved(i, "AwaitingDHKey", i.receivedDH, i.receivedDHKey, i.theirKeyID)
  BY <1>2 DEF Moved, SessionRecords
<1>4. i.receivedDH \in KeyOrNone /\ i.receivedDHKey \in KeyOrNone /\ i.theirKeyID \in Nat
      /\ (i.theirPreviousKey # NoKey => i.theirKeyID > 0)
  BY <1>2 DEF SessionRecords, Sessions, HasItsKeys
<1>5. t \in Keyed
  BY <1>2, <1>3, <1>4, StateType DEF Keyed, Negotiating
<1>6. AppendStartPacket(s, k, next) = Outcome(t, "success", DHMessage(t))
  BY DEF AppendStartPacket, i
<1> HIDE DEF t
<1> QED
  BY <1>5, <1>6, MessagesType DEF Outcome, Outcomes, Responses, Keyed

LEMMA RestartType ==
    ASSUME NEW s \in Sessions PROVE AppendRestartPacket(s) \in Outcomes
<1> DEFINE t == [s EXCEPT !.state = "AwaitingDHKey", !.receivedDH = NoKey,
                          !.receivedDHKey = NoKey]
<1>1. s \in SessionRecords /\ s.theirKeyID \in Nat /\ NoKey \in KeyOrNone
      /\ (s.theirPreviousKey # NoKey => s.theirKeyID > 0)
  BY DEF Sessions, SessionRecords, HasItsKeys, KeyOrNone
<1>2. t = Moved(s, "AwaitingDHKey", NoKey, NoKey, s.theirKeyID)
  BY <1>1 DEF Moved, SessionRecords
<1>3. ASSUME s.myKey # NoKey PROVE t \in Sessions
  BY <1>1, <1>2, <1>3, StateType DEF Negotiating
<1>4. CASE s.myKey = NoKey
  BY <1>4 DEF AppendRestartPacket, Outcome, Outcomes, Responses
<1>5. CASE s.myKey # NoKey
  <2>1. s \in Keyed /\ AppendRestartPacket(s) = Outcome(t, "success", DHMessage(s))
    BY <1>5 DEF Keyed, AppendRestartPacket
  <2> QED
    BY <1>3, <1>5, <2>1, MessagesType DEF Outcome, Outcomes, Responses
<1> QED
  BY <1>4, <1>5

LEMMA ProcessDHType ==
    ASSUME NEW s \in Sessions, NEW m \in Negotiations, NEW k \in Key, NEW next \in Key
    PROVE  ProcessDH(s, m, k, next) \in Outcomes
<1>1. s \in SessionRecords /\ m.from \in Key /\ m.from \in KeyOrNone /\ NoKey \in KeyOrNone
      /\ m.from # NoKey
  BY DEF Sessions, Negotiations, PacketRecords, KeyOrNone
<1>2. CASE s.state = "AwaitingDHKey" /\ s.myKey > m.from
  <2> DEFINE t == [s EXCEPT !.receivedDH = NoKey]
  <2>1. t = Moved(s, s.state, NoKey, s.receivedDHKey, s.theirKeyID)
    BY <1>1 DEF Moved, SessionRecords
  <2>2. /\ s.receivedDHKey \in KeyOrNone /\ s.theirKeyID \in Nat /\ s.myKey # NoKey
        /\ (s.theirPreviousKey # NoKey => s.theirKeyID > 0)
    BY <1>2 DEF Sessions, SessionRecords, HasItsKeys
  <2>3. t \in Sessions
    BY <1>1, <1>2, <2>1, <2>2, StateType DEF Negotiating
  <2>4. s \in Keyed /\ ProcessDH(s, m, k, next) = Outcome(t, "success", DHMessage(s))
    BY <1>2, <2>2 DEF Keyed, ProcessDH
  <2> QED
    BY <2>3, <2>4, MessagesType DEF Outcome, Outcomes, Responses
<1>3. CASE ~(s.state = "AwaitingDHKey" /\ s.myKey > m.from)
  <2> DEFINE i == IF s.state = "AwaitingRevealSignature" THEN s ELSE InitMyDHKeys(s, k, next)
             t == [i EXCEPT !.state = "AwaitingRevealSignature", !.receivedDH = m.from]
  <2>1. ProcessDH(s, m, k, next) = Outcome(t, "success", DHKeyMessage(i))
    BY <1>3 DEF ProcessDH
  <2>2. i \in Keyed
    BY InitKeysType DEF Keyed, Sessions, HasItsKeys
  <2> HIDE DEF i
  <2>3. i \in SessionRecords /\ i \in Sessions /\ i.myKey # NoKey
    BY <2>2 DEF Keyed, Sessions
  <2>4. t = Moved(i, "AwaitingRevealSignature", m.from, i.receivedDHKey, i.theirKeyID)
    BY <2>3 DEF Moved, SessionRecords
  <2>5. i.receivedDHKey \in KeyOrNone /\ i.theirKeyID \in Nat
        /\ (i.theirPreviousKey # NoKey => i.theirKeyID > 0)
    BY <2>3 DEF SessionRecords, Sessions, HasItsKeys
  <2> HIDE DEF t
  <2>6. t \in Sessions
    BY <1>1, <2>3, <2>4, <2>5, StateType DEF Negotiating
  <2> QED
    BY <2>1, <2>2, <2>6, MessagesType DEF Outcome, Outcomes, Responses
<1> QED
  BY <1>2, <1>3

LEMMA ProcessDHKeyType ==
    ASSUME NEW s \in Sessions, NEW m \in Negotiations
    PROVE  ProcessDHKey(s, m) \in Outcomes
<1> DEFINE keyed == SetupInitialRemoteKey(s, m.from)
           t == [keyed EXCEPT !.state = "AwaitingSignature", !.receivedDHKey = m.from]
           reveal == RevealSignatureMessage(keyed)
<1>1. m.from \in Key /\ m.from \in KeyOrNone /\ m.from # NoKey
  BY DEF Negotiations, PacketRecords, KeyOrNone
<1>2. /\ keyed \in Sessions /\ keyed.theirKey = m.from /\ keyed.theirPreviousKey = NoKey
      /\ keyed.state = s.state /\ keyed.myKey = s.myKey
  BY <1>1, RemoteKeyType
<1>3. CASE s.state = "AwaitingDHKey"
  <2>1. ProcessDHKey(s, m) = Outcome(t, "success", reveal)
    BY <1>3 DEF ProcessDHKey
  <2> HIDE DEF keyed
  <2>2. keyed \in SessionRecords /\ keyed.myKey # NoKey
    BY <1>2, <1>3 DEF Sessions, HasItsKeys
  <2>3. t = Moved(keyed, "AwaitingSignature", keyed.receivedDH, m.from, keyed.theirKeyID)
    BY <2>2 DEF Moved, SessionRecords
  <2>4. keyed.receivedDH \in KeyOrNone /\ keyed.theirKeyID \in Nat
    BY <2>2 DEF SessionRecords
  <2>5. t \in Sessions
    BY <1>1, <1>2, <2>2, <2>3, <2>4, StateType DEF Negotiating
  <2>6. reveal \in Negotiations
    BY <1>2, <2>2, MessagesType DEF Keyed
  <2> QED
    BY <2>1, <2>5, <2>6 DEF Outcome, Outcomes, Responses
<1>4. CASE s.state = "AwaitingSignature" /\ m.from = s.receivedDHKey
  <2>1. ProcessDHKey(s, m) = Outcome(keyed, "success", reveal)
    BY <1>4 DEF ProcessDHKey
  <2> HIDE DEF keyed
  <2>2. keyed.myKey # NoKey
    BY <1>2, <1>4 DEF Sessions, HasItsKeys
  <2>3. reveal \in Negotiations
    BY <1>2, <2>2, MessagesType DEF Keyed
  <2> QED
    BY <1>2, <2>1, <2>3 DEF Outcome, Outcomes, Responses
<1>5. CASE ~(s.state = "AwaitingDHKey")
           /\ ~(s.state = "AwaitingSignature" /\ m.from = s.receivedDHKey)
  <2>1. ProcessDHKey(s, m) = Outcome(keyed, "success", NoPacket)
    BY <1>5 DEF ProcessDHKey
  <2> QED
    BY <1>2, <2>1 DEF Outcome, Outcomes, Responses
<1> QED
  BY <1>3, <1>4, <1>5

LEMMA ProcessRevealSignatureType ==
    ASSUME NEW s \in Sessions, NEW m \in Negotiations
    PROVE  ProcessRevealSignature(s, m) \in Outcomes
<1>1. CASE s.state # "AwaitingRevealSignature"
  BY <1>1 DEF ProcessRevealSignature, Outcome, Outcomes, Responses
<1>2. CASE s.state = "AwaitingRevealSignature" /\ m.from = s.receivedDH /\ m.to = s.myKey
  <2> DEFINE keyed == SetupInitialRemoteKey(s, s.receivedDH)
             done == [keyed EXCEPT !.theirKeyID = m.keyID, !.state = "Done"]
  <2>1. s.receivedDH \in Key /\ s.myKey # NoKey /\ m.keyID \in Nat
    BY <1>2 DEF Sessions, SessionRecords, HasItsKeys, KeyOrNone, Negotiations, PacketRecords
  <2>2. /\ keyed \in Sessions /\ keyed.theirKey = s.receivedDH
        /\ keyed.theirPreviousKey = NoKey /\ keyed.myKey = s.myKey
        /\ keyed.theirKey # NoKey /\ keyed.myKey # NoKey
    BY <2>1, RemoteKeyType
  <2>3. ProcessRevealSignature(s, m) = Outcome(done, "success", SignatureMessage(done))
    BY <1>2 DEF ProcessRevealSignature
  <2> HIDE DEF keyed
  <2>4. keyed \in SessionRecords
    BY <2>2 DEF Sessions
  <2>5. done = Moved(keyed, "Done", keyed.receivedDH, keyed.receivedDHKey, m.keyID)
    BY <2>4 DEF Moved, SessionRecords
  <2>6. keyed.receivedDH \in KeyOrNone /\ keyed.receivedDHKey \in KeyOrNone
    BY <2>4 DEF SessionRecords
  <2> HIDE DEF done
  <2>7. done \in Sessions /\ done.myKey = s.myKey
    <3>1. "Done" \in Negotiating \cup {"Done"} /\ keyed \in Sessions /\ m.keyID \in Nat
      BY <2>1, <2>2
    <3>2. /\ Moved(keyed, "Done", keyed.receivedDH, keyed.receivedDHKey, m.keyID) \in Sessions
          /\ Moved(keyed, "Done", keyed.receivedDH, keyed.receivedDHKey, m.keyID).myKey
               = keyed.myKey
      BY <2>2, <2>6, <3>1, StateType
    <3> QED
      BY <2>2, <2>5, <3>2
  <2>8. SignatureMessage(done) \in Negotiations
    BY <2>1, <2>7, MessagesType DEF Keyed
  <2> QED
    BY <2>3, <2>7, <2>8 DEF Outcome, Outcomes, Responses
<1>3. CASE s.state = "AwaitingRevealSignature"
           /\ ~(m.from = s.receivedDH /\ m.to = s.myKey)
  <2>1. ProcessRevealSignature(s, m) = Outcome(s, "decode", NoPacket)
    BY <1>3 DEF ProcessRevealSignature
  <2> QED
    BY <2>1 DEF Outcome, Outcomes, Responses
<1> QED
  BY <1>1, <1>2, <1>3

LEMMA ProcessSignatureType ==
    ASSUME NEW s \in Sessions, NEW m \in Negotiations
    PROVE  ProcessSignature(s, m) \in Outcomes
<1>1. CASE s.state # "AwaitingSignature"
  BY <1>1 DEF ProcessSignature, Outcome, Outcomes, Responses
<1>2. CASE s.state = "AwaitingSignature" /\ m.from = s.theirKey /\ m.to = s.myKey
  <2> DEFINE done == [s EXCEPT !.theirKeyID = m.keyID, !.receivedDHKey = NoKey,
                               !.state = "Done"]
  <2>1. ProcessSignature(s, m) = Outcome(done, "success", NoPacket)
    BY <1>2 DEF ProcessSignature
  <2>2. /\ s \in SessionRecords /\ s.receivedDH \in KeyOrNone /\ NoKey \in KeyOrNone
        /\ s.myKey # NoKey /\ s.theirKey # NoKey /\ m.keyID \in Nat
    BY <1>2 DEF Sessions, SessionRecords, HasItsKeys, KeyOrNone, Negotiations, PacketRecords
  <2>3. done = Moved(s, "Done", s.receivedDH, NoKey, m.keyID)
    BY <2>2 DEF Moved, SessionRecords
  <2> HIDE DEF done
  <2>4. s.theirPreviousKey = NoKey
    BY <1>2 DEF Sessions, HasItsKeys
  <2>5. done \in Sessions
    BY <2>2, <2>3, <2>4, StateType DEF Negotiating
  <2> QED
    BY <2>1, <2>5 DEF Outcome, Outcomes, Responses
<1>3. CASE s.state = "AwaitingSignature" /\ ~(m.from = s.theirKey /\ m.to = s.myKey)
  <2>1. ProcessSignature(s, m) = Outcome(s, "decode", NoPacket)
    BY <1>3 DEF ProcessSignature
  <2> QED
    BY <2>1 DEF Outcome, Outcomes, Responses
<1> QED
  BY <1>1, <1>2, <1>3

LEMMA ProcessPacketType ==
    ASSUME NEW s \in Sessions, NEW m \in Negotiations, NEW k \in Key, NEW next \in Key
    PROVE  ProcessPacket(s, m, k, next) \in Outcomes
<1>1. m.type \in {"DH", "DHKey", "RevealSignature", "Signature"}
  BY DEF Negotiations, PacketRecords, PacketTypes
<1> QED
  BY <1>1, ProcessDHType, ProcessDHKeyType, ProcessRevealSignatureType,
     ProcessSignatureType DEF ProcessPacket
-----------------------------------------------------------------------------
(* Data packets.                                                           *)

LEMMA PairCounters ==
    ASSUME NEW s \in Sessions, NEW pair \in DOMAIN s.keyCache
    PROVE  s.keyCache[pair] \in Counters
BY CacheType DEF Sessions, SessionRecords

(* What a session that is done sends is a data packet with its next key.   *)
LEMMA SignAndProtectType ==
    ASSUME NEW s \in Sessions, s.state = "Done", NEW content \in Contents,
           NEW next \in Key, NEW over
    PROVE  /\ SignAndProtect(s, content, next, over).session \in Sessions
           /\ SignAndProtect(s, content, next, over).session.state = "Done"
           /\ SignAndProtect(s, content, next, over).response \in DataPackets
<1> DEFINE rolled == RollIfTime(s, next, over)
           stalling == rolled.stallingTheirRoll /\ rolled.theirPreviousKey # NoKey
           theirs == IF stalling THEN rolled.theirPreviousKey ELSE s.theirKey
           pair == <<rolled.myKey, theirs>>
           found == FindKeys(rolled, rolled.myKey, theirs)
           sent == [found EXCEPT !.keyCache[pair].mine = @ + 1]
           packet == [type |-> "Data", from |-> sent.myKey, to |-> theirs,
                      keyID |-> sent.keyID,
                      theirKeyID |-> IF stalling THEN s.theirKeyID - 1 ELSE s.theirKeyID,
                      next |-> sent.myNextKey, counter |-> sent.keyCache[pair].mine,
                      content |-> content]
<1>1. SignAndProtect(s, content, next, over) = Outcome(sent, "success", packet)
  BY DEF SignAndProtect
<1>2. s \in Keyed /\ s.theirKey # NoKey
  BY DEF Keyed, Sessions, HasItsKeys
<1>3. rolled \in Keyed /\ SameOtherEnd(rolled, s)
  BY <1>2, RollIfTimeType
<1> HIDE DEF rolled
<1>4. /\ rolled \in Sessions /\ rolled.myKey # NoKey /\ theirs # NoKey
      /\ rolled.myKey \in {rolled.myKey, rolled.myNextKey}
      /\ theirs \in {rolled.theirKey, rolled.theirPreviousKey}
  BY <1>2, <1>3 DEF Keyed, SameOtherEnd
<1>5. theirs \in Key /\ (IF stalling THEN s.theirKeyID - 1 ELSE s.theirKeyID) \in Nat
  BY <1>2, <1>3, <1>4 DEF SameOtherEnd, Sessions, SessionRecords, HasItsKeys, KeyOrNone
<1> HIDE DEF stalling
<1>6. found \in Sessions /\ SameButCache(found, rolled) /\ pair \in DOMAIN found.keyCache
  BY <1>4, FindKeysType
<1> HIDE DEF theirs, found
<1> DEFINE counters == [found.keyCache[pair] EXCEPT !.mine = @ + 1]
<1>7. found.keyCache[pair] \in Counters
  BY <1>6, PairCounters
<1>8. counters \in Counters
  BY <1>7 DEF Counters
<1>9. sent = Counted(found, pair, counters)
  BY DEF Counted
<1> HIDE DEF pair, counters, sent
<1>10. sent \in Sessions /\ SameButCache(sent, found) /\ sent.keyCache[pair] = counters
  BY <1>6, <1>8, <1>9, CountedType
<1>11. sent.keyCache[pair].mine \in Nat
  BY <1>8, <1>10 DEF Counters
<1>12. /\ sent.state = "Done" /\ sent.keyID \in Nat
       /\ sent.myKey \in Key /\ sent.myNextKey \in Key
  BY <1>3, <1>6, <1>10 DEF SameButCache, SameOtherEnd, Sessions, SessionRecords, HasItsKeys,
     KeyOrNone
<1>13. packet \in DataPackets
  BY <1>5, <1>11, <1>12 DEF DataPackets, PacketRecords, PacketTypes, KeyOrNone
<1> QED
  BY <1>1, <1>10, <1>12, <1>13 DEF Outcome

(* What a session that is done makes of a data packet.                     *)
LEMMA VerifyAndExposeType ==
    ASSUME NEW s \in Sessions, s.state = "Done", NEW m \in DataPackets,
           NEW next \in Key, NEW over
    PROVE  /\ VerifyAndExpose(s, m, next, over).session \in Sessions
           /\ VerifyAndExpose(s, m, next, over).status
                \in {"success", "tooOld", "tooNew", "authFailed"}
<1> DEFINE mine == IF m.theirKeyID = s.keyID THEN s.myKey ELSE s.myNextKey
           theirs == IF m.keyID = s.theirKeyID THEN s.theirKey ELSE s.theirPreviousKey
           found == FindKeys(s, mine, theirs)
           pair == <<mine, theirs>>
           counted == [found EXCEPT !.keyCache[pair].theirs = m.counter]
           accepted == IF m.keyID = s.theirKeyID THEN AcceptNewRemoteKey(counted, m.next)
                       ELSE counted
           acked == IF m.theirKeyID = s.keyID + 1
                    THEN HandleProposalAcknowledge(accepted, next) ELSE accepted
           rolled == RollIfTime(acked, next, over)
           v == VerifyAndExpose(s, m, next, over)
<1>1. s.myKey # NoKey /\ s.myNextKey # NoKey /\ s.theirKey # NoKey
  BY DEF Sessions, HasItsKeys
<1>2. mine \in {s.myKey, s.myNextKey} /\ theirs \in {s.theirKey, s.theirPreviousKey}
  OBVIOUS
<1>3. found \in Sessions /\ SameButCache(found, s)
  BY <1>2, FindKeysType
<1>4. CASE ~(KnowsTheirID(s, m.keyID) /\ KnowsMyID(s, m.theirKeyID))
  <2>1. v.session = s /\ v.status \in {"tooOld", "tooNew"}
    BY <1>4 DEF VerifyAndExpose, Outcome
  <2> QED
    BY <2>1
<1>5. CASE KnowsTheirID(s, m.keyID) /\ KnowsMyID(s, m.theirKeyID)
  <2>1. mine # NoKey /\ theirs # NoKey
    BY <1>1, <1>5 DEF KnowsTheirID, Sessions, SessionRecords
  <2>2. pair \in DOMAIN found.keyCache
    BY <1>2, <2>1, FindKeysType
  <2>3. \/ v.session = found /\ v.status \in {"tooOld", "authFailed"}
        \/ v.session = FindKeys(rolled, rolled.myKey, rolled.theirKey) /\ v.status = "success"
    BY <1>5 DEF VerifyAndExpose, Outcome
  <2> HIDE DEF v, mine, theirs, found
  <2> DEFINE counters == [found.keyCache[pair] EXCEPT !.theirs = m.counter]
  <2>4. counters \in Counters /\ counted = Counted(found, pair, counters)
    <3>1. found.keyCache[pair] \in Counters /\ m.counter \in Nat
      BY <1>3, <2>2, PairCounters DEF DataPackets, PacketRecords
    <3>2. counters \in Counters
      BY <3>1 DEF Counters
    <3> QED
      BY <3>2 DEF Counted
  <2> HIDE DEF pair, counters, counted
  <2>5. counted \in Sessions /\ SameButCache(counted, found)
    BY <1>3, <2>2, <2>4, CountedType
  <2>6. counted \in Keyed /\ counted.state = "Done"
    BY <1>1, <1>3, <2>5 DEF SameButCache, Keyed
  <2>7. m.next \in Key
    BY DEF DataPackets, PacketRecords, KeyOrNone
  <2>8. accepted \in Keyed
    BY <2>6, <2>7, AcceptType
  <2> HIDE DEF accepted
  <2>9. acked \in Keyed
    BY <2>8, AcknowledgeType
  <2> HIDE DEF acked
  <2>10. rolled \in Keyed
    BY <2>9, RollIfTimeType
  <2> HIDE DEF rolled
  <2>11. FindKeys(rolled, rolled.myKey, rolled.theirKey) \in Sessions
    BY <2>10, FindKeysType DEF Keyed
  <2> QED
    BY <1>3, <2>3, <2>11 DEF v
<1> QED
  BY <1>4, <1>5
-----------------------------------------------------------------------------
(* Coders.                                                                 *)

LEMMA PacketsApart ==
    /\ NoPacket.type = "none"
    /\ \A m \in Negotiations : m.type # "Data" /\ m.type # "none"
    /\ \A m \in DataPackets : m.type = "Data"
BY DEF NoPacket, Negotiations, DataPackets, PacketRecords

LEMMA StartedType ==
    ASSUME NEW s \in Sessions, NEW kn \in Key \X Key PROVE Started(s, kn) \in Coders
<1>1. AppendStartPacket(s, kn[1], kn[2]) \in Outcomes
  BY StartType
<1> QED
  BY <1>1 DEF Started, Coder, Coders, Outcomes, Responses, Packets

LEMMA RestartedType ==
    ASSUME NEW c \in Coders, NEW kn \in Key \X Key PROVE Restarted(c, kn) \in Coders
<1>1. c.session \in Sessions
  BY DEF Coders
<1> QED
  BY <1>1, ResetType, StartedType DEF Restarted

LEMMA LoadedType == ASSUME NEW c \in Coders PROVE Loaded(c) \in Coders
<1>1. Serialized(c.session) \in Sessions
  BY SerializedType DEF Coders
<1> QED
  BY <1>1 DEF Loaded, Coders, Packets

LEMMA ResendType ==
    ASSUME NEW c \in Coders
    PROVE  ResendDH(c).coder \in Coders /\ ResendDH(c).result # "data"
<1>1. AppendRestartPacket(c.session) \in Outcomes
  BY RestartType DEF Coders
<1> QED
  BY <1>1 DEF ResendDH, Coders, Outcomes, Responses

LEMMA UnwrapNegotiationType ==
    ASSUME NEW c \in Coders, NEW m \in Negotiations, NEW kn \in Key \X Key
    PROVE  /\ UnwrapNegotiation(c, m, kn).coder \in Coders
           /\ UnwrapNegotiation(c, m, kn).result # "data"
<1> DEFINE outcome == ProcessPacket(c.session, m, kn[1], kn[2])
           c1 == [c EXCEPT !.session = outcome.session]
           answered == [c1 EXCEPT !.pendingResponse = outcome.response,
                                  !.waitingForDataPacket = @ \/ IsReady(c1)]
           u == UnwrapNegotiation(c, m, kn)
<1>1. outcome \in Outcomes
  BY ProcessPacketType DEF Coders
<1>2. \/ u.coder = answered /\ u.result = "negotiating"
      \/ u.coder = [c1 EXCEPT !.waitingForDataPacket = FALSE] /\ u.result = "completed"
      \/ u.coder = c1 /\ u.result = "negotiating"
      \/ u = ResendDH(c1)
  <2>1. CASE outcome.status = "success" /\ outcome.response # NoPacket
    BY <2>1 DEF UnwrapNegotiation
  <2>2. CASE outcome.status = "success" /\ outcome.response = NoPacket
    BY <2>2 DEF UnwrapNegotiation
  <2>3. CASE outcome.status = "decode"
    BY <2>3 DEF UnwrapNegotiation
  <2> QED
    BY <1>1, <2>1, <2>2, <2>3 DEF Outcomes
<1> HIDE DEF outcome, u
<1>3. c1 \in Coders
  BY <1>1 DEF Coders, Outcomes
<1>4. answered \in Coders
  BY <1>1, <1>3 DEF Coders, Outcomes, Responses, IsReady
<1>5. [c1 EXCEPT !.waitingForDataPacket = FALSE] \in Coders
  BY <1>3 DEF Coders
<1> HIDE DEF c1, answered
<1>6. u.coder \in Coders /\ u.result # "data"
  BY <1>2, <1>3, <1>4, <1>5, ResendType
<1> QED
  BY <1>6 DEF u

LEMMA UnwrapDataType ==
    ASSUME NEW c \in Coders, NEW m \in DataPackets, NEW kn \in Key \X Key, NEW over
    PROVE  UnwrapData(c, m, kn, over).coder \in Coders
<1> DEFINE received == [c EXCEPT !.lastReceived = m, !.lastReceivedWasOld = FALSE]
           outcome == VerifyAndExpose(c.session, m, kn[2], over)
           exposed == [received EXCEPT !.session = outcome.session,
                                       !.waitingForDataPacket = FALSE]
           u == UnwrapData(c, m, kn, over)
<1>1. received \in Coders
  BY DEF Coders, Packets
<1>2. CASE ~IsReady(c)
  <2>1. u = ResendDH(received)
    BY <1>2 DEF UnwrapData
  <2> HIDE DEF received
  <2> QED
    BY <1>1, <2>1, ResendType
<1>3. CASE IsReady(c)
  <2>1. outcome.session \in Sessions
        /\ outcome.status \in {"success", "tooOld", "tooNew", "authFailed"}
    BY <1>3, VerifyAndExposeType DEF Coders, IsReady
  <2>2. \/ u.coder = exposed
        \/ u.coder = [exposed EXCEPT !.lastReceivedWasOld = TRUE]
    <3>1. CASE outcome.status = "success"
      BY <1>3, <3>1 DEF UnwrapData
    <3>2. CASE outcome.status = "tooOld"
      BY <1>3, <3>2 DEF UnwrapData
    <3>3. CASE outcome.status = "tooNew"
      BY <1>3, <3>3 DEF UnwrapData
    <3>4. CASE outcome.status = "authFailed"
      BY <1>3, <3>4 DEF UnwrapData
    <3> QED
      BY <2>1, <3>1, <3>2, <3>3, <3>4
  <2> HIDE DEF received, outcome, u
  <2>3. exposed \in Coders /\ [exposed EXCEPT !.lastReceivedWasOld = TRUE] \in Coders
    BY <1>1, <2>1 DEF Coders
  <2> HIDE DEF exposed
  <2>4. u.coder \in Coders
    BY <2>2, <2>3
  <2> QED
    BY <2>4 DEF u
<1> QED
  BY <1>2, <1>3

(* What is handed to the engine as data came in a data packet.             *)
LEMMA UnwrapType ==
    ASSUME NEW c \in Coders, NEW m \in Packets, m # NoPacket, NEW kn \in Key \X Key,
           NEW over
    PROVE  /\ Unwrap(c, m, kn, over).coder \in Coders
           /\ Unwrap(c, m, kn, over).result = "data" => m \in DataPackets
<1>1. CASE m \in DataPackets
  BY <1>1, PacketsApart, UnwrapDataType DEF Unwrap
<1>2. CASE m \in Negotiations
  BY <1>2, PacketsApart, UnwrapNegotiationType DEF Unwrap
<1> QED
  BY <1>1, <1>2 DEF Packets

LEMMA KeyPairsType == ASSUME NEW p \in Peer, NEW used PROVE KeyPairs(p, used) \subseteq Key \X Key
<1>1. FirstKeys[p] \subseteq SUBSET Key /\ NextKeys[p] \subseteq Key
  OBVIOUS
<1>2. \A ks : Smallest(ks) \subseteq ks
  BY DEF Smallest
<1>3. UNION {Smallest(pool \ used) : pool \in FirstKeys[p]} \subseteq Key
  <2> SUFFICES ASSUME NEW k \in UNION {Smallest(pool \ used) : pool \in FirstKeys[p]}
               PROVE  k \in Key
    OBVIOUS
  <2>1. PICK pool \in FirstKeys[p] : k \in Smallest(pool \ used)
    OBVIOUS
  <2>2. k \in pool \ used
    BY <1>2, <2>1
  <2> QED
    BY <1>1, <2>1, <2>2
<1>4. Smallest(NextKeys[p] \ used) \subseteq Key
  BY <1>1, <1>2
<1> QED
  BY <1>3, <1>4 DEF KeyPairs
-----------------------------------------------------------------------------
(* The engines and the store.                                              *)

SavedStates == [coder : Coders, mustSend : BOOLEAN, work : BOOLEAN]

CodersTyped == coder \in [Peer -> Coders] /\ saved \in [Peer -> SavedStates]

(* A message that waits to be read is there.                               *)
StoreTyped ==
    /\ kvs \in [Peer -> Packets] /\ unread \in [Peer -> BOOLEAN]
    /\ \A p \in Peer : unread[p] => kvs[Other(p)] # NoPacket

EnginesTyped ==
    /\ mustSend \in [Peer -> BOOLEAN] /\ work \in [Peer -> BOOLEAN]
    /\ dirty \in [Peer -> BOOLEAN] /\ timer \in [Peer -> BOOLEAN]
    /\ sync \in [Peer -> BOOLEAN]

HistoryTyped ==
    /\ made \in [Peer -> Nat] /\ seen \in [Peer -> Nat] /\ opened \in [Peer -> Nat]
    /\ setback \in {"none", "restart", "exit"} /\ faults \in 0 .. MaxFaults

CodingInv == CodersTyped /\ StoreTyped /\ EnginesTyped /\ HistoryTyped

LEMMA OtherType == \A p \in Peer : Other(p) \in Peer /\ Other(p) # p /\ Other(Other(p)) = p
BY DEF Other

LEMMA FreshPairsType == ASSUME NEW p \in Peer PROVE FreshPairs(p) \subseteq Key \X Key
BY KeyPairsType DEF FreshPairs

(* Faults are counted down.                                                *)
LEMMA FaultType ==
    ASSUME HistoryTyped, Fault PROVE faults' \in 0 .. MaxFaults
BY DEF HistoryTyped, Fault

LEMMA SaveType ==
    ASSUME saved \in [Peer -> SavedStates], NEW p \in Peer, NEW c \in Coders,
           NEW needed \in BOOLEAN, NEW must \in BOOLEAN, NEW todo \in BOOLEAN,
           SaveEngine(p, c, needed, must, todo)
    PROVE  saved' \in [Peer -> SavedStates]
<1>1. saved[p] \in SavedStates
  OBVIOUS
<1>2. [coder |-> IF needed THEN c ELSE saved[p].coder, mustSend |-> must, work |-> todo]
        \in SavedStates
  BY <1>1 DEF SavedStates
<1> QED
  BY <1>2 DEF SaveEngine

LEMMA CodingInitInv == ASSUME CodingInit PROVE CodingInv
<1>1. PICK kn \in [Peer -> UNION {KeyPairs(p, {}) : p \in Peer}] :
        /\ \A p \in Peer : kn[p] \in KeyPairs(p, {})
        /\ coder = [p \in Peer |-> Started(IdleSession, kn[p])]
  BY DEF CodingInit
<1>2. \A p \in Peer : Started(IdleSession, kn[p]) \in Coders
  <2> TAKE p \in Peer
  <2>1. kn[p] \in Key \X Key
    BY <1>1, KeyPairsType
  <2> QED
    BY <2>1, IdleType, StartedType
<1>3. coder \in [Peer -> Coders]
  BY <1>1, <1>2
<1>4. saved \in [Peer -> SavedStates]
  BY <1>3 DEF CodingInit, SavedStates
<1>5. StoreTyped
  BY DEF CodingInit, StoreTyped, Packets
<1>6. EnginesTyped
  BY DEF CodingInit, EnginesTyped
<1>7. HistoryTyped
  BY DEF CodingInit, HistoryTyped
<1> QED
  BY <1>3, <1>4, <1>5, <1>6, <1>7 DEF CodingInv, CodersTyped

LEMMA HandleInv ==
    ASSUME CodingInv, NEW p \in Peer, HandleCodedMessage(p) PROVE CodingInv'
<1> DEFINE q == Other(p)
           m == kvs[q]
<1>1. q \in Peer /\ unread[p] /\ m \in Packets /\ m # NoPacket
  BY OtherType DEF CodingInv, StoreTyped, HandleCodedMessage
<1>2. PICK kn \in FreshPairs(p), over \in Spans :
         LET u == Unwrap(coder[p], m, kn, over)
             handled == u.result \notin {"failure", "tooNew"}
             c == IF handled THEN u.coder ELSE Restarted(u.coder, kn)
             exposed == u.result = "data"
             news == exposed /\ m.content.made > seen[p]
             must == mustSend[p] \/ u.result \in {"completed", "forceMessage"}
             todo == work[p] \/ (exposed /\ m.content.seen < made[p])
             saves == u.result = "completed" \/ news
         IN /\ coder' = [coder EXCEPT ![p] = c]
            /\ mustSend' = [mustSend EXCEPT ![p] = must]
            /\ work' = [work EXCEPT ![p] = todo]
            /\ IF saves THEN SaveEngine(p, c, dirty[p], must, todo)
               ELSE UNCHANGED saved
            /\ dirty' = [dirty EXCEPT ![p] = @ /\ ~saves]
            /\ timer' = [timer EXCEPT ![p] = FALSE]
            /\ sync' = [sync EXCEPT ![p] = @ \/ handled]
            /\ unread' = [unread EXCEPT ![p] = ~handled]
            /\ opened' = [opened EXCEPT ![p] = IF exposed THEN @ + 1 ELSE @]
            /\ seen' = [seen EXCEPT ![p] = IF news THEN m.content.made ELSE @]
            /\ UNCHANGED <<kvs, made, setback, faults>>
  BY DEF HandleCodedMessage
<1> DEFINE u == Unwrap(coder[p], m, kn, over)
           handled == u.result \notin {"failure", "tooNew"}
           c == IF handled THEN u.coder ELSE Restarted(u.coder, kn)
           exposed == u.result = "data"
           news == exposed /\ m.content.made > seen[p]
           must == mustSend[p] \/ u.result \in {"completed", "forceMessage"}
           todo == work[p] \/ (exposed /\ m.content.seen < made[p])
           saves == u.result = "completed" \/ news
<1>3. kn \in Key \X Key /\ coder[p] \in Coders
  BY FreshPairsType DEF CodingInv, CodersTyped
<1>4. u.coder \in Coders /\ (exposed => m \in DataPackets)
  BY <1>1, <1>3, UnwrapType
<1> HIDE DEF u, m
<1>5. c \in Coders
  BY <1>3, <1>4, RestartedType
<1>6. exposed => m.content.made \in Nat
  BY <1>4 DEF DataPackets, Contents
<1>7. must \in BOOLEAN /\ todo \in BOOLEAN /\ saves \in BOOLEAN /\ handled \in BOOLEAN
      /\ dirty[p] \in BOOLEAN
  BY DEF CodingInv, EnginesTyped
<1> HIDE DEF q, c
<1>8. CodersTyped'
  <2>1. coder' \in [Peer -> Coders]
    BY <1>2, <1>5 DEF CodingInv, CodersTyped, u, m, c
  <2>2. IF saves THEN SaveEngine(p, c, dirty[p], must, todo) ELSE UNCHANGED saved
    BY <1>2 DEF u, m, c
  <2> HIDE DEF must, todo, saves
  <2>3. saved' \in [Peer -> SavedStates]
    BY <1>5, <1>7, <2>2, SaveType DEF CodingInv, CodersTyped
  <2> QED
    BY <2>1, <2>3 DEF CodersTyped
<1>9. StoreTyped'
  <2>1. kvs' = kvs /\ unread' = [unread EXCEPT ![p] = ~handled]
    BY <1>2 DEF u, m
  <2> QED
    BY <1>1, <1>7, <2>1 DEF CodingInv, StoreTyped
<1>10. EnginesTyped'
  <2>1. /\ mustSend' = [mustSend EXCEPT ![p] = must]
        /\ work' = [work EXCEPT ![p] = todo]
        /\ dirty' = [dirty EXCEPT ![p] = @ /\ ~saves]
        /\ timer' = [timer EXCEPT ![p] = FALSE]
        /\ sync' = [sync EXCEPT ![p] = @ \/ handled]
    BY <1>2 DEF u, m
  <2> HIDE DEF must, todo, saves, handled
  <2> QED
    BY <1>7, <2>1 DEF CodingInv, EnginesTyped
<1>11. HistoryTyped'
  <2>1. /\ opened' = [opened EXCEPT ![p] = IF exposed THEN @ + 1 ELSE @]
        /\ seen' = [seen EXCEPT ![p] = IF news THEN m.content.made ELSE @]
        /\ UNCHANGED <<made, setback, faults>>
    BY <1>2 DEF u, m
  <2> QED
    BY <1>6, <2>1 DEF CodingInv, HistoryTyped
<1> QED
  BY <1>8, <1>9, <1>10, <1>11 DEF CodingInv

(* A process that exits has its saved coder, as it reads it.               *)
LEMMA ReadBackType ==
    ASSUME CodingInv, NEW p \in Peer, ReadBack(p)
    PROVE  /\ CodersTyped'
           /\ mustSend' \in [Peer -> BOOLEAN] /\ work' \in [Peer -> BOOLEAN]
           /\ dirty' \in [Peer -> BOOLEAN] /\ timer' \in [Peer -> BOOLEAN]
           /\ setback' = "exit" /\ faults' \in 0 .. MaxFaults
<1>1. saved[p] \in SavedStates
  BY DEF CodingInv, CodersTyped
<1>2. Loaded(saved[p].coder) \in Coders
  BY <1>1, LoadedType DEF SavedStates
<1>3. CodersTyped'
  BY <1>2 DEF ReadBack, CodingInv, CodersTyped
<1>4. faults' \in 0 .. MaxFaults
  BY FaultType DEF ReadBack, CodingInv
<1>5. /\ mustSend' \in [Peer -> BOOLEAN] /\ work' \in [Peer -> BOOLEAN]
      /\ dirty' \in [Peer -> BOOLEAN] /\ timer' \in [Peer -> BOOLEAN]
  BY <1>1 DEF ReadBack, CodingInv, EnginesTyped, SavedStates
<1> QED
  BY <1>3, <1>4, <1>5 DEF ReadBack

LEMMA ExitInv == ASSUME CodingInv, NEW p \in Peer, Exit(p) PROVE CodingInv'
<1>1. ReadBack(p) /\ UNCHANGED <<sync, wires, made, seen>>
  BY DEF Exit
<1>2. CodersTyped'
  BY <1>1, ReadBackType
<1>3. StoreTyped'
  BY <1>1 DEF wires, CodingInv, StoreTyped
<1>4. EnginesTyped'
  BY <1>1, ReadBackType DEF CodingInv, EnginesTyped
<1>5. HistoryTyped'
  BY <1>1, ReadBackType DEF wires, CodingInv, HistoryTyped
<1> QED
  BY <1>2, <1>3, <1>4, <1>5 DEF CodingInv

(* A message that is sent takes its place in the store, whether or not the *)
(* process exits before its engine is saved.                               *)
LEMMA SentInv ==
    ASSUME CodingInv, NEW p \in Peer, NEW m \in Packets, m # NoPacket, NEW c \in Coders,
           sync' \in [Peer -> BOOLEAN], UNCHANGED <<made, seen>>, Sent(p, m, c)
    PROVE  CodingInv'
<1>1. Other(p) \in Peer /\ \A q \in Peer : Other(q) = p <=> q = Other(p)
  BY OtherType
<1>2. /\ kvs' = [kvs EXCEPT ![p] = m]
      /\ unread' = [unread EXCEPT ![Other(p)] = TRUE]
      /\ opened' = [opened EXCEPT ![Other(p)] = 0]
  BY DEF Sent
<1>3. StoreTyped'
  BY <1>1, <1>2 DEF CodingInv, StoreTyped
<1>4. /\ mustSend[p] \in BOOLEAN /\ work[p] \in BOOLEAN /\ timer[p] \in BOOLEAN
  BY DEF CodingInv, EnginesTyped
<1>5. opened' \in [Peer -> Nat]
  BY <1>2 DEF CodingInv, HistoryTyped
<1>6. CASE ReadBack(p)
  BY <1>3, <1>5, <1>6, ReadBackType DEF CodingInv, EnginesTyped, HistoryTyped
<1>7. CASE /\ coder' = [coder EXCEPT ![p] = c]
           /\ SaveEngine(p, c, TRUE, mustSend[p], work[p])
           /\ NoteSent(p, m)
           /\ dirty' = [dirty EXCEPT ![p] = FALSE]
           /\ \E g \in TimerGuards :
                timer' = [timer EXCEPT ![p] = @ \/ (g /\ ~IsReady(c))]
           /\ UNCHANGED <<setback, faults>>
  <2>1. CodersTyped'
    <3>1. [coder |-> c, mustSend |-> mustSend[p], work |-> work[p]] \in SavedStates
      BY <1>4 DEF SavedStates
    <3>2. saved' \in [Peer -> SavedStates]
      BY <1>7, <3>1 DEF SaveEngine, CodingInv, CodersTyped
    <3> QED
      BY <1>7, <3>2 DEF CodingInv, CodersTyped
  <2>2. EnginesTyped'
    BY <1>4, <1>7 DEF NoteSent, CodingInv, EnginesTyped
  <2>3. HistoryTyped'
    BY <1>5, <1>7 DEF CodingInv, HistoryTyped
  <2> QED
    BY <1>3, <2>1, <2>2, <2>3 DEF CodingInv
<1> QED
  BY <1>6, <1>7 DEF Sent

LEMMA SendInv == ASSUME CodingInv, NEW p \in Peer, SendMessageIfNeeded(p) PROVE CodingInv'
<1>1. sync' \in [Peer -> BOOLEAN] /\ UNCHANGED <<made, seen>>
  BY DEF SendMessageIfNeeded, CodingInv, EnginesTyped
<1>2. coder[p] \in Coders /\ made[p] \in Nat /\ seen[p] \in Nat
  BY DEF CodingInv, CodersTyped, HistoryTyped
<1>3. CASE CanWrap(coder[p]) /\ \E kn \in FreshPairs(p), over \in Spans :
               LET content == [made |-> made[p], seen |-> seen[p]]
                   o == SignAndProtect(coder[p].session, content, kn[2], over)
               IN Sent(p, o.response, [coder[p] EXCEPT !.session = o.session])
  <2> DEFINE content == [made |-> made[p], seen |-> seen[p]]
  <2>1. PICK kn \in FreshPairs(p), over \in Spans :
          Sent(p, SignAndProtect(coder[p].session, content, kn[2], over).response,
               [coder[p] EXCEPT !.session =
                  SignAndProtect(coder[p].session, content, kn[2], over).session])
    BY <1>3
  <2> DEFINE o == SignAndProtect(coder[p].session, content, kn[2], over)
             c == [coder[p] EXCEPT !.session = o.session]
  <2>2. /\ coder[p].session \in Sessions /\ coder[p].session.state = "Done"
        /\ content \in Contents /\ kn[2] \in Key
    BY <1>2, <1>3, FreshPairsType DEF Coders, CanWrap, IsReady, Contents
  <2> HIDE DEF content
  <2>3. o.session \in Sessions /\ o.response \in DataPackets
    BY <2>2, SignAndProtectType
  <2> HIDE DEF o
  <2>4. c \in Coders /\ o.response \in Packets /\ o.response # NoPacket
    BY <1>2, <2>3, PacketsApart DEF Coders, Packets
  <2>5. Sent(p, o.response, c)
    BY <2>1 DEF o
  <2> HIDE DEF c
  <2> QED
    BY <1>1, <2>4, <2>5, SentInv
<1>4. CASE /\ coder[p].pendingResponse # NoPacket
           /\ Sent(p, coder[p].pendingResponse, [coder[p] EXCEPT !.pendingResponse = NoPacket])
  <2> DEFINE c == [coder[p] EXCEPT !.pendingResponse = NoPacket]
  <2>1. c \in Coders /\ coder[p].pendingResponse \in Packets
    BY <1>2 DEF Coders, Packets
  <2>2. Sent(p, coder[p].pendingResponse, c)
    BY <1>4
  <2> HIDE DEF c
  <2> QED
    BY <1>1, <1>4, <2>1, <2>2, SentInv
<1>5. CASE /\ SaveEngine(p, coder[p], dirty[p] \/ ~CanWrap(coder[p]), mustSend[p], work[p])
           /\ dirty' = [dirty EXCEPT ![p] = FALSE]
           /\ UNCHANGED <<coder, mustSend, work, timer, wires, setback, faults>>
  <2>1. /\ mustSend[p] \in BOOLEAN /\ work[p] \in BOOLEAN
        /\ (dirty[p] \/ ~CanWrap(coder[p])) \in BOOLEAN
    BY DEF CodingInv, EnginesTyped
  <2> DEFINE needed == dirty[p] \/ ~CanWrap(coder[p])
  <2>2. saved' \in [Peer -> SavedStates]
    <3>1. SaveEngine(p, coder[p], needed, mustSend[p], work[p]) /\ needed \in BOOLEAN
      BY <1>5, <2>1
    <3> HIDE DEF needed
    <3> QED
      BY <1>2, <2>1, <3>1, SaveType DEF CodingInv, CodersTyped
  <2>3. CodersTyped'
    BY <1>5, <2>2 DEF CodingInv, CodersTyped
  <2>4. StoreTyped'
    BY <1>5 DEF wires, CodingInv, StoreTyped
  <2>5. EnginesTyped'
    BY <1>1, <1>5 DEF CodingInv, EnginesTyped
  <2>6. HistoryTyped'
    BY <1>1, <1>5 DEF wires, CodingInv, HistoryTyped
  <2> QED
    BY <2>3, <2>4, <2>5, <2>6 DEF CodingInv
<1> QED
  BY <1>3, <1>4, <1>5 DEF SendMessageIfNeeded

LEMMA LocalChangeInv == ASSUME CodingInv, NEW p \in Peer, LocalChange(p) PROVE CodingInv'
<1>1. coder[p] \in Coders /\ mustSend[p] \in BOOLEAN /\ dirty[p] \in BOOLEAN
  BY DEF CodingInv, CodersTyped, EnginesTyped
<1>2. SaveEngine(p, coder[p], dirty[p], mustSend[p], TRUE)
  BY DEF LocalChange
<1>3. saved' \in [Peer -> SavedStates]
  <2>1. saved[p] \in SavedStates
    BY DEF CodingInv, CodersTyped
  <2>2. [coder |-> IF dirty[p] THEN coder[p] ELSE saved[p].coder,
         mustSend |-> mustSend[p], work |-> TRUE] \in SavedStates
    BY <1>1, <2>1 DEF SavedStates
  <2> QED
    BY <1>2, <2>2 DEF SaveEngine, CodingInv, CodersTyped
<1>4. CodersTyped'
  BY <1>3 DEF LocalChange, CodingInv, CodersTyped
<1>5. StoreTyped'
  BY DEF LocalChange, wires, CodingInv, StoreTyped
<1>6. EnginesTyped'
  BY DEF LocalChange, CodingInv, EnginesTyped
<1>7. HistoryTyped'
  BY DEF LocalChange, wires, CodingInv, HistoryTyped
<1> QED
  BY <1>4, <1>5, <1>6, <1>7 DEF CodingInv

LEMMA RedeliverInv == ASSUME CodingInv, NEW p \in Peer, Redeliver(p) PROVE CodingInv'
<1>1. CodersTyped'
  BY DEF Redeliver, CodingInv, CodersTyped
<1>2. StoreTyped'
  BY DEF Redeliver, CodingInv, StoreTyped
<1>3. EnginesTyped'
  BY DEF Redeliver, engines, CodingInv, EnginesTyped
<1>4. HistoryTyped'
  BY FaultType DEF Redeliver, CodingInv, HistoryTyped
<1> QED
  BY <1>1, <1>2, <1>3, <1>4 DEF CodingInv

LEMMA TimerInv == ASSUME CodingInv, NEW p \in Peer, OTRTimerFires(p) PROVE CodingInv'
<1>1. PICK kn \in FreshPairs(p) : coder' = [coder EXCEPT ![p] = Restarted(coder[p], kn)]
  BY DEF OTRTimerFires
<1>2. Restarted(coder[p], kn) \in Coders
  BY FreshPairsType, RestartedType DEF CodingInv, CodersTyped
<1>3. CodersTyped'
  BY <1>1, <1>2 DEF OTRTimerFires, CodingInv, CodersTyped
<1>4. StoreTyped'
  BY DEF OTRTimerFires, wires, CodingInv, StoreTyped
<1>5. EnginesTyped'
  BY DEF OTRTimerFires, CodingInv, EnginesTyped
<1>6. setback' \in {"none", "restart", "exit"} /\ faults' \in 0 .. MaxFaults
  BY FaultType DEF OTRTimerFires, Restart, CodingInv, HistoryTyped
<1>7. HistoryTyped'
  BY <1>6 DEF OTRTimerFires, wires, CodingInv, HistoryTyped
<1> QED
  BY <1>3, <1>4, <1>5, <1>7 DEF CodingInv

LEMMA NewCoderInv == ASSUME CodingInv, NEW p \in Peer, NewCoder(p) PROVE CodingInv'
<1>1. PICK kn \in FreshPairs(p) :
        /\ coder' = [coder EXCEPT ![p] = Started(IdleSession, kn)]
        /\ SaveEngine(p, Started(IdleSession, kn), TRUE, mustSend[p], work[p])
  BY DEF NewCoder
<1>2. Started(IdleSession, kn) \in Coders
  BY FreshPairsType, IdleType, StartedType
<1>3. mustSend[p] \in BOOLEAN /\ work[p] \in BOOLEAN
  BY DEF CodingInv, EnginesTyped
<1>4. saved' \in [Peer -> SavedStates]
  <2>1. [coder |-> Started(IdleSession, kn), mustSend |-> mustSend[p], work |-> work[p]]
          \in SavedStates
    BY <1>2, <1>3 DEF SavedStates
  <2> QED
    BY <1>1, <2>1 DEF SaveEngine, CodingInv, CodersTyped
<1>5. CodersTyped'
  BY <1>1, <1>2, <1>4 DEF CodingInv, CodersTyped
<1>6. StoreTyped'
  BY DEF NewCoder, wires, CodingInv, StoreTyped
<1>7. EnginesTyped'
  BY DEF NewCoder, CodingInv, EnginesTyped
<1>8. HistoryTyped'
  BY FaultType DEF NewCoder, Restart, wires, CodingInv, HistoryTyped
<1> QED
  BY <1>5, <1>6, <1>7, <1>8 DEF CodingInv

LEMMA CodingStepInv == CodingInv /\ [CodingNext]_codingVars => CodingInv'
<1> SUFFICES ASSUME CodingInv, [CodingNext]_codingVars PROVE CodingInv'
  OBVIOUS
<1>1. CASE CodingNext
  <2>1. PICK p \in Peer :
          \/ HandleCodedMessage(p) \/ SendMessageIfNeeded(p)
          \/ LocalChange(p) \/ Redeliver(p)
          \/ OTRTimerFires(p) \/ NewCoder(p) \/ Exit(p)
    BY <1>1 DEF CodingNext
  <2> QED
    BY <2>1, HandleInv, SendInv, LocalChangeInv, RedeliverInv, TimerInv,
       NewCoderInv, ExitInv
<1>2. CASE UNCHANGED codingVars
  BY <1>2 DEF codingVars, engines, wires, CodingInv, CodersTyped, StoreTyped,
     EnginesTyped, HistoryTyped
<1> QED
  BY <1>1, <1>2

LEMMA CodingInvariant == CodingSpec => []CodingInv
<1>1. CodingInit => CodingInv
  BY CodingInitInv
<1> QED
  BY <1>1, CodingStepInv, PTL DEF CodingSpec
-----------------------------------------------------------------------------
(* Whose keys they are.  A holds keys of this end and B keys of the other: *)
(* a session keeps the two apart, its two keys are never one, nor are the  *)
(* other end's two, and an acknowledgement it missed is not one it has.    *)

OneOf(ks) == ks \cup {NoKey}

NotBoth(s) == ~(s.missedAck /\ s.receivedAck)

KeysApart(s, A, B) ==
    /\ s.myKey \in OneOf(A) /\ s.myNextKey \in OneOf(A)
    /\ s.theirKey \in OneOf(B) /\ s.theirPreviousKey \in OneOf(B)
    /\ s.receivedDH \in OneOf(B)
    /\ s.myKey # NoKey => s.myKey # s.myNextKey
    /\ s.theirPreviousKey # NoKey => s.theirKey # s.theirPreviousKey
    /\ NotBoth(s)

(* A packet of the end whose keys are in A.                                *)
PacketApart(m, A, B) ==
    /\ m.from \in OneOf(A) /\ m.next \in OneOf(A) /\ m.to \in OneOf(B)
    /\ m.type = "Data" => m.from # m.next

(* The session would not open a packet made with the other end's key b for *)
(* this end's key a and counted n: it has dropped one of the keys, or has  *)
(* counted as far for the pair.                                            *)
Spent(s, a, b, n) ==
    \/ a \notin {s.myKey, s.myNextKey}
    \/ b \notin {s.theirKey, s.theirPreviousKey}
    \/ <<a, b>> \in DOMAIN s.keyCache /\ s.keyCache[<<a, b>>].theirs >= n

Apart(A, B) == A \subseteq Key /\ B \subseteq Key /\ A \cap B = {}

LEMMA FindKeysSpent ==
    ASSUME NEW s \in Sessions, NEW x, NEW y, NEW A, NEW B, KeysApart(s, A, B)
    PROVE  /\ KeysApart(FindKeys(s, x, y), A, B)
           /\ \A a, b, n : Spent(s, a, b, n) => Spent(FindKeys(s, x, y), a, b, n)
<1>1. s \in SessionRecords
  BY DEF Sessions
<1>2. CASE FindKeys(s, x, y) = s
  BY <1>2
<1>3. CASE FindKeys(s, x, y) # s
  <2> DEFINE P == DOMAIN s.keyCache \cup {<<x, y>>}
             kc == [p \in P |-> IF p \in DOMAIN s.keyCache THEN s.keyCache[p]
                                ELSE [mine |-> 0, theirs |-> 0]]
             t == FindKeys(s, x, y)
  <2>1. t = [s EXCEPT !.keyCache = kc]
    BY <1>3 DEF FindKeys
  <2>2. \A p \in DOMAIN s.keyCache : p \in DOMAIN kc /\ kc[p] = s.keyCache[p]
    OBVIOUS
  <2> HIDE DEF kc, t
  <2>3. /\ t.keyCache = kc /\ t.myKey = s.myKey /\ t.myNextKey = s.myNextKey
        /\ t.theirKey = s.theirKey /\ t.theirPreviousKey = s.theirPreviousKey
        /\ t.receivedDH = s.receivedDH /\ t.missedAck = s.missedAck
        /\ t.receivedAck = s.receivedAck
    BY <1>1, <2>1 DEF SessionRecords
  <2>4. KeysApart(t, A, B)
    BY <2>3 DEF KeysApart, NotBoth
  <2>5. ASSUME NEW a, NEW b, NEW n, Spent(s, a, b, n) PROVE Spent(t, a, b, n)
    BY <2>2, <2>3, <2>5 DEF Spent
  <2> QED
    BY <2>4, <2>5 DEF t
<1> QED
  BY <1>2, <1>3

(* Counting a packet of this end's, or a later one of the other's.         *)
LEMMA CountedSpent ==
    ASSUME NEW s \in Sessions, NEW pair \in DOMAIN s.keyCache, NEW counters \in Counters,
           NEW A, NEW B, KeysApart(s, A, B)
    PROVE  /\ KeysApart(Counted(s, pair, counters), A, B)
           /\ counters.theirs >= s.keyCache[pair].theirs =>
                \A a \in KeyOrNone, b \in KeyOrNone, n \in Nat :
                    Spent(s, a, b, n) => Spent(Counted(s, pair, counters), a, b, n)
           /\ \A n \in Nat : counters.theirs >= n =>
                Spent(Counted(s, pair, counters), pair[1], pair[2], n)
<1> DEFINE kc == [s.keyCache EXCEPT ![pair] = counters]
           t == Counted(s, pair, counters)
<1>1. s \in SessionRecords /\ s.keyCache \in Caches
  BY DEF Sessions, SessionRecords
<1>2. /\ s.keyCache \in [DOMAIN s.keyCache -> Counters]
      /\ pair = <<pair[1], pair[2]>>
  BY <1>1, CacheType
<1>3. /\ DOMAIN kc = DOMAIN s.keyCache /\ kc[pair] = counters
      /\ \A p \in DOMAIN s.keyCache : p # pair => kc[p] = s.keyCache[p]
  BY <1>2
<1>4. t = [s EXCEPT !.keyCache = kc]
  BY DEF Counted
<1> HIDE DEF kc, t
<1>5. /\ t.keyCache = kc /\ t.myKey = s.myKey /\ t.myNextKey = s.myNextKey
      /\ t.theirKey = s.theirKey /\ t.theirPreviousKey = s.theirPreviousKey
      /\ t.receivedDH = s.receivedDH /\ t.missedAck = s.missedAck
      /\ t.receivedAck = s.receivedAck
  BY <1>1, <1>4 DEF SessionRecords
<1>6. KeysApart(t, A, B)
  BY <1>5 DEF KeysApart, NotBoth
<1>7. ASSUME counters.theirs >= s.keyCache[pair].theirs,
             NEW a \in KeyOrNone, NEW b \in KeyOrNone, NEW n \in Nat, Spent(s, a, b, n)
      PROVE  Spent(t, a, b, n)
  <2>1. CASE <<a, b>> \in DOMAIN s.keyCache /\ s.keyCache[<<a, b>>].theirs >= n
    <3>1. s.keyCache[pair].theirs \in Nat /\ counters.theirs \in Nat
      BY <1>2 DEF Counters
    <3>2. kc[<<a, b>>].theirs >= n
      BY <1>3, <1>7, <2>1, <3>1
    <3> QED
      BY <1>3, <1>5, <2>1, <3>2 DEF Spent
  <2>2. CASE ~(<<a, b>> \in DOMAIN s.keyCache /\ s.keyCache[<<a, b>>].theirs >= n)
    BY <1>5, <1>7, <2>2 DEF Spent
  <2> QED
    BY <2>1, <2>2
<1>8. ASSUME NEW n \in Nat, counters.theirs >= n PROVE Spent(t, pair[1], pair[2], n)
  BY <1>2, <1>3, <1>5, <1>8 DEF Spent
<1> QED
  BY <1>6, <1>7, <1>8 DEF t

LEMMA WithoutKeeps ==
    ASSUME NEW kc \in Caches, NEW k, NEW p \in DOMAIN kc, k # p[1], k # p[2]
    PROVE  p \in DOMAIN Without(kc, k) /\ Without(kc, k)[p] = kc[p]
BY DEF Without

(* The key that goes away takes its pairs with it, and no others.          *)
LEMMA GenerateSpent ==
    ASSUME NEW s \in Keyed, NEW A, NEW B, Apart(A, B), KeysApart(s, A, B),
           NEW next \in A, next # s.myNextKey
    PROVE  LET t == GenerateNewProposedKey(s, next)
           IN /\ KeysApart(t, A, B) /\ t.myNextKey = next
              /\ t.missedAck = s.missedAck /\ t.receivedAck = s.receivedAck
              /\ \A a \in KeyOrNone, b \in B, n \in Nat :
                    a # next /\ Spent(s, a, b, n) => Spent(t, a, b, n)
<1> DEFINE t == GenerateNewProposedKey(s, next)
           kc == Without(s.keyCache, s.myKey)
<1>1. s \in SessionRecords /\ s \in Sessions /\ s.keyCache \in Caches
  BY DEF Keyed, Sessions, SessionRecords
<1>2. s.myKey \in A /\ s.myNextKey \in A /\ s.myKey # s.myNextKey /\ next # NoKey
  BY DEF Keyed, Sessions, HasItsKeys, KeysApart, OneOf, Apart
<1>3. t = [s EXCEPT !.keyCache = kc, !.myKey = s.myNextKey, !.myNextKey = next,
                    !.keyID = s.keyID + 1]
  BY DEF GenerateNewProposedKey
<1> HIDE DEF kc, t
<1>4. /\ t.keyCache = kc /\ t.myKey = s.myNextKey /\ t.myNextKey = next
      /\ t.theirKey = s.theirKey /\ t.theirPreviousKey = s.theirPreviousKey
      /\ t.receivedDH = s.receivedDH /\ t.missedAck = s.missedAck
      /\ t.receivedAck = s.receivedAck
  BY <1>1, <1>3 DEF SessionRecords
<1>5. KeysApart(t, A, B)
  BY <1>2, <1>4 DEF KeysApart, NotBoth, OneOf
<1>6. ASSUME NEW a \in KeyOrNone, NEW b \in B, NEW n \in Nat, a # next, Spent(s, a, b, n)
      PROVE  Spent(t, a, b, n)
  <2>1. CASE a \notin {s.myKey, s.myNextKey} \/ b \notin {s.theirKey, s.theirPreviousKey}
    BY <1>4, <1>6, <2>1 DEF Spent
  <2>2. CASE a = s.myKey
    BY <1>2, <1>4, <1>6, <2>2 DEF Spent
  <2>3. CASE /\ a = s.myNextKey
             /\ <<a, b>> \in DOMAIN s.keyCache /\ s.keyCache[<<a, b>>].theirs >= n
    <3>1. s.myKey # a /\ s.myKey # b
      BY <1>2, <2>3 DEF Apart
    <3>2. <<a, b>> \in DOMAIN kc /\ kc[<<a, b>>] = s.keyCache[<<a, b>>]
      BY <1>1, <2>3, <3>1, WithoutKeeps DEF kc
    <3> QED
      BY <1>4, <2>3, <3>2 DEF Spent
  <2> QED
    BY <1>6, <2>1, <2>2, <2>3 DEF Spent
<1> QED
  BY <1>4, <1>5, <1>6 DEF t

(* Sessions that differ in nothing but their flags.                        *)
SameKeys(t, s) ==
    /\ t.keyCache = s.keyCache /\ t.myKey = s.myKey /\ t.myNextKey = s.myNextKey
    /\ t.theirKey = s.theirKey /\ t.theirPreviousKey = s.theirPreviousKey
    /\ t.receivedDH = s.receivedDH

LEMMA FlagsSpent ==
    ASSUME NEW s, NEW t, NEW A, NEW B, KeysApart(s, A, B), SameKeys(t, s), NotBoth(t)
    PROVE  KeysApart(t, A, B) /\ \A x, y, n : Spent(s, x, y, n) => Spent(t, x, y, n)
BY DEF SameKeys, KeysApart, Spent

LEMMA RollSpent ==
    ASSUME NEW s \in Keyed, NEW A, NEW B, Apart(A, B), KeysApart(s, A, B),
           NEW next \in A, s.receivedAck => next # s.myNextKey
    PROVE  /\ KeysApart(Roll(s, next), A, B)
           /\ \A a \in KeyOrNone, b \in B, n \in Nat :
                a # next /\ Spent(s, a, b, n) => Spent(Roll(s, next), a, b, n)
<1> DEFINE going == [s EXCEPT !.stallingTheirRoll = FALSE, !.timeToRoll = FALSE]
           r == Roll(s, next)
<1>1. s \in SessionRecords /\ s \in Sessions /\ next \in Key /\ NotBoth(s)
  BY DEF Keyed, Sessions, Apart, KeysApart
<1>2. /\ going = [s EXCEPT !.stallingTheirRoll = FALSE, !.timeToRoll = FALSE,
                           !.missedAck = s.missedAck, !.receivedAck = s.receivedAck]
      /\ s.missedAck \in BOOLEAN /\ s.receivedAck \in BOOLEAN
  BY <1>1 DEF SessionRecords
<1>3. going \in Keyed
  BY <1>2, FlagsType
<1>4. SameKeys(going, s) /\ NotBoth(going) /\ going.myNextKey = s.myNextKey
  BY <1>1 DEF SessionRecords, SameKeys, NotBoth
<1>5. KeysApart(going, A, B) /\ \A a, b, n : Spent(s, a, b, n) => Spent(going, a, b, n)
  BY <1>4, FlagsSpent
<1> HIDE DEF going
<1>6. CASE s.receivedAck
  <2> DEFINE g == GenerateNewProposedKey(going, next)
             t == [g EXCEPT !.missedAck = FALSE, !.receivedAck = FALSE]
  <2>1. /\ KeysApart(g, A, B)
        /\ \A a \in KeyOrNone, b \in B, n \in Nat :
             a # next /\ Spent(going, a, b, n) => Spent(g, a, b, n)
    BY <1>3, <1>4, <1>5, <1>6, GenerateSpent
  <2>2. g \in SessionRecords
    BY <1>1, <1>3, GenerateType DEF Keyed, Sessions
  <2>3. r = t
    BY <1>6 DEF Roll, going
  <2> HIDE DEF g, r
  <2>4. SameKeys(t, g) /\ NotBoth(t)
    BY <2>2 DEF SessionRecords, SameKeys, NotBoth
  <2> HIDE DEF t
  <2>5. KeysApart(t, A, B) /\ \A a, b, n : Spent(g, a, b, n) => Spent(t, a, b, n)
    BY <2>1, <2>4, FlagsSpent
  <2>6. \A a \in KeyOrNone, b \in B, n \in Nat : a # next /\ Spent(s, a, b, n) => Spent(t, a, b, n)
    BY <1>5, <2>1, <2>5
  <2> QED
    BY <2>3, <2>5, <2>6 DEF r
<1>7. CASE ~s.receivedAck
  <2> DEFINE t == [going EXCEPT !.missedAck = TRUE]
  <2>1. r = t
    BY <1>7 DEF Roll, going
  <2>2. ~going.receivedAck /\ going \in SessionRecords
    BY <1>1, <1>3, <1>7 DEF going, SessionRecords, Keyed, Sessions
  <2>3. SameKeys(t, going) /\ NotBoth(t)
    BY <2>2 DEF SessionRecords, SameKeys, NotBoth
  <2> HIDE DEF t, r
  <2>4. KeysApart(t, A, B) /\ \A a, b, n : Spent(going, a, b, n) => Spent(t, a, b, n)
    BY <1>5, <2>3, FlagsSpent
  <2> QED
    BY <1>5, <2>1, <2>4 DEF r
<1> QED
  BY <1>6, <1>7

LEMMA RollIfTimeSpent ==
    ASSUME NEW s \in Keyed, NEW A, NEW B, Apart(A, B), KeysApart(s, A, B),
           NEW next \in A, s.receivedAck => next # s.myNextKey, NEW over
    PROVE  /\ KeysApart(RollIfTime(s, next, over), A, B)
           /\ \A a \in KeyOrNone, b \in B, n \in Nat :
                a # next /\ Spent(s, a, b, n) => Spent(RollIfTime(s, next, over), a, b, n)
BY RollSpent DEF RollIfTime

(* One packet makes this end draw one key: an acknowledgement that was     *)
(* missed is made good at once, another waits for the next roll.           *)
LEMMA AcknowledgeSpent ==
    ASSUME NEW s \in Keyed, NEW A, NEW B, Apart(A, B), KeysApart(s, A, B),
           NEW next \in A, next # s.myNextKey
    PROVE  LET t == HandleProposalAcknowledge(s, next)
           IN /\ KeysApart(t, A, B) /\ (t.receivedAck => next # t.myNextKey)
              /\ \A a \in KeyOrNone, b \in B, n \in Nat :
                    a # next /\ Spent(s, a, b, n) => Spent(t, a, b, n)
<1> DEFINE t == HandleProposalAcknowledge(s, next)
<1>1. s \in SessionRecords /\ next \in Key /\ NotBoth(s)
  BY DEF Keyed, Sessions, Apart, KeysApart
<1>2. CASE s.missedAck
  <2> DEFINE g == GenerateNewProposedKey(s, next)
  <2>1. /\ KeysApart(g, A, B) /\ g.receivedAck = s.receivedAck
        /\ \A a \in KeyOrNone, b \in B, n \in Nat :
             a # next /\ Spent(s, a, b, n) => Spent(g, a, b, n)
    BY GenerateSpent
  <2>2. g \in SessionRecords
    BY <1>1, GenerateType DEF Keyed, Sessions
  <2>3. t = [g EXCEPT !.missedAck = FALSE]
    BY <1>2 DEF HandleProposalAcknowledge
  <2>4. ~g.receivedAck
    BY <1>1, <1>2, <2>1 DEF NotBoth
  <2> HIDE DEF g, t
  <2>5. SameKeys(t, g) /\ NotBoth(t) /\ ~t.receivedAck
    BY <2>2, <2>3, <2>4 DEF SessionRecords, SameKeys, NotBoth
  <2>6. KeysApart(t, A, B) /\ \A a, b, n : Spent(g, a, b, n) => Spent(t, a, b, n)
    BY <2>1, <2>5, FlagsSpent
  <2> QED
    BY <2>1, <2>5, <2>6 DEF t
<1>3. CASE ~s.missedAck
  <2>1. t = [s EXCEPT !.receivedAck = TRUE, !.timeToRoll = SlowRoll]
    BY <1>3 DEF HandleProposalAcknowledge
  <2> HIDE DEF t
  <2>2. SameKeys(t, s) /\ NotBoth(t)
    BY <1>1, <1>3, <2>1 DEF SessionRecords, SameKeys, NotBoth
  <2>3. KeysApart(t, A, B) /\ \A a, b, n : Spent(s, a, b, n) => Spent(t, a, b, n)
    BY <2>2, FlagsSpent
  <2> QED
    BY <2>2, <2>3 DEF t, SameKeys
<1> QED
  BY <1>2, <1>3

(* The pairs of the key that is now the previous one stay, counters and    *)
(* all.                                                                    *)
LEMMA AcceptSpent ==
    ASSUME NEW s \in Keyed, NEW A, NEW B, Apart(A, B), KeysApart(s, A, B),
           s.theirKey # NoKey, NEW k \in B, k # s.theirKey
    PROVE  LET t == AcceptNewRemoteKey(s, k)
           IN /\ KeysApart(t, A, B) /\ t.myNextKey = s.myNextKey
              /\ \A a \in A, n \in Nat :
                    /\ <<a, s.theirKey>> \in DOMAIN s.keyCache
                    /\ s.keyCache[<<a, s.theirKey>>].theirs >= n
                    => Spent(t, a, s.theirKey, n)
<1> DEFINE t == AcceptNewRemoteKey(s, k)
           kc == IF s.theirPreviousKey = NoKey THEN s.keyCache
                 ELSE Without(s.keyCache, s.theirPreviousKey)
<1>1. s \in SessionRecords /\ s \in Sessions /\ s.keyCache \in Caches
  BY DEF Keyed, Sessions, SessionRecords
<1>2. s.theirKey \in B /\ k # NoKey /\ s.theirPreviousKey \in OneOf(B)
  BY DEF KeysApart, OneOf, Apart
<1>3. t = [s EXCEPT !.keyCache = kc, !.theirPreviousKey = s.theirKey, !.theirKey = k,
                    !.stallingTheirRoll = TRUE, !.theirKeyID = s.theirKeyID + 1,
                    !.timeToRoll = SlowRoll]
  BY DEF AcceptNewRemoteKey
<1>4. ASSUME NEW a \in A, <<a, s.theirKey>> \in DOMAIN s.keyCache
      PROVE  <<a, s.theirKey>> \in DOMAIN kc
             /\ kc[<<a, s.theirKey>>] = s.keyCache[<<a, s.theirKey>>]
  <2>1. CASE s.theirPreviousKey = NoKey
    BY <1>4, <2>1
  <2>2. CASE s.theirPreviousKey # NoKey
    <3>1. s.theirPreviousKey # a /\ s.theirPreviousKey # s.theirKey
      BY <1>2, <2>2 DEF KeysApart, OneOf, Apart
    <3>2. kc = Without(s.keyCache, s.theirPreviousKey)
      BY <2>2
    <3> HIDE DEF kc
    <3> QED
      BY <1>1, <1>4, <3>1, <3>2, WithoutKeeps
  <2> QED
    BY <2>1, <2>2
<1> HIDE DEF kc, t
<1>5. /\ t.keyCache = kc /\ t.myKey = s.myKey /\ t.myNextKey = s.myNextKey
      /\ t.theirKey = k /\ t.theirPreviousKey = s.theirKey
      /\ t.receivedDH = s.receivedDH /\ t.missedAck = s.missedAck
      /\ t.receivedAck = s.receivedAck
  BY <1>1, <1>3 DEF SessionRecords
<1>6. KeysApart(t, A, B)
  BY <1>2, <1>5 DEF KeysApart, NotBoth, OneOf
<1>7. ASSUME NEW a \in A, NEW n \in Nat, <<a, s.theirKey>> \in DOMAIN s.keyCache,
             s.keyCache[<<a, s.theirKey>>].theirs >= n
      PROVE  Spent(t, a, s.theirKey, n)
  BY <1>4, <1>5, <1>7 DEF Spent
<1> QED
  BY <1>5, <1>6, <1>7 DEF t

(* What it sends takes nothing back, and shows its two keys.               *)
LEMMA SignAndProtectSpent ==
    ASSUME NEW s \in Sessions, s.state = "Done", NEW A, NEW B, Apart(A, B),
           KeysApart(s, A, B), NEW content \in Contents,
           NEW next \in A, next # s.myNextKey, NEW over
    PROVE  LET o == SignAndProtect(s, content, next, over)
           IN /\ KeysApart(o.session, A, B) /\ PacketApart(o.response, A, B)
              /\ \A a \in KeyOrNone, b \in B, n \in Nat :
                    a # next /\ Spent(s, a, b, n) => Spent(o.session, a, b, n)
<1> DEFINE rolled == RollIfTime(s, next, over)
           stalling == rolled.stallingTheirRoll /\ rolled.theirPreviousKey # NoKey
           theirs == IF stalling THEN rolled.theirPreviousKey ELSE s.theirKey
           pair == <<rolled.myKey, theirs>>
           found == FindKeys(rolled, rolled.myKey, theirs)
           sent == [found EXCEPT !.keyCache[pair].mine = @ + 1]
           packet == [type |-> "Data", from |-> sent.myKey, to |-> theirs,
                      keyID |-> sent.keyID,
                      theirKeyID |-> IF stalling THEN s.theirKeyID - 1 ELSE s.theirKeyID,
                      next |-> sent.myNextKey, counter |-> sent.keyCache[pair].mine,
                      content |-> content]
<1>1. SignAndProtect(s, content, next, over) = Outcome(sent, "success", packet)
  BY DEF SignAndProtect
<1>2. s \in Keyed /\ s.theirKey # NoKey /\ next \in Key
  BY DEF Keyed, Sessions, HasItsKeys, Apart
<1>3. rolled \in Keyed /\ SameOtherEnd(rolled, s)
  BY <1>2, RollIfTimeType
<1>4. /\ KeysApart(rolled, A, B)
      /\ \A a \in KeyOrNone, b \in B, n \in Nat :
            a # next /\ Spent(s, a, b, n) => Spent(rolled, a, b, n)
  BY <1>2, RollIfTimeSpent
<1> HIDE DEF rolled
<1>5. /\ rolled \in Sessions /\ rolled.myKey # NoKey /\ theirs # NoKey
      /\ rolled.myKey \in {rolled.myKey, rolled.myNextKey}
      /\ theirs \in {rolled.theirKey, rolled.theirPreviousKey}
  BY <1>2, <1>3 DEF Keyed, SameOtherEnd
<1>6. theirs \in OneOf(B)
  BY <1>4, <1>5 DEF KeysApart
<1> HIDE DEF stalling
<1>7. found \in Sessions /\ pair \in DOMAIN found.keyCache
  BY <1>5, FindKeysType
<1>8. /\ KeysApart(found, A, B)
      /\ \A a, b, n : Spent(rolled, a, b, n) => Spent(found, a, b, n)
  BY <1>4, <1>5, FindKeysSpent
<1>9. found.myKey # NoKey
  BY <1>5, FindKeysType DEF SameButCache
<1> HIDE DEF theirs, found
<1> DEFINE counters == [found.keyCache[pair] EXCEPT !.mine = @ + 1]
<1>10. found.keyCache[pair] \in Counters
  BY <1>7, PairCounters
<1>11. counters \in Counters /\ counters.theirs >= found.keyCache[pair].theirs
  BY <1>10 DEF Counters
<1>12. sent = Counted(found, pair, counters)
  BY DEF Counted
<1> HIDE DEF pair, counters, sent
<1>13. /\ KeysApart(sent, A, B)
       /\ \A a \in KeyOrNone, b \in KeyOrNone, n \in Nat :
            Spent(found, a, b, n) => Spent(sent, a, b, n)
  BY <1>7, <1>8, <1>11, <1>12, CountedSpent
<1>14. sent.myKey # NoKey
  BY <1>7, <1>9, <1>11, <1>12, CountedType DEF SameButCache
<1>15. PacketApart(packet, A, B)
  BY <1>6, <1>13, <1>14 DEF PacketApart, KeysApart
<1>16. ASSUME NEW a \in KeyOrNone, NEW b \in B, NEW n \in Nat, a # next, Spent(s, a, b, n)
       PROVE  Spent(sent, a, b, n)
  BY <1>4, <1>8, <1>13, <1>16 DEF Apart, KeyOrNone
<1> QED
  BY <1>1, <1>13, <1>15, <1>16 DEF Outcome

(* Once a packet has been opened the session would not open it again, and  *)
(* it opens no packet that is spent: whatever keys it accepts and draws,   *)
(* the counters of the pair stay until one of the two keys goes.           *)
LEMMA VerifyAndExposeSpent ==
    ASSUME NEW s \in Sessions, s.state = "Done", NEW A, NEW B, Apart(A, B),
           KeysApart(s, A, B), NEW m \in DataPackets, PacketApart(m, B, A),
           NEW next \in A, next # s.myNextKey, next # m.to, NEW over
    PROVE  LET v == VerifyAndExpose(s, m, next, over)
           IN /\ KeysApart(v.session, A, B)
              /\ v.status = "success" => ~Spent(s, m.to, m.from, m.counter)
              /\ \/ v.status = "success"
                 \/ Spent(s, m.to, m.from, m.counter)
                 => Spent(v.session, m.to, m.from, m.counter)
<1> DEFINE mine == IF m.theirKeyID = s.keyID THEN s.myKey ELSE s.myNextKey
           theirs == IF m.keyID = s.theirKeyID THEN s.theirKey ELSE s.theirPreviousKey
           found == FindKeys(s, mine, theirs)
           pair == <<mine, theirs>>
           counted == [found EXCEPT !.keyCache[pair].theirs = m.counter]
           accepted == IF m.keyID = s.theirKeyID THEN AcceptNewRemoteKey(counted, m.next)
                       ELSE counted
           acked == IF m.theirKeyID = s.keyID + 1
                    THEN HandleProposalAcknowledge(accepted, next) ELSE accepted
           rolled == RollIfTime(acked, next, over)
           last == FindKeys(rolled, rolled.myKey, rolled.theirKey)
           v == VerifyAndExpose(s, m, next, over)
           opens == /\ KnowsTheirID(s, m.keyID) /\ KnowsMyID(s, m.theirKeyID)
                    /\ ~(m.counter <= found.keyCache[pair].theirs)
                    /\ <<m.to, m.from>> = pair
<1>1. /\ s.myKey # NoKey /\ s.myNextKey # NoKey /\ s.theirKey # NoKey
      /\ m.counter \in Nat /\ m.next \in B /\ m.next # m.from /\ next \in Key
  BY DEF Sessions, HasItsKeys, DataPackets, PacketRecords, PacketApart, OneOf, Apart
<1>2. mine \in {s.myKey, s.myNextKey} /\ theirs \in {s.theirKey, s.theirPreviousKey}
  OBVIOUS
<1>3. found \in Sessions /\ SameButCache(found, s)
  BY <1>2, FindKeysType
<1>4. /\ KeysApart(found, A, B)
      /\ \A a, b, n : Spent(s, a, b, n) => Spent(found, a, b, n)
  BY FindKeysSpent
<1>5. CASE ~opens
  <2>1. v.status # "success" /\ v.session \in {s, found}
    <3>1. CASE ~KnowsTheirID(s, m.keyID)
      BY <3>1 DEF VerifyAndExpose, Outcome
    <3>2. CASE KnowsTheirID(s, m.keyID) /\ ~KnowsMyID(s, m.theirKeyID)
      BY <3>2 DEF VerifyAndExpose, Outcome
    <3>3. CASE /\ KnowsTheirID(s, m.keyID) /\ KnowsMyID(s, m.theirKeyID)
               /\ m.counter <= found.keyCache[pair].theirs
      BY <3>3 DEF VerifyAndExpose, Outcome
    <3>4. CASE /\ KnowsTheirID(s, m.keyID) /\ KnowsMyID(s, m.theirKeyID)
               /\ ~(m.counter <= found.keyCache[pair].theirs)
               /\ <<m.to, m.from>> # pair
      <4>1. pair \in DOMAIN found.keyCache
        <5>1. mine # NoKey /\ theirs # NoKey
          BY <1>1, <3>4 DEF KnowsTheirID, Sessions, SessionRecords
        <5> QED
          BY <1>2, <5>1, FindKeysType
      <4>2. found.keyCache[pair].theirs \in Nat
        BY <1>3, <4>1, PairCounters DEF Counters
      <4>3. m.counter > found.keyCache[pair].theirs
        BY <1>1, <3>4, <4>2
      <4> QED
        BY <3>4, <4>3 DEF VerifyAndExpose, Outcome
    <3> QED
      BY <1>5, <3>1, <3>2, <3>3, <3>4
  <2> HIDE DEF v, found, opens
  <2> QED
    BY <1>4, <2>1 DEF v
<1>6. CASE opens
  <2>1. mine # NoKey /\ theirs # NoKey
    BY <1>1, <1>6 DEF KnowsTheirID, Sessions, SessionRecords
  <2>2. pair \in DOMAIN found.keyCache
    BY <1>2, <2>1, FindKeysType
  <2>3. found.keyCache[pair] \in Counters /\ found.keyCache[pair].theirs \in Nat
    BY <1>3, <2>2, PairCounters DEF Counters
  <2>4. v.session = last /\ v.status = "success"
    BY <1>6 DEF VerifyAndExpose, Outcome
  <2>5. m.to = mine /\ m.from = theirs
    BY <1>6
  <2>6. /\ m.to \in KeyOrNone /\ m.to \in A /\ m.from \in KeyOrNone /\ m.from \in B
        /\ m.to \in {s.myKey, s.myNextKey} /\ m.from \in {s.theirKey, s.theirPreviousKey}
    BY <1>2, <2>1, <2>5 DEF KeysApart, OneOf, Apart, KeyOrNone
  <2>7. ~Spent(s, m.to, m.from, m.counter)
    <3> SUFFICES ASSUME Spent(s, m.to, m.from, m.counter) PROVE FALSE
      OBVIOUS
    <3>1. Spent(found, m.to, m.from, m.counter)
      BY <1>4
    <3>2. found.keyCache[pair].theirs >= m.counter
      BY <1>3, <1>6, <2>6, <3>1 DEF Spent, SameButCache
    <3> QED
      BY <1>1, <1>6, <2>3, <3>2
  <2> DEFINE counters == [found.keyCache[pair] EXCEPT !.theirs = m.counter]
  <2>8. counters \in Counters /\ counters.theirs = m.counter
        /\ counted = Counted(found, pair, counters)
    BY <1>1, <2>3 DEF Counted, Counters
  <2> HIDE DEF v, found, counters, opens
  <2>9. pair[1] = m.to /\ pair[2] = m.from /\ pair = <<m.to, m.from>>
    BY <2>5
  <2>10. /\ m.keyID = s.theirKeyID => m.from = s.theirKey
         /\ m.theirKeyID = s.keyID + 1 => m.to = s.myNextKey
    BY <2>5 DEF Sessions, SessionRecords
  <2> HIDE DEF pair, mine, theirs, counted
  <2>11. /\ counted \in Sessions /\ SameButCache(counted, found)
         /\ counted.keyCache[pair] = counters
    BY <1>3, <2>2, <2>8, CountedType
  <2>12. /\ KeysApart(counted, A, B)
         /\ Spent(counted, m.to, m.from, m.counter)
    <3>1. KeysApart(counted, A, B)
      BY <1>3, <1>4, <2>2, <2>8, CountedSpent
    <3>2. counters.theirs >= m.counter
      BY <1>1, <2>8
    <3> QED
      BY <1>1, <1>3, <1>4, <2>2, <2>6, <2>8, <2>9, <3>1, <3>2, CountedSpent
  <2>13. /\ counted \in Keyed /\ counted.state = "Done"
         /\ counted.theirKey = s.theirKey /\ counted.theirPreviousKey = s.theirPreviousKey
         /\ counted.myKey = s.myKey /\ counted.myNextKey = s.myNextKey
    BY <1>1, <1>3, <2>11 DEF SameButCache, Keyed
  <2>14. /\ accepted \in Keyed /\ KeysApart(accepted, A, B)
         /\ accepted.myNextKey = s.myNextKey
         /\ Spent(accepted, m.to, m.from, m.counter)
    <3>1. CASE m.keyID = s.theirKeyID
      <4>1. m.next \in Key /\ m.next # counted.theirKey /\ counted.theirKey # NoKey
            /\ m.from = counted.theirKey
        BY <1>1, <2>10, <2>13, <3>1 DEF Apart
      <4>2. /\ <<m.to, m.from>> \in DOMAIN counted.keyCache
            /\ counted.keyCache[<<m.to, m.from>>].theirs >= m.counter
        BY <2>6, <2>12, <2>13 DEF Spent
      <4>3. accepted = AcceptNewRemoteKey(counted, m.next)
        BY <3>1
      <4> HIDE DEF accepted
      <4>4. accepted \in Keyed
        BY <2>13, <4>1, <4>3, AcceptType
      <4> QED
        BY <1>1, <2>6, <2>12, <2>13, <4>1, <4>2, <4>3, <4>4, AcceptSpent
    <3>2. CASE m.keyID # s.theirKeyID
      BY <2>12, <2>13, <3>2
    <3> QED
      BY <3>1, <3>2
  <2> HIDE DEF accepted
  <2>15. /\ acked \in Keyed /\ KeysApart(acked, A, B)
         /\ (acked.receivedAck => next # acked.myNextKey)
         /\ Spent(acked, m.to, m.from, m.counter)
    <3>1. CASE m.theirKeyID = s.keyID + 1
      <4>1. acked = HandleProposalAcknowledge(accepted, next)
        BY <3>1
      <4> HIDE DEF acked
      <4>2. acked \in Keyed
        BY <1>1, <2>14, <4>1, AcknowledgeType
      <4> QED
        BY <1>1, <2>6, <2>14, <4>1, <4>2, AcknowledgeSpent
    <3>2. CASE m.theirKeyID # s.keyID + 1
      BY <2>14, <3>2
    <3> QED
      BY <3>1, <3>2
  <2> HIDE DEF acked
  <2>16. /\ rolled \in Keyed /\ KeysApart(rolled, A, B)
         /\ Spent(rolled, m.to, m.from, m.counter)
    <3>1. rolled \in Keyed
      BY <1>1, <2>15, RollIfTimeType
    <3>2. /\ KeysApart(rolled, A, B)
          /\ \A a \in KeyOrNone, b \in B, n \in Nat :
               a # next /\ Spent(acked, a, b, n) => Spent(rolled, a, b, n)
      BY <2>15, RollIfTimeSpent
    <3> HIDE DEF rolled
    <3> QED
      BY <1>1, <2>6, <2>15, <3>1, <3>2
  <2> HIDE DEF rolled
  <2>17. KeysApart(last, A, B) /\ Spent(last, m.to, m.from, m.counter)
    BY <2>16, FindKeysSpent DEF Keyed
  <2> HIDE DEF last
  <2> QED
    BY <2>4, <2>7, <2>17 DEF v
<1> QED
  BY <1>5, <1>6

(* A negotiation keeps the two ends' keys apart: each end learns the keys  *)
(* of the other from the packets of the other.                             *)
OutcomeApart(o, A, B) == KeysApart(o.session, A, B) /\ PacketApart(o.response, A, B)

LEMMA MessagesApart ==
    ASSUME NEW s, NEW A, NEW B, KeysApart(s, A, B)
    PROVE  /\ PacketApart(NoPacket, A, B)
           /\ PacketApart(DHMessage(s), A, B) /\ PacketApart(DHKeyMessage(s), A, B)
           /\ PacketApart(RevealSignatureMessage(s), A, B)
           /\ PacketApart(SignatureMessage(s), A, B)
<1>1. s.myKey \in OneOf(A) /\ s.theirKey \in OneOf(B) /\ NoKey \in OneOf(A) /\ NoKey \in OneOf(B)
  BY DEF KeysApart, OneOf
<1>2. ASSUME NEW type, type # "Data", NEW to \in OneOf(B), NEW id
      PROVE  PacketApart(NegotiationPacket(type, s.myKey, to, id), A, B)
  BY <1>1, <1>2 DEF NegotiationPacket, NoPacket, PacketApart
<1>3. PacketApart(NoPacket, A, B)
  BY <1>1 DEF NoPacket, PacketApart
<1> QED
  BY <1>1, <1>2, <1>3 DEF DHMessage, DHKeyMessage, RevealSignatureMessage, SignatureMessage

LEMMA InitKeysApart ==
    ASSUME NEW s \in Sessions, NEW A, NEW B, KeysApart(s, A, B), NEW k \in A,
           NEW next \in A, k # next
    PROVE  KeysApart(InitMyDHKeys(s, k, next), A, B)
<1> DEFINE t == InitMyDHKeys(s, k, next)
<1>1. s \in SessionRecords
  BY DEF Sessions
<1>2. /\ t.myKey = k /\ t.myNextKey = next /\ NotBoth(t)
      /\ t.theirKey = s.theirKey /\ t.theirPreviousKey = s.theirPreviousKey
      /\ t.receivedDH = s.receivedDH
  BY <1>1 DEF InitMyDHKeys, SessionRecords, NotBoth
<1> HIDE DEF t
<1>3. KeysApart(t, A, B)
  BY <1>2 DEF KeysApart, OneOf
<1> QED
  BY <1>3 DEF t

LEMMA RemoteKeyApart ==
    ASSUME NEW s \in Sessions, NEW A, NEW B, KeysApart(s, A, B), NEW k \in OneOf(B)
    PROVE  KeysApart(SetupInitialRemoteKey(s, k), A, B)
<1> DEFINE t == SetupInitialRemoteKey(s, k)
<1>1. s \in SessionRecords
  BY DEF Sessions
<1>2. /\ t.myKey = s.myKey /\ t.myNextKey = s.myNextKey
      /\ t.theirKey = k /\ t.theirPreviousKey = NoKey /\ t.receivedDH = s.receivedDH
      /\ t.missedAck = s.missedAck /\ t.receivedAck = s.receivedAck
  BY <1>1 DEF SetupInitialRemoteKey, SessionRecords
<1> HIDE DEF t
<1>3. KeysApart(t, A, B)
  BY <1>2 DEF KeysApart, NotBoth, OneOf
<1> QED
  BY <1>3 DEF t

LEMMA MovedApart ==
    ASSUME NEW s \in Sessions, NEW A, NEW B, KeysApart(s, A, B), NEW st, NEW dh \in OneOf(B),
           NEW dhKey, NEW id
    PROVE  KeysApart(Moved(s, st, dh, dhKey, id), A, B)
<1> DEFINE t == Moved(s, st, dh, dhKey, id)
<1>1. s \in SessionRecords
  BY DEF Sessions
<1>2. /\ t.myKey = s.myKey /\ t.myNextKey = s.myNextKey
      /\ t.theirKey = s.theirKey /\ t.theirPreviousKey = s.theirPreviousKey
      /\ t.receivedDH = dh /\ t.missedAck = s.missedAck /\ t.receivedAck = s.receivedAck
  BY <1>1 DEF Moved, SessionRecords
<1> HIDE DEF t
<1>3. KeysApart(t, A, B)
  BY <1>2 DEF KeysApart, NotBoth
<1> QED
  BY <1>3 DEF t

LEMMA IdleApart == ASSUME NEW A, NEW B PROVE KeysApart(IdleSession, A, B)
BY DEF IdleSession, KeysApart, NotBoth, OneOf

LEMMA ResetApart ==
    ASSUME NEW s \in Sessions, NEW A, NEW B, KeysApart(s, A, B) PROVE KeysApart(Reset(s), A, B)
<1> DEFINE t == Reset(s)
<1>1. s \in SessionRecords
  BY DEF Sessions
<1>2. /\ t.myKey = NoKey /\ t.myNextKey = NoKey
      /\ t.theirKey = NoKey /\ t.theirPreviousKey = NoKey /\ t.receivedDH = NoKey
      /\ t.missedAck = s.missedAck /\ t.receivedAck = s.receivedAck
  BY <1>1 DEF Reset, IdleSession, SessionRecords
<1> HIDE DEF t
<1>3. KeysApart(t, A, B)
  BY <1>2 DEF KeysApart, NotBoth, OneOf
<1> QED
  BY <1>3 DEF t

LEMMA StartApart ==
    ASSUME NEW s \in Sessions, NEW A, NEW B, Apart(A, B), KeysApart(s, A, B), NEW k \in A,
           NEW next \in A, k # next
    PROVE  /\ OutcomeApart(AppendStartPacket(s, k, next), A, B)
           /\ AppendStartPacket(s, k, next).session.state = "AwaitingDHKey"
<1> DEFINE i == InitMyDHKeys(s, k, next)
           t == [i EXCEPT !.state = "AwaitingDHKey"]
<1>1. i \in Sessions /\ i \in SessionRecords /\ KeysApart(i, A, B)
  BY InitKeysType, InitKeysApart DEF Keyed, Sessions, Apart
<1>2. AppendStartPacket(s, k, next) = Outcome(t, "success", DHMessage(t))
  BY DEF AppendStartPacket
<1> HIDE DEF i
<1>3. t = Moved(i, "AwaitingDHKey", i.receivedDH, i.receivedDHKey, i.theirKeyID)
      /\ t.state = "AwaitingDHKey"
  BY <1>1 DEF Moved, SessionRecords
<1> HIDE DEF t
<1>4. KeysApart(t, A, B)
  BY <1>1, <1>3, MovedApart DEF KeysApart
<1> QED
  BY <1>2, <1>3, <1>4, MessagesApart DEF OutcomeApart, Outcome

LEMMA RestartApart ==
    ASSUME NEW s \in Sessions, NEW A, NEW B, KeysApart(s, A, B)
    PROVE  /\ OutcomeApart(AppendRestartPacket(s), A, B)
           /\ AppendRestartPacket(s).session.state \in {s.state, "AwaitingDHKey"}
<1>1. CASE s.myKey = NoKey
  BY <1>1, MessagesApart DEF AppendRestartPacket, Outcome, OutcomeApart
<1>2. CASE s.myKey # NoKey
  <2> DEFINE t == [s EXCEPT !.state = "AwaitingDHKey", !.receivedDH = NoKey,
                            !.receivedDHKey = NoKey]
  <2>1. AppendRestartPacket(s) = Outcome(t, "success", DHMessage(s))
    BY <1>2 DEF AppendRestartPacket
  <2>2. t = Moved(s, "AwaitingDHKey", NoKey, NoKey, s.theirKeyID)
        /\ t.state = "AwaitingDHKey"
    BY DEF Moved, Sessions, SessionRecords
  <2> HIDE DEF t
  <2>3. KeysApart(t, A, B)
    BY <2>2, MovedApart DEF OneOf
  <2> QED
    BY <2>1, <2>2, <2>3, MessagesApart DEF OutcomeApart, Outcome
<1> QED
  BY <1>1, <1>2

LEMMA ProcessPacketApart ==
    ASSUME NEW s \in Sessions, NEW A, NEW B, Apart(A, B), KeysApart(s, A, B),
           NEW m \in Negotiations, PacketApart(m, B, A),
           NEW k \in A, NEW next \in A, k # next
    PROVE  OutcomeApart(ProcessPacket(s, m, k, next), A, B)
<1>1. /\ s \in SessionRecords /\ m.from \in Key /\ m.from \in OneOf(B)
      /\ k \in Key /\ next \in Key /\ NoKey \in OneOf(B)
      /\ s.receivedDH \in OneOf(B)
  BY DEF Sessions, Negotiations, PacketRecords, PacketApart, Apart, OneOf, KeysApart
<1>2. OutcomeApart(ProcessDH(s, m, k, next), A, B)
  <2>1. CASE s.state = "AwaitingDHKey" /\ s.myKey > m.from
    <3> DEFINE t == [s EXCEPT !.receivedDH = NoKey]
    <3>1. ProcessDH(s, m, k, next) = Outcome(t, "success", DHMessage(s))
      BY <2>1 DEF ProcessDH
    <3>2. t = Moved(s, s.state, NoKey, s.receivedDHKey, s.theirKeyID)
      BY <1>1 DEF Moved, SessionRecords
    <3> HIDE DEF t
    <3>3. KeysApart(t, A, B)
      BY <1>1, <3>2, MovedApart
    <3> QED
      BY <3>1, <3>3, MessagesApart DEF OutcomeApart, Outcome
  <2>2. CASE ~(s.state = "AwaitingDHKey" /\ s.myKey > m.from)
    <3> DEFINE i == IF s.state = "AwaitingRevealSignature" THEN s ELSE InitMyDHKeys(s, k, next)
               t == [i EXCEPT !.state = "AwaitingRevealSignature", !.receivedDH = m.from]
    <3>1. ProcessDH(s, m, k, next) = Outcome(t, "success", DHKeyMessage(i))
      BY <2>2 DEF ProcessDH
    <3>2. i \in Sessions /\ i \in SessionRecords /\ KeysApart(i, A, B)
      BY <1>1, InitKeysType, InitKeysApart DEF Keyed, Sessions
    <3> HIDE DEF i
    <3>3. t = Moved(i, "AwaitingRevealSignature", m.from, i.receivedDHKey, i.theirKeyID)
      BY <3>2 DEF Moved, SessionRecords
    <3> HIDE DEF t
    <3>4. KeysApart(t, A, B)
      BY <1>1, <3>2, <3>3, MovedApart
    <3> QED
      BY <3>1, <3>2, <3>4, MessagesApart DEF OutcomeApart, Outcome
  <2> QED
    BY <2>1, <2>2
<1>3. OutcomeApart(ProcessDHKey(s, m), A, B)
  <2> DEFINE keyed == SetupInitialRemoteKey(s, m.from)
             t == [keyed EXCEPT !.state = "AwaitingSignature", !.receivedDHKey = m.from]
             reveal == RevealSignatureMessage(keyed)
  <2>1. \/ ProcessDHKey(s, m) = Outcome(t, "success", reveal)
        \/ ProcessDHKey(s, m) = Outcome(keyed, "success", reveal)
        \/ ProcessDHKey(s, m) = Outcome(keyed, "success", NoPacket)
    BY DEF ProcessDHKey
  <2>2. keyed \in Sessions /\ keyed \in SessionRecords /\ KeysApart(keyed, A, B)
    BY <1>1, RemoteKeyType, RemoteKeyApart DEF Sessions
  <2> HIDE DEF keyed
  <2>3. t = Moved(keyed, "AwaitingSignature", keyed.receivedDH, m.from, keyed.theirKeyID)
    BY <2>2 DEF Moved, SessionRecords
  <2>4. KeysApart(t, A, B)
    BY <2>2, <2>3, MovedApart DEF KeysApart
  <2> HIDE DEF t
  <2> QED
    BY <2>1, <2>2, <2>4, MessagesApart DEF OutcomeApart, Outcome
<1>4. OutcomeApart(ProcessRevealSignature(s, m), A, B)
  <2> DEFINE keyed == SetupInitialRemoteKey(s, s.receivedDH)
             done == [keyed EXCEPT !.theirKeyID = m.keyID, !.state = "Done"]
  <2>1. \/ ProcessRevealSignature(s, m) = Outcome(s, "success", NoPacket)
        \/ ProcessRevealSignature(s, m) = Outcome(s, "decode", NoPacket)
        \/ /\ s.state = "AwaitingRevealSignature"
           /\ ProcessRevealSignature(s, m) = Outcome(done, "success", SignatureMessage(done))
    BY DEF ProcessRevealSignature
  <2>2. CASE s.state = "AwaitingRevealSignature"
    <3>1. s.receivedDH \in Key
      BY <1>1, <2>2 DEF Sessions, SessionRecords, HasItsKeys, KeyOrNone
    <3>2. keyed \in Sessions /\ keyed \in SessionRecords /\ KeysApart(keyed, A, B)
      BY <1>1, <3>1, RemoteKeyType, RemoteKeyApart DEF Sessions
    <3> HIDE DEF keyed
    <3>3. done = Moved(keyed, "Done", keyed.receivedDH, keyed.receivedDHKey, m.keyID)
      BY <3>2 DEF Moved, SessionRecords
    <3>4. KeysApart(done, A, B)
      BY <3>2, <3>3, MovedApart DEF KeysApart
    <3> HIDE DEF done
    <3> QED
      BY <2>1, <3>4, MessagesApart DEF OutcomeApart, Outcome
  <2>3. CASE s.state # "AwaitingRevealSignature"
    <3> HIDE DEF done
    <3> QED
      BY <2>1, <2>3, MessagesApart DEF OutcomeApart, Outcome
  <2> QED
    BY <2>2, <2>3
<1>5. OutcomeApart(ProcessSignature(s, m), A, B)
  <2> DEFINE done == [s EXCEPT !.theirKeyID = m.keyID, !.receivedDHKey = NoKey,
                               !.state = "Done"]
  <2>1. \/ ProcessSignature(s, m) = Outcome(s, "success", NoPacket)
        \/ ProcessSignature(s, m) = Outcome(s, "decode", NoPacket)
        \/ ProcessSignature(s, m) = Outcome(done, "success", NoPacket)
    BY DEF ProcessSignature
  <2>2. done = Moved(s, "Done", s.receivedDH, NoKey, m.keyID)
    BY <1>1 DEF Moved, SessionRecords
  <2> HIDE DEF done
  <2>3. KeysApart(done, A, B)
    BY <1>1, <2>2, MovedApart
  <2> QED
    BY <2>1, <2>3, MessagesApart DEF OutcomeApart, Outcome
<1>6. m.type \in {"DH", "DHKey", "RevealSignature", "Signature"}
  BY DEF Negotiations, PacketRecords, PacketTypes
<1> QED
  BY <1>2, <1>3, <1>4, <1>5, <1>6 DEF ProcessPacket

LEMMA SerializedApart ==
    ASSUME NEW s \in Sessions, NEW A, NEW B, KeysApart(s, A, B)
    PROVE  KeysApart(Serialized(s), A, B)
<1> DEFINE f1 == FindKeys(s, s.myKey, s.theirKey)
           f2 == FindKeys(f1, s.myKey, s.theirPreviousKey)
           f3 == FindKeys(f2, s.myNextKey, s.theirKey)
           f4 == FindKeys(f3, s.myNextKey, s.theirPreviousKey)
<1>1. f1 \in Sessions /\ SameButCache(f1, s) /\ KeysApart(f1, A, B)
  BY FindKeysType, FindKeysSpent
<1>2. f2 \in Sessions /\ SameButCache(f2, s) /\ KeysApart(f2, A, B)
  BY <1>1, FindAnyType, FindKeysSpent
<1>3. f3 \in Sessions /\ SameButCache(f3, s) /\ KeysApart(f3, A, B)
  BY <1>2, FindAnyType, FindKeysSpent
<1>4. KeysApart(f4, A, B)
  BY <1>3, FindKeysSpent
<1> QED
  BY <1>4 DEF Serialized

-----------------------------------------------------------------------------
(* Coders that keep keys apart, and would not open a message again.        *)

CoderApart(c, A, B) == KeysApart(c.session, A, B) /\ PacketApart(c.pendingResponse, A, B)

CoderSpent(c, m) == c.session.state = "Done" => Spent(c.session, m.to, m.from, m.counter)

LEMMA StartedApart ==
    ASSUME NEW s \in Sessions, NEW A, NEW B, Apart(A, B), KeysApart(s, A, B), NEW kn,
           kn[1] \in A, kn[2] \in A, kn[1] # kn[2]
    PROVE  CoderApart(Started(s, kn), A, B) /\ Started(s, kn).session.state # "Done"
<1> DEFINE o == AppendStartPacket(s, kn[1], kn[2])
<1>1. OutcomeApart(o, A, B) /\ o.session.state = "AwaitingDHKey"
  BY StartApart
<1>2. Started(s, kn) = Coder(o.session, FALSE, o.response)
  BY DEF Started
<1> HIDE DEF o
<1> QED
  BY <1>1, <1>2 DEF OutcomeApart, Coder, CoderApart

LEMMA RestartedApart ==
    ASSUME NEW c \in Coders, NEW A, NEW B, Apart(A, B), CoderApart(c, A, B), NEW kn,
           kn[1] \in A, kn[2] \in A, kn[1] # kn[2]
    PROVE  CoderApart(Restarted(c, kn), A, B) /\ Restarted(c, kn).session.state # "Done"
<1>1. c.session \in Sessions /\ KeysApart(c.session, A, B)
  BY DEF Coders, CoderApart
<1>2. Reset(c.session) \in Sessions /\ KeysApart(Reset(c.session), A, B)
  BY <1>1, ResetType, ResetApart
<1> QED
  BY <1>2, StartedApart DEF Restarted

LEMMA LoadedApart ==
    ASSUME NEW c \in Coders, NEW A, NEW B, CoderApart(c, A, B)
    PROVE  CoderApart(Loaded(c), A, B)
<1>1. c.session \in Sessions /\ KeysApart(c.session, A, B)
  BY DEF Coders, CoderApart
<1>2. KeysApart(Serialized(c.session), A, B)
  BY <1>1, SerializedApart
<1>3. /\ Loaded(c).session = Serialized(c.session)
      /\ Loaded(c).pendingResponse = c.pendingResponse
  BY DEF Loaded, Coders
<1> QED
  BY <1>2, <1>3 DEF CoderApart

LEMMA ResendApart ==
    ASSUME NEW c \in Coders, NEW A, NEW B, CoderApart(c, A, B)
    PROVE  /\ CoderApart(ResendDH(c).coder, A, B)
           /\ c.session.state # "Done" => ResendDH(c).coder.session.state # "Done"
           /\ ResendDH(c).result # "data"
<1> DEFINE o == AppendRestartPacket(c.session)
<1>1. OutcomeApart(o, A, B) /\ o.session.state \in {c.session.state, "AwaitingDHKey"}
  BY RestartApart DEF Coders, CoderApart
<1>2. \/ /\ ResendDH(c).coder = [c EXCEPT !.session = o.session, !.pendingResponse = o.response]
         /\ ResendDH(c).result = "negotiating"
      \/ ResendDH(c).coder = c /\ ResendDH(c).result = "failure"
  BY DEF ResendDH
<1> HIDE DEF o
<1> QED
  BY <1>1, <1>2 DEF Coders, CoderApart, OutcomeApart

LEMMA UnwrapNegotiationApart ==
    ASSUME NEW c \in Coders, NEW A, NEW B, Apart(A, B), CoderApart(c, A, B),
           NEW m \in Negotiations, PacketApart(m, B, A),
           NEW kn \in Key \X Key, kn[1] \in A, kn[2] \in A, kn[1] # kn[2]
    PROVE  CoderApart(UnwrapNegotiation(c, m, kn).coder, A, B)
<1> DEFINE outcome == ProcessPacket(c.session, m, kn[1], kn[2])
           c1 == [c EXCEPT !.session = outcome.session]
           answered == [c1 EXCEPT !.pendingResponse = outcome.response,
                                  !.waitingForDataPacket = @ \/ IsReady(c1)]
           u == UnwrapNegotiation(c, m, kn)
<1>1. outcome \in Outcomes
  BY ProcessPacketType DEF Coders
<1>2. OutcomeApart(outcome, A, B)
  BY ProcessPacketApart DEF Coders, CoderApart
<1>3. \/ u.coder = answered
      \/ u.coder = [c1 EXCEPT !.waitingForDataPacket = FALSE]
      \/ u.coder = c1
      \/ u = ResendDH(c1)
  <2>1. CASE outcome.status = "success" /\ outcome.response # NoPacket
    BY <2>1 DEF UnwrapNegotiation
  <2>2. CASE outcome.status = "success" /\ outcome.response = NoPacket
    BY <2>2 DEF UnwrapNegotiation
  <2>3. CASE outcome.status = "decode"
    BY <2>3 DEF UnwrapNegotiation
  <2> QED
    BY <1>1, <2>1, <2>2, <2>3 DEF Outcomes
<1> HIDE DEF outcome, u
<1>4. c1 \in Coders
  BY <1>1 DEF Coders, Outcomes
<1>5. CoderApart(c1, A, B)
  BY <1>2 DEF Coders, CoderApart, OutcomeApart
<1>6. CoderApart(answered, A, B)
  BY <1>2, <1>4, <1>5 DEF Coders, CoderApart, OutcomeApart
<1>7. CoderApart([c1 EXCEPT !.waitingForDataPacket = FALSE], A, B)
  BY <1>4, <1>5 DEF Coders, CoderApart
<1> HIDE DEF c1, answered
<1>8. CoderApart(u.coder, A, B)
  BY <1>3, <1>4, <1>5, <1>6, <1>7, ResendApart
<1> QED
  BY <1>8 DEF u

LEMMA UnwrapDataSpent ==
    ASSUME NEW c \in Coders, NEW A, NEW B, Apart(A, B), CoderApart(c, A, B),
           NEW m \in DataPackets, PacketApart(m, B, A),
           NEW kn, kn[2] \in A, kn[2] # c.session.myNextKey, kn[2] # m.to, NEW over
    PROVE  LET u == UnwrapData(c, m, kn, over)
           IN /\ CoderApart(u.coder, A, B)
              /\ u.result = "data" => ~CoderSpent(c, m)
              /\ u.result = "data" \/ CoderSpent(c, m) => CoderSpent(u.coder, m)
<1> DEFINE received == [c EXCEPT !.lastReceived = m, !.lastReceivedWasOld = FALSE]
           outcome == VerifyAndExpose(c.session, m, kn[2], over)
           exposed == [received EXCEPT !.session = outcome.session,
                                       !.waitingForDataPacket = FALSE]
           u == UnwrapData(c, m, kn, over)
<1>1. /\ received \in Coders /\ received.session = c.session
      /\ received.pendingResponse = c.pendingResponse
  BY DEF Coders, Packets
<1>2. CASE ~IsReady(c)
  <2>1. u = ResendDH(received)
    BY <1>2 DEF UnwrapData
  <2>2. CoderApart(received, A, B) /\ received.session.state # "Done"
    BY <1>1, <1>2 DEF CoderApart, IsReady
  <2> HIDE DEF received, u
  <2>3. CoderApart(u.coder, A, B) /\ u.result # "data" /\ u.coder.session.state # "Done"
    BY <1>1, <2>1, <2>2, ResendApart
  <2> QED
    BY <2>3 DEF u, CoderSpent
<1>3. CASE IsReady(c)
  <2>1. c.session \in Sessions /\ c.session.state = "Done" /\ KeysApart(c.session, A, B)
        /\ kn[2] \in Key
    BY <1>3 DEF Coders, IsReady, CoderApart, Apart
  <2>2. outcome.status \in {"success", "tooOld", "tooNew", "authFailed"}
    BY <2>1, VerifyAndExposeType
  <2>3. /\ KeysApart(outcome.session, A, B)
        /\ outcome.status = "success" => ~Spent(c.session, m.to, m.from, m.counter)
        /\ \/ outcome.status = "success"
           \/ Spent(c.session, m.to, m.from, m.counter)
           => Spent(outcome.session, m.to, m.from, m.counter)
    BY <2>1, VerifyAndExposeSpent
  <2>4. /\ u.coder \in {exposed, [exposed EXCEPT !.lastReceivedWasOld = TRUE]}
        /\ u.result = "data" => outcome.status = "success"
    <3>1. CASE outcome.status = "success"
      BY <1>3, <3>1 DEF UnwrapData
    <3>2. CASE outcome.status = "tooOld"
      BY <1>3, <3>2 DEF UnwrapData
    <3>3. CASE outcome.status = "tooNew"
      BY <1>3, <3>3 DEF UnwrapData
    <3>4. CASE outcome.status = "authFailed"
      BY <1>3, <3>4 DEF UnwrapData
    <3> QED
      BY <2>2, <3>1, <3>2, <3>3, <3>4
  <2> HIDE DEF received, outcome, u
  <2>5. u.coder.session = outcome.session /\ u.coder.pendingResponse = c.pendingResponse
    BY <1>1, <2>4 DEF Coders
  <2> HIDE DEF exposed
  <2>6. CoderApart(u.coder, A, B)
    BY <2>3, <2>5 DEF CoderApart
  <2>7. u.result = "data" => ~CoderSpent(c, m)
    BY <2>1, <2>3, <2>4 DEF CoderSpent
  <2>8. u.result = "data" \/ CoderSpent(c, m) => CoderSpent(u.coder, m)
    BY <2>1, <2>3, <2>4, <2>5 DEF CoderSpent
  <2> QED
    BY <2>6, <2>7, <2>8 DEF u
<1> QED
  BY <1>2, <1>3

(* Keys drawn for a peer are its own, and nobody holds them.               *)
LEMMA KeyPairsApart ==
    ASSUME NEW p \in Peer, NEW used, NEW kn \in KeyPairs(p, used)
    PROVE  /\ kn \in Key \X Key /\ kn[1] \in OwnKeys(p) /\ kn[2] \in OwnKeys(p)
           /\ kn[1] # kn[2] /\ kn[2] \notin used
<1>1. \A ks : Smallest(ks) \subseteq ks
  BY DEF Smallest
<1>2. /\ kn \in Key \X Key
      /\ kn[1] \in UNION {Smallest(pool \ used) : pool \in FirstKeys[p]}
      /\ kn[2] \in Smallest(NextKeys[p] \ used)
  BY KeyPairsType DEF KeyPairs
<1>3. kn[1] \in UNION FirstKeys[p]
  <2>1. PICK pool \in FirstKeys[p] : kn[1] \in Smallest(pool \ used)
    BY <1>2
  <2> QED
    BY <1>1, <2>1
<1>4. kn[2] \in NextKeys[p] \ used
  BY <1>1, <1>2
<1>5. (UNION FirstKeys[p]) \cap NextKeys[p] = {}
  BY PoolsAssumption
<1> QED
  BY <1>2, <1>3, <1>4, <1>5 DEF OwnKeys

LEMMA OwnKeysApart == \A p \in Peer : Apart(OwnKeys(p), OwnKeys(Other(p)))
<1>1. ASSUME NEW p \in Peer PROVE OwnKeys(p) \subseteq Key
  <2>1. FirstKeys[p] \subseteq SUBSET Key /\ NextKeys[p] \subseteq Key
    OBVIOUS
  <2>2. UNION FirstKeys[p] \subseteq Key
    BY <2>1
  <2> QED
    BY <2>1, <2>2 DEF OwnKeys
<1>2. OwnKeys(1) \cap OwnKeys(2) = {} /\ OwnKeys(1) \subseteq Key /\ OwnKeys(2) \subseteq Key
  BY <1>1, PoolsAssumption
<1>3. \A p \in Peer : (p = 1 /\ Other(p) = 2) \/ (p = 2 /\ Other(p) = 1)
  BY DEF Other
<1> QED
  BY <1>2, <1>3 DEF Apart

-----------------------------------------------------------------------------
(* The two peers.                                                          *)

KeysOwned ==
    \A p \in Peer :
        /\ CoderApart(coder[p], OwnKeys(p), OwnKeys(Other(p)))
        /\ CoderApart(saved[p].coder, OwnKeys(p), OwnKeys(Other(p)))
        /\ PacketApart(kvs[p], OwnKeys(p), OwnKeys(Other(p)))

(* A message that has been opened was opened once, and is spent.           *)
OpenedIsSpent ==
    setback # "exit" =>
        \A p \in Peer :
            opened[p] > 0 =>
                /\ opened[p] = 1 /\ kvs[Other(p)] \in DataPackets
                /\ CoderSpent(coder[p], kvs[Other(p)])

OpenedInv == CodingInv /\ KeysOwned /\ OpenedIsSpent

LEMMA FreshPairsApart ==
    ASSUME CodingInv, NEW p \in Peer, NEW kn \in FreshPairs(p)
    PROVE  /\ kn \in Key \X Key /\ kn[1] \in OwnKeys(p) /\ kn[2] \in OwnKeys(p)
           /\ kn[1] # kn[2] /\ kn[2] # coder[p].session.myNextKey
           /\ \A q \in Peer : kn[2] # kvs[q].to
<1>1. /\ kn \in Key \X Key /\ kn[1] \in OwnKeys(p) /\ kn[2] \in OwnKeys(p)
      /\ kn[1] # kn[2] /\ kn[2] \notin KeysInUse
  BY KeyPairsApart DEF FreshPairs
<1>2. kn[2] # NoKey
  BY <1>1
<1>3. kn[2] # coder[p].session.myNextKey
  <2>1. kn[2] \notin CoderKeys(coder[p])
    BY <1>1 DEF KeysInUse
  <2>2. kn[2] \notin SessionKeys(coder[p].session)
    BY <2>1 DEF CoderKeys
  <2> QED
    BY <1>2, <2>2 DEF SessionKeys
<1>4. ASSUME NEW q \in Peer PROVE kn[2] # kvs[q].to
  <2>1. kn[2] \notin PacketKeys(kvs[q])
    BY <1>1 DEF KeysInUse
  <2> QED
    BY <1>2, <2>1 DEF PacketKeys
<1> QED
  BY <1>1, <1>3, <1>4

LEMMA OpenedInitInv == ASSUME CodingInit PROVE OpenedInv
<1>1. PICK kn \in [Peer -> UNION {KeyPairs(p, {}) : p \in Peer}] :
        /\ \A p \in Peer : kn[p] \in KeyPairs(p, {})
        /\ coder = [p \in Peer |-> Started(IdleSession, kn[p])]
  BY DEF CodingInit
<1>2. ASSUME NEW p \in Peer
      PROVE  CoderApart(Started(IdleSession, kn[p]), OwnKeys(p), OwnKeys(Other(p)))
  <2>1. kn[p] \in KeyPairs(p, {})
    BY <1>1
  <2>2. kn[p][1] \in OwnKeys(p) /\ kn[p][2] \in OwnKeys(p) /\ kn[p][1] # kn[p][2]
    BY <2>1, KeyPairsApart
  <2> QED
    BY <2>2, IdleType, IdleApart, OwnKeysApart, StartedApart
<1>3. ASSUME NEW p \in Peer
      PROVE  /\ CoderApart(coder[p], OwnKeys(p), OwnKeys(Other(p)))
             /\ CoderApart(saved[p].coder, OwnKeys(p), OwnKeys(Other(p)))
             /\ PacketApart(kvs[p], OwnKeys(p), OwnKeys(Other(p)))
  <2>1. coder[p] = Started(IdleSession, kn[p])
    BY <1>1
  <2>2. saved[p].coder = coder[p] /\ kvs[p] = NoPacket
    BY DEF CodingInit
  <2>3. PacketApart(NoPacket, OwnKeys(p), OwnKeys(Other(p)))
    BY IdleApart, MessagesApart
  <2> QED
    BY <1>2, <2>1, <2>2, <2>3
<1>4. \A p \in Peer : opened[p] = 0
  BY DEF CodingInit
<1> QED
  BY <1>3, <1>4, CodingInitInv DEF OpenedInv, KeysOwned, OpenedIsSpent

(* A step that saves the coder c of p, or none; one that puts a message of *)
(* p's in the store, or none.                                              *)
SavesOnly(p, c) ==
    \A q \in Peer : saved'[q].coder = saved[q].coder \/ (q = p /\ saved'[q].coder = c)
StoresOnly(p) ==
    \A q \in Peer : \/ kvs'[q] = kvs[q]
                    \/ q = p /\ PacketApart(kvs'[q], OwnKeys(p), OwnKeys(Other(p)))

LEMMA OneCoderOwned ==
    ASSUME CodingInv, KeysOwned, NEW p \in Peer, NEW c,
           CoderApart(c, OwnKeys(p), OwnKeys(Other(p))),
           coder' = [coder EXCEPT ![p] = c], SavesOnly(p, c), StoresOnly(p)
    PROVE  KeysOwned'
<1> SUFFICES ASSUME NEW q \in Peer
             PROVE  /\ CoderApart(coder'[q], OwnKeys(q), OwnKeys(Other(q)))
                    /\ CoderApart(saved'[q].coder, OwnKeys(q), OwnKeys(Other(q)))
                    /\ PacketApart(kvs'[q], OwnKeys(q), OwnKeys(Other(q)))
  BY DEF KeysOwned
<1>1. coder'[q] = IF q = p THEN c ELSE coder[q]
  BY DEF CodingInv, CodersTyped
<1>2. /\ CoderApart(coder[q], OwnKeys(q), OwnKeys(Other(q)))
      /\ CoderApart(saved[q].coder, OwnKeys(q), OwnKeys(Other(q)))
      /\ PacketApart(kvs[q], OwnKeys(q), OwnKeys(Other(q)))
  BY DEF KeysOwned
<1> QED
  BY <1>1, <1>2 DEF SavesOnly, StoresOnly

(* The engine's save writes the coder it is given, or leaves the last.     *)
LEMMA SaveKeeps ==
    ASSUME CodingInv, NEW p \in Peer, NEW c, NEW needed, NEW must, NEW todo,
           SaveEngine(p, c, needed, must, todo)
    PROVE  SavesOnly(p, c)
<1> DEFINE e == [coder |-> IF needed THEN c ELSE saved[p].coder, mustSend |-> must,
                 work |-> todo]
<1>1. saved' = [saved EXCEPT ![p] = e] /\ saved \in [Peer -> SavedStates]
  BY DEF SaveEngine, CodingInv, CodersTyped
<1>2. e.coder = saved[p].coder \/ e.coder = c
  OBVIOUS
<1> HIDE DEF e
<1>3. \A q \in Peer : saved'[q] = IF q = p THEN e ELSE saved[q]
  BY <1>1
<1> QED
  BY <1>2, <1>3 DEF SavesOnly

(* Messages in the store stay, and so do the counts.                       *)
LEMMA CoderStaysSpent ==
    ASSUME CodingInv, OpenedIsSpent, NEW p \in Peer, NEW c,
           coder' = [coder EXCEPT ![p] = c],
           \A q \in Peer : q # p => kvs'[q] = kvs[q] /\ opened'[Other(q)] = opened[Other(q)],
           \/ kvs'[p] = kvs[p] /\ opened'[Other(p)] = opened[Other(p)]
           \/ opened'[Other(p)] = 0,
           setback' = "exit" \/ setback' = setback \/ setback = "none",
           /\ opened[p] > 0 /\ kvs[Other(p)] \in DataPackets /\ CoderSpent(coder[p], kvs[Other(p)])
           => CoderSpent(c, kvs[Other(p)])
    PROVE  OpenedIsSpent'
<1> SUFFICES ASSUME setback' # "exit", NEW q \in Peer, opened'[q] > 0
             PROVE  /\ opened'[q] = 1 /\ kvs'[Other(q)] \in DataPackets
                    /\ CoderSpent(coder'[q], kvs'[Other(q)])
  BY DEF OpenedIsSpent
<1>1. setback # "exit" /\ coder'[q] = IF q = p THEN c ELSE coder[q]
  BY DEF CodingInv, CodersTyped
<1>2. /\ Other(p) \in Peer /\ Other(q) \in Peer /\ Other(p) # p /\ Other(q) # q
      /\ Other(Other(q)) = q /\ Other(Other(p)) = p
  BY OtherType
<1>3. CASE q = p
  <2>1. kvs'[Other(q)] = kvs[Other(q)] /\ opened'[q] = opened[q]
    BY <1>2, <1>3
  <2> QED
    BY <1>1, <1>3, <2>1 DEF OpenedIsSpent
<1>4. CASE q # p
  <2>1. q = Other(p) /\ Other(q) = p
    BY <1>4 DEF Other
  <2>2. kvs'[Other(q)] = kvs[Other(q)] /\ opened'[q] = opened[q]
    BY <2>1
  <2> QED
    BY <1>1, <1>4, <2>2 DEF OpenedIsSpent
<1> QED
  BY <1>3, <1>4

LEMMA HandleOpened ==
    ASSUME OpenedInv, NEW p \in Peer, HandleCodedMessage(p)
    PROVE  KeysOwned' /\ OpenedIsSpent'
<1> DEFINE q == Other(p)
           m == kvs[q]
           A == OwnKeys(p)
           B == OwnKeys(q)
<1>1. /\ CodingInv /\ KeysOwned /\ OpenedIsSpent /\ p \in Peer /\ q \in Peer /\ Other(q) = p
      /\ m \in Packets /\ m # NoPacket
  BY OtherType DEF OpenedInv, CodingInv, StoreTyped, HandleCodedMessage
<1>2. PICK kn \in FreshPairs(p), over \in Spans :
         LET u == Unwrap(coder[p], m, kn, over)
             handled == u.result \notin {"failure", "tooNew"}
             c == IF handled THEN u.coder ELSE Restarted(u.coder, kn)
             exposed == u.result = "data"
             news == exposed /\ m.content.made > seen[p]
             must == mustSend[p] \/ u.result \in {"completed", "forceMessage"}
             todo == work[p] \/ (exposed /\ m.content.seen < made[p])
             saves == u.result = "completed" \/ news
         IN /\ coder' = [coder EXCEPT ![p] = c]
            /\ IF saves THEN SaveEngine(p, c, dirty[p], must, todo)
               ELSE UNCHANGED saved
            /\ opened' = [opened EXCEPT ![p] = IF exposed THEN @ + 1 ELSE @]
            /\ UNCHANGED <<kvs, setback>>
  BY DEF HandleCodedMessage
<1> DEFINE u == Unwrap(coder[p], m, kn, over)
           handled == u.result \notin {"failure", "tooNew"}
           c == IF handled THEN u.coder ELSE Restarted(u.coder, kn)
           exposed == u.result = "data"
           news == exposed /\ m.content.made > seen[p]
           must == mustSend[p] \/ u.result \in {"completed", "forceMessage"}
           todo == work[p] \/ (exposed /\ m.content.seen < made[p])
           saves == u.result = "completed" \/ news
<1>3. /\ kn \in Key \X Key /\ kn[1] \in A /\ kn[2] \in A /\ kn[1] # kn[2]
      /\ kn[2] # coder[p].session.myNextKey /\ kn[2] # m.to
  BY <1>1, FreshPairsApart
<1>4. coder[p] \in Coders /\ CoderApart(coder[p], A, B) /\ PacketApart(m, B, A) /\ Apart(A, B)
  BY <1>1, OwnKeysApart DEF KeysOwned, CodingInv, CodersTyped
<1>5. u.coder \in Coders /\ (exposed => m \in DataPackets)
  BY <1>1, <1>3, <1>4, UnwrapType
<1>6. /\ CoderApart(u.coder, A, B)
      /\ m \in DataPackets =>
            /\ exposed => ~CoderSpent(coder[p], m)
            /\ exposed \/ CoderSpent(coder[p], m) => CoderSpent(u.coder, m)
  <2>1. CASE m \in DataPackets
    <3>1. u = UnwrapData(coder[p], m, kn, over)
      BY <2>1, PacketsApart DEF Unwrap
    <3> HIDE DEF u, m, A, B
    <3> QED
      BY <1>3, <1>4, <2>1, <3>1, UnwrapDataSpent
  <2>2. CASE m \in Negotiations
    <3>1. u = UnwrapNegotiation(coder[p], m, kn) /\ m \notin DataPackets
      BY <2>2, PacketsApart DEF Unwrap
    <3> HIDE DEF u, m, A, B
    <3> QED
      BY <1>3, <1>4, <2>2, <3>1, UnwrapNegotiationApart
  <2> QED
    BY <1>1, <2>1, <2>2 DEF Packets
<1>7. /\ coder' = [coder EXCEPT ![p] = c]
      /\ IF saves THEN SaveEngine(p, c, dirty[p], must, todo) ELSE UNCHANGED saved
      /\ opened' = [opened EXCEPT ![p] = IF exposed THEN opened[p] + 1 ELSE opened[p]]
      /\ UNCHANGED <<kvs, setback>>
  BY <1>2
<1> HIDE DEF u, m, A, B
<1>8. CoderApart(Restarted(u.coder, kn), A, B) /\ Restarted(u.coder, kn).session.state # "Done"
  BY <1>3, <1>4, <1>5, <1>6, RestartedApart
<1>9. CoderApart(c, A, B) /\ (CoderSpent(u.coder, m) => CoderSpent(c, m))
  BY <1>6, <1>8 DEF CoderSpent
<1> HIDE DEF c
<1>10. SavesOnly(p, c) /\ StoresOnly(p)
  <2>1. CASE saves
    <3>1. SaveEngine(p, c, dirty[p], must, todo)
      BY <1>7, <2>1
    <3> HIDE DEF must, todo, saves
    <3> QED
      BY <1>1, <1>7, <3>1, SaveKeeps DEF StoresOnly
  <2>2. CASE ~saves
    <3>1. saved' = saved
      BY <1>7, <2>2
    <3> QED
      BY <1>7, <3>1 DEF SavesOnly, StoresOnly
  <2> QED
    BY <2>1, <2>2
<1>11. KeysOwned'
  <2>1. CoderApart(c, OwnKeys(p), OwnKeys(Other(p)))
    BY <1>9 DEF A, B
  <2> QED
    BY <1>1, <1>7, <1>10, <2>1, OneCoderOwned
<1>12. OpenedIsSpent'
  <2> SUFFICES ASSUME setback' # "exit", NEW r \in Peer, opened'[r] > 0
               PROVE  /\ opened'[r] = 1 /\ kvs'[Other(r)] \in DataPackets
                      /\ CoderSpent(coder'[r], kvs'[Other(r)])
    BY DEF OpenedIsSpent
  <2>1. setback # "exit" /\ opened \in [Peer -> Nat] /\ kvs' = kvs
        /\ coder \in [Peer -> Coders]
    BY <1>1, <1>7 DEF CodingInv, CodersTyped, HistoryTyped
  <2>2. CASE r = p
    <3>1. opened[p] > 0 => opened[p] = 1 /\ m \in DataPackets /\ CoderSpent(coder[p], m)
      BY <1>1, <2>1 DEF OpenedIsSpent, m
    <3>2. coder'[r] = c /\ kvs'[Other(r)] = m
      BY <1>7, <2>1, <2>2 DEF m
    <3>3. CASE exposed
      <4>1. m \in DataPackets /\ ~CoderSpent(coder[p], m)
        BY <1>5, <1>6, <3>3
      <4>2. opened[p] = 0 /\ opened'[p] = 1
        BY <1>7, <2>1, <3>1, <3>3, <4>1
      <4> QED
        BY <1>6, <1>9, <2>2, <3>2, <3>3, <4>1, <4>2
    <3>4. CASE ~exposed
      <4>1. opened'[p] = opened[p]
        BY <1>7, <2>1, <3>4
      <4> QED
        BY <1>6, <1>9, <2>2, <3>1, <3>2, <4>1
    <3> QED
      BY <3>3, <3>4
  <2>3. CASE r # p
    <3>1. opened'[r] = opened[r] /\ coder'[r] = coder[r]
      BY <1>7, <2>1, <2>3
    <3> QED
      BY <1>1, <2>1, <3>1 DEF OpenedIsSpent
  <2> QED
    BY <2>2, <2>3
<1> QED
  BY <1>11, <1>12

LEMMA ReadBackOwned ==
    ASSUME OpenedInv, NEW p \in Peer, ReadBack(p), StoresOnly(p)
    PROVE  KeysOwned' /\ OpenedIsSpent'
<1>1. CodingInv /\ KeysOwned /\ saved[p] \in SavedStates /\ saved[p].coder \in Coders
  BY DEF OpenedInv, CodingInv, CodersTyped, SavedStates
<1>2. CoderApart(Loaded(saved[p].coder), OwnKeys(p), OwnKeys(Other(p)))
  BY <1>1, LoadedApart DEF KeysOwned
<1>3. /\ coder' = [coder EXCEPT ![p] = Loaded(saved[p].coder)]
      /\ saved' = saved /\ setback' = "exit"
  BY DEF ReadBack
<1>4. \A c : SavesOnly(p, c)
  BY <1>3 DEF SavesOnly
<1>5. KeysOwned'
  BY <1>1, <1>2, <1>3, <1>4, OneCoderOwned
<1> QED
  BY <1>3, <1>5 DEF OpenedIsSpent

(* A new message has yet to be opened; the one this peer reads is there    *)
(* still, and stays spent.                                                 *)
LEMMA SentOpened ==
    ASSUME OpenedInv, NEW p \in Peer, NEW m, NEW c, Sent(p, m, c),
           PacketApart(m, OwnKeys(p), OwnKeys(Other(p))),
           CoderApart(c, OwnKeys(p), OwnKeys(Other(p))),
           /\ opened[p] > 0 /\ kvs[Other(p)] \in DataPackets /\ CoderSpent(coder[p], kvs[Other(p)])
           => CoderSpent(c, kvs[Other(p)])
    PROVE  KeysOwned' /\ OpenedIsSpent'
<1>1. CodingInv /\ KeysOwned /\ OpenedIsSpent /\ kvs \in [Peer -> Packets]
      /\ opened \in [Peer -> Nat]
  BY DEF OpenedInv, CodingInv, StoreTyped, HistoryTyped
<1>2. kvs' = [kvs EXCEPT ![p] = m] /\ opened' = [opened EXCEPT ![Other(p)] = 0]
  BY DEF Sent
<1>3. /\ StoresOnly(p)
      /\ \A q \in Peer : q # p => kvs'[q] = kvs[q] /\ opened'[Other(q)] = opened[Other(q)]
      /\ opened'[Other(p)] = 0
  BY <1>1, <1>2, OtherType DEF StoresOnly
<1>4. CASE ReadBack(p)
  BY <1>3, <1>4, ReadBackOwned
<1>5. CASE /\ coder' = [coder EXCEPT ![p] = c]
           /\ SaveEngine(p, c, TRUE, mustSend[p], work[p])
           /\ UNCHANGED <<setback, faults>>
  <2>1. SavesOnly(p, c)
    BY <1>1, <1>5, SaveKeeps
  <2>2. KeysOwned'
    BY <1>1, <1>3, <1>5, <2>1, OneCoderOwned
  <2>3. OpenedIsSpent'
    BY <1>1, <1>3, <1>5, CoderStaysSpent
  <2> QED
    BY <2>2, <2>3
<1> QED
  BY <1>4, <1>5 DEF Sent

LEMMA SendOpened ==
    ASSUME OpenedInv, NEW p \in Peer, SendMessageIfNeeded(p)
    PROVE  KeysOwned' /\ OpenedIsSpent'
<1> DEFINE q == Other(p)
           A == OwnKeys(p)
           B == OwnKeys(q)
<1>1. /\ CodingInv /\ KeysOwned /\ OpenedIsSpent /\ p \in Peer /\ q \in Peer
      /\ coder[p] \in Coders /\ made[p] \in Nat /\ seen[p] \in Nat
  BY OtherType DEF OpenedInv, CodingInv, CodersTyped, HistoryTyped
<1>2. CoderApart(coder[p], A, B) /\ PacketApart(kvs[q], B, A) /\ Apart(A, B)
  BY <1>1, OtherType, OwnKeysApart DEF KeysOwned
<1>3. CASE CanWrap(coder[p]) /\ \E kn \in FreshPairs(p), over \in Spans :
               LET content == [made |-> made[p], seen |-> seen[p]]
                   o == SignAndProtect(coder[p].session, content, kn[2], over)
               IN Sent(p, o.response, [coder[p] EXCEPT !.session = o.session])
  <2> DEFINE content == [made |-> made[p], seen |-> seen[p]]
             s == coder[p].session
  <2>1. PICK kn \in FreshPairs(p), over \in Spans :
          Sent(p, SignAndProtect(s, content, kn[2], over).response,
               [coder[p] EXCEPT !.session = SignAndProtect(s, content, kn[2], over).session])
    BY <1>3
  <2> DEFINE o == SignAndProtect(s, content, kn[2], over)
             c == [coder[p] EXCEPT !.session = o.session]
  <2>2. /\ s \in Sessions /\ s.state = "Done" /\ content \in Contents
        /\ KeysApart(s, A, B)
    BY <1>1, <1>2, <1>3 DEF Coders, CanWrap, IsReady, Contents, CoderApart
  <2>3. kn[2] \in A /\ kn[2] # s.myNextKey /\ kn[2] # kvs[q].to
    BY <1>1, FreshPairsApart
  <2> HIDE DEF content
  <2>4. /\ KeysApart(o.session, A, B) /\ PacketApart(o.response, A, B)
        /\ \A a \in KeyOrNone, b \in B, n \in Nat :
              a # kn[2] /\ Spent(s, a, b, n) => Spent(o.session, a, b, n)
    BY <1>2, <2>2, <2>3, SignAndProtectSpent
  <2> HIDE DEF o
  <2>5. /\ c.session = o.session /\ CoderApart(c, A, B)
    BY <1>1, <1>2, <2>4 DEF Coders, CoderApart
  <2>6. ASSUME kvs[q] \in DataPackets, CoderSpent(coder[p], kvs[q])
        PROVE  CoderSpent(c, kvs[q])
    <3>1. /\ kvs[q].to \in KeyOrNone /\ kvs[q].from \in B /\ kvs[q].counter \in Nat
      BY <1>2, <2>6 DEF DataPackets, PacketRecords, PacketApart, OneOf
    <3>2. Spent(s, kvs[q].to, kvs[q].from, kvs[q].counter)
      BY <2>2, <2>6 DEF CoderSpent
    <3>3. Spent(o.session, kvs[q].to, kvs[q].from, kvs[q].counter)
      BY <2>3, <2>4, <3>1, <3>2
    <3> QED
      BY <2>5, <3>3 DEF CoderSpent
  <2>7. Sent(p, o.response, c)
    BY <2>1 DEF o
  <2> HIDE DEF c
  <2> QED
    BY <1>1, <2>4, <2>5, <2>6, <2>7, SentOpened
<1>4. CASE /\ coder[p].pendingResponse # NoPacket
           /\ Sent(p, coder[p].pendingResponse, [coder[p] EXCEPT !.pendingResponse = NoPacket])
  <2> DEFINE c == [coder[p] EXCEPT !.pendingResponse = NoPacket]
  <2>1. /\ c.session = coder[p].session /\ CoderApart(c, A, B)
        /\ PacketApart(coder[p].pendingResponse, A, B)
    BY <1>1, <1>2, MessagesApart DEF Coders, CoderApart
  <2>2. Sent(p, coder[p].pendingResponse, c)
    BY <1>4
  <2> HIDE DEF c
  <2>3. CoderSpent(coder[p], kvs[q]) => CoderSpent(c, kvs[q])
    BY <2>1 DEF CoderSpent
  <2> QED
    BY <1>1, <2>1, <2>2, <2>3, SentOpened
<1>5. CASE /\ SaveEngine(p, coder[p], dirty[p] \/ ~CanWrap(coder[p]), mustSend[p], work[p])
           /\ UNCHANGED <<coder, wires, setback>>
  <2>1. coder' = [coder EXCEPT ![p] = coder[p]] /\ kvs' = kvs /\ opened' = opened
        /\ setback' = setback
    BY <1>1, <1>5 DEF wires, CodingInv, CodersTyped
  <2>2. SavesOnly(p, coder[p])
    <3> DEFINE needed == dirty[p] \/ ~CanWrap(coder[p])
    <3>1. SaveEngine(p, coder[p], needed, mustSend[p], work[p])
      BY <1>5
    <3> HIDE DEF needed
    <3> QED
      BY <1>1, <3>1, SaveKeeps
  <2>3. StoresOnly(p)
    BY <2>1 DEF StoresOnly
  <2>4. KeysOwned'
    BY <1>1, <1>2, <2>1, <2>2, <2>3, OneCoderOwned
  <2>5. OpenedIsSpent'
    BY <1>1, <2>1, CoderStaysSpent
  <2> QED
    BY <2>4, <2>5
<1> QED
  BY <1>3, <1>4, <1>5 DEF SendMessageIfNeeded

LEMMA LocalChangeOpened ==
    ASSUME OpenedInv, NEW p \in Peer, LocalChange(p) PROVE KeysOwned' /\ OpenedIsSpent'
<1>1. CodingInv /\ KeysOwned /\ OpenedIsSpent
      /\ CoderApart(coder[p], OwnKeys(p), OwnKeys(Other(p)))
  BY DEF OpenedInv, KeysOwned
<1>2. /\ coder' = [coder EXCEPT ![p] = coder[p]] /\ kvs' = kvs /\ opened' = opened
      /\ setback' = setback
      /\ SaveEngine(p, coder[p], dirty[p], mustSend[p], TRUE)
  BY <1>1 DEF LocalChange, wires, CodingInv, CodersTyped
<1>3. SavesOnly(p, coder[p]) /\ StoresOnly(p)
  BY <1>1, <1>2, SaveKeeps DEF StoresOnly
<1>4. KeysOwned'
  BY <1>1, <1>2, <1>3, OneCoderOwned
<1>5. OpenedIsSpent'
  BY <1>1, <1>2, CoderStaysSpent
<1> QED
  BY <1>4, <1>5

LEMMA RedeliverOpened ==
    ASSUME OpenedInv, NEW p \in Peer, Redeliver(p) PROVE KeysOwned' /\ OpenedIsSpent'
<1>1. UNCHANGED <<coder, saved, kvs, opened, setback>>
  BY DEF Redeliver
<1> QED
  BY <1>1 DEF OpenedInv, KeysOwned, OpenedIsSpent

(* A coder that starts anew is not ready, and opens nothing until it has   *)
(* read another message.                                                   *)
LEMMA TimerOpened ==
    ASSUME OpenedInv, NEW p \in Peer, OTRTimerFires(p) PROVE KeysOwned' /\ OpenedIsSpent'
<1>1. CodingInv /\ KeysOwned /\ OpenedIsSpent
  BY DEF OpenedInv
<1>2. PICK kn \in FreshPairs(p) : coder' = [coder EXCEPT ![p] = Restarted(coder[p], kn)]
  BY DEF OTRTimerFires
<1> DEFINE c == Restarted(coder[p], kn)
<1>3. CoderApart(c, OwnKeys(p), OwnKeys(Other(p))) /\ c.session.state # "Done"
  BY <1>1, FreshPairsApart, OwnKeysApart, RestartedApart DEF KeysOwned, CodingInv, CodersTyped
<1>4. /\ saved' = saved /\ kvs' = kvs /\ opened' = opened
      /\ setback' = setback \/ setback = "none"
  BY DEF OTRTimerFires, wires, Restart
<1>5. coder' = [coder EXCEPT ![p] = c]
  BY <1>2
<1> HIDE DEF c
<1>6. SavesOnly(p, c) /\ StoresOnly(p)
  BY <1>4 DEF SavesOnly, StoresOnly
<1>7. KeysOwned'
  BY <1>1, <1>3, <1>5, <1>6, OneCoderOwned
<1>8. OpenedIsSpent'
  BY <1>1, <1>3, <1>4, <1>5, CoderStaysSpent DEF CoderSpent
<1> QED
  BY <1>7, <1>8

LEMMA NewCoderOpened ==
    ASSUME OpenedInv, NEW p \in Peer, NewCoder(p) PROVE KeysOwned' /\ OpenedIsSpent'
<1>1. CodingInv /\ KeysOwned /\ OpenedIsSpent
  BY DEF OpenedInv
<1>2. PICK kn \in FreshPairs(p) :
        /\ coder' = [coder EXCEPT ![p] = Started(IdleSession, kn)]
        /\ SaveEngine(p, Started(IdleSession, kn), TRUE, mustSend[p], work[p])
  BY DEF NewCoder
<1> DEFINE c == Started(IdleSession, kn)
<1>3. CoderApart(c, OwnKeys(p), OwnKeys(Other(p))) /\ c.session.state # "Done"
  BY <1>1, FreshPairsApart, OwnKeysApart, IdleType, IdleApart, StartedApart
<1>4. /\ kvs' = kvs /\ opened' = opened
      /\ setback' = setback \/ setback = "none"
  BY DEF NewCoder, wires, Restart
<1>5. /\ coder' = [coder EXCEPT ![p] = c]
      /\ SaveEngine(p, c, TRUE, mustSend[p], work[p])
  BY <1>2
<1> HIDE DEF c
<1>6. SavesOnly(p, c) /\ StoresOnly(p)
  BY <1>1, <1>4, <1>5, SaveKeeps DEF StoresOnly
<1>7. KeysOwned'
  BY <1>1, <1>3, <1>4, <1>5, <1>6, OneCoderOwned
<1>8. OpenedIsSpent'
  BY <1>1, <1>3, <1>4, <1>5, CoderStaysSpent DEF CoderSpent
<1> QED
  BY <1>7, <1>8

LEMMA ExitOpened ==
    ASSUME OpenedInv, NEW p \in Peer, Exit(p) PROVE KeysOwned' /\ OpenedIsSpent'
<1>1. ReadBack(p) /\ kvs' = kvs
  BY DEF Exit, wires
<1>2. StoresOnly(p)
  BY <1>1 DEF StoresOnly
<1> QED
  BY <1>1, <1>2, ReadBackOwned

LEMMA OpenedStepInv == OpenedInv /\ [CodingNext]_codingVars => OpenedInv'
<1> SUFFICES ASSUME OpenedInv, [CodingNext]_codingVars PROVE OpenedInv'
  OBVIOUS
<1>1. CodingInv'
  BY CodingStepInv DEF OpenedInv
<1>2. KeysOwned' /\ OpenedIsSpent'
  <2>1. CASE CodingNext
    <3>1. PICK p \in Peer :
            \/ HandleCodedMessage(p) \/ SendMessageIfNeeded(p)
            \/ LocalChange(p) \/ Redeliver(p)
            \/ OTRTimerFires(p) \/ NewCoder(p) \/ Exit(p)
      BY <2>1 DEF CodingNext
    <3> QED
      BY <3>1, HandleOpened, SendOpened, LocalChangeOpened, RedeliverOpened, TimerOpened,
         NewCoderOpened, ExitOpened
  <2>2. CASE UNCHANGED codingVars
    BY <2>2 DEF codingVars, wires, OpenedInv, KeysOwned, OpenedIsSpent
  <2> QED
    BY <2>1, <2>2
<1> QED
  BY <1>1, <1>2 DEF OpenedInv

LEMMA OpenedInvariant == CodingSpec => []OpenedInv
<1>1. CodingInit => OpenedInv
  BY OpenedInitInv
<1> QED
  BY <1>1, OpenedStepInv, PTL DEF CodingSpec
-----------------------------------------------------------------------------
(* The results.                                                            *)

LEMMA PacketsAreTyped == \A m \in Packets : IsPacket(m)
BY DEF Packets, Negotiations, DataPackets, PacketRecords, NoPacket, IsPacket, KeyOrNone,
   PacketTypes

LEMMA SessionsAreTyped == \A s \in Sessions : IsSession(s)
<1> SUFFICES ASSUME NEW s \in Sessions PROVE IsSession(s)
  OBVIOUS
<1>1. s.keyCache \in Caches
  BY DEF Sessions, SessionRecords
<1>2. DOMAIN s.keyCache \subseteq Key \X Key /\ s.keyCache \in [DOMAIN s.keyCache -> Counters]
  BY <1>1, CacheType
<1>3. s \in [state : Negotiating \cup {"Done"}, receivedDH : KeyOrNone,
             receivedDHKey : KeyOrNone, keyID : Nat, myKey : KeyOrNone,
             myNextKey : KeyOrNone, theirKeyID : Nat, theirKey : KeyOrNone,
             theirPreviousKey : KeyOrNone, keyCache : {s.keyCache},
             stallingTheirRoll : BOOLEAN, timeToRoll : BOOLEAN,
             missedAck : BOOLEAN, receivedAck : BOOLEAN]
  BY DEF Sessions, SessionRecords
<1> QED
  BY <1>2, <1>3 DEF IsSession

LEMMA CodersAreTyped == \A c \in Coders : IsCoder(c)
<1> SUFFICES ASSUME NEW c \in Coders PROVE IsCoder(c)
  OBVIOUS
<1>1. /\ c.session \in Sessions /\ c.pendingResponse \in Packets
      /\ c.lastReceived \in Packets
  BY DEF Coders, Packets
<1>2. c \in [session : {c.session}, waitingForDataPacket : BOOLEAN,
              pendingResponse : {c.pendingResponse}, lastReceived : {c.lastReceived},
              lastReceivedWasOld : BOOLEAN]
  BY DEF Coders
<1> QED
  BY <1>1, <1>2, PacketsAreTyped, SessionsAreTyped DEF IsCoder

LEMMA OneMore ==
    ASSUME NEW S, IsFiniteSet(S), NEW n \in Nat, Cardinality(S) <= n, NEW x
    PROVE  IsFiniteSet(S \cup {x}) /\ Cardinality(S \cup {x}) <= n + 1
<1>1. Cardinality(S) \in Nat
  BY FS_CardinalityType
<1>2. /\ IsFiniteSet(S \cup {x})
      /\ Cardinality(S \cup {x}) = IF x \in S THEN Cardinality(S) ELSE Cardinality(S) + 1
  BY FS_AddElement
<1> QED
  BY <1>1, <1>2

LEMMA PairsFit ==
    ASSUME NEW a, NEW b, NEW x, NEW y, NEW S,
           S \subseteq {<<a, x>>, <<a, y>>, <<b, x>>, <<b, y>>}
    PROVE  Cardinality(S) <= 4
<1> DEFINE T1 == {<<a, x>>}
           T2 == T1 \cup {<<a, y>>}
           T3 == T2 \cup {<<b, x>>}
           T4 == T3 \cup {<<b, y>>}
<1>1. IsFiniteSet(T1) /\ Cardinality(T1) <= 1
  <2>1. IsFiniteSet(T1) /\ Cardinality(T1) = 1
    BY FS_Singleton, Zenon
  <2> QED
    BY <2>1
<1>2. S \subseteq T4
  OBVIOUS
<1> HIDE DEF T1
<1>3. IsFiniteSet(T2) /\ Cardinality(T2) <= 2
  <2>1. IsFiniteSet(T1 \cup {<<a, y>>}) /\ Cardinality(T1 \cup {<<a, y>>}) <= 1 + 1
    BY <1>1, OneMore, Zenon
  <2>2. T2 = T1 \cup {<<a, y>>}
    OBVIOUS
  <2> HIDE DEF T2
  <2> QED
    BY <2>1, <2>2
<1> HIDE DEF T2
<1>4. IsFiniteSet(T3) /\ Cardinality(T3) <= 3
  <2>1. IsFiniteSet(T2 \cup {<<b, x>>}) /\ Cardinality(T2 \cup {<<b, x>>}) <= 2 + 1
    BY <1>3, OneMore, Zenon
  <2>2. T3 = T2 \cup {<<b, x>>}
    OBVIOUS
  <2> HIDE DEF T3
  <2> QED
    BY <2>1, <2>2
<1> HIDE DEF T3
<1>5. IsFiniteSet(T4) /\ Cardinality(T4) <= 4
  <2>1. IsFiniteSet(T3 \cup {<<b, y>>}) /\ Cardinality(T3 \cup {<<b, y>>}) <= 3 + 1
    BY <1>4, OneMore, Zenon
  <2>2. T4 = T3 \cup {<<b, y>>}
    OBVIOUS
  <2> HIDE DEF T4
  <2> QED
    BY <2>1, <2>2
<1> HIDE DEF T4
<1>6. IsFiniteSet(S) /\ Cardinality(S) <= Cardinality(T4)
  BY <1>2, <1>5, FS_Subset
<1>7. Cardinality(S) \in Nat /\ Cardinality(T4) \in Nat
  BY <1>5, <1>6, FS_CardinalityType
<1> QED
  BY <1>5, <1>6, <1>7

(* Whatever is received, sent, saved, forgotten or read back, the coders,  *)
(* the messages in the store and the engines' flags keep their types: no   *)
(* handler of SecOTRSession.c or SOSCoder.c is run on a session whose      *)
(* state lacks the keys that the handler uses.                             *)
THEOREM CodingTypeCorrect == CodingSpec => []CodingTypeOK
<1>1. ASSUME CodingInv PROVE CodingTypeOK
  <2>1. ASSUME NEW p \in Peer
        PROVE  /\ IsCoder(coder[p]) /\ IsCoder(saved[p].coder)
               /\ saved[p].mustSend \in BOOLEAN /\ saved[p].work \in BOOLEAN
               /\ IsPacket(kvs[p])
    <3>1. coder[p] \in Coders /\ saved[p] \in SavedStates /\ kvs[p] \in Packets
      BY <1>1 DEF CodingInv, CodersTyped, StoreTyped
    <3> QED
      BY <3>1, CodersAreTyped, PacketsAreTyped DEF SavedStates
  <2>2. {mustSend, work, dirty, timer, sync, unread} \subseteq [Peer -> BOOLEAN]
    BY <1>1 DEF CodingInv, EnginesTyped, StoreTyped
  <2>3. /\ {made, seen, opened} \subseteq [Peer -> Nat]
        /\ setback \in {"none", "restart", "exit"} /\ faults \in 0 .. MaxFaults
    BY <1>1 DEF CodingInv, HistoryTyped
  <2> QED
    BY <2>1, <2>2, <2>3 DEF CodingTypeOK
<1> QED
  BY <1>1, CodingInvariant, PTL

(* SecOTRSFindKeysForMessage always finds a place for a pair of keys: the  *)
(* cache holds pairs of this end's current and next key with the other     *)
(* end's current and previous one, so never more than four, and no pair in *)
(* use loses its counters to the "cache miss, spooky" branch.              *)
THEOREM KeyCacheFits == CodingSpec => []CacheFits
<1>1. ASSUME CodingInv PROVE CacheFits
  <2> SUFFICES ASSUME NEW p \in Peer
               PROVE  /\ CacheIsCurrent(coder[p].session)
                      /\ Cardinality(DOMAIN coder[p].session.keyCache) <= kOTRKeyCacheSize
    BY DEF CacheFits
  <2> DEFINE s == coder[p].session
  <2>1. s \in Sessions
    BY <1>1 DEF CodingInv, CodersTyped, Coders
  <2> HIDE DEF s
  <2>2. s.keyCache \in Caches
    BY <2>1 DEF Sessions, SessionRecords
  <2>3. ASSUME NEW pair \in DOMAIN s.keyCache
        PROVE  /\ pair = <<pair[1], pair[2]>> /\ pair[1] \in Key /\ pair[2] \in Key
               /\ pair[1] \in {s.myKey, s.myNextKey}
               /\ pair[2] \in {s.theirKey, s.theirPreviousKey}
    BY <2>1, <2>2, CacheType DEF Sessions, PairsAreCurrent
  <2>4. DOMAIN s.keyCache \subseteq
          {<<s.myKey, s.theirKey>>, <<s.myKey, s.theirPreviousKey>>,
           <<s.myNextKey, s.theirKey>>, <<s.myNextKey, s.theirPreviousKey>>}
    <3> SUFFICES ASSUME NEW pair \in DOMAIN s.keyCache
                 PROVE  pair \in {<<s.myKey, s.theirKey>>, <<s.myKey, s.theirPreviousKey>>,
                          <<s.myNextKey, s.theirKey>>, <<s.myNextKey, s.theirPreviousKey>>}
      OBVIOUS
    <3> QED
      BY <2>3
  <2>5. Cardinality(DOMAIN s.keyCache) <= 4
    BY <2>4, PairsFit
  <2>6. CacheIsCurrent(s)
    <3> SUFFICES ASSUME NEW pair \in DOMAIN s.keyCache
                 PROVE  pair \in ({s.myKey, s.myNextKey} \X {s.theirKey, s.theirPreviousKey})
                                 \ (KeyOrNone \X {NoKey})
      BY DEF CacheIsCurrent
    <3>1. pair[2] # NoKey
      BY <2>3
    <3>2. pair \in {s.myKey, s.myNextKey} \X {s.theirKey, s.theirPreviousKey}
      BY <2>3
    <3>3. pair \notin KeyOrNone \X {NoKey}
      BY <3>1
    <3> QED
      BY <3>2, <3>3
  <2> QED
    BY <2>5, <2>6 DEF s, kOTRKeyCacheSize
<1> QED
  BY <1>1, CodingInvariant, PTL

(* SecOTRSession's counters: as long as no process exits, a message is     *)
(* exposed to the engine once, however often the store hands it over,      *)
(* whatever was sent, drawn and accepted since and however often the       *)
(* negotiation was started anew.                                           *)
THEOREM MessagesAreOpenedOnce == CodingSpec => []OpenedOnce
<1>1. ASSUME OpenedInv PROVE OpenedOnce
  <2> SUFFICES ASSUME setback # "exit", NEW p \in Peer PROVE opened[p] <= 1
    BY DEF OpenedOnce
  <2>1. opened[p] \in Nat
    BY <1>1 DEF OpenedInv, CodingInv, HistoryTyped
  <2>2. opened[p] > 0 => opened[p] = 1
    BY <1>1 DEF OpenedInv, OpenedIsSpent
  <2> QED
    BY <2>1, <2>2
<1> QED
  BY <1>1, OpenedInvariant, PTL
=============================================================================
