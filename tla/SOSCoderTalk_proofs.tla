------------------------- MODULE SOSCoderTalk_proofs -------------------------
(***************************************************************************)
(* Two coders that can both wrap understand each other, for any keys and   *)
(* any number of changes, repeated messages, timers and lost coders:       *)
(* CanTalk.                                                                *)
(*                                                                         *)
(* First the sessions: InTouch relates two ends that are done, and the     *)
(* messages they have in the store; each operation of an end keeps it, and *)
(* it lets either end send.  Then the negotiation: Between says what each  *)
(* end may conclude from the other's message while one of them is not done *)
(* yet, so that the end that is done last is in touch with the first.      *)
(***************************************************************************)
EXTENDS SOSCoder_proofs

USE KeyAssumption, SlowRollAssumption, PeerAssumption, KeysAssumption, BoundAssumption
    DEF KeyAssumption, SlowRollAssumption, PeerAssumption, KeysAssumption,
        BoundAssumption
-----------------------------------------------------------------------------
(* What a session has counted for a pair of keys, one of its own and one   *)
(* of the other end's: the packets it has sent with the pair and those it  *)
(* has taken.                                                              *)
Mine(s, a, b) == IF <<a, b>> \in DOMAIN s.keyCache THEN s.keyCache[<<a, b>>].mine ELSE 0
Theirs(s, a, b) == IF <<a, b>> \in DOMAIN s.keyCache THEN s.keyCache[<<a, b>>].theirs ELSE 0

SameCounts(t, s) ==
    \A a, b : Mine(t, a, b) = Mine(s, a, b) /\ Theirs(t, a, b) = Theirs(s, a, b)

(* Those of the key k have been forgotten.                                 *)
CountsWithout(t, s, k) ==
    \A a, b :
        /\ k \in {a, b} => Mine(t, a, b) = 0 /\ Theirs(t, a, b) = 0
        /\ k \notin {a, b} => /\ Mine(t, a, b) = Mine(s, a, b)
                              /\ Theirs(t, a, b) = Theirs(s, a, b)

LEMMA CountsAreNumbers ==
    ASSUME NEW s, s.keyCache \in Caches
    PROVE  \A a, b : Mine(s, a, b) \in Nat /\ Theirs(s, a, b) \in Nat
BY CacheType DEF Mine, Theirs, Counters

LEMMA CountsAreOfCurrentKeys ==
    ASSUME NEW s \in Sessions, NEW a, NEW b, Mine(s, a, b) # 0 \/ Theirs(s, a, b) # 0
    PROVE  /\ a \in {s.myKey, s.myNextKey} /\ b \in {s.theirKey, s.theirPreviousKey}
           /\ a \in Key /\ b \in Key
<1>1. s.keyCache \in Caches /\ PairsAreCurrent(s)
  BY DEF Sessions, SessionRecords
<1>2. <<a, b>> \in DOMAIN s.keyCache
  BY DEF Mine, Theirs
<1>3. <<a, b>>[1] = a /\ <<a, b>>[2] = b
  OBVIOUS
<1>4. <<a, b>>[1] \in Key /\ <<a, b>>[2] \in Key
  BY <1>1, <1>2, CacheType
<1>5. /\ <<a, b>>[1] \in {s.myKey, s.myNextKey}
      /\ <<a, b>>[2] \in {s.theirKey, s.theirPreviousKey}
  BY <1>1, <1>2 DEF PairsAreCurrent
<1> QED
  BY <1>3, <1>4, <1>5

LEMMA WithoutCounts ==
    ASSUME NEW s, NEW t, NEW k, s.keyCache \in Caches, t.keyCache = Without(s.keyCache, k)
    PROVE  CountsWithout(t, s, k)
<1> SUFFICES ASSUME NEW a, NEW b
             PROVE  /\ k \in {a, b} => Mine(t, a, b) = 0 /\ Theirs(t, a, b) = 0
                    /\ k \notin {a, b} => /\ Mine(t, a, b) = Mine(s, a, b)
                                          /\ Theirs(t, a, b) = Theirs(s, a, b)
  BY DEF CountsWithout
<1> DEFINE pair == <<a, b>>
<1>1. pair[1] = a /\ pair[2] = b
  OBVIOUS
<1>2. /\ Mine(t, a, b) = IF pair \in DOMAIN t.keyCache THEN t.keyCache[pair].mine ELSE 0
      /\ Theirs(t, a, b) = IF pair \in DOMAIN t.keyCache THEN t.keyCache[pair].theirs ELSE 0
      /\ Mine(s, a, b) = IF pair \in DOMAIN s.keyCache THEN s.keyCache[pair].mine ELSE 0
      /\ Theirs(s, a, b) = IF pair \in DOMAIN s.keyCache THEN s.keyCache[pair].theirs ELSE 0
  BY DEF Mine, Theirs
<1> HIDE DEF pair
<1>3. pair \in DOMAIN t.keyCache <=> pair \in DOMAIN s.keyCache /\ k # a /\ k # b
  BY <1>1, WithoutType
<1>4. pair \in DOMAIN t.keyCache => t.keyCache[pair] = s.keyCache[pair]
  BY <1>1, <1>3, WithoutKeeps
<1> QED
  BY <1>2, <1>3, <1>4

(* A pair that gets a place has counted nothing.                           *)
LEMMA FindKeysCounts ==
    ASSUME NEW s \in SessionRecords, NEW x, NEW y
    PROVE  LET t == FindKeys(s, x, y)
           IN /\ SameCounts(t, s) /\ SameButCache(t, s)
              /\ t.stallingTheirRoll = s.stallingTheirRoll
              /\ t.missedAck = s.missedAck /\ t.receivedAck = s.receivedAck
<1> DEFINE t == FindKeys(s, x, y)
<1>1. CASE t = s
  BY <1>1 DEF SameCounts, SameButCache
<1>2. CASE t # s
  <2> DEFINE P == DOMAIN s.keyCache \cup {<<x, y>>}
             kc == [p \in P |-> IF p \in DOMAIN s.keyCache THEN s.keyCache[p]
                                ELSE [mine |-> 0, theirs |-> 0]]
  <2>1. t = [s EXCEPT !.keyCache = kc]
    BY <1>2 DEF FindKeys
  <2>2. /\ \A p \in DOMAIN s.keyCache : p \in DOMAIN kc /\ kc[p] = s.keyCache[p]
        /\ \A p \in DOMAIN kc : p \notin DOMAIN s.keyCache => kc[p].mine = 0 /\ kc[p].theirs = 0
    OBVIOUS
  <2> HIDE DEF kc, t
  <2>3. /\ t.keyCache = kc /\ SameButCache(t, s)
        /\ t.stallingTheirRoll = s.stallingTheirRoll
        /\ t.missedAck = s.missedAck /\ t.receivedAck = s.receivedAck
    BY <2>1 DEF SessionRecords, SameButCache
  <2>4. SameCounts(t, s)
    <3> SUFFICES ASSUME NEW a, NEW b
                 PROVE  Mine(t, a, b) = Mine(s, a, b) /\ Theirs(t, a, b) = Theirs(s, a, b)
      BY DEF SameCounts
    <3> DEFINE pair == <<a, b>>
    <3>1. /\ Mine(t, a, b) = IF pair \in DOMAIN kc THEN kc[pair].mine ELSE 0
          /\ Theirs(t, a, b) = IF pair \in DOMAIN kc THEN kc[pair].theirs ELSE 0
          /\ Mine(s, a, b) = IF pair \in DOMAIN s.keyCache THEN s.keyCache[pair].mine ELSE 0
          /\ Theirs(s, a, b) = IF pair \in DOMAIN s.keyCache THEN s.keyCache[pair].theirs ELSE 0
      BY <2>3 DEF Mine, Theirs
    <3> HIDE DEF pair
    <3> QED
      BY <2>2, <3>1
  <2> QED
    BY <2>3, <2>4 DEF t
<1> QED
  BY <1>1, <1>2

LEMMA CountedCounts ==
    ASSUME NEW s \in SessionRecords, NEW x, NEW y, <<x, y>> \in DOMAIN s.keyCache,
           NEW counters \in Counters
    PROVE  LET t == Counted(s, <<x, y>>, counters)
           IN /\ Mine(t, x, y) = counters.mine /\ Theirs(t, x, y) = counters.theirs
              /\ \A a, b : <<a, b>> # <<x, y>> =>
                   Mine(t, a, b) = Mine(s, a, b) /\ Theirs(t, a, b) = Theirs(s, a, b)
              /\ SameButCache(t, s)
              /\ t.stallingTheirRoll = s.stallingTheirRoll
              /\ t.missedAck = s.missedAck /\ t.receivedAck = s.receivedAck
<1> DEFINE pair == <<x, y>>
           kc == [s.keyCache EXCEPT ![pair] = counters]
           t == Counted(s, pair, counters)
<1>1. s.keyCache \in Caches
  BY DEF SessionRecords
<1>2. s.keyCache \in [DOMAIN s.keyCache -> Counters]
  BY <1>1, CacheType
<1>3. /\ DOMAIN kc = DOMAIN s.keyCache /\ kc[pair] = counters
      /\ \A p \in DOMAIN s.keyCache : p # pair => kc[p] = s.keyCache[p]
  BY <1>2
<1>4. t = [s EXCEPT !.keyCache = kc]
  BY DEF Counted
<1> HIDE DEF kc, t
<1>5. /\ t.keyCache = kc /\ SameButCache(t, s)
      /\ t.stallingTheirRoll = s.stallingTheirRoll
      /\ t.missedAck = s.missedAck /\ t.receivedAck = s.receivedAck
  BY <1>1, <1>4 DEF SessionRecords, SameButCache
<1>6. Mine(t, x, y) = counters.mine /\ Theirs(t, x, y) = counters.theirs
  BY <1>3, <1>5 DEF Mine, Theirs
<1>7. ASSUME NEW a, NEW b, <<a, b>> # pair
      PROVE  Mine(t, a, b) = Mine(s, a, b) /\ Theirs(t, a, b) = Theirs(s, a, b)
  <2>1. /\ Mine(t, a, b) = IF <<a, b>> \in DOMAIN kc THEN kc[<<a, b>>].mine ELSE 0
        /\ Theirs(t, a, b) = IF <<a, b>> \in DOMAIN kc THEN kc[<<a, b>>].theirs ELSE 0
    BY <1>5 DEF Mine, Theirs
  <2>2. <<a, b>> \in DOMAIN s.keyCache => kc[<<a, b>>] = s.keyCache[<<a, b>>]
    BY <1>3, <1>7
  <2> QED
    BY <1>3, <2>1, <2>2 DEF Mine, Theirs
<1> QED
  BY <1>5, <1>6, <1>7 DEF t
-----------------------------------------------------------------------------
(* What the steps of an end do to its keys and counts.                     *)

SameEnds(t, s) ==
    /\ t.state = s.state /\ t.keyID = s.keyID /\ t.myKey = s.myKey
    /\ t.myNextKey = s.myNextKey /\ t.theirKeyID = s.theirKeyID
    /\ t.theirKey = s.theirKey /\ t.theirPreviousKey = s.theirPreviousKey

(* Nothing, but for a stall that may have ended.                           *)
Kept(t, s) ==
    /\ SameEnds(t, s) /\ SameCounts(t, s)
    /\ t.receivedAck <=> s.receivedAck
    /\ t.stallingTheirRoll => s.stallingTheirRoll

(* Its next key is now its key.                                            *)
Advanced(t, s, next) ==
    /\ t.state = s.state /\ t.keyID = s.keyID + 1 /\ t.myKey = s.myNextKey
    /\ t.myNextKey = next /\ t.theirKeyID = s.theirKeyID
    /\ t.theirKey = s.theirKey /\ t.theirPreviousKey = s.theirPreviousKey
    /\ CountsWithout(t, s, s.myKey)
    /\ ~t.receivedAck
    /\ t.stallingTheirRoll => s.stallingTheirRoll

(* The other end's next key is its key, the one before that its previous.  *)
Accepted(t, s, k) ==
    /\ t.state = s.state /\ t.keyID = s.keyID /\ t.myKey = s.myKey
    /\ t.myNextKey = s.myNextKey /\ t.theirKeyID = s.theirKeyID + 1
    /\ t.theirKey = k /\ t.theirPreviousKey = s.theirKey
    /\ CountsWithout(t, s, s.theirPreviousKey)
    /\ t.receivedAck <=> s.receivedAck

(* It has learned that the other end has its next key.                     *)
Acknowledged(t, s) ==
    /\ SameEnds(t, s) /\ SameCounts(t, s)
    /\ t.stallingTheirRoll <=> s.stallingTheirRoll

Rolled(t, s, next) == Kept(t, s) \/ (s.receivedAck /\ Advanced(t, s, next))

LEMMA RollIfTimeRolls ==
    ASSUME NEW s \in SessionRecords, NEW next, NEW over
    PROVE  Rolled(RollIfTime(s, next, over), s, next)
<1> DEFINE t == RollIfTime(s, next, over)
           kc == Without(s.keyCache, s.myKey)
<1>1. CASE t = s
  BY <1>1 DEF Rolled, Kept, SameEnds, SameCounts
<1>2. CASE t # s /\ s.receivedAck
  <2>1. t = [[[s EXCEPT !.stallingTheirRoll = FALSE, !.timeToRoll = FALSE] EXCEPT
                 !.keyCache = kc, !.myKey = s.myNextKey, !.myNextKey = next,
                 !.keyID = s.keyID + 1] EXCEPT
                 !.missedAck = FALSE, !.receivedAck = FALSE]
    <3> DEFINE going == [s EXCEPT !.stallingTheirRoll = FALSE, !.timeToRoll = FALSE]
    <3>1. t = [GenerateNewProposedKey(going, next) EXCEPT
                  !.missedAck = FALSE, !.receivedAck = FALSE]
      BY <1>2 DEF RollIfTime, Roll
    <3>2. /\ going.keyCache = s.keyCache /\ going.myKey = s.myKey
          /\ going.myNextKey = s.myNextKey /\ going.keyID = s.keyID
      BY DEF SessionRecords
    <3> HIDE DEF t, going
    <3>3. GenerateNewProposedKey(going, next)
            = [going EXCEPT !.keyCache = kc, !.myKey = s.myNextKey, !.myNextKey = next,
                            !.keyID = s.keyID + 1]
      BY <3>2 DEF GenerateNewProposedKey
    <3> HIDE DEF kc
    <3> QED
      BY <3>1, <3>3 DEF going
  <2> HIDE DEF kc, t
  <2>2. /\ t.keyCache = kc /\ t.myKey = s.myNextKey /\ t.myNextKey = next
        /\ t.state = s.state /\ t.keyID = s.keyID + 1 /\ t.theirKeyID = s.theirKeyID
        /\ t.theirKey = s.theirKey /\ t.theirPreviousKey = s.theirPreviousKey
        /\ ~t.receivedAck /\ ~t.stallingTheirRoll
    BY <2>1 DEF SessionRecords
  <2>3. CountsWithout(t, s, s.myKey)
    BY <2>2, WithoutCounts DEF kc, SessionRecords
  <2> QED
    BY <1>2, <2>2, <2>3 DEF Rolled, Advanced, t
<1>3. CASE t # s /\ ~s.receivedAck
  <2>1. t = [s EXCEPT !.stallingTheirRoll = FALSE, !.timeToRoll = FALSE, !.missedAck = TRUE]
    BY <1>3 DEF RollIfTime, Roll, SessionRecords
  <2> HIDE DEF t
  <2>2. /\ t.keyCache = s.keyCache /\ SameEnds(t, s)
        /\ t.receivedAck = s.receivedAck /\ ~t.stallingTheirRoll
    BY <2>1 DEF SessionRecords, SameEnds
  <2>3. SameCounts(t, s)
    BY <2>2 DEF SameCounts, Mine, Theirs
  <2> QED
    BY <2>2, <2>3 DEF Rolled, Kept, t
<1> QED
  BY <1>1, <1>2, <1>3

LEMMA AcknowledgeSteps ==
    ASSUME NEW s \in SessionRecords, NotBoth(s), NEW next
    PROVE  LET t == HandleProposalAcknowledge(s, next)
           IN Advanced(t, s, next) \/ Acknowledged(t, s)
<1> DEFINE t == HandleProposalAcknowledge(s, next)
           kc == Without(s.keyCache, s.myKey)
<1>1. CASE s.missedAck
  <2>1. t = [[s EXCEPT !.keyCache = kc, !.myKey = s.myNextKey, !.myNextKey = next,
                       !.keyID = s.keyID + 1] EXCEPT !.missedAck = FALSE]
    BY <1>1 DEF HandleProposalAcknowledge, GenerateNewProposedKey
  <2> HIDE DEF kc, t
  <2>2. /\ t.keyCache = kc /\ t.myKey = s.myNextKey /\ t.myNextKey = next
        /\ t.state = s.state /\ t.keyID = s.keyID + 1 /\ t.theirKeyID = s.theirKeyID
        /\ t.theirKey = s.theirKey /\ t.theirPreviousKey = s.theirPreviousKey
        /\ t.receivedAck = s.receivedAck /\ t.stallingTheirRoll = s.stallingTheirRoll
    BY <2>1 DEF SessionRecords
  <2>3. CountsWithout(t, s, s.myKey)
    BY <2>2, WithoutCounts DEF kc, SessionRecords
  <2> QED
    BY <1>1, <2>2, <2>3 DEF Advanced, NotBoth, t
<1>2. CASE ~s.missedAck
  <2>1. t = [s EXCEPT !.receivedAck = TRUE, !.timeToRoll = SlowRoll]
    BY <1>2 DEF HandleProposalAcknowledge
  <2> HIDE DEF t
  <2>2. /\ t.keyCache = s.keyCache /\ SameEnds(t, s)
        /\ t.stallingTheirRoll = s.stallingTheirRoll
    BY <2>1 DEF SessionRecords, SameEnds
  <2>3. SameCounts(t, s)
    BY <2>2 DEF SameCounts, Mine, Theirs
  <2> QED
    BY <2>2, <2>3 DEF Acknowledged, t
<1> QED
  BY <1>1, <1>2

LEMMA AcceptSteps ==
    ASSUME NEW s \in Sessions, NEW k
    PROVE  Accepted(AcceptNewRemoteKey(s, k), s, k)
<1> DEFINE t == AcceptNewRemoteKey(s, k)
           kc == IF s.theirPreviousKey = NoKey THEN s.keyCache
                 ELSE Without(s.keyCache, s.theirPreviousKey)
<1>1. s \in SessionRecords /\ s.keyCache \in Caches
  BY DEF Sessions, SessionRecords
<1>2. t = [s EXCEPT !.keyCache = kc, !.theirPreviousKey = s.theirKey, !.theirKey = k,
                    !.stallingTheirRoll = TRUE, !.theirKeyID = s.theirKeyID + 1,
                    !.timeToRoll = SlowRoll]
  BY DEF AcceptNewRemoteKey
<1>3. /\ s.theirPreviousKey = NoKey => kc = s.keyCache
      /\ s.theirPreviousKey # NoKey => kc = Without(s.keyCache, s.theirPreviousKey)
  OBVIOUS
<1> HIDE DEF kc, t
<1>4. /\ t.keyCache = kc /\ t.state = s.state /\ t.keyID = s.keyID /\ t.myKey = s.myKey
      /\ t.myNextKey = s.myNextKey /\ t.theirKeyID = s.theirKeyID + 1
      /\ t.theirKey = k /\ t.theirPreviousKey = s.theirKey
      /\ t.receivedAck = s.receivedAck
  BY <1>1, <1>2 DEF SessionRecords
<1>5. CountsWithout(t, s, s.theirPreviousKey)
  <2>1. CASE s.theirPreviousKey = NoKey
    <3>1. \A a, b : Mine(t, a, b) = Mine(s, a, b) /\ Theirs(t, a, b) = Theirs(s, a, b)
      BY <1>3, <1>4, <2>1 DEF Mine, Theirs
    <3>2. \A a, b : NoKey \in {a, b} => Mine(s, a, b) = 0 /\ Theirs(s, a, b) = 0
      BY CountsAreOfCurrentKeys
    <3> QED
      BY <2>1, <3>1, <3>2 DEF CountsWithout
  <2>2. CASE s.theirPreviousKey # NoKey
    BY <1>1, <1>3, <1>4, <2>2, WithoutCounts
  <2> QED
    BY <2>1, <2>2
<1> QED
  BY <1>4, <1>5 DEF Accepted, t
-----------------------------------------------------------------------------
(* Two ends that have negotiated, s and t.                                 *)

(* It would use the other end's previous key.                              *)
Stalls(s) == s.stallingTheirRoll /\ s.theirPreviousKey # NoKey

(* What t knows of s's keys: it has the current one, or has the next one   *)
(* already and keeps the current one as the previous.  Until it has the    *)
(* next key nothing it sends acknowledges it, and once s knows that it has *)
(* it, t uses it.                                                          *)
View(s, t) ==
    \/ /\ t.theirKeyID = s.keyID /\ t.theirKey = s.myKey
       /\ t.theirPreviousKey \notin {s.myKey, s.myNextKey}
       /\ ~s.receivedAck /\ ~Stalls(t)
    \/ /\ t.theirKeyID = s.keyID + 1 /\ t.theirKey = s.myNextKey
       /\ t.theirPreviousKey = s.myKey
       /\ s.receivedAck => ~Stalls(t)

(* t has not counted more of s's packets than s has made with its keys.    *)
CountsFit(s, t) ==
    \A a \in {s.myKey, s.myNextKey}, b \in Key : Theirs(t, b, a) <= Mine(s, a, b)

(* m is the message s has in the store: it was made with a key older than  *)
(* the next one, and if with the current one it proposes the next; it      *)
(* acknowledges t's next key only if s has it and uses it; and s has       *)
(* counted it.                                                             *)
Follows(m, s, t) ==
    m.type = "Data" =>
        /\ m.from # s.myNextKey
        /\ m.from = s.myKey => m.next = s.myNextKey
        /\ m.to = t.myNextKey => s.theirKey = t.myNextKey /\ ~Stalls(s)
        /\ m.from = s.myKey /\ m.to \in {t.myKey, t.myNextKey}
           => m.counter <= Mine(s, m.from, m.to)

InTouch(s, t, m, n) ==
    /\ View(s, t) /\ View(t, s)
    /\ CountsFit(s, t) /\ CountsFit(t, s)
    /\ Follows(m, s, t) /\ Follows(n, t, s)

(* Both ends' keys are apart.                                              *)
Ends(s, t, A, B) ==
    /\ s \in Sessions /\ t \in Sessions /\ Apart(A, B)
    /\ KeysApart(s, A, B) /\ KeysApart(t, B, A)
    /\ s.state = "Done" /\ t.state = "Done"

(* A key that neither end nor a message in the store has.                  *)
Unseen(k, s, t, m, n) ==
    /\ k # NoKey /\ k \notin {s.myKey, s.myNextKey}
    /\ k \notin {t.theirKey, t.theirPreviousKey} /\ k \notin {m.from, n.to}

LEMMA EndsKeys ==
    ASSUME NEW s, NEW t, NEW A, NEW B, Ends(s, t, A, B)
    PROVE  /\ s.myKey \in A /\ s.myNextKey \in A /\ s.myKey # s.myNextKey
           /\ t.myKey \in B /\ t.myNextKey \in B /\ t.myKey # t.myNextKey
           /\ s.theirKey \in B /\ t.theirKey \in A
           /\ s.theirPreviousKey \in B \cup {NoKey}
           /\ t.theirPreviousKey \in A \cup {NoKey}
           /\ s.keyID \in Nat /\ t.keyID \in Nat
           /\ s.theirKeyID \in Nat /\ t.theirKeyID \in Nat
           /\ \A k : k \in A => k \in Key /\ k # NoKey /\ k \notin B
           /\ \A k : k \in B => k \in Key /\ k # NoKey /\ k \notin A
<1>1. s \in SessionRecords /\ t \in SessionRecords
  BY DEF Ends, Sessions
<1>2. /\ s.myKey # NoKey /\ s.myNextKey # NoKey /\ s.theirKey # NoKey
      /\ t.myKey # NoKey /\ t.myNextKey # NoKey /\ t.theirKey # NoKey
  BY DEF Ends, Sessions, HasItsKeys
<1>3. \A k : k \in A \/ k \in B => k \in Key /\ k # NoKey
  BY DEF Ends, Apart
<1>4. A \cap B = {}
  BY DEF Ends, Apart
<1> QED
  BY <1>1, <1>2, <1>3, <1>4 DEF Ends, KeysApart, OneOf, SessionRecords

LEMMA KeptInTouch ==
    ASSUME NEW s, NEW t, NEW m, NEW n, NEW r, Kept(r, s), InTouch(s, t, m, n)
    PROVE  InTouch(r, t, m, n)
<1>1. Stalls(r) => Stalls(s)
  BY DEF Stalls, Kept, SameEnds
<1>2. /\ r.keyID = s.keyID /\ r.myKey = s.myKey /\ r.myNextKey = s.myNextKey
      /\ r.theirKeyID = s.theirKeyID /\ r.theirKey = s.theirKey
      /\ r.theirPreviousKey = s.theirPreviousKey /\ (r.receivedAck <=> s.receivedAck)
      /\ \A a, b : Mine(r, a, b) = Mine(s, a, b) /\ Theirs(r, a, b) = Theirs(s, a, b)
  BY DEF Kept, SameEnds, SameCounts
<1>3. View(r, t) /\ View(t, r)
  BY <1>1, <1>2 DEF InTouch, View
<1>4. CountsFit(r, t) /\ CountsFit(t, r)
  BY <1>2 DEF InTouch, CountsFit
<1>5. Follows(m, r, t) /\ Follows(n, t, r)
  BY <1>1, <1>2 DEF InTouch, Follows
<1> QED
  BY <1>3, <1>4, <1>5 DEF InTouch

(* This end rolls its key: the other has the next one.                     *)
LEMMA AdvancedView ==
    ASSUME NEW s, NEW t, NEW A, NEW B, Ends(s, t, A, B), NEW next, NEW r,
           Advanced(r, s, next), View(s, t), View(t, s), t.theirKey = s.myNextKey,
           ~Stalls(t), next # s.myKey
    PROVE  View(r, t) /\ View(t, r)
<1>1. /\ r.keyID = s.keyID + 1 /\ r.myKey = s.myNextKey /\ r.myNextKey = next
      /\ r.theirKeyID = s.theirKeyID /\ r.theirKey = s.theirKey
      /\ r.theirPreviousKey = s.theirPreviousKey /\ ~r.receivedAck
      /\ Stalls(r) => Stalls(s)
  BY DEF Advanced, Stalls
<1>2. s.myKey # s.myNextKey
  BY EndsKeys
<1> QED
  BY <1>1, <1>2 DEF View

LEMMA AdvancedCounts ==
    ASSUME NEW s, NEW t, NEW A, NEW B, Ends(s, t, A, B), NEW next, NEW r,
           Advanced(r, s, next), CountsFit(s, t), CountsFit(t, s),
           next \notin {t.theirKey, t.theirPreviousKey} \/ next = NoKey
    PROVE  CountsFit(r, t) /\ CountsFit(t, r)
<1>1. /\ r.myKey = s.myNextKey /\ r.myNextKey = next
      /\ CountsWithout(r, s, s.myKey)
  BY DEF Advanced
<1>2. /\ s \in Sessions /\ t \in Sessions
      /\ s.keyCache \in Caches /\ t.keyCache \in Caches
  BY DEF Ends, Sessions, SessionRecords
<1>3. ASSUME NEW a \in {r.myKey, r.myNextKey}, NEW b \in Key
      PROVE  Theirs(t, b, a) <= Mine(r, a, b)
  <2>1. CASE Theirs(t, b, a) = 0
    <3>1. Mine(r, a, b) \in Nat
      BY <1>1, <1>2, CountsAreNumbers DEF CountsWithout
    <3> QED
      BY <2>1, <3>1
  <2>2. CASE Theirs(t, b, a) # 0
    <3>1. a \in {t.theirKey, t.theirPreviousKey} /\ a \in Key /\ b \in {t.myKey, t.myNextKey}
      BY <1>2, <2>2, CountsAreOfCurrentKeys
    <3>2. a = s.myNextKey
      BY <1>1, <3>1
    <3>3. s.myKey \notin {a, b}
      BY <3>1, <3>2, EndsKeys
    <3>4. Mine(r, a, b) = Mine(s, a, b)
      BY <1>1, <3>3 DEF CountsWithout
    <3> QED
      BY <3>2, <3>4 DEF CountsFit
  <2> QED
    BY <2>1, <2>2
<1>4. ASSUME NEW a \in {t.myKey, t.myNextKey}, NEW b \in Key
      PROVE  Theirs(r, b, a) <= Mine(t, a, b)
  <2>1. Theirs(r, b, a) = 0 \/ Theirs(r, b, a) = Theirs(s, b, a)
    BY <1>1 DEF CountsWithout
  <2>2. Mine(t, a, b) \in Nat
    BY <1>2, CountsAreNumbers
  <2>3. Theirs(s, b, a) <= Mine(t, a, b)
    BY DEF CountsFit
  <2> QED
    BY <2>1, <2>2, <2>3
<1> QED
  BY <1>3, <1>4 DEF CountsFit

LEMMA AdvancedInTouch ==
    ASSUME NEW s, NEW t, NEW A, NEW B, Ends(s, t, A, B), NEW m, NEW n, NEW next,
           InTouch(s, t, m, n), NEW r, Advanced(r, s, next),
           t.theirKey = s.myNextKey, ~Stalls(t), Unseen(next, s, t, m, n)
    PROVE  InTouch(r, t, m, n)
<1>1. View(r, t) /\ View(t, r)
  BY AdvancedView DEF InTouch, Unseen
<1>2. CountsFit(r, t) /\ CountsFit(t, r)
  BY AdvancedCounts DEF InTouch, Unseen
<1>3. /\ r.myKey = s.myNextKey /\ r.myNextKey = next /\ r.theirKey = s.theirKey
      /\ Stalls(r) => Stalls(s)
      /\ CountsWithout(r, s, s.myKey)
  BY DEF Advanced, Stalls
<1>4. Follows(m, r, t)
  BY <1>3 DEF InTouch, Follows, Unseen
<1>5. Follows(n, t, r)
  BY <1>3 DEF InTouch, Follows, Unseen
<1> QED
  BY <1>1, <1>2, <1>4, <1>5 DEF InTouch

(* If this end knows that the other has its next key, so it has.           *)
LEMMA AckIsTrue ==
    ASSUME NEW s, NEW t, View(s, t), s.receivedAck
    PROVE  t.theirKey = s.myNextKey /\ ~Stalls(t)
BY DEF View

LEMMA RolledInTouch ==
    ASSUME NEW s, NEW t, NEW A, NEW B, Ends(s, t, A, B), NEW m, NEW n, NEW next,
           InTouch(s, t, m, n), NEW r, Rolled(r, s, next),
           s.receivedAck => Unseen(next, s, t, m, n)
    PROVE  InTouch(r, t, m, n)
<1>1. CASE Kept(r, s)
  BY <1>1, KeptInTouch
<1>2. CASE s.receivedAck /\ Advanced(r, s, next)
  <2>1. t.theirKey = s.myNextKey /\ ~Stalls(t)
    BY <1>2, AckIsTrue DEF InTouch
  <2> QED
    BY <1>2, <2>1, AdvancedInTouch
<1> QED
  BY <1>1, <1>2 DEF Rolled

LEMMA AcknowledgedInTouch ==
    ASSUME NEW s, NEW t, NEW A, NEW B, Ends(s, t, A, B), NEW m, NEW n,
           InTouch(s, t, m, n), NEW r, Acknowledged(r, s),
           t.theirKey = s.myNextKey, ~Stalls(t)
    PROVE  InTouch(r, t, m, n)
<1>1. /\ r.keyID = s.keyID /\ r.myKey = s.myKey /\ r.myNextKey = s.myNextKey
      /\ r.theirKeyID = s.theirKeyID /\ r.theirKey = s.theirKey
      /\ r.theirPreviousKey = s.theirPreviousKey /\ (Stalls(r) <=> Stalls(s))
      /\ \A a, b : Mine(r, a, b) = Mine(s, a, b) /\ Theirs(r, a, b) = Theirs(s, a, b)
  BY DEF Acknowledged, SameEnds, SameCounts, Stalls
<1>2. s.myKey # s.myNextKey
  BY EndsKeys
<1>3. View(r, t) /\ View(t, r)
  BY <1>1, <1>2 DEF InTouch, View
<1>4. CountsFit(r, t) /\ CountsFit(t, r)
  BY <1>1 DEF InTouch, CountsFit
<1>5. Follows(m, r, t) /\ Follows(n, t, r)
  BY <1>1 DEF InTouch, Follows
<1> QED
  BY <1>3, <1>4, <1>5 DEF InTouch

(* The other end's packet proposed the key that is its next one.           *)
LEMMA AcceptedInTouch ==
    ASSUME NEW s, NEW t, NEW A, NEW B, Ends(s, t, A, B), NEW m, NEW n,
           InTouch(s, t, m, n), n.type = "Data", n.from = s.theirKey, NEW r,
           Accepted(r, s, n.next)
    PROVE  InTouch(r, t, m, n)
<1>1. /\ r.keyID = s.keyID /\ r.myKey = s.myKey /\ r.myNextKey = s.myNextKey
      /\ r.theirKeyID = s.theirKeyID + 1 /\ r.theirKey = n.next
      /\ r.theirPreviousKey = s.theirKey /\ (r.receivedAck <=> s.receivedAck)
      /\ CountsWithout(r, s, s.theirPreviousKey)
  BY DEF Accepted
<1>2. /\ s.theirKeyID = t.keyID /\ s.theirKey = t.myKey /\ ~t.receivedAck
      /\ s.theirPreviousKey \notin {t.myKey, t.myNextKey}
      /\ n.next = t.myNextKey
  BY DEF InTouch, View, Follows
<1>3. View(r, t) /\ View(t, r)
  BY <1>1, <1>2 DEF InTouch, View
<1>4. s.myKey # s.theirPreviousKey /\ s.myNextKey # s.theirPreviousKey /\ t.myKey # t.myNextKey
  BY EndsKeys
<1>5. /\ s \in Sessions /\ t \in Sessions
      /\ s.keyCache \in Caches /\ t.keyCache \in Caches
  BY DEF Ends, Sessions, SessionRecords
<1>6. ASSUME NEW a \in {r.myKey, r.myNextKey}, NEW b \in Key
      PROVE  Theirs(t, b, a) <= Mine(r, a, b)
  <2>1. CASE Theirs(t, b, a) = 0
    <3>1. Mine(r, a, b) \in Nat
      BY <1>1, <1>5, CountsAreNumbers DEF CountsWithout
    <3> QED
      BY <2>1, <3>1
  <2>2. CASE Theirs(t, b, a) # 0
    <3>1. b \in {t.myKey, t.myNextKey}
      BY <1>5, <2>2, CountsAreOfCurrentKeys
    <3>2. s.theirPreviousKey \notin {a, b}
      BY <1>1, <1>2, <1>4, <3>1
    <3>3. Mine(r, a, b) = Mine(s, a, b)
      BY <1>1, <3>2 DEF CountsWithout
    <3> QED
      BY <1>1, <3>3 DEF CountsFit, InTouch
  <2> QED
    BY <2>1, <2>2
<1>7. ASSUME NEW a \in {t.myKey, t.myNextKey}, NEW b \in Key
      PROVE  Theirs(r, b, a) <= Mine(t, a, b)
  <2>1. Theirs(r, b, a) = 0 \/ Theirs(r, b, a) = Theirs(s, b, a)
    BY <1>1 DEF CountsWithout
  <2>2. Mine(t, a, b) \in Nat
    BY <1>5, CountsAreNumbers
  <2>3. Theirs(s, b, a) <= Mine(t, a, b)
    BY DEF CountsFit, InTouch
  <2> QED
    BY <2>1, <2>2, <2>3
<1>8. CountsFit(r, t) /\ CountsFit(t, r)
  BY <1>6, <1>7 DEF CountsFit
<1>9. Follows(m, r, t)
  <2> SUFFICES ASSUME m.type = "Data"
               PROVE  /\ m.from # r.myNextKey
                      /\ m.from = r.myKey => m.next = r.myNextKey
                      /\ m.to = t.myNextKey => r.theirKey = t.myNextKey /\ ~Stalls(r)
                      /\ m.from = r.myKey /\ m.to \in {t.myKey, t.myNextKey}
                         => m.counter <= Mine(r, m.from, m.to)
    BY DEF Follows
  <2>1. /\ m.from # s.myNextKey
        /\ m.from = s.myKey => m.next = s.myNextKey
        /\ m.to # t.myNextKey
        /\ m.from = s.myKey /\ m.to \in {t.myKey, t.myNextKey}
           => m.counter <= Mine(s, m.from, m.to)
    BY <1>2, <1>4 DEF InTouch, Follows
  <2>2. m.from = s.myKey /\ m.to \in {t.myKey, t.myNextKey}
        => Mine(r, m.from, m.to) = Mine(s, m.from, m.to)
    BY <1>1, <1>2, <1>4 DEF CountsWithout
  <2> QED
    BY <1>1, <2>1, <2>2
<1>10. Follows(n, t, r)
  BY <1>1 DEF InTouch, Follows
<1> QED
  BY <1>3, <1>8, <1>9, <1>10 DEF InTouch

(* The other end's packet is counted.                                      *)
LEMMA CountedInTouch ==
    ASSUME NEW s, NEW t, NEW A, NEW B, Ends(s, t, A, B), NEW m, NEW n,
           InTouch(s, t, m, n), n.type = "Data", n.to \in {s.myKey, s.myNextKey}, NEW r,
           SameEnds(r, s), r.receivedAck <=> s.receivedAck,
           r.stallingTheirRoll <=> s.stallingTheirRoll,
           \A a, b : Mine(r, a, b) = Mine(s, a, b),
           \A a, b : \/ Theirs(r, a, b) = Theirs(s, a, b)
                     \/ a = n.to /\ b = n.from /\ Theirs(r, a, b) = n.counter
    PROVE  InTouch(r, t, m, n)
<1>1. /\ r.keyID = s.keyID /\ r.myKey = s.myKey /\ r.myNextKey = s.myNextKey
      /\ r.theirKeyID = s.theirKeyID /\ r.theirKey = s.theirKey
      /\ r.theirPreviousKey = s.theirPreviousKey /\ (Stalls(r) <=> Stalls(s))
  BY DEF SameEnds, Stalls
<1>2. View(r, t) /\ View(t, r)
  BY <1>1 DEF InTouch, View
<1>3. CountsFit(r, t)
  BY <1>1 DEF InTouch, CountsFit
<1>4. CountsFit(t, r)
  <2> SUFFICES ASSUME NEW a \in {t.myKey, t.myNextKey}, NEW b \in Key
               PROVE  Theirs(r, b, a) <= Mine(t, a, b)
    BY DEF CountsFit
  <2>1. CASE Theirs(r, b, a) = Theirs(s, b, a)
    BY <2>1 DEF InTouch, CountsFit
  <2>2. CASE b = n.to /\ a = n.from /\ Theirs(r, b, a) = n.counter
    BY <2>2 DEF InTouch, Follows
  <2> QED
    BY <2>1, <2>2
<1>5. Follows(m, r, t) /\ Follows(n, t, r)
  BY <1>1 DEF InTouch, Follows
<1> QED
  BY <1>2, <1>3, <1>4, <1>5 DEF InTouch

LEMMA VerifyAndExposeInTouch ==
    ASSUME NEW s, NEW t, NEW A, NEW B, Ends(s, t, A, B), NEW m,
           NEW n \in DataPackets, PacketApart(n, B, A), InTouch(s, t, m, n),
           NEW next \in A, Unseen(next, s, t, m, n), NEW over
    PROVE  InTouch(VerifyAndExpose(s, n, next, over).session, t, m, n)
<1> DEFINE mine == IF n.theirKeyID = s.keyID THEN s.myKey ELSE s.myNextKey
           theirs == IF n.keyID = s.theirKeyID THEN s.theirKey ELSE s.theirPreviousKey
           found == FindKeys(s, mine, theirs)
           pair == <<mine, theirs>>
           counted == [found EXCEPT !.keyCache[pair].theirs = n.counter]
           accepted == IF n.keyID = s.theirKeyID THEN AcceptNewRemoteKey(counted, n.next)
                       ELSE counted
           acked == IF n.theirKeyID = s.keyID + 1
                    THEN HandleProposalAcknowledge(accepted, next) ELSE accepted
           rolled == RollIfTime(acked, next, over)
           last == FindKeys(rolled, rolled.myKey, rolled.theirKey)
           v == VerifyAndExpose(s, n, next, over)
           opens == /\ KnowsTheirID(s, n.keyID) /\ KnowsMyID(s, n.theirKeyID)
                    /\ ~(n.counter <= found.keyCache[pair].theirs)
                    /\ <<n.to, n.from>> = pair
<1>1. /\ s \in Sessions /\ s.state = "Done" /\ s \in SessionRecords
      /\ KeysApart(s, A, B) /\ Apart(A, B) /\ t \in Sessions /\ t.state = "Done"
      /\ KeysApart(t, B, A)
  BY DEF Ends, Sessions
<1>2. /\ s.myKey # NoKey /\ s.myNextKey # NoKey /\ s.theirKey # NoKey
      /\ n.counter \in Nat /\ n.next \in B /\ n.next # n.from /\ next \in Key
      /\ n.type = "Data" /\ next # s.myNextKey
  BY <1>1 DEF Sessions, HasItsKeys, DataPackets, PacketRecords, PacketApart, OneOf, Apart,
     Unseen
<1>3. mine \in {s.myKey, s.myNextKey} /\ theirs \in {s.theirKey, s.theirPreviousKey}
  OBVIOUS
<1>4. found \in Sessions /\ KeysApart(found, A, B) /\ Kept(found, s) /\ SameButCache(found, s)
  <2>1. found \in Sessions /\ SameButCache(found, s)
    BY <1>1, <1>3, FindKeysType
  <2>2. KeysApart(found, A, B)
    BY <1>1, FindKeysSpent
  <2>3. Kept(found, s)
    BY <1>1, FindKeysCounts DEF Kept, SameEnds, SameButCache
  <2> QED
    BY <2>1, <2>2, <2>3
<1>5. Ends(found, t, A, B) /\ InTouch(found, t, m, n)
  BY <1>1, <1>4, KeptInTouch DEF Ends, SameButCache
<1>6. CASE ~opens
  <2>1. v.session \in {s, found}
    <3>1. CASE ~KnowsTheirID(s, n.keyID)
      BY <3>1 DEF VerifyAndExpose, Outcome
    <3>2. CASE KnowsTheirID(s, n.keyID) /\ ~KnowsMyID(s, n.theirKeyID)
      BY <3>2 DEF VerifyAndExpose, Outcome
    <3>3. CASE /\ KnowsTheirID(s, n.keyID) /\ KnowsMyID(s, n.theirKeyID)
               /\ n.counter <= found.keyCache[pair].theirs
      BY <3>3 DEF VerifyAndExpose, Outcome
    <3>4. CASE /\ KnowsTheirID(s, n.keyID) /\ KnowsMyID(s, n.theirKeyID)
               /\ ~(n.counter <= found.keyCache[pair].theirs)
               /\ <<n.to, n.from>> # pair
      <4>1. pair \in DOMAIN found.keyCache
        <5>1. mine # NoKey /\ theirs # NoKey
          BY <1>1, <1>2, <3>4 DEF KnowsTheirID, SessionRecords
        <5> QED
          BY <1>1, <1>3, <5>1, FindKeysType
      <4>2. found.keyCache[pair].theirs \in Nat
        BY <1>4, <4>1, PairCounters DEF Counters
      <4>3. n.counter > found.keyCache[pair].theirs
        BY <1>2, <3>4, <4>2
      <4> QED
        BY <3>4, <4>3 DEF VerifyAndExpose, Outcome
    <3> QED
      BY <1>6, <3>1, <3>2, <3>3, <3>4
  <2> HIDE DEF v, found, opens
  <2> QED
    BY <1>5, <2>1 DEF v
<1>7. CASE opens
  <2>1. mine # NoKey /\ theirs # NoKey
    BY <1>1, <1>2, <1>7 DEF KnowsTheirID, SessionRecords
  <2>2. pair \in DOMAIN found.keyCache
    BY <1>1, <1>3, <2>1, FindKeysType
  <2>3. found.keyCache[pair] \in Counters
    BY <1>4, <2>2, PairCounters
  <2>4. v.session = last
    BY <1>7 DEF VerifyAndExpose, Outcome
  <2>5. n.to = mine /\ n.from = theirs /\ pair = <<n.to, n.from>>
    BY <1>7
  <2>6. /\ n.to \in {s.myKey, s.myNextKey}
        /\ n.keyID = s.theirKeyID => n.from = s.theirKey
        /\ n.theirKeyID = s.keyID + 1 => n.to = s.myNextKey
    BY <1>1, <2>5 DEF SessionRecords
  <2> DEFINE counters == [found.keyCache[pair] EXCEPT !.theirs = n.counter]
  <2>7. /\ counters \in Counters /\ counters.theirs = n.counter
        /\ counters.mine = found.keyCache[pair].mine
        /\ counted = Counted(found, pair, counters)
    BY <1>2, <2>3 DEF Counted, Counters
  <2> HIDE DEF v, found, counters, opens, mine, theirs, pair, counted
  <2>8. /\ counted \in Sessions /\ SameButCache(counted, found) /\ KeysApart(counted, A, B)
    BY <1>4, <2>2, <2>7, CountedType, CountedSpent
  <2>9. /\ Mine(counted, n.to, n.from) = counters.mine
        /\ Theirs(counted, n.to, n.from) = n.counter
        /\ \A a, b : <<a, b>> # <<n.to, n.from>> =>
             /\ Mine(counted, a, b) = Mine(found, a, b)
             /\ Theirs(counted, a, b) = Theirs(found, a, b)
        /\ counted.stallingTheirRoll = found.stallingTheirRoll
        /\ counted.receivedAck = found.receivedAck
    <3>1. found \in SessionRecords
      BY <1>4 DEF Sessions
    <3> QED
      BY <2>2, <2>5, <2>7, <3>1, CountedCounts
  <2>10. Mine(found, n.to, n.from) = counters.mine
    BY <2>2, <2>5, <2>7 DEF Mine
  <2>11. Ends(counted, t, A, B) /\ InTouch(counted, t, m, n)
    <3>1. SameEnds(counted, found)
      BY <2>8 DEF SameEnds, SameButCache
    <3>2. n.to \in {found.myKey, found.myNextKey}
      BY <1>4, <2>6 DEF SameButCache
    <3>3. \A a, b : Mine(counted, a, b) = Mine(found, a, b)
      BY <2>9, <2>10
    <3>4. \A a, b : \/ Theirs(counted, a, b) = Theirs(found, a, b)
                    \/ a = n.to /\ b = n.from /\ Theirs(counted, a, b) = n.counter
      BY <2>9
    <3>5. InTouch(counted, t, m, n)
      BY <1>2, <1>5, <2>9, <3>1, <3>2, <3>3, <3>4, CountedInTouch
    <3> QED
      BY <1>1, <1>4, <2>8, <3>5 DEF Ends, SameButCache
  <2>12. /\ counted.myKey = s.myKey /\ counted.myNextKey = s.myNextKey
         /\ counted.theirKey = s.theirKey /\ counted \in Keyed /\ counted.theirKey # NoKey
         /\ counted.state = "Done" /\ counted.theirPreviousKey = s.theirPreviousKey
    BY <1>1, <1>2, <1>4, <2>8 DEF SameButCache, Keyed
  <2>13. /\ accepted \in Keyed /\ Ends(accepted, t, A, B) /\ InTouch(accepted, t, m, n)
         /\ accepted.myKey = s.myKey /\ accepted.myNextKey = s.myNextKey
    <3>1. CASE n.keyID = s.theirKeyID
      <4>1. accepted = AcceptNewRemoteKey(counted, n.next)
        BY <3>1
      <4> HIDE DEF accepted
      <4>2. n.next \in Key /\ n.next # counted.theirKey /\ n.from = counted.theirKey
        BY <1>1, <1>2, <2>6, <2>12, <3>1 DEF Apart
      <4>3. accepted \in Keyed /\ KeysApart(accepted, A, B)
        BY <1>1, <1>2, <2>8, <2>12, <4>1, <4>2, AcceptType, AcceptSpent
      <4>4. Accepted(accepted, counted, n.next)
        BY <2>8, <4>1, AcceptSteps
      <4>5. InTouch(accepted, t, m, n)
        BY <1>2, <2>11, <4>2, <4>4, AcceptedInTouch
      <4> QED
        BY <1>1, <2>12, <4>3, <4>4, <4>5 DEF Ends, Accepted, Keyed
    <3>2. CASE n.keyID # s.theirKeyID
      BY <2>11, <2>12, <3>2
    <3> QED
      BY <3>1, <3>2
  <2> HIDE DEF accepted
  <2>14. /\ acked \in Keyed /\ Ends(acked, t, A, B) /\ InTouch(acked, t, m, n)
         /\ acked.receivedAck => Unseen(next, acked, t, m, n)
    <3>1. Unseen(next, accepted, t, m, n)
      BY <2>13 DEF Unseen
    <3>2. CASE n.theirKeyID = s.keyID + 1
      <4>1. acked = HandleProposalAcknowledge(accepted, next)
        BY <3>2
      <4> HIDE DEF acked
      <4>2. /\ acked \in Keyed /\ SameOtherEnd(acked, accepted) /\ KeysApart(acked, A, B)
        BY <1>1, <1>2, <2>13, <4>1, AcknowledgeType, AcknowledgeSpent DEF Ends
      <4>3. Ends(acked, t, A, B)
        BY <2>13, <4>2 DEF Ends, Keyed, SameOtherEnd
      <4>4. t.theirKey = accepted.myNextKey /\ ~Stalls(t)
        BY <1>2, <2>6, <2>13, <3>2 DEF InTouch, Follows
      <4>5. accepted \in SessionRecords /\ NotBoth(accepted)
        BY <2>13 DEF Ends, Sessions, KeysApart
      <4>6. Advanced(acked, accepted, next) \/ Acknowledged(acked, accepted)
        BY <4>1, <4>5, AcknowledgeSteps
      <4>7. InTouch(acked, t, m, n)
        BY <2>13, <3>1, <4>4, <4>6, AdvancedInTouch, AcknowledgedInTouch
      <4>8. acked.receivedAck => Unseen(next, acked, t, m, n)
        BY <3>1, <4>6 DEF Advanced, Acknowledged, SameEnds, Unseen
      <4> QED
        BY <4>2, <4>3, <4>7, <4>8
    <3>3. CASE n.theirKeyID # s.keyID + 1
      BY <2>13, <3>1, <3>3
    <3> QED
      BY <3>2, <3>3
  <2> HIDE DEF acked
  <2>15. rolled \in Keyed /\ InTouch(rolled, t, m, n)
    <3>1. acked \in SessionRecords
      BY <2>14 DEF Keyed, Sessions
    <3>2. Rolled(rolled, acked, next)
      BY <3>1, RollIfTimeRolls
    <3>3. rolled \in Keyed
      BY <1>2, <2>14, RollIfTimeType
    <3> HIDE DEF rolled
    <3> QED
      BY <2>14, <3>2, <3>3, RolledInTouch
  <2> HIDE DEF rolled
  <2>16. InTouch(last, t, m, n)
    <3>1. rolled \in SessionRecords
      BY <2>15 DEF Keyed, Sessions
    <3>2. Kept(last, rolled)
      BY <3>1, FindKeysCounts DEF Kept, SameEnds, SameButCache
    <3> HIDE DEF last
    <3> QED
      BY <2>15, <3>2, KeptInTouch
  <2> QED
    BY <2>4, <2>16 DEF v
<1> QED
  BY <1>6, <1>7

LEMMA FindKeysRecord ==
    ASSUME NEW s \in SessionRecords, NEW x \in Key, NEW y \in Key
    PROVE  /\ FindKeys(s, x, y) \in SessionRecords
           /\ <<x, y>> \in DOMAIN FindKeys(s, x, y).keyCache
<1>1. s.keyCache \in Caches /\ NoKey \notin {x, y}
  BY DEF SessionRecords
<1>2. CASE Cached(s, x, y)
  BY <1>2 DEF FindKeys, Cached
<1>3. CASE ~Cached(s, x, y)
  <2> DEFINE P == DOMAIN s.keyCache \cup {<<x, y>>}
             kc == [p \in P |-> IF p \in DOMAIN s.keyCache THEN s.keyCache[p]
                                ELSE [mine |-> 0, theirs |-> 0]]
  <2>1. FindKeys(s, x, y) = [s EXCEPT !.keyCache = kc]
    BY <1>1, <1>3 DEF FindKeys
  <2>2. kc \in [P -> Counters] /\ P \subseteq Key \X Key /\ DOMAIN kc = P
    BY <1>1, CacheType DEF Counters
  <2>3. kc \in Caches
    BY <2>2, IsCache
  <2>4. <<x, y>> \in DOMAIN kc
    BY <2>2
  <2> HIDE DEF kc
  <2> QED
    BY <2>1, <2>3, <2>4 DEF SessionRecords
<1> QED
  BY <1>2, <1>3

LEMMA RollIfTimeRecord ==
    ASSUME NEW s \in SessionRecords, NEW next \in KeyOrNone, NEW over
    PROVE  RollIfTime(s, next, over) \in SessionRecords
<1> DEFINE t == RollIfTime(s, next, over)
           kc == Without(s.keyCache, s.myKey)
           going == [s EXCEPT !.stallingTheirRoll = FALSE, !.timeToRoll = FALSE]
<1>1. CASE t = s
  BY <1>1
<1>2. CASE t # s /\ s.receivedAck
  <2>1. t = [GenerateNewProposedKey(going, next) EXCEPT
                !.missedAck = FALSE, !.receivedAck = FALSE]
    BY <1>2 DEF RollIfTime, Roll
  <2>2. /\ going.keyCache = s.keyCache /\ going.myKey = s.myKey
        /\ going.myNextKey = s.myNextKey /\ going.keyID = s.keyID /\ going \in SessionRecords
    BY DEF SessionRecords
  <2>3. kc \in Caches /\ s.keyID + 1 \in Nat /\ s.myNextKey \in KeyOrNone
    BY WithoutType DEF SessionRecords
  <2> HIDE DEF t, going
  <2>4. GenerateNewProposedKey(going, next)
          = [going EXCEPT !.keyCache = kc, !.myKey = s.myNextKey, !.myNextKey = next,
                          !.keyID = s.keyID + 1]
    BY <2>2 DEF GenerateNewProposedKey
  <2> HIDE DEF kc
  <2>5. GenerateNewProposedKey(going, next) \in SessionRecords
    BY <2>2, <2>3, <2>4 DEF SessionRecords
  <2>6. t \in SessionRecords
    BY <2>1, <2>5 DEF SessionRecords
  <2> QED
    BY <2>6 DEF t
<1>3. CASE t # s /\ ~s.receivedAck
  <2>1. t = [going EXCEPT !.missedAck = TRUE]
    BY <1>3 DEF RollIfTime, Roll
  <2>2. going \in SessionRecords
    BY DEF SessionRecords
  <2> HIDE DEF t, going
  <2>3. t \in SessionRecords
    BY <2>1, <2>2 DEF SessionRecords
  <2> QED
    BY <2>3 DEF t
<1> QED
  BY <1>1, <1>2, <1>3

(* What a session sends: it rolls its key if it may, and counts.           *)
LEMMA SignAndProtectSteps ==
    ASSUME NEW s \in Sessions, s.state = "Done", s.myKey # NoKey, NEW content,
           NEW next \in KeyOrNone, NEW over
    PROVE  LET o == SignAndProtect(s, content, next, over)
               r == RollIfTime(s, next, over)
               to == IF Stalls(r) THEN r.theirPreviousKey ELSE r.theirKey
           IN /\ r \in SessionRecords /\ Rolled(r, s, next)
              /\ o.response.type = "Data" /\ o.response.from = r.myKey
              /\ o.response.to = to /\ o.response.keyID = r.keyID
              /\ o.response.theirKeyID = IF Stalls(r) THEN r.theirKeyID - 1 ELSE r.theirKeyID
              /\ o.response.next = r.myNextKey
              /\ o.response.counter = Mine(r, r.myKey, to) + 1
              /\ SameEnds(o.session, r) /\ (o.session.receivedAck <=> r.receivedAck)
              /\ o.session.stallingTheirRoll <=> r.stallingTheirRoll
              /\ Mine(o.session, r.myKey, to) = Mine(r, r.myKey, to) + 1
              /\ \A a, b : Theirs(o.session, a, b) = Theirs(r, a, b)
              /\ \A a, b : Mine(o.session, a, b) # Mine(r, a, b) => a = r.myKey /\ b = to
<1> DEFINE rolled == RollIfTime(s, next, over)
           stalling == rolled.stallingTheirRoll /\ rolled.theirPreviousKey # NoKey
           theirs == IF stalling THEN rolled.theirPreviousKey ELSE s.theirKey
           pair == <<rolled.myKey, theirs>>
           found == FindKeys(rolled, rolled.myKey, theirs)
           sent == [found EXCEPT !.keyCache[pair].mine = @ + 1]
           packet == [type |-> "Data", from |-> sent.myKey, to |-> theirs,
                      keyID |-> sent.keyID,
                      theirKeyID |-> IF stalling THEN s.theirKeyID - 1 ELSE s.theirKeyID,
                      next |-> sent.myNextKey, counter |-> sent.keyCache[pair].mine,
                      content |-> content]
           o == SignAndProtect(s, content, next, over)
           to == IF Stalls(rolled) THEN rolled.theirPreviousKey ELSE rolled.theirKey
<1>1. o = Outcome(sent, "success", packet)
  BY DEF SignAndProtect
<1>2. s \in SessionRecords /\ s.theirKey # NoKey /\ s.myNextKey # NoKey
  BY DEF Sessions, HasItsKeys
<1>3. rolled \in SessionRecords /\ Rolled(rolled, s, next)
  BY <1>2, RollIfTimeRecord, RollIfTimeRolls
<1> HIDE DEF rolled
<1>4. /\ rolled.theirKey = s.theirKey /\ rolled.theirKeyID = s.theirKeyID
      /\ rolled.myKey # NoKey
  BY <1>2, <1>3 DEF Rolled, Kept, Advanced, SameEnds
<1>5. stalling <=> Stalls(rolled)
  BY DEF Stalls
<1>6. theirs = to
  BY <1>4, <1>5
<1>7. theirs \in Key /\ rolled.myKey \in Key
  BY <1>2, <1>3, <1>4 DEF SessionRecords, KeyOrNone
<1>8. packet.theirKeyID = IF Stalls(rolled) THEN rolled.theirKeyID - 1 ELSE rolled.theirKeyID
  BY <1>4, <1>5
<1>9. /\ packet.type = "Data" /\ packet.from = sent.myKey /\ packet.to = theirs
      /\ packet.keyID = sent.keyID /\ packet.next = sent.myNextKey
      /\ packet.counter = sent.keyCache[pair].mine
  OBVIOUS
<1> HIDE DEF stalling, theirs, to, packet
<1>10. found \in SessionRecords /\ pair \in DOMAIN found.keyCache
  BY <1>3, <1>7, FindKeysRecord
<1>11. /\ SameCounts(found, rolled) /\ SameButCache(found, rolled)
       /\ found.stallingTheirRoll = rolled.stallingTheirRoll
       /\ found.receivedAck = rolled.receivedAck
  BY <1>3, FindKeysCounts
<1>12. found.keyCache[pair] \in Counters
  BY <1>10, CacheType DEF SessionRecords
<1> HIDE DEF found
<1> DEFINE counters == [found.keyCache[pair] EXCEPT !.mine = @ + 1]
<1>13. /\ counters \in Counters /\ counters.mine = found.keyCache[pair].mine + 1
       /\ counters.theirs = found.keyCache[pair].theirs
  BY <1>12 DEF Counters
<1>14. sent = Counted(found, pair, counters)
  BY DEF Counted
<1>15. /\ Mine(found, rolled.myKey, theirs) = found.keyCache[pair].mine
       /\ Theirs(found, rolled.myKey, theirs) = found.keyCache[pair].theirs
  BY <1>10 DEF Mine, Theirs
<1> HIDE DEF counters, sent
<1>16. /\ Mine(sent, rolled.myKey, theirs) = counters.mine
       /\ Theirs(sent, rolled.myKey, theirs) = counters.theirs
       /\ \A a, b : <<a, b>> # <<rolled.myKey, theirs>> =>
            Mine(sent, a, b) = Mine(found, a, b) /\ Theirs(sent, a, b) = Theirs(found, a, b)
       /\ SameButCache(sent, found)
       /\ sent.stallingTheirRoll = found.stallingTheirRoll
       /\ sent.receivedAck = found.receivedAck
  BY <1>10, <1>13, <1>14, CountedCounts
<1>17. sent.keyCache[pair].mine = counters.mine
  <2> DEFINE kc == [found.keyCache EXCEPT ![pair] = counters]
  <2>1. found.keyCache \in [DOMAIN found.keyCache -> Counters]
    BY <1>10, CacheType DEF SessionRecords
  <2>2. kc[pair] = counters
    BY <1>10, <2>1
  <2>3. sent = [found EXCEPT !.keyCache = kc]
    BY <1>14 DEF Counted
  <2> HIDE DEF kc
  <2> QED
    BY <1>10, <2>2, <2>3 DEF SessionRecords
<1>18. \A a, b : /\ Mine(found, a, b) = Mine(rolled, a, b)
                 /\ Theirs(found, a, b) = Theirs(rolled, a, b)
  BY <1>11 DEF SameCounts
<1>19. \A a, b : Theirs(sent, a, b) = Theirs(rolled, a, b)
  BY <1>13, <1>15, <1>16, <1>18
<1>20. \A a, b : Mine(sent, a, b) # Mine(rolled, a, b) => a = rolled.myKey /\ b = to
  BY <1>6, <1>16, <1>18
<1>21. Mine(sent, rolled.myKey, to) = Mine(rolled, rolled.myKey, to) + 1
  BY <1>6, <1>13, <1>15, <1>16, <1>18
<1>22. /\ SameEnds(sent, rolled) /\ (sent.receivedAck <=> rolled.receivedAck)
       /\ sent.stallingTheirRoll <=> rolled.stallingTheirRoll
  BY <1>11, <1>16 DEF SameEnds, SameButCache
<1>23. /\ packet.type = "Data" /\ packet.from = rolled.myKey /\ packet.to = to
       /\ packet.keyID = rolled.keyID /\ packet.next = rolled.myNextKey
       /\ packet.counter = Mine(rolled, rolled.myKey, to) + 1
  BY <1>6, <1>9, <1>13, <1>15, <1>16, <1>17, <1>18, <1>22 DEF SameEnds
<1>24. o.session = sent /\ o.response = packet
  BY <1>1 DEF Outcome
<1> HIDE DEF o
<1> QED
  BY <1>3, <1>8, <1>19, <1>20, <1>21, <1>22, <1>23, <1>24 DEF rolled, to, o

LEMMA SignAndProtectInTouch ==
    ASSUME NEW s, NEW t, NEW A, NEW B, Ends(s, t, A, B), NEW m, NEW n,
           InTouch(s, t, m, n), NEW content, NEW next \in A, Unseen(next, s, t, m, n), NEW over
    PROVE  LET o == SignAndProtect(s, content, next, over)
           IN /\ InTouch(o.session, t, o.response, n)
              /\ o.response.type = "Data"
              /\ o.response.to \in {s.theirKey, s.theirPreviousKey}
              /\ o.session.theirKey = s.theirKey
              /\ o.session.theirPreviousKey = s.theirPreviousKey
<1> DEFINE o == SignAndProtect(s, content, next, over)
           r == RollIfTime(s, next, over)
           u == o.session
           k == o.response
           to == IF Stalls(r) THEN r.theirPreviousKey ELSE r.theirKey
<1>1. /\ s \in Sessions /\ s.state = "Done" /\ s.myKey # NoKey /\ next \in KeyOrNone
      /\ Apart(A, B) /\ KeysApart(s, A, B) /\ s \in Keyed /\ next # s.myNextKey
  BY DEF Ends, Sessions, HasItsKeys, Apart, KeyOrNone, Keyed, Unseen
<1>2. /\ Rolled(r, s, next)
      /\ k.type = "Data" /\ k.from = r.myKey /\ k.to = to /\ k.next = r.myNextKey
      /\ k.counter = Mine(r, r.myKey, to) + 1
      /\ SameEnds(u, r) /\ (u.receivedAck <=> r.receivedAck)
      /\ u.stallingTheirRoll <=> r.stallingTheirRoll
      /\ Mine(u, r.myKey, to) = Mine(r, r.myKey, to) + 1
      /\ \A a, b : Theirs(u, a, b) = Theirs(r, a, b)
      /\ \A a, b : Mine(u, a, b) # Mine(r, a, b) => a = r.myKey /\ b = to
  BY <1>1, SignAndProtectSteps
<1>3. InTouch(r, t, m, n)
  BY <1>2, RolledInTouch
<1>4. KeysApart(r, A, B) /\ r \in Keyed /\ SameOtherEnd(r, s)
  BY <1>1, RollIfTimeSpent, RollIfTimeType DEF Apart
<1> HIDE DEF o, r, u, k
<1>5. Ends(r, t, A, B)
  BY <1>4 DEF Ends, SameOtherEnd, Keyed
<1>6. /\ u.keyID = r.keyID /\ u.myKey = r.myKey /\ u.myNextKey = r.myNextKey
      /\ u.theirKeyID = r.theirKeyID /\ u.theirKey = r.theirKey
      /\ u.theirPreviousKey = r.theirPreviousKey /\ (Stalls(u) <=> Stalls(r))
      /\ (u.receivedAck <=> r.receivedAck)
  BY <1>2 DEF SameEnds, Stalls
<1>7. r.keyCache \in Caches
  BY <1>4 DEF Keyed, Sessions, SessionRecords
<1>8. \A a, b : Mine(r, a, b) \in Nat /\ Mine(r, a, b) <= Mine(u, a, b)
  BY <1>2, <1>7, CountsAreNumbers
<1>9. View(u, t) /\ View(t, u)
  BY <1>3, <1>6 DEF InTouch, View
<1>10. CountsFit(t, u)
  BY <1>2, <1>3, <1>6 DEF InTouch, CountsFit
<1>11. CountsFit(u, t)
  <2> SUFFICES ASSUME NEW a \in {u.myKey, u.myNextKey}, NEW b \in Key
               PROVE  Theirs(t, b, a) <= Mine(u, a, b)
    BY DEF CountsFit
  <2>1. t.keyCache \in Caches
    BY DEF Ends, Sessions, SessionRecords
  <2>2. Theirs(t, b, a) \in Nat /\ Theirs(t, b, a) <= Mine(r, a, b)
    BY <1>3, <1>6, <2>1, CountsAreNumbers DEF InTouch, CountsFit
  <2>3. Mine(u, a, b) \in Nat
    BY <1>2, <1>8
  <2> QED
    BY <1>8, <2>2, <2>3
<1>12. Follows(k, u, t)
  <2>1. r.myKey # r.myNextKey /\ t.myKey # t.myNextKey
    BY <1>5, EndsKeys
  <2>2. to = t.myNextKey => r.theirKey = t.myNextKey /\ ~Stalls(r)
    BY <1>3, <2>1 DEF InTouch, View
  <2>3. k.counter <= Mine(u, k.from, k.to)
    BY <1>2, <1>8
  <2> HIDE DEF to
  <2> QED
    BY <1>2, <1>6, <2>1, <2>2, <2>3 DEF Follows
<1>13. Follows(n, t, u)
  BY <1>3, <1>6 DEF InTouch, Follows
<1>14. to \in {r.theirKey, r.theirPreviousKey}
  OBVIOUS
<1> HIDE DEF to
<1>15. /\ u.theirKey = s.theirKey /\ u.theirPreviousKey = s.theirPreviousKey
       /\ k.to \in {s.theirKey, s.theirPreviousKey}
  BY <1>2, <1>4, <1>6, <1>14 DEF SameOtherEnd
<1> QED
  BY <1>2, <1>9, <1>10, <1>11, <1>12, <1>13, <1>15 DEF InTouch, o, u, k

(* The other end opens it.                                                 *)
LEMMA SentIsUnderstood ==
    ASSUME NEW s, NEW t, NEW A, NEW B, Ends(s, t, A, B),
           View(s, t), View(t, s), CountsFit(s, t), CountsFit(t, s), NEW over
    PROVE  LET m == SignAndProtect(s, <<>>, NoKey, over).response
           IN VerifyAndExpose(t, m, NoKey, over).status = "success"
<1> DEFINE m == SignAndProtect(s, <<>>, NoKey, over).response
           r == RollIfTime(s, NoKey, over)
           to == IF Stalls(r) THEN r.theirPreviousKey ELSE r.theirKey
<1>1. /\ s \in Sessions /\ s.state = "Done" /\ s.myKey # NoKey /\ NoKey \in KeyOrNone
      /\ t \in Sessions /\ t \in SessionRecords
  BY DEF Ends, Sessions, HasItsKeys, KeyOrNone
<1>2. /\ Rolled(r, s, NoKey) /\ r \in SessionRecords
      /\ m.type = "Data" /\ m.from = r.myKey /\ m.to = to /\ m.keyID = r.keyID
      /\ m.theirKeyID = IF Stalls(r) THEN r.theirKeyID - 1 ELSE r.theirKeyID
      /\ m.counter = Mine(r, r.myKey, to) + 1
  BY <1>1, SignAndProtectSteps
<1> HIDE DEF r, m
<1>3. View(r, t) /\ View(t, r) /\ CountsFit(r, t)
  <2>1. CASE Kept(r, s)
    <3>1. Stalls(r) => Stalls(s)
      BY <2>1 DEF Stalls, Kept, SameEnds
    <3> QED
      BY <2>1, <3>1 DEF Kept, SameEnds, SameCounts, View, CountsFit
  <2>2. CASE s.receivedAck /\ Advanced(r, s, NoKey)
    <3>1. t.theirKey = s.myNextKey /\ ~Stalls(t)
      BY <2>2, AckIsTrue
    <3> QED
      BY <1>1, <2>2, <3>1, AdvancedView, AdvancedCounts
  <2> QED
    BY <1>2, <2>1, <2>2 DEF Rolled
<1>4. /\ r.myKey \in Key /\ r.keyID \in Nat /\ r.theirKeyID \in Nat
      /\ t.keyID \in Nat /\ t.theirKeyID \in Nat
      /\ r.myKey # r.myNextKey /\ t.myKey # t.myNextKey /\ t.myKey \in Key /\ t.myNextKey \in Key
      /\ t.theirKey # NoKey
  <2>1. r.myKey # r.myNextKey /\ r.myKey # NoKey
    BY <1>2, EndsKeys DEF Rolled, Kept, Advanced, SameEnds
  <2> QED
    BY <1>1, <1>2, <2>1, EndsKeys DEF SessionRecords, KeyOrNone
<1> DEFINE mine == IF m.theirKeyID = t.keyID THEN t.myKey ELSE t.myNextKey
           theirs == IF m.keyID = t.theirKeyID THEN t.theirKey ELSE t.theirPreviousKey
           found == FindKeys(t, mine, theirs)
           pair == <<mine, theirs>>
<1>5. KnowsTheirID(t, m.keyID) /\ theirs = m.from
  BY <1>2, <1>3, <1>4 DEF View, KnowsTheirID
<1>6. KnowsMyID(t, m.theirKeyID) /\ mine = m.to
  BY <1>2, <1>3, <1>4 DEF View, KnowsMyID, Stalls
<1>7. mine \in Key /\ theirs \in Key
  BY <1>2, <1>4, <1>5
<1>8. pair \in DOMAIN found.keyCache /\ SameCounts(found, t)
  BY <1>1, <1>7, FindKeysRecord, FindKeysCounts
<1> HIDE DEF to, mine, theirs, found
<1>9. found.keyCache[pair].theirs = Theirs(t, mine, theirs)
  BY <1>8 DEF SameCounts, Theirs
<1>10. Theirs(t, mine, theirs) <= Mine(r, theirs, mine)
  BY <1>2, <1>3, <1>5, <1>7 DEF CountsFit
<1>11. /\ Theirs(t, mine, theirs) \in Nat /\ Mine(r, theirs, mine) \in Nat
       /\ m.counter = Mine(r, theirs, mine) + 1
  BY <1>1, <1>2, <1>5, <1>6, CountsAreNumbers DEF SessionRecords
<1>12. ~(m.counter <= found.keyCache[pair].theirs) /\ <<m.to, m.from>> = pair
  BY <1>5, <1>6, <1>9, <1>10, <1>11
<1>13. VerifyAndExpose(t, m, NoKey, over).status = "success"
  BY <1>5, <1>6, <1>12 DEF VerifyAndExpose, Outcome, mine, theirs, found
<1> QED
  BY <1>13 DEF m
-----------------------------------------------------------------------------
(* A coder by itself.                                                      *)

(* The response that a negotiation has left, by where it stands.           *)
Answers(state) ==
    CASE state = "AwaitingDHKey" -> {"none", "DH"}
      [] state = "AwaitingRevealSignature" -> {"none", "DHKey"}
      [] state = "AwaitingSignature" -> {"none", "RevealSignature"}
      [] state = "Done" -> {"none", "RevealSignature", "Signature"}
      [] OTHER -> {}

(* Until it is done a negotiation has used the keys it began with, and no  *)
(* others.                                                                 *)
InStep(c) ==
    LET s == c.session
        r == c.pendingResponse
    IN /\ s.state # "Idle" /\ r.type \in Answers(s.state) /\ r.next = NoKey
       /\ r.type \in {"RevealSignature", "Signature"} => r.keyID = 1
       /\ s.state # "Done" =>
            /\ s.keyID = 1 /\ ~s.receivedAck
            /\ r.type # "none" => r.from = s.myKey
       /\ s.state = "AwaitingSignature" => s.keyCache = NoPairs
       /\ s.state = "Done" /\ c.waitingForDataPacket => r.type # "RevealSignature"

MessageInStep(m) == m.type \in {"RevealSignature", "Signature"} => m.keyID = 1

(* The other end's keys that a coder knows.                                *)
Knows(c) ==
    {c.session.theirKey, c.session.theirPreviousKey, c.session.receivedDH,
     c.pendingResponse.to}

(* What a coder becomes when it reads the message m, or starts anew; k is  *)
(* a key drawn for it.                                                     *)
Begins(d, k) == d.session.state # "Done" /\ d.session.myKey = k

Awaits(d, c) ==
    /\ d.session.state # "Done" /\ c.session.state # "Done"
    /\ d.session.myKey = c.session.myKey
    /\ d.session.state = "AwaitingRevealSignature" => c.session.state = "AwaitingRevealSignature"

EndsBySignature(d, c, m) ==
    LET s == c.session
        t == d.session
    IN /\ m.type = "Signature" /\ s.state = "AwaitingSignature"
       /\ m.from = s.theirKey /\ m.to = s.myKey
       /\ t.state = "Done" /\ t.keyID = s.keyID /\ t.myKey = s.myKey
       /\ t.theirKey = s.theirKey /\ t.theirKeyID = m.keyID
       /\ t.theirPreviousKey = s.theirPreviousKey /\ t.keyCache = s.keyCache
       /\ t.receivedAck = s.receivedAck
       /\ d.pendingResponse = c.pendingResponse /\ ~d.waitingForDataPacket

EndsByReveal(d, c, m) ==
    LET s == c.session
        t == d.session
        r == d.pendingResponse
    IN /\ m.type = "RevealSignature" /\ s.state = "AwaitingRevealSignature"
       /\ m.from = s.receivedDH /\ m.to = s.myKey
       /\ t.state = "Done" /\ t.keyID = s.keyID /\ t.myKey = s.myKey
       /\ t.theirKey = m.from /\ t.theirKeyID = m.keyID
       /\ t.theirPreviousKey = NoKey /\ t.keyCache = NoPairs
       /\ t.receivedAck = s.receivedAck
       /\ r.type = "Signature" /\ r.from = s.myKey /\ r.to = m.from

Remains(d, c, m) ==
    /\ c.session.state = "Done" /\ d.session.state = "Done"
    /\ d.pendingResponse = c.pendingResponse
    /\ d.waitingForDataPacket => c.waitingForDataPacket
    /\ d.session = c.session \/ m.type \in {"DHKey", "Data"}

Moves(d, c, m, k) ==
    /\ InStep(d)
    /\ Knows(d) \subseteq Knows(c) \cup {m.from, m.next, NoKey}
    /\ \/ Begins(d, k) \/ Awaits(d, c)
       \/ EndsBySignature(d, c, m) \/ EndsByReveal(d, c, m)
       \/ Remains(d, c, m)

LEMMA NegotiationPackets ==
    ASSUME NEW type, NEW from, NEW to, NEW id
    PROVE  LET m == NegotiationPacket(type, from, to, id)
           IN /\ m.type = type /\ m.from = from /\ m.to = to /\ m.keyID = id
              /\ m.next = NoKey /\ (type # "none" => m # NoPacket)
BY DEF NegotiationPacket, NoPacket

(* What the outcome of a negotiation packet makes of the coder.            *)
LEMMA Answering ==
    ASSUME NEW c \in Coders, NEW m, NEW kn, NEW t, NEW r, r # NoPacket,
           ProcessPacket(c.session, m, kn[1], kn[2]) = Outcome(t, "success", r)
    PROVE  LET d == UnwrapNegotiation(c, m, kn).coder
           IN /\ d.session = t /\ d.pendingResponse = r
              /\ t.state # "Done" => d.waitingForDataPacket = c.waitingForDataPacket
<1> DEFINE outcome == ProcessPacket(c.session, m, kn[1], kn[2])
           c1 == [c EXCEPT !.session = t]
           d == UnwrapNegotiation(c, m, kn).coder
<1>1. outcome.session = t /\ outcome.status = "success" /\ outcome.response = r
  BY DEF Outcome
<1> HIDE DEF outcome
<1>2. d = [c1 EXCEPT !.pendingResponse = r,
                     !.waitingForDataPacket = @ \/ IsReady(c1)]
  BY <1>1 DEF UnwrapNegotiation, outcome
<1>3. c1.session = t /\ c1.waitingForDataPacket = c.waitingForDataPacket
      /\ c1.waitingForDataPacket \in BOOLEAN
  BY DEF Coders
<1>4. t.state # "Done" => (c1.waitingForDataPacket \/ IsReady(c1)) = c.waitingForDataPacket
  BY <1>3 DEF IsReady
<1> HIDE DEF d
<1>5. d.session = t /\ d.pendingResponse = r
  BY <1>2 DEF Coders
<1>6. d.waitingForDataPacket = (c1.waitingForDataPacket \/ IsReady(c1))
  BY <1>2 DEF Coders
<1> QED
  BY <1>4, <1>5, <1>6 DEF d

LEMMA NotAnswering ==
    ASSUME NEW c \in Coders, NEW m, NEW kn, NEW t,
           ProcessPacket(c.session, m, kn[1], kn[2]) = Outcome(t, "success", NoPacket)
    PROVE  LET d == UnwrapNegotiation(c, m, kn).coder
           IN /\ d.session = t /\ d.pendingResponse = c.pendingResponse
              /\ t.state = "Done" => ~d.waitingForDataPacket
<1> DEFINE outcome == ProcessPacket(c.session, m, kn[1], kn[2])
           c1 == [c EXCEPT !.session = t]
           d == UnwrapNegotiation(c, m, kn).coder
<1>1. outcome.session = t /\ outcome.status = "success" /\ outcome.response = NoPacket
  BY DEF Outcome
<1> HIDE DEF outcome
<1>2. d = IF IsReady(c1) THEN [c1 EXCEPT !.waitingForDataPacket = FALSE] ELSE c1
  <2>1. CASE IsReady(c1)
    BY <1>1, <2>1 DEF UnwrapNegotiation, outcome
  <2>2. CASE ~IsReady(c1)
    BY <1>1, <2>2 DEF UnwrapNegotiation, outcome
  <2> QED
    BY <2>1, <2>2
<1>3. IsReady(c1) <=> t.state = "Done"
  BY DEF Coders, IsReady
<1> HIDE DEF d
<1> QED
  BY <1>2, <1>3 DEF Coders, d

LEMMA Refusing ==
    ASSUME NEW c \in Coders, NEW m, NEW kn,
           ProcessPacket(c.session, m, kn[1], kn[2]) = Outcome(c.session, "decode", NoPacket)
    PROVE  UnwrapNegotiation(c, m, kn) = ResendDH(c)
<1> DEFINE outcome == ProcessPacket(c.session, m, kn[1], kn[2])
           c1 == [c EXCEPT !.session = c.session]
<1>1. outcome.session = c.session /\ outcome.status = "decode"
  BY DEF Outcome
<1> HIDE DEF outcome
<1>2. c1 = c
  BY DEF Coders
<1> HIDE DEF c1
<1> QED
  BY <1>1, <1>2 DEF UnwrapNegotiation, outcome, c1

(* A negotiation that begins anew with the key it had.                     *)
LEMMA ResendMoves ==
    ASSUME NEW c \in Coders, InStep(c), c.session.state # "Done", NEW m, NEW k
    PROVE  Moves(ResendDH(c).coder, c, m, k)
<1> DEFINE s == c.session
           t == [s EXCEPT !.state = "AwaitingDHKey", !.receivedDH = NoKey,
                          !.receivedDHKey = NoKey]
           r == DHMessage(s)
           d == [c EXCEPT !.session = t, !.pendingResponse = r]
<1>1. s \in SessionRecords /\ s.state # "Idle" /\ s.myKey # NoKey /\ s.keyID = 1
      /\ ~s.receivedAck /\ s.state # "Done"
  BY DEF Coders, Sessions, HasItsKeys, InStep
<1>2. AppendRestartPacket(s) = Outcome(t, "success", r)
  BY <1>1 DEF AppendRestartPacket
<1>3. ResendDH(c).coder = d
  BY <1>2 DEF ResendDH, Outcome
<1>4. d.session = t /\ d.pendingResponse = r
  BY DEF Coders
<1>5. /\ t.state = "AwaitingDHKey" /\ t.myKey = s.myKey /\ t.keyID = s.keyID
      /\ t.receivedAck = s.receivedAck /\ t.theirKey = s.theirKey
      /\ t.theirPreviousKey = s.theirPreviousKey /\ t.receivedDH = NoKey
  BY <1>1 DEF SessionRecords
<1>6. r.type = "DH" /\ r.from = s.myKey /\ r.to = NoKey /\ r.next = NoKey
  BY NegotiationPackets DEF DHMessage
<1> HIDE DEF s, t, r, d
<1>7. InStep(d)
  BY <1>1, <1>4, <1>5, <1>6 DEF InStep, Answers
<1>8. Knows(d) \subseteq Knows(c) \cup {m.from, m.next, NoKey}
  BY <1>4, <1>5, <1>6 DEF Knows, s
<1>9. Awaits(d, c)
  BY <1>1, <1>4, <1>5 DEF Awaits, s
<1> QED
  BY <1>3, <1>7, <1>8, <1>9 DEF Moves

LEMMA DHMoves ==
    ASSUME NEW c \in Coders, InStep(c), NEW m \in Negotiations, m.type = "DH", NEW kn
    PROVE  Moves(UnwrapNegotiation(c, m, kn).coder, c, m, kn[1])
<1> DEFINE s == c.session
           d == UnwrapNegotiation(c, m, kn).coder
<1>1. /\ s \in SessionRecords /\ s.state # "Idle"
      /\ s.state # "Done" => s.keyID = 1 /\ ~s.receivedAck
      /\ ProcessPacket(s, m, kn[1], kn[2]) = ProcessDH(s, m, kn[1], kn[2])
  BY DEF Coders, Sessions, InStep, ProcessPacket
<1>2. CASE s.state = "AwaitingDHKey" /\ s.myKey > m.from
  <2> DEFINE t == [s EXCEPT !.receivedDH = NoKey]
             r == DHMessage(s)
  <2>1. ProcessPacket(s, m, kn[1], kn[2]) = Outcome(t, "success", r)
    BY <1>1, <1>2 DEF ProcessDH
  <2>2. /\ t.state = "AwaitingDHKey" /\ t.myKey = s.myKey /\ t.keyID = s.keyID
        /\ t.receivedAck = s.receivedAck /\ t.theirKey = s.theirKey
        /\ t.theirPreviousKey = s.theirPreviousKey /\ t.receivedDH = NoKey
    BY <1>1, <1>2 DEF SessionRecords
  <2>3. /\ r.type = "DH" /\ r.from = s.myKey /\ r.to = NoKey /\ r.next = NoKey
        /\ r # NoPacket
    BY NegotiationPackets DEF DHMessage
  <2> HIDE DEF t, r, d
  <2>4. d.session = t /\ d.pendingResponse = r
    BY <2>1, <2>3, Answering DEF d, s
  <2> HIDE DEF s
  <2>5. InStep(d)
    BY <1>1, <1>2, <2>2, <2>3, <2>4 DEF InStep, Answers
  <2>6. Knows(d) \subseteq Knows(c) \cup {m.from, m.next, NoKey}
    BY <2>2, <2>3, <2>4 DEF Knows, s
  <2>7. Awaits(d, c)
    BY <1>2, <2>2, <2>4 DEF Awaits, s
  <2> QED
    BY <2>5, <2>6, <2>7 DEF Moves, d
<1>3. CASE ~(s.state = "AwaitingDHKey" /\ s.myKey > m.from)
  <2> DEFINE i == IF s.state = "AwaitingRevealSignature" THEN s
                  ELSE InitMyDHKeys(s, kn[1], kn[2])
             t == [i EXCEPT !.state = "AwaitingRevealSignature", !.receivedDH = m.from]
             r == DHKeyMessage(i)
  <2>1. ProcessPacket(s, m, kn[1], kn[2]) = Outcome(t, "success", r)
    BY <1>1, <1>3 DEF ProcessDH
  <2>2. /\ i.keyID = 1 /\ ~i.receivedAck /\ i.theirKey = s.theirKey
        /\ i.theirPreviousKey = s.theirPreviousKey
        /\ i.myKey = IF s.state = "AwaitingRevealSignature" THEN s.myKey ELSE kn[1]
    BY <1>1 DEF InitMyDHKeys, SessionRecords
  <2>3. /\ t.state = "AwaitingRevealSignature" /\ t.myKey = i.myKey /\ t.keyID = i.keyID
        /\ t.receivedAck = i.receivedAck /\ t.theirKey = i.theirKey
        /\ t.theirPreviousKey = i.theirPreviousKey /\ t.receivedDH = m.from
    BY <1>1 DEF InitMyDHKeys, SessionRecords
  <2>4. /\ r.type = "DHKey" /\ r.from = i.myKey /\ r.to = NoKey /\ r.next = NoKey
        /\ r # NoPacket
    BY NegotiationPackets DEF DHKeyMessage
  <2> HIDE DEF i, t, r, d
  <2>5. d.session = t /\ d.pendingResponse = r
    BY <2>1, <2>4, Answering DEF d, s
  <2> HIDE DEF s
  <2>6. InStep(d)
    BY <2>2, <2>3, <2>4, <2>5 DEF InStep, Answers
  <2>7. Knows(d) \subseteq Knows(c) \cup {m.from, m.next, NoKey}
    BY <2>2, <2>3, <2>4, <2>5 DEF Knows, s
  <2>8. Awaits(d, c) \/ Begins(d, kn[1])
    BY <2>2, <2>3, <2>5 DEF Awaits, Begins, s
  <2> QED
    BY <2>6, <2>7, <2>8 DEF Moves, d
<1> QED
  BY <1>2, <1>3

LEMMA DHKeyMoves ==
    ASSUME NEW c \in Coders, InStep(c), NEW m \in Negotiations, m.type = "DHKey", NEW kn
    PROVE  Moves(UnwrapNegotiation(c, m, kn).coder, c, m, kn[1])
<1> DEFINE s == c.session
           keyed == SetupInitialRemoteKey(s, m.from)
           t == [keyed EXCEPT !.state = "AwaitingSignature", !.receivedDHKey = m.from]
           reveal == RevealSignatureMessage(keyed)
           d == UnwrapNegotiation(c, m, kn).coder
<1>1. /\ s \in SessionRecords /\ s.state # "Idle"
      /\ s.state # "Done" => s.keyID = 1 /\ ~s.receivedAck
      /\ ProcessPacket(s, m, kn[1], kn[2]) = ProcessDHKey(s, m)
  BY DEF Coders, Sessions, InStep, ProcessPacket
<1>2. /\ keyed.state = s.state /\ keyed.myKey = s.myKey /\ keyed.keyID = s.keyID
      /\ keyed.receivedAck = s.receivedAck /\ keyed.theirKey = m.from
      /\ keyed.theirPreviousKey = NoKey /\ keyed.receivedDH = s.receivedDH
      /\ keyed.keyCache = NoPairs
  BY <1>1 DEF SetupInitialRemoteKey, SessionRecords
<1>3. /\ t.state = "AwaitingSignature" /\ t.myKey = s.myKey /\ t.keyID = s.keyID
      /\ t.receivedAck = s.receivedAck /\ t.theirKey = m.from
      /\ t.theirPreviousKey = NoKey /\ t.receivedDH = s.receivedDH
      /\ t.keyCache = NoPairs
  BY <1>1 DEF SetupInitialRemoteKey, SessionRecords
<1>4. /\ reveal.type = "RevealSignature" /\ reveal.from = s.myKey /\ reveal.to = m.from
      /\ reveal.keyID = s.keyID /\ reveal.next = NoKey /\ reveal # NoPacket
  BY <1>2, NegotiationPackets DEF RevealSignatureMessage
<1>5. CASE s.state = "AwaitingDHKey" \/ (s.state = "AwaitingSignature" /\ m.from = s.receivedDHKey)
  <2> DEFINE u == IF s.state = "AwaitingDHKey" THEN t ELSE keyed
  <2>1. ProcessPacket(s, m, kn[1], kn[2]) = Outcome(u, "success", reveal)
    <3>1. CASE s.state = "AwaitingDHKey"
      BY <1>1, <3>1 DEF ProcessDHKey
    <3>2. CASE s.state = "AwaitingSignature" /\ m.from = s.receivedDHKey
      BY <1>1, <3>2 DEF ProcessDHKey
    <3> QED
      BY <1>5, <3>1, <3>2
  <2>2. /\ u.state = "AwaitingSignature" /\ u.myKey = s.myKey /\ u.keyID = s.keyID
        /\ u.receivedAck = s.receivedAck /\ u.theirKey = m.from
        /\ u.theirPreviousKey = NoKey /\ u.receivedDH = s.receivedDH
        /\ u.keyCache = NoPairs
    BY <1>2, <1>3, <1>5
  <2> HIDE DEF u, d, reveal, keyed, t
  <2>3. d.session = u /\ d.pendingResponse = reveal
    BY <1>4, <2>1, Answering DEF d, s
  <2> HIDE DEF s
  <2>4. InStep(d)
    BY <1>1, <1>4, <1>5, <2>2, <2>3 DEF InStep, Answers
  <2>5. Knows(d) \subseteq Knows(c) \cup {m.from, m.next, NoKey}
    BY <1>4, <2>2, <2>3 DEF Knows, s
  <2>6. Awaits(d, c)
    BY <1>5, <2>2, <2>3 DEF Awaits, s
  <2> QED
    BY <2>4, <2>5, <2>6 DEF Moves, d
<1>6. CASE ~(\/ s.state = "AwaitingDHKey"
             \/ s.state = "AwaitingSignature" /\ m.from = s.receivedDHKey)
  <2>1. ProcessPacket(s, m, kn[1], kn[2]) = Outcome(keyed, "success", NoPacket)
    BY <1>1, <1>6 DEF ProcessDHKey
  <2> HIDE DEF d, keyed, t, reveal
  <2>2. /\ d.session = keyed /\ d.pendingResponse = c.pendingResponse
        /\ s.state = "Done" => ~d.waitingForDataPacket
    BY <1>2, <2>1, NotAnswering DEF d, s
  <2>3. InStep(d)
    BY <1>2, <2>2 DEF InStep
  <2> HIDE DEF s
  <2>4. Knows(d) \subseteq Knows(c) \cup {m.from, m.next, NoKey}
    BY <1>2, <2>2 DEF Knows, s
  <2>5. Awaits(d, c) \/ Remains(d, c, m)
    BY <1>2, <2>2 DEF Awaits, Remains, s
  <2> QED
    BY <2>3, <2>4, <2>5 DEF Moves, d
<1> QED
  BY <1>5, <1>6

LEMMA RevealMoves ==
    ASSUME NEW c \in Coders, InStep(c), NEW m \in Negotiations, m.type = "RevealSignature", NEW kn
    PROVE  Moves(UnwrapNegotiation(c, m, kn).coder, c, m, kn[1])
<1> DEFINE s == c.session
           d == UnwrapNegotiation(c, m, kn).coder
<1>1. /\ s \in SessionRecords /\ s.state # "Idle"
      /\ s.state # "Done" => s.keyID = 1 /\ ~s.receivedAck
      /\ ProcessPacket(s, m, kn[1], kn[2]) = ProcessRevealSignature(s, m)
  BY DEF Coders, Sessions, InStep, ProcessPacket
<1>2. CASE s.state # "AwaitingRevealSignature"
  <2>1. ProcessPacket(s, m, kn[1], kn[2]) = Outcome(s, "success", NoPacket)
    BY <1>1, <1>2 DEF ProcessRevealSignature
  <2> HIDE DEF d
  <2>2. /\ d.session = s /\ d.pendingResponse = c.pendingResponse
        /\ s.state = "Done" => ~d.waitingForDataPacket
    BY <2>1, NotAnswering DEF d, s
  <2>3. InStep(d)
    BY <2>2 DEF InStep
  <2>4. Knows(d) \subseteq Knows(c) \cup {m.from, m.next, NoKey}
    BY <2>2 DEF Knows
  <2>5. Awaits(d, c) \/ Remains(d, c, m)
    BY <2>2 DEF Awaits, Remains
  <2> QED
    BY <2>3, <2>4, <2>5 DEF Moves, d
<1>3. CASE /\ s.state = "AwaitingRevealSignature"
           /\ m.from = s.receivedDH /\ m.to = s.myKey
  <2> DEFINE keyed == SetupInitialRemoteKey(s, s.receivedDH)
             t == [keyed EXCEPT !.theirKeyID = m.keyID, !.state = "Done"]
             r == SignatureMessage(t)
  <2>1. ProcessPacket(s, m, kn[1], kn[2]) = Outcome(t, "success", r)
    BY <1>1, <1>3 DEF ProcessRevealSignature
  <2>2. /\ t.state = "Done" /\ t.keyID = s.keyID /\ t.myKey = s.myKey
        /\ t.theirKey = m.from /\ t.theirKeyID = m.keyID
        /\ t.theirPreviousKey = NoKey /\ t.keyCache = NoPairs
        /\ t.receivedAck = s.receivedAck /\ t.receivedDH = s.receivedDH
    BY <1>1, <1>3 DEF SetupInitialRemoteKey, SessionRecords
  <2>3. /\ r.type = "Signature" /\ r.from = s.myKey /\ r.to = m.from
        /\ r.keyID = s.keyID /\ r.next = NoKey /\ r # NoPacket
    BY <2>2, NegotiationPackets DEF SignatureMessage
  <2> HIDE DEF t, r, d, keyed
  <2>4. d.session = t /\ d.pendingResponse = r
    BY <2>1, <2>3, Answering DEF d, s
  <2> HIDE DEF s
  <2>5. InStep(d)
    BY <1>1, <1>3, <2>2, <2>3, <2>4 DEF InStep, Answers
  <2>6. Knows(d) \subseteq Knows(c) \cup {m.from, m.next, NoKey}
    BY <2>2, <2>3, <2>4 DEF Knows, s
  <2>7. EndsByReveal(d, c, m)
    BY <1>3, <2>2, <2>3, <2>4 DEF EndsByReveal, s
  <2> QED
    BY <2>5, <2>6, <2>7 DEF Moves, d
<1>4. CASE /\ s.state = "AwaitingRevealSignature"
           /\ ~(m.from = s.receivedDH /\ m.to = s.myKey)
  <2>1. ProcessPacket(s, m, kn[1], kn[2]) = Outcome(s, "decode", NoPacket)
    BY <1>1, <1>4 DEF ProcessRevealSignature
  <2> QED
    BY <1>4, <2>1, Refusing, ResendMoves
<1> QED
  BY <1>2, <1>3, <1>4

LEMMA SignatureMoves ==
    ASSUME NEW c \in Coders, InStep(c), NEW m \in Negotiations, m.type = "Signature", NEW kn
    PROVE  Moves(UnwrapNegotiation(c, m, kn).coder, c, m, kn[1])
<1> DEFINE s == c.session
           d == UnwrapNegotiation(c, m, kn).coder
<1>1. /\ s \in SessionRecords /\ s.state # "Idle"
      /\ s.state # "Done" => s.keyID = 1 /\ ~s.receivedAck
      /\ ProcessPacket(s, m, kn[1], kn[2]) = ProcessSignature(s, m)
  BY DEF Coders, Sessions, InStep, ProcessPacket
<1>2. CASE s.state # "AwaitingSignature"
  <2>1. ProcessPacket(s, m, kn[1], kn[2]) = Outcome(s, "success", NoPacket)
    BY <1>1, <1>2 DEF ProcessSignature
  <2> HIDE DEF d
  <2>2. /\ d.session = s /\ d.pendingResponse = c.pendingResponse
        /\ s.state = "Done" => ~d.waitingForDataPacket
    BY <2>1, NotAnswering DEF d, s
  <2>3. InStep(d)
    BY <2>2 DEF InStep
  <2>4. Knows(d) \subseteq Knows(c) \cup {m.from, m.next, NoKey}
    BY <2>2 DEF Knows
  <2>5. Awaits(d, c) \/ Remains(d, c, m)
    BY <2>2 DEF Awaits, Remains
  <2> QED
    BY <2>3, <2>4, <2>5 DEF Moves, d
<1>3. CASE s.state = "AwaitingSignature" /\ m.from = s.theirKey /\ m.to = s.myKey
  <2> DEFINE t == [s EXCEPT !.theirKeyID = m.keyID, !.receivedDHKey = NoKey,
                            !.state = "Done"]
  <2>1. ProcessPacket(s, m, kn[1], kn[2]) = Outcome(t, "success", NoPacket)
    BY <1>1, <1>3 DEF ProcessSignature
  <2>2. /\ t.state = "Done" /\ t.keyID = s.keyID /\ t.myKey = s.myKey
        /\ t.theirKey = s.theirKey /\ t.theirKeyID = m.keyID
        /\ t.theirPreviousKey = s.theirPreviousKey /\ t.keyCache = s.keyCache
        /\ t.receivedAck = s.receivedAck /\ t.receivedDH = s.receivedDH
    BY <1>1, <1>3 DEF SessionRecords
  <2> HIDE DEF t, d
  <2>3. d.session = t /\ d.pendingResponse = c.pendingResponse /\ ~d.waitingForDataPacket
    BY <2>1, <2>2, NotAnswering DEF d, s
  <2>4. InStep(d)
    BY <1>1, <1>3, <2>2, <2>3 DEF InStep, Answers
  <2> HIDE DEF s
  <2>5. Knows(d) \subseteq Knows(c) \cup {m.from, m.next, NoKey}
    BY <2>2, <2>3 DEF Knows, s
  <2>6. EndsBySignature(d, c, m)
    BY <1>3, <2>2, <2>3 DEF EndsBySignature, s
  <2> QED
    BY <2>4, <2>5, <2>6 DEF Moves, d
<1>4. CASE s.state = "AwaitingSignature" /\ ~(m.from = s.theirKey /\ m.to = s.myKey)
  <2>1. ProcessPacket(s, m, kn[1], kn[2]) = Outcome(s, "decode", NoPacket)
    BY <1>1, <1>4 DEF ProcessSignature
  <2> QED
    BY <1>4, <2>1, Refusing, ResendMoves
<1> QED
  BY <1>2, <1>3, <1>4

LEMMA UnwrapNegotiationMoves ==
    ASSUME NEW c \in Coders, InStep(c), NEW m \in Negotiations, NEW kn
    PROVE  Moves(UnwrapNegotiation(c, m, kn).coder, c, m, kn[1])
<1>1. m.type \in {"DH", "DHKey", "RevealSignature", "Signature"}
  BY DEF Negotiations, PacketRecords, PacketTypes
<1> QED
  BY <1>1, DHMoves, DHKeyMoves, RevealMoves, SignatureMoves

(* A new negotiation.                                                      *)
LEMMA StartedAnew ==
    ASSUME NEW s \in SessionRecords, s.theirKey = NoKey, s.theirPreviousKey = NoKey,
           s.receivedDH = NoKey, NEW kn
    PROVE  /\ InStep(Started(s, kn)) /\ Begins(Started(s, kn), kn[1])
           /\ Knows(Started(s, kn)) \subseteq {NoKey}
<1> DEFINE i == InitMyDHKeys(s, kn[1], kn[2])
           t == [i EXCEPT !.state = "AwaitingDHKey"]
           r == DHMessage(t)
           d == Started(s, kn)
<1>1. d = Coder(t, FALSE, r)
  BY DEF Started, AppendStartPacket, Outcome
<1>2. d.session = t /\ d.pendingResponse = r /\ ~d.waitingForDataPacket
  BY <1>1 DEF Coder
<1>3. /\ t.state = "AwaitingDHKey" /\ t.myKey = kn[1] /\ t.keyID = 1 /\ ~t.receivedAck
      /\ t.theirKey = NoKey /\ t.theirPreviousKey = NoKey /\ t.receivedDH = NoKey
  BY DEF InitMyDHKeys, SessionRecords
<1>4. /\ r.type = "DH" /\ r.from = kn[1] /\ r.to = NoKey /\ r.next = NoKey
  BY <1>3, NegotiationPackets DEF DHMessage
<1> HIDE DEF i, t, r, d
<1>5. InStep(d)
  BY <1>2, <1>3, <1>4 DEF InStep, Answers
<1>6. Knows(d) \subseteq {NoKey}
  BY <1>2, <1>3, <1>4 DEF Knows
<1>7. Begins(d, kn[1])
  BY <1>2, <1>3 DEF Begins
<1> QED
  BY <1>5, <1>6, <1>7 DEF d

LEMMA StartedMoves ==
    ASSUME NEW s \in SessionRecords, s.theirKey = NoKey, s.theirPreviousKey = NoKey,
           s.receivedDH = NoKey, NEW c, NEW m, NEW kn
    PROVE  Moves(Started(s, kn), c, m, kn[1]) /\ Started(s, kn).session.state # "Done"
BY StartedAnew DEF Moves, Begins

LEMMA RestartedMoves ==
    ASSUME NEW b \in Coders, NEW c, NEW m, NEW kn
    PROVE  Moves(Restarted(b, kn), c, m, kn[1]) /\ Restarted(b, kn).session.state # "Done"
<1> DEFINE t == Reset(b.session)
<1>1. t \in SessionRecords
  BY ResetType DEF Coders, Sessions
<1>2. /\ t.theirKey = NoKey /\ t.theirPreviousKey = NoKey /\ t.receivedDH = NoKey
  BY DEF Reset, IdleSession
<1>3. Restarted(b, kn) = Started(t, kn)
  BY DEF Restarted
<1> HIDE DEF t
<1>4. Moves(Started(t, kn), c, m, kn[1]) /\ Started(t, kn).session.state # "Done"
  BY <1>1, <1>2, StartedMoves
<1> QED
  BY <1>3, <1>4
-----------------------------------------------------------------------------
(* A coder that is done, and the other end's keys that it knows.           *)

SameKnown(t, s) ==
    /\ t.state = s.state /\ t.receivedDH = s.receivedDH
    /\ t.theirKey = s.theirKey /\ t.theirPreviousKey = s.theirPreviousKey

LEMMA RollKnows ==
    ASSUME NEW s \in SessionRecords, NEW next, NEW over
    PROVE  SameKnown(RollIfTime(s, next, over), s)
<1> DEFINE going == [s EXCEPT !.stallingTheirRoll = FALSE, !.timeToRoll = FALSE]
           g == GenerateNewProposedKey(going, next)
           t == RollIfTime(s, next, over)
<1>1. DOMAIN s = {"state", "receivedDH", "receivedDHKey", "keyID", "myKey", "myNextKey",
                  "theirKeyID", "theirKey", "theirPreviousKey", "keyCache",
                  "stallingTheirRoll", "timeToRoll", "missedAck", "receivedAck"}
  BY DEF SessionRecords
<1>2. SameKnown(going, s) /\ DOMAIN going = DOMAIN s
  BY <1>1 DEF SameKnown
<1>3. \/ t = s
      \/ t = [g EXCEPT !.missedAck = FALSE, !.receivedAck = FALSE]
      \/ t = [going EXCEPT !.missedAck = TRUE]
  BY DEF RollIfTime, Roll
<1> HIDE DEF going, t
<1>4. SameKnown(g, s) /\ DOMAIN g = DOMAIN s
  BY <1>1, <1>2 DEF SameKnown, GenerateNewProposedKey
<1> HIDE DEF g
<1>5. SameKnown([g EXCEPT !.missedAck = FALSE, !.receivedAck = FALSE], s)
  BY <1>1, <1>4 DEF SameKnown
<1>6. SameKnown([going EXCEPT !.missedAck = TRUE], s)
  BY <1>1, <1>2 DEF SameKnown
<1>7. SameKnown(s, s)
  BY DEF SameKnown
<1> QED
  BY <1>3, <1>5, <1>6, <1>7 DEF t

LEMMA AcknowledgeKnows ==
    ASSUME NEW s \in SessionRecords, NEW next
    PROVE  SameKnown(HandleProposalAcknowledge(s, next), s)
<1> DEFINE g == GenerateNewProposedKey(s, next)
           t == HandleProposalAcknowledge(s, next)
<1>1. DOMAIN s = {"state", "receivedDH", "receivedDHKey", "keyID", "myKey", "myNextKey",
                  "theirKeyID", "theirKey", "theirPreviousKey", "keyCache",
                  "stallingTheirRoll", "timeToRoll", "missedAck", "receivedAck"}
  BY DEF SessionRecords
<1>2. \/ t = [g EXCEPT !.missedAck = FALSE]
      \/ t = [s EXCEPT !.receivedAck = TRUE, !.timeToRoll = SlowRoll]
  BY DEF HandleProposalAcknowledge
<1> HIDE DEF t
<1>3. SameKnown(g, s) /\ DOMAIN g = DOMAIN s
  BY <1>1 DEF SameKnown, GenerateNewProposedKey
<1> HIDE DEF g
<1>4. SameKnown([g EXCEPT !.missedAck = FALSE], s)
  BY <1>1, <1>3 DEF SameKnown
<1>5. SameKnown([s EXCEPT !.receivedAck = TRUE, !.timeToRoll = SlowRoll], s)
  BY <1>1 DEF SameKnown
<1> QED
  BY <1>2, <1>4, <1>5 DEF t

LEMMA SentKnows ==
    ASSUME NEW s \in Sessions, s.state = "Done", NEW content, NEW next \in KeyOrNone, NEW over
    PROVE  LET o == SignAndProtect(s, content, next, over)
           IN /\ SameKnown(o.session, s) /\ o.response.type = "Data"
              /\ o.response.to \in {s.theirKey, s.theirPreviousKey}
<1> DEFINE r == RollIfTime(s, next, over)
           stalling == r.stallingTheirRoll /\ r.theirPreviousKey # NoKey
           theirs == IF stalling THEN r.theirPreviousKey ELSE s.theirKey
           pair == <<r.myKey, theirs>>
           found == FindKeys(r, r.myKey, theirs)
           sent == [found EXCEPT !.keyCache[pair].mine = @ + 1]
           o == SignAndProtect(s, content, next, over)
<1>1. s \in SessionRecords
  BY DEF Sessions
<1>2. SameKnown(r, s) /\ r \in SessionRecords
  BY <1>1, RollKnows, RollIfTimeRecord
<1>3. o.session = sent /\ o.response.type = "Data" /\ o.response.to = theirs
  BY DEF SignAndProtect, Outcome
<1>4. theirs \in {s.theirKey, s.theirPreviousKey}
  BY <1>2 DEF SameKnown
<1> HIDE DEF o, r, theirs
<1>5. /\ found.state = r.state /\ found.receivedDH = r.receivedDH
      /\ found.theirKey = r.theirKey /\ found.theirPreviousKey = r.theirPreviousKey
      /\ DOMAIN found = DOMAIN r
  BY <1>2 DEF FindKeys, SessionRecords
<1>6. DOMAIN r = {"state", "receivedDH", "receivedDHKey", "keyID", "myKey", "myNextKey",
                  "theirKeyID", "theirKey", "theirPreviousKey", "keyCache",
                  "stallingTheirRoll", "timeToRoll", "missedAck", "receivedAck"}
  BY <1>2 DEF SessionRecords
<1> HIDE DEF found, pair
<1>7. /\ sent.state = found.state /\ sent.receivedDH = found.receivedDH
      /\ sent.theirKey = found.theirKey /\ sent.theirPreviousKey = found.theirPreviousKey
  BY <1>5, <1>6
<1> HIDE DEF sent
<1>8. SameKnown(o.session, s)
  BY <1>2, <1>3, <1>5, <1>7 DEF SameKnown
<1> QED
  BY <1>3, <1>4, <1>8 DEF o

LEMMA ExposedKnows ==
    ASSUME NEW s \in Sessions, s.state = "Done", NEW m \in DataPackets, NEW next \in Key, NEW over
    PROVE  LET t == VerifyAndExpose(s, m, next, over).session
           IN /\ t.state = "Done" /\ t.receivedDH = s.receivedDH
              /\ t.theirKey \in {s.theirKey, m.next}
              /\ t.theirPreviousKey \in {s.theirKey, s.theirPreviousKey}
<1> DEFINE mine == IF m.theirKeyID = s.keyID THEN s.myKey ELSE s.myNextKey
           theirs == IF m.keyID = s.theirKeyID THEN s.theirKey ELSE s.theirPreviousKey
           found == FindKeys(s, mine, theirs)
           pair == <<mine, theirs>>
           counted == [found EXCEPT !.keyCache[pair].theirs = m.counter]
           accepted == IF m.keyID = s.theirKeyID THEN AcceptNewRemoteKey(counted, m.next)
                       ELSE counted
           acked == IF m.theirKeyID = s.keyID + 1
                    THEN HandleProposalAcknowledge(accepted, next) ELSE accepted
           rolled == RollIfTime(acked, next, over)
           last == FindKeys(rolled, rolled.myKey, rolled.theirKey)
           v == VerifyAndExpose(s, m, next, over)
<1>1. s.myKey # NoKey /\ s.myNextKey # NoKey /\ s.theirKey # NoKey /\ s \in SessionRecords
  BY DEF Sessions, HasItsKeys
<1>2. mine \in {s.myKey, s.myNextKey} /\ theirs \in {s.theirKey, s.theirPreviousKey}
  OBVIOUS
<1>3. found \in Sessions /\ SameButCache(found, s)
  BY <1>2, FindKeysType
<1>4. CASE v.session \in {s, found}
  <2> HIDE DEF v, found
  <2> QED
    BY <1>3, <1>4 DEF SameButCache, v
<1>5. CASE v.session \notin {s, found}
  <2>1. /\ KnowsTheirID(s, m.keyID) /\ KnowsMyID(s, m.theirKeyID)
        /\ v.session = last
    BY <1>5 DEF VerifyAndExpose, Outcome
  <2>2. mine # NoKey /\ theirs # NoKey
    BY <1>1, <2>1 DEF KnowsTheirID, SessionRecords
  <2>3. pair \in DOMAIN found.keyCache
    BY <1>2, <2>2, FindKeysType
  <2> HIDE DEF v, mine, theirs, found
  <2> DEFINE counters == [found.keyCache[pair] EXCEPT !.theirs = m.counter]
  <2>4. counters \in Counters /\ counted = Counted(found, pair, counters)
    <3>1. found.keyCache[pair] \in Counters /\ m.counter \in Nat
      BY <1>3, <2>3, PairCounters DEF DataPackets, PacketRecords
    <3>2. counters \in Counters
      BY <3>1 DEF Counters
    <3> QED
      BY <3>2 DEF Counted
  <2> HIDE DEF pair, counters, counted
  <2>5. counted \in Sessions /\ SameButCache(counted, found)
    BY <1>3, <2>3, <2>4, CountedType
  <2>6. counted \in Keyed /\ counted.state = "Done"
    BY <1>1, <1>3, <2>5 DEF SameButCache, Keyed
  <2>7. m.next \in Key
    BY DEF DataPackets, PacketRecords, KeyOrNone
  <2>8. /\ counted.receivedDH = s.receivedDH /\ counted.theirKey = s.theirKey
        /\ counted.theirPreviousKey = s.theirPreviousKey
    BY <1>3, <2>5 DEF SameButCache
  <2>9. /\ accepted \in Keyed /\ accepted.state = "Done" /\ accepted.receivedDH = s.receivedDH
        /\ accepted.theirKey \in {s.theirKey, m.next}
        /\ accepted.theirPreviousKey \in {s.theirKey, s.theirPreviousKey}
    <3>1. CASE accepted = counted
      BY <2>6, <2>8, <3>1
    <3>2. CASE accepted = AcceptNewRemoteKey(counted, m.next)
      <4> HIDE DEF accepted
      <4>1. accepted \in Keyed
        BY <2>6, <2>7, <3>2, AcceptType
      <4>2. /\ accepted.state = counted.state /\ accepted.receivedDH = counted.receivedDH
            /\ accepted.theirKey = m.next /\ accepted.theirPreviousKey = counted.theirKey
        BY <2>5, <3>2 DEF AcceptNewRemoteKey, Sessions, SessionRecords
      <4> QED
        BY <2>6, <2>8, <4>1, <4>2
    <3> QED
      BY <3>1, <3>2
  <2> HIDE DEF accepted
  <2>10. acked \in Keyed /\ SameKnown(acked, accepted)
    <3>1. accepted \in SessionRecords
      BY <2>9 DEF Keyed, Sessions
    <3> QED
      BY <2>9, <3>1, AcknowledgeType, AcknowledgeKnows DEF SameKnown
  <2> HIDE DEF acked
  <2>11. rolled \in Keyed /\ SameKnown(rolled, acked)
    <3>1. acked \in SessionRecords
      BY <2>10 DEF Keyed, Sessions
    <3> QED
      BY <2>10, <3>1, RollIfTimeType, RollKnows
  <2> HIDE DEF rolled
  <2>12. SameButCache(last, rolled)
    BY <2>11, FindKeysType DEF Keyed
  <2> HIDE DEF last
  <2> QED
    BY <2>1, <2>9, <2>10, <2>11, <2>12 DEF SameKnown, SameButCache, v
<1> QED
  BY <1>4, <1>5

LEMMA UnwrapDataMoves ==
    ASSUME NEW c \in Coders, InStep(c), NEW m \in DataPackets, NEW kn, kn[2] \in Key, NEW over
    PROVE  LET u == UnwrapData(c, m, kn, over)
           IN /\ Moves(u.coder, c, m, kn[1])
              /\ u.coder.session.state = "Done" =>
                    u.coder.session = VerifyAndExpose(c.session, m, kn[2], over).session
<1> DEFINE received == [c EXCEPT !.lastReceived = m, !.lastReceivedWasOld = FALSE]
           outcome == VerifyAndExpose(c.session, m, kn[2], over)
           exposed == [received EXCEPT !.session = outcome.session,
                                       !.waitingForDataPacket = FALSE]
           u == UnwrapData(c, m, kn, over)
<1>1. /\ received \in Coders /\ received.session = c.session
      /\ received.pendingResponse = c.pendingResponse
      /\ received.waitingForDataPacket = c.waitingForDataPacket
  BY DEF Coders, Packets
<1>2. CASE ~IsReady(c)
  <2>1. u = ResendDH(received)
    BY <1>2 DEF UnwrapData
  <2>2. InStep(received) /\ received.session.state # "Done"
    BY <1>1, <1>2 DEF InStep, IsReady
  <2> HIDE DEF received, u
  <2>3. Moves(u.coder, received, m, kn[1])
    BY <1>1, <2>1, <2>2, ResendMoves
  <2>4. Moves(u.coder, c, m, kn[1])
    BY <1>1, <2>3 DEF Moves, Knows, Begins, Awaits, EndsBySignature, EndsByReveal, Remains
  <2>5. u.coder.session.state # "Done"
    <3>1. m.type = "Data"
      BY DEF DataPackets
    <3> QED
      BY <2>2, <2>3, <3>1 DEF Moves, Begins, Awaits, EndsBySignature, EndsByReveal, Remains
  <2> QED
    BY <2>4, <2>5 DEF u
<1>3. CASE IsReady(c)
  <2>1. c.session \in Sessions /\ c.session.state = "Done" /\ m.type = "Data"
    BY <1>3 DEF Coders, IsReady, DataPackets
  <2>2. outcome.status \in {"success", "tooOld", "tooNew", "authFailed"}
    BY <2>1, VerifyAndExposeType
  <2>3. /\ outcome.session.state = "Done"
        /\ outcome.session.receivedDH = c.session.receivedDH
        /\ outcome.session.theirKey \in {c.session.theirKey, m.next}
        /\ outcome.session.theirPreviousKey
             \in {c.session.theirKey, c.session.theirPreviousKey}
    <3> DEFINE s == c.session
               next == kn[2]
    <3>1. s \in Sessions /\ s.state = "Done" /\ next \in Key
      BY <2>1
    <3> HIDE DEF s, next
    <3>2. /\ VerifyAndExpose(s, m, next, over).session.state = "Done"
          /\ VerifyAndExpose(s, m, next, over).session.receivedDH = s.receivedDH
          /\ VerifyAndExpose(s, m, next, over).session.theirKey \in {s.theirKey, m.next}
          /\ VerifyAndExpose(s, m, next, over).session.theirPreviousKey
               \in {s.theirKey, s.theirPreviousKey}
      BY <3>1, ExposedKnows
    <3> QED
      BY <3>2 DEF s, next
  <2>4. u.coder \in {exposed, [exposed EXCEPT !.lastReceivedWasOld = TRUE]}
    <3>1. CASE outcome.status = "success"
      BY <1>3, <3>1 DEF UnwrapData
    <3>2. CASE outcome.status = "tooOld"
      BY <1>3, <3>2 DEF UnwrapData
    <3>3. CASE outcome.status = "tooNew"
      BY <1>3, <3>3 DEF UnwrapData
    <3>4. CASE outcome.status = "authFailed"
      BY <1>3, <3>4 DEF UnwrapData
    <3> QED
      BY <2>2, <3>1, <3>2, <3>3, <3>4
  <2> HIDE DEF received, outcome, u
  <2>5. /\ u.coder.session = outcome.session
        /\ u.coder.pendingResponse = c.pendingResponse
        /\ ~u.coder.waitingForDataPacket
    <3>1. DOMAIN received = {"session", "waitingForDataPacket", "pendingResponse",
                             "lastReceived", "lastReceivedWasOld"}
      BY <1>1 DEF Coders
    <3>2. /\ exposed.session = outcome.session
          /\ exposed.pendingResponse = c.pendingResponse
          /\ ~exposed.waitingForDataPacket /\ DOMAIN exposed = DOMAIN received
      BY <1>1, <3>1
    <3> HIDE DEF exposed
    <3>3. LET e == [exposed EXCEPT !.lastReceivedWasOld = TRUE]
          IN /\ e.session = outcome.session
             /\ e.pendingResponse = c.pendingResponse
             /\ ~e.waitingForDataPacket
      BY <3>1, <3>2
    <3> QED
      BY <2>4, <3>2, <3>3
  <2> HIDE DEF exposed
  <2> DEFINE d == u.coder
  <2>6. InStep(d)
    BY <2>1, <2>3, <2>5 DEF InStep
  <2>7. Knows(d) \subseteq Knows(c) \cup {m.from, m.next, NoKey}
    BY <2>3, <2>5 DEF Knows
  <2>8. Remains(d, c, m)
    BY <2>1, <2>3, <2>5 DEF Remains
  <2> HIDE DEF d
  <2>9. Moves(d, c, m, kn[1])
    BY <2>6, <2>7, <2>8 DEF Moves
  <2> QED
    BY <2>5, <2>9 DEF u, d, outcome
<1> QED
  BY <1>2, <1>3

(* What reading a message makes of a coder.                                *)
LEMMA UnwrapMoves ==
    ASSUME NEW c \in Coders, InStep(c), NEW m \in Packets, m # NoPacket,
           NEW kn, kn[2] \in Key, NEW over
    PROVE  LET u == Unwrap(c, m, kn, over)
           IN /\ Moves(u.coder, c, m, kn[1])
              /\ m.type = "Data" /\ u.coder.session.state = "Done" =>
                    u.coder.session = VerifyAndExpose(c.session, m, kn[2], over).session
<1>1. CASE m \in DataPackets
  <2>1. Unwrap(c, m, kn, over) = UnwrapData(c, m, kn, over)
    BY <1>1 DEF Unwrap, DataPackets
  <2> QED
    BY <1>1, <2>1, UnwrapDataMoves
<1>2. CASE m \in Negotiations
  <2>1. m.type # "Data" /\ Unwrap(c, m, kn, over) = UnwrapNegotiation(c, m, kn)
    BY <1>2 DEF Unwrap, Negotiations
  <2> QED
    BY <1>2, <2>1, UnwrapNegotiationMoves
<1> QED
  BY <1>1, <1>2 DEF Packets
-----------------------------------------------------------------------------
(* Two coders, c and d, and the messages k and l that they have in the     *)
(* store: what each says of the negotiation that the other is in.          *)

(* The key of a negotiation that goes on is known to the other end by the  *)
(* message in the store, if by anything.                                   *)
Published(c, k, d, l) ==
    LET s == c.session
    IN s.state # "Done" =>
         /\ k.next # s.myKey
         /\ k.from # s.myKey => s.myKey \notin Knows(d) \cup {l.to}
         /\ k.from = s.myKey =>
              /\ k.type \in {"DH", "DHKey", "RevealSignature"}
              /\ s.state = "AwaitingRevealSignature" => k.type = "DHKey"

(* The end that reveals first is not done first.                           *)
RevealFirst(c, k, d) ==
    \A m \in {k, c.pendingResponse} :
        m.type = "RevealSignature" /\ m.to = d.session.myKey /\ d.session.state # "Done"
        => c.session.state # "Done"

(* The end that is done first, and has signed or will, has used no other   *)
(* keys since, and the other end awaits the signature or has fallen back.  *)
Offers(c, k) == {k} \cup (IF c.waitingForDataPacket THEN {c.pendingResponse} ELSE {})

Signed(c, k, d, l) ==
    LET s == c.session
        t == d.session
    IN \A m \in Offers(c, k) :
         m.type = "Signature" /\ m.to = t.myKey /\ t.state # "Done" /\ s.state = "Done" =>
           /\ s.keyID = 1 /\ s.myKey = m.from /\ s.theirKeyID = 1 /\ s.theirKey = m.to
           /\ s.theirPreviousKey = NoKey /\ s.keyCache = NoPairs /\ ~s.receivedAck
           /\ t.state \in {"AwaitingSignature", "AwaitingDHKey"}
           /\ l.type \in {"DH", "RevealSignature"}

Agreed(c, k, d, l) ==
    c.session.state = "Done" /\ d.session.state = "Done" =>
        InTouch(c.session, d.session, k, l) /\ k.type # "DHKey" /\ l.type # "DHKey"

Between(c, k, d, l) ==
    /\ InStep(c) /\ InStep(d) /\ MessageInStep(k) /\ MessageInStep(l)
    /\ Published(c, k, d, l) /\ Published(d, l, c, k)
    /\ RevealFirst(c, k, d) /\ RevealFirst(d, l, c)
    /\ Signed(c, k, d, l) /\ Signed(d, l, c, k)
    /\ Agreed(c, k, d, l)

(* A key that is new to the other end.                                     *)
NewTo(x, k, d, l) == x \notin {NoKey, k.from, k.next, l.to} \cup Knows(d)

LEMMA BetweenBoth ==
    ASSUME NEW c, NEW k, NEW d, NEW l, Between(c, k, d, l)
    PROVE  Between(d, l, c, k)
<1>1. Agreed(d, l, c, k)
  BY DEF Between, Agreed, InTouch
<1> QED
  BY <1>1 DEF Between

(* The key of a coder that is not done is one.                             *)
LEMMA HasKey ==
    ASSUME NEW c \in Coders, InStep(c)
    PROVE  /\ c.session.myKey # NoKey
           /\ c.session.state = "AwaitingSignature" => c.session.theirPreviousKey = NoKey
BY DEF Coders, Sessions, HasItsKeys, InStep

(* What a coder makes of the message l leaves both as they should be: the  *)
(* four parts one by one.                                                  *)
LEMMA MovesPublished ==
    ASSUME NEW c \in Coders, NEW d \in Coders, NEW k, NEW l, NEW x, NEW e,
           Between(c, k, d, l), Moves(e, c, l, x), NewTo(x, k, d, l)
    PROVE  Published(e, k, d, l) /\ Published(d, l, e, k)
<1>1. /\ Published(c, k, d, l) /\ Published(d, l, c, k) /\ InStep(c) /\ InStep(d)
      /\ d.session.myKey # NoKey
  BY HasKey DEF Between
<1>2. Published(e, k, d, l)
  <2>1. CASE Begins(e, x)
    BY <2>1 DEF Begins, NewTo, Published
  <2>2. CASE Awaits(e, c)
    BY <1>1, <2>2 DEF Awaits, Published
  <2>3. CASE e.session.state = "Done"
    BY <2>3 DEF Published
  <2> QED
    BY <2>1, <2>2, <2>3 DEF Moves, EndsBySignature, EndsByReveal, Remains
<1>3. Published(d, l, e, k)
  BY <1>1 DEF Published, Moves
<1> QED
  BY <1>2, <1>3

LEMMA MovesReveal ==
    ASSUME NEW c \in Coders, NEW d \in Coders, NEW k, NEW l, NEW x, NEW e,
           Between(c, k, d, l), Moves(e, c, l, x), NewTo(x, k, d, l)
    PROVE  RevealFirst(e, k, d) /\ RevealFirst(d, l, e)
<1>1. /\ Published(c, k, d, l) /\ Published(d, l, c, k) /\ InStep(c) /\ InStep(d)
      /\ RevealFirst(c, k, d) /\ RevealFirst(d, l, c)
  BY DEF Between
<1>2. RevealFirst(e, k, d)
  <2> SUFFICES ASSUME NEW m \in {k, e.pendingResponse}, m.type = "RevealSignature",
                      m.to = d.session.myKey, d.session.state # "Done",
                      e.session.state = "Done"
               PROVE  FALSE
    BY DEF RevealFirst
  <2>1. CASE EndsBySignature(e, c, l)
    <3>1. /\ l.type = "Signature" /\ l.to = c.session.myKey /\ c.session.state # "Done"
          /\ m \in {k, c.pendingResponse}
      BY <2>1 DEF EndsBySignature
    <3>2. l.from # d.session.myKey
      BY <1>1, <3>1 DEF Published
    <3>3. d.session.myKey \notin Knows(c) \cup {k.to}
      BY <1>1, <3>2 DEF Published
    <3> QED
      BY <3>1, <3>3 DEF Knows
  <2>2. CASE EndsByReveal(e, c, l)
    <3>1. /\ l.type = "RevealSignature" /\ l.to = c.session.myKey /\ c.session.state # "Done"
          /\ c.session.state = "AwaitingRevealSignature" /\ m = k
      BY <2>2 DEF EndsByReveal
    <3>2. k.from # c.session.myKey
      BY <1>1, <3>1 DEF Published
    <3> QED
      BY <1>1, <3>1, <3>2 DEF Published
  <2>3. CASE Remains(e, c, l)
    BY <1>1, <2>3 DEF Remains, RevealFirst
  <2> QED
    BY <2>1, <2>2, <2>3 DEF Moves, Begins, Awaits
<1>3. RevealFirst(d, l, e)
  <2> SUFFICES ASSUME NEW m \in {l, d.pendingResponse}, m.type = "RevealSignature",
                      m.to = e.session.myKey, e.session.state # "Done"
               PROVE  d.session.state # "Done"
    BY DEF RevealFirst
  <2>1. CASE Begins(e, x)
    BY <2>1 DEF Begins, NewTo, Knows
  <2>2. CASE Awaits(e, c)
    BY <1>1, <2>2 DEF Awaits, RevealFirst
  <2> QED
    BY <2>1, <2>2 DEF Moves, EndsBySignature, EndsByReveal, Remains
<1> QED
  BY <1>2, <1>3

LEMMA MovesSigned ==
    ASSUME NEW c \in Coders, NEW d \in Coders, NEW k, NEW l, NEW x, NEW e,
           Between(c, k, d, l), Moves(e, c, l, x), NewTo(x, k, d, l)
    PROVE  Signed(e, k, d, l) /\ Signed(d, l, e, k)
<1>1. /\ Published(c, k, d, l) /\ Published(d, l, c, k) /\ InStep(c) /\ InStep(d)
      /\ Signed(c, k, d, l) /\ Signed(d, l, c, k) /\ MessageInStep(l)
      /\ InStep(e) /\ d.pendingResponse.to \in Knows(d)
  BY DEF Between, Moves, Knows
<1>2. Signed(e, k, d, l)
  <2> SUFFICES ASSUME NEW m \in Offers(e, k), m.type = "Signature",
                      m.to = d.session.myKey, d.session.state # "Done",
                      e.session.state = "Done"
               PROVE  LET s == e.session
                          t == d.session
                      IN /\ s.keyID = 1 /\ s.myKey = m.from
                         /\ s.theirKeyID = 1 /\ s.theirKey = m.to
                         /\ s.theirPreviousKey = NoKey /\ s.keyCache = NoPairs /\ ~s.receivedAck
                         /\ t.state \in {"AwaitingSignature", "AwaitingDHKey"}
                         /\ l.type \in {"DH", "RevealSignature"}
    BY DEF Signed
  <2>1. CASE EndsBySignature(e, c, l)
    <3>1. /\ l.type = "Signature" /\ m = k
      BY <2>1 DEF EndsBySignature, Offers
    <3>2. l.from # d.session.myKey
      BY <1>1, <3>1 DEF Published
    <3> QED
      BY <1>1, <3>1, <3>2 DEF Published
  <2>2. CASE EndsByReveal(e, c, l)
    <3>1. /\ l.type = "RevealSignature" /\ l.keyID = 1 /\ c.session.keyID = 1
          /\ ~c.session.receivedAck /\ m \in {k, e.pendingResponse}
      BY <1>1, <2>2 DEF EndsByReveal, Offers, MessageInStep, InStep
    <3>2. CASE l.from = d.session.myKey
      <4>1. CASE m = e.pendingResponse
        <5>1. d.session.state \in {"AwaitingSignature", "AwaitingDHKey"}
          <6>1. d.session.state # "AwaitingRevealSignature"
            BY <1>1, <3>1, <3>2 DEF Published
          <6>2. d.session.state \in Negotiating \cup {"Done"} /\ d.session.state # "Idle"
            BY <1>1 DEF Coders, Sessions, SessionRecords, InStep
          <6> QED
            BY <6>1, <6>2 DEF Negotiating
        <5> QED
          BY <2>2, <3>1, <3>2, <4>1, <5>1 DEF EndsByReveal
      <4>2. CASE m = k
        BY <1>1, <2>2, <3>1, <4>2 DEF EndsByReveal, Published
      <4> QED
        BY <3>1, <4>1, <4>2
    <3>3. CASE l.from # d.session.myKey
      <4>1. d.session.myKey \notin Knows(c) \cup {k.to}
        BY <1>1, <3>3 DEF Published
      <4> QED
        BY <2>2, <3>1, <3>3, <4>1 DEF EndsByReveal
    <3> QED
      BY <3>2, <3>3
  <2>3. CASE Remains(e, c, l)
    <3>1. c.session.state = "Done" /\ m \in Offers(c, k)
      BY <2>3 DEF Remains, Offers
    <3>2. l.type \in {"DH", "RevealSignature"}
      BY <1>1, <3>1 DEF Signed
    <3>3. e.session = c.session
      BY <2>3, <3>2 DEF Remains
    <3> QED
      BY <1>1, <3>1, <3>3 DEF Signed
  <2> QED
    BY <2>1, <2>2, <2>3 DEF Moves, Begins, Awaits
<1>3. Signed(d, l, e, k)
  <2> SUFFICES ASSUME NEW m \in Offers(d, l), m.type = "Signature",
                      m.to = e.session.myKey, e.session.state # "Done",
                      d.session.state = "Done"
               PROVE  LET s == d.session
                          t == e.session
                      IN /\ s.keyID = 1 /\ s.myKey = m.from
                         /\ s.theirKeyID = 1 /\ s.theirKey = m.to
                         /\ s.theirPreviousKey = NoKey /\ s.keyCache = NoPairs /\ ~s.receivedAck
                         /\ t.state \in {"AwaitingSignature", "AwaitingDHKey"}
                         /\ k.type \in {"DH", "RevealSignature"}
    BY DEF Signed
  <2>1. CASE Begins(e, x)
    BY <1>1, <2>1 DEF Begins, NewTo, Offers
  <2>2. CASE Awaits(e, c)
    <3>1. c.session.state \in {"AwaitingSignature", "AwaitingDHKey"}
      BY <1>1, <2>2 DEF Awaits, Signed
    <3>2. e.session.state \in {"AwaitingSignature", "AwaitingDHKey"}
      <4>1. e.session.state # "AwaitingRevealSignature"
        BY <2>2, <3>1 DEF Awaits
      <4> QED
        BY <1>1, <4>1 DEF InStep, Answers
    <3> QED
      BY <1>1, <2>2, <3>2 DEF Awaits, Signed
  <2> QED
    BY <2>1, <2>2 DEF Moves, EndsBySignature, EndsByReveal, Remains
<1> QED
  BY <1>2, <1>3

(* Whichever end is done last agrees with the other.                       *)
LEMMA MovesAgreed ==
    ASSUME NEW c \in Coders, NEW d \in Coders, NEW k, NEW l, NEW x,
           NEW e \in Coders, Between(c, k, d, l), Moves(e, c, l, x),
           /\ l.type = "Data" /\ c.session.state = "Done"
           /\ e.session.state = "Done" /\ d.session.state = "Done"
           /\ InTouch(c.session, d.session, k, l)
           => InTouch(e.session, d.session, k, l)
    PROVE  Agreed(e, k, d, l)
<1>1. /\ Published(c, k, d, l) /\ Signed(d, l, c, k) /\ RevealFirst(d, l, c)
      /\ Agreed(c, k, d, l) /\ InStep(c)
  BY DEF Between
<1> SUFFICES ASSUME e.session.state = "Done", d.session.state = "Done"
             PROVE  /\ InTouch(e.session, d.session, k, l)
                    /\ k.type # "DHKey" /\ l.type # "DHKey"
  BY DEF Agreed
<1> DEFINE s == e.session
           t == d.session
<1>2. CASE EndsBySignature(e, c, l)
  <2>1. /\ l.type = "Signature" /\ l.to = c.session.myKey /\ c.session.state # "Done"
        /\ c.session.keyID = 1 /\ ~c.session.receivedAck /\ c.session.keyCache = NoPairs
        /\ c.session.theirPreviousKey = NoKey /\ l \in Offers(d, l)
    BY <1>1, <1>2, HasKey DEF EndsBySignature, InStep, Offers
  <2>2. /\ t.keyID = 1 /\ t.myKey = l.from /\ t.theirKeyID = 1 /\ t.theirKey = l.to
        /\ t.theirPreviousKey = NoKey /\ t.keyCache = NoPairs /\ ~t.receivedAck
        /\ k.type \in {"DH", "RevealSignature"}
    BY <1>1, <2>1 DEF Signed
  <2>3. /\ s.keyID = 1 /\ s.myKey = l.to /\ s.theirKey = l.from
        /\ s.theirPreviousKey = NoKey /\ s.keyCache = NoPairs /\ ~s.receivedAck
        /\ s.theirKeyID = l.keyID
    BY <1>2, <2>1 DEF EndsBySignature
  <2>4. l.keyID = 1 /\ l.from # NoKey /\ l.to # NoKey
        /\ t.myNextKey # NoKey /\ s.myNextKey # NoKey
    <3>1. l.keyID = 1
      BY <2>1 DEF Between, MessageInStep
    <3>2. InStep(e) /\ InStep(d)
      BY DEF Between, Moves
    <3>3. /\ t.myKey # NoKey /\ t.myNextKey # NoKey
          /\ s.myKey # NoKey /\ s.myNextKey # NoKey
      BY <3>2, HasKey DEF Coders, Sessions, HasItsKeys
    <3> QED
      BY <2>2, <2>3, <3>1, <3>3
  <2> HIDE DEF s, t
  <2>5. View(s, t) /\ View(t, s)
    BY <2>2, <2>3, <2>4 DEF View, Stalls
  <2>6. CountsFit(s, t) /\ CountsFit(t, s)
    BY <2>2, <2>3, NoPairsCached DEF CountsFit, Mine, Theirs
  <2>7. Follows(k, s, t) /\ Follows(l, t, s)
    BY <2>1, <2>2 DEF Follows
  <2> QED
    BY <2>1, <2>2, <2>5, <2>6, <2>7 DEF InTouch, s, t
<1>3. CASE EndsByReveal(e, c, l)
  <2>1. l.type = "RevealSignature" /\ l.to = c.session.myKey /\ c.session.state # "Done"
    BY <1>3 DEF EndsByReveal
  <2> QED
    BY <1>1, <2>1 DEF RevealFirst
<1>4. CASE Remains(e, c, l)
  <2>1. /\ c.session.state = "Done"
        /\ InTouch(c.session, d.session, k, l) /\ k.type # "DHKey" /\ l.type # "DHKey"
    BY <1>1, <1>4 DEF Remains, Agreed
  <2>2. InTouch(e.session, d.session, k, l)
    <3>1. CASE e.session = c.session
      BY <2>1, <3>1
    <3>2. CASE l.type = "Data"
      BY <2>1, <3>2
    <3> QED
      BY <1>4, <2>1, <3>1, <3>2 DEF Remains
  <2> QED
    BY <2>1, <2>2
<1> QED
  BY <1>2, <1>3, <1>4 DEF Moves, Begins, Awaits

LEMMA MovesBetween ==
    ASSUME NEW c \in Coders, NEW d \in Coders, NEW k, NEW l, NEW x,
           NEW e \in Coders, Between(c, k, d, l), Moves(e, c, l, x), NewTo(x, k, d, l),
           /\ l.type = "Data" /\ c.session.state = "Done"
           /\ e.session.state = "Done" /\ d.session.state = "Done"
           /\ InTouch(c.session, d.session, k, l)
           => InTouch(e.session, d.session, k, l)
    PROVE  Between(e, k, d, l)
<1>1. /\ Published(e, k, d, l) /\ Published(d, l, e, k)
      /\ RevealFirst(e, k, d) /\ RevealFirst(d, l, e)
      /\ Signed(e, k, d, l) /\ Signed(d, l, e, k)
  BY MovesPublished, MovesReveal, MovesSigned
<1>2. Agreed(e, k, d, l)
  BY MovesAgreed
<1> QED
  BY <1>1, <1>2 DEF Between, Moves

(* What c sends takes the place of k: the response that its negotiation    *)
(* left,                                                                   *)
LEMMA ResponseBetween ==
    ASSUME NEW c \in Coders, NEW d \in Coders, NEW k, NEW l, Between(c, k, d, l),
           ~CanWrap(c), c.pendingResponse # NoPacket
    PROVE  Between([c EXCEPT !.pendingResponse = NoPacket], c.pendingResponse, d, l)
<1> DEFINE e == [c EXCEPT !.pendingResponse = NoPacket]
           r == c.pendingResponse
<1>1. /\ e.session = c.session /\ e.pendingResponse = NoPacket
      /\ e.waitingForDataPacket = c.waitingForDataPacket
  BY DEF Coders
<1>2. r \in Negotiations /\ r.type # "none" /\ r.type # "Data"
  BY DEF Coders, Negotiations, PacketRecords
<1>3. NoPacket.type = "none" /\ NoPacket.next = NoKey /\ NoPacket.to = NoKey
  BY DEF NoPacket
<1>4. /\ InStep(c) /\ InStep(d) /\ MessageInStep(l)
      /\ Published(c, k, d, l) /\ Published(d, l, c, k)
      /\ RevealFirst(c, k, d) /\ RevealFirst(d, l, c)
      /\ Signed(c, k, d, l) /\ Signed(d, l, c, k) /\ Agreed(c, k, d, l)
      /\ c.session.myKey # NoKey /\ d.session.myKey # NoKey
  BY HasKey DEF Between
<1>5. /\ r.type \in Answers(c.session.state) /\ r.next = NoKey
      /\ c.session.state = "Done" => c.waitingForDataPacket
  BY <1>4 DEF InStep, CanWrap, IsReady
<1> HIDE DEF e, r
<1>6. InStep(e) /\ MessageInStep(r)
  <2>1. "none" \in Answers(c.session.state)
    BY <1>5 DEF Answers
  <2> QED
    BY <1>1, <1>3, <1>4, <2>1 DEF InStep, MessageInStep, r
<1>7. Published(e, r, d, l)
  <2>1. c.session.state # "Done" => r.from = c.session.myKey
    BY <1>2, <1>4 DEF InStep, r
  <2> QED
    BY <1>1, <1>2, <1>4, <1>5, <2>1 DEF Published, Answers
<1>8. Published(d, l, e, r)
  <2>1. Knows(e) \cup {r.to} \subseteq Knows(c) \cup {NoKey}
    BY <1>1, <1>3 DEF Knows, r
  <2> QED
    BY <1>4, <2>1 DEF Published
<1>9. RevealFirst(e, r, d) /\ RevealFirst(d, l, e)
  BY <1>1, <1>3, <1>4 DEF RevealFirst, r
<1>10. Signed(e, r, d, l)
  BY <1>1, <1>3, <1>4, <1>5 DEF Signed, Offers, r
<1>11. Signed(d, l, e, r)
  <2>1. c.session.state \in {"AwaitingSignature", "AwaitingDHKey"}
        => r.type \in {"DH", "RevealSignature"}
    BY <1>2, <1>5 DEF Answers
  <2> QED
    BY <1>1, <1>4, <2>1 DEF Signed
<1>12. Agreed(e, r, d, l)
  <2>1. c.session.state = "Done" => r.type # "DHKey"
    BY <1>5 DEF Answers
  <2> QED
    BY <1>1, <1>2, <1>4, <2>1 DEF Agreed, InTouch, Follows
<1> QED
  BY <1>4, <1>6, <1>7, <1>8, <1>9, <1>10, <1>11, <1>12 DEF Between, e, r

(* or a data packet.                                                       *)
LEMMA DataBetween ==
    ASSUME NEW c \in Coders, NEW d \in Coders, NEW k, NEW l, Between(c, k, d, l),
           CanWrap(c), NEW content, NEW next \in KeyOrNone, NEW over,
           LET o == SignAndProtect(c.session, content, next, over)
           IN d.session.state = "Done" => InTouch(o.session, d.session, o.response, l)
    PROVE  LET o == SignAndProtect(c.session, content, next, over)
           IN Between([c EXCEPT !.session = o.session], o.response, d, l)
<1> DEFINE o == SignAndProtect(c.session, content, next, over)
           e == [c EXCEPT !.session = o.session]
           m == o.response
<1>1. /\ c.session \in Sessions /\ c.session.state = "Done" /\ ~c.waitingForDataPacket
  BY DEF Coders, CanWrap, IsReady
<1>2. /\ SameKnown(o.session, c.session) /\ m.type = "Data"
      /\ m.to \in {c.session.theirKey, c.session.theirPreviousKey}
  BY <1>1, SentKnows
<1>3. d.session.state = "Done" => InTouch(o.session, d.session, m, l)
  OBVIOUS
<1> HIDE DEF o
<1>4. /\ e.session = o.session /\ e.pendingResponse = c.pendingResponse
      /\ e.waitingForDataPacket = c.waitingForDataPacket
  BY DEF Coders
<1>5. /\ InStep(c) /\ InStep(d) /\ MessageInStep(l)
      /\ Published(d, l, c, k)
      /\ RevealFirst(c, k, d) /\ RevealFirst(d, l, c) /\ Agreed(c, k, d, l)
      /\ c.session.myKey # NoKey /\ d.session.myKey # NoKey
  BY HasKey DEF Between
<1> HIDE DEF e, m
<1>6. e.session.state = "Done" /\ Knows(e) = Knows(c) /\ m.to \in Knows(c)
  BY <1>1, <1>2, <1>4 DEF SameKnown, Knows
<1>7. InStep(e) /\ MessageInStep(m)
  BY <1>1, <1>2, <1>4, <1>5, <1>6 DEF InStep, MessageInStep
<1>8. Published(e, m, d, l) /\ Published(d, l, e, m)
  BY <1>5, <1>6 DEF Published
<1>9. RevealFirst(e, m, d) /\ RevealFirst(d, l, e)
  BY <1>1, <1>2, <1>4, <1>5, <1>6 DEF RevealFirst
<1>10. Signed(e, m, d, l) /\ Signed(d, l, e, m)
  BY <1>1, <1>2, <1>4, <1>6 DEF Signed, Offers
<1>11. Agreed(e, m, d, l)
  BY <1>1, <1>2, <1>3, <1>4, <1>5 DEF Agreed
<1> QED
  BY <1>5, <1>7, <1>8, <1>9, <1>10, <1>11 DEF Between, o, e, m
-----------------------------------------------------------------------------
(* The two peers.                                                          *)

Talking ==
    setback # "exit" =>
        \A p \in Peer : Between(coder[p], kvs[p], coder[Other(p)], kvs[Other(p)])

TalkInv == OpenedInv /\ Talking

LEMMA KeyPairsUnused ==
    ASSUME NEW p \in Peer, NEW used, NEW kn \in KeyPairs(p, used)
    PROVE  kn[1] \notin used /\ kn[2] \notin used
<1>1. \A ks : Smallest(ks) \subseteq ks
  BY DEF Smallest
<1>2. /\ kn \in Key \X Key
      /\ kn[1] \in UNION {Smallest(pool \ used) : pool \in FirstKeys[p]}
      /\ kn[2] \in Smallest(NextKeys[p] \ used)
  BY KeyPairsType DEF KeyPairs
<1>3. PICK pool \in FirstKeys[p] : kn[1] \in Smallest(pool \ used)
  BY <1>2
<1>4. kn[1] \in pool \ used /\ kn[2] \in NextKeys[p] \ used
  BY <1>1, <1>2, <1>3
<1> QED
  BY <1>4

(* The keys drawn for a peer are new to both ends.                         *)
LEMMA FreshIsNew ==
    ASSUME CodingInv, NEW p \in Peer, NEW kn \in FreshPairs(p)
    PROVE  LET q == Other(p)
           IN /\ kn[2] \in Key /\ kn[2] \in OwnKeys(p)
              /\ NewTo(kn[1], kvs[p], coder[q], kvs[q])
              /\ Unseen(kn[2], coder[p].session, coder[q].session, kvs[p], kvs[q])
<1> DEFINE q == Other(p)
<1>1. /\ kn \in Key \X Key /\ kn[1] \notin KeysInUse /\ kn[2] \notin KeysInUse
      /\ kn[2] \in OwnKeys(p)
  BY KeyPairsApart, KeyPairsUnused DEF FreshPairs
<1>2. kn[1] \in Key /\ kn[2] \in Key /\ kn[1] # NoKey /\ kn[2] # NoKey
  BY <1>1
<1>3. q \in Peer
  BY OtherType
<1>4. ASSUME NEW r \in Peer, NEW x, x \notin KeysInUse, x # NoKey
      PROVE  /\ x \notin {kvs[r].from, kvs[r].to, kvs[r].next}
             /\ x \notin {coder[r].session.receivedDH, coder[r].session.myKey,
                          coder[r].session.myNextKey, coder[r].session.theirKey,
                          coder[r].session.theirPreviousKey}
             /\ x # coder[r].pendingResponse.to
  <2>1. x \notin PacketKeys(kvs[r]) /\ x \notin CoderKeys(coder[r])
    BY <1>4 DEF KeysInUse
  <2>2. /\ x \notin SessionKeys(coder[r].session)
        /\ x \notin PacketKeys(coder[r].pendingResponse)
    BY <2>1 DEF CoderKeys
  <2> QED
    BY <1>4, <2>1, <2>2 DEF PacketKeys, SessionKeys
<1>5. NewTo(kn[1], kvs[p], coder[q], kvs[q])
  BY <1>1, <1>2, <1>3, <1>4 DEF NewTo, Knows
<1>6. Unseen(kn[2], coder[p].session, coder[q].session, kvs[p], kvs[q])
  BY <1>1, <1>2, <1>3, <1>4 DEF Unseen
<1> QED
  BY <1>1, <1>2, <1>5, <1>6

LEMMA CodersApart ==
    ASSUME OpenedInv, NEW p \in Peer, coder[p].session.state = "Done",
           coder[Other(p)].session.state = "Done"
    PROVE  Ends(coder[p].session, coder[Other(p)].session, OwnKeys(p), OwnKeys(Other(p)))
<1>1. Other(p) \in Peer /\ Other(Other(p)) = p
  BY OtherType
<1>2. coder[p].session \in Sessions /\ coder[Other(p)].session \in Sessions
  BY <1>1 DEF OpenedInv, CodingInv, CodersTyped, Coders
<1>3. /\ KeysApart(coder[p].session, OwnKeys(p), OwnKeys(Other(p)))
      /\ KeysApart(coder[Other(p)].session, OwnKeys(Other(p)), OwnKeys(p))
  BY <1>1 DEF OpenedInv, KeysOwned, CoderApart
<1> QED
  BY <1>2, <1>3, OwnKeysApart DEF Ends

(* The coder of one peer changes, or its message does.                     *)
LEMMA OneSideTalks ==
    ASSUME CodingInv, NEW p \in Peer, NEW e, NEW k,
           Between(e, k, coder[Other(p)], kvs[Other(p)]),
           coder' = [coder EXCEPT ![p] = e], kvs' = [kvs EXCEPT ![p] = k]
    PROVE  Talking'
<1> SUFFICES ASSUME NEW r \in Peer
             PROVE  Between(coder'[r], kvs'[r], coder'[Other(r)], kvs'[Other(r)])
  BY DEF Talking
<1>1. /\ Other(p) \in Peer /\ Other(p) # p /\ Other(Other(p)) = p
      /\ r = p \/ r = Other(p)
  BY OtherType DEF Other
<1>2. /\ coder'[p] = e /\ coder'[Other(p)] = coder[Other(p)]
      /\ kvs'[p] = k /\ kvs'[Other(p)] = kvs[Other(p)]
  BY <1>1 DEF CodingInv, CodersTyped, StoreTyped
<1> QED
  BY <1>1, <1>2, BetweenBoth

LEMMA TalkInitInv == ASSUME CodingInit PROVE Talking
<1>1. PICK kn \in [Peer -> UNION {KeyPairs(p, {}) : p \in Peer}] :
        /\ \A p \in Peer : kn[p] \in KeyPairs(p, {})
        /\ coder = [p \in Peer |-> Started(IdleSession, kn[p])]
  BY DEF CodingInit
<1>2. ASSUME NEW p \in Peer
      PROVE  /\ kvs[p] = NoPacket /\ coder[p] \in Coders
             /\ coder[p].session.myKey = kn[p][1] /\ coder[p].session.state # "Done"
             /\ kn[p][1] \in OwnKeys(p) /\ kn[p][1] # NoKey
             /\ InStep(coder[p]) /\ Knows(coder[p]) \subseteq {NoKey}
  <2>1. coder[p] = Started(IdleSession, kn[p]) /\ kvs[p] = NoPacket
    BY <1>1 DEF CodingInit
  <2>2. /\ IdleSession \in SessionRecords /\ IdleSession.theirKey = NoKey
        /\ IdleSession.theirPreviousKey = NoKey /\ IdleSession.receivedDH = NoKey
    BY IdleType DEF Sessions, IdleSession
  <2>3. /\ InStep(coder[p]) /\ Begins(coder[p], kn[p][1])
        /\ Knows(coder[p]) \subseteq {NoKey}
    BY <2>1, <2>2, StartedAnew
  <2>4. kn[p] \in KeyPairs(p, {})
    BY <1>1
  <2>5. kn[p][1] \in OwnKeys(p) /\ kn[p] \in Key \X Key
    BY <2>4, KeyPairsApart
  <2>6. coder[p] \in Coders
    BY CodingInitInv DEF CodingInv, CodersTyped
  <2> QED
    BY <2>1, <2>3, <2>5, <2>6 DEF Begins
<1>3. ASSUME NEW p \in Peer, NEW q \in Peer
      PROVE  /\ Published(coder[p], kvs[p], coder[q], kvs[q])
             /\ RevealFirst(coder[p], kvs[p], coder[q])
             /\ Signed(coder[p], kvs[p], coder[q], kvs[q])
             /\ Agreed(coder[p], kvs[p], coder[q], kvs[q])
             /\ MessageInStep(kvs[p])
  <2>1. /\ NoPacket.from = NoKey /\ NoPacket.next = NoKey /\ NoPacket.to = NoKey
        /\ NoPacket.type = "none"
    BY DEF NoPacket
  <2> QED
    BY <1>2, <2>1 DEF Published, RevealFirst, Signed, Agreed, MessageInStep
<1> QED
  BY <1>2, <1>3, OtherType DEF Talking, Between

(* A coder that starts anew.                                               *)
LEMMA AnewTalks ==
    ASSUME OpenedInv, Talking, NEW p \in Peer, NEW kn \in FreshPairs(p), NEW e \in Coders,
           Moves(e, coder[p], kvs[Other(p)], kn[1]), e.session.state # "Done",
           setback # "exit",
           coder' = [coder EXCEPT ![p] = e], kvs' = kvs
    PROVE  Talking'
<1> DEFINE q == Other(p)
<1>1. /\ CodingInv /\ q \in Peer /\ coder[p] \in Coders /\ coder[q] \in Coders
      /\ kvs = [kvs EXCEPT ![p] = kvs[p]]
  BY OtherType DEF OpenedInv, CodingInv, CodersTyped, StoreTyped
<1>2. Between(coder[p], kvs[p], coder[q], kvs[q])
  BY DEF Talking
<1>3. NewTo(kn[1], kvs[p], coder[q], kvs[q])
  BY <1>1, FreshIsNew
<1>4. Between(e, kvs[p], coder[q], kvs[q])
  BY <1>1, <1>2, <1>3, MovesBetween
<1> QED
  BY <1>1, <1>4, OneSideTalks

LEMMA HandleTalks ==
    ASSUME OpenedInv, Talking, NEW p \in Peer, HandleCodedMessage(p)
    PROVE  Talking'
<1> DEFINE q == Other(p)
           l == kvs[q]
<1>1. /\ CodingInv /\ p \in Peer /\ q \in Peer /\ Other(q) = p
      /\ l \in Packets /\ l # NoPacket /\ coder[p] \in Coders /\ coder[q] \in Coders
      /\ kvs = [kvs EXCEPT ![p] = kvs[p]]
  BY OtherType DEF OpenedInv, CodingInv, StoreTyped, CodersTyped, HandleCodedMessage
<1>2. PICK kn \in FreshPairs(p), over \in Spans :
         LET u == Unwrap(coder[p], l, kn, over)
             handled == u.result \notin {"failure", "tooNew"}
             c == IF handled THEN u.coder ELSE Restarted(u.coder, kn)
         IN /\ coder' = [coder EXCEPT ![p] = c]
            /\ UNCHANGED <<kvs, setback>>
  BY DEF HandleCodedMessage
<1> DEFINE u == Unwrap(coder[p], l, kn, over)
           handled == u.result \notin {"failure", "tooNew"}
           e == IF handled THEN u.coder ELSE Restarted(u.coder, kn)
<1>3. /\ coder' = [coder EXCEPT ![p] = e] /\ kvs' = kvs /\ setback' = setback
  BY <1>2
<1>4. SUFFICES ASSUME setback # "exit"
               PROVE  Talking'
  BY <1>3 DEF Talking
<1>5. /\ kn \in Key \X Key /\ kn[2] \in Key /\ kn[2] \in OwnKeys(p)
      /\ NewTo(kn[1], kvs[p], coder[q], l)
      /\ Unseen(kn[2], coder[p].session, coder[q].session, kvs[p], l)
  BY <1>1, FreshIsNew, FreshPairsType
<1>6. Between(coder[p], kvs[p], coder[q], l) /\ InStep(coder[p])
  BY <1>4 DEF Talking, Between
<1>7. /\ u.coder \in Coders /\ Moves(u.coder, coder[p], l, kn[1])
      /\ l.type = "Data" /\ u.coder.session.state = "Done" =>
            u.coder.session = VerifyAndExpose(coder[p].session, l, kn[2], over).session
  BY <1>1, <1>5, <1>6, UnwrapType, UnwrapMoves
<1> HIDE DEF u
<1>8. CASE handled
  <2>1. e = u.coder
    BY <1>8
  <2> HIDE DEF e
  <2>2. ASSUME l.type = "Data", coder[p].session.state = "Done",
               e.session.state = "Done", coder[q].session.state = "Done",
               InTouch(coder[p].session, coder[q].session, kvs[p], l)
        PROVE  InTouch(e.session, coder[q].session, kvs[p], l)
    <3>1. Ends(coder[p].session, coder[q].session, OwnKeys(p), OwnKeys(q))
      BY <2>2, CodersApart
    <3>2. l \in DataPackets /\ PacketApart(l, OwnKeys(q), OwnKeys(p))
      <4>1. l \in DataPackets
        BY <1>1, <2>2 DEF Packets, Negotiations
      <4> QED
        BY <1>1, <4>1 DEF OpenedInv, KeysOwned
    <3> DEFINE next == kn[2]
    <3>3. next \in OwnKeys(p) /\ Unseen(next, coder[p].session, coder[q].session, kvs[p], l)
      BY <1>5
    <3> HIDE DEF next, l, q
    <3>4. InTouch(VerifyAndExpose(coder[p].session, l, next, over).session,
                  coder[q].session, kvs[p], l)
      BY <2>2, <3>1, <3>2, <3>3, VerifyAndExposeInTouch
    <3> QED
      BY <1>7, <2>1, <2>2, <3>4 DEF next
  <2>3. e \in Coders /\ Moves(e, coder[p], l, kn[1])
    BY <1>7, <2>1
  <2> HIDE DEF l, q
  <2>4. Between(e, kvs[p], coder[q], l)
    BY <1>1, <1>5, <1>6, <2>2, <2>3, MovesBetween
  <2> QED
    BY <1>1, <1>3, <2>4, OneSideTalks DEF l, q
<1>9. CASE ~handled
  <2>1. e = Restarted(u.coder, kn)
    BY <1>9
  <2> HIDE DEF e
  <2>2. e \in Coders /\ Moves(e, coder[p], l, kn[1]) /\ e.session.state # "Done"
    BY <1>5, <1>7, <2>1, RestartedType, RestartedMoves
  <2> QED
    BY <1>3, <1>4, <2>2, AnewTalks
<1> QED
  BY <1>8, <1>9

(* A message takes the place of the last, and its coder that of p.         *)
LEMMA SentTalks ==
    ASSUME OpenedInv, NEW p \in Peer, NEW m, NEW e, Sent(p, m, e),
           setback # "exit" => Between(e, m, coder[Other(p)], kvs[Other(p)])
    PROVE  Talking'
<1>1. kvs' = [kvs EXCEPT ![p] = m] /\ CodingInv
  BY DEF Sent, OpenedInv
<1>2. CASE ReadBack(p)
  BY <1>2 DEF ReadBack, Talking
<1>3. CASE coder' = [coder EXCEPT ![p] = e] /\ setback' = setback
  <2>1. CASE setback = "exit"
    BY <1>3, <2>1 DEF Talking
  <2>2. CASE setback # "exit"
    BY <1>1, <1>3, <2>2, OneSideTalks
  <2> QED
    BY <2>1, <2>2
<1> QED
  BY <1>2, <1>3 DEF Sent

LEMMA SendTalks ==
    ASSUME OpenedInv, Talking, NEW p \in Peer, SendMessageIfNeeded(p)
    PROVE  Talking'
<1> DEFINE q == Other(p)
<1>1. /\ CodingInv /\ q \in Peer /\ coder[p] \in Coders /\ coder[q] \in Coders
  BY OtherType DEF OpenedInv, CodingInv, CodersTyped
<1>2. setback # "exit" => Between(coder[p], kvs[p], coder[q], kvs[q])
  BY DEF Talking
<1>3. CASE CanWrap(coder[p]) /\ \E kn \in FreshPairs(p), over \in Spans :
               LET content == [made |-> made[p], seen |-> seen[p]]
                   o == SignAndProtect(coder[p].session, content, kn[2], over)
               IN Sent(p, o.response, [coder[p] EXCEPT !.session = o.session])
  <2> DEFINE content == [made |-> made[p], seen |-> seen[p]]
             s == coder[p].session
             t == coder[q].session
  <2>1. PICK kn \in FreshPairs(p), over \in Spans :
          Sent(p, SignAndProtect(s, content, kn[2], over).response,
               [coder[p] EXCEPT !.session = SignAndProtect(s, content, kn[2], over).session])
    BY <1>3
  <2> DEFINE next == kn[2]
             m == SignAndProtect(s, content, next, over).response
             e == [coder[p] EXCEPT !.session = SignAndProtect(s, content, next, over).session]
  <2>2. next \in KeyOrNone /\ next \in OwnKeys(p) /\ Unseen(next, s, t, kvs[p], kvs[q])
    BY <1>1, FreshIsNew DEF KeyOrNone
  <2>3. Sent(p, m, e)
    BY <2>1
  <2> HIDE DEF content, next
  <2>4. ASSUME setback # "exit"
        PROVE  Between(e, m, coder[q], kvs[q])
    <3>1. Between(coder[p], kvs[p], coder[q], kvs[q]) /\ s.state = "Done"
      BY <1>2, <1>3, <2>4 DEF CanWrap, IsReady
    <3>2. ASSUME t.state = "Done"
          PROVE  InTouch(SignAndProtect(s, content, next, over).session, t, m, kvs[q])
      <4>1. Ends(s, t, OwnKeys(p), OwnKeys(q))
        BY <3>1, <3>2, CodersApart
      <4>2. InTouch(s, t, kvs[p], kvs[q])
        BY <3>1, <3>2 DEF Between, Agreed
      <4> HIDE DEF s, t, q
      <4> QED
        BY <2>2, <4>1, <4>2, SignAndProtectInTouch
    <3> DEFINE c == coder[p]
               d == coder[q]
               k == kvs[p]
               l == kvs[q]
    <3>3. /\ c \in Coders /\ d \in Coders /\ Between(c, k, d, l) /\ CanWrap(c)
          /\ d.session.state = "Done" =>
               InTouch(SignAndProtect(c.session, content, next, over).session, d.session,
                       SignAndProtect(c.session, content, next, over).response, l)
      BY <1>1, <1>3, <3>1, <3>2
    <3> HIDE DEF c, d, k, l
    <3>4. Between([c EXCEPT !.session = SignAndProtect(c.session, content, next, over).session],
                  SignAndProtect(c.session, content, next, over).response, d, l)
      BY <2>2, <3>3, DataBetween
    <3> QED
      BY <3>4 DEF c, d, l
  <2> HIDE DEF m, e
  <2> QED
    BY <2>3, <2>4, SentTalks
<1>4. CASE /\ ~CanWrap(coder[p]) /\ coder[p].pendingResponse # NoPacket
           /\ Sent(p, coder[p].pendingResponse, [coder[p] EXCEPT !.pendingResponse = NoPacket])
  <2> DEFINE e == [coder[p] EXCEPT !.pendingResponse = NoPacket]
             m == coder[p].pendingResponse
  <2>1. setback # "exit" => Between(e, m, coder[q], kvs[q])
    BY <1>1, <1>2, <1>4, ResponseBetween
  <2>2. Sent(p, m, e)
    BY <1>4
  <2> HIDE DEF e, m
  <2> QED
    BY <2>1, <2>2, SentTalks
<1>5. CASE UNCHANGED <<coder, wires, setback>>
  BY <1>5 DEF wires, Talking
<1> QED
  BY <1>3, <1>4, <1>5 DEF SendMessageIfNeeded

LEMMA TimerTalks ==
    ASSUME OpenedInv, Talking, NEW p \in Peer, OTRTimerFires(p) PROVE Talking'
<1>1. kvs' = kvs /\ (setback' # "exit" => setback # "exit")
  BY DEF OTRTimerFires, wires, Restart
<1>2. PICK kn \in FreshPairs(p) : coder' = [coder EXCEPT ![p] = Restarted(coder[p], kn)]
  BY DEF OTRTimerFires
<1> DEFINE e == Restarted(coder[p], kn)
<1>3. e \in Coders /\ Moves(e, coder[p], kvs[Other(p)], kn[1]) /\ e.session.state # "Done"
  BY RestartedType, RestartedMoves, FreshPairsType DEF OpenedInv, CodingInv, CodersTyped
<1>4. coder' = [coder EXCEPT ![p] = e]
  BY <1>2
<1> HIDE DEF e
<1>5. CASE setback # "exit"
  BY <1>1, <1>3, <1>4, <1>5, AnewTalks
<1>6. CASE setback = "exit"
  BY <1>1, <1>6 DEF Talking
<1> QED
  BY <1>5, <1>6

LEMMA NewCoderTalks ==
    ASSUME OpenedInv, Talking, NEW p \in Peer, NewCoder(p) PROVE Talking'
<1>1. kvs' = kvs /\ (setback' # "exit" => setback # "exit")
  BY DEF NewCoder, wires, Restart
<1>2. PICK kn \in FreshPairs(p) : coder' = [coder EXCEPT ![p] = Started(IdleSession, kn)]
  BY DEF NewCoder
<1> DEFINE e == Started(IdleSession, kn)
<1>3. /\ IdleSession \in SessionRecords /\ IdleSession.theirKey = NoKey
      /\ IdleSession.theirPreviousKey = NoKey /\ IdleSession.receivedDH = NoKey
  BY IdleType DEF Sessions, IdleSession
<1>4. e \in Coders /\ Moves(e, coder[p], kvs[Other(p)], kn[1]) /\ e.session.state # "Done"
  BY <1>3, IdleType, StartedType, StartedMoves, FreshPairsType
     DEF OpenedInv, CodingInv, CodersTyped
<1>5. coder' = [coder EXCEPT ![p] = e]
  BY <1>2
<1> HIDE DEF e
<1>6. CASE setback # "exit"
  BY <1>1, <1>4, <1>5, <1>6, AnewTalks
<1>7. CASE setback = "exit"
  BY <1>1, <1>7 DEF Talking
<1> QED
  BY <1>6, <1>7

LEMMA TalkStepInv == TalkInv /\ [CodingNext]_codingVars => TalkInv'
<1> SUFFICES ASSUME TalkInv, [CodingNext]_codingVars PROVE TalkInv'
  OBVIOUS
<1>1. OpenedInv /\ Talking /\ OpenedInv'
  BY OpenedStepInv DEF TalkInv
<1>2. CASE CodingNext
  <2>1. PICK p \in Peer :
          \/ HandleCodedMessage(p) \/ SendMessageIfNeeded(p)
          \/ LocalChange(p) \/ Redeliver(p)
          \/ OTRTimerFires(p) \/ NewCoder(p) \/ Exit(p)
    BY <1>2 DEF CodingNext
  <2>2. CASE LocalChange(p) \/ Redeliver(p)
    BY <1>1, <2>2 DEF LocalChange, Redeliver, wires, Talking, TalkInv
  <2>3. CASE Exit(p)
    BY <1>1, <2>3 DEF Exit, ReadBack, Talking, TalkInv
  <2>4. CASE HandleCodedMessage(p) \/ SendMessageIfNeeded(p) \/ OTRTimerFires(p) \/ NewCoder(p)
    BY <1>1, <2>4, HandleTalks, SendTalks, TimerTalks, NewCoderTalks DEF TalkInv
  <2> QED
    BY <2>1, <2>2, <2>3, <2>4
<1>3. CASE UNCHANGED codingVars
  BY <1>1, <1>3 DEF codingVars, wires, Talking, TalkInv
<1> QED
  BY <1>2, <1>3

LEMMA TalkInvariant == CodingSpec => []TalkInv
<1>1. CodingInit => TalkInv
  BY OpenedInitInv, TalkInitInv DEF TalkInv
<1> QED
  BY <1>1, TalkStepInv, PTL DEF CodingSpec

(* CanTalk: two peers whose coders can both wrap understand each other,    *)
(* whoever sends next (SOSPeerCoderSendMessageIfNeeded, SOSCoderUnwrap and *)
(* SecOTRSVerifyAndExpose), after any negotiations that crossed, messages  *)
(* that were lost or repeated, timers, lost coders and rolled keys.        *)
THEOREM PeersCanTalk == CodingSpec => []CanTalk
<1>1. TalkInv => CanTalk
  <2> SUFFICES ASSUME TalkInv, setback # "exit", \A r \in Peer : CanWrap(coder[r]),
                      NEW p \in Peer, NEW over \in Spans
               PROVE  LET m == SignAndProtect(coder[p].session, <<>>, NoKey, over).response
                      IN VerifyAndExpose(coder[Other(p)].session, m, NoKey, over).status
                           = "success"
    BY DEF CanTalk
  <2> DEFINE s == coder[p].session
             t == coder[Other(p)].session
  <2>1. s.state = "Done" /\ t.state = "Done" /\ OpenedInv /\ Talking
    BY OtherType DEF CanWrap, IsReady, TalkInv
  <2>2. Ends(s, t, OwnKeys(p), OwnKeys(Other(p)))
    BY <2>1, CodersApart
  <2>3. InTouch(s, t, kvs[p], kvs[Other(p)])
    BY <2>1 DEF Talking, Between, Agreed
  <2> HIDE DEF s, t
  <2>4. LET m == SignAndProtect(s, <<>>, NoKey, over).response
        IN VerifyAndExpose(t, m, NoKey, over).status = "success"
    BY <2>2, <2>3, SentIsUnderstood DEF InTouch
  <2> QED
    BY <2>4 DEF s, t
<1> QED
  BY <1>1, TalkInvariant, PTL
=============================================================================
