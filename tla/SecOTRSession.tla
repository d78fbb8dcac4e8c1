---------------------------- MODULE SecOTRSession -----------------------------
(***************************************************************************)
(* OSX/sec/Security/SecOTRSession.c and SecOTRSessionAKE.c: one end of an  *)
(* off-the-record session, as operators on its record.  SOSCoder.tla runs  *)
(* two of them against each other.                                         *)
(*                                                                         *)
(* A session first negotiates, with four packets DH, DHKey, RevealSignature *)
(* and Signature, and then exchanges data packets, each of which proposes  *)
(* the sender's next key and so rolls the keys on.  Cryptography is what   *)
(* the receiver can tell: whether the pair of keys a packet was made with  *)
(* is the pair it checks it with.  A key is a number, and numbers are      *)
(* ordered as the hashes are that decide between two DH packets.  The r of *)
(* a DH packet, which opens it, goes with its key: a RevealSignature that  *)
(* opens another DH packet has the wrong key.                              *)
(***************************************************************************)
EXTENDS Integers, FiniteSets

CONSTANTS
    Key, NoKey,
    SlowRoll    \* whether the session was made with kSecOTRSlowRoll

ASSUME KeyAssumption == Key \subseteq Nat \ {0} /\ NoKey = 0
ASSUME SlowRollAssumption == SlowRoll \in BOOLEAN
-----------------------------------------------------------------------------
(* Packets.                                                                *)

NoPacket ==
    [type |-> "none", from |-> NoKey, to |-> NoKey, keyID |-> 0, theirKeyID |-> 0,
     next |-> NoKey, counter |-> 0, content |-> <<>>]

NegotiationPacket(type, from, to, keyID) ==
    [NoPacket EXCEPT !.type = type, !.from = from, !.to = to, !.keyID = keyID]

DHMessage(s) == NegotiationPacket("DH", s.myKey, NoKey, 0)
DHKeyMessage(s) == NegotiationPacket("DHKey", s.myKey, NoKey, 0)
RevealSignatureMessage(s) ==
    NegotiationPacket("RevealSignature", s.myKey, s.theirKey, s.keyID)
SignatureMessage(s) == NegotiationPacket("Signature", s.myKey, s.theirKey, s.keyID)

PacketKeys(m) == {m.from, m.to, m.next} \ {NoKey}
-----------------------------------------------------------------------------
(* The session.  keyCache holds the counters of each pair of keys in use.  *)
Counters == [mine : Nat, theirs : Nat]
kOTRKeyCacheSize == 4

IdleSession ==
    [state |-> "Idle", receivedDH |-> NoKey, receivedDHKey |-> NoKey,
     keyID |-> 0, myKey |-> NoKey, myNextKey |-> NoKey,
     theirKeyID |-> 0, theirKey |-> NoKey, theirPreviousKey |-> NoKey,
     keyCache |-> [p \in {} |-> [mine |-> 0, theirs |-> 0]],
     stallingTheirRoll |-> FALSE, timeToRoll |-> FALSE,
     missedAck |-> TRUE, receivedAck |-> FALSE]

(* SecOTRSessionReset keeps what belongs to rolling.                       *)
Reset(s) ==
    [IdleSession EXCEPT
        !.stallingTheirRoll = s.stallingTheirRoll, !.timeToRoll = s.timeToRoll,
        !.missedAck = s.missedAck, !.receivedAck = s.receivedAck]

NoPairs == [p \in {} |-> [mine |-> 0, theirs |-> 0]]

Cached(s, mine, theirs) == <<mine, theirs>> \in DOMAIN s.keyCache

(* Mutant: the pair is made although a key is missing. *)
FindKeysMut(s, mine, theirs) ==
    IF Cached(s, mine, theirs) THEN s
    ELSE [s EXCEPT !.keyCache =
            [p \in DOMAIN s.keyCache \cup {<<mine, theirs>>} |->
               IF p \in DOMAIN s.keyCache THEN s.keyCache[p]
               ELSE [mine |-> 0, theirs |-> 0]]]

(* SecOTRSFindKeysForMessage.  A full cache would lose its first entry     *)
(* ("cache miss, spooky"); CacheFits says that it never is.                *)
FindKeys(s, mine, theirs) ==
    IF NoKey \in {mine, theirs} \/ Cached(s, mine, theirs) THEN s
    ELSE [s EXCEPT !.keyCache =
            [p \in DOMAIN s.keyCache \cup {<<mine, theirs>>} |->
               IF p \in DOMAIN s.keyCache THEN s.keyCache[p]
               ELSE [mine |-> 0, theirs |-> 0]]]

Without(cache, k) ==
    [p \in {q \in DOMAIN cache : k \notin {q[1], q[2]}} |-> cache[p]]

InitMyDHKeys(s, k, next) ==
    [s EXCEPT !.myKey = k, !.myNextKey = next, !.keyID = 1,
              !.missedAck = TRUE, !.receivedAck = FALSE, !.keyCache = NoPairs]

SetupInitialRemoteKey(s, k) ==
    [s EXCEPT !.keyCache = NoPairs, !.theirPreviousKey = NoKey,
              !.theirKey = k, !.theirKeyID = 1]
-----------------------------------------------------------------------------
(* Rolling the keys.  over: a stall that was asked for is over.            *)

GenerateNewProposedKey(s, next) ==
    [s EXCEPT !.keyCache = Without(@, s.myKey), !.myKey = s.myNextKey,
              !.myNextKey = next, !.keyID = @ + 1]

(* Mutant: a key is rolled although its proposal was not acknowledged. *)
RollMut(s, next) ==
    [GenerateNewProposedKey(s, next) EXCEPT
        !.stallingTheirRoll = FALSE, !.timeToRoll = FALSE,
        !.missedAck = FALSE, !.receivedAck = FALSE]

Roll(s, next) ==
    LET going == [s EXCEPT !.stallingTheirRoll = FALSE, !.timeToRoll = FALSE]
    IN IF s.receivedAck
       THEN [GenerateNewProposedKey(going, next) EXCEPT
                !.missedAck = FALSE, !.receivedAck = FALSE]
       ELSE [going EXCEPT !.missedAck = TRUE]

RollIfTime(s, next, over) == IF over \/ ~s.timeToRoll THEN Roll(s, next) ELSE s

HandleProposalAcknowledge(s, next) ==
    IF s.missedAck
    THEN [GenerateNewProposedKey(s, next) EXCEPT !.missedAck = FALSE]
    ELSE [s EXCEPT !.receivedAck = TRUE, !.timeToRoll = SlowRoll]

(* Mutant: the pairs of the key that goes away stay in the cache. *)
AcceptNewRemoteKeyMut(s, k) ==
    [s EXCEPT !.theirPreviousKey = s.theirKey, !.theirKey = k,
              !.stallingTheirRoll = TRUE, !.theirKeyID = @ + 1, !.timeToRoll = SlowRoll]

AcceptNewRemoteKey(s, k) ==
    [s EXCEPT
        !.keyCache = IF s.theirPreviousKey = NoKey THEN @
                     ELSE Without(@, s.theirPreviousKey),
        !.theirPreviousKey = s.theirKey, !.theirKey = k,
        !.stallingTheirRoll = TRUE, !.theirKeyID = @ + 1, !.timeToRoll = SlowRoll]

(* What SecOTRSessionCreateFromData makes of SecOTRSAppendSerialization.   *)
Serialized(s) ==
    FindKeys(FindKeys(FindKeys(FindKeys(s,
        s.myKey, s.theirKey), s.myKey, s.theirPreviousKey),
        s.myNextKey, s.theirKey), s.myNextKey, s.theirPreviousKey)
-----------------------------------------------------------------------------
(* Negotiation.  Each handler gives the session, a status and a response.  *)
Outcome(s, status, response) == [session |-> s, status |-> status, response |-> response]

AppendStartPacket(s, k, next) ==
    LET started == [InitMyDHKeys(s, k, next) EXCEPT !.state = "AwaitingDHKey"]
    IN Outcome(started, "success", DHMessage(started))

AppendRestartPacket(s) ==
    IF s.myKey = NoKey THEN Outcome(s, "decode", NoPacket)
    ELSE Outcome([s EXCEPT !.state = "AwaitingDHKey", !.receivedDH = NoKey,
                           !.receivedDHKey = NoKey],
                 "success", DHMessage(s))

(* Of two DH packets that cross, the bigger one stays.                     *)
ProcessDH(s, m, k, next) ==
    IF s.state = "AwaitingDHKey" /\ s.myKey > m.from
    THEN Outcome([s EXCEPT !.receivedDH = NoKey], "success", DHMessage(s))
    ELSE LET answering == IF s.state = "AwaitingRevealSignature" THEN s
                          ELSE InitMyDHKeys(s, k, next)
         IN Outcome([answering EXCEPT !.state = "AwaitingRevealSignature",
                                      !.receivedDH = m.from],
                    "success", DHKeyMessage(answering))

(* The packet's key is taken before the state is looked at.                *)
ProcessDHKey(s, m) ==
    LET keyed == SetupInitialRemoteKey(s, m.from)
        reveal == RevealSignatureMessage(keyed)
    IN CASE s.state = "AwaitingDHKey" ->
              Outcome([keyed EXCEPT !.state = "AwaitingSignature",
                                    !.receivedDHKey = m.from], "success", reveal)
         [] s.state = "AwaitingSignature" /\ m.from = s.receivedDHKey ->
              Outcome(keyed, "success", reveal)
         [] OTHER -> Outcome(keyed, "success", NoPacket)

(* A packet that opens the stored DH packet, made for this session's key.  *)
(* What a failure leaves in theirKey is replaced before it is used.        *)
ProcessRevealSignature(s, m) ==
    LET keyed == SetupInitialRemoteKey(s, s.receivedDH)
        done == [keyed EXCEPT !.theirKeyID = m.keyID, !.state = "Done"]
    IN CASE s.state # "AwaitingRevealSignature" -> Outcome(s, "success", NoPacket)
         [] s.state = "AwaitingRevealSignature"
            /\ m.from = s.receivedDH /\ m.to = s.myKey ->
              Outcome(done, "success", SignatureMessage(done))
         [] OTHER -> Outcome(s, "decode", NoPacket)

ProcessSignature(s, m) ==
    CASE s.state # "AwaitingSignature" -> Outcome(s, "success", NoPacket)
      [] s.state = "AwaitingSignature" /\ m.from = s.theirKey /\ m.to = s.myKey ->
           Outcome([s EXCEPT !.theirKeyID = m.keyID, !.receivedDHKey = NoKey,
                             !.state = "Done"], "success", NoPacket)
      [] OTHER -> Outcome(s, "decode", NoPacket)

ProcessPacket(s, m, k, next) ==
    CASE m.type = "DH" -> ProcessDH(s, m, k, next)
      [] m.type = "DHKey" -> ProcessDHKey(s, m)
      [] m.type = "RevealSignature" -> ProcessRevealSignature(s, m)
      [] m.type = "Signature" -> ProcessSignature(s, m)
-----------------------------------------------------------------------------
(* Data packets.                                                           *)

SignAndProtect(s, content, next, over) ==
    LET rolled == RollIfTime(s, next, over)
        stalling == rolled.stallingTheirRoll /\ rolled.theirPreviousKey # NoKey
        theirs == IF stalling THEN rolled.theirPreviousKey ELSE s.theirKey
        pair == <<rolled.myKey, theirs>>
        found == FindKeys(rolled, rolled.myKey, theirs)
        sent == [found EXCEPT !.keyCache[pair].mine = @ + 1]
    IN Outcome(sent, "success",
               [type |-> "Data", from |-> sent.myKey, to |-> theirs,
                keyID |-> sent.keyID,
                theirKeyID |-> IF stalling THEN s.theirKeyID - 1 ELSE s.theirKeyID,
                next |-> sent.myNextKey, counter |-> sent.keyCache[pair].mine,
                content |-> content])

(* The IDs a packet may carry: which keys the sender used.                 *)
KnowsTheirID(s, id) ==
    id = s.theirKeyID \/ (id = s.theirKeyID - 1 /\ s.theirPreviousKey # NoKey)
KnowsMyID(s, id) == id \in {s.keyID, s.keyID + 1}

(* Mutant: a counter seen before is accepted. *)
VerifyAndExposeMut(s, m, next, over) ==
    LET mine == IF m.theirKeyID = s.keyID THEN s.myKey ELSE s.myNextKey
        theirs == IF m.keyID = s.theirKeyID THEN s.theirKey ELSE s.theirPreviousKey
        found == FindKeys(s, mine, theirs)
        pair == <<mine, theirs>>
        counted == [found EXCEPT !.keyCache[pair].theirs = m.counter]
        accepted == IF m.keyID = s.theirKeyID THEN AcceptNewRemoteKey(counted, m.next)
                    ELSE counted
    IN IF KnowsTheirID(s, m.keyID) /\ KnowsMyID(s, m.theirKeyID)
          /\ m.counter >= found.keyCache[pair].theirs
       THEN Outcome(accepted, "success", NoPacket)
       ELSE Outcome(s, "tooOld", NoPacket)

VerifyAndExpose(s, m, next, over) ==
    LET mine == IF m.theirKeyID = s.keyID THEN s.myKey ELSE s.myNextKey
        theirs == IF m.keyID = s.theirKeyID THEN s.theirKey ELSE s.theirPreviousKey
        found == FindKeys(s, mine, theirs)
        pair == <<mine, theirs>>
        counted == [found EXCEPT !.keyCache[pair].theirs = m.counter]
        accepted == IF m.keyID = s.theirKeyID THEN AcceptNewRemoteKey(counted, m.next)
                    ELSE counted
        acked == IF m.theirKeyID = s.keyID + 1
                 THEN HandleProposalAcknowledge(accepted, next) ELSE accepted
        rolled == RollIfTime(acked, next, over)
    IN CASE ~KnowsTheirID(s, m.keyID) ->
              Outcome(s, IF m.keyID + 1 < s.theirKeyID THEN "tooOld" ELSE "tooNew",
                      NoPacket)
         [] KnowsTheirID(s, m.keyID) /\ ~KnowsMyID(s, m.theirKeyID) ->
              Outcome(s, IF m.theirKeyID < s.keyID THEN "tooOld" ELSE "tooNew",
                      NoPacket)
         [] KnowsTheirID(s, m.keyID) /\ KnowsMyID(s, m.theirKeyID)
            /\ m.counter <= found.keyCache[pair].theirs ->
              Outcome(found, "tooOld", NoPacket)
         [] KnowsTheirID(s, m.keyID) /\ KnowsMyID(s, m.theirKeyID)
            /\ m.counter > found.keyCache[pair].theirs
            /\ <<m.to, m.from>> # pair ->
              Outcome(found, "authFailed", NoPacket)
         [] OTHER ->
              Outcome(FindKeys(rolled, rolled.myKey, rolled.theirKey), "success",
                      NoPacket)

(* A session as a value.                                                   *)
Negotiating == {"Idle", "AwaitingDHKey", "AwaitingRevealSignature", "AwaitingSignature"}
KeyOrNone == Key \cup {NoKey}

PacketTypes == {"none", "DH", "DHKey", "RevealSignature", "Signature", "Data"}
IsPacket(m) ==
    m \in [type : PacketTypes, from : KeyOrNone, to : KeyOrNone, keyID : Nat,
           theirKeyID : Nat, next : KeyOrNone, counter : Nat, content : {m.content}]

IsSession(s) ==
    /\ s \in [state : Negotiating \cup {"Done"}, receivedDH : KeyOrNone,
             receivedDHKey : KeyOrNone, keyID : Nat, myKey : KeyOrNone,
             myNextKey : KeyOrNone, theirKeyID : Nat, theirKey : KeyOrNone,
             theirPreviousKey : KeyOrNone, keyCache : {s.keyCache},
             stallingTheirRoll : BOOLEAN, timeToRoll : BOOLEAN,
             missedAck : BOOLEAN, receivedAck : BOOLEAN]
    /\ DOMAIN s.keyCache \subseteq Key \X Key
    /\ s.keyCache \in [DOMAIN s.keyCache -> Counters]

(* The cache holds pairs of one of this end's two keys and one of the      *)
(* other end's two.                                                        *)
CacheIsCurrent(s) ==
    DOMAIN s.keyCache \subseteq
        ({s.myKey, s.myNextKey} \X {s.theirKey, s.theirPreviousKey})
        \ (KeyOrNone \X {NoKey})

SessionKeys(s) ==
    ({s.receivedDH, s.receivedDHKey, s.myKey, s.myNextKey, s.theirKey,
      s.theirPreviousKey} \ {NoKey})
    \cup UNION {{p[1], p[2]} : p \in DOMAIN s.keyCache}
=============================================================================
