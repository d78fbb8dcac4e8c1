------------------------------- MODULE SOSCoder -------------------------------
(***************************************************************************)
(* keychain/SecureObjectSync/SOSCoder.c and SOSPeerCoder.m: two peers of a *)
(* circle, each with a coder around its end of an off-the-record session,  *)
(* talking through the key-value store.                                    *)
(*                                                                         *)
(* Each peer has one key in the store for the other.  A new message takes  *)
(* the place of the last, read or not; a message that the reader could not *)
(* handle is handed to it again, and one it has handled may be as well.    *)
(* Coders are saved when a message is sent, not when one is received: a    *)
(* process that exits forgets what it has received since.                  *)
(***************************************************************************)
EXTENDS SecOTRSession

CONSTANTS
    Peer,
    FirstKeys,    \* pools of the keys a peer may start a negotiation with
    NextKeys,     \* the keys a peer may roll on to
    TimerGuards,  \* what the guards of the timer come to: only during the
                  \* initial sync, with a round-trip time and retries left
    MaxChanges,   \* bound: local changes of each peer
    MaxFaults     \* bound: repeated messages, timers, lost coders, exits

ASSUME PeerAssumption == Peer = {1, 2}
ASSUME KeysAssumption ==
    /\ FirstKeys \in [Peer -> SUBSET SUBSET Key]
    /\ NextKeys \in [Peer -> SUBSET Key]
ASSUME TimerAssumption == TimerGuards \subseteq BOOLEAN
ASSUME BoundAssumption == MaxChanges \in [Peer -> Nat] /\ MaxFaults \in Nat

(* Keys are drawn at random: no two peers ever draw the same one, nor does *)
(* one peer draw one twice.                                                *)
OwnKeys(p) == (UNION FirstKeys[p]) \cup NextKeys[p]
ASSUME PoolsAssumption ==
    /\ \A p \in Peer : (UNION FirstKeys[p]) \cap NextKeys[p] = {}
    /\ OwnKeys(1) \cap OwnKeys(2) = {}

VARIABLES
    coder,      \* each peer's coder for the other
    mustSend,   \* the peer state's mustSendMessage
    work,       \* the engine has something to send
    dirty,      \* engine->codersNeedSaving
    saved,      \* the coder, mustSend and work on disk
    timer,      \* the timer of an unfinished negotiation is set
    sync,       \* a sync with the peer has been requested
    kvs,        \* the message each peer has in the store
    unread,     \* the peer has yet to handle the message it reads
    made,       \* the local changes of each peer
    seen,       \* those of the other peer it has been told of
    opened,     \* history: how often it has exposed the message it reads
    setback,    \* history: "restart" of a negotiation or "exit" of a process
    faults

engines == <<mustSend, work, dirty, timer>>
wires == <<kvs, unread, opened>>
codingVars == <<coder, engines, saved, sync, wires, made, seen, setback, faults>>

Other(p) == 3 - p
Fault == faults > 0 /\ faults' = faults - 1
Restart == Fault /\ setback' = IF setback = "none" THEN "restart" ELSE setback
-----------------------------------------------------------------------------
(* Fresh keys: those nobody holds any more stand for new ones.  Only keys  *)
(* that start a negotiation are compared; each pool is one way they may    *)
(* compare with the other peer's.                                          *)
CoderKeys(c) ==
    SessionKeys(c.session) \cup PacketKeys(c.pendingResponse)
    \cup PacketKeys(c.lastReceived)
KeysInUse ==
    UNION {CoderKeys(coder[p]) \cup CoderKeys(saved[p].coder) \cup PacketKeys(kvs[p]) :
             p \in Peer}
Smallest(ks) == {k \in ks : \A l \in ks : k <= l}
KeyPairs(p, used) ==
    (UNION {Smallest(pool \ used) : pool \in FirstKeys[p]})
    \X Smallest(NextKeys[p] \ used)
FreshPairs(p) == LET inUse == KeysInUse IN KeyPairs(p, inUse)
-----------------------------------------------------------------------------
(* Coders.                                                                 *)
Coder(s, waiting, response) ==
    [session |-> s, waitingForDataPacket |-> waiting, pendingResponse |-> response,
     lastReceived |-> NoPacket, lastReceivedWasOld |-> FALSE]

IsReady(c) == c.session.state = "Done"
CanWrap(c) == IsReady(c) /\ ~c.waitingForDataPacket

(* SOSCoderStart, on a session that SOSCoderCreate or SOSCoderReset left   *)
(* idle.                                                                   *)
Started(s, kn) ==
    LET start == AppendStartPacket(s, kn[1], kn[2])
    IN Coder(start.session, FALSE, start.response)

Restarted(c, kn) == Started(Reset(c.session), kn)

ResendDH(c) ==
    LET restart == AppendRestartPacket(c.session)
    IN IF restart.status = "success"
       THEN [coder |-> [c EXCEPT !.session = restart.session,
                                 !.pendingResponse = restart.response],
             result |-> "negotiating"]
       ELSE [coder |-> c, result |-> "failure"]

(* Mutant: the end of a negotiation does not end the wait for data. *)
UnwrapNegotiationMut(c, m, kn) ==
    LET outcome == ProcessPacket(c.session, m, kn[1], kn[2])
        c1 == [c EXCEPT !.session = outcome.session]
    IN IF outcome.status # "success" THEN ResendDH(c1)
       ELSE [coder |-> [c1 EXCEPT !.pendingResponse = outcome.response,
                          !.waitingForDataPacket = @ \/ IsReady(c1)],
             result |-> "negotiating"]

(* SOSCoderUnwrap of a negotiation packet.                                 *)
UnwrapNegotiation(c, m, kn) ==
    LET outcome == ProcessPacket(c.session, m, kn[1], kn[2])
        c1 == [c EXCEPT !.session = outcome.session]
    IN CASE outcome.status = "success" /\ outcome.response # NoPacket ->
              [coder |-> [c1 EXCEPT !.pendingResponse = outcome.response,
                            !.waitingForDataPacket = @ \/ IsReady(c1)],
               result |-> "negotiating"]
         [] outcome.status = "success" /\ outcome.response = NoPacket ->
              IF IsReady(c1)
              THEN [coder |-> [c1 EXCEPT !.waitingForDataPacket = FALSE],
                    result |-> "completed"]
              ELSE [coder |-> c1, result |-> "negotiating"]
         [] outcome.status = "decode" -> ResendDH(c1)

(* SOSCoderUnwrap of a data packet.  A packet too old that is not the one  *)
(* just received makes this peer send one, the second in a row makes it    *)
(* negotiate again.                                                        *)
UnwrapData(c, m, kn, over) ==
    LET received == [c EXCEPT !.lastReceived = m, !.lastReceivedWasOld = FALSE]
        outcome == VerifyAndExpose(c.session, m, kn[2], over)
        exposed == [received EXCEPT !.session = outcome.session,
                                    !.waitingForDataPacket = FALSE]
    IN CASE ~IsReady(c) -> ResendDH(received)
         [] IsReady(c) /\ outcome.status = "success" ->
              [coder |-> exposed, result |-> "data"]
         [] IsReady(c) /\ outcome.status = "tooOld" ->
              IF c.lastReceived = m THEN [coder |-> exposed, result |-> "stale"]
              ELSE [coder |-> [exposed EXCEPT !.lastReceivedWasOld = TRUE],
                    result |-> IF c.lastReceivedWasOld THEN "failure"
                               ELSE "forceMessage"]
         [] IsReady(c) /\ outcome.status = "tooNew" ->
              [coder |-> exposed, result |-> "tooNew"]
         [] IsReady(c) /\ outcome.status = "authFailed" ->
              [coder |-> exposed, result |-> "failure"]

Unwrap(c, m, kn, over) ==
    IF m.type = "Data" THEN UnwrapData(c, m, kn, over) ELSE UnwrapNegotiation(c, m, kn)

(* SOSCoderCopyDER and SOSCoderCreateFromData: the last message received   *)
(* is not written.                                                         *)
Loaded(c) ==
    [c EXCEPT !.session = Serialized(@), !.lastReceived = NoPacket,
              !.lastReceivedWasOld = FALSE]
-----------------------------------------------------------------------------
CodingInit ==
    /\ \E kn \in [Peer -> UNION {KeyPairs(p, {}) : p \in Peer}] :
         /\ \A p \in Peer : kn[p] \in KeyPairs(p, {})
         /\ coder = [p \in Peer |-> Started(IdleSession, kn[p])]
    /\ mustSend = [p \in Peer |-> FALSE]
    /\ work = [p \in Peer |-> FALSE]
    /\ dirty = [p \in Peer |-> FALSE]
    /\ timer = [p \in Peer |-> FALSE]
    /\ saved = [p \in Peer |-> [coder |-> coder[p], mustSend |-> FALSE, work |-> FALSE]]
    /\ sync = [p \in Peer |-> TRUE]
    /\ kvs = [p \in Peer |-> NoPacket]
    /\ unread = [p \in Peer |-> FALSE]
    /\ made = [p \in Peer |-> 0]
    /\ seen = [p \in Peer |-> 0]
    /\ opened = [p \in Peer |-> 0]
    /\ setback = "none"
    /\ faults = MaxFaults

(* SOSEngineSave: the state of the peer, and the coder if it needs saving. *)
SaveEngine(p, c, needed, must, todo) ==
    saved' = [saved EXCEPT ![p] =
                [coder |-> IF needed THEN c ELSE @.coder,
                 mustSend |-> must, work |-> todo]]

Spans == IF SlowRoll THEN BOOLEAN ELSE {TRUE}

(* SOSEngineHandleCodedMessage with SOSPeerHandleCoderMessage.  A failure  *)
(* starts the coder anew and leaves the message unhandled; a handled one   *)
(* asks for a sync.  Content tells of the changes made and seen; if some   *)
(* are missing there, the engine has something to send.  The end of a      *)
(* negotiation is saved, and so is what came with new changes.             *)
HandleCodedMessage(p) ==
    LET q == Other(p)
        m == kvs[q]
    IN
    /\ unread[p]
    /\ \E kn \in FreshPairs(p), over \in Spans :
         LET u == Unwrap(coder[p], m, kn, over)
             handled == u.result \notin {"failure", "tooNew"}
             c == IF handled THEN u.coder ELSE Restarted(u.coder, kn)
             exposed == u.result = "data"
             news == exposed /\ m.content.made > seen[p]
             must == mustSend[p] \/ u.result \in {"completed", "forceMessage"}
             todo == work[p] \/ (exposed /\ m.content.seen < made[p])
             saves == u.result = "completed" \/ news
         IN /\ coder' = [coder EXCEPT ![p] = c]
            /\ mustSend' = [mustSend EXCEPT ![p] = must]
            /\ work' = [work EXCEPT ![p] = todo]
            /\ IF saves THEN SaveEngine(p, c, dirty[p], must, todo)
               ELSE UNCHANGED saved
            /\ dirty' = [dirty EXCEPT ![p] = @ /\ ~saves]
            /\ timer' = [timer EXCEPT ![p] = FALSE]
            /\ sync' = [sync EXCEPT ![p] = @ \/ handled]
            /\ unread' = [unread EXCEPT ![p] = ~handled]
            /\ opened' = [opened EXCEPT ![p] = IF exposed THEN @ + 1 ELSE @]
            /\ seen' = [seen EXCEPT ![p] = IF news THEN m.content.made ELSE @]
            /\ UNCHANGED <<kvs, made, setback, faults>>

(* securityd exits and reads back what it had saved.  The store's agent is *)
(* another process: it keeps the messages and the requests for a sync.     *)
ReadBack(p) ==
    /\ Fault
    /\ coder' = [coder EXCEPT ![p] = Loaded(saved[p].coder)]
    /\ mustSend' = [mustSend EXCEPT ![p] = saved[p].mustSend]
    /\ work' = [work EXCEPT ![p] = saved[p].work]
    /\ dirty' = [dirty EXCEPT ![p] = FALSE]
    /\ timer' = [timer EXCEPT ![p] = FALSE]
    /\ setback' = "exit"
    /\ UNCHANGED saved

(* The callback of a data packet: what it was sent for is done.            *)
NoteSent(p, m) ==
    /\ mustSend' = [mustSend EXCEPT ![p] = @ /\ m.type # "Data"]
    /\ work' = [work EXCEPT ![p] = @ /\ m.type # "Data"]

(* A message takes the last one's place in the store.  Then the engine's   *)
(* state is saved, unless the process exits first, and after that the      *)
(* callback runs.                                                          *)
Sent(p, m, c) ==
    /\ kvs' = [kvs EXCEPT ![p] = m]
    /\ unread' = [unread EXCEPT ![Other(p)] = TRUE]
    /\ opened' = [opened EXCEPT ![Other(p)] = 0]
    /\ \/ /\ coder' = [coder EXCEPT ![p] = c]
          /\ SaveEngine(p, c, TRUE, mustSend[p], work[p])
          /\ NoteSent(p, m)
          /\ dirty' = [dirty EXCEPT ![p] = FALSE]
          /\ \E g \in TimerGuards :
               timer' = [timer EXCEPT ![p] = @ \/ (g /\ ~IsReady(c))]
          /\ UNCHANGED <<setback, faults>>
       \/ ReadBack(p)

(* SOSTransportMessageSendMessageIfNeeded with                             *)
(* SOSPeerCoderSendMessageIfNeeded: a data packet if the coder can wrap    *)
(* one, else the response that negotiation left.                           *)
SendMessageIfNeeded(p) ==
    /\ sync[p]
    /\ sync' = [sync EXCEPT ![p] = FALSE]
    /\ \/ /\ CanWrap(coder[p]) /\ (work[p] \/ mustSend[p])
          /\ \E kn \in FreshPairs(p), over \in Spans :
               LET content == [made |-> made[p], seen |-> seen[p]]
                   o == SignAndProtect(coder[p].session, content, kn[2], over)
               IN Sent(p, o.response, [coder[p] EXCEPT !.session = o.session])
       \/ /\ ~CanWrap(coder[p]) /\ coder[p].pendingResponse # NoPacket
          /\ Sent(p, coder[p].pendingResponse,
                  [coder[p] EXCEPT !.pendingResponse = NoPacket])
       \/ /\ IF CanWrap(coder[p]) THEN ~(work[p] \/ mustSend[p])
             ELSE coder[p].pendingResponse = NoPacket
          /\ SaveEngine(p, coder[p], dirty[p] \/ ~CanWrap(coder[p]),
                        mustSend[p], work[p])
          /\ dirty' = [dirty EXCEPT ![p] = FALSE]
          /\ UNCHANGED <<coder, mustSend, work, timer, wires, setback, faults>>
    /\ UNCHANGED <<made, seen>>
-----------------------------------------------------------------------------
(* An item changes: its transaction saves the engine, which asks for a     *)
(* sync.                                                                   *)
LocalChange(p) ==
    /\ made[p] < MaxChanges[p]
    /\ made' = [made EXCEPT ![p] = @ + 1]
    /\ work' = [work EXCEPT ![p] = TRUE]
    /\ SaveEngine(p, coder[p], dirty[p], mustSend[p], TRUE)
    /\ dirty' = [dirty EXCEPT ![p] = FALSE]
    /\ sync' = [sync EXCEPT ![p] = TRUE]
    /\ UNCHANGED <<coder, mustSend, timer, wires, seen, setback, faults>>

(* The store hands a message over again.                                   *)
Redeliver(p) ==
    /\ ~unread[p] /\ kvs[Other(p)] # NoPacket
    /\ Fault
    /\ unread' = [unread EXCEPT ![p] = TRUE]
    /\ UNCHANGED <<coder, engines, saved, sync, kvs, opened, made, seen, setback>>

(* SOSAccountResetOTRNegotiationCoder: the negotiation took too long.  A   *)
(* timer that fires while a message or a sync is under way counts as a     *)
(* fault.                                                                  *)
Quiet == \A p \in Peer : ~unread[p] /\ ~sync[p]
OTRTimerFires(p) ==
    /\ timer[p] /\ ~IsReady(coder[p])
    /\ IF Quiet THEN UNCHANGED <<setback, faults>> ELSE Restart
    /\ timer' = [timer EXCEPT ![p] = FALSE]
    /\ \E kn \in FreshPairs(p) :
         coder' = [coder EXCEPT ![p] = Restarted(coder[p], kn)]
    /\ dirty' = [dirty EXCEPT ![p] = TRUE]
    /\ mustSend' = [mustSend EXCEPT ![p] = TRUE]
    /\ sync' = [sync EXCEPT ![p] = TRUE]
    /\ UNCHANGED <<work, saved, wires, made, seen>>

(* SOSEngineEnsureCoder_locked for a peer whose coder was dropped, because *)
(* the circle or this peer's identity changed.                             *)
NewCoder(p) ==
    /\ Restart
    /\ \E kn \in FreshPairs(p) :
         LET c == Started(IdleSession, kn)
         IN /\ coder' = [coder EXCEPT ![p] = c]
            /\ SaveEngine(p, c, TRUE, mustSend[p], work[p])
    /\ dirty' = [dirty EXCEPT ![p] = FALSE]
    /\ sync' = [sync EXCEPT ![p] = TRUE]
    /\ UNCHANGED <<mustSend, work, timer, wires, made, seen>>

Exit(p) ==
    /\ ReadBack(p)
    /\ UNCHANGED <<sync, wires, made, seen>>
-----------------------------------------------------------------------------
CodingNext ==
    \E p \in Peer :
        \/ HandleCodedMessage(p) \/ SendMessageIfNeeded(p)
        \/ LocalChange(p) \/ Redeliver(p)
        \/ OTRTimerFires(p) \/ NewCoder(p) \/ Exit(p)

CodingSpec == CodingInit /\ [][CodingNext]_codingVars

(* Weak fairness of the two handlers with their ENABLED written out: a     *)
(* message that waits is always handled and a requested sync always done.  *)
CodingFairSpec ==
    /\ CodingSpec
    /\ \A p \in Peer :
         /\ []<>(~unread[p]) \/ []<><<HandleCodedMessage(p)>>_codingVars
         /\ []<>(~sync[p]) \/ []<><<SendMessageIfNeeded(p)>>_codingVars
         /\ []<>(~(timer[p] /\ ~IsReady(coder[p]) /\ Quiet))
            \/ []<><<OTRTimerFires(p)>>_codingVars
-----------------------------------------------------------------------------
(* Type correctness.                                                       *)
IsCoder(c) ==
    /\ c \in [session : {c.session}, waitingForDataPacket : BOOLEAN,
              pendingResponse : {c.pendingResponse}, lastReceived : {c.lastReceived},
              lastReceivedWasOld : BOOLEAN]
    /\ IsSession(c.session)
    /\ IsPacket(c.pendingResponse) /\ IsPacket(c.lastReceived)

CodingTypeOK ==
    /\ \A p \in Peer :
         /\ IsCoder(coder[p]) /\ IsCoder(saved[p].coder)
         /\ saved[p].mustSend \in BOOLEAN /\ saved[p].work \in BOOLEAN
         /\ IsPacket(kvs[p])
    /\ {mustSend, work, dirty, timer, sync, unread} \subseteq [Peer -> BOOLEAN]
    /\ {made, seen, opened} \subseteq [Peer -> Nat]
    /\ setback \in {"none", "restart", "exit"} /\ faults \in 0 .. MaxFaults

(* The cache of key pairs never needs more than its four places, so that   *)
(* no pair in use, with its counters, is put out of it (the "cache miss,   *)
(* spooky" of SecOTRSFindKeysForMessage).                                  *)
CacheFits ==
    \A p \in Peer :
        /\ CacheIsCurrent(coder[p].session)
        /\ Cardinality(DOMAIN coder[p].session.keyCache) <= kOTRKeyCacheSize

(* When both coders can wrap and every message has been handled, whichever *)
(* peer sends next is understood: their ideas of the keys agree, however   *)
(* negotiations crossed, messages were lost and keys rolled.  A process    *)
(* that exited may have forgotten keys and counters it had used.           *)
CanTalk ==
    (/\ setback # "exit"
     /\ \A p \in Peer : CanWrap(coder[p]) /\ ~unread[p])
    => \A p \in Peer, over \in Spans :
         LET m == SignAndProtect(coder[p].session, <<>>, NoKey, over).response
         IN VerifyAndExpose(coder[Other(p)].session, m, NoKey, over).status = "success"

(* A message is opened once, however often the store hands it over: the    *)
(* counters outlast the rolling of keys for as long as they are needed.    *)
OpenedOnce == setback # "exit" => \A p \in Peer : opened[p] <= 1

(* Every change reaches the other peer, if no process exits and no         *)
(* negotiation is started anew while messages are under way.               *)
ChangeReachesPeer ==
    \A p \in Peer :
        made[p] > seen[Other(p)] ~> (made[p] = seen[Other(p)] \/ setback # "none")

(* "if coder state is in awaiting for message, then set a timer and        *)
(* restart if failure": when nothing is under way and a coder awaits a     *)
(* message, a timer is set that will start it anew.  The code loses it     *)
(* with the message that it ignores.                                       *)
AwaitingIsTimed ==
    (Quiet /\ setback # "exit" /\ \E p \in Peer : ~IsReady(coder[p]))
    => \E p \in Peer : timer[p]
=============================================================================
