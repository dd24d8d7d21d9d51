--------------------------- MODULE ZrtpHandshake ---------------------------
(***************************************************************************)
(* One ZRTP channel between two endpoints running the state machine of     *)
(* stateMachine.c, driven through the entry points of bzrtp.c              *)
(* (bzrtp_startChannelEngine, bzrtp_iterate, bzrtp_processMessage,         *)
(* bzrtp_resetRetransmissionTimer, bzrtp_setPeerHelloHash), over a network *)
(* that loses, duplicates and reorders packets.                            *)
(*                                                                         *)
(* A message is the content of a packet without its header, so a           *)
(* retransmission is the same message under a new sequence number.  The    *)
(* cryptography is symbolic: a key is identified by what is hashed into    *)
(* it, a MAC by the key it was computed with, a hash chain by its owner.   *)
(***************************************************************************)
EXTENDS Naturals

CONSTANTS
    A, B,            \* the two endpoints
    Stranger,        \* a third endpoint whose packets reach A or B (forked call)
    None,            \* a pointer that is NULL
    Mode,            \* "DHM" (main channel) or "Mult" (additional channel)
    Hvi(_, _),       \* hvi (or nonce) in the Commit of an endpoint's n-th attempt
    InitialSeq,      \* selfSequenceNumber drawn at channel creation
    HelloMax,        \* HELLO_MAX_RETRANSMISSION_NUMBER
    NonHelloMax,     \* NON_HELLO_MAX_RETRANSMISSION_NUMBER
    FiringCounts,    \* number of values of timer.firingCount (256, a uint8_t)
    Signalled,       \* endpoints that are given the peer's Hello hash by signalling
    StrayPackets,    \* packets of the Stranger on their way to each endpoint
    MaxFaults,       \* bound: packets the network loses, duplicates or reorders
    MaxResets        \* bound: calls to bzrtp_resetRetransmissionTimer

Endpoints == {A, B}
Other(p) == IF p = A THEN B ELSE A

States == {"NULL", "init", "waitingForHello", "waitingForHelloAck",
           "sendingCommit", "sendingDHPart1", "sendingDHPart2",
           "sendingConfirm1", "sendingConfirm2", "secure"}
MessageTypes == {"Hello", "HelloACK", "Commit", "DHPart1", "DHPart2",
                 "Confirm1", "Confirm2", "Conf2ACK"}
Roles == {"INITIATOR", "RESPONDER"}

(* PACKET_STORAGE: where peerPackets keeps a message of each type. *)
Slots == {"Hello", "Commit", "DHPart", "Confirm"}

Senders == Endpoints \cup {Stranger}

(* s0, named by the messages its total_hash covers: the two endpoints and  *)
(* the attempt each one's DHPart (or nonce) belongs to.                    *)
Keys == [ini : Senders, iniGen : Nat, rsp : Senders, rspGen : Nat]

(* The keys derived from s0 come in pairs, one for each sending role.      *)
DirectedKeys == [s0 : Keys, dir : Roles]

(* gen: the attempt (key pair or nonce) the message belongs to; to: the    *)
(* endpoint whose Hello is hashed into the hvi of a DHM Commit; key: the   *)
(* key of the MAC of a Confirm message.                                    *)
Messages == [type : MessageTypes, from : Senders, gen : Nat,
             to : Senders \cup {None}, key : DirectedKeys \cup {None}]
Packets == [seq : Nat, msg : Messages]

ASSUME EndpointsAssumption ==
    /\ A # B
    /\ Stranger \notin {A, B}
    /\ None \notin {A, B, Stranger}
    /\ None \notin Messages
    /\ None \notin Keys
    /\ None \notin DirectedKeys
    /\ Signalled \subseteq Endpoints
ASSUME ModeAssumption == Mode \in {"DHM", "Mult"}
ASSUME HviAssumption ==
    \A p \in Senders, q \in Senders, g \in 0..2, h \in 0..2 :
        /\ Hvi(p, g) \in Nat
        /\ p # q => Hvi(p, g) # Hvi(q, h)
ASSUME BoundsAssumption ==
    /\ InitialSeq \in Nat \ {0}
    /\ HelloMax \in Nat
    /\ NonHelloMax \in Nat
    /\ FiringCounts \in Nat
    /\ FiringCounts > HelloMax + 2
    /\ FiringCounts > NonHelloMax + 2
    /\ MaxFaults \in Nat
    /\ MaxResets \in Nat
(* A forked call is set up on the main channel. *)
ASSUME StrayAssumption ==
    /\ StrayPackets \in [Endpoints -> SUBSET Packets]
    /\ Mode = "Mult" => \A p \in Endpoints : StrayPackets[p] = {}

VARIABLES
    stateMachine,    \* the state function of the channel
    role,
    timerStatus, firingCount,          \* timer.status, timer.firingCount
    selfSeq, peerSeq,                  \* self- and peerSequenceNumber
    peerPackets,     \* messages of the peer kept by slot, None when absent
    peerHelloHash,   \* the endpoint whose Hello is expected, None when not set
    gen,             \* attempts made: key pairs (DHM) or nonces (Mult) drawn
    s0, mackeys,     \* s0 and the confirm keys mackeyi/r, zrtpkeyi/r derived from it
    rx, tx,          \* SRTP keys given to the client for receiving, for sending
    rs1,             \* the s0 whose retained secret was written to the ZID cache
    net,             \* packets on their way to each endpoint
    faults, resets   \* uses of the two bounds

timerVars == <<timerStatus, firingCount>>
keyVars == <<s0, mackeys, rx, tx, rs1>>
envVars == <<faults, resets>>
vars == <<stateMachine, role, timerVars, selfSeq, peerSeq, peerPackets,
          peerHelloHash, gen, keyVars, net, envVars>>

NoPackets == [slot \in Slots |-> None]

(* bzrtp_initChannelContext on both sides. *)
Init ==
    /\ stateMachine = [p \in Endpoints |-> "NULL"]
    /\ role = [p \in Endpoints |-> "INITIATOR"]
    /\ timerStatus = [p \in Endpoints |-> "OFF"]
    /\ firingCount = [p \in Endpoints |-> 0]
    /\ selfSeq = [p \in Endpoints |-> InitialSeq]
    /\ peerSeq = [p \in Endpoints |-> 0]
    /\ peerPackets = [p \in Endpoints |-> NoPackets]
    /\ peerHelloHash = [p \in Endpoints |-> None]
    /\ gen = [p \in Endpoints |-> 0]
    /\ s0 = [p \in Endpoints |-> None]
    /\ mackeys = [p \in Endpoints |-> None]
    /\ rx = [p \in Endpoints |-> None]
    /\ tx = [p \in Endpoints |-> None]
    /\ rs1 = [p \in Endpoints |-> None]
    /\ net = StrayPackets
    /\ faults = 0
    /\ resets = 0

-----------------------------------------------------------------------------
(* Messages an endpoint builds.                                            *)

Message(type, p, g, to, key) ==
    [type |-> type, from |-> p, gen |-> g, to |-> to, key |-> key]
Key(ini, g, rsp, h) == [ini |-> ini, iniGen |-> g, rsp |-> rsp, rspGen |-> h]
Directed(k, r) == [s0 |-> k, dir |-> r]

Hello(p) == Message("Hello", p, 0, None, None)
HelloACK(p) == Message("HelloACK", p, 0, None, None)
Conf2ACK(p) == Message("Conf2ACK", p, 0, None, None)

(* The hvi of a DHM Commit hashes the sender's DHPart2 with the Hello of   *)
(* the peer it has stored; a multistream Commit only carries a nonce.      *)
Commit(p, g, peer) ==
    Message("Commit", p, g, IF Mode = "DHM" THEN peer ELSE None, None)

(* The DHPart packet is built as a DHPart2 and turned into a DHPart1 by    *)
(* bzrtp_turnIntoResponder.                                                *)
DHPart(p, r) ==
    Message(IF r = "INITIATOR" THEN "DHPart2" ELSE "DHPart1", p, gen[p], None, None)
Confirm(p, r, k) ==
    Message(IF r = "INITIATOR" THEN "Confirm2" ELSE "Confirm1", p, 0, None, Directed(k, r))

SlotOf(type) ==
    CASE type = "Hello" -> "Hello"
      [] type = "Commit" -> "Commit"
      [] type \in {"DHPart1", "DHPart2"} -> "DHPart"
      [] OTHER -> "Confirm"

PeerRole(r) == IF r = "INITIATOR" THEN "RESPONDER" ELSE "INITIATOR"

-----------------------------------------------------------------------------
(* The network.  "rest" is what stays on the way to p once the packet that *)
(* p is handling has been taken.                                           *)

(* A step of p that sends nothing. *)
Silent(p, rest) ==
    /\ net' = [net EXCEPT ![p] = rest]
    /\ UNCHANGED selfSeq

(* bzrtp_sendPacket. *)
SendPacket(p, rest, m) ==
    /\ net' = [net EXCEPT ![p] = rest,
                          ![Other(p)] = @ \cup {[seq |-> selfSeq[p], msg |-> m]}]
    /\ selfSeq' = [selfSeq EXCEPT ![p] = @ + 1]

(* Two calls to bzrtp_sendPacket in one handler. *)
SendPackets(p, rest, m1, m2) ==
    /\ net' = [net EXCEPT ![p] = rest,
                          ![Other(p)] = @ \cup {[seq |-> selfSeq[p], msg |-> m1],
                                                [seq |-> selfSeq[p] + 1, msg |-> m2]}]
    /\ selfSeq' = [selfSeq EXCEPT ![p] = @ + 2]

-----------------------------------------------------------------------------
(* The retransmission timer.                                               *)

ArmTimer(p) ==
    /\ timerStatus' = [timerStatus EXCEPT ![p] = "ON"]
    /\ firingCount' = [firingCount EXCEPT ![p] = 0]

StopTimer(p) ==
    /\ timerStatus' = [timerStatus EXCEPT ![p] = "OFF"]
    /\ UNCHANGED firingCount

(* The states whose function handles BZRTP_EVENT_TIMER. *)
HelloTimerStates == {"init", "waitingForHelloAck"}
RetransmittingStates ==
    HelloTimerStates \cup {"sendingCommit", "sendingDHPart2", "sendingConfirm2"}

MaxRetransmissions(s) == IF s \in HelloTimerStates THEN HelloMax ELSE NonHelloMax

(* The packet of selfPackets sent again on a timer event. *)
Retransmitted(p) ==
    CASE stateMachine[p] \in HelloTimerStates -> Hello(p)
      [] stateMachine[p] = "sendingCommit" ->
            Commit(p, gen[p], peerPackets[p]["Hello"].from)
      [] stateMachine[p] = "sendingDHPart2" -> DHPart(p, "INITIATOR")
      [] OTHER -> Confirm(p, "INITIATOR", mackeys[p])

(* timer.firingCount is incremented before the state function sees it. *)
NextCountUnbounded(p) == firingCount[p] + 1   \* mutant: not a uint8_t
NextCount(p) == (firingCount[p] + 1) % FiringCounts

(* The timer is re-armed while firingCount <= MAX; the packet is sent in   *)
(* both cases.                                                             *)
RearmedBelowMax(p) ==                         \* mutant: < for <=
    NextCount(p) < MaxRetransmissions(stateMachine[p])
Rearmed(p) == NextCount(p) <= MaxRetransmissions(stateMachine[p])

(* bzrtp_iterate with the timer due, in a state that retransmits. *)
Retransmit(p) ==
    /\ timerStatus[p] = "ON"
    /\ stateMachine[p] \in RetransmittingStates
    /\ firingCount' = [firingCount EXCEPT ![p] = NextCount(p)]
    /\ timerStatus' = [timerStatus EXCEPT ![p] = IF Rearmed(p) THEN "ON" ELSE "OFF"]
    /\ SendPacket(p, net[p], Retransmitted(p))
    /\ UNCHANGED <<stateMachine, role, peerSeq, peerPackets, peerHelloHash, gen,
                   keyVars, envVars>>

(* bzrtp_iterate with the timer due, in a state that ignores timer events  *)
(* (or before the engine is started): only firingCount moves.              *)
IdleTimer(p) ==
    /\ timerStatus[p] = "ON"
    /\ stateMachine[p] \notin RetransmittingStates
    /\ firingCount' = [firingCount EXCEPT ![p] = NextCount(p)]
    /\ UNCHANGED <<stateMachine, role, timerStatus, selfSeq, peerSeq, peerPackets,
                   peerHelloHash, gen, keyVars, net, envVars>>

(* bzrtp_resetRetransmissionTimer: firingCount = -1 in a uint8_t. *)
ResetRetransmissionTimer(p) ==
    /\ resets < MaxResets
    /\ resets' = resets + 1
    /\ stateMachine[p] # "secure"
    /\ role[p] = "INITIATOR"
    /\ timerStatus' = [timerStatus EXCEPT ![p] = "ON"]
    /\ firingCount' = [firingCount EXCEPT ![p] = FiringCounts - 1]
    /\ UNCHANGED <<stateMachine, role, selfSeq, peerSeq, peerPackets, peerHelloHash,
                   gen, keyVars, net, faults>>

-----------------------------------------------------------------------------
(* Starting the channel, and the peer's Hello hash given by signalling.    *)

(* state_discovery_init on BZRTP_EVENT_INIT: the Hello itself is sent at   *)
(* the first timer tick.                                                   *)
EnterDiscovery(p) ==
    /\ stateMachine' = [stateMachine EXCEPT ![p] = "init"]
    /\ ArmTimer(p)
    /\ selfSeq' = [selfSeq EXCEPT ![p] = @ + 1]

StartChannelEngine(p) ==
    /\ stateMachine[p] = "NULL"
    /\ EnterDiscovery(p)
    /\ UNCHANGED <<role, peerSeq, peerPackets, peerHelloHash, gen, keyVars, net, envVars>>

HelloHashIgnored(p) == FALSE                  \* mutant: stored Hello not checked
HelloHashMismatch(p) ==
    /\ peerPackets[p]["Hello"] # None
    /\ peerPackets[p]["Hello"].from # Other(p)

(* bzrtp_setPeerHelloHash when no Hello is stored or it matches. *)
SetPeerHelloHash(p) ==
    /\ p \in Signalled
    /\ peerHelloHash[p] = None
    /\ ~HelloHashMismatch(p)
    /\ peerHelloHash' = [peerHelloHash EXCEPT ![p] = Other(p)]
    /\ UNCHANGED <<stateMachine, role, timerVars, selfSeq, peerSeq, peerPackets, gen,
                   keyVars, net, envVars>>

(* bzrtp_setPeerHelloHash when the stored Hello is another endpoint's: the *)
(* keys and packets are dropped and the channel is started again.  The     *)
(* role and peerSequenceNumber are left as they are.                       *)
RestartOnHelloHashMismatch(p) ==
    /\ p \in Signalled
    /\ peerHelloHash[p] = None
    /\ HelloHashMismatch(p)
    /\ peerHelloHash' = [peerHelloHash EXCEPT ![p] = Other(p)]
    /\ peerPackets' = [peerPackets EXCEPT ![p] = NoPackets]
    /\ s0' = [s0 EXCEPT ![p] = None]
    /\ mackeys' = [mackeys EXCEPT ![p] = None]
    /\ rx' = [rx EXCEPT ![p] = None]
    /\ tx' = [tx EXCEPT ![p] = None]
    /\ EnterDiscovery(p)
    /\ UNCHANGED <<role, peerSeq, gen, rs1, net, envVars>>

-----------------------------------------------------------------------------
(* Checks made on a received packet before the handler acts on it.         *)

(* bzrtp_processMessage and the sequence number check of                   *)
(* bzrtp_packetCheck.                                                      *)
PacketCheck(p, k) ==
    /\ stateMachine[p] # "NULL"
    /\ k.seq > peerSeq[p]

(* The type check at the head of each state's message handler. *)
ExpectedTypes(s) ==
    CASE s = "init" -> {"Hello", "HelloACK"}
      [] s = "waitingForHello" -> {"Hello"}
      [] s = "waitingForHelloAck" -> {"Hello", "HelloACK", "Commit"}
      [] s = "sendingCommit" ->
            {"Commit", "DHPart1"} \cup (IF Mode = "Mult" THEN {"Confirm1"} ELSE {})
      [] s = "sendingDHPart1" -> {"Commit", "DHPart2"}
      [] s = "sendingDHPart2" -> {"DHPart1", "Confirm1"}
      [] s = "sendingConfirm1" ->
            {"Confirm2"} \cup (IF Mode = "Mult" THEN {"Commit"} ELSE {"DHPart2"})
      [] s = "sendingConfirm2" -> {"Confirm1", "Conf2ACK"}
      [] s = "secure" -> {"Confirm2"}
      [] OTHER -> {}

(* The states in which a message of a type repeats one already stored. *)
RepetitionStates(type) ==
    CASE type = "Hello" -> {"waitingForHelloAck"}
      [] type = "Commit" -> {"sendingDHPart1", "sendingConfirm1"}
      [] type = "DHPart2" -> {"sendingConfirm1"}
      [] type = "DHPart1" -> {"sendingDHPart2"}
      [] type = "Confirm1" -> {"sendingConfirm2"}
      [] type = "Confirm2" -> {"secure"}
      [] OTHER -> {}

(* A repetition must be the stored message, byte for byte. *)
MatchesStored(p, m) == peerPackets[p][SlotOf(m.type)] = m

(* bzrtp_packetParser on a Hello: hash given by signalling. *)
ParsesHello(p, m) == peerHelloHash[p] \in {None, m.from}

(* ... on a Commit: its H2 hashes to the H3 of the stored Hello. *)
ParsesCommit(p, m) ==
    /\ peerPackets[p]["Hello"] # None
    /\ peerPackets[p]["Hello"].from = m.from

(* ... on a DHPart: a responder checks the hash chain and the MAC of the   *)
(* stored Commit and that its hvi is the hash of this DHPart2 and of our   *)
(* own Hello; an initiator checks the hash chain of the stored Hello.      *)
ParsesDHPart(p, m) ==
    LET commit == peerPackets[p]["Commit"]
        hello == peerPackets[p]["Hello"]
    IN  IF role[p] = "RESPONDER"
        THEN /\ commit # None
             /\ m.from = commit.from
             /\ m.gen = commit.gen
             /\ commit.to = p
        ELSE /\ hello # None
             /\ m.from = hello.from

(* The keys an endpoint checks a Confirm message with.  In multistream     *)
(* mode the initiator derives them when the Confirm1 arrives.              *)
KeysForConfirm(p) ==
    IF Mode = "Mult" /\ stateMachine[p] = "sendingCommit"
    THEN Key(p, gen[p], peerPackets[p]["Hello"].from, 0)
    ELSE mackeys[p]

(* ... on a Confirm: MAC under the peer's confirm key, hash chain. *)
ParsesConfirm(p, m) ==
    /\ KeysForConfirm(p) # None
    /\ m.key = Directed(KeysForConfirm(p), PeerRole(role[p]))
    /\ m.from = peerPackets[p]["Hello"].from

Parses(p, m) ==
    CASE m.type = "Hello" -> ParsesHello(p, m)
      [] m.type = "Commit" -> ParsesCommit(p, m)
      [] m.type \in {"DHPart1", "DHPart2"} -> ParsesDHPart(p, m)
      [] m.type \in {"Confirm1", "Confirm2"} -> ParsesConfirm(p, m)
      [] OTHER -> TRUE

Accepts(p, k) ==
    /\ PacketCheck(p, k)
    /\ k.msg.type \in ExpectedTypes(stateMachine[p])
    /\ IF stateMachine[p] \in RepetitionStates(k.msg.type)
       THEN MatchesStored(p, k.msg)
       ELSE Parses(p, k.msg)

-----------------------------------------------------------------------------
(* Handlers of accepted messages, one for each state and message type.     *)
(* The INIT call of the state that is entered is part of the handler.      *)

GoTo(p, s) == stateMachine' = [stateMachine EXCEPT ![p] = s]
SetPeerSeq(p, k) == peerSeq' = [peerSeq EXCEPT ![p] = k.seq]
Store(p, m) == peerPackets' = [peerPackets EXCEPT ![p][SlotOf(m.type)] = m]

(* computeS0DHMMode or computeS0MultiStreamMode, then deriveKeysFromS0. *)
DeriveConfirmKeysOnly(p, key) ==              \* mutant: s0 not kept
    /\ mackeys' = [mackeys EXCEPT ![p] = key]
    /\ UNCHANGED s0
DeriveKeys(p, key) ==
    /\ s0' = [s0 EXCEPT ![p] = key]
    /\ mackeys' = [mackeys EXCEPT ![p] = key]

(* bzrtp_deriveSrtpKeysFromS0 and the callback srtpSecretsAvailable:       *)
(* decryption uses the key of the peer's role, encryption that of ours.    *)
SecretsForReceiverOwnRole(p, key) ==          \* mutant: self for peer
    rx' = [rx EXCEPT ![p] = Directed(key, role[p])]
SecretsForReceiver(p, key) ==
    rx' = [rx EXCEPT ![p] = Directed(key, PeerRole(role[p]))]
SecretsForSender(p, key) ==
    tx' = [tx EXCEPT ![p] = Directed(key, role[p])]

(* A key pair is drawn with the DHPart2, a nonce with the Commit. *)
GenAfterHello(p) == IF Mode = "DHM" THEN gen[p] + 1 ELSE gen[p]
GenAfterCommit(p) == IF Mode = "Mult" THEN gen[p] + 1 ELSE gen[p]

(* state_discovery_init, Hello: the Hello timer starts again. *)
InitHello(p, k, rest) ==
    /\ stateMachine[p] = "init"
    /\ k.msg.type = "Hello"
    /\ GoTo(p, "waitingForHelloAck")
    /\ SetPeerSeq(p, k)
    /\ Store(p, k.msg)
    /\ gen' = [gen EXCEPT ![p] = GenAfterHello(p)]
    /\ ArmTimer(p)
    /\ SendPacket(p, rest, HelloACK(p))
    /\ UNCHANGED <<role, keyVars>>

(* state_discovery_init, HelloACK. *)
InitHelloACK(p, k, rest) ==
    /\ stateMachine[p] = "init"
    /\ k.msg.type = "HelloACK"
    /\ GoTo(p, "waitingForHello")
    /\ SetPeerSeq(p, k)
    /\ StopTimer(p)
    /\ Silent(p, rest)
    /\ UNCHANGED <<role, peerPackets, gen, keyVars>>

(* state_discovery_waitingForHello, Hello: HelloACK, then the first Commit. *)
WaitingForHelloHello(p, k, rest) ==
    /\ stateMachine[p] = "waitingForHello"
    /\ GoTo(p, "sendingCommit")
    /\ SetPeerSeq(p, k)
    /\ Store(p, k.msg)
    /\ gen' = [gen EXCEPT ![p] = @ + 1]
    /\ ArmTimer(p)
    /\ SendPackets(p, rest, HelloACK(p), Commit(p, gen[p] + 1, k.msg.from))
    /\ UNCHANGED <<role, keyVars>>

(* state_discovery_waitingForHelloAck, Hello repeated. *)
RepeatedHello(p, k, rest) ==
    /\ stateMachine[p] = "waitingForHelloAck"
    /\ k.msg.type = "Hello"
    /\ SetPeerSeq(p, k)
    /\ SendPacket(p, rest, HelloACK(p))
    /\ UNCHANGED <<stateMachine, role, timerVars, peerPackets, gen, keyVars>>

(* state_discovery_waitingForHelloAck, HelloACK: first Commit. *)
WaitingForHelloAckHelloACK(p, k, rest) ==
    /\ stateMachine[p] = "waitingForHelloAck"
    /\ k.msg.type = "HelloACK"
    /\ GoTo(p, "sendingCommit")
    /\ SetPeerSeq(p, k)
    /\ gen' = [gen EXCEPT ![p] = GenAfterCommit(p)]
    /\ ArmTimer(p)
    /\ SendPacket(p, rest, Commit(p, GenAfterCommit(p), peerPackets[p]["Hello"].from))
    /\ UNCHANGED <<role, peerPackets, keyVars>>

(* Mutants: no contention, and the higher hvi yields.                      *)
YieldsAlways(p, m) == TRUE
YieldsToLower(p, m) == role[p] = "RESPONDER" \/ Hvi(p, gen[p]) > Hvi(m.from, m.gen)

(* Commit contention: the role is set to responder when our hvi (nonce) is *)
(* the lower one, and tested afterwards.                                   *)
YieldsTo(p, m) == role[p] = "RESPONDER" \/ Hvi(p, gen[p]) < Hvi(m.from, m.gen)

(* bzrtp_turnIntoResponder, on the Commit received while waiting for       *)
(* HelloACK or on one that wins the contention against ours.               *)
TurnIntoResponder(p, k, rest) ==
    /\ k.msg.type = "Commit"
    /\ \/ stateMachine[p] = "waitingForHelloAck"
       \/ stateMachine[p] = "sendingCommit" /\ YieldsTo(p, k.msg)
    /\ role' = [role EXCEPT ![p] = "RESPONDER"]
    /\ SetPeerSeq(p, k)
    /\ Store(p, k.msg)
    /\ StopTimer(p)
    /\ \/ /\ Mode = "DHM"
          /\ GoTo(p, "sendingDHPart1")
          /\ SendPacket(p, rest, DHPart(p, "RESPONDER"))
          /\ UNCHANGED <<s0, mackeys>>
       \/ /\ Mode = "Mult"
          /\ GoTo(p, "sendingConfirm1")
          /\ LET key == Key(k.msg.from, k.msg.gen, p, 0)
             IN  /\ DeriveKeys(p, key)
                 /\ SendPacket(p, rest, Confirm(p, "RESPONDER", key))
    /\ UNCHANGED <<gen, rx, tx, rs1>>

(* state_keyAgreement_sendingCommit, Commit that loses the contention. *)
KeepInitiating(p, k, rest) ==
    /\ stateMachine[p] = "sendingCommit"
    /\ k.msg.type = "Commit"
    /\ ~YieldsTo(p, k.msg)
    /\ SetPeerSeq(p, k)
    /\ Silent(p, rest)
    /\ UNCHANGED <<stateMachine, role, timerVars, peerPackets, gen, keyVars>>

(* state_keyAgreement_sendingCommit, DHPart1: s0, first DHPart2. *)
CommitDHPart1(p, k, rest) ==
    /\ stateMachine[p] = "sendingCommit"
    /\ k.msg.type = "DHPart1"
    /\ GoTo(p, "sendingDHPart2")
    /\ SetPeerSeq(p, k)
    /\ Store(p, k.msg)
    /\ DeriveKeys(p, Key(p, gen[p], k.msg.from, k.msg.gen))
    /\ ArmTimer(p)
    /\ SendPacket(p, rest, DHPart(p, "INITIATOR"))
    /\ UNCHANGED <<role, gen, rx, tx, rs1>>

(* state_keyAgreement_responderSendingDHPart1, Commit repeated. *)
RepeatedCommit(p, k, rest) ==
    /\ stateMachine[p] = "sendingDHPart1"
    /\ k.msg.type = "Commit"
    /\ SetPeerSeq(p, k)
    /\ SendPacket(p, rest, DHPart(p, "RESPONDER"))
    /\ UNCHANGED <<stateMachine, role, timerVars, peerPackets, gen, keyVars>>

(* state_keyAgreement_responderSendingDHPart1, DHPart2: s0, first Confirm1. *)
DHPart1DHPart2(p, k, rest) ==
    /\ stateMachine[p] = "sendingDHPart1"
    /\ k.msg.type = "DHPart2"
    /\ GoTo(p, "sendingConfirm1")
    /\ SetPeerSeq(p, k)
    /\ Store(p, k.msg)
    /\ LET key == Key(k.msg.from, k.msg.gen, p, gen[p])
       IN  /\ DeriveKeys(p, key)
           /\ SendPacket(p, rest, Confirm(p, "RESPONDER", key))
    /\ StopTimer(p)
    /\ UNCHANGED <<role, gen, rx, tx, rs1>>

(* state_keyAgreement_initiatorSendingDHPart2, DHPart1 repeated;           *)
(* state_confirmation_initiatorSendingConfirm2, Confirm1 repeated.         *)
RepeatedAnswer(p, k, rest) ==
    /\ \/ stateMachine[p] = "sendingDHPart2" /\ k.msg.type = "DHPart1"
       \/ stateMachine[p] = "sendingConfirm2" /\ k.msg.type = "Confirm1"
    /\ SetPeerSeq(p, k)
    /\ Silent(p, rest)
    /\ UNCHANGED <<stateMachine, role, timerVars, peerPackets, gen, keyVars>>

(* Confirm1, in sendingDHPart2 or (multistream) in sendingCommit: SRTP     *)
(* keys for receiving only, first Confirm2.  selfSequenceNumber is         *)
(* incremented once more after the packet is sent.                         *)
Confirm1(p, k, rest) ==
    /\ stateMachine[p] \in {"sendingCommit", "sendingDHPart2"}
    /\ k.msg.type = "Confirm1"
    /\ GoTo(p, "sendingConfirm2")
    /\ SetPeerSeq(p, k)
    /\ Store(p, k.msg)
    /\ DeriveKeys(p, KeysForConfirm(p))
    /\ SecretsForReceiver(p, KeysForConfirm(p))
    /\ net' = [net EXCEPT ![p] = rest,
                          ![Other(p)] = @ \cup {[seq |-> selfSeq[p],
                                msg |-> Confirm(p, "INITIATOR", KeysForConfirm(p))]}]
    /\ selfSeq' = [selfSeq EXCEPT ![p] = @ + 2]
    /\ ArmTimer(p)
    /\ UNCHANGED <<role, gen, tx, rs1>>

(* state_confirmation_responderSendingConfirm1: Commit (multistream) or    *)
(* DHPart2 (DHM) repeated.                                                 *)
RepeatedRequest(p, k, rest) ==
    /\ stateMachine[p] = "sendingConfirm1"
    /\ k.msg.type \in {"Commit", "DHPart2"}
    /\ SetPeerSeq(p, k)
    /\ SendPacket(p, rest, Confirm(p, "RESPONDER", mackeys[p]))
    /\ UNCHANGED <<stateMachine, role, timerVars, peerPackets, gen, keyVars>>

(* bzrtp_updateCachedSecrets when the cached secrets matched: the retained *)
(* secret is written (DHM only) and s0 is destroyed.                       *)
UpdateInitiatorCacheOnly(p) ==                \* mutant: responder keeps the old secret
    /\ rs1' = [rs1 EXCEPT ![p] = IF role[p] = "INITIATOR" THEN s0[p] ELSE @]
    /\ s0' = [s0 EXCEPT ![p] = None]
    /\ UNCHANGED mackeys
UpdateCachedSecrets(p) ==
    /\ rs1' = [rs1 EXCEPT ![p] = IF Mode = "DHM" THEN s0[p] ELSE @]
    /\ s0' = [s0 EXCEPT ![p] = None]
    /\ UNCHANGED mackeys

(* state_confirmation_responderSendingConfirm1, Confirm2: SRTP keys in     *)
(* both directions, Conf2ACK, secure.                                      *)
Confirm2(p, k, rest) ==
    /\ stateMachine[p] = "sendingConfirm1"
    /\ k.msg.type = "Confirm2"
    /\ GoTo(p, "secure")
    /\ SetPeerSeq(p, k)
    /\ Store(p, k.msg)
    /\ UpdateCachedSecrets(p)
    /\ SecretsForReceiver(p, s0[p])
    /\ SecretsForSender(p, s0[p])
    /\ SendPacket(p, rest, Conf2ACK(p))
    /\ StopTimer(p)
    /\ UNCHANGED <<role, gen>>

(* state_confirmation_initiatorSendingConfirm2, Conf2ACK: SRTP keys for    *)
(* sending, secure.  peerSequenceNumber is not updated.                    *)
Conf2ACKReceived(p, k, rest) ==
    /\ stateMachine[p] = "sendingConfirm2"
    /\ k.msg.type = "Conf2ACK"
    /\ GoTo(p, "secure")
    /\ UpdateCachedSecrets(p)
    /\ SecretsForSender(p, s0[p])
    /\ StopTimer(p)
    /\ Silent(p, rest)
    /\ UNCHANGED <<role, peerSeq, peerPackets, gen, rx>>

(* state_secure, Confirm2 repeated. *)
ReinstallOnConfirm2(p, k, rest) ==            \* mutant: keys derived again, s0 is gone
    /\ stateMachine[p] = "secure"
    /\ k.msg.type = "Confirm2"
    /\ SetPeerSeq(p, k)
    /\ SecretsForReceiver(p, s0[p])
    /\ SecretsForSender(p, s0[p])
    /\ SendPacket(p, rest, Conf2ACK(p))
    /\ UNCHANGED <<stateMachine, role, timerVars, peerPackets, gen, s0, mackeys, rs1>>
RepeatedConfirm2(p, k, rest) ==
    /\ stateMachine[p] = "secure"
    /\ k.msg.type = "Confirm2"
    /\ SetPeerSeq(p, k)
    /\ SendPacket(p, rest, Conf2ACK(p))
    /\ UNCHANGED <<stateMachine, role, timerVars, peerPackets, gen, keyVars>>

Handle(p, k, rest) ==
    \/ InitHello(p, k, rest)
    \/ InitHelloACK(p, k, rest)
    \/ WaitingForHelloHello(p, k, rest)
    \/ RepeatedHello(p, k, rest)
    \/ WaitingForHelloAckHelloACK(p, k, rest)
    \/ TurnIntoResponder(p, k, rest)
    \/ KeepInitiating(p, k, rest)
    \/ CommitDHPart1(p, k, rest)
    \/ RepeatedCommit(p, k, rest)
    \/ DHPart1DHPart2(p, k, rest)
    \/ RepeatedAnswer(p, k, rest)
    \/ Confirm1(p, k, rest)
    \/ RepeatedRequest(p, k, rest)
    \/ Confirm2(p, k, rest)
    \/ Conf2ACKReceived(p, k, rest)
    \/ RepeatedConfirm2(p, k, rest)

(* A packet that fails a check is dropped.  In multistream mode the keys   *)
(* are derived before the Confirm1 is checked.                             *)
DerivesBeforeCheck(p, k) ==
    /\ Mode = "Mult"
    /\ stateMachine[p] = "sendingCommit"
    /\ k.msg.type = "Confirm1"
    /\ PacketCheck(p, k)

Drop(p, k, rest) ==
    /\ s0' = [s0 EXCEPT ![p] = IF DerivesBeforeCheck(p, k) THEN KeysForConfirm(p) ELSE @]
    /\ mackeys' =
          [mackeys EXCEPT ![p] = IF DerivesBeforeCheck(p, k) THEN KeysForConfirm(p) ELSE @]
    /\ Silent(p, rest)
    /\ UNCHANGED <<stateMachine, role, timerVars, peerSeq, peerPackets, gen, rx, tx, rs1>>

(* bzrtp_processMessage on a packet k addressed to p. *)
ProcessMessage(p, k, rest) ==
    /\ \/ Accepts(p, k) /\ Handle(p, k, rest)
       \/ ~Accepts(p, k) /\ Drop(p, k, rest)
    /\ UNCHANGED <<peerHelloHash, resets>>

-----------------------------------------------------------------------------
(* The network delivers a sender's packets in order; each fault lets one   *)
(* packet overtake one other, keeps a copy of an accepted packet, or loses *)
(* a packet.                                                               *)

Overtaken(p, k) == {o \in net[p] : o.msg.from = k.msg.from /\ o.seq < k.seq}

Deliver(p, k) ==
    /\ \/ /\ Overtaken(p, k) = {}
          /\ faults' = faults
       \/ /\ faults < MaxFaults
          /\ \E o \in net[p] : Overtaken(p, k) = {o}
          /\ faults' = faults + 1
    /\ ProcessMessage(p, k, net[p] \ {k})

Duplicate(p, k) ==
    /\ faults < MaxFaults
    /\ faults' = faults + 1
    /\ Accepts(p, k)
    /\ Overtaken(p, k) = {}
    /\ ProcessMessage(p, k, net[p])

Lose(p, k) ==
    /\ faults < MaxFaults
    /\ faults' = faults + 1
    /\ net' = [net EXCEPT ![p] = @ \ {k}]
    /\ UNCHANGED <<stateMachine, role, timerVars, selfSeq, peerSeq, peerPackets,
                   peerHelloHash, gen, keyVars, resets>>

Receive(p) == \E k \in net[p] : Deliver(p, k)

Next ==
    \E p \in Endpoints :
        \/ StartChannelEngine(p)
        \/ Retransmit(p)
        \/ IdleTimer(p)
        \/ ResetRetransmissionTimer(p)
        \/ SetPeerHelloHash(p)
        \/ RestartOnHelloHashMismatch(p)
        \/ Receive(p)
        \/ \E k \in net[p] : Duplicate(p, k) \/ Lose(p, k)

Spec == Init /\ [][Next]_vars

(* The client starts the engine and keeps calling bzrtp_iterate, and the   *)
(* transport delivers what it does not lose.                               *)
Fairness ==
    \A p \in Endpoints :
        /\ WF_vars(StartChannelEngine(p))
        /\ WF_vars(Retransmit(p))
        /\ WF_vars(Receive(p))
FairSpec == Spec /\ Fairness

-----------------------------------------------------------------------------
TypeOK ==
    /\ stateMachine \in [Endpoints -> States]
    /\ role \in [Endpoints -> Roles]
    /\ timerStatus \in [Endpoints -> {"ON", "OFF"}]
    /\ firingCount \in [Endpoints -> 0..(FiringCounts - 1)]
    /\ selfSeq \in [Endpoints -> Nat]
    /\ peerSeq \in [Endpoints -> Nat]
    /\ peerPackets \in [Endpoints -> [Slots -> Messages \cup {None}]]
    /\ peerHelloHash \in [Endpoints -> Endpoints \cup {None}]
    /\ gen \in [Endpoints -> Nat]
    /\ s0 \in [Endpoints -> Keys \cup {None}]
    /\ mackeys \in [Endpoints -> Keys \cup {None}]
    /\ rx \in [Endpoints -> DirectedKeys \cup {None}]
    /\ tx \in [Endpoints -> DirectedKeys \cup {None}]
    /\ rs1 \in [Endpoints -> Keys \cup {None}]
    /\ net \in [Endpoints -> SUBSET Packets]
    /\ faults \in Nat
    /\ resets \in Nat

RespondingStates == {"sendingDHPart1", "sendingConfirm1"}
InitiatingStates == {"sendingDHPart2", "sendingConfirm2"}

(* The two endpoints never both go on as responder, where no timer runs    *)
(* and each would wait for the other, nor both as initiator: the role is   *)
(* settled locally by commit contention and must come out complementary.   *)
RolesComplementary ==
    \A p \in Endpoints :
        /\ stateMachine[p] \in RespondingStates
              => stateMachine[Other(p)] \notin RespondingStates
        /\ stateMachine[p] \in InitiatingStates
              => stateMachine[Other(p)] \notin InitiatingStates

(* A sender key is handed to the client only when the peer's client holds  *)
(* the same key for receiving: no SRTP packet is sent that the peer cannot *)
(* decrypt, whatever was lost or repeated.                                 *)
SentMediaDecryptable ==
    \A p \in Endpoints : tx[p] # None => rx[Other(p)] = tx[p]

(* The initiator rotates its retained secret only after the responder did, *)
(* and to the same one: wherever the session is cut, the initiator's cache *)
(* is never ahead of the responder's, which keeps its previous secret.     *)
InitiatorCachesLast ==
    \A p \in Endpoints :
        (rs1[p] # None /\ role[p] = "INITIATOR") => rs1[Other(p)] = rs1[p]

(* Once signalling has named the peer's Hello, every message the channel   *)
(* keeps and every key it holds is that peer's: the restart leaves nothing *)
(* of a session begun with another endpoint.                               *)
OnlySignalledPeer ==
    \A p \in Endpoints : peerHelloHash[p] # None =>
        /\ \A slot \in Slots : peerPackets[p][slot] # None
                                  => peerPackets[p][slot].from = peerHelloHash[p]
        /\ mackeys[p] # None => {mackeys[p].ini, mackeys[p].rsp} = Endpoints

(* An endpoint that leaves sendingCommit as the responder had the lower    *)
(* hvi (or nonce), as the contention rule quoted in the Commit handler of  *)
(* state_keyAgreement_sendingCommit says.                                  *)
LowestHviYields ==
    [][\A p \in Endpoints :
          (/\ stateMachine[p] = "sendingCommit"
           /\ stateMachine'[p] \in RespondingStates)
              => Hvi(p, gen[p]) < Hvi(Other(p), gen[Other(p)])]_vars

(* The handshake hands out SRTP keys and retained secrets as               *)
(* SrtpKeyInstall says: never withdrawn, never replaced by a late or       *)
(* repeated packet, and in an order that a cut at any point keeps safe.    *)
Install == INSTANCE SrtpKeyInstall WITH Retains <- Mode = "DHM"
InstallsSrtpKeys == Install!Spec

(* Nothing in flight and no retransmission to come means that both ends    *)
(* are secure: no sequence of losses within the retransmission budget, and *)
(* no call to bzrtp_resetRetransmissionTimer at an unlucky moment, leaves  *)
(* each endpoint waiting for the other.                                    *)
NothingToCome(p) ==
    /\ stateMachine[p] # "NULL"
    /\ net[p] = {}
    /\ timerStatus[p] = "ON" => stateMachine[p] \notin RetransmittingStates
NeverStalled ==
    (\A p \in Endpoints : NothingToCome(p))
        => \A p \in Endpoints : stateMachine[p] = "secure"

(* Both endpoints end in the secure state, whatever packets are lost,      *)
(* duplicated or overtaken, as long as these faults are fewer than the     *)
(* retransmissions.                                                        *)
BothSecure == <>[](\A p \in Endpoints : stateMachine[p] = "secure")
=============================================================================
