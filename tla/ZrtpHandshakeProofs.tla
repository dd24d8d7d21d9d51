------------------------ MODULE ZrtpHandshakeProofs ------------------------
(***************************************************************************)
(* Theorems about the handshake, for every value of the constants.         *)
(***************************************************************************)
EXTENDS ZrtpHandshake, TLAPS

(* A Hello is stored from the moment it is answered. *)
HelloStored ==
    \A p \in Endpoints :
        stateMachine[p] \notin {"NULL", "init", "waitingForHello"}
            => peerPackets[p]["Hello"] # None

(* The confirm keys and s0 are there while Confirm messages are exchanged. *)
KeysDerived ==
    \A p \in Endpoints :
        stateMachine[p] \in {"sendingDHPart2", "sendingConfirm1", "sendingConfirm2"}
            => mackeys[p] # None /\ s0[p] = mackeys[p]

TypeInv == TypeOK /\ HelloStored /\ KeysDerived

-----------------------------------------------------------------------------
(* The other endpoint is another endpoint. *)
LEMMA OtherFacts ==
    \A p \in Endpoints : Other(p) \in Endpoints /\ Other(p) # p /\ Other(Other(p)) = p
  BY EndpointsAssumption DEF Endpoints, Other

(* Messages built by an endpoint are messages. *)
LEMMA MessageTyped ==
    ASSUME NEW type \in MessageTypes, NEW p \in Senders, NEW g \in Nat,
           NEW to \in Senders \cup {None}, NEW key \in DirectedKeys \cup {None}
    PROVE  Message(type, p, g, to, key) \in Messages
  BY DEF Message, Messages

(* A key and a role make a directed key. *)
LEMMA DirectedTyped ==
    ASSUME NEW k \in Keys, NEW r \in Roles
    PROVE  Directed(k, r) \in DirectedKeys
  BY DEF Directed, DirectedKeys

(* Two endpoints and their attempts name an s0. *)
LEMMA KeyTyped ==
    ASSUME NEW i \in Senders, NEW g \in Nat, NEW r \in Senders, NEW h \in Nat
    PROVE  Key(i, g, r, h) \in Keys
  BY DEF Key, Keys

(* Every packet an endpoint can build is a message. *)
LEMMA PacketMessagesTyped ==
    ASSUME NEW p \in Endpoints
    PROVE  /\ Hello(p) \in Messages
           /\ HelloACK(p) \in Messages
           /\ Conf2ACK(p) \in Messages
           /\ \A g \in Nat, q \in Senders : Commit(p, g, q) \in Messages
           /\ TypeOK => \A r \in Roles : DHPart(p, r) \in Messages
           /\ \A r \in Roles, k \in Keys : Confirm(p, r, k) \in Messages
<1>1. p \in Senders
  BY DEF Senders
<1>2. None \in Senders \cup {None} /\ None \in DirectedKeys \cup {None} /\ 0 \in Nat
  OBVIOUS
<1>3. /\ Hello(p) \in Messages
      /\ HelloACK(p) \in Messages
      /\ Conf2ACK(p) \in Messages
  BY <1>1, <1>2, MessageTyped DEF Hello, HelloACK, Conf2ACK, MessageTypes
<1>4. \A g \in Nat, q \in Senders : Commit(p, g, q) \in Messages
  BY <1>1, <1>2, MessageTyped DEF Commit, MessageTypes
<1>5. TypeOK => \A r \in Roles : DHPart(p, r) \in Messages
  BY <1>1, <1>2, MessageTyped DEF DHPart, MessageTypes, TypeOK
<1>6. \A r \in Roles, k \in Keys : Confirm(p, r, k) \in Messages
  BY <1>1, <1>2, MessageTyped, DirectedTyped DEF Confirm, MessageTypes
<1>7. QED
  BY <1>3, <1>4, <1>5, <1>6

-----------------------------------------------------------------------------
(* Typing of the parts handlers are made of. *)

(* The part of TypeOK a message handler can change, and the rest. *)
ChannelOK ==
    /\ stateMachine \in [Endpoints -> States]
    /\ role \in [Endpoints -> Roles]
    /\ timerStatus \in [Endpoints -> {"ON", "OFF"}]
    /\ firingCount \in [Endpoints -> 0..(FiringCounts - 1)]
    /\ selfSeq \in [Endpoints -> Nat]
    /\ peerSeq \in [Endpoints -> Nat]
    /\ peerPackets \in [Endpoints -> [Slots -> Messages \cup {None}]]
    /\ gen \in [Endpoints -> Nat]
    /\ s0 \in [Endpoints -> Keys \cup {None}]
    /\ mackeys \in [Endpoints -> Keys \cup {None}]
    /\ rx \in [Endpoints -> DirectedKeys \cup {None}]
    /\ tx \in [Endpoints -> DirectedKeys \cup {None}]
    /\ rs1 \in [Endpoints -> Keys \cup {None}]
    /\ net \in [Endpoints -> SUBSET Packets]
EnvOK ==
    /\ peerHelloHash \in [Endpoints -> Endpoints \cup {None}]
    /\ faults \in Nat
    /\ resets \in Nat

(* The type invariant is the part of the channel and that of the network. *)
LEMMA TypeOKSplit == TypeOK <=> ChannelOK /\ EnvOK
  BY DEF TypeOK, ChannelOK, EnvOK

(* A step that sends nothing keeps the network typed. *)
LEMMA SilentTyped ==
    ASSUME ChannelOK, NEW p \in Endpoints, NEW rest \in SUBSET Packets, Silent(p, rest)
    PROVE  net' \in [Endpoints -> SUBSET Packets] /\ selfSeq' \in [Endpoints -> Nat]
  BY DEF ChannelOK, Silent

(* A message under a sequence number is a packet. *)
LEMMA PacketTyped ==
    ASSUME NEW n \in Nat, NEW m \in Messages
    PROVE  [seq |-> n, msg |-> m] \in Packets
  BY DEF Packets

(* Taking packets from p and adding some for its peer keeps net typed. *)
LEMMA NetTyped ==
    ASSUME ChannelOK, NEW p \in Endpoints, NEW rest \in SUBSET Packets,
           NEW sent \in SUBSET Packets,
           net' = [net EXCEPT ![p] = rest, ![Other(p)] = sent]
    PROVE  net' \in [Endpoints -> SUBSET Packets]
  BY OtherFacts DEF ChannelOK

(* bzrtp_sendPacket keeps the network typed. *)
LEMMA SendTyped ==
    ASSUME ChannelOK, NEW p \in Endpoints, NEW rest \in SUBSET Packets,
           NEW m \in Messages, SendPacket(p, rest, m)
    PROVE  net' \in [Endpoints -> SUBSET Packets] /\ selfSeq' \in [Endpoints -> Nat]
<1>1. [seq |-> selfSeq[p], msg |-> m] \in Packets
  BY PacketTyped DEF ChannelOK
<1>2. QED
  BY <1>1, OtherFacts DEF ChannelOK, SendPacket

(* So do two calls of it. *)
LEMMA SendTwoTyped ==
    ASSUME ChannelOK, NEW p \in Endpoints, NEW rest \in SUBSET Packets,
           NEW m1 \in Messages, NEW m2 \in Messages, SendPackets(p, rest, m1, m2)
    PROVE  net' \in [Endpoints -> SUBSET Packets] /\ selfSeq' \in [Endpoints -> Nat]
<1>1. /\ [seq |-> selfSeq[p], msg |-> m1] \in Packets
      /\ [seq |-> selfSeq[p] + 1, msg |-> m2] \in Packets
  BY PacketTyped DEF ChannelOK
<1>2. net[Other(p)] \cup {[seq |-> selfSeq[p], msg |-> m1],
                          [seq |-> selfSeq[p] + 1, msg |-> m2]} \in SUBSET Packets
  BY <1>1, OtherFacts DEF ChannelOK
<1>3. net' \in [Endpoints -> SUBSET Packets]
  BY <1>2, NetTyped DEF SendPackets
<1>4. selfSeq' \in [Endpoints -> Nat]
  BY DEF ChannelOK, SendPackets
<1>5. QED
  BY <1>3, <1>4

(* Arming and stopping keep the timer typed. *)
LEMMA TimerTyped ==
    ASSUME ChannelOK, NEW p \in Endpoints, ArmTimer(p) \/ StopTimer(p)
    PROVE  /\ timerStatus' \in [Endpoints -> {"ON", "OFF"}]
           /\ firingCount' \in [Endpoints -> 0..(FiringCounts - 1)]
<1>1. 0 \in 0..(FiringCounts - 1)
  BY BoundsAssumption
<1>2. CASE ArmTimer(p)
  BY <1>1, <1>2 DEF ChannelOK, ArmTimer
<1>3. CASE StopTimer(p)
  BY <1>3 DEF ChannelOK, StopTimer
<1>4. QED
  BY <1>2, <1>3

(* A change of state keeps stateMachine typed. *)
LEMMA GoToTyped ==
    ASSUME ChannelOK, NEW p \in Endpoints, NEW s \in States, GoTo(p, s)
    PROVE  stateMachine' \in [Endpoints -> States]
  BY DEF ChannelOK, GoTo

(* Recording the sequence number of a packet keeps peerSeq typed. *)
LEMMA PeerSeqTyped ==
    ASSUME ChannelOK, NEW p \in Endpoints, NEW k \in Packets, SetPeerSeq(p, k)
    PROVE  peerSeq' \in [Endpoints -> Nat]
  BY DEF ChannelOK, SetPeerSeq, Packets

(* Every message type has a slot. *)
LEMMA SlotTyped == \A type : SlotOf(type) \in Slots
  BY DEF SlotOf, Slots

(* Storing a message keeps peerPackets typed. *)
LEMMA StoreTyped ==
    ASSUME ChannelOK, NEW p \in Endpoints, NEW m \in Messages, Store(p, m)
    PROVE  peerPackets' \in [Endpoints -> [Slots -> Messages \cup {None}]]
  BY SlotTyped DEF ChannelOK, Store

(* Deriving keys from an s0 keeps s0 and the confirm keys typed. *)
LEMMA DeriveTyped ==
    ASSUME ChannelOK, NEW p \in Endpoints, NEW key \in Keys, DeriveKeys(p, key)
    PROVE  /\ s0' \in [Endpoints -> Keys \cup {None}]
           /\ mackeys' \in [Endpoints -> Keys \cup {None}]
  BY DEF ChannelOK, DeriveKeys

(* Handing out SRTP keys keeps rx and tx typed. *)
LEMMA SecretsTyped ==
    ASSUME ChannelOK, NEW p \in Endpoints, NEW key \in Keys
    PROVE  /\ SecretsForReceiver(p, key) => rx' \in [Endpoints -> DirectedKeys \cup {None}]
           /\ SecretsForSender(p, key) => tx' \in [Endpoints -> DirectedKeys \cup {None}]
<1>1. role[p] \in Roles /\ PeerRole(role[p]) \in Roles
  BY DEF ChannelOK, PeerRole, Roles
<1>2. /\ Directed(key, role[p]) \in DirectedKeys
      /\ Directed(key, PeerRole(role[p])) \in DirectedKeys
  BY <1>1, DirectedTyped
<1>3. SecretsForReceiver(p, key) => rx' \in [Endpoints -> DirectedKeys \cup {None}]
  BY <1>2 DEF ChannelOK, SecretsForReceiver
<1>4. SecretsForSender(p, key) => tx' \in [Endpoints -> DirectedKeys \cup {None}]
  BY <1>2 DEF ChannelOK, SecretsForSender
<1>5. QED
  BY <1>3, <1>4

(* bzrtp_updateCachedSecrets keeps its variables typed. *)
LEMMA UpdateTyped ==
    ASSUME ChannelOK, NEW p \in Endpoints, UpdateCachedSecrets(p)
    PROVE  /\ rs1' \in [Endpoints -> Keys \cup {None}]
           /\ s0' \in [Endpoints -> Keys \cup {None}]
           /\ mackeys' \in [Endpoints -> Keys \cup {None}]
  BY DEF ChannelOK, UpdateCachedSecrets

(* The stored Hello names its sender. *)
LEMMA HelloSender ==
    ASSUME TypeOK, HelloStored, NEW p \in Endpoints,
           stateMachine[p] \notin {"NULL", "init", "waitingForHello"}
    PROVE  peerPackets[p]["Hello"].from \in Senders
  BY DEF TypeOK, HelloStored, Slots, Messages

(* The keys of the Confirm messages are keys. *)
LEMMA KeysTyped ==
    ASSUME TypeInv, NEW p \in Endpoints,
           stateMachine[p] \in {"sendingCommit", "sendingDHPart2"},
           Mode = "DHM" => stateMachine[p] = "sendingDHPart2"
    PROVE  KeysForConfirm(p) \in Keys
<1>1. CASE Mode = "Mult" /\ stateMachine[p] = "sendingCommit"
  <2>1. peerPackets[p]["Hello"].from \in Senders
    BY <1>1, HelloSender DEF TypeInv
  <2>2. p \in Senders /\ gen[p] \in Nat
    BY DEF TypeInv, TypeOK, Senders
  <2>3. QED
    BY <1>1, <2>1, <2>2, KeyTyped DEF KeysForConfirm
<1>2. CASE stateMachine[p] = "sendingDHPart2"
  BY <1>2 DEF KeysForConfirm, TypeInv, TypeOK, KeysDerived
<1>3. QED
  BY <1>1, <1>2, ModeAssumption

(* A step to any state that derives the keys keeps KeysDerived, and one    *)
(* from a state with a Hello that stores a message keeps HelloStored.      *)
LEMMA DerivingKept ==
    ASSUME ChannelOK, KeysDerived, NEW p \in Endpoints, NEW s, GoTo(p, s),
           NEW key \in Keys, DeriveKeys(p, key)
    PROVE  KeysDerived'
<1>1. key # None
  BY EndpointsAssumption
<1>2. QED
  BY <1>1 DEF ChannelOK, KeysDerived, GoTo, DeriveKeys

(* A stored message never removes the Hello. *)
LEMMA StoringKept ==
    ASSUME ChannelOK, HelloStored, NEW p \in Endpoints, NEW s, GoTo(p, s),
           stateMachine[p] \notin {"NULL", "init", "waitingForHello"},
           NEW m \in Messages, Store(p, m)
    PROVE  HelloStored'
<1>1. m # None
  BY EndpointsAssumption
<1>2. QED
  BY <1>1, SlotTyped DEF ChannelOK, HelloStored, GoTo, Store, Slots

-----------------------------------------------------------------------------
(* Every handler preserves the types and keeps the stored Hello and the    *)
(* keys its next state needs.                                              *)
LEMMA HandlersTyped ==
    ASSUME TypeInv, NEW p \in Endpoints, NEW k \in Packets,
           NEW rest \in SUBSET Packets, Accepts(p, k), Handle(p, k, rest)
    PROVE  ChannelOK' /\ HelloStored' /\ KeysDerived'
<1>1. TypeOK /\ ChannelOK /\ HelloStored /\ KeysDerived
  BY TypeOKSplit DEF TypeInv
<1>2. /\ k.msg \in Messages
      /\ k.msg # None
      /\ k.msg.from \in Senders
      /\ k.msg.gen \in Nat
  BY EndpointsAssumption DEF Packets, Messages
<1>3. /\ p \in Senders
      /\ gen[p] \in Nat
      /\ gen[p] + 1 \in Nat
      /\ GenAfterHello(p) \in Nat
      /\ GenAfterCommit(p) \in Nat
  BY <1>1 DEF ChannelOK, GenAfterHello, GenAfterCommit, Senders
<1>4. /\ HelloACK(p) \in Messages
      /\ Conf2ACK(p) \in Messages
      /\ \A g \in Nat, q \in Senders : Commit(p, g, q) \in Messages
      /\ DHPart(p, "INITIATOR") \in Messages
      /\ DHPart(p, "RESPONDER") \in Messages
      /\ \A key \in Keys : /\ Confirm(p, "INITIATOR", key) \in Messages
                            /\ Confirm(p, "RESPONDER", key) \in Messages
  BY <1>1, PacketMessagesTyped DEF Roles
<1>5. CASE InitHello(p, k, rest)
  <2>1. ChannelOK'
    BY <1>1, <1>2, <1>3, <1>4, <1>5, GoToTyped, PeerSeqTyped, StoreTyped, TimerTyped, SendTyped
    DEF InitHello, ChannelOK, States, keyVars, timerVars
  <2>2. HelloStored' /\ KeysDerived'
    BY <1>1, <1>2, <1>5 DEF InitHello, HelloStored, KeysDerived, ChannelOK, GoTo, Store, SlotOf,
       keyVars, Slots
  <2>3. QED
    BY <2>1, <2>2
<1>6. CASE InitHelloACK(p, k, rest)
  <2>1. ChannelOK'
    BY <1>1, <1>2, <1>3, <1>4, <1>6, GoToTyped, PeerSeqTyped, TimerTyped, SilentTyped
    DEF InitHelloACK, ChannelOK, States, keyVars, timerVars
  <2>2. HelloStored' /\ KeysDerived'
    BY <1>1, <1>2, <1>6 DEF InitHelloACK, HelloStored, KeysDerived, ChannelOK, GoTo, Store,
       SlotOf,
       keyVars, Slots
  <2>3. QED
    BY <2>1, <2>2
<1>7. CASE WaitingForHelloHello(p, k, rest)
  <2>1. ChannelOK'
    BY <1>1, <1>2, <1>3, <1>4, <1>7, GoToTyped, PeerSeqTyped, StoreTyped, TimerTyped,
       SendTwoTyped
    DEF WaitingForHelloHello, ChannelOK, States, keyVars, timerVars
  <2>2. k.msg.type = "Hello"
    BY <1>7 DEF WaitingForHelloHello, Accepts, ExpectedTypes
  <2>3. HelloStored' /\ KeysDerived'
    BY <1>1, <1>2, <1>7, <2>2 DEF WaitingForHelloHello, HelloStored, KeysDerived, ChannelOK,
       GoTo, Store, SlotOf, keyVars, Slots
  <2>4. QED
    BY <2>1, <2>3
<1>8. CASE RepeatedHello(p, k, rest)
  <2>1. ChannelOK'
    BY <1>1, <1>2, <1>3, <1>4, <1>8, PeerSeqTyped, SendTyped
    DEF RepeatedHello, ChannelOK, States, keyVars, timerVars
  <2>2. HelloStored' /\ KeysDerived'
    BY <1>1, <1>2, <1>8 DEF RepeatedHello, HelloStored, KeysDerived, ChannelOK, GoTo, Store,
       SlotOf,
       keyVars, Slots
  <2>3. QED
    BY <2>1, <2>2
<1>9. CASE WaitingForHelloAckHelloACK(p, k, rest)
  <2>1. peerPackets[p]["Hello"].from \in Senders
    BY <1>1, <1>9, HelloSender DEF WaitingForHelloAckHelloACK
  <2>2. ChannelOK'
    BY <1>1, <1>2, <1>3, <1>4, <1>9, <2>1, GoToTyped, PeerSeqTyped, TimerTyped, SendTyped
    DEF WaitingForHelloAckHelloACK, ChannelOK, States, keyVars, timerVars
  <2>3. HelloStored' /\ KeysDerived'
    BY <1>1, <1>2, <1>9 DEF WaitingForHelloAckHelloACK, HelloStored, KeysDerived, ChannelOK,
       GoTo, Store, SlotOf,
       keyVars, Slots
  <2>4. QED
    BY <2>2, <2>3
<1>10. CASE TurnIntoResponder(p, k, rest)
  <2>1. Key(k.msg.from, k.msg.gen, p, 0) \in Keys
    BY <1>2, <1>3, KeyTyped
  <2>2. ChannelOK'
    BY <1>1, <1>2, <1>3, <1>4, <1>10, <2>1, GoToTyped, PeerSeqTyped, StoreTyped, TimerTyped,
       SendTyped, DeriveTyped
    DEF TurnIntoResponder, ChannelOK, States, keyVars, timerVars, Roles
  <2>3. HelloStored'
    BY <1>1, <1>2, <1>10, StoringKept DEF TurnIntoResponder
  <2>4. KeysDerived'
    <3>1. CASE Mode = "DHM"
      BY <1>1, <1>10, <3>1 DEF TurnIntoResponder, KeysDerived, ChannelOK, GoTo
    <3>2. CASE Mode = "Mult"
      BY <1>1, <1>10, <2>1, <3>2, DerivingKept DEF TurnIntoResponder
    <3>3. QED
      BY <3>1, <3>2, ModeAssumption
  <2>5. QED
    BY <2>2, <2>3, <2>4
<1>11. CASE KeepInitiating(p, k, rest)
  <2>1. ChannelOK'
    BY <1>1, <1>2, <1>3, <1>4, <1>11, PeerSeqTyped, SilentTyped
    DEF KeepInitiating, ChannelOK, States, keyVars, timerVars
  <2>2. HelloStored' /\ KeysDerived'
    BY <1>1, <1>2, <1>11 DEF KeepInitiating, HelloStored, KeysDerived, ChannelOK,
       GoTo, Store, SlotOf, keyVars, Slots
  <2>3. QED
    BY <2>1, <2>2
<1>12. CASE CommitDHPart1(p, k, rest)
  <2>1. Key(p, gen[p], k.msg.from, k.msg.gen) \in Keys
    BY <1>2, <1>3, KeyTyped
  <2>2. ChannelOK'
    BY <1>1, <1>2, <1>3, <1>4, <1>12, <2>1, GoToTyped, PeerSeqTyped, StoreTyped, TimerTyped,
       SendTyped, DeriveTyped
    DEF CommitDHPart1, ChannelOK, States, keyVars, timerVars
  <2>3. HelloStored'
    BY <1>1, <1>2, <1>12, StoringKept DEF CommitDHPart1
  <2>4. KeysDerived'
    BY <1>1, <1>12, <2>1, DerivingKept DEF CommitDHPart1
  <2>5. QED
    BY <2>2, <2>3, <2>4
<1>13. CASE RepeatedCommit(p, k, rest)
  <2>1. ChannelOK'
    BY <1>1, <1>2, <1>3, <1>4, <1>13, PeerSeqTyped, SendTyped
    DEF RepeatedCommit, ChannelOK, States, keyVars, timerVars
  <2>2. HelloStored' /\ KeysDerived'
    BY <1>1, <1>2, <1>13 DEF RepeatedCommit, HelloStored, KeysDerived, ChannelOK,
       GoTo, Store, SlotOf, keyVars, Slots
  <2>3. QED
    BY <2>1, <2>2
<1>14. CASE DHPart1DHPart2(p, k, rest)
  <2>1. Key(k.msg.from, k.msg.gen, p, gen[p]) \in Keys
    BY <1>2, <1>3, KeyTyped
  <2>2. ChannelOK'
    BY <1>1, <1>2, <1>3, <1>4, <1>14, <2>1, GoToTyped, PeerSeqTyped, StoreTyped, TimerTyped,
       SendTyped, DeriveTyped
    DEF DHPart1DHPart2, ChannelOK, States, keyVars, timerVars
  <2>3. HelloStored'
    BY <1>1, <1>2, <1>14, StoringKept DEF DHPart1DHPart2
  <2>4. KeysDerived'
    BY <1>1, <1>14, <2>1, DerivingKept DEF DHPart1DHPart2
  <2>5. QED
    BY <2>2, <2>3, <2>4
<1>15. CASE RepeatedAnswer(p, k, rest)
  <2>1. ChannelOK'
    BY <1>1, <1>2, <1>3, <1>4, <1>15, PeerSeqTyped, SilentTyped
    DEF RepeatedAnswer, ChannelOK, States, keyVars, timerVars
  <2>2. HelloStored' /\ KeysDerived'
    BY <1>1, <1>2, <1>15 DEF RepeatedAnswer, HelloStored, KeysDerived, ChannelOK,
       GoTo, Store, SlotOf, keyVars, Slots
  <2>3. QED
    BY <2>1, <2>2
<1>16. CASE Confirm1(p, k, rest)
  <2>1. KeysForConfirm(p) \in Keys
    BY <1>16, KeysTyped DEF Confirm1, Accepts, ExpectedTypes
  <2>2. Confirm(p, "INITIATOR", KeysForConfirm(p)) \in Messages
    BY <1>4, <2>1
  <2>3. [seq |-> selfSeq[p], msg |-> Confirm(p, "INITIATOR", KeysForConfirm(p))] \in Packets
    BY <1>1, <2>2, PacketTyped DEF ChannelOK
  <2>4. net' \in [Endpoints -> SUBSET Packets]
    BY <1>1, <1>16, <2>3, OtherFacts DEF Confirm1, ChannelOK
  <2>5. ChannelOK'
    BY <1>1, <1>2, <1>3, <1>4, <1>16, <2>1, <2>2, <2>3, <2>4, GoToTyped, PeerSeqTyped,
       StoreTyped, TimerTyped, DeriveTyped, SecretsTyped
    DEF Confirm1, ChannelOK, States, keyVars, timerVars
  <2>6. HelloStored'
    BY <1>1, <1>2, <1>16, StoringKept DEF Confirm1
  <2>7. KeysDerived'
    BY <1>1, <1>16, <2>1, DerivingKept DEF Confirm1
  <2>8. QED
    BY <2>5, <2>6, <2>7
<1>17. CASE RepeatedRequest(p, k, rest)
  <2>1. mackeys[p] \in Keys
    BY <1>1, <1>17 DEF RepeatedRequest, KeysDerived, ChannelOK
  <2>2. ChannelOK'
    BY <1>1, <1>2, <1>3, <1>4, <1>17, <2>1, PeerSeqTyped, SendTyped
    DEF RepeatedRequest, ChannelOK, States, keyVars, timerVars
  <2>3. HelloStored' /\ KeysDerived'
    BY <1>1, <1>2, <1>17, <2>1 DEF RepeatedRequest, HelloStored, KeysDerived, ChannelOK,
       GoTo, Store, SlotOf, keyVars, Slots
  <2>4. QED
    BY <2>2, <2>3
<1>18. CASE Confirm2(p, k, rest)
  <2>1. s0[p] \in Keys
    BY <1>1, <1>18 DEF Confirm2, KeysDerived, ChannelOK
  <2>2. ChannelOK'
    BY <1>1, <1>2, <1>3, <1>4, <1>18, <2>1, GoToTyped, PeerSeqTyped, StoreTyped, TimerTyped,
       SendTyped, UpdateTyped, SecretsTyped
    DEF Confirm2, ChannelOK, States, keyVars, timerVars
  <2>3. HelloStored' /\ KeysDerived'
    BY <1>1, <1>2, <1>18, <2>1 DEF Confirm2, HelloStored, KeysDerived, ChannelOK,
       GoTo, Store, SlotOf, keyVars, Slots, UpdateCachedSecrets
  <2>4. QED
    BY <2>2, <2>3
<1>19. CASE Conf2ACKReceived(p, k, rest)
  <2>1. s0[p] \in Keys
    BY <1>1, <1>19 DEF Conf2ACKReceived, KeysDerived, ChannelOK
  <2>2. ChannelOK'
    BY <1>1, <1>2, <1>3, <1>4, <1>19, <2>1, GoToTyped, TimerTyped, SilentTyped, UpdateTyped,
       SecretsTyped
    DEF Conf2ACKReceived, ChannelOK, States, keyVars, timerVars
  <2>3. HelloStored' /\ KeysDerived'
    BY <1>1, <1>2, <1>19, <2>1 DEF Conf2ACKReceived, HelloStored, KeysDerived, ChannelOK,
       GoTo, Store, SlotOf, keyVars, Slots, UpdateCachedSecrets
  <2>4. QED
    BY <2>2, <2>3
<1>20. CASE RepeatedConfirm2(p, k, rest)
  <2>1. ChannelOK'
    BY <1>1, <1>2, <1>3, <1>4, <1>20, PeerSeqTyped, SendTyped
    DEF RepeatedConfirm2, ChannelOK, States, keyVars, timerVars
  <2>2. HelloStored' /\ KeysDerived'
    BY <1>1, <1>2, <1>20 DEF RepeatedConfirm2, HelloStored, KeysDerived, ChannelOK,
       GoTo, Store, SlotOf, keyVars, Slots
  <2>3. QED
    BY <2>1, <2>2
<1>21. QED
  BY <1>5, <1>6, <1>7, <1>8, <1>9, <1>10, <1>11, <1>12, <1>13, <1>14, <1>15, <1>16, <1>17,
     <1>18, <1>19, <1>20 DEF Handle

(* A dropped packet only moves the keys of a multistream initiator.        *)
LEMMA DropTyped ==
    ASSUME TypeInv, NEW p \in Endpoints, NEW k \in Packets,
           NEW rest \in SUBSET Packets, Drop(p, k, rest)
    PROVE  ChannelOK' /\ HelloStored' /\ KeysDerived'
<1>1. TypeOK /\ ChannelOK /\ HelloStored /\ KeysDerived
  BY TypeOKSplit DEF TypeInv
<1>2. DerivesBeforeCheck(p,
k) => KeysForConfirm(p) \in Keys /\ stateMachine[p] = "sendingCommit"
  BY KeysTyped DEF DerivesBeforeCheck
<1>3. ChannelOK'
  BY <1>1, <1>2, SilentTyped DEF Drop, ChannelOK, timerVars
<1>4. HelloStored'
  BY <1>1 DEF Drop, HelloStored
<1>5. KeysDerived'
  BY <1>1, <1>2 DEF Drop, KeysDerived, ChannelOK
<1>6. QED
  BY <1>3, <1>4, <1>5

(* bzrtp_processMessage keeps the invariant, whatever packet it is given. *)
LEMMA ProcessMessageTyped ==
    ASSUME TypeInv, NEW p \in Endpoints, NEW k \in Packets,
           NEW rest \in SUBSET Packets, ProcessMessage(p, k, rest), faults' \in Nat
    PROVE  TypeInv'
<1>1. ChannelOK' /\ HelloStored' /\ KeysDerived'
  BY HandlersTyped, DropTyped DEF ProcessMessage
<1>2. EnvOK'
  BY TypeOKSplit DEF TypeInv, EnvOK, ProcessMessage
<1>3. QED
  BY <1>1, <1>2, TypeOKSplit DEF TypeInv, TypeOK, ChannelOK, EnvOK

(* The packet a timer tick sends again is a message. *)
LEMMA RetransmittedTyped ==
    ASSUME TypeInv, NEW p \in Endpoints, stateMachine[p] \in RetransmittingStates
    PROVE  Retransmitted(p) \in Messages
<1>1. TypeOK /\ gen[p] \in Nat
  BY DEF TypeInv, TypeOK
<1>2. CASE stateMachine[p] \in HelloTimerStates
  BY <1>2, PacketMessagesTyped DEF Retransmitted, HelloTimerStates
<1>3. CASE stateMachine[p] = "sendingCommit"
  <2>1. peerPackets[p]["Hello"].from \in Senders
    BY <1>3, HelloSender DEF TypeInv
  <2>2. QED
    BY <1>1, <1>3, <2>1, PacketMessagesTyped DEF Retransmitted, HelloTimerStates
<1>4. CASE stateMachine[p] = "sendingDHPart2"
  BY <1>1, <1>4, PacketMessagesTyped DEF Retransmitted, HelloTimerStates, Roles
<1>5. CASE stateMachine[p] = "sendingConfirm2"
  <2>1. mackeys[p] \in Keys
    BY <1>5 DEF TypeInv, TypeOK, KeysDerived
  <2>2. QED
    BY <1>5, <2>1, PacketMessagesTyped DEF Retransmitted, HelloTimerStates, Roles
<1>6. QED
  BY <1>2, <1>3, <1>4, <1>5 DEF RetransmittingStates

(* The incremented firingCount is again one of its values. *)
LEMMA CountTyped ==
    ASSUME TypeOK, NEW p \in Endpoints
    PROVE  NextCount(p) \in 0..(FiringCounts - 1)
<1>1. firingCount[p] + 1 \in Nat /\ FiringCounts \in Nat /\ FiringCounts > 0
  BY BoundsAssumption DEF TypeOK
<1>2. QED
  BY <1>1 DEF NextCount

-----------------------------------------------------------------------------
(* Freshly created channels satisfy the invariant. *)
LEMMA InitTyped == Init => TypeInv
<1>1. NoPackets \in [Slots -> Messages \cup {None}]
  BY DEF NoPackets
<1>2. 0 \in 0..(FiringCounts - 1)
  BY BoundsAssumption
<1>3. Init => TypeOK
  BY <1>1, <1>2, BoundsAssumption, StrayAssumption DEF Init, TypeOK, States, Roles
<1>4. Init => HelloStored /\ KeysDerived
  BY DEF Init, HelloStored, KeysDerived
<1>5. QED
  BY <1>3, <1>4 DEF TypeInv

(* The inductive step, one case for each action. *)
LEMMA NextTyped == TypeInv /\ [Next]_vars => TypeInv'
<1> SUFFICES ASSUME TypeInv, [Next]_vars PROVE TypeInv'
  OBVIOUS
<1>1. TypeOK /\ HelloStored /\ KeysDerived /\ ChannelOK
  BY TypeOKSplit DEF TypeInv
<1>2. 0 \in 0..(FiringCounts - 1) /\ FiringCounts - 1 \in 0..(FiringCounts - 1)
  BY BoundsAssumption
<1>3. ASSUME NEW p \in Endpoints, StartChannelEngine(p) PROVE TypeInv'
  <2>1. TypeOK'
    BY <1>1, <1>2, <1>3 DEF StartChannelEngine, EnterDiscovery, ArmTimer, TypeOK, States,
       keyVars, envVars
  <2>2. HelloStored' /\ KeysDerived'
    BY <1>1, <1>3 DEF StartChannelEngine, EnterDiscovery, HelloStored, KeysDerived, TypeOK,
       keyVars
  <2>3. QED
    BY <2>1, <2>2 DEF TypeInv
<1>4. ASSUME NEW p \in Endpoints, Retransmit(p) PROVE TypeInv'
  <2>1. net[p] \in SUBSET Packets /\ Retransmitted(p) \in Messages
    BY <1>4, RetransmittedTyped DEF Retransmit, TypeInv, TypeOK
  <2>2. net' \in [Endpoints -> SUBSET Packets] /\ selfSeq' \in [Endpoints -> Nat]
    BY <1>1, <1>4, <2>1, SendTyped DEF Retransmit
  <2>3. TypeOK'
    BY <1>1, <1>4, <2>2, CountTyped DEF Retransmit, TypeOK, keyVars, envVars
  <2>4. HelloStored' /\ KeysDerived'
    BY <1>1, <1>4 DEF Retransmit, HelloStored, KeysDerived, keyVars
  <2>5. QED
    BY <2>3, <2>4 DEF TypeInv
<1>5. ASSUME NEW p \in Endpoints, IdleTimer(p) PROVE TypeInv'
  <2>1. TypeOK'
    BY <1>1, <1>5, CountTyped DEF IdleTimer, TypeOK, keyVars, envVars
  <2>2. HelloStored' /\ KeysDerived'
    BY <1>1, <1>5 DEF IdleTimer, HelloStored, KeysDerived, keyVars
  <2>3. QED
    BY <2>1, <2>2 DEF TypeInv
<1>6. ASSUME NEW p \in Endpoints, ResetRetransmissionTimer(p) PROVE TypeInv'
  <2>1. TypeOK'
    BY <1>1, <1>2, <1>6 DEF ResetRetransmissionTimer, TypeOK, keyVars
  <2>2. HelloStored' /\ KeysDerived'
    BY <1>1, <1>6 DEF ResetRetransmissionTimer, HelloStored, KeysDerived, keyVars
  <2>3. QED
    BY <2>1, <2>2 DEF TypeInv
<1>7. ASSUME NEW p \in Endpoints, SetPeerHelloHash(p) PROVE TypeInv'
  <2>1. TypeOK'
    BY <1>1, <1>7, OtherFacts DEF SetPeerHelloHash, TypeOK, timerVars, keyVars, envVars
  <2>2. HelloStored' /\ KeysDerived'
    BY <1>1, <1>7 DEF SetPeerHelloHash, HelloStored, KeysDerived, keyVars
  <2>3. QED
    BY <2>1, <2>2 DEF TypeInv
<1>8. ASSUME NEW p \in Endpoints, RestartOnHelloHashMismatch(p) PROVE TypeInv'
  <2>1. NoPackets \in [Slots -> Messages \cup {None}]
    BY DEF NoPackets
  <2>2. TypeOK'
    BY <1>1, <1>2, <1>8, <2>1, OtherFacts
    DEF RestartOnHelloHashMismatch, EnterDiscovery, ArmTimer, TypeOK, States, envVars
  <2>3. HelloStored' /\ KeysDerived'
    BY <1>1, <1>8 DEF RestartOnHelloHashMismatch, EnterDiscovery, HelloStored, KeysDerived,
       TypeOK
  <2>4. QED
    BY <2>2, <2>3 DEF TypeInv
<1>9. ASSUME NEW p \in Endpoints, NEW k \in net[p],
             Deliver(p, k) \/ Duplicate(p, k)
      PROVE  TypeInv'
  <2>1. k \in Packets /\ net[p] \in SUBSET Packets /\ net[p] \ {k} \in SUBSET Packets
    BY <1>1 DEF TypeOK
  <2>2. faults' \in Nat
    BY <1>1, <1>9 DEF Deliver, Duplicate, TypeOK
  <2>3. QED
    BY <1>9, <2>1, <2>2, ProcessMessageTyped DEF Deliver, Duplicate
<1>10. ASSUME NEW p \in Endpoints, NEW k \in net[p], Lose(p, k) PROVE TypeInv'
  <2>1. TypeOK'
    BY <1>1, <1>10 DEF Lose, TypeOK, timerVars, keyVars
  <2>2. HelloStored' /\ KeysDerived'
    BY <1>1, <1>10 DEF Lose, HelloStored, KeysDerived, keyVars
  <2>3. QED
    BY <2>1, <2>2 DEF TypeInv
<1>11. CASE UNCHANGED vars
  BY <1>1, <1>11 DEF TypeInv, TypeOK, HelloStored, KeysDerived, vars, timerVars, keyVars,
     envVars
<1>12. QED
  BY <1>3, <1>4, <1>5, <1>6, <1>7, <1>8, <1>9, <1>10, <1>11 DEF Next, Receive

(* Every variable keeps its type, for any peer behaviour the packets in    *)
(* StrayPackets stand for: the timer counter stays a uint8_t, and no       *)
(* handler stores, sends or hands out a key that was not derived.          *)
THEOREM TypeCorrect == Spec => []TypeOK
<1>1. TypeInv => TypeOK
  BY DEF TypeInv
<1>2. QED
  BY <1>1, InitTyped, NextTyped, PTL DEF Spec


-----------------------------------------------------------------------------
(* One peer at a time, whoever's packets arrive.                           *)

(* Before a Hello is stored there is nothing of any peer; afterwards every *)
(* message kept and both ends of the keys are those of the Hello's sender. *)
OnePeer(p) ==
    LET hello == peerPackets[p]["Hello"]
    IN  /\ stateMachine[p] \in {"NULL", "init", "waitingForHello"}
              => mackeys[p] = None /\ \A slot \in Slots : peerPackets[p][slot] = None
        /\ \A slot \in Slots : peerPackets[p][slot] # None
              => hello # None /\ peerPackets[p][slot].from = hello.from
        /\ mackeys[p] # None
              => hello # None /\ {mackeys[p].ini, mackeys[p].rsp} = {p, hello.from}
        /\ peerHelloHash[p] # None
              => /\ peerHelloHash[p] = Other(p)
                 /\ hello # None => hello.from = Other(p)

PeerInv == TypeInv /\ \A p \in Endpoints : OnePeer(p)

(* What a step of p leaves alone at the other endpoint. *)
PeerUntouched(p) ==
    \A q \in Endpoints \ {p} :
        /\ stateMachine'[q] = stateMachine[q] /\ mackeys'[q] = mackeys[q]
        /\ peerPackets'[q] = peerPackets[q] /\ peerHelloHash'[q] = peerHelloHash[q]

(* Only the endpoint that takes the step needs a look. *)
LEMMA OnePeerFrame ==
    ASSUME NEW p \in Endpoints, PeerUntouched(p), \A q \in Endpoints : OnePeer(q), OnePeer(p)'
    PROVE  \A q \in Endpoints : OnePeer(q)'
<1> SUFFICES ASSUME NEW q \in Endpoints, q # p PROVE OnePeer(q)'
  OBVIOUS
<1> QED
  BY DEF PeerUntouched, OnePeer

Early == {"NULL", "init", "waitingForHello"}

(* Nothing of the peer is added or lost. *)
PeerQuiet(p) ==
    /\ stateMachine'[p] \in Early => stateMachine[p] \in Early
    /\ peerPackets'[p] = peerPackets[p]
    /\ \/ mackeys'[p] = mackeys[p]
       \/ /\ stateMachine[p] \notin Early /\ mackeys'[p] # None
          /\ {mackeys'[p].ini, mackeys'[p].rsp} = {p, peerPackets[p]["Hello"].from}

(* The first message of the peer, its Hello. *)
PeerHelloKept(p, m) ==
    /\ stateMachine[p] \in Early /\ stateMachine'[p] \notin Early
    /\ peerPackets'[p] = [peerPackets[p] EXCEPT !["Hello"] = m]
    /\ ParsesHello(p, m)
    /\ mackeys'[p] = mackeys[p]

(* Another message of the peer. *)
PeerMessageKept(p, m) ==
    /\ stateMachine[p] \notin Early /\ stateMachine'[p] \notin Early
    /\ \E slot \in Slots \ {"Hello"} : peerPackets'[p] = [peerPackets[p] EXCEPT ![slot] = m]
    /\ m.from = peerPackets[p]["Hello"].from
    /\ \/ mackeys'[p] = mackeys[p]
       \/ {mackeys'[p].ini, mackeys'[p].rsp} = {p, peerPackets[p]["Hello"].from}

(* Each kind of step keeps to one peer. *)
LEMMA KindsKeepOnePeer ==
    ASSUME TypeInv, NEW p \in Endpoints, OnePeer(p), NEW m \in Messages,
           peerHelloHash'[p] = peerHelloHash[p],
           PeerQuiet(p) \/ PeerHelloKept(p, m) \/ PeerMessageKept(p, m)
    PROVE  OnePeer(p)'
<1> PICK old : old = peerPackets[p]
  OBVIOUS
<1> PICK new : new = peerPackets'[p]
  OBVIOUS
<1>1. old \in [Slots -> Messages \cup {None}] /\ m # None /\ "Hello" \in Slots
  BY EndpointsAssumption DEF TypeInv, TypeOK, Slots
<1>2. /\ stateMachine[p] \in Early => mackeys[p] = None /\ \A slot \in Slots : old[slot] = None
      /\ \A slot \in Slots : old[slot] # None
            => old["Hello"] # None /\ old[slot].from = old["Hello"].from
      /\ mackeys[p] # None
            => old["Hello"] # None /\ {mackeys[p].ini, mackeys[p].rsp} = {p, old["Hello"].from}
      /\ peerHelloHash[p] # None
            => /\ peerHelloHash[p] = Other(p)
               /\ old["Hello"] # None => old["Hello"].from = Other(p)
  BY DEF OnePeer, Early
<1>3. stateMachine[p] \notin Early => old["Hello"] # None
  BY DEF TypeInv, HelloStored, Early
<1> SUFFICES
      /\ stateMachine'[p] \in Early => mackeys'[p] = None /\ \A slot \in Slots : new[slot] = None
      /\ \A slot \in Slots : new[slot] # None
            => new["Hello"] # None /\ new[slot].from = new["Hello"].from
      /\ mackeys'[p] # None
            => new["Hello"] # None /\ {mackeys'[p].ini, mackeys'[p].rsp} = {p, new["Hello"].from}
      /\ peerHelloHash[p] # None /\ new["Hello"] # None => new["Hello"].from = Other(p)
  BY <1>2 DEF OnePeer, Early
<1>4. CASE PeerQuiet(p)
  BY <1>2, <1>3, <1>4 DEF PeerQuiet
<1>5. CASE PeerHelloKept(p, m)
  <2>1. new["Hello"] = m /\ \A slot \in Slots \ {"Hello"} : new[slot] = old[slot]
    BY <1>1, <1>5 DEF PeerHelloKept
  <2>2. peerHelloHash[p] \in {None, m.from}
    BY <1>5 DEF PeerHelloKept, ParsesHello
  <2> QED
    BY <1>1, <1>2, <1>5, <2>1, <2>2 DEF PeerHelloKept
<1>6. CASE PeerMessageKept(p, m)
  <2> PICK s \in Slots \ {"Hello"} : new = [old EXCEPT ![s] = m]
    BY <1>6 DEF PeerMessageKept
  <2>1. new[s] = m /\ \A slot \in Slots \ {s} : new[slot] = old[slot]
    BY <1>1
  <2>2. new["Hello"] = old["Hello"] /\ m.from = old["Hello"].from /\ old["Hello"] # None
    BY <1>1, <1>3, <1>6, <2>1 DEF PeerMessageKept
  <2>3. \A slot \in Slots : new[slot] # None => new[slot].from = old["Hello"].from
    BY <1>2, <2>1, <2>2
  <2> QED
    BY <1>2, <1>6, <2>2, <2>3 DEF PeerMessageKept
<1> QED
  BY <1>4, <1>5, <1>6

(* The ends of a key. *)
LEMMA KeyEnds ==
    \A i, g, r, h : Key(i, g, r, h).ini = i /\ Key(i, g, r, h).rsp = r
BY DEF Key

(* The keys that a Confirm1 is checked with are those of the peer. *)
LEMMA ConfirmKeyEnds ==
    ASSUME TypeInv, NEW p \in Endpoints, OnePeer(p),
           stateMachine[p] \in {"sendingCommit", "sendingDHPart2"},
           KeysForConfirm(p) # None
    PROVE  {KeysForConfirm(p).ini, KeysForConfirm(p).rsp} = {p, peerPackets[p]["Hello"].from}
<1>1. CASE Mode = "Mult" /\ stateMachine[p] = "sendingCommit"
  BY <1>1, KeyEnds DEF KeysForConfirm
<1>2. CASE ~(Mode = "Mult" /\ stateMachine[p] = "sendingCommit")
  BY <1>2 DEF KeysForConfirm, OnePeer
<1> QED
  BY <1>1, <1>2

(* What is accepted after the Hello, and stored, comes from its sender. *)
LEMMA AcceptedFromPeer ==
    ASSUME TypeInv, NEW p \in Endpoints, OnePeer(p), NEW k \in Packets, Accepts(p, k),
           stateMachine[p] \notin RepetitionStates(k.msg.type)
    PROVE  /\ k.msg.type = "Hello" => ParsesHello(p, k.msg)
           /\ k.msg.type \in {"Commit", "DHPart1", "DHPart2", "Confirm1", "Confirm2"}
                => k.msg.from = peerPackets[p]["Hello"].from
           /\ k.msg.type \in {"Confirm1", "Confirm2"} => KeysForConfirm(p) # None
<1>1. Parses(p, k.msg)
  BY DEF Accepts
<1>2. k.msg.type = "Hello" => ParsesHello(p, k.msg)
  BY <1>1 DEF Parses
<1>3. k.msg.type = "Commit" => ParsesCommit(p, k.msg)
  BY <1>1 DEF Parses
<1>4. k.msg.type \in {"DHPart1", "DHPart2"} => ParsesDHPart(p, k.msg)
  BY <1>1 DEF Parses
<1>5. k.msg.type \in {"Confirm1", "Confirm2"} => ParsesConfirm(p, k.msg)
  BY <1>1 DEF Parses
<1>6. ParsesDHPart(p, k.msg) => k.msg.from = peerPackets[p]["Hello"].from
  BY DEF ParsesDHPart, OnePeer, Slots
<1> QED
  BY <1>2, <1>3, <1>4, <1>5, <1>6 DEF ParsesCommit, ParsesConfirm

(* Every handler is of one kind. *)
LEMMA HandlersOnePeer ==
    ASSUME PeerInv, NEW p \in Endpoints, NEW k \in Packets, NEW rest,
           Accepts(p, k), Handle(p, k, rest)
    PROVE  /\ PeerQuiet(p) \/ PeerHelloKept(p, k.msg) \/ PeerMessageKept(p, k.msg)
           /\ \A q \in Endpoints \ {p} :
                /\ stateMachine'[q] = stateMachine[q] /\ mackeys'[q] = mackeys[q]
                /\ peerPackets'[q] = peerPackets[q]
<1> PICK m : m = k.msg
  OBVIOUS
<1> DEFINE Here == PeerQuiet(p) \/ PeerHelloKept(p, m) \/ PeerMessageKept(p, m)
           There == \A q \in Endpoints \ {p} :
                      /\ stateMachine'[q] = stateMachine[q] /\ mackeys'[q] = mackeys[q]
                      /\ peerPackets'[q] = peerPackets[q]
<1> SUFFICES Here /\ There
  OBVIOUS
<1>1. /\ TypeInv /\ TypeOK /\ OnePeer(p) /\ KeysDerived
      /\ stateMachine \in [Endpoints -> States] /\ mackeys \in [Endpoints -> Keys \cup {None}]
      /\ peerPackets \in [Endpoints -> [Slots -> Messages \cup {None}]]
  BY DEF PeerInv, TypeInv, TypeOK
<1>2. m.type \in ExpectedTypes(stateMachine[p])
  BY DEF Accepts
<1>3. stateMachine[p] \notin RepetitionStates(m.type) =>
        /\ m.type = "Hello" => ParsesHello(p, m)
        /\ m.type \in {"Commit", "DHPart1", "DHPart2", "Confirm1", "Confirm2"}
             => m.from = peerPackets[p]["Hello"].from
        /\ m.type \in {"Confirm1", "Confirm2"} => KeysForConfirm(p) # None
  BY <1>1, AcceptedFromPeer
<1> HIDE DEF There, Here
<1>4. ASSUME UNCHANGED <<stateMachine, peerPackets, mackeys>> PROVE Here /\ There
  BY <1>4 DEF Here, There, PeerQuiet
<1>5. ASSUME NEW s \in States, GoTo(p, s), UNCHANGED <<peerPackets, mackeys>>,
             s \in Early => stateMachine[p] \in Early
      PROVE  Here /\ There
  BY <1>1, <1>5 DEF Here, There, PeerQuiet, GoTo
<1>6. ASSUME NEW s \in States \ Early, GoTo(p, s), Store(p, m), m.type = "Hello",
             stateMachine[p] \in {"init", "waitingForHello"}, UNCHANGED mackeys
      PROVE  Here /\ There
  <2>1. SlotOf(m.type) = "Hello" /\ stateMachine[p] \notin RepetitionStates(m.type)
    BY <1>6 DEF SlotOf, RepetitionStates
  <2>2. PeerHelloKept(p, m)
    BY <1>1, <1>3, <1>6, <2>1 DEF PeerHelloKept, GoTo, Store, Early, Slots
  <2>3. There
    BY <1>1, <1>6, <2>1 DEF There, GoTo, Store
  <2> QED
    BY <2>2, <2>3 DEF Here
<1>7. ASSUME NEW s \in States \ Early, GoTo(p, s), Store(p, m), m.type # "Hello",
             stateMachine[p] \notin Early, m.from = peerPackets[p]["Hello"].from,
             NEW key, mackeys' = [mackeys EXCEPT ![p] = key],
             key = mackeys[p] \/ {key.ini, key.rsp} = {p, peerPackets[p]["Hello"].from}
      PROVE  Here /\ There
  <2>1. SlotOf(m.type) \in Slots \ {"Hello"}
    BY <1>7 DEF SlotOf, Slots
  <2>2. /\ peerPackets'[p] = [peerPackets[p] EXCEPT ![SlotOf(m.type)] = m]
        /\ \A q \in Endpoints \ {p} : peerPackets'[q] = peerPackets[q]
    BY <1>1, <1>7 DEF Store
  <2>3. mackeys'[p] = key /\ \A q \in Endpoints \ {p} : mackeys'[q] = mackeys[q]
    BY <1>1, <1>7
  <2>4. stateMachine'[p] = s /\ \A q \in Endpoints \ {p} : stateMachine'[q] = stateMachine[q]
    BY <1>1, <1>7 DEF GoTo
  <2>5. PeerMessageKept(p, m)
    BY <1>7, <2>1, <2>2, <2>3, <2>4 DEF PeerMessageKept
  <2>6. There
    BY <2>2, <2>3, <2>4 DEF There
  <2> QED
    BY <2>5, <2>6 DEF Here
<1>8. mackeys = [mackeys EXCEPT ![p] = mackeys[p]]
  BY <1>1
<1>9. CASE InitHello(p, k, rest)
  BY <1>6, <1>9 DEF InitHello, keyVars, States, Early
<1>10. CASE InitHelloACK(p, k, rest)
  BY <1>5, <1>10 DEF InitHelloACK, keyVars, States, Early
<1>11. CASE WaitingForHelloHello(p, k, rest)
  <2>1. m.type = "Hello"
    BY <1>2, <1>11 DEF WaitingForHelloHello, ExpectedTypes
  <2> QED
    BY <1>6, <1>11, <2>1 DEF WaitingForHelloHello, keyVars, States, Early
<1>12. CASE \/ RepeatedHello(p, k, rest) \/ KeepInitiating(p, k, rest)
            \/ RepeatedCommit(p, k, rest) \/ RepeatedAnswer(p, k, rest)
            \/ RepeatedRequest(p, k, rest) \/ RepeatedConfirm2(p, k, rest)
  BY <1>4, <1>12 DEF RepeatedHello, KeepInitiating, RepeatedCommit, RepeatedAnswer,
     RepeatedRequest, RepeatedConfirm2, keyVars
<1>13. CASE WaitingForHelloAckHelloACK(p, k, rest)
  BY <1>5, <1>13 DEF WaitingForHelloAckHelloACK, keyVars, States, Early
<1>14. CASE TurnIntoResponder(p, k, rest)
  <2>1. /\ m.type = "Commit" /\ stateMachine[p] \in {"waitingForHelloAck", "sendingCommit"}
        /\ Store(p, m)
    BY <1>14 DEF TurnIntoResponder
  <2>2. m.from = peerPackets[p]["Hello"].from /\ stateMachine[p] \notin Early
    BY <1>3, <2>1 DEF RepetitionStates, Early
  <2>3. CASE Mode = "DHM"
    <3>1. GoTo(p, "sendingDHPart1") /\ UNCHANGED mackeys
      BY <1>14, <2>3 DEF TurnIntoResponder
    <3> QED
      BY <1>7, <1>8, <2>1, <2>2, <3>1 DEF States, Early
  <2>4. CASE Mode = "Mult"
    <3> PICK key : key = Key(m.from, m.gen, p, 0)
      OBVIOUS
    <3>1. GoTo(p, "sendingConfirm1") /\ mackeys' = [mackeys EXCEPT ![p] = key]
      BY <1>14, <2>4 DEF TurnIntoResponder, DeriveKeys
    <3>2. {key.ini, key.rsp} = {p, peerPackets[p]["Hello"].from}
      BY <2>2, KeyEnds
    <3> QED
      BY <1>7, <2>1, <2>2, <3>1, <3>2 DEF States, Early
  <2> QED
    BY <2>3, <2>4, ModeAssumption
<1>15. CASE CommitDHPart1(p, k, rest)
  <2> PICK key : key = Key(p, gen[p], m.from, m.gen)
    OBVIOUS
  <2>1. /\ m.type = "DHPart1" /\ stateMachine[p] = "sendingCommit" /\ Store(p, m)
        /\ GoTo(p, "sendingDHPart2") /\ mackeys' = [mackeys EXCEPT ![p] = key]
    BY <1>15 DEF CommitDHPart1, DeriveKeys
  <2>2. m.from = peerPackets[p]["Hello"].from /\ stateMachine[p] \notin Early
    BY <1>3, <2>1 DEF RepetitionStates, Early
  <2>3. {key.ini, key.rsp} = {p, peerPackets[p]["Hello"].from}
    BY <2>2, KeyEnds
  <2> QED
    BY <1>7, <2>1, <2>2, <2>3 DEF States, Early
<1>16. CASE DHPart1DHPart2(p, k, rest)
  <2> PICK key : key = Key(m.from, m.gen, p, gen[p])
    OBVIOUS
  <2>1. /\ m.type = "DHPart2" /\ stateMachine[p] = "sendingDHPart1" /\ Store(p, m)
        /\ GoTo(p, "sendingConfirm1") /\ mackeys' = [mackeys EXCEPT ![p] = key]
    BY <1>16 DEF DHPart1DHPart2, DeriveKeys
  <2>2. m.from = peerPackets[p]["Hello"].from /\ stateMachine[p] \notin Early
    BY <1>3, <2>1 DEF RepetitionStates, Early
  <2>3. {key.ini, key.rsp} = {p, peerPackets[p]["Hello"].from}
    BY <2>2, KeyEnds
  <2> QED
    BY <1>7, <2>1, <2>2, <2>3 DEF States, Early
<1>17. CASE Confirm1(p, k, rest)
  <2> PICK key : key = KeysForConfirm(p)
    OBVIOUS
  <2>1. /\ m.type = "Confirm1" /\ stateMachine[p] \in {"sendingCommit", "sendingDHPart2"}
        /\ Store(p, m) /\ GoTo(p, "sendingConfirm2") /\ mackeys' = [mackeys EXCEPT ![p] = key]
    BY <1>17 DEF Confirm1, DeriveKeys
  <2>2. m.from = peerPackets[p]["Hello"].from /\ key # None /\ stateMachine[p] \notin Early
    BY <1>3, <2>1 DEF RepetitionStates, Early
  <2>3. {key.ini, key.rsp} = {p, peerPackets[p]["Hello"].from}
    BY <1>1, <2>1, <2>2, ConfirmKeyEnds
  <2> QED
    BY <1>7, <2>1, <2>2, <2>3 DEF States, Early
<1>18. CASE Confirm2(p, k, rest)
  <2>1. /\ m.type = "Confirm2" /\ stateMachine[p] = "sendingConfirm1"
        /\ Store(p, m) /\ GoTo(p, "secure") /\ UNCHANGED mackeys
    BY <1>18 DEF Confirm2, UpdateCachedSecrets
  <2>2. m.from = peerPackets[p]["Hello"].from /\ stateMachine[p] \notin Early
    BY <1>3, <2>1 DEF RepetitionStates, Early
  <2> QED
    BY <1>7, <1>8, <2>1, <2>2 DEF States, Early
<1>19. CASE Conf2ACKReceived(p, k, rest)
  BY <1>5, <1>19 DEF Conf2ACKReceived, UpdateCachedSecrets, States, Early
<1> QED
  BY <1>9, <1>10, <1>11, <1>12, <1>13, <1>14, <1>15, <1>16, <1>17, <1>18, <1>19 DEF Handle

(* A packet that is dropped leaves at most keys of the same peer behind. *)
LEMMA DropOnePeer ==
    ASSUME PeerInv, NEW p \in Endpoints, NEW k \in Packets, NEW rest, Drop(p, k, rest)
    PROVE  /\ PeerQuiet(p)
           /\ \A q \in Endpoints \ {p} :
                /\ stateMachine'[q] = stateMachine[q] /\ mackeys'[q] = mackeys[q]
                /\ peerPackets'[q] = peerPackets[q]
<1>1. /\ TypeInv /\ OnePeer(p) /\ mackeys \in [Endpoints -> Keys \cup {None}]
      /\ UNCHANGED <<stateMachine, peerPackets>>
  BY DEF PeerInv, TypeInv, TypeOK, Drop
<1>2. \A q \in Endpoints \ {p} : mackeys'[q] = mackeys[q]
  BY <1>1 DEF Drop
<1>3. CASE ~DerivesBeforeCheck(p, k)
  BY <1>1, <1>2, <1>3 DEF Drop, PeerQuiet
<1>4. CASE DerivesBeforeCheck(p, k)
  <2>1. stateMachine[p] = "sendingCommit" /\ Mode = "Mult"
    BY <1>4 DEF DerivesBeforeCheck
  <2>2. mackeys'[p] = KeysForConfirm(p)
    BY <1>1, <1>4 DEF Drop
  <2>3. KeysForConfirm(p) \in Keys
    BY <1>1, <2>1, KeysTyped
  <2>4. KeysForConfirm(p) # None
    BY <2>3, EndpointsAssumption
  <2>5. {KeysForConfirm(p).ini, KeysForConfirm(p).rsp} = {p, peerPackets[p]["Hello"].from}
    BY <1>1, <2>1, <2>4, ConfirmKeyEnds
  <2> QED
    BY <1>1, <1>2, <2>1, <2>2, <2>4, <2>5 DEF PeerQuiet, Early
<1> QED
  BY <1>3, <1>4

(* The inductive step, one case for each action. *)
LEMMA OnePeerNext == PeerInv /\ [Next]_vars => PeerInv'
<1> SUFFICES ASSUME PeerInv, [Next]_vars PROVE PeerInv'
  OBVIOUS
<1>1. /\ TypeInv /\ TypeInv' /\ TypeOK /\ HelloStored /\ \A p \in Endpoints : OnePeer(p)
      /\ stateMachine \in [Endpoints -> States] /\ mackeys \in [Endpoints -> Keys \cup {None}]
      /\ peerPackets \in [Endpoints -> [Slots -> Messages \cup {None}]]
      /\ peerHelloHash \in [Endpoints -> Endpoints \cup {None}]
  BY NextTyped DEF PeerInv, TypeInv, TypeOK
<1> SUFFICES \A p \in Endpoints : OnePeer(p)'
  BY <1>1 DEF PeerInv
<1>2. CASE UNCHANGED <<stateMachine, mackeys, peerPackets, peerHelloHash>>
  BY <1>1, <1>2 DEF OnePeer
<1>3. ASSUME NEW p \in Endpoints, StartChannelEngine(p) PROVE \A q \in Endpoints : OnePeer(q)'
  <2>1. /\ stateMachine[p] = "NULL" /\ stateMachine' = [stateMachine EXCEPT ![p] = "init"]
        /\ UNCHANGED <<mackeys, peerPackets, peerHelloHash>>
    BY <1>3 DEF StartChannelEngine, EnterDiscovery, keyVars
  <2>2. PeerUntouched(p)
    BY <1>1, <2>1 DEF PeerUntouched
  <2>3. OnePeer(p)'
    BY <1>1, <2>1 DEF OnePeer
  <2> QED
    BY <1>1, <2>2, <2>3, OnePeerFrame
<1>4. ASSUME NEW p \in Endpoints,
             Retransmit(p) \/ IdleTimer(p) \/ ResetRetransmissionTimer(p)
               \/ \E k \in net[p] : Lose(p, k)
      PROVE  UNCHANGED <<stateMachine, mackeys, peerPackets, peerHelloHash>>
  BY <1>4 DEF Retransmit, IdleTimer, ResetRetransmissionTimer, Lose, keyVars
<1>5. ASSUME NEW p \in Endpoints, SetPeerHelloHash(p) PROVE \A q \in Endpoints : OnePeer(q)'
  <2>1. /\ ~HelloHashMismatch(p) /\ peerHelloHash' = [peerHelloHash EXCEPT ![p] = Other(p)]
        /\ UNCHANGED <<stateMachine, mackeys, peerPackets>>
    BY <1>5 DEF SetPeerHelloHash, keyVars
  <2>2. PeerUntouched(p) /\ peerHelloHash'[p] = Other(p)
    BY <1>1, <2>1 DEF PeerUntouched
  <2>3. OnePeer(p)'
    BY <1>1, <2>1, <2>2 DEF OnePeer, HelloHashMismatch
  <2> QED
    BY <1>1, <2>2, <2>3, OnePeerFrame
<1>6. ASSUME NEW p \in Endpoints, RestartOnHelloHashMismatch(p)
      PROVE  \A q \in Endpoints : OnePeer(q)'
  <2>1. /\ stateMachine' = [stateMachine EXCEPT ![p] = "init"]
        /\ mackeys' = [mackeys EXCEPT ![p] = None]
        /\ peerPackets' = [peerPackets EXCEPT ![p] = NoPackets]
        /\ peerHelloHash' = [peerHelloHash EXCEPT ![p] = Other(p)]
    BY <1>6 DEF RestartOnHelloHashMismatch, EnterDiscovery
  <2>2. PeerUntouched(p)
    BY <1>1, <2>1 DEF PeerUntouched
  <2>3. /\ mackeys'[p] = None /\ \A slot \in Slots : peerPackets'[p][slot] = None
        /\ peerHelloHash'[p] = Other(p) /\ "Hello" \in Slots
    BY <1>1, <2>1 DEF NoPackets, Slots
  <2>4. OnePeer(p)'
    BY <2>3 DEF OnePeer
  <2> QED
    BY <1>1, <2>2, <2>4, OnePeerFrame
<1>7. ASSUME NEW p \in Endpoints, NEW k \in net[p], Deliver(p, k) \/ Duplicate(p, k)
      PROVE  \A q \in Endpoints : OnePeer(q)'
  <2>1. k \in Packets /\ k.msg \in Messages
    BY <1>1 DEF TypeOK, Packets
  <2> PICK rest : ProcessMessage(p, k, rest)
    BY <1>7 DEF Deliver, Duplicate
  <2>2. UNCHANGED peerHelloHash
    BY DEF ProcessMessage
  <2>3. /\ PeerQuiet(p) \/ PeerHelloKept(p, k.msg) \/ PeerMessageKept(p, k.msg)
        /\ \A q \in Endpoints \ {p} :
             /\ stateMachine'[q] = stateMachine[q] /\ mackeys'[q] = mackeys[q]
             /\ peerPackets'[q] = peerPackets[q]
    BY <2>1, HandlersOnePeer, DropOnePeer DEF ProcessMessage
  <2>4. PeerUntouched(p)
    BY <2>2, <2>3 DEF PeerUntouched
  <2>5. OnePeer(p)'
    BY <1>1, <2>1, <2>2, <2>3, KindsKeepOnePeer
  <2> QED
    BY <1>1, <2>4, <2>5, OnePeerFrame
<1>8. CASE UNCHANGED vars
  BY <1>2, <1>8 DEF vars, keyVars
<1> QED
  BY <1>2, <1>3, <1>4, <1>5, <1>6, <1>7, <1>8 DEF Next, Receive

(* bzrtp_setPeerHelloHash, whoever's packets were handled before it and    *)
(* whoever's arrive after it: from then on a channel keeps messages and    *)
(* keys of the signalled peer only.                                        *)
THEOREM SignalledPeerOnly == Spec => []OnlySignalledPeer
<1>1. Init => PeerInv
  <2> SUFFICES ASSUME Init PROVE \A p \in Endpoints : OnePeer(p)
    BY InitTyped DEF PeerInv
  <2> QED
    BY DEF Init, OnePeer, NoPackets, Slots
<1>2. ASSUME PeerInv PROVE OnlySignalledPeer
  <2> SUFFICES ASSUME NEW p \in Endpoints, peerHelloHash[p] # None
               PROVE  /\ \A slot \in Slots : peerPackets[p][slot] # None
                            => peerPackets[p][slot].from = peerHelloHash[p]
                      /\ mackeys[p] # None => {mackeys[p].ini, mackeys[p].rsp} = Endpoints
    BY DEF OnlySignalledPeer
  <2>1. OnePeer(p) /\ {p, Other(p)} = Endpoints
    BY <1>2 DEF PeerInv, Endpoints, Other
  <2> QED
    BY <2>1 DEF OnePeer
<1>3. QED
  BY <1>1, <1>2, OnePeerNext, PTL DEF Spec
=============================================================================
