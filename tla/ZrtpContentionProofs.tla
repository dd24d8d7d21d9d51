----------------------- MODULE ZrtpContentionProofs ------------------------
(***************************************************************************)
(* Commit contention: each endpoint settles its role alone, from the       *)
(* Commits it sent and received, and the two roles come out complementary. *)
(* No stall: every message in flight or stored is what its sender would    *)
(* build now, and each request of the endpoint that leads is on its way,   *)
(* is being answered, or has cost a fault; so the retransmissions outlast  *)
(* the faults.                                                             *)
(***************************************************************************)
EXTENDS ZrtpAgreementProofs, FiniteSetTheorems

DiscoveryStates == {"NULL", "init", "waitingForHello", "waitingForHelloAck"}

(* One key pair or nonce is drawn, before the first Commit. *)
GenOfState ==
    \A p \in Endpoints :
        /\ gen[p] \in 0..1
        /\ stateMachine[p] \in {"NULL", "init", "waitingForHello"} => gen[p] = 0
        /\ stateMachine[p] = "waitingForHelloAck" => gen[p] = IF Mode = "DHM" THEN 1 ELSE 0
        /\ stateMachine[p] = "sendingCommit" => gen[p] = 1

(* What a Commit of p, on its way or stored by the peer, says of p: the    *)
(* hvi in it is still p's, and if p became the responder nevertheless then *)
(* it is the lower one.                                                    *)
CommitBy(p, m) ==
    /\ m.gen = gen[p]
    /\ stateMachine[p] \notin DiscoveryStates
    /\ role[p] = "RESPONDER" => Hvi(p, gen[p]) < Hvi(Other(p), gen[Other(p)])

CommitsSent ==
    \A p \in Endpoints : \A k \in net[Other(p)] :
        k.msg.type = "Commit" => CommitBy(p, k.msg)
CommitsStored ==
    \A p \in Endpoints :
        peerPackets[Other(p)]["Commit"] # None => CommitBy(p, peerPackets[Other(p)]["Commit"])

DHPart1sSent ==
    \A p \in Endpoints : \A k \in net[Other(p)] :
        k.msg.type = "DHPart1" => role[p] = "RESPONDER"

RespondersHaveCommit ==
    \A p \in Endpoints : role[p] = "RESPONDER" => peerPackets[p]["Commit"] # None

OneResponder ==
    \A p \in Endpoints : role[p] = "RESPONDER" => role[Other(p)] = "INITIATOR"

InitiatorsHaveResponder ==
    \A p \in Endpoints : stateMachine[p] \in InitiatingStates => role[Other(p)] = "RESPONDER"

ContentionInv ==
    /\ AloneInv
    /\ GenOfState
    /\ CommitsSent
    /\ CommitsStored
    /\ DHPart1sSent
    /\ RespondersHaveCommit
    /\ OneResponder
    /\ InitiatorsHaveResponder

-----------------------------------------------------------------------------
(* What a step of p does, seen from the contention.                        *)

(* A message p may send in this step. *)
Announced(p, m) ==
    /\ m.type = "Commit" =>
          /\ m.gen = gen'[p]
          /\ stateMachine'[p] \notin DiscoveryStates
          /\ role'[p] = "INITIATOR"
    /\ m.type = "DHPart1" => role'[p] = "RESPONDER"

Announces(p) ==
    /\ net'[p] \subseteq net[p]
    /\ \A k \in net'[Other(p)] : k \in net[Other(p)] \/ Announced(p, k.msg)

PeerFrame(p) ==
    /\ stateMachine'[Other(p)] = stateMachine[Other(p)]
    /\ role'[Other(p)] = role[Other(p)]
    /\ gen'[Other(p)] = gen[Other(p)]
    /\ peerPackets'[Other(p)] = peerPackets[Other(p)]

(* p keeps its role, and after the discovery its hvi. *)
KeepsRole(p) ==
    /\ role'[p] = role[p]
    /\ peerPackets'[p]["Commit"] = peerPackets[p]["Commit"]
    /\ stateMachine[p] \notin DiscoveryStates =>
          gen'[p] = gen[p] /\ stateMachine'[p] \notin DiscoveryStates
    /\ gen'[p] \in 0..1
    /\ stateMachine'[p] \in {"NULL", "init", "waitingForHello"} => gen'[p] = 0
    /\ stateMachine'[p] = "waitingForHelloAck" => gen'[p] = IF Mode = "DHM" THEN 1 ELSE 0
    /\ stateMachine'[p] = "sendingCommit" => gen'[p] = 1
    /\ stateMachine'[p] \in InitiatingStates =>
          stateMachine[p] \in InitiatingStates \/ role[Other(p)] = "RESPONDER"

(* p becomes the responder, on a Commit of its peer. *)
Turns(p) ==
    /\ stateMachine[p] \in {"waitingForHelloAck", "sendingCommit"}
    /\ stateMachine[p] = "sendingCommit" => Hvi(p, gen[p]) < Hvi(Other(p), gen[Other(p)])
    /\ stateMachine'[p] \in RespondingStates
    /\ role[p] = "INITIATOR"
    /\ role'[p] = "RESPONDER"
    /\ gen'[p] = gen[p]
    /\ peerPackets'[p]["Commit"] # None
    /\ CommitBy(Other(p), peerPackets'[p]["Commit"])

ContentionStep(p) == Announces(p) /\ PeerFrame(p) /\ (KeepsRole(p) \/ Turns(p))

-----------------------------------------------------------------------------
(* Messages other than Commit and DHPart1 have nothing to announce. *)
LEMMA OtherMessages ==
    ASSUME NEW p \in Endpoints
    PROVE  /\ Announced(p, Hello(p))
           /\ Announced(p, HelloACK(p))
           /\ Announced(p, Conf2ACK(p))
           /\ Announced(p, DHPart(p, "INITIATOR"))
           /\ \A r, key : Announced(p, Confirm(p, r, key))
  BY DEF Announced, Hello, HelloACK, Conf2ACK, DHPart, Confirm, Message

(* A step that sends nothing announces nothing new. *)
LEMMA SilentAnnounces ==
    ASSUME TypeOK, NEW p \in Endpoints, NEW rest \in SUBSET net[p], Silent(p, rest)
    PROVE  Announces(p)
  BY OtherFacts DEF TypeOK, Silent, Announces

(* bzrtp_sendPacket announces the message it sends. *)
LEMMA SendAnnounces ==
    ASSUME TypeOK, NEW p \in Endpoints, NEW rest \in SUBSET net[p],
           NEW m, Announced(p, m), SendPacket(p, rest, m)
    PROVE  Announces(p)
  BY OtherFacts DEF TypeOK, SendPacket, Announces

(* Two calls of it announce their two messages. *)
LEMMA SendTwoAnnounces ==
    ASSUME TypeOK, NEW p \in Endpoints, NEW rest \in SUBSET net[p],
           NEW m1, Announced(p, m1), NEW m2, Announced(p, m2),
           SendPackets(p, rest, m1, m2)
    PROVE  Announces(p)
  BY OtherFacts DEF TypeOK, SendPackets, Announces

(* Every handler keeps the role or turns p into the responder. *)
LEMMA HandlersContend ==
    ASSUME ContentionInv, NEW p \in Endpoints, NEW k \in net[p],
           NEW rest \in SUBSET net[p], Accepts(p, k), Handle(p, k, rest)
    PROVE  ContentionStep(p)
<1>1. /\ AloneInv /\ TypeOK /\ RoleOfState
      /\ GenOfState /\ CommitsSent /\ DHPart1sSent
  BY DEF ContentionInv, AloneInv, AgreementInv, PeerInv, TypeInv
<1>2. /\ k.msg \in Messages
      /\ k.msg # None
      /\ MessageBy(Other(p), k.msg)
  BY <1>1, PeerDelivered
<1>3. Other(p) \in Endpoints /\ Other(p) # p /\ k \in net[Other(Other(p))]
  BY OtherFacts
<1>4. /\ Announced(p, HelloACK(p))
      /\ Announced(p, Conf2ACK(p))
      /\ Announced(p, DHPart(p, "INITIATOR"))
      /\ \A r, key : Announced(p, Confirm(p, r, key))
  BY OtherMessages
<1>5. CASE InitHello(p, k, rest)
  <2>1. Announces(p)
    BY <1>1, <1>4, <1>5, SendAnnounces DEF InitHello
  <2>2. PeerFrame(p)
    BY <1>1, <1>3, <1>5 DEF InitHello, PeerFrame, TypeOK, GoTo, Store, SlotOf, Slots
  <2>3. KeepsRole(p)
    BY <1>1, <1>2, <1>3, <1>5 DEF InitHello, KeepsRole, TypeOK, GenOfState, DiscoveryStates,
       InitiatingStates, GoTo, Store, SlotOf, Slots, GenAfterHello
  <2>4. QED
    BY <2>1, <2>2, <2>3 DEF ContentionStep
<1>6. CASE InitHelloACK(p, k, rest)
  <2>1. Announces(p)
    BY <1>1, <1>4, <1>6, SilentAnnounces DEF InitHelloACK
  <2>2. PeerFrame(p)
    BY <1>1, <1>3, <1>6 DEF InitHelloACK, PeerFrame, TypeOK, GoTo
  <2>3. KeepsRole(p)
    BY <1>1, <1>2, <1>3, <1>6 DEF InitHelloACK, KeepsRole, TypeOK, GenOfState, DiscoveryStates,
       InitiatingStates, GoTo
  <2>4. QED
    BY <2>1, <2>2, <2>3 DEF ContentionStep
<1>7. CASE WaitingForHelloHello(p, k, rest)
  <2>1. k.msg.type = "Hello"
    BY <1>7 DEF WaitingForHelloHello, Accepts, ExpectedTypes
  <2>2. Announced(p, Commit(p, gen[p] + 1, k.msg.from))
    BY <1>1, <1>7 DEF WaitingForHelloHello, Announced, Commit, Message, GoTo, TypeOK,
       DiscoveryStates, RoleOfState, RespondingStates
  <2>3. Announces(p)
    BY <1>1, <1>4, <1>7, <2>1, <2>2, SendTwoAnnounces DEF WaitingForHelloHello
  <2>4. PeerFrame(p)
    BY <1>1, <1>3, <1>7 DEF WaitingForHelloHello, PeerFrame, TypeOK, GoTo, Store, SlotOf, Slots
  <2>5. KeepsRole(p)
    BY <1>1, <1>2, <1>3, <1>7, <2>1, <2>2 DEF WaitingForHelloHello, KeepsRole, TypeOK,
       GenOfState, DiscoveryStates,
       InitiatingStates, GoTo, Store, SlotOf, Slots
  <2>6. QED
    BY <2>3, <2>4, <2>5 DEF ContentionStep
<1>8. CASE RepeatedHello(p, k, rest)
  <2>1. Announces(p)
    BY <1>1, <1>4, <1>8, SendAnnounces DEF RepeatedHello
  <2>2. PeerFrame(p)
    BY <1>1, <1>3, <1>8 DEF RepeatedHello, PeerFrame, TypeOK
  <2>3. KeepsRole(p)
    BY <1>1, <1>2, <1>3, <1>8 DEF RepeatedHello, KeepsRole, TypeOK, GenOfState, DiscoveryStates,
       InitiatingStates
  <2>4. QED
    BY <2>1, <2>2, <2>3 DEF ContentionStep
<1>9. CASE WaitingForHelloAckHelloACK(p, k, rest)
  <2>1. Announced(p, Commit(p, GenAfterCommit(p), peerPackets[p]["Hello"].from))
    BY <1>1, <1>9 DEF WaitingForHelloAckHelloACK, Announced, Commit, Message, GoTo, TypeOK,
       DiscoveryStates, RoleOfState, RespondingStates
  <2>2. Announces(p)
    BY <1>1, <1>4, <1>9, <2>1, SendAnnounces DEF WaitingForHelloAckHelloACK
  <2>3. PeerFrame(p)
    BY <1>1, <1>3, <1>9 DEF WaitingForHelloAckHelloACK, PeerFrame, TypeOK, GoTo
  <2>4. KeepsRole(p)
    BY <1>1, <1>2, <1>3, <1>9, ModeAssumption
    DEF WaitingForHelloAckHelloACK, KeepsRole, TypeOK, GenOfState, DiscoveryStates,
        InitiatingStates, GoTo, GenAfterCommit
  <2>5. QED
    BY <2>2, <2>3, <2>4 DEF ContentionStep
<1>10. CASE TurnIntoResponder(p, k, rest)
  <2>1. CommitBy(Other(p), k.msg)
    BY <1>1, <1>3, <1>10 DEF TurnIntoResponder, CommitsSent
  <2>2. peerPackets'[p]["Commit"] = k.msg
    BY <1>1, <1>10 DEF TurnIntoResponder, Store, SlotOf, Slots, TypeOK
  <2>3. role[p] = "INITIATOR"
    BY <1>1, <1>10 DEF TurnIntoResponder, RoleOfState, RespondingStates
  <2>4. stateMachine[p] = "sendingCommit" => Hvi(p, gen[p]) < Hvi(Other(p), gen[Other(p)])
    BY <1>2, <1>10, <2>1, <2>3 DEF TurnIntoResponder, YieldsTo, CommitBy, MessageBy
  <2>5. /\ stateMachine[p] \in {"waitingForHelloAck", "sendingCommit"}
        /\ stateMachine'[p] \in RespondingStates
        /\ role'[p] = "RESPONDER"
        /\ gen'[p] = gen[p]
    BY <1>1, <1>10 DEF TurnIntoResponder, GoTo, RespondingStates, TypeOK
  <2>6. Turns(p)
    BY <1>2, <2>1, <2>2, <2>3, <2>4, <2>5 DEF Turns
  <2>7. Announced(p, DHPart(p, "RESPONDER"))
    BY <2>5 DEF Announced, DHPart, Message
  <2>8. Announces(p)
    BY <1>1, <1>4, <1>10, <2>7, SendAnnounces DEF TurnIntoResponder
  <2>9. PeerFrame(p)
    BY <1>1, <1>3, <1>10 DEF TurnIntoResponder, PeerFrame, TypeOK, GoTo, Store
  <2>10. QED
    BY <2>6, <2>8, <2>9 DEF ContentionStep
<1>11. CASE KeepInitiating(p, k, rest)
  <2>1. Announces(p)
    BY <1>1, <1>4, <1>11, SilentAnnounces DEF KeepInitiating
  <2>2. PeerFrame(p)
    BY <1>1, <1>3, <1>11 DEF KeepInitiating, PeerFrame, TypeOK
  <2>3. KeepsRole(p)
    BY <1>1, <1>2, <1>3, <1>11 DEF KeepInitiating, KeepsRole, TypeOK, GenOfState,
       DiscoveryStates,
       InitiatingStates
  <2>4. QED
    BY <2>1, <2>2, <2>3 DEF ContentionStep
<1>12. CASE CommitDHPart1(p, k, rest)
  <2>1. role[Other(p)] = "RESPONDER"
    BY <1>1, <1>3, <1>12 DEF CommitDHPart1, DHPart1sSent
  <2>2. Announces(p)
    BY <1>1, <1>4, <1>12, <2>1, SendAnnounces DEF CommitDHPart1
  <2>3. PeerFrame(p)
    BY <1>1, <1>3, <1>12 DEF CommitDHPart1, PeerFrame, TypeOK, GoTo, Store, SlotOf, Slots
  <2>4. KeepsRole(p)
    BY <1>1, <1>2, <1>3, <1>12, <2>1 DEF CommitDHPart1, KeepsRole, TypeOK, GenOfState,
       DiscoveryStates,
       InitiatingStates, GoTo, Store, SlotOf, Slots
  <2>5. QED
    BY <2>2, <2>3, <2>4 DEF ContentionStep
<1>13. CASE RepeatedCommit(p, k, rest)
  <2>1. Announced(p, DHPart(p, "RESPONDER"))
    BY <1>1, <1>13 DEF RepeatedCommit, Announced, DHPart, Message, RoleOfState, RespondingStates
  <2>2. Announces(p)
    BY <1>1, <1>4, <1>13, <2>1, SendAnnounces DEF RepeatedCommit
  <2>3. PeerFrame(p)
    BY <1>1, <1>3, <1>13 DEF RepeatedCommit, PeerFrame, TypeOK
  <2>4. KeepsRole(p)
    BY <1>1, <1>2, <1>3, <1>13, <2>1 DEF RepeatedCommit, KeepsRole, TypeOK, GenOfState,
       DiscoveryStates,
       InitiatingStates
  <2>5. QED
    BY <2>2, <2>3, <2>4 DEF ContentionStep
<1>14. CASE DHPart1DHPart2(p, k, rest)
  <2>1. Announces(p)
    BY <1>1, <1>4, <1>14, SendAnnounces DEF DHPart1DHPart2
  <2>2. PeerFrame(p)
    BY <1>1, <1>3, <1>14 DEF DHPart1DHPart2, PeerFrame, TypeOK, GoTo, Store, SlotOf, Slots
  <2>3. KeepsRole(p)
    BY <1>1, <1>2, <1>3, <1>14 DEF DHPart1DHPart2, KeepsRole, TypeOK, GenOfState,
       DiscoveryStates,
       InitiatingStates, GoTo, Store, SlotOf, Slots
  <2>4. QED
    BY <2>1, <2>2, <2>3 DEF ContentionStep
<1>15. CASE RepeatedAnswer(p, k, rest)
  <2>1. Announces(p)
    BY <1>1, <1>4, <1>15, SilentAnnounces DEF RepeatedAnswer
  <2>2. PeerFrame(p)
    BY <1>1, <1>3, <1>15 DEF RepeatedAnswer, PeerFrame, TypeOK
  <2>3. KeepsRole(p)
    BY <1>1, <1>2, <1>3, <1>15 DEF RepeatedAnswer, KeepsRole, TypeOK, GenOfState,
       DiscoveryStates,
       InitiatingStates
  <2>4. QED
    BY <2>1, <2>2, <2>3 DEF ContentionStep
<1>16. CASE Confirm1(p, k, rest)
  <2>1. role[Other(p)] = "RESPONDER"
    BY <1>2, <1>16 DEF Confirm1, MessageBy
  <2>2. Announces(p)
    BY <1>1, <1>3, <1>4, <1>16 DEF Confirm1, Announces, TypeOK
  <2>3. PeerFrame(p)
    BY <1>1, <1>3, <1>16 DEF Confirm1, PeerFrame, TypeOK, GoTo, Store, SlotOf, Slots
  <2>4. KeepsRole(p)
    BY <1>1, <1>2, <1>3, <1>16, <2>1 DEF Confirm1, KeepsRole, TypeOK, GenOfState,
       DiscoveryStates, InitiatingStates, GoTo, Store, SlotOf, Slots
  <2>5. QED
    BY <2>2, <2>3, <2>4 DEF ContentionStep
<1>17. CASE RepeatedRequest(p, k, rest)
  <2>1. Announces(p)
    BY <1>1, <1>4, <1>17, SendAnnounces DEF RepeatedRequest
  <2>2. PeerFrame(p)
    BY <1>1, <1>3, <1>17 DEF RepeatedRequest, PeerFrame, TypeOK
  <2>3. KeepsRole(p)
    BY <1>1, <1>2, <1>3, <1>17 DEF RepeatedRequest, KeepsRole, TypeOK, GenOfState,
       DiscoveryStates,
       InitiatingStates
  <2>4. QED
    BY <2>1, <2>2, <2>3 DEF ContentionStep
<1>18. CASE Confirm2(p, k, rest)
  <2>1. Announces(p)
    BY <1>1, <1>4, <1>18, SendAnnounces DEF Confirm2
  <2>2. PeerFrame(p)
    BY <1>1, <1>3, <1>18 DEF Confirm2, PeerFrame, TypeOK, GoTo, Store, SlotOf, Slots
  <2>3. KeepsRole(p)
    BY <1>1, <1>2, <1>3, <1>18 DEF Confirm2, KeepsRole, TypeOK, GenOfState, DiscoveryStates,
       InitiatingStates, GoTo, Store, SlotOf, Slots
  <2>4. QED
    BY <2>1, <2>2, <2>3 DEF ContentionStep
<1>19. CASE Conf2ACKReceived(p, k, rest)
  <2>1. Announces(p)
    BY <1>1, <1>4, <1>19, SilentAnnounces DEF Conf2ACKReceived
  <2>2. PeerFrame(p)
    BY <1>1, <1>3, <1>19 DEF Conf2ACKReceived, PeerFrame, TypeOK, GoTo
  <2>3. KeepsRole(p)
    BY <1>1, <1>2, <1>3, <1>19 DEF Conf2ACKReceived, KeepsRole, TypeOK, GenOfState,
       DiscoveryStates,
       InitiatingStates, GoTo
  <2>4. QED
    BY <2>1, <2>2, <2>3 DEF ContentionStep
<1>20. CASE RepeatedConfirm2(p, k, rest)
  <2>1. Announces(p)
    BY <1>1, <1>4, <1>20, SendAnnounces DEF RepeatedConfirm2
  <2>2. PeerFrame(p)
    BY <1>1, <1>3, <1>20 DEF RepeatedConfirm2, PeerFrame, TypeOK
  <2>3. KeepsRole(p)
    BY <1>1, <1>2, <1>3, <1>20 DEF RepeatedConfirm2, KeepsRole, TypeOK, GenOfState,
       DiscoveryStates,
       InitiatingStates
  <2>4. QED
    BY <2>1, <2>2, <2>3 DEF ContentionStep
<1>21. QED
  BY <1>5, <1>6, <1>7, <1>8, <1>9, <1>10, <1>11, <1>12, <1>13, <1>14, <1>15, <1>16, <1>17,
     <1>18, <1>19, <1>20 DEF Handle

(* Every step of the specification is of one of the kinds. *)
LEMMA NextContends ==
    ASSUME ContentionInv, Next
    PROVE  \E p \in Endpoints : ContentionStep(p)
<1>1. TypeOK /\ PeerHello /\ RoleOfState /\ GenOfState
  BY DEF ContentionInv, AloneInv, AgreementInv, PeerInv, TypeInv
<1>2. PICK p \in Endpoints :
         \/ StartChannelEngine(p)
         \/ Retransmit(p)
         \/ IdleTimer(p)
         \/ ResetRetransmissionTimer(p)
         \/ SetPeerHelloHash(p)
         \/ RestartOnHelloHashMismatch(p)
         \/ \E k \in net[p] : Deliver(p, k) \/ Duplicate(p, k) \/ Lose(p, k)
  BY DEF Next, Receive
<1>3. Other(p) \in Endpoints /\ Other(p) # p
  BY OtherFacts
<1>4. CASE StartChannelEngine(p)
  BY <1>1, <1>3, <1>4 DEF StartChannelEngine, EnterDiscovery, ContentionStep, Announces,
     PeerFrame,
     KeepsRole, TypeOK, GenOfState, DiscoveryStates, InitiatingStates
<1>5. CASE Retransmit(p)
  <2>1. Announced(p, Retransmitted(p))
    <3>1. CASE stateMachine[p] = "sendingCommit"
      <4>1. Announced(p, Commit(p, gen[p], peerPackets[p]["Hello"].from))
        BY <1>1, <1>5, <3>1 DEF Retransmit, Announced, Commit, Message, DiscoveryStates,
           RoleOfState, RespondingStates
      <4>2. QED
        BY <3>1, <4>1 DEF Retransmitted, HelloTimerStates
    <3>2. CASE stateMachine[p] # "sendingCommit"
      <4>1. /\ Announced(p, Hello(p))
            /\ Announced(p, DHPart(p, "INITIATOR"))
            /\ \A r, key : Announced(p, Confirm(p, r, key))
        BY OtherMessages
      <4>2. QED
        BY <1>5, <3>2, <4>1 DEF Retransmit, Retransmitted, HelloTimerStates,
           RetransmittingStates
    <3>3. QED
      BY <3>1, <3>2
  <2>2. Announces(p)
    BY <1>1, <1>5, <2>1, SendAnnounces DEF Retransmit
  <2>3. PeerFrame(p) /\ KeepsRole(p)
    BY <1>1, <1>5 DEF Retransmit, PeerFrame, KeepsRole, GenOfState
  <2>4. QED
    BY <2>2, <2>3 DEF ContentionStep
<1>6. CASE IdleTimer(p)
  BY <1>1, <1>6 DEF IdleTimer, ContentionStep, Announces, PeerFrame, KeepsRole, GenOfState
<1>7. CASE ResetRetransmissionTimer(p)
  BY <1>1, <1>7 DEF ResetRetransmissionTimer, ContentionStep, Announces, PeerFrame, KeepsRole,
     GenOfState
<1>8. CASE SetPeerHelloHash(p)
  BY <1>1, <1>8 DEF SetPeerHelloHash, ContentionStep, Announces, PeerFrame, KeepsRole,
     GenOfState
<1>9. CASE RestartOnHelloHashMismatch(p)
  BY <1>1, <1>9 DEF RestartOnHelloHashMismatch, HelloHashMismatch, PeerHello
<1>10. ASSUME NEW k \in net[p], Deliver(p, k) \/ Duplicate(p, k) PROVE ContentionStep(p)
  <2>1. ASSUME NEW rest \in SUBSET net[p], ProcessMessage(p, k, rest) PROVE ContentionStep(p)
    <3>1. CASE Accepts(p, k) /\ Handle(p, k, rest)
      BY <3>1, HandlersContend
    <3>2. CASE Drop(p, k, rest)
      <4>1. Announces(p)
        BY <1>1, <3>2, SilentAnnounces DEF Drop
      <4>2. PeerFrame(p) /\ KeepsRole(p)
        BY <1>1, <3>2 DEF Drop, PeerFrame, KeepsRole, GenOfState
      <4>3. QED
        BY <4>1, <4>2 DEF ContentionStep
    <3>3. QED
      BY <2>1, <3>1, <3>2 DEF ProcessMessage
  <2>2. QED
    BY <1>10, <2>1 DEF Deliver, Duplicate
<1>11. ASSUME NEW k \in net[p], Lose(p, k) PROVE ContentionStep(p)
  BY <1>1, <1>3, <1>11 DEF Lose, ContentionStep, Announces, PeerFrame, KeepsRole, GenOfState,
     TypeOK
<1>12. QED
  BY <1>2, <1>4, <1>5, <1>6, <1>7, <1>8, <1>9, <1>10, <1>11

-----------------------------------------------------------------------------
(* A step of each kind keeps the invariant. *)
LEMMA ContentionStepKeeps ==
    ASSUME ContentionInv, AloneInv', NEW p \in Endpoints, ContentionStep(p)
    PROVE  ContentionInv'
<1> DEFINE q == Other(p)
<1>1. /\ GenOfState /\ CommitsSent /\ CommitsStored /\ DHPart1sSent /\ RespondersHaveCommit
      /\ OneResponder /\ InitiatorsHaveResponder /\ RoleOfState /\ TypeOK
      /\ Announces(p) /\ PeerFrame(p)
  BY DEF ContentionInv, AloneInv, AgreementInv, PeerInv, TypeInv, ContentionStep
<1>2. q \in Endpoints /\ q # p /\ Other(q) = p /\ \A r \in Endpoints : r = p \/ r = q
  BY OtherFacts DEF Endpoints, Other
<1>3. /\ gen[p] \in 0..1 /\ gen[q] \in 0..1 /\ gen'[q] = gen[q]
      /\ \A g \in 0..1, h \in 0..1 : Hvi(p, g) \in Nat /\ Hvi(q, h) \in Nat
  BY <1>1, <1>2, HviAssumption DEF GenOfState, PeerFrame, Senders
<1>4. CASE KeepsRole(p)
  (* Commits of p stay p's, and so do those of q. *)
  <2>1. ASSUME NEW m, CommitBy(p, m)
        PROVE  /\ m.gen = gen'[p]
               /\ stateMachine'[p] \notin DiscoveryStates
               /\ role'[p] = "RESPONDER" => Hvi(p, gen'[p]) < Hvi(q, gen'[q])
    BY <1>3, <1>4, <2>1 DEF KeepsRole, CommitBy
  <2>2. ASSUME NEW m, CommitBy(q, m)
        PROVE  /\ m.gen = gen'[q]
               /\ stateMachine'[q] \notin DiscoveryStates
               /\ role'[q] = "RESPONDER" => Hvi(q, gen'[q]) < Hvi(p, gen'[p])
    <3>1. CASE role[q] = "RESPONDER"
      <4>1. stateMachine[p] \notin DiscoveryStates
        BY <1>1, <1>2, <3>1 DEF RespondersHaveCommit, CommitsStored, CommitBy
      <4>2. gen'[p] = gen[p]
        BY <1>4, <4>1 DEF KeepsRole
      <4>3. QED
        BY <1>1, <1>2, <2>2, <4>2 DEF PeerFrame, CommitBy
    <3>2. CASE role[q] # "RESPONDER"
      BY <1>1, <2>2, <3>2 DEF PeerFrame, CommitBy
    <3>3. QED
      BY <3>1, <3>2
  <2>3. CommitsSent'
    <3>1. ASSUME NEW k \in net'[p], k.msg.type = "Commit" PROVE CommitBy(q, k.msg)'
      <4>1. CommitBy(q, k.msg)
        BY <1>1, <1>2, <3>1 DEF Announces, CommitsSent
      <4>2. QED
        BY <1>2, <2>2, <4>1 DEF CommitBy
    <3>2. ASSUME NEW k \in net'[q], k.msg.type = "Commit" PROVE CommitBy(p, k.msg)'
      <4>1. CASE k \in net[q]
        BY <1>1, <2>1, <3>2, <4>1 DEF CommitsSent, CommitBy
      <4>2. CASE Announced(p, k.msg)
        BY <3>2, <4>2 DEF Announced, CommitBy
      <4>3. QED
        BY <1>1, <4>1, <4>2 DEF Announces
    <3>3. QED
      BY <1>2, <3>1, <3>2 DEF CommitsSent
  <2>4. CommitsStored'
    <3>1. peerPackets'[q]["Commit"] = peerPackets[q]["Commit"]
          /\ peerPackets'[p]["Commit"] = peerPackets[p]["Commit"]
      BY <1>1, <1>4 DEF PeerFrame, KeepsRole
    <3>2. peerPackets'[q]["Commit"] # None => CommitBy(p, peerPackets[q]["Commit"])
      BY <1>1, <3>1 DEF CommitsStored
    <3>3. peerPackets'[p]["Commit"] # None => CommitBy(q, peerPackets[p]["Commit"])
      BY <1>1, <1>2, <3>1 DEF CommitsStored
    <3>4. QED
      BY <1>2, <2>1, <2>2, <3>1, <3>2, <3>3 DEF CommitsStored, CommitBy
  <2>5. DHPart1sSent'
    BY <1>1, <1>2, <1>4 DEF DHPart1sSent, Announces, Announced, PeerFrame, KeepsRole
  <2>6. RespondersHaveCommit' /\ OneResponder' /\ InitiatorsHaveResponder' /\ GenOfState'
    BY <1>1, <1>2, <1>4 DEF RespondersHaveCommit, OneResponder, InitiatorsHaveResponder,
       GenOfState, PeerFrame, KeepsRole
  <2>7. QED
    BY <2>3, <2>4, <2>5, <2>6 DEF ContentionInv
<1>5. CASE Turns(p)
  <2>1. /\ role[p] = "INITIATOR" /\ role'[p] = "RESPONDER" /\ gen'[p] = gen[p]
        /\ CommitBy(q, peerPackets'[p]["Commit"])
    BY <1>5 DEF Turns
  (* Were q a responder too, it would hold a Commit of p, and each hvi     *)
  (* would be lower than the other.                                        *)
  <2>2. role[q] = "INITIATOR"
    <3> SUFFICES ASSUME role[q] = "RESPONDER" PROVE FALSE
      BY <1>1, <1>2 DEF TypeOK, Roles
    <3>1. CommitBy(p, peerPackets[q]["Commit"])
      BY <1>1, <1>2 DEF RespondersHaveCommit, CommitsStored
    <3>2. Hvi(p, gen[p]) < Hvi(q, gen[q])
      BY <1>5, <3>1 DEF Turns, CommitBy, DiscoveryStates
    <3>3. Hvi(q, gen[q]) < Hvi(p, gen[p])
      BY <1>2, <2>1 DEF CommitBy
    <3>4. QED
      BY <1>3, <3>2, <3>3
  <2>3. ASSUME NEW m, CommitBy(p, m)
        PROVE  /\ m.gen = gen'[p]
               /\ stateMachine'[p] \notin DiscoveryStates
               /\ Hvi(p, gen'[p]) < Hvi(q, gen'[q])
    BY <1>3, <1>5, <2>3 DEF Turns, CommitBy, DiscoveryStates, RespondingStates
  <2>4. ASSUME NEW m, CommitBy(q, m)
        PROVE  /\ m.gen = gen'[q]
               /\ stateMachine'[q] \notin DiscoveryStates
               /\ role'[q] # "RESPONDER"
    BY <1>1, <2>2, <2>4 DEF PeerFrame, CommitBy
  <2>5. CommitsSent'
    <3>1. ASSUME NEW k \in net'[p], k.msg.type = "Commit" PROVE CommitBy(q, k.msg)'
      <4>1. CommitBy(q, k.msg)
        BY <1>1, <1>2, <3>1 DEF Announces, CommitsSent
      <4>2. QED
        BY <1>2, <2>4, <4>1 DEF CommitBy
    <3>2. ASSUME NEW k \in net'[q], k.msg.type = "Commit" PROVE CommitBy(p, k.msg)'
      <4>1. k \in net[q]
        BY <1>1, <2>1, <3>2 DEF Announces, Announced
      <4>2. QED
        BY <1>1, <2>3, <3>2, <4>1 DEF CommitsSent, CommitBy
    <3>3. QED
      BY <1>2, <3>1, <3>2 DEF CommitsSent
  <2>6. CommitsStored'
    <3>1. peerPackets'[q]["Commit"] = peerPackets[q]["Commit"]
      BY <1>1 DEF PeerFrame
    <3>2. peerPackets'[q]["Commit"] # None => CommitBy(p, peerPackets'[q]["Commit"])
      BY <1>1, <3>1 DEF CommitsStored
    <3>3. QED
      BY <1>2, <2>1, <2>3, <2>4, <3>2 DEF CommitsStored, CommitBy
  <2>7. DHPart1sSent'
    BY <1>1, <1>2, <2>1 DEF DHPart1sSent, Announces, PeerFrame
  <2>8. RespondersHaveCommit' /\ OneResponder'
    BY <1>1, <1>2, <1>5, <2>2 DEF RespondersHaveCommit, OneResponder, PeerFrame, Turns
  <2>9. InitiatorsHaveResponder' /\ GenOfState'
    BY <1>1, <1>2, <1>5 DEF InitiatorsHaveResponder, GenOfState, PeerFrame, Turns,
       RespondingStates, InitiatingStates
  <2>10. QED
    BY <2>5, <2>6, <2>7, <2>8, <2>9 DEF ContentionInv
<1>6. QED
  BY <1>4, <1>5 DEF ContentionStep

(* Freshly created channels satisfy the invariant. *)
LEMMA ContentionInitial == ASSUME NoStrays PROVE Init => ContentionInv
<1> SUFFICES ASSUME Init PROVE ContentionInv
  OBVIOUS
<1>1. \A p \in Endpoints : net[p] = {} /\ Other(p) \in Endpoints
  BY OtherFacts DEF Init, NoStrays
<1>2. CommitsSent /\ DHPart1sSent
  BY <1>1 DEF CommitsSent, DHPart1sSent
<1>3. CommitsStored
  BY <1>1 DEF Init, NoPackets, Slots, CommitsStored
<1>4. GenOfState /\ RespondersHaveCommit /\ OneResponder /\ InitiatorsHaveResponder
  BY DEF Init, GenOfState, RespondersHaveCommit, OneResponder, InitiatorsHaveResponder,
     InitiatingStates
<1>5. QED
  BY <1>2, <1>3, <1>4, AloneInitial DEF ContentionInv

(* Every step keeps the invariant. *)
LEMMA ContentionKept == ContentionInv /\ [Next]_vars => ContentionInv'
<1> SUFFICES ASSUME ContentionInv, [Next]_vars PROVE ContentionInv'
  OBVIOUS
<1>1. AloneInv'
  BY AloneKept DEF ContentionInv
<1>2. CASE Next
  BY <1>1, <1>2, NextContends, ContentionStepKeeps
<1>3. CASE UNCHANGED vars
  BY <1>1, <1>3 DEF ContentionInv, GenOfState, CommitsSent, CommitsStored, CommitBy,
     DHPart1sSent,
     RespondersHaveCommit, OneResponder, InitiatorsHaveResponder, vars
<1>4. QED
  BY <1>2, <1>3

(* The invariant holds throughout. *)
LEMMA ContentionInvariant == ASSUME NoStrays PROVE Spec => []ContentionInv
  BY ContentionInitial, ContentionKept, PTL DEF Spec

(* bzrtp_turnIntoResponder and the contention test of                      *)
(* state_keyAgreement_sendingCommit: whatever Commits cross, are lost or   *)
(* are repeated, the two endpoints never both respond nor both initiate.   *)
THEOREM Complementary == ASSUME NoStrays PROVE Spec => []RolesComplementary
<1>1. ContentionInv => RolesComplementary
  BY OtherFacts DEF ContentionInv, AloneInv, AgreementInv, RoleOfState, OneResponder,
     InitiatorsHaveResponder, RolesComplementary, RespondingStates, InitiatingStates
<1>2. QED
  BY <1>1, ContentionInvariant, PTL

(* Only the endpoint with the lower hvi (nonce) leaves sendingCommit as    *)
(* the responder.                                                          *)
THEOREM LowerHviYields == ASSUME NoStrays PROVE Spec => LowestHviYields
<1> DEFINE Yields == \A p \in Endpoints :
              (/\ stateMachine[p] = "sendingCommit"
               /\ stateMachine'[p] \in RespondingStates)
                  => Hvi(p, gen[p]) < Hvi(Other(p), gen[Other(p)])
<1>1. ContentionInv /\ [Next]_vars => [Yields]_vars
  <2> SUFFICES ASSUME ContentionInv, Next, NEW p \in Endpoints,
                      stateMachine[p] = "sendingCommit",
                      stateMachine'[p] \in RespondingStates
               PROVE  Hvi(p, gen[p]) < Hvi(Other(p), gen[Other(p)])
    OBVIOUS
  <2>1. PICK r \in Endpoints : ContentionStep(r) 
    BY NextContends
  <2>2. r = p
    BY <2>1, OtherFacts DEF ContentionStep, PeerFrame, RespondingStates, Endpoints, Other
  <2>3. role'[p] = "RESPONDER" /\ role[p] = "INITIATOR"
    BY AloneKept DEF ContentionInv, AloneInv, AgreementInv, RoleOfState, RespondingStates
  <2>4. QED
    BY <2>1, <2>2, <2>3 DEF ContentionStep, KeepsRole, Turns
<1>2. QED
  BY <1>1, ContentionInvariant, PTL DEF Spec, LowestHviYields

-----------------------------------------------------------------------------
(* What is in flight or stored was built by its sender as it is now.       *)

EarlyStates == {"NULL", "init", "waitingForHello"}

(* The message of each type that p would build now. *)
MessageOf(p, type) ==
    CASE type = "Hello" -> Hello(p)
      [] type = "HelloACK" -> HelloACK(p)
      [] type = "Commit" -> Commit(p, gen[p], Other(p))
      [] type = "DHPart1" -> DHPart(p, "RESPONDER")
      [] type = "DHPart2" -> DHPart(p, "INITIATOR")
      [] type = "Confirm1" -> Confirm(p, "RESPONDER", mackeys[p])
      [] type = "Confirm2" -> Confirm(p, "INITIATOR", mackeys[p])
      [] OTHER -> Conf2ACK(p)

(* The states of an endpoint that has sent a message of a type. *)
SenderStates(type) ==
    CASE type = "Hello" -> States \ {"NULL"}
      [] type = "HelloACK" -> States \ EarlyStates
      [] type = "Commit" -> States \ DiscoveryStates
      [] type = "DHPart1" -> {"sendingDHPart1", "sendingConfirm1", "secure"}
      [] type = "DHPart2" -> {"sendingDHPart2", "sendingConfirm2", "secure"}
      [] type = "Confirm1" -> {"sendingConfirm1", "secure"}
      [] type = "Confirm2" -> {"sendingConfirm2", "secure"}
      [] OTHER -> {"secure"}

Genuine(p, m) ==
    /\ m = MessageOf(p, m.type)
    /\ stateMachine[p] \in SenderStates(m.type)
    /\ m.type \in {"DHPart1", "Confirm1", "Conf2ACK"} => role[p] = "RESPONDER"
    /\ m.type \in {"DHPart2", "Confirm2"} => role[p] = "INITIATOR"
    /\ m.type \in {"DHPart1", "DHPart2"} => Mode = "DHM"

GenuineSent == \A p \in Endpoints : \A k \in net[Other(p)] : Genuine(p, k.msg)

GenuineStored ==
    \A p \in Endpoints, slot \in Slots :
        LET m == peerPackets[Other(p)][slot]
        IN  m # None => Genuine(p, m) /\ SlotOf(m.type) = slot

(* The messages a repetition is compared with. *)
RequestsKept ==
    \A p \in Endpoints :
        /\ stateMachine[p] = "sendingConfirm1" /\ Mode = "DHM" =>
              /\ peerPackets[p]["DHPart"] # None
              /\ peerPackets[p]["DHPart"].type = "DHPart2"
        /\ stateMachine[p] = "secure" /\ role[p] = "RESPONDER" =>
              /\ peerPackets[p]["Confirm"] # None
              /\ peerPackets[p]["Confirm"].type = "Confirm2"

(* The key that the messages of initiator i and responder r name. *)
SessionKey(i, r) == Key(i, gen[i], r, IF Mode = "DHM" THEN gen[r] ELSE 0)

KeysOfState ==
    \A p \in Endpoints :
        /\ stateMachine[p] \in {"sendingDHPart2", "sendingConfirm2"} =>
              mackeys[p] = SessionKey(p, Other(p))
        /\ stateMachine[p] = "sendingConfirm1" => mackeys[p] = SessionKey(Other(p), p)

(* How far the peer is, as the own state tells. *)
PeerState(p) ==
    LET s == stateMachine[p]
        t == stateMachine[Other(p)]
    IN  /\ s = "NULL" => net[Other(p)] = {} /\ t \in {"NULL", "init"}
        /\ s \in EarlyStates => t \in {"NULL", "init", "waitingForHelloAck"}
        /\ Mode = "Mult" => s \notin {"sendingDHPart1", "sendingDHPart2"}
        /\ s = "sendingDHPart1" => t \in {"sendingCommit", "sendingDHPart2"}
        /\ s = "sendingConfirm1" =>
              \/ t \in {"sendingDHPart2", "sendingConfirm2"}
              \/ t = "sendingCommit" /\ Mode = "Mult"
        /\ s = "sendingConfirm2" => t \in {"sendingConfirm1", "secure"}

PeerStates == \A p \in Endpoints : PeerState(p)

ProgressInv ==
    /\ ContentionInv
    /\ GenuineSent
    /\ GenuineStored
    /\ RequestsKept
    /\ KeysOfState
    /\ PeerStates

-----------------------------------------------------------------------------
(* The retransmissions of an endpoint and what they can still bring about. *)

(* Sequence numbers are used once and in order. *)
Numbering ==
    \A p \in Endpoints :
        /\ IsFiniteSet(net[p])
        /\ peerSeq[Other(p)] < selfSeq[p]
        /\ \A k, l \in net[Other(p)] : k.seq < selfSeq[p] /\ (k.seq = l.seq => k = l)

(* The timer runs until the last retransmission, or has just been reset. *)
TimerOf(p) ==
    stateMachine[p] \in RetransmittingStates =>
        LET max == MaxRetransmissions(stateMachine[p])
        IN  \/ timerStatus[p] = "ON" /\ firingCount[p] \in 0..max \cup {FiringCounts - 1}
            \/ timerStatus[p] = "OFF" /\ firingCount[p] = max + 1

TimerOfState == \A p \in Endpoints : TimerOf(p)

(* Packets that p has not had, nor any later one. *)
Fresh(p) == {k \in net[p] : k.seq > peerSeq[p]}

(* The answer that takes an endpoint out of a state. *)
AnswerType(s) ==
    CASE s = "waitingForHelloAck" -> "HelloACK"
      [] s = "sendingCommit" -> IF Mode = "DHM" THEN "DHPart1" ELSE "Confirm1"
      [] s = "sendingDHPart2" -> "Confirm1"
      [] s = "sendingConfirm2" -> "Conf2ACK"
      [] OTHER -> "none"

Requests(p) == {k \in Fresh(Other(p)) : k.msg = Retransmitted(p)}
Answers(p) == {k \in Fresh(p) : k.msg.type = AnswerType(stateMachine[p])}

(* How often p has sent its request, at least: a reset starts again, and   *)
(* the first Hello is sent by the timer.                                   *)
TimesSent(p) ==
    (IF firingCount[p] = FiringCounts - 1 THEN 0 ELSE firingCount[p])
    + (IF stateMachine[p] \in HelloTimerStates THEN 0 ELSE 1)

(* Each request that p has sent is on its way, its answer is, or a fault   *)
(* was spent on one of them.                                               *)
Covered(p) == faults + Cardinality(Requests(p)) + Cardinality(Answers(p))
Accounted(p) == TimesSent(p) <= Covered(p)

(* The endpoint whose retransmissions keep the handshake going. *)
Leads(p) ==
    LET s == stateMachine[p]
        t == stateMachine[Other(p)]
    IN  \/ s = "waitingForHelloAck" /\ t \in {"init", "waitingForHello", "waitingForHelloAck"}
        \/ s = "sendingCommit" /\ t \in {"waitingForHelloAck", "sendingDHPart1", "sendingConfirm1"}
        \/ /\ s = "sendingCommit" /\ t = "sendingCommit"
           /\ Hvi(Other(p), gen[Other(p)]) < Hvi(p, gen[p])
        \/ s \in {"sendingDHPart2", "sendingConfirm2"}

BothInit == \A p \in Endpoints : stateMachine[p] = "init"

LeaderAccounted ==
    /\ \A p \in Endpoints : Leads(p) => Accounted(p)
    /\ BothInit => \E p \in Endpoints : Accounted(p)

BudgetInv ==
    /\ PeerInv
    /\ ProgressInv
    /\ Numbering
    /\ TimerOfState
    /\ faults <= MaxFaults
    /\ LeaderAccounted

-----------------------------------------------------------------------------
(* The handlers as a table: state and message type, and the next state.    *)

ResponderState == IF Mode = "DHM" THEN "sendingDHPart1" ELSE "sendingConfirm1"

Table(s, type, t) ==
    \/ s = "init" /\ type = "Hello" /\ t = "waitingForHelloAck"
    \/ s = "init" /\ type = "HelloACK" /\ t = "waitingForHello"
    \/ s = "waitingForHello" /\ type = "Hello" /\ t = "sendingCommit"
    \/ s = "waitingForHelloAck" /\ type = "Hello" /\ t = "waitingForHelloAck"
    \/ s = "waitingForHelloAck" /\ type = "HelloACK" /\ t = "sendingCommit"
    \/ s \in {"waitingForHelloAck", "sendingCommit"} /\ type = "Commit" /\ t = ResponderState
    \/ s = "sendingCommit" /\ type = "Commit" /\ t = "sendingCommit"
    \/ s = "sendingCommit" /\ type = "DHPart1" /\ t = "sendingDHPart2"
    \/ s = "sendingDHPart1" /\ type = "Commit" /\ t = "sendingDHPart1"
    \/ s = "sendingDHPart1" /\ type = "DHPart2" /\ t = "sendingConfirm1"
    \/ s = "sendingDHPart2" /\ type = "DHPart1" /\ t = "sendingDHPart2"
    \/ s = "sendingConfirm2" /\ type = "Confirm1" /\ t = "sendingConfirm2"
    \/ s = "sendingCommit" /\ Mode = "Mult" /\ type = "Confirm1" /\ t = "sendingConfirm2"
    \/ s = "sendingDHPart2" /\ type = "Confirm1" /\ t = "sendingConfirm2"
    \/ s = "sendingConfirm1" /\ type \in {"Commit", "DHPart2"} /\ t = "sendingConfirm1"
    \/ s = "sendingConfirm1" /\ type = "Confirm2" /\ t = "secure"
    \/ s = "sendingConfirm2" /\ type = "Conf2ACK" /\ t = "secure"
    \/ s = "secure" /\ type = "Confirm2" /\ t = "secure"

(* The types of the messages sent on the way from s to t. *)
Replies(s, type, t) ==
    CASE t = "waitingForHelloAck" -> {"HelloACK"}
      [] t = "sendingCommit" /\ s = "waitingForHello" -> {"HelloACK", "Commit"}
      [] t = "sendingCommit" /\ s = "waitingForHelloAck" -> {"Commit"}
      [] t = "sendingDHPart1" -> {"DHPart1"}
      [] t = "sendingDHPart2" /\ s # t -> {"DHPart2"}
      [] t = "sendingConfirm1" -> {"Confirm1"}
      [] t = "sendingConfirm2" /\ s # t -> {"Confirm2"}
      [] t = "secure" /\ type = "Confirm2" -> {"Conf2ACK"}
      [] OTHER -> {}

GenAfter(p, s, t) ==
    CASE s = "init" /\ t = "waitingForHelloAck" -> GenAfterHello(p)
      [] s = "waitingForHello" /\ t = "sendingCommit" -> gen[p] + 1
      [] s = "waitingForHelloAck" /\ t = "sendingCommit" -> GenAfterCommit(p)
      [] OTHER -> gen[p]

KeysAfter(p, m, s, t) ==
    CASE s # t /\ t = "sendingDHPart2" -> Key(p, gen[p], m.from, m.gen)
      [] s # t /\ t = "sendingConfirm1" ->
            Key(m.from, m.gen, p, IF Mode = "DHM" THEN gen[p] ELSE 0)
      [] s # t /\ t = "sendingConfirm2" -> KeysForConfirm(p)
      [] OTHER -> mackeys[p]

(* p sends one packet for each type, under new sequence numbers. *)
Posts(p, rest, types) ==
    LET o == Other(p)
        new == net'[o] \ net[o]
    IN  /\ net'[p] = rest
        /\ net[o] \subseteq net'[o]
        /\ selfSeq' = [selfSeq EXCEPT ![p] = selfSeq'[p]]
        /\ selfSeq'[p] >= selfSeq[p]
        /\ IsFiniteSet(new)
        /\ \A n \in new :
              /\ n.seq >= selfSeq[p] /\ n.seq < selfSeq'[p]
              /\ \E type \in types : n.msg = MessageOf(p, type)'
              /\ \A l \in new : l.seq = n.seq => l = n
        /\ \A type \in types :
              \E n \in net'[o] : n.seq >= selfSeq[p] /\ n.msg = MessageOf(p, type)'

TimerAfter(p, s, t) ==
    /\ timerStatus' = [timerStatus EXCEPT ![p] =
          IF s = t THEN @ ELSE IF t \in RetransmittingStates THEN "ON" ELSE "OFF"]
    /\ firingCount' = [firingCount EXCEPT ![p] =
          IF s # t /\ t \in RetransmittingStates THEN 0 ELSE @]

(* Parts of finite sets are finite. *)
LEMMA FiniteWithin ==
    ASSUME NEW S, NEW T, IsFiniteSet(T), S \subseteq T
    PROVE  IsFiniteSet(S)
BY FS_Subset

(* A step that sends nothing posts nothing. *)
LEMMA SilentPosts ==
    ASSUME TypeOK, NEW p \in Endpoints, NEW rest, Silent(p, rest)
    PROVE  Posts(p, rest, {})
<1>1. Other(p) \in Endpoints /\ Other(p) # p
  BY OtherFacts
<1>2. net'[p] = rest /\ net'[Other(p)] = net[Other(p)] /\ selfSeq' = selfSeq
  BY <1>1 DEF Silent, TypeOK
<1>3. net'[Other(p)] \ net[Other(p)] = {} /\ selfSeq[p] \in Nat
  BY <1>2 DEF TypeOK
<1>4. IsFiniteSet(net'[Other(p)] \ net[Other(p)])
  BY <1>3, FS_EmptySet
<1> QED BY <1>2, <1>3, <1>4 DEF Posts, TypeOK

(* A packet sent posts its message. *)
LEMMA OnePosted ==
    ASSUME TypeOK, NEW p \in Endpoints, NEW rest, NEW type, NEW d \in {1, 2},
           net' = [net EXCEPT ![p] = rest, ![Other(p)] = @ \cup
                      {[seq |-> selfSeq[p], msg |-> MessageOf(p, type)']}],
           selfSeq' = [selfSeq EXCEPT ![p] = @ + d]
    PROVE  Posts(p, rest, {type})
<1> DEFINE o == Other(p)
           n == [seq |-> selfSeq[p], msg |-> MessageOf(p, type)']
<1>1. o \in Endpoints /\ o # p
  BY OtherFacts
<1>2. net'[p] = rest /\ net'[o] = net[o] \cup {n}
  BY <1>1 DEF TypeOK
<1>3. selfSeq[p] \in Nat /\ selfSeq'[p] = selfSeq[p] + d
      /\ selfSeq' = [selfSeq EXCEPT ![p] = selfSeq'[p]]
  BY DEF TypeOK
<1>4. n.seq = selfSeq[p] /\ n.msg = MessageOf(p, type)'
  OBVIOUS
<1> HIDE DEF n
<1>5. IsFiniteSet({n})
  BY FS_Singleton
<1>6. IsFiniteSet(net'[o] \ net[o])
  BY <1>2, <1>5, FiniteWithin
<1>7. \A l \in net'[o] \ net[o] : l = n
  BY <1>2
<1>8. n \in net'[o] /\ net[o] \subseteq net'[o]
  BY <1>2
<1>9. selfSeq'[p] >= selfSeq[p] /\ n.seq >= selfSeq[p] /\ n.seq < selfSeq'[p]
  BY <1>3, <1>4
<1> HIDE DEF o
<1>10. \A t \in {type} : \E l \in net'[o] : l.seq >= selfSeq[p] /\ l.msg = MessageOf(p, t)'
  BY <1>4, <1>8, <1>9
<1>11. \A l \in net'[o] \ net[o] :
         /\ l.seq >= selfSeq[p] /\ l.seq < selfSeq'[p]
         /\ \E t \in {type} : l.msg = MessageOf(p, t)'
         /\ \A l2 \in net'[o] \ net[o] : l2.seq = l.seq => l2 = l
  BY <1>4, <1>7, <1>9
<1> QED BY <1>2, <1>3, <1>6, <1>8, <1>9, <1>10, <1>11 DEF Posts, o

(* Two packets sent in a row post their two messages. *)
LEMMA TwoPosted ==
    ASSUME TypeOK, NEW p \in Endpoints, NEW rest, NEW type1, NEW type2,
           SendPackets(p, rest, MessageOf(p, type1)', MessageOf(p, type2)')
    PROVE  Posts(p, rest, {type1, type2})
<1> DEFINE o == Other(p)
           n1 == [seq |-> selfSeq[p], msg |-> MessageOf(p, type1)']
           n2 == [seq |-> selfSeq[p] + 1, msg |-> MessageOf(p, type2)']
<1>1. o \in Endpoints /\ o # p
  BY OtherFacts
<1>2. net'[p] = rest /\ net'[o] = net[o] \cup {n1, n2}
  BY <1>1 DEF TypeOK, SendPackets
<1>3. selfSeq[p] \in Nat /\ selfSeq'[p] = selfSeq[p] + 2
      /\ selfSeq' = [selfSeq EXCEPT ![p] = selfSeq'[p]]
  BY DEF TypeOK, SendPackets
<1>4. /\ n1.seq = selfSeq[p] /\ n1.msg = MessageOf(p, type1)'
      /\ n2.seq = selfSeq[p] + 1 /\ n2.msg = MessageOf(p, type2)'
  OBVIOUS
<1> HIDE DEF n1, n2
<1>5. IsFiniteSet({n1} \cup {n2})
  BY FS_Singleton, FS_AddElement
<1>6. IsFiniteSet(net'[o] \ net[o])
  BY <1>2, <1>5, FiniteWithin
<1> QED BY <1>2, <1>3, <1>4, <1>6 DEF Posts

(* Everything a transition does but sending. *)
Moves(p, k) ==
    LET s == stateMachine[p]
        t == stateMachine'[p]
    IN  /\ Table(s, k.msg.type, t)
        /\ s = "sendingCommit" /\ k.msg.type = "Commit" =>
              (t = "sendingCommit" <=> ~YieldsTo(p, k.msg))
        /\ stateMachine' = [stateMachine EXCEPT ![p] = t]
        /\ role' = [role EXCEPT ![p] = IF t \in RespondingStates THEN "RESPONDER" ELSE @]
        /\ gen' = [gen EXCEPT ![p] = GenAfter(p, s, t)]
        /\ peerPackets' = [peerPackets EXCEPT ![p] =
              IF s = t \/ k.msg.type \in {"HelloACK", "Conf2ACK"} THEN @
              ELSE [@ EXCEPT ![SlotOf(k.msg.type)] = k.msg]]
        /\ mackeys' = [mackeys EXCEPT ![p] = KeysAfter(p, k.msg, s, t)]
        /\ peerSeq' = [peerSeq EXCEPT ![p] =
              IF k.msg.type = "Conf2ACK" THEN @ ELSE k.seq]
        /\ TimerAfter(p, s, t)

Transition(p, k, rest) ==
    Moves(p, k) /\ Posts(p, rest, Replies(stateMachine[p], k.msg.type, stateMachine'[p]))

(* The messages p builds after a step. *)
LEMMA MessagesNext ==
    ASSUME NEW p \in Endpoints
    PROVE  /\ MessageOf(p, "Hello")' = Hello(p)
           /\ MessageOf(p, "HelloACK")' = HelloACK(p)
           /\ MessageOf(p, "Commit")' = Commit(p, gen'[p], Other(p))
           /\ gen'[p] = gen[p] => MessageOf(p, "DHPart1")' = DHPart(p, "RESPONDER")
           /\ gen'[p] = gen[p] => MessageOf(p, "DHPart2")' = DHPart(p, "INITIATOR")
           /\ MessageOf(p, "Confirm1")' = Confirm(p, "RESPONDER", mackeys'[p])
           /\ MessageOf(p, "Confirm2")' = Confirm(p, "INITIATOR", mackeys'[p])
           /\ MessageOf(p, "Conf2ACK")' = Conf2ACK(p)
  BY DEF MessageOf, DHPart

(* Every handler is a transition of the table. *)
LEMMA HandlersTransit ==
    ASSUME ContentionInv, PeerStates, NEW p \in Endpoints, NEW k \in net[p],
           NEW rest \in SUBSET net[p], Accepts(p, k), Handle(p, k, rest)
    PROVE  Transition(p, k, rest)
<1>1. TypeOK /\ HelloStored /\ RoleOfState /\ PeerHello
  BY DEF ContentionInv, AloneInv, AgreementInv, PeerInv, TypeInv
<1>2. k.msg.from = Other(p) /\ SlotOf(k.msg.type) \in Slots
  BY PeerDelivered, SlotTyped DEF ContentionInv
<1>3. /\ MessageOf(p, "HelloACK")' = HelloACK(p)
      /\ MessageOf(p, "Commit")' = Commit(p, gen'[p], Other(p))
      /\ gen'[p] = gen[p] => MessageOf(p, "DHPart1")' = DHPart(p, "RESPONDER")
      /\ gen'[p] = gen[p] => MessageOf(p, "DHPart2")' = DHPart(p, "INITIATOR")
      /\ MessageOf(p, "Confirm1")' = Confirm(p, "RESPONDER", mackeys'[p])
      /\ MessageOf(p, "Confirm2")' = Confirm(p, "INITIATOR", mackeys'[p])
      /\ MessageOf(p, "Conf2ACK")' = Conf2ACK(p)
  BY MessagesNext
<1>4. stateMachine[p] = "sendingDHPart1" => Mode = "DHM"
  BY ModeAssumption DEF PeerStates, PeerState
<1>5. CASE InitHello(p, k, rest)
  <2>1. Moves(p, k)
    BY <1>1, <1>2, <1>5, ModeAssumption DEF InitHello, Moves, Table, GenAfter, KeysAfter,
       TimerAfter, TypeOK, GoTo, Store, SetPeerSeq, ArmTimer, StopTimer, DeriveKeys,
       keyVars, timerVars, RoleOfState, RespondingStates, RetransmittingStates,
       HelloTimerStates, ResponderState, States
  <2>2. Replies(stateMachine[p], k.msg.type, stateMachine'[p]) = {"HelloACK"}
    BY <1>1, <1>5 DEF InitHello, Replies, GoTo, TypeOK
  <2>3. /\ net' = [net EXCEPT ![p] = rest, ![Other(p)] = @ \cup
                      {[seq |-> selfSeq[p], msg |-> MessageOf(p, "HelloACK")']}]
        /\ selfSeq' = [selfSeq EXCEPT ![p] = @ + 1]
    BY <1>3, <1>5 DEF InitHello, SendPacket
  <2>4. Posts(p, rest, {"HelloACK"})
    BY <1>1, <2>3, OnePosted
  <2>5. QED
    BY <2>1, <2>2, <2>4 DEF Transition
<1>6. CASE InitHelloACK(p, k, rest)
  <2>1. Moves(p, k)
    BY <1>1, <1>2, <1>6, ModeAssumption DEF InitHelloACK, Moves, Table, GenAfter,
       KeysAfter, TimerAfter, TypeOK, GoTo, Store, SetPeerSeq, ArmTimer, StopTimer,
       DeriveKeys, keyVars, timerVars, RoleOfState, RespondingStates, RetransmittingStates,
       HelloTimerStates, ResponderState, States
  <2>2. Replies(stateMachine[p], k.msg.type, stateMachine'[p]) = {}
    BY <1>1, <1>6 DEF InitHelloACK, Replies, GoTo, TypeOK
  <2>3. Posts(p, rest, {})
    BY <1>1, <1>6, SilentPosts DEF InitHelloACK
  <2>4. QED
    BY <2>1, <2>2, <2>3 DEF Transition
<1>7. CASE WaitingForHelloHello(p, k, rest)
  <2>1. Moves(p, k)
    BY <1>1, <1>2, <1>7, ModeAssumption DEF WaitingForHelloHello, Moves, Table, GenAfter,
       KeysAfter, TimerAfter, TypeOK, GoTo, Store, SetPeerSeq, ArmTimer, StopTimer,
       DeriveKeys, keyVars, timerVars, RoleOfState, RespondingStates, RetransmittingStates,
       HelloTimerStates, ResponderState, States, Accepts, ExpectedTypes
  <2>2. Replies(stateMachine[p], k.msg.type, stateMachine'[p]) = {"HelloACK", "Commit"}
    BY <1>1, <1>7 DEF WaitingForHelloHello, Replies, GoTo, TypeOK
  <2>3. gen'[p] = gen[p] + 1
    BY <1>1, <1>7 DEF WaitingForHelloHello, TypeOK
  <2>4. SendPackets(p, rest, MessageOf(p, "HelloACK")', MessageOf(p, "Commit")')
    BY <1>2, <1>3, <1>7, <2>3 DEF WaitingForHelloHello
  <2>5. Posts(p, rest, {"HelloACK", "Commit"})
    BY <1>1, <2>4, TwoPosted
  <2>6. QED
    BY <2>1, <2>2, <2>5 DEF Transition
<1>8. CASE RepeatedHello(p, k, rest)
  <2>1. Moves(p, k)
    BY <1>1, <1>2, <1>8, ModeAssumption DEF RepeatedHello, Moves, Table, GenAfter,
       KeysAfter, TimerAfter, TypeOK, GoTo, Store, SetPeerSeq, ArmTimer, StopTimer,
       DeriveKeys, keyVars, timerVars, RoleOfState, RespondingStates, RetransmittingStates,
       HelloTimerStates, ResponderState, States
  <2>2. Replies(stateMachine[p], k.msg.type, stateMachine'[p]) = {"HelloACK"}
    BY <1>1, <1>8 DEF RepeatedHello, Replies, GoTo, TypeOK
  <2>3. gen' = gen
    BY <1>8 DEF RepeatedHello
  <2>4. /\ net' = [net EXCEPT ![p] = rest, ![Other(p)] = @ \cup
                      {[seq |-> selfSeq[p], msg |-> MessageOf(p, "HelloACK")']}]
        /\ selfSeq' = [selfSeq EXCEPT ![p] = @ + 1]
    BY <1>3, <1>8, <2>3 DEF RepeatedHello, SendPacket
  <2>5. Posts(p, rest, {"HelloACK"})
    BY <1>1, <2>4, OnePosted
  <2>6. QED
    BY <2>1, <2>2, <2>5 DEF Transition
<1>9. CASE WaitingForHelloAckHelloACK(p, k, rest)
  <2>1. Moves(p, k)
    BY <1>1, <1>2, <1>9, ModeAssumption DEF WaitingForHelloAckHelloACK, Moves, Table,
       GenAfter, KeysAfter, TimerAfter, TypeOK, GoTo, Store, SetPeerSeq, ArmTimer,
       StopTimer, DeriveKeys, keyVars, timerVars, RoleOfState, RespondingStates,
       RetransmittingStates, HelloTimerStates, ResponderState, States
  <2>2. Replies(stateMachine[p], k.msg.type, stateMachine'[p]) = {"Commit"}
    BY <1>1, <1>9 DEF WaitingForHelloAckHelloACK, Replies, GoTo, TypeOK
  <2>3. gen'[p] = GenAfterCommit(p) /\ peerPackets[p]["Hello"].from = Other(p)
    BY <1>1, <1>9 DEF WaitingForHelloAckHelloACK, TypeOK, PeerHello, HelloStored, States
  <2>4. /\ net' = [net EXCEPT ![p] = rest, ![Other(p)] = @ \cup
                      {[seq |-> selfSeq[p], msg |-> MessageOf(p, "Commit")']}]
        /\ selfSeq' = [selfSeq EXCEPT ![p] = @ + 1]
    BY <1>3, <1>9, <2>3 DEF WaitingForHelloAckHelloACK, SendPacket
  <2>5. Posts(p, rest, {"Commit"})
    BY <1>1, <2>4, OnePosted
  <2>6. QED
    BY <2>1, <2>2, <2>5 DEF Transition
<1>10. CASE TurnIntoResponder(p, k, rest)
  <2>1. Moves(p, k)
    BY <1>1, <1>2, <1>10, ModeAssumption DEF TurnIntoResponder, Moves, Table, GenAfter,
       KeysAfter, TimerAfter, TypeOK, GoTo, Store, SetPeerSeq, ArmTimer, StopTimer,
       DeriveKeys, keyVars, timerVars, RoleOfState, RespondingStates, RetransmittingStates,
       HelloTimerStates, ResponderState, States
  <2>2. gen' = gen
    BY <1>10 DEF TurnIntoResponder
  <2>3. CASE Mode = "DHM"
    <3>1. Replies(stateMachine[p], k.msg.type, stateMachine'[p]) = {"DHPart1"}
      BY <1>1, <1>10, <2>3 DEF TurnIntoResponder, Replies, GoTo, TypeOK
    <3>2. /\ net' = [net EXCEPT ![p] = rest, ![Other(p)] = @ \cup
                        {[seq |-> selfSeq[p], msg |-> MessageOf(p, "DHPart1")']}]
          /\ selfSeq' = [selfSeq EXCEPT ![p] = @ + 1]
      BY <1>3, <1>10, <2>2, <2>3 DEF TurnIntoResponder, SendPacket
    <3>3. Posts(p, rest, {"DHPart1"})
      BY <1>1, <3>2, OnePosted
    <3>4. QED
      BY <2>1, <3>1, <3>3 DEF Transition
  <2>4. CASE Mode = "Mult"
    <3>1. Replies(stateMachine[p], k.msg.type, stateMachine'[p]) = {"Confirm1"}
      BY <1>1, <1>10, <2>4 DEF TurnIntoResponder, Replies, GoTo, TypeOK
    <3>2. mackeys'[p] = Key(k.msg.from, k.msg.gen, p, 0)
      BY <1>1, <1>10, <2>4 DEF TurnIntoResponder, DeriveKeys, TypeOK
    <3>3. /\ net' = [net EXCEPT ![p] = rest, ![Other(p)] = @ \cup
                        {[seq |-> selfSeq[p], msg |-> MessageOf(p, "Confirm1")']}]
          /\ selfSeq' = [selfSeq EXCEPT ![p] = @ + 1]
      BY <1>3, <1>10, <2>4, <3>2 DEF TurnIntoResponder, SendPacket
    <3>4. Posts(p, rest, {"Confirm1"})
      BY <1>1, <3>3, OnePosted
    <3>5. QED
      BY <2>1, <3>1, <3>4 DEF Transition
  <2>5. QED
    BY <2>3, <2>4, ModeAssumption
<1>11. CASE KeepInitiating(p, k, rest)
  <2>1. Moves(p, k)
    BY <1>1, <1>2, <1>11, ModeAssumption DEF KeepInitiating, Moves, Table, GenAfter,
       KeysAfter, TimerAfter, TypeOK, GoTo, Store, SetPeerSeq, ArmTimer, StopTimer,
       DeriveKeys, keyVars, timerVars, RoleOfState, RespondingStates, RetransmittingStates,
       HelloTimerStates, ResponderState, States
  <2>2. Replies(stateMachine[p], k.msg.type, stateMachine'[p]) = {}
    BY <1>1, <1>11 DEF KeepInitiating, Replies, GoTo, TypeOK
  <2>3. Posts(p, rest, {})
    BY <1>1, <1>11, SilentPosts DEF KeepInitiating
  <2>4. QED
    BY <2>1, <2>2, <2>3 DEF Transition
<1>12. CASE CommitDHPart1(p, k, rest)
  <2>1. Moves(p, k)
    BY <1>1, <1>2, <1>12, ModeAssumption DEF CommitDHPart1, Moves, Table, GenAfter,
       KeysAfter, TimerAfter, TypeOK, GoTo, Store, SetPeerSeq, ArmTimer, StopTimer,
       DeriveKeys, keyVars, timerVars, RoleOfState, RespondingStates, RetransmittingStates,
       HelloTimerStates, ResponderState, States
  <2>2. Replies(stateMachine[p], k.msg.type, stateMachine'[p]) = {"DHPart2"}
    BY <1>1, <1>12 DEF CommitDHPart1, Replies, GoTo, TypeOK
  <2>3. gen' = gen
    BY <1>12 DEF CommitDHPart1
  <2>4. /\ net' = [net EXCEPT ![p] = rest, ![Other(p)] = @ \cup
                      {[seq |-> selfSeq[p], msg |-> MessageOf(p, "DHPart2")']}]
        /\ selfSeq' = [selfSeq EXCEPT ![p] = @ + 1]
    BY <1>3, <1>12, <2>3 DEF CommitDHPart1, SendPacket
  <2>5. Posts(p, rest, {"DHPart2"})
    BY <1>1, <2>4, OnePosted
  <2>6. QED
    BY <2>1, <2>2, <2>5 DEF Transition
<1>13. CASE RepeatedCommit(p, k, rest)
  <2>1. Moves(p, k)
    BY <1>1, <1>2, <1>13, ModeAssumption DEF RepeatedCommit, Moves, Table, GenAfter,
       KeysAfter, TimerAfter, TypeOK, GoTo, Store, SetPeerSeq, ArmTimer, StopTimer,
       DeriveKeys, keyVars, timerVars, RoleOfState, RespondingStates, RetransmittingStates,
       HelloTimerStates, ResponderState, States
  <2>2. Replies(stateMachine[p], k.msg.type, stateMachine'[p]) = {"DHPart1"}
    BY <1>1, <1>13 DEF RepeatedCommit, Replies, GoTo, TypeOK
  <2>3. gen' = gen
    BY <1>13 DEF RepeatedCommit
  <2>4. /\ net' = [net EXCEPT ![p] = rest, ![Other(p)] = @ \cup
                      {[seq |-> selfSeq[p], msg |-> MessageOf(p, "DHPart1")']}]
        /\ selfSeq' = [selfSeq EXCEPT ![p] = @ + 1]
    BY <1>3, <1>13, <2>3 DEF RepeatedCommit, SendPacket
  <2>5. Posts(p, rest, {"DHPart1"})
    BY <1>1, <2>4, OnePosted
  <2>6. QED
    BY <2>1, <2>2, <2>5 DEF Transition
<1>14. CASE DHPart1DHPart2(p, k, rest)
  <2>1. Moves(p, k)
    BY <1>1, <1>2, <1>4, <1>14, ModeAssumption DEF DHPart1DHPart2, Moves, Table, GenAfter,
       KeysAfter, TimerAfter, TypeOK, GoTo, Store, SetPeerSeq, ArmTimer, StopTimer,
       DeriveKeys, keyVars, timerVars, RoleOfState, RespondingStates, RetransmittingStates,
       HelloTimerStates, ResponderState, States
  <2>2. Replies(stateMachine[p], k.msg.type, stateMachine'[p]) = {"Confirm1"}
    BY <1>1, <1>14 DEF DHPart1DHPart2, Replies, GoTo, TypeOK
  <2>3. mackeys'[p] = Key(k.msg.from, k.msg.gen, p, gen[p])
    BY <1>1, <1>14 DEF DHPart1DHPart2, DeriveKeys, TypeOK
  <2>4. /\ net' = [net EXCEPT ![p] = rest, ![Other(p)] = @ \cup
                      {[seq |-> selfSeq[p], msg |-> MessageOf(p, "Confirm1")']}]
        /\ selfSeq' = [selfSeq EXCEPT ![p] = @ + 1]
    BY <1>3, <1>14, <2>3 DEF DHPart1DHPart2, SendPacket
  <2>5. Posts(p, rest, {"Confirm1"})
    BY <1>1, <2>4, OnePosted
  <2>6. QED
    BY <2>1, <2>2, <2>5 DEF Transition
<1>15. CASE RepeatedAnswer(p, k, rest)
  <2>1. Moves(p, k)
    BY <1>1, <1>2, <1>15, ModeAssumption DEF RepeatedAnswer, Moves, Table, GenAfter,
       KeysAfter, TimerAfter, TypeOK, GoTo, Store, SetPeerSeq, ArmTimer, StopTimer,
       DeriveKeys, keyVars, timerVars, RoleOfState, RespondingStates, RetransmittingStates,
       HelloTimerStates, ResponderState, States
  <2>2. Replies(stateMachine[p], k.msg.type, stateMachine'[p]) = {}
    BY <1>1, <1>15 DEF RepeatedAnswer, Replies, GoTo, TypeOK
  <2>3. Posts(p, rest, {})
    BY <1>1, <1>15, SilentPosts DEF RepeatedAnswer
  <2>4. QED
    BY <2>1, <2>2, <2>3 DEF Transition
<1>16. CASE Confirm1(p, k, rest)
  <2>1. Moves(p, k)
    BY <1>1, <1>2, <1>16, ModeAssumption DEF Confirm1, Moves, Table, GenAfter, KeysAfter,
       TimerAfter, TypeOK, GoTo, Store, SetPeerSeq, ArmTimer, StopTimer, DeriveKeys,
       keyVars, timerVars, RoleOfState, RespondingStates, RetransmittingStates,
       HelloTimerStates, ResponderState, States, KeysForConfirm, Accepts, ExpectedTypes
  <2>2. Replies(stateMachine[p], k.msg.type, stateMachine'[p]) = {"Confirm2"}
    BY <1>1, <1>16 DEF Confirm1, Replies, GoTo, TypeOK
  <2>3. mackeys'[p] = KeysForConfirm(p)
    BY <1>1, <1>16 DEF Confirm1, DeriveKeys, TypeOK
  <2>4. /\ net' = [net EXCEPT ![p] = rest, ![Other(p)] = @ \cup
                      {[seq |-> selfSeq[p], msg |-> MessageOf(p, "Confirm2")']}]
        /\ selfSeq' = [selfSeq EXCEPT ![p] = @ + 2]
    BY <1>3, <1>16, <2>3 DEF Confirm1
  <2>5. Posts(p, rest, {"Confirm2"})
    BY <1>1, <2>4, OnePosted
  <2>6. QED
    BY <2>1, <2>2, <2>5 DEF Transition
<1>17. CASE RepeatedRequest(p, k, rest)
  <2>1. Moves(p, k)
    BY <1>1, <1>2, <1>17, ModeAssumption DEF RepeatedRequest, Moves, Table, GenAfter,
       KeysAfter, TimerAfter, TypeOK, GoTo, Store, SetPeerSeq, ArmTimer, StopTimer,
       DeriveKeys, keyVars, timerVars, RoleOfState, RespondingStates, RetransmittingStates,
       HelloTimerStates, ResponderState, States
  <2>2. Replies(stateMachine[p], k.msg.type, stateMachine'[p]) = {"Confirm1"}
    BY <1>1, <1>17 DEF RepeatedRequest, Replies, GoTo, TypeOK
  <2>3. mackeys' = mackeys
    BY <1>17 DEF RepeatedRequest, keyVars
  <2>4. /\ net' = [net EXCEPT ![p] = rest, ![Other(p)] = @ \cup
                      {[seq |-> selfSeq[p], msg |-> MessageOf(p, "Confirm1")']}]
        /\ selfSeq' = [selfSeq EXCEPT ![p] = @ + 1]
    BY <1>3, <1>17, <2>3 DEF RepeatedRequest, SendPacket
  <2>5. Posts(p, rest, {"Confirm1"})
    BY <1>1, <2>4, OnePosted
  <2>6. QED
    BY <2>1, <2>2, <2>5 DEF Transition
<1>18. CASE Confirm2(p, k, rest)
  <2>1. Moves(p, k)
    BY <1>1, <1>2, <1>18, ModeAssumption DEF Confirm2, Moves, Table, GenAfter, KeysAfter,
       TimerAfter, TypeOK, GoTo, Store, SetPeerSeq, ArmTimer, StopTimer, DeriveKeys,
       keyVars, timerVars, RoleOfState, RespondingStates, RetransmittingStates,
       HelloTimerStates, ResponderState, States, UpdateCachedSecrets
  <2>2. Replies(stateMachine[p], k.msg.type, stateMachine'[p]) = {"Conf2ACK"}
    BY <1>1, <1>18 DEF Confirm2, Replies, GoTo, TypeOK
  <2>3. gen' = gen
    BY <1>18 DEF Confirm2
  <2>4. /\ net' = [net EXCEPT ![p] = rest, ![Other(p)] = @ \cup
                      {[seq |-> selfSeq[p], msg |-> MessageOf(p, "Conf2ACK")']}]
        /\ selfSeq' = [selfSeq EXCEPT ![p] = @ + 1]
    BY <1>3, <1>18, <2>3 DEF Confirm2, SendPacket
  <2>5. Posts(p, rest, {"Conf2ACK"})
    BY <1>1, <2>4, OnePosted
  <2>6. QED
    BY <2>1, <2>2, <2>5 DEF Transition
<1>19. CASE Conf2ACKReceived(p, k, rest)
  <2>1. Moves(p, k)
    BY <1>1, <1>2, <1>19, ModeAssumption DEF Conf2ACKReceived, Moves, Table, GenAfter,
       KeysAfter, TimerAfter, TypeOK, GoTo, Store, SetPeerSeq, ArmTimer, StopTimer,
       DeriveKeys, keyVars, timerVars, RoleOfState, RespondingStates, RetransmittingStates,
       HelloTimerStates, ResponderState, States, UpdateCachedSecrets
  <2>2. Replies(stateMachine[p], k.msg.type, stateMachine'[p]) = {}
    BY <1>1, <1>19 DEF Conf2ACKReceived, Replies, GoTo, TypeOK
  <2>3. Posts(p, rest, {})
    BY <1>1, <1>19, SilentPosts DEF Conf2ACKReceived
  <2>4. QED
    BY <2>1, <2>2, <2>3 DEF Transition
<1>20. CASE RepeatedConfirm2(p, k, rest)
  <2>1. Moves(p, k)
    BY <1>1, <1>2, <1>20, ModeAssumption DEF RepeatedConfirm2, Moves, Table, GenAfter,
       KeysAfter, TimerAfter, TypeOK, GoTo, Store, SetPeerSeq, ArmTimer, StopTimer,
       DeriveKeys, keyVars, timerVars, RoleOfState, RespondingStates, RetransmittingStates,
       HelloTimerStates, ResponderState, States
  <2>2. Replies(stateMachine[p], k.msg.type, stateMachine'[p]) = {"Conf2ACK"}
    BY <1>1, <1>20 DEF RepeatedConfirm2, Replies, GoTo, TypeOK
  <2>3. gen' = gen
    BY <1>20 DEF RepeatedConfirm2
  <2>4. /\ net' = [net EXCEPT ![p] = rest, ![Other(p)] = @ \cup
                      {[seq |-> selfSeq[p], msg |-> MessageOf(p, "Conf2ACK")']}]
        /\ selfSeq' = [selfSeq EXCEPT ![p] = @ + 1]
    BY <1>3, <1>20, <2>3 DEF RepeatedConfirm2, SendPacket
  <2>5. Posts(p, rest, {"Conf2ACK"})
    BY <1>1, <2>4, OnePosted
  <2>6. QED
    BY <2>1, <2>2, <2>5 DEF Transition
<1>21. QED
  BY <1>5, <1>6, <1>7, <1>8, <1>9, <1>10, <1>11, <1>12, <1>13, <1>14, <1>15, <1>16, <1>17,
     <1>18, <1>19, <1>20 DEF Handle
-----------------------------------------------------------------------------
(* What an endpoint has sent stays what it would send.                     *)

(* A step of p keeps what its messages were built from. *)
Stable(p) ==
    LET s == stateMachine[p]
        t == stateMachine'[p]
    IN  /\ t \in States
        /\ \A type \in MessageTypes : s \in SenderStates(type) => t \in SenderStates(type)
        /\ s \notin DiscoveryStates => gen'[p] = gen[p]
        /\ s \in ConfirmingStates => mackeys'[p] = mackeys[p]
        /\ role[p] = "RESPONDER" => role'[p] = "RESPONDER"
        /\ s \notin {"waitingForHelloAck", "sendingCommit"} => role'[p] = role[p]

(* A message that was genuine stays so when its sender takes a step that   *)
(* changes nothing it was built from.                                      *)
LEMMA GenuineKept ==
    ASSUME NEW p \in Endpoints, NEW m, m.type \in MessageTypes, Genuine(p, m), Stable(p)
    PROVE  Genuine(p, m)'
<1>1. /\ m = MessageOf(p, m.type) /\ stateMachine[p] \in SenderStates(m.type)
      /\ stateMachine'[p] \in SenderStates(m.type)
  BY DEF Genuine, Stable
<1>2. m.type \in {"DHPart1", "DHPart2", "Commit"} => gen'[p] = gen[p]
  BY <1>1 DEF Stable, SenderStates, DiscoveryStates
<1>3. m.type \in {"Confirm1", "Confirm2"} => mackeys'[p] = mackeys[p]
  BY <1>1 DEF Stable, SenderStates, ConfirmingStates
<1>4. m.type \in {"DHPart2", "Confirm2"} => role'[p] = role[p]
  BY <1>1 DEF Stable, SenderStates
<1>5. MessageOf(p, m.type)' = MessageOf(p, m.type)
  BY <1>2, <1>3 DEF MessageOf, MessageTypes, DHPart
<1>6. QED
  BY <1>1, <1>4, <1>5 DEF Genuine, Stable

(* The endpoint that does nothing. *)
Still(p) ==
    /\ stateMachine'[p] = stateMachine[p]
    /\ role'[p] = role[p]
    /\ gen'[p] = gen[p]
    /\ mackeys'[p] = mackeys[p]
    /\ peerPackets'[p] = peerPackets[p]

(* A message stays genuine while its sender takes no step. *)
LEMMA StillGenuine ==
    ASSUME NEW p \in Endpoints, NEW m, Genuine(p, m), Still(p)
    PROVE  Genuine(p, m)'
<1>1. MessageOf(p, m.type)' = MessageOf(p, m.type)
  BY DEF Still, MessageOf, DHPart
<1>2. QED
  BY <1>1 DEF Genuine, Still

(* A step of p, seen from the messages of both. *)
GenuineStep(p) ==
    /\ Stable(p)
    /\ Still(Other(p))
    /\ net'[p] \subseteq net[p]
    /\ \A n \in net'[Other(p)] : n \in net[Other(p)] \/ Genuine(p, n.msg)'
    /\ \A slot \in Slots :
          \/ peerPackets'[p][slot] \in {None, peerPackets[p][slot]}
          \/ \E k \in net[p] : peerPackets'[p][slot] = k.msg /\ SlotOf(k.msg.type) = slot

(* If one endpoint takes a genuine step, all messages in flight and stored *)
(* are genuine afterwards.                                                 *)
LEMMA GenuineStepKeeps ==
    ASSUME ContentionInv, GenuineSent, GenuineStored, NEW p \in Endpoints, GenuineStep(p)
    PROVE  GenuineSent' /\ GenuineStored'
<1> DEFINE o == Other(p)
<1>1. /\ o \in Endpoints /\ o # p /\ Other(o) = p
      /\ \A q \in Endpoints : q = p \/ q = o
  BY OtherFacts DEF Endpoints, Other
<1>2. TypeOK /\ Stable(p) /\ Still(o)
  BY DEF ContentionInv, AloneInv, AgreementInv, PeerInv, TypeInv, GenuineStep
<1>3. ASSUME NEW k \in net'[o] PROVE Genuine(p, k.msg)'
  <2>1. CASE k \in net[o]
    <3>1. k.msg.type \in MessageTypes
      BY <1>1, <1>2, <2>1 DEF TypeOK, Packets, Messages
    <3>2. Genuine(p, k.msg)
      BY <2>1 DEF GenuineSent
    <3>3. QED
      BY <1>2, <3>1, <3>2, GenuineKept
  <2>2. QED
    BY <1>3, <2>1 DEF GenuineStep
<1>4. ASSUME NEW k \in net'[p] PROVE Genuine(o, k.msg)'
  <2>1. k \in net[Other(o)]
    BY <1>1, <1>4 DEF GenuineStep
  <2>2. Genuine(o, k.msg)
    BY <1>1, <2>1 DEF GenuineSent
  <2>3. QED
    BY <1>1, <1>2, <2>2, StillGenuine
<1>5. GenuineSent'
  BY <1>1, <1>3, <1>4 DEF GenuineSent
<1>6. ASSUME NEW slot \in Slots, NEW m, m = peerPackets'[o][slot], m # None
      PROVE  Genuine(p, m)' /\ SlotOf(m.type) = slot
  <2>1. m = peerPackets[o][slot]
    BY <1>2, <1>6 DEF Still
  <2>2. Genuine(p, m) /\ SlotOf(m.type) = slot
    BY <1>6, <2>1 DEF GenuineStored
  <2>3. m.type \in MessageTypes
    BY <1>1, <1>2, <1>6, <2>1 DEF TypeOK, Messages
  <2>4. QED
    BY <1>2, <2>2, <2>3, GenuineKept
<1>7. ASSUME NEW slot \in Slots, NEW m, m = peerPackets'[p][slot], m # None
      PROVE  Genuine(o, m)' /\ SlotOf(m.type) = slot
  <2>1. Genuine(o, m) /\ SlotOf(m.type) = slot
    <3>1. CASE m = peerPackets[p][slot]
      BY <1>1, <1>7, <3>1 DEF GenuineStored
    <3>2. CASE \E k \in net[p] : m = k.msg /\ SlotOf(k.msg.type) = slot
      BY <1>1, <1>7, <3>2 DEF GenuineSent
    <3>3. QED
      BY <1>7, <3>1, <3>2 DEF GenuineStep
  <2>2. QED
    BY <1>1, <1>2, <2>1, StillGenuine
<1>8. GenuineStored'
  BY <1>1, <1>6, <1>7 DEF GenuineStored
<1>9. QED
  BY <1>5, <1>8

(* MessageOf builds a message of the type it is asked for. *)
LEMMA MessageOfType ==
    ASSUME NEW p \in Endpoints, NEW type \in MessageTypes
    PROVE  MessageOf(p, type).type = type
  BY DEF MessageOf, MessageTypes, Hello, HelloACK, Commit, DHPart, Confirm, Conf2ACK,
     Message

(* The same for the messages built after a step. *)
LEMMA MessageOfTypeNext ==
    ASSUME NEW p \in Endpoints, NEW type \in MessageTypes
    PROVE  MessageOf(p, type)'.type = type
  BY DEF MessageOf, MessageTypes, Hello, HelloACK, Commit, DHPart, Confirm, Conf2ACK,
     Message

(* A transition, row by row: the facts its messages are built from. *)
LEMMA TransitionStable ==
    ASSUME ProgressInv, NEW p \in Endpoints, NEW k \in net[p], Moves(p, k)
    PROVE  Stable(p) /\ Still(Other(p))
<1>1. TypeOK /\ RoleOfState
  BY DEF ProgressInv, ContentionInv, AloneInv, AgreementInv, PeerInv, TypeInv
<1>2. Other(p) \in Endpoints /\ Other(p) # p
  BY OtherFacts
<1>3. Still(Other(p))
  BY <1>1, <1>2 DEF Moves, Still, TypeOK
<1>4. stateMachine[p] \in States /\ stateMachine'[p] \in States
  BY <1>1, ModeAssumption DEF TypeOK, Moves, Table, ResponderState, States
<1>5. \A type \in MessageTypes : stateMachine[p] \in SenderStates(type)
                                    => stateMachine'[p] \in SenderStates(type)
  BY <1>1, ModeAssumption DEF TypeOK, Moves, Table, ResponderState, States, SenderStates,
     MessageTypes,
     EarlyStates, DiscoveryStates
<1>6. stateMachine[p] \notin DiscoveryStates => gen'[p] = gen[p]
  BY <1>1 DEF TypeOK, Moves, GenAfter, DiscoveryStates
<1>7. stateMachine[p] \in ConfirmingStates => mackeys'[p] = mackeys[p]
  BY <1>1 DEF TypeOK, Moves, Table, KeysAfter, ConfirmingStates
<1>8. /\ role[p] = "RESPONDER" => role'[p] = "RESPONDER"
      /\ stateMachine[p] \notin {"waitingForHelloAck", "sendingCommit"} => role'[p] = role[p]
  BY <1>1, ModeAssumption DEF TypeOK, Moves, Table, RespondingStates, RoleOfState
<1>9. QED
  BY <1>3, <1>4, <1>5, <1>6, <1>7, <1>8 DEF Stable

(* What is sent on a transition is what the new state says is sent. *)
LEMMA RepliesGenuine ==
    ASSUME ProgressInv, ContentionInv', NEW p \in Endpoints, NEW k \in net[p], Moves(p, k),
           NEW type \in Replies(stateMachine[p], k.msg.type, stateMachine'[p]),
           NEW m, m = MessageOf(p, type)'
    PROVE  Genuine(p, m)' /\ m.type = type
<1>1. TypeOK /\ RoleOfState /\ RoleOfState' /\ GenuineSent /\ PeerStates
  BY DEF ProgressInv, ContentionInv, AloneInv, AgreementInv, PeerInv, TypeInv
<1>2. type \in MessageTypes
  BY DEF Replies, MessageTypes
<1>3. m.type = type
  BY <1>2, MessageOfTypeNext
<1>4. stateMachine'[p] \in SenderStates(type)
  BY ModeAssumption DEF Moves, Table, Replies, SenderStates, EarlyStates, DiscoveryStates,
     States, ResponderState
<1>5. type \in {"DHPart1", "Confirm1"} => role'[p] = "RESPONDER"
  BY <1>1 DEF Moves, Replies, TypeOK, RespondingStates
<1>6. type = "Conf2ACK" => role'[p] = "RESPONDER"
  <2>1. type = "Conf2ACK" => k.msg.type = "Confirm2"
    BY DEF Replies
  <2>2. k.msg.type = "Confirm2" => role[Other(p)] = "INITIATOR"
    BY <1>1, OtherFacts DEF GenuineSent, Genuine
  <2>3. type = "Conf2ACK" => stateMachine[p] \in {"sendingConfirm1", "secure"}
    BY <2>1 DEF Moves, Table
  <2>4. stateMachine[p] = "sendingConfirm1" => role[p] = "RESPONDER"
    BY <1>1 DEF RoleOfState, RespondingStates
  <2>5. stateMachine[p] = "secure" /\ role[Other(p)] = "INITIATOR" => role[p] = "RESPONDER"
    BY <1>1 DEF ProgressInv, ContentionInv, AloneInv, AgreementInv, KeysAgreed, TypeOK, Roles
  <2>6. role[p] = "RESPONDER" => role'[p] = "RESPONDER"
    BY <1>1 DEF Moves, TypeOK
  <2>7. QED
    BY <2>1, <2>2, <2>3, <2>4, <2>5, <2>6
<1>7. type \in {"DHPart2", "Confirm2"} => role'[p] = "INITIATOR"
  BY <1>1, <1>4 DEF Replies, RoleOfState, RespondingStates, SenderStates
<1>8. type \in {"DHPart1", "DHPart2"} => Mode = "DHM"
  <2>1. CASE type = "DHPart1"
    BY <1>1, <2>1, ModeAssumption DEF Moves, Replies, Table, ResponderState, PeerStates,
       PeerState
  <2>2. CASE type = "DHPart2"
    <3>1. k.msg.type = "DHPart1"
      BY <2>2, ModeAssumption DEF Moves, Replies, Table, ResponderState
    <3>2. QED
      BY <1>1, <3>1, OtherFacts DEF GenuineSent, Genuine
  <2>3. QED
    BY <2>1, <2>2
<1>9. QED
  BY <1>3, <1>4, <1>5, <1>6, <1>7, <1>8 DEF Genuine

(* A transition of the table keeps every message genuine, those it sends   *)
(* included.                                                               *)
LEMMA TransitionGenuine ==
    ASSUME ProgressInv, ContentionInv', NEW p \in Endpoints, NEW k \in net[p],
           NEW rest \in SUBSET net[p], Transition(p, k, rest)
    PROVE  GenuineStep(p)
<1> DEFINE o == Other(p)
<1>1. TypeOK /\ Moves(p, k)
      /\ Posts(p, rest, Replies(stateMachine[p], k.msg.type, stateMachine'[p]))
  BY DEF ProgressInv, ContentionInv, AloneInv, AgreementInv, PeerInv, TypeInv, Transition
<1>2. Stable(p) /\ Still(o)
  BY <1>1, TransitionStable
<1>3. net'[p] \subseteq net[p]
  BY <1>1 DEF Posts
<1>4. ASSUME NEW n \in net'[o] PROVE n \in net[o] \/ Genuine(p, n.msg)'
  <2>1. CASE n \notin net[o]
    <3>1. PICK type \in Replies(stateMachine[p], k.msg.type, stateMachine'[p]) :
                 n.msg = MessageOf(p, type)'
      BY <1>1, <1>4, <2>1 DEF Posts
    <3>2. QED
      BY <1>1, <3>1, RepliesGenuine
  <2>2. QED
    BY <2>1
<1>5. ASSUME NEW slot \in Slots
      PROVE  \/ peerPackets'[p][slot] \in {None, peerPackets[p][slot]}
             \/ peerPackets'[p][slot] = k.msg /\ SlotOf(k.msg.type) = slot
  BY <1>1, SlotTyped DEF TypeOK, Moves
<1>6. QED
  BY <1>2, <1>3, <1>4, <1>5 DEF GenuineStep

(* A transition keeps the messages that repetitions are compared with in   *)
(* storage.                                                                *)
LEMMA TransitionRequests ==
    ASSUME ProgressInv, NEW p \in Endpoints, NEW k \in net[p], Moves(p, k)
    PROVE  RequestsKept'
<1>1. TypeOK /\ RoleOfState /\ RequestsKept /\ Still(Other(p))
  BY TransitionStable DEF ProgressInv, ContentionInv, AloneInv, AgreementInv, PeerInv, TypeInv
<1>2. /\ Other(p) \in Endpoints /\ k.msg # None
      /\ \A q \in Endpoints : q = p \/ q = Other(p)
  BY OtherFacts, PeerDelivered DEF Endpoints, Other, ProgressInv, ContentionInv
<1>3. /\ stateMachine'[p] = "sendingConfirm1" /\ Mode = "DHM" =>
              /\ peerPackets'[p]["DHPart"] # None
              /\ peerPackets'[p]["DHPart"].type = "DHPart2"
  BY <1>1, <1>2 DEF Moves, Table, ResponderState, RequestsKept, TypeOK, Slots, SlotOf
<1>4. /\ stateMachine'[p] = "secure" /\ role'[p] = "RESPONDER" =>
              /\ peerPackets'[p]["Confirm"] # None
              /\ peerPackets'[p]["Confirm"].type = "Confirm2"
  BY <1>1, <1>2, ModeAssumption
  DEF Moves, Table, ResponderState, RequestsKept, TypeOK, Slots, SlotOf, RoleOfState,
     RespondingStates
<1>5. QED
  BY <1>1, <1>2, <1>3, <1>4 DEF RequestsKept, Still

(* The peer of an endpoint that holds keys is past the discovery. *)
LEMMA KeyedPeer ==
    ASSUME ContentionInv, NEW p \in Endpoints,
           stateMachine[p] \in {"sendingDHPart2", "sendingConfirm2", "sendingConfirm1"}
    PROVE  stateMachine[Other(p)] \notin DiscoveryStates
<1>1. TypeOK /\ RoleOfState /\ Other(p) \in Endpoints /\ Other(Other(p)) = p
  BY OtherFacts DEF ContentionInv, AloneInv, AgreementInv, PeerInv, TypeInv
<1>2. CASE stateMachine[p] \in InitiatingStates
  BY <1>1, <1>2 DEF ContentionInv, InitiatorsHaveResponder, RoleOfState, RespondingStates,
     DiscoveryStates
<1>3. CASE stateMachine[p] = "sendingConfirm1"
  <2>1. role[p] = "RESPONDER"
    BY <1>1, <1>3 DEF RoleOfState, RespondingStates
  <2>2. QED
    BY <1>1, <2>1 DEF ContentionInv, RespondersHaveCommit, CommitsStored, CommitBy
<1>4. QED
  BY <1>2, <1>3 DEF InitiatingStates

(* A transition leaves each endpoint with the keys that the messages of    *)
(* both name.                                                              *)
LEMMA TransitionKeys ==
    ASSUME ProgressInv, NEW p \in Endpoints, NEW k \in net[p], Moves(p, k)
    PROVE  KeysOfState'
<1> DEFINE o == Other(p)
<1>1. TypeOK /\ PeerHello /\ HelloStored /\ KeysOfState /\ Still(o) /\ Stable(p) /\ PeerStates
  BY TransitionStable DEF ProgressInv, ContentionInv, AloneInv, AgreementInv, PeerInv, TypeInv
<1>2. /\ o \in Endpoints /\ o # p /\ Other(o) = p
      /\ \A q \in Endpoints : q = p \/ q = o
  BY OtherFacts DEF Endpoints, Other
<1>3. k.msg.from = o /\ Genuine(o, k.msg)
  <2>1. k \in net[Other(o)]
    BY <1>2
  <2>2. QED
    BY <1>2, <2>1, PeerDelivered DEF ProgressInv, ContentionInv, GenuineSent
<1>4. /\ k.msg.type \in {"Commit", "DHPart1", "DHPart2"} => k.msg.gen = gen[o]
      /\ k.msg.type \in {"DHPart1", "DHPart2"} => Mode = "DHM"
  BY <1>3 DEF Genuine, MessageOf, Commit, DHPart, Message
<1>5. gen'[o] = gen[o]
  BY <1>1 DEF Still
<1>6. stateMachine'[p] \in {"sendingDHPart2", "sendingConfirm2"} => mackeys'[p] = SessionKey(p, o)'
  <2> SUFFICES ASSUME stateMachine'[p] \in {"sendingDHPart2", "sendingConfirm2"}
               PROVE  mackeys'[p] = Key(p, gen'[p], o, IF Mode = "DHM" THEN gen[o] ELSE 0)
    BY <1>5 DEF SessionKey
  <2>1. stateMachine[p] \in {"sendingDHPart2", "sendingConfirm2"} =>
           mackeys[p] = Key(p, gen[p], o, IF Mode = "DHM" THEN gen[o] ELSE 0)
    BY <1>1 DEF KeysOfState, SessionKey
  <2>2. stateMachine[p] = "sendingCommit" => peerPackets[p]["Hello"].from = o
    BY <1>1 DEF PeerHello, HelloStored
  <2>3. stateMachine[p] \in {"sendingCommit", "sendingDHPart2", "sendingConfirm2"}
        /\ gen'[p] = gen[p]
    BY <1>1, ModeAssumption DEF Moves, Table, ResponderState, Stable, DiscoveryStates
  <2>4. CASE stateMachine[p] = stateMachine'[p]
    BY <1>1, <2>1, <2>3, <2>4 DEF Moves, KeysAfter, TypeOK
  <2>5. CASE stateMachine[p] # stateMachine'[p] /\ stateMachine'[p] = "sendingDHPart2"
    BY <1>1, <1>3, <1>4, <2>3, <2>5, ModeAssumption DEF Moves, Table, ResponderState,
       KeysAfter, TypeOK
  <2>6. CASE stateMachine[p] # stateMachine'[p] /\ stateMachine'[p] = "sendingConfirm2"
    <3>1. mackeys'[p] = KeysForConfirm(p)
      BY <1>1, <2>6 DEF Moves, KeysAfter, TypeOK
    <3>2. CASE stateMachine[p] = "sendingCommit"
      BY <2>2, <2>3, <2>6, <3>1, <3>2, ModeAssumption DEF Moves, Table, ResponderState,
         KeysForConfirm
    <3>3. CASE stateMachine[p] # "sendingCommit"
      BY <2>1, <2>3, <2>6, <3>1, <3>3 DEF KeysForConfirm
    <3>4. QED
      BY <3>2, <3>3
  <2>7. QED
    BY <2>4, <2>5, <2>6
<1>7. stateMachine'[p] = "sendingConfirm1" => mackeys'[p] = SessionKey(o, p)'
  <2> SUFFICES ASSUME stateMachine'[p] = "sendingConfirm1"
               PROVE  mackeys'[p] = Key(o, gen[o], p, IF Mode = "DHM" THEN gen'[p] ELSE 0)
    BY <1>5 DEF SessionKey
  <2>1. stateMachine[p] = "sendingConfirm1" =>
           mackeys[p] = Key(o, gen[o], p, IF Mode = "DHM" THEN gen[p] ELSE 0)
    BY <1>1, <1>2 DEF KeysOfState, SessionKey
  <2>2. gen'[p] = gen[p]
    BY <1>1 DEF Moves, GenAfter, TypeOK
  <2>3. CASE stateMachine[p] = stateMachine'[p]
    BY <1>1, <2>1, <2>2, <2>3 DEF Moves, KeysAfter, TypeOK
  <2>4. CASE stateMachine[p] # stateMachine'[p]
    BY <1>1, <1>3, <1>4, <2>2, <2>4, ModeAssumption DEF Moves, Table, ResponderState,
       KeysAfter, TypeOK
  <2>5. QED
    BY <2>3, <2>4
<1>8. stateMachine'[o] \in {"sendingDHPart2", "sendingConfirm2"} => mackeys'[o] = SessionKey(o, p)'
  <2> SUFFICES ASSUME stateMachine[o] \in {"sendingDHPart2", "sendingConfirm2"}
               PROVE  mackeys'[o] = SessionKey(o, p)'
    BY <1>1 DEF Still
  <2>1. gen'[p] = gen[p]
    BY <1>1, <1>2, KeyedPeer DEF Stable, ProgressInv
  <2>2. QED
    BY <1>1, <1>2, <1>5, <2>1 DEF KeysOfState, SessionKey, Still
<1>9. stateMachine'[o] = "sendingConfirm1" => mackeys'[o] = SessionKey(p, o)'
  <2> SUFFICES ASSUME stateMachine[o] = "sendingConfirm1"
               PROVE  mackeys'[o] = SessionKey(p, o)'
    BY <1>1 DEF Still
  <2>1. gen'[p] = gen[p]
    BY <1>1, <1>2, KeyedPeer DEF Stable, ProgressInv
  <2>2. QED
    BY <1>1, <1>2, <1>5, <2>1 DEF KeysOfState, SessionKey, Still
<1>10. QED
  BY <1>2, <1>6, <1>7, <1>8, <1>9 DEF KeysOfState

(* A Commit that turns an endpoint into the responder finds its sender     *)
(* still sending it.                                                       *)
LEMMA CommitterCommits ==
    ASSUME ContentionInv, OneResponder', NEW p \in Endpoints, Still(Other(p)),
           Genuine(Other(p), Commit(Other(p), gen[Other(p)], p)),
           role[p] = "INITIATOR", role'[p] = "RESPONDER"
    PROVE  stateMachine[Other(p)] = "sendingCommit"
<1> DEFINE u == stateMachine[Other(p)]
<1>1. TypeOK /\ RoleOfState /\ KeysAgreed /\ Other(p) \in Endpoints /\ Other(Other(p)) = p
  BY OtherFacts DEF ContentionInv, AloneInv, AgreementInv, PeerInv, TypeInv
<1>2. u \in States /\ u \notin DiscoveryStates
  BY <1>1 DEF TypeOK, Genuine, Commit, Message, SenderStates
<1>3. role[Other(p)] = "INITIATOR"
  BY <1>1 DEF OneResponder, Still
<1>4. u \notin RespondingStates
  BY <1>1, <1>3 DEF RoleOfState
<1>5. u \notin InitiatingStates
  BY <1>1 DEF ContentionInv, InitiatorsHaveResponder
<1>6. u # "secure"
  BY <1>1, <1>3 DEF KeysAgreed
<1>7. QED
  BY <1>2, <1>4, <1>5, <1>6 DEF States, DiscoveryStates, RespondingStates, InitiatingStates

(* A transition of one endpoint keeps what its state tells of the peer,    *)
(* and what the state of the peer tells of it.                             *)
LEMMA TransitionPeers ==
    ASSUME ProgressInv, ContentionInv', NEW p \in Endpoints, NEW k \in net[p],
           NEW rest \in SUBSET net[p], Transition(p, k, rest)
    PROVE  PeerStates'
<1> DEFINE o == Other(p)
           s == stateMachine[p]
           t == stateMachine'[p]
           u == stateMachine[o]
<1>1. /\ TypeOK /\ RoleOfState /\ RoleOfState' /\ OneResponder /\ OneResponder' /\ PeerStates
      /\ Moves(p, k) /\ net'[p] = rest
  BY DEF ProgressInv, ContentionInv, AloneInv, AgreementInv, PeerInv, TypeInv, Transition,
     Posts
<1>2. /\ o \in Endpoints /\ o # p /\ Other(o) = p
      /\ \A q \in Endpoints : q = p \/ q = o
  BY OtherFacts DEF Endpoints, Other
<1>3. Still(o) /\ Stable(p) /\ stateMachine'[o] = u /\ role'[o] = role[o]
  BY <1>1, TransitionStable DEF Still
<1>4. Genuine(o, k.msg)
  BY <1>2 DEF ProgressInv, GenuineSent
<1>5. k.msg.type = "Commit" /\ role[p] = "INITIATOR" /\ role'[p] = "RESPONDER" =>
      u = "sendingCommit"
  <2>1. k.msg.type = "Commit" => k.msg = Commit(o, gen[o], p)
    BY <1>2, <1>4 DEF Genuine, MessageOf
  <2>2. QED
    BY <1>1, <1>3, <1>4, <2>1, CommitterCommits DEF ProgressInv
<1>6. u \in States /\ s \in States /\ s # "NULL" /\ t # "NULL" /\ Table(s, k.msg.type, t)
  BY <1>1, <1>2 DEF TypeOK, Moves, Table, ResponderState
<1>7. /\ k.msg.type = "HelloACK" => u \notin EarlyStates
      /\ k.msg.type = "Commit" => u \notin DiscoveryStates
      /\ k.msg.type \in {"DHPart1", "DHPart2"} => Mode = "DHM"
      /\ k.msg.type = "DHPart2" => u \in {"sendingDHPart2", "sendingConfirm2", "secure"}
      /\ k.msg.type = "Confirm1" => u \in {"sendingConfirm1", "secure"}
      /\ k.msg.type = "Conf2ACK" => u = "secure"
  BY <1>4 DEF Genuine, SenderStates
<1>8. PeerState(p)'
  <2>1. t \in EarlyStates => u \in {"NULL", "init", "waitingForHelloAck"}
    BY <1>1, <1>6, <1>7 DEF EarlyStates, Table, ResponderState, PeerStates, PeerState,
       States
  <2>2. Mode = "Mult" => t \notin {"sendingDHPart1", "sendingDHPart2"}
    BY <1>1, <1>6, <1>7 DEF Table, ResponderState, PeerStates, PeerState
  <2>3. t = "sendingDHPart1" => u \in {"sendingCommit", "sendingDHPart2"}
    <3>1. CASE s = "sendingDHPart1"
      BY <1>1, <3>1 DEF PeerStates, PeerState
    <3>2. CASE s # "sendingDHPart1"
      BY <1>1, <1>5, <1>6, <3>2 DEF Table, RoleOfState, RespondingStates
    <3>3. QED
      BY <3>1, <3>2
  <2>4. t = "sendingConfirm1" => \/ u \in {"sendingDHPart2", "sendingConfirm2"}
                                 \/ u = "sendingCommit" /\ Mode = "Mult"
    <3>1. CASE s = "sendingConfirm1"
      BY <1>1, <3>1 DEF PeerStates, PeerState
    <3>2. CASE s = "sendingDHPart1"
      BY <1>1, <1>6, <1>7, <3>2 DEF Table, PeerStates, PeerState
    <3>3. CASE s \notin {"sendingConfirm1", "sendingDHPart1"}
      BY <1>1, <1>5, <1>6, <3>3, ModeAssumption DEF Table, ResponderState, RoleOfState,
         RespondingStates
    <3>4. QED
      BY <3>1, <3>2, <3>3
  <2>5. t = "sendingConfirm2" => u \in {"sendingConfirm1", "secure"}
    BY <1>1, <1>6, <1>7, ModeAssumption DEF Table, ResponderState, PeerStates, PeerState
  <2>6. QED
    BY <1>3, <1>6, <2>1, <2>2, <2>3, <2>4, <2>5 DEF PeerState
<1>9. PeerState(o)'
  <2>1. PeerState(o)
    BY <1>1, <1>2 DEF PeerStates
  <2>2. u # "NULL"
    BY <1>2, <2>1 DEF PeerState
  <2>3. u \in EarlyStates => t \in {"NULL", "init", "waitingForHelloAck"}
    BY <1>2, <1>6, <1>7, <2>1 DEF PeerState, EarlyStates, DiscoveryStates, Table,
       ResponderState
  <2>4. role[o] = "RESPONDER" => t \notin RespondingStates
    BY <1>1, <1>2, <1>3 DEF OneResponder, RoleOfState
  <2>5. u = "sendingDHPart1" => t \in {"sendingCommit", "sendingDHPart2"}
    BY <1>1, <1>2, <1>6, <1>7, <2>1, <2>4, ModeAssumption
    DEF PeerState, Table, ResponderState, RoleOfState, RespondingStates
  <2>6. u = "sendingConfirm1" => \/ t \in {"sendingDHPart2", "sendingConfirm2"}
                                 \/ t = "sendingCommit" /\ Mode = "Mult"
    BY <1>1, <1>2, <1>6, <1>7, <2>1, <2>4, ModeAssumption
    DEF PeerState, Table, ResponderState, RoleOfState, RespondingStates
  <2>7. u = "sendingConfirm2" => t \in {"sendingConfirm1", "secure"}
    BY <1>2, <1>6, <2>1 DEF PeerState, Table
  <2>8. QED
    BY <1>2, <1>3, <2>1, <2>2, <2>3, <2>5, <2>6, <2>7 DEF PeerState
<1>10. QED
  BY <1>2, <1>8, <1>9 DEF PeerStates

(* A transition keeps the whole invariant on messages and states. *)
LEMMA TransitionProgress ==
    ASSUME ProgressInv, ContentionInv', NEW p \in Endpoints, NEW k \in net[p],
           NEW rest \in SUBSET net[p], Transition(p, k, rest)
    PROVE  ProgressInv'
<1>1. GenuineSent' /\ GenuineStored'
  BY TransitionGenuine, GenuineStepKeeps DEF ProgressInv
<1>2. RequestsKept' /\ KeysOfState' /\ PeerStates'
  BY TransitionRequests, TransitionKeys, TransitionPeers DEF Transition
<1>3. QED
  BY <1>1, <1>2 DEF ProgressInv

(* The type of the message that p retransmits in a state. *)
RequestType(s) ==
    CASE s \in HelloTimerStates -> "Hello"
      [] s = "sendingCommit" -> "Commit"
      [] s = "sendingDHPart2" -> "DHPart2"
      [] OTHER -> "Confirm2"

(* What the timer retransmits is the message that the state says was sent, *)
(* as the endpoint would build it now.                                     *)
LEMMA RequestIs ==
    ASSUME ProgressInv, NEW p \in Endpoints, stateMachine[p] \in RetransmittingStates
    PROVE  /\ Retransmitted(p) = MessageOf(p, RequestType(stateMachine[p]))
           /\ Genuine(p, Retransmitted(p))
           /\ Retransmitted(p).type = RequestType(stateMachine[p])
<1> DEFINE s == stateMachine[p]
           type == RequestType(s)
<1>1. TypeOK /\ RoleOfState /\ PeerHello /\ HelloStored /\ PeerStates
  BY DEF ProgressInv, ContentionInv, AloneInv, AgreementInv, PeerInv, TypeInv
<1>2. s = "sendingCommit" => peerPackets[p]["Hello"].from = Other(p)
  BY <1>1 DEF PeerHello, HelloStored
<1>3. Retransmitted(p) = MessageOf(p, type)
  BY <1>2 DEF Retransmitted, MessageOf, RequestType, HelloTimerStates, RetransmittingStates
<1>4. type \in MessageTypes
  BY DEF RequestType, MessageTypes
<1>5. Retransmitted(p).type = type
  BY <1>3, <1>4, MessageOfType
<1>6. s \in SenderStates(type)
  BY DEF SenderStates, RequestType, HelloTimerStates, RetransmittingStates, States,
     DiscoveryStates
<1>7. type \in {"DHPart2", "Confirm2"} => role[p] = "INITIATOR"
  BY <1>1 DEF RequestType, RoleOfState, RespondingStates, HelloTimerStates,
     RetransmittingStates
<1>8. type = "DHPart2" => Mode = "DHM"
  BY <1>1, ModeAssumption DEF RequestType, PeerStates, PeerState
<1>9. type \notin {"DHPart1", "Confirm1", "Conf2ACK"}
  BY DEF RequestType
<1>10. QED
  BY <1>3, <1>5, <1>6, <1>7, <1>8, <1>9 DEF Genuine

(* A step of p that is no transition: it starts, retransmits, loses or     *)
(* drops a packet, or only touches the timer.                              *)
Waits(p) ==
    LET s == stateMachine[p]
        t == stateMachine'[p]
    IN  /\ stateMachine'[Other(p)] = stateMachine[Other(p)]
        /\ t = s \/ (s = "NULL" /\ t = "init")
        /\ role' = role /\ gen' = gen /\ peerPackets' = peerPackets
        /\ mackeys'[Other(p)] = mackeys[Other(p)]
        /\ s # "sendingCommit" => mackeys'[p] = mackeys[p]
        /\ net'[p] \subseteq net[p]
        /\ \A n \in net'[Other(p)] :
              \/ n \in net[Other(p)]
              \/ s \in RetransmittingStates /\ n.msg = Retransmitted(p)

(* A step that is no transition sends at most the request once more. *)
LEMMA WaitsGenuine ==
    ASSUME ProgressInv, NEW p \in Endpoints, Waits(p)
    PROVE  GenuineStep(p)
<1> DEFINE o == Other(p)
<1>1. TypeOK /\ o \in Endpoints /\ o # p
  BY OtherFacts DEF ProgressInv, ContentionInv, AloneInv, AgreementInv, PeerInv, TypeInv
<1>2. Still(o)
  BY <1>1 DEF Waits, Still, TypeOK
<1>3. Stable(p)
  BY <1>1 DEF Waits, Stable, TypeOK, States, SenderStates, EarlyStates, DiscoveryStates,
     MessageTypes, ConfirmingStates
<1>4. ASSUME NEW n \in net'[o] PROVE n \in net[o] \/ Genuine(p, n.msg)'
  <2>1. CASE stateMachine[p] \in RetransmittingStates /\ n.msg = Retransmitted(p)
    <3>1. Genuine(p, n.msg) /\ n.msg.type = RequestType(stateMachine[p])
      BY <2>1, RequestIs
    <3>2. n.msg.type \in MessageTypes
      BY <3>1 DEF RequestType, MessageTypes
    <3>3. QED
      BY <1>3, <3>1, <3>2, GenuineKept
  <2>2. QED
    BY <2>1 DEF Waits
<1>5. QED
  BY <1>2, <1>3, <1>4 DEF GenuineStep, Waits

(* A step that is no transition keeps the invariant on messages and        *)
(* states.                                                                 *)
LEMMA WaitsProgress ==
    ASSUME ProgressInv, ContentionInv', NEW p \in Endpoints, Waits(p)
    PROVE  ProgressInv'
<1> DEFINE o == Other(p)
           s == stateMachine[p]
           t == stateMachine'[p]
           u == stateMachine[o]
<1>1. TypeOK /\ PeerStates /\ KeysOfState /\ RequestsKept
  BY DEF ProgressInv, ContentionInv, AloneInv, AgreementInv, PeerInv, TypeInv
<1>2. /\ o \in Endpoints /\ o # p /\ Other(o) = p
      /\ \A q \in Endpoints : q = p \/ q = o
  BY OtherFacts DEF Endpoints, Other
<1>3. GenuineSent' /\ GenuineStored'
  BY WaitsGenuine, GenuineStepKeeps DEF ProgressInv
<1>4. Still(o) /\ stateMachine'[o] = u
  BY WaitsGenuine DEF GenuineStep, Still
<1>5. RequestsKept'
  BY <1>1, <1>2, <1>4 DEF RequestsKept, Waits, Still
<1>6. KeysOfState'
  BY <1>1, <1>2, <1>4 DEF KeysOfState, SessionKey, Waits, Still
<1>7. PeerState(p) /\ PeerState(o)
  BY <1>1, <1>2 DEF PeerStates
<1>8. PeerState(p)'
  <2>1. t = "NULL" => net'[o] = {}
    BY <1>7 DEF Waits, PeerState, RetransmittingStates, HelloTimerStates
  <2>2. QED
    BY <1>2, <1>4, <1>7, <2>1 DEF Waits, PeerState, EarlyStates
<1>9. PeerState(o)'
  <2>1. u = "NULL" => net'[p] = {}
    BY <1>2, <1>7 DEF Waits, PeerState
  <2>2. QED
    BY <1>2, <1>4, <1>7, <2>1 DEF Waits, PeerState, EarlyStates
<1>10. PeerStates'
  BY <1>2, <1>8, <1>9 DEF PeerStates
<1>11. QED
  BY <1>3, <1>5, <1>6, <1>10 DEF ProgressInv

(* Every step is a transition or none. *)
LEMMA DropWaits ==
    ASSUME ProgressInv, NEW p \in Endpoints, NEW k \in net[p], NEW rest \in SUBSET net[p],
           Drop(p, k, rest)
    PROVE  Waits(p)
  BY OtherFacts DEF ProgressInv, ContentionInv, AloneInv, AgreementInv, PeerInv, TypeInv,
     TypeOK, Drop, Silent,
     DerivesBeforeCheck, Waits, timerVars

(* Starting the engine, the timer, the application and a loss are no       *)
(* transitions.                                                            *)
LEMMA StepWaits ==
    ASSUME ProgressInv, NEW p \in Endpoints,
           \/ StartChannelEngine(p) \/ Retransmit(p) \/ IdleTimer(p)
           \/ ResetRetransmissionTimer(p) \/ SetPeerHelloHash(p)
           \/ RestartOnHelloHashMismatch(p)
           \/ \E k \in net[p] : Lose(p, k)
    PROVE  Waits(p)
<1>1. TypeOK /\ PeerHello /\ Other(p) \in Endpoints /\ Other(p) # p
  BY OtherFacts DEF ProgressInv, ContentionInv, AloneInv, AgreementInv, PeerInv, TypeInv
<1>2. CASE StartChannelEngine(p)
  BY <1>1, <1>2 DEF StartChannelEngine, EnterDiscovery, Waits, TypeOK, keyVars
<1>3. CASE Retransmit(p)
  BY <1>1, <1>3 DEF Retransmit, SendPacket, Waits, TypeOK, keyVars
<1>4. CASE IdleTimer(p)
  BY <1>1, <1>4 DEF IdleTimer, Waits, TypeOK, keyVars
<1>5. CASE ResetRetransmissionTimer(p)
  BY <1>1, <1>5 DEF ResetRetransmissionTimer, Waits, TypeOK, keyVars
<1>6. CASE SetPeerHelloHash(p)
  BY <1>1, <1>6 DEF SetPeerHelloHash, Waits, TypeOK, keyVars
<1>7. CASE RestartOnHelloHashMismatch(p)
  BY <1>1, <1>7 DEF RestartOnHelloHashMismatch, HelloHashMismatch, PeerHello
<1>8. ASSUME NEW k \in net[p], Lose(p, k) PROVE Waits(p)
  BY <1>1, <1>8 DEF Lose, Waits, TypeOK, keyVars
<1>9. QED
  BY <1>2, <1>3, <1>4, <1>5, <1>6, <1>7, <1>8

(* Every step keeps the messages genuine and the states of the peers in    *)
(* step.                                                                   *)
LEMMA ProgressKept == ProgressInv /\ [Next]_vars => ProgressInv'
<1> SUFFICES ASSUME ProgressInv, [Next]_vars PROVE ProgressInv'
  OBVIOUS
<1>1. ContentionInv'
  BY ContentionKept DEF ProgressInv
<1>2. ASSUME NEW p \in Endpoints, Waits(p) PROVE ProgressInv'
  BY <1>1, <1>2, WaitsProgress
<1>3. ASSUME NEW p \in Endpoints, NEW k \in net[p], NEW rest \in SUBSET net[p],
             ProcessMessage(p, k, rest)
      PROVE  ProgressInv'
  <2>1. CASE Accepts(p, k) /\ Handle(p, k, rest)
    <3>1. Transition(p, k, rest)
      BY <2>1, HandlersTransit DEF ProgressInv
    <3>2. QED
      BY <1>1, <3>1, TransitionProgress
  <2>2. CASE Drop(p, k, rest)
    BY <1>2, <2>2, DropWaits
  <2>3. QED
    BY <1>3, <2>1, <2>2 DEF ProcessMessage
<1>4. CASE Next
  <2>1. PICK p \in Endpoints :
         \/ StartChannelEngine(p) \/ Retransmit(p) \/ IdleTimer(p)
         \/ ResetRetransmissionTimer(p) \/ SetPeerHelloHash(p)
         \/ RestartOnHelloHashMismatch(p)
         \/ \E k \in net[p] : Lose(p, k)
         \/ \E k \in net[p] : Deliver(p, k) \/ Duplicate(p, k)
    BY <1>4 DEF Next, Receive
  <2>2. ASSUME NEW k \in net[p], Deliver(p, k) \/ Duplicate(p, k) PROVE ProgressInv'
    BY <1>3, <2>2 DEF Deliver, Duplicate
  <2>3. QED
    BY <1>2, <2>1, <2>2, StepWaits
<1>5. CASE UNCHANGED vars
  <2>1. \A p \in Endpoints : Still(p)
    BY <1>5 DEF vars, keyVars, Still
  <2>2. GenuineSent'
    BY <1>5, <2>1, StillGenuine DEF ProgressInv, GenuineSent, vars
  <2>3. GenuineStored'
    <3>1. ASSUME NEW p \in Endpoints, NEW slot \in Slots, NEW m,
                 m = peerPackets'[Other(p)][slot], m # None
          PROVE  Genuine(p, m)' /\ SlotOf(m.type) = slot
      <4>1. Genuine(p, m) /\ SlotOf(m.type) = slot
        BY <1>5, <3>1 DEF ProgressInv, GenuineStored, vars
      <4>2. QED
        BY <2>1, <4>1, StillGenuine
    <3>2. QED
      BY <3>1 DEF GenuineStored
  <2>4. RequestsKept' /\ KeysOfState' /\ PeerStates'
    BY <1>5 DEF ProgressInv, RequestsKept, KeysOfState, SessionKey, PeerStates, PeerState,
       vars, keyVars
  <2>5. QED
    BY <1>1, <2>2, <2>3, <2>4 DEF ProgressInv
<1>6. QED
  BY <1>4, <1>5

(* They are so in the initial states. *)
LEMMA ProgressInitial == ASSUME NoStrays PROVE Init => ProgressInv
<1> SUFFICES ASSUME Init PROVE ProgressInv
  OBVIOUS
<1>1. \A p \in Endpoints : net[p] = {} /\ Other(p) \in Endpoints
  BY OtherFacts DEF Init, NoStrays
<1>2. GenuineSent
  BY <1>1 DEF GenuineSent
<1>3. GenuineStored
  BY <1>1 DEF Init, NoPackets, GenuineStored
<1>4. RequestsKept /\ KeysOfState
  BY DEF Init, RequestsKept, KeysOfState
<1>5. PeerStates
  BY <1>1 DEF Init, PeerStates, PeerState
<1>6. QED
  BY <1>2, <1>3, <1>4, <1>5, ContentionInitial DEF ProgressInv
-----------------------------------------------------------------------------
(* What keeps the handshake going is accepted when it arrives.             *)

(* A stored message of a known type is what its sender would build. *)
LEMMA StoredIs ==
    ASSUME ProgressInv, NEW p \in Endpoints, NEW slot \in Slots,
           peerPackets[Other(p)][slot] # None
    PROVE  /\ peerPackets[Other(p)][slot] = MessageOf(p, peerPackets[Other(p)][slot].type)
           /\ SlotOf(peerPackets[Other(p)][slot].type) = slot
  BY DEF ProgressInv, GenuineStored, Genuine

(* An endpoint past the discovery holds the Hello of its peer. *)
LEMMA StoredHello ==
    ASSUME ProgressInv, NEW p \in Endpoints, stateMachine[Other(p)] \notin EarlyStates
    PROVE  peerPackets[Other(p)]["Hello"] = Hello(p)
<1>1. peerPackets[Other(p)]["Hello"] # None
  BY OtherFacts DEF ProgressInv, ContentionInv, AloneInv, AgreementInv, PeerInv, TypeInv,
     HelloStored,
     EarlyStates
<1>2. "Hello" \in Slots
  BY DEF Slots
<1>3. QED
  BY <1>1, <1>2, StoredIs DEF SlotOf, MessageOf

(* The responder holds the Commit that its peer would send now. *)
LEMMA StoredCommit ==
    ASSUME ProgressInv, NEW p \in Endpoints, role[Other(p)] = "RESPONDER"
    PROVE  /\ peerPackets[Other(p)]["Commit"] # None
           /\ peerPackets[Other(p)]["Commit"] = Commit(p, gen[p], Other(p))
<1>1. peerPackets[Other(p)]["Commit"] # None
  BY OtherFacts DEF ProgressInv, ContentionInv, RespondersHaveCommit
<1>2. "Commit" \in Slots
  BY DEF Slots
<1>3. QED
  BY <1>1, <1>2, StoredIs DEF SlotOf, MessageOf

(* The responder of an endpoint that sends its DHPart2, or its Confirm2. *)
LEMMA ResponderIs ==
    ASSUME ProgressInv, NEW p \in Endpoints, stateMachine[p] \in InitiatingStates
    PROVE  /\ role[Other(p)] = "RESPONDER"
           /\ stateMachine[p] = "sendingDHPart2" => stateMachine[Other(p)] \in RespondingStates
           /\ stateMachine[p] = "sendingConfirm2" =>
                 stateMachine[Other(p)] \in {"sendingConfirm1", "secure"}
<1>1. /\ RoleOfState /\ KeysAgreed /\ PeerStates
      /\ Other(p) \in Endpoints /\ Other(Other(p)) = p
  BY OtherFacts DEF ProgressInv, ContentionInv, AloneInv, AgreementInv
<1>2. role[Other(p)] = "RESPONDER"
  BY DEF ProgressInv, ContentionInv, InitiatorsHaveResponder
<1>3. stateMachine[Other(p)] \in RespondingStates \cup {"secure"}
  BY <1>1, <1>2 DEF RoleOfState
<1>4. stateMachine[p] = "sendingDHPart2" => stateMachine[Other(p)] # "secure"
  BY <1>1, <1>2 DEF KeysAgreed
<1>5. stateMachine[p] = "sendingConfirm2" =>
      stateMachine[Other(p)] \in {"sendingConfirm1", "secure"}
  BY <1>1 DEF PeerStates, PeerState
<1>6. QED
  BY <1>2, <1>3, <1>4, <1>5

(* The endpoint whose requests count. *)
Charged(p) == Leads(p) \/ BothInit

(* The endpoint whose requests count has a message to retransmit. *)
LEMMA ChargedRetransmits ==
    ASSUME NEW p \in Endpoints, Charged(p)
    PROVE  stateMachine[p] \in RetransmittingStates
  BY DEF Charged, Leads, BothInit, RetransmittingStates, HelloTimerStates

(* A request of the leader that has not been overtaken passes the packet   *)
(* check and the filters of the peer: it is never dropped.                 *)
LEMMA RequestAccepted ==
    ASSUME PeerInv, ProgressInv, NEW p \in Endpoints, Charged(p), NEW k \in Requests(p)
    PROVE  Accepts(Other(p), k)
<1> DEFINE o == Other(p)
           s == stateMachine[p]
           u == stateMachine[o]
           type == RequestType(s)
<1>1. /\ TypeOK /\ RoleOfState /\ PeerStates /\ RequestsKept /\ KeysOfState
      /\ o \in Endpoints /\ Other(o) = p
  BY OtherFacts DEF ProgressInv, ContentionInv, AloneInv, AgreementInv, PeerInv, TypeInv
<1>2. /\ s \in RetransmittingStates
      /\ k.msg = Retransmitted(p) /\ k.msg.type = type /\ k.msg = MessageOf(p, type)
      /\ k.seq > peerSeq[o]
  <2>1. s \in RetransmittingStates
    BY ChargedRetransmits
  <2>2. QED
    BY <2>1, RequestIs DEF Requests, Fresh
<1>3. CASE s \in HelloTimerStates
  <2>1. type = "Hello" /\ k.msg = Hello(p)
    BY <1>2, <1>3 DEF RequestType, Retransmitted, HelloTimerStates
  <2>2. u \in {"init", "waitingForHello", "waitingForHelloAck"}
    BY <1>1, <1>3 DEF Charged, Leads, BothInit, HelloTimerStates
  <2>3. CASE u = "waitingForHelloAck"
    <3>1. peerPackets[o]["Hello"] = k.msg
      BY <2>1, <2>3, StoredHello DEF EarlyStates
    <3>2. QED
      BY <1>2, <2>1, <2>3, <3>1 DEF Accepts, PacketCheck, ExpectedTypes, RepetitionStates,
         MatchesStored, SlotOf
  <2>4. CASE u # "waitingForHelloAck"
    <3>1. peerHelloHash[o] \in {None, k.msg.from}
      BY <1>1, <2>1 DEF PeerInv, OnePeer, Hello, Message
    <3>2. QED
      BY <1>2, <2>1, <2>2, <2>4, <3>1 DEF Accepts, PacketCheck, ExpectedTypes,
         RepetitionStates,
         Parses, ParsesHello
  <2>5. QED
    BY <2>3, <2>4
<1>4. CASE s = "sendingCommit"
  <2>1. type = "Commit" /\ k.msg = Commit(p, gen[p], o)
    BY <1>2, <1>4 DEF RequestType, MessageOf, HelloTimerStates
  <2>2. u \in {"waitingForHelloAck", "sendingCommit", "sendingDHPart1", "sendingConfirm1"}
    BY <1>4 DEF Charged, Leads, BothInit
  <2>3. CASE u \in {"waitingForHelloAck", "sendingCommit"}
    <3>1. peerPackets[o]["Hello"] # None /\ peerPackets[o]["Hello"].from = k.msg.from
      <4>1. peerPackets[o]["Hello"] = Hello(p)
        BY <2>3, StoredHello DEF EarlyStates
      <4>2. peerPackets[o]["Hello"] # None
        BY <1>1, <2>3 DEF ProgressInv, ContentionInv, AloneInv, AgreementInv, PeerInv,
           TypeInv, HelloStored
      <4>3. QED
        BY <2>1, <4>1, <4>2 DEF Hello, Commit, Message
    <3>2. QED
      BY <1>2, <2>1, <2>3, <3>1 DEF Accepts, PacketCheck, ExpectedTypes, RepetitionStates,
         Parses, ParsesCommit
  <2>4. CASE u \in {"sendingDHPart1", "sendingConfirm1"}
    <3>1. peerPackets[o]["Commit"] = k.msg
      BY <1>1, <2>1, <2>4, StoredCommit DEF RoleOfState, RespondingStates
    <3>2. u = "sendingConfirm1" => Mode = "Mult"
      BY <1>1, <1>4 DEF PeerStates, PeerState
    <3>3. QED
      BY <1>2, <2>1, <2>4, <3>1, <3>2 DEF Accepts, PacketCheck, ExpectedTypes,
         RepetitionStates,
         MatchesStored, SlotOf
  <2>5. QED
    BY <2>2, <2>3, <2>4
<1>5. CASE s = "sendingDHPart2"
  <2>1. type = "DHPart2" /\ k.msg = DHPart(p, "INITIATOR")
    BY <1>2, <1>5 DEF RequestType, MessageOf, HelloTimerStates
  <2>2. u \in RespondingStates /\ role[o] = "RESPONDER"
    BY <1>5, ResponderIs DEF InitiatingStates
  <2>3. Mode = "DHM"
    BY <1>1, <1>5, ModeAssumption DEF PeerStates, PeerState
  <2>4. CASE u = "sendingDHPart1"
    <3>1. /\ peerPackets[o]["Commit"] # None
          /\ peerPackets[o]["Commit"] = Commit(p, gen[p], o)
      BY <2>2, StoredCommit
    <3>2. ParsesDHPart(o, k.msg)
      BY <2>1, <2>2, <2>3, <3>1 DEF ParsesDHPart, Commit, DHPart, Message
    <3>3. QED
      BY <1>2, <2>1, <2>4, <3>2 DEF Accepts, PacketCheck, ExpectedTypes, RepetitionStates,
         Parses
  <2>5. CASE u = "sendingConfirm1"
    <3>1. peerPackets[o]["DHPart"] = k.msg
      <4>1. peerPackets[o]["DHPart"] # None /\ peerPackets[o]["DHPart"].type = "DHPart2"
        BY <1>1, <2>3, <2>5 DEF RequestsKept
      <4>2. "DHPart" \in Slots
        BY DEF Slots
      <4>3. QED
        BY <1>2, <2>1, <4>1, <4>2, StoredIs
    <3>2. QED
      BY <1>2, <2>1, <2>3, <2>5, <3>1 DEF Accepts, PacketCheck, ExpectedTypes,
         RepetitionStates,
         MatchesStored, SlotOf
  <2>6. QED
    BY <2>2, <2>4, <2>5 DEF RespondingStates
<1>6. CASE s = "sendingConfirm2"
  <2>1. type = "Confirm2" /\ k.msg = Confirm(p, "INITIATOR", mackeys[p])
    BY <1>2, <1>6 DEF RequestType, MessageOf, HelloTimerStates
  <2>2. u \in {"sendingConfirm1", "secure"} /\ role[o] = "RESPONDER"
    BY <1>6, ResponderIs DEF InitiatingStates
  <2>3. CASE u = "sendingConfirm1"
    <3>1. mackeys[o] = mackeys[p]
      BY <1>1, <1>6, <2>3 DEF KeysOfState
    <3>2. mackeys[o] # None
      BY <1>1, <2>3 DEF ProgressInv, ContentionInv, AloneInv, AgreementInv, PeerInv,
         TypeInv, KeysDerived
    <3>3. peerPackets[o]["Hello"] = Hello(p)
      BY <2>3, StoredHello DEF EarlyStates
    <3>4. ParsesConfirm(o, k.msg)
      BY <2>1, <2>2, <2>3, <3>1, <3>2, <3>3
      DEF ParsesConfirm, KeysForConfirm, PeerRole, Confirm, Message, Hello
    <3>5. QED
      BY <1>2, <2>1, <2>3, <3>4 DEF Accepts, PacketCheck, ExpectedTypes, RepetitionStates,
         Parses
  <2>4. CASE u = "secure"
    <3>1. peerPackets[o]["Confirm"] = k.msg
      <4>1. peerPackets[o]["Confirm"] # None /\ peerPackets[o]["Confirm"].type = "Confirm2"
        BY <1>1, <2>2, <2>4 DEF RequestsKept
      <4>2. "Confirm" \in Slots
        BY DEF Slots
      <4>3. QED
        BY <1>2, <2>1, <4>1, <4>2, StoredIs
    <3>2. QED
      BY <1>2, <2>1, <2>4, <3>1 DEF Accepts, PacketCheck, ExpectedTypes, RepetitionStates,
         MatchesStored, SlotOf
  <2>5. QED
    BY <2>2, <2>3, <2>4
<1>7. QED
  BY <1>2, <1>3, <1>4, <1>5, <1>6 DEF RetransmittingStates

(* An answer to the leader that has not been overtaken is never dropped. *)
LEMMA AnswerAccepted ==
    ASSUME ProgressInv, NEW p \in Endpoints, Charged(p), NEW k \in Answers(p)
    PROVE  Accepts(p, k)
<1> DEFINE o == Other(p)
           s == stateMachine[p]
           u == stateMachine[o]
<1>1. /\ TypeOK /\ RoleOfState /\ PeerStates /\ KeysOfState
      /\ o \in Endpoints /\ Other(o) = p
  BY OtherFacts DEF ProgressInv, ContentionInv, AloneInv, AgreementInv, PeerInv, TypeInv
<1>2. k \in net[p] /\ k.seq > peerSeq[p] /\ k.msg.type = AnswerType(s)
  BY DEF Answers, Fresh
<1>3. Genuine(o, k.msg) /\ k.msg \in Messages /\ k.msg.from = o
  BY <1>1, <1>2, PeerDelivered DEF ProgressInv, ContentionInv, GenuineSent
<1>4. s # "NULL"
      /\ s \in {"waitingForHelloAck", "sendingCommit", "sendingDHPart2", "sendingConfirm2"}
  <2>1. s # "init"
    BY <1>2, <1>3 DEF AnswerType, Messages, MessageTypes
  <2>2. QED
    BY <2>1, ChargedRetransmits DEF RetransmittingStates, HelloTimerStates
<1>5. peerPackets[p]["Hello"] # None /\ peerPackets[p]["Hello"].from = o
  <2>1. peerPackets[p]["Hello"] = Hello(o)
    BY <1>1, <1>4, StoredHello DEF EarlyStates
  <2>2. peerPackets[p]["Hello"] # None
    BY <1>4 DEF ProgressInv, ContentionInv, AloneInv, AgreementInv, PeerInv, TypeInv,
       HelloStored
  <2>3. QED
    BY <2>1, <2>2 DEF Hello, Message
<1>6. role[p] = "INITIATOR"
  BY <1>1, <1>4 DEF RoleOfState, RespondingStates
<1>7. CASE s \in {"waitingForHelloAck", "sendingConfirm2"}
  BY <1>2, <1>4, <1>7 DEF AnswerType, Accepts, PacketCheck, ExpectedTypes,
     RepetitionStates, Parses
<1>8. CASE s = "sendingCommit" /\ Mode = "DHM"
  <2>1. ParsesDHPart(p, k.msg)
    BY <1>3, <1>5, <1>6 DEF ParsesDHPart
  <2>2. QED
    BY <1>2, <1>8, <2>1 DEF AnswerType, Accepts, PacketCheck, ExpectedTypes,
       RepetitionStates, Parses
<1>9. CASE s = "sendingDHPart2" \/ (s = "sendingCommit" /\ Mode = "Mult")
  <2>1. k.msg.type = "Confirm1"
    BY <1>2, <1>9 DEF AnswerType
  <2>2. u = "sendingConfirm1"
    <3>1. u \in {"sendingConfirm1", "secure"}
      BY <1>3, <2>1 DEF Genuine, SenderStates
    <3>2. CASE s = "sendingDHPart2"
      BY <3>1, <3>2, ResponderIs DEF InitiatingStates, RespondingStates
    <3>3. CASE s = "sendingCommit"
      BY <3>1, <3>3 DEF Charged, Leads, BothInit
    <3>4. QED
      BY <1>9, <3>2, <3>3
  <2>3. mackeys[o] = SessionKey(p, o) /\ k.msg.key = Directed(SessionKey(p, o), "RESPONDER")
    <3>1. mackeys[o] = SessionKey(p, o)
      BY <1>1, <2>2 DEF KeysOfState
    <3>2. QED
      BY <1>3, <2>1, <3>1 DEF Genuine, MessageOf, Confirm, Message
  <2>4. mackeys[o] # None
    BY <1>1, <2>2 DEF ProgressInv, ContentionInv, AloneInv, AgreementInv, PeerInv, TypeInv,
       KeysDerived
  <2>5. KeysForConfirm(p) = SessionKey(p, o)
    <3>1. CASE s = "sendingDHPart2"
      BY <1>1, <3>1 DEF KeysForConfirm, KeysOfState
    <3>2. CASE s = "sendingCommit" /\ Mode = "Mult"
      BY <1>5, <3>2 DEF KeysForConfirm, SessionKey
    <3>3. QED
      BY <1>9, <3>1, <3>2
  <2>6. ParsesConfirm(p, k.msg)
    BY <1>3, <1>5, <1>6, <2>3, <2>4, <2>5 DEF ParsesConfirm, PeerRole
  <2>7. QED
    BY <1>2, <1>9, <2>1, <2>6 DEF Accepts, PacketCheck, ExpectedTypes, RepetitionStates,
       Parses
<1>10. QED
  BY <1>4, <1>7, <1>8, <1>9, ModeAssumption
-----------------------------------------------------------------------------
(* Sequence numbers and timers.                                            *)

(* A step of p, seen from the sequence numbers. *)
NumberedStep(p) ==
    LET o == Other(p)
        new == net'[o] \ net[o]
    IN  /\ selfSeq'[o] = selfSeq[o] /\ selfSeq'[p] >= selfSeq[p]
        /\ peerSeq'[o] = peerSeq[o]
        /\ peerSeq'[p] = peerSeq[p] \/ (\E k \in net[p] : peerSeq'[p] = k.seq)
        /\ net'[p] \subseteq net[p]
        /\ IsFiniteSet(new)
        /\ \A n \in new : /\ n.seq >= selfSeq[p] /\ n.seq < selfSeq'[p]
                          /\ \A l \in new : l.seq = n.seq => l = n

(* A step that posts under new numbers keeps every number used once. *)
LEMMA NumberedStepKeeps ==
    ASSUME TypeOK, TypeOK', Numbering, NEW p \in Endpoints, NumberedStep(p)
    PROVE  Numbering'
<1> DEFINE o == Other(p)
           new == net'[o] \ net[o]
<1>1. /\ o \in Endpoints /\ o # p /\ Other(o) = p
      /\ \A q \in Endpoints : q = p \/ q = o
  BY OtherFacts DEF Endpoints, Other
<1>2. /\ selfSeq[p] \in Nat /\ selfSeq[o] \in Nat /\ selfSeq'[p] \in Nat
      /\ peerSeq[p] \in Nat /\ peerSeq[o] \in Nat /\ peerSeq'[p] \in Nat
  BY <1>1 DEF TypeOK
<1>3. /\ \A k \in net[o] \cup net'[o] : k.seq \in Nat
      /\ \A k \in net[p] : k.seq \in Nat
  BY <1>1 DEF TypeOK, Packets
<1>4. /\ IsFiniteSet(net[p]) /\ IsFiniteSet(net[o])
      /\ peerSeq[o] < selfSeq[p] /\ peerSeq[p] < selfSeq[o]
      /\ \A k, l \in net[o] : k.seq < selfSeq[p] /\ (k.seq = l.seq => k = l)
      /\ \A k, l \in net[p] : k.seq < selfSeq[o] /\ (k.seq = l.seq => k = l)
  BY <1>1 DEF Numbering
<1>5. IsFiniteSet(net'[p])
  BY <1>4, FiniteWithin DEF NumberedStep
<1>6. IsFiniteSet(net'[o])
  <2>1. IsFiniteSet(net[o] \cup new)
    BY <1>4, FS_Union DEF NumberedStep
  <2>2. QED
    BY <2>1, FiniteWithin
<1>7. ASSUME NEW k \in net'[o], NEW l \in net'[o]
      PROVE  k.seq < selfSeq'[p] /\ (k.seq = l.seq => k = l)
  <2>1. CASE k \in new /\ l \in new
    BY <2>1 DEF NumberedStep
  <2>2. CASE k \in net[o] /\ l \in net[o]
    BY <1>2, <1>3, <1>4, <2>2 DEF NumberedStep
  <2>3. CASE k \in net[o] /\ l \in new
    <3>1. k.seq < selfSeq[p] /\ l.seq >= selfSeq[p] /\ k.seq \in Nat /\ l.seq \in Nat
      BY <1>3, <1>4, <2>3 DEF NumberedStep
    <3>2. QED
      BY <1>2, <3>1 DEF NumberedStep
  <2>4. CASE k \in new /\ l \in net[o]
    <3>1. l.seq < selfSeq[p] /\ k.seq >= selfSeq[p] /\ k.seq < selfSeq'[p]
          /\ k.seq \in Nat /\ l.seq \in Nat
      BY <1>3, <1>4, <2>4 DEF NumberedStep
    <3>2. QED
      BY <1>2, <3>1
  <2>5. QED
    BY <1>7, <2>1, <2>2, <2>3, <2>4
<1>8. ASSUME NEW k \in net'[p], NEW l \in net'[p]
      PROVE  k.seq < selfSeq'[o] /\ (k.seq = l.seq => k = l)
  BY <1>4 DEF NumberedStep
<1>9. peerSeq'[o] < selfSeq'[p]
  BY <1>2, <1>4 DEF NumberedStep
<1>10. peerSeq'[p] < selfSeq'[o]
  BY <1>4 DEF NumberedStep
<1>11. QED
  BY <1>1, <1>5, <1>6, <1>7, <1>8, <1>9, <1>10 DEF Numbering

(* A transition posts under new sequence numbers. *)
LEMMA TransitionNumbered ==
    ASSUME TypeOK, NEW p \in Endpoints, NEW k \in net[p], NEW rest \in SUBSET net[p],
           Transition(p, k, rest)
    PROVE  NumberedStep(p)
<1>1. Other(p) \in Endpoints /\ Other(p) # p
  BY OtherFacts
<1>2. Posts(p, rest, Replies(stateMachine[p], k.msg.type, stateMachine'[p]))
  BY DEF Transition
<1>3. selfSeq'[Other(p)] = selfSeq[Other(p)]
  BY <1>1, <1>2 DEF Posts, TypeOK
<1>4. peerSeq'[Other(p)] = peerSeq[Other(p)] /\ peerSeq'[p] \in {peerSeq[p], k.seq}
  BY <1>1 DEF Transition, Moves, TypeOK
<1>5. QED
  BY <1>2, <1>3, <1>4 DEF NumberedStep, Posts

(* Retransmitting posts the request once more. *)
LEMMA RetransmitPosts ==
    ASSUME ProgressInv, NEW p \in Endpoints, Retransmit(p)
    PROVE  Posts(p, net[p], {RequestType(stateMachine[p])})
<1>1. PICK type : type = RequestType(stateMachine[p])
  OBVIOUS
<1>2. PICK rest : rest = net[p]
  OBVIOUS
<1>3. TypeOK /\ stateMachine[p] \in RetransmittingStates
  BY DEF ProgressInv, ContentionInv, AloneInv, AgreementInv, PeerInv, TypeInv, Retransmit
<1>4. Retransmitted(p) = MessageOf(p, type)
  BY <1>1, <1>3, RequestIs
<1>5. MessageOf(p, type)' = MessageOf(p, type)
  BY DEF Retransmit, keyVars, MessageOf, DHPart
<1>6. /\ net' = [net EXCEPT ![p] = rest, ![Other(p)] = @ \cup
                      {[seq |-> selfSeq[p], msg |-> MessageOf(p, type)']}]
      /\ selfSeq' = [selfSeq EXCEPT ![p] = @ + 1]
  BY <1>2, <1>4, <1>5 DEF Retransmit, SendPacket
<1>7. Posts(p, rest, {type})
  BY <1>3, <1>6, OnePosted
<1>8. QED
  BY <1>1, <1>2, <1>7

(* So does every other step, and a drop posts nothing. *)
LEMMA WaitsNumbered ==
    ASSUME ProgressInv, NEW p \in Endpoints,
           \/ StartChannelEngine(p) \/ Retransmit(p) \/ IdleTimer(p)
           \/ ResetRetransmissionTimer(p) \/ SetPeerHelloHash(p)
           \/ \E k \in net[p] : Lose(p, k) \/ (\E rest \in SUBSET net[p] : Drop(p, k, rest))
    PROVE  NumberedStep(p)
<1>1. TypeOK /\ Other(p) \in Endpoints /\ Other(p) # p
  BY OtherFacts DEF ProgressInv, ContentionInv, AloneInv, AgreementInv, PeerInv, TypeInv
<1>2. selfSeq[p] \in Nat /\ selfSeq[Other(p)] \in Nat
  BY <1>1 DEF TypeOK
<1>3. ASSUME net'[Other(p)] = net[Other(p)]
      PROVE  net'[Other(p)] \ net[Other(p)] = {} /\ IsFiniteSet(net'[Other(p)] \ net[Other(p)])
  <2>1. net'[Other(p)] \ net[Other(p)] = {}
    BY <1>3
  <2>2. QED
    BY <2>1, FS_EmptySet
<1>4. CASE StartChannelEngine(p)
  <2>1. /\ net' = net /\ peerSeq' = peerSeq /\ selfSeq'[Other(p)] = selfSeq[Other(p)]
        /\ selfSeq'[p] >= selfSeq[p]
    BY <1>1, <1>2, <1>4 DEF StartChannelEngine, EnterDiscovery, TypeOK
  <2>2. QED
    BY <1>3, <2>1 DEF NumberedStep
<1>5. CASE Retransmit(p)
  <2>1. Posts(p, net[p], {RequestType(stateMachine[p])})
    BY <1>5, RetransmitPosts
  <2>2. peerSeq' = peerSeq /\ selfSeq'[Other(p)] = selfSeq[Other(p)]
    BY <1>1, <1>5 DEF Retransmit, SendPacket, TypeOK
  <2>3. QED
    BY <2>1, <2>2 DEF NumberedStep, Posts
<1>6. CASE IdleTimer(p) \/ ResetRetransmissionTimer(p) \/ SetPeerHelloHash(p)
  <2>1. net' = net /\ peerSeq' = peerSeq /\ selfSeq' = selfSeq
    BY <1>6 DEF IdleTimer, ResetRetransmissionTimer, SetPeerHelloHash
  <2>2. QED
    BY <1>2, <1>3, <2>1 DEF NumberedStep
<1>7. ASSUME NEW k \in net[p], Lose(p, k) \/ (\E rest \in SUBSET net[p] : Drop(p, k, rest))
      PROVE  NumberedStep(p)
  <2>1. /\ net'[Other(p)] = net[Other(p)] /\ net'[p] \subseteq net[p]
        /\ peerSeq' = peerSeq /\ selfSeq' = selfSeq
    BY <1>1, <1>7 DEF Lose, Drop, Silent, TypeOK
  <2>2. QED
    BY <1>2, <1>3, <2>1 DEF NumberedStep
<1>8. QED
  BY <1>4, <1>5, <1>6, <1>7

(* The timer is as its state says if neither changes. *)
LEMMA TimerKept ==
    ASSUME TypeOK, NEW p \in Endpoints, TimerOf(p),
           stateMachine'[p] = stateMachine[p], timerStatus'[p] = timerStatus[p],
           firingCount'[p] = firingCount[p]
    PROVE  TimerOf(p)'
  BY DEF TimerOf, MaxRetransmissions

(* A timer that was just armed is as its state says. *)
LEMMA ArmedTimer ==
    ASSUME NEW p \in Endpoints, timerStatus'[p] = "ON", firingCount'[p] = 0
    PROVE  TimerOf(p)'
  BY BoundsAssumption DEF TimerOf, MaxRetransmissions

(* The timer counts each retransmission once, from zero after a reset, and *)
(* stops after the last one.                                               *)
LEMMA RetransmitTimer ==
    ASSUME TypeOK, NEW p \in Endpoints, TimerOf(p), Retransmit(p)
    PROVE  /\ TimerOf(p)'
           /\ firingCount[p] = FiringCounts - 1 => firingCount'[p] = 0
           /\ firingCount[p] # FiringCounts - 1 =>
                 firingCount'[p] = firingCount[p] + 1 /\ firingCount'[p] < FiringCounts - 1
<1> DEFINE max == MaxRetransmissions(stateMachine[p])
           c == firingCount[p]
<1>1. /\ max \in Nat /\ FiringCounts \in Nat /\ FiringCounts > max + 2 /\ c \in Nat
      /\ stateMachine[p] \in RetransmittingStates /\ timerStatus[p] = "ON"
      /\ stateMachine'[p] = stateMachine[p]
  BY BoundsAssumption DEF MaxRetransmissions, TypeOK, Retransmit
<1>2. c \in 0..max \cup {FiringCounts - 1}
  BY <1>1 DEF TimerOf
<1>3. firingCount'[p] = (c + 1) % FiringCounts
      /\ timerStatus'[p] = IF firingCount'[p] <= max THEN "ON" ELSE "OFF"
  BY DEF Retransmit, NextCount, Rearmed, TypeOK
<1> HIDE DEF max, c
<1>4. c = FiringCounts - 1 => firingCount'[p] = 0
  BY <1>1, <1>3
<1>5. c # FiringCounts - 1 =>
      firingCount'[p] = c + 1 /\ c + 1 \in 0..max + 1 /\ c + 1 < FiringCounts - 1
  BY <1>1, <1>2, <1>3
<1>6. \/ timerStatus'[p] = "ON" /\ firingCount'[p] \in 0..max \cup {FiringCounts - 1}
      \/ timerStatus'[p] = "OFF" /\ firingCount'[p] = max + 1
  BY <1>1, <1>3, <1>4, <1>5
<1>7. MaxRetransmissions(stateMachine[p])' = max
  BY <1>1 DEF MaxRetransmissions, max
<1>8. TimerOf(p)'
  BY <1>6, <1>7 DEF TimerOf
<1>9. QED
  BY <1>4, <1>5, <1>8 DEF c
-----------------------------------------------------------------------------
(* Counting packets.                                                       *)

(* A part of a finite set has at most as many elements. *)
LEMMA CountWithin ==
    ASSUME NEW S, NEW T, IsFiniteSet(T), S \subseteq T
    PROVE  IsFiniteSet(S) /\ Cardinality(S) \in Nat /\ Cardinality(T) \in Nat
           /\ Cardinality(S) <= Cardinality(T)
<1>1. IsFiniteSet(S) /\ Cardinality(S) <= Cardinality(T)
  BY FS_Subset
<1>2. QED
  BY <1>1, FS_CardinalityType

(* Without one element a finite set has at most one less. *)
LEMMA CountOneLess ==
    ASSUME NEW S, NEW T, NEW x, IsFiniteSet(T), S \subseteq T \cup {x}
    PROVE  Cardinality(S) \in Nat /\ Cardinality(T) \in Nat
           /\ Cardinality(S) <= Cardinality(T) + 1
<1>1. /\ IsFiniteSet(T \cup {x})
      /\ Cardinality(T \cup {x}) = IF x \in T THEN Cardinality(T) ELSE Cardinality(T) + 1
  BY FS_AddElement
<1>2. Cardinality(S) \in Nat /\ Cardinality(S) <= Cardinality(T \cup {x})
  BY <1>1, CountWithin
<1>3. Cardinality(T) \in Nat
  BY FS_CardinalityType
<1>4. QED
  BY <1>1, <1>2, <1>3

(* Without two elements it has at most two less. *)
LEMMA CountTwoLess ==
    ASSUME NEW S, NEW T, NEW x, NEW y, IsFiniteSet(T), S \subseteq T \cup {x, y}
    PROVE  Cardinality(S) \in Nat /\ Cardinality(T) \in Nat
           /\ Cardinality(S) <= Cardinality(T) + 2
<1>1. /\ IsFiniteSet(T \cup {x}) /\ Cardinality(T \cup {x}) \in Nat
      /\ Cardinality(T \cup {x}) = IF x \in T THEN Cardinality(T) ELSE Cardinality(T) + 1
  BY FS_AddElement, FS_CardinalityType
<1>2. S \subseteq (T \cup {x}) \cup {y}
  OBVIOUS
<1>3. Cardinality(S) \in Nat /\ Cardinality(S) <= Cardinality(T \cup {x}) + 1
  BY <1>1, <1>2, CountOneLess
<1>4. Cardinality(T) \in Nat
  BY FS_CardinalityType
<1>5. QED
  BY <1>1, <1>3, <1>4

(* A finite set has at least one element more than a part that lacks one   *)
(* of its elements.                                                        *)
LEMMA CountOneMore ==
    ASSUME NEW S, NEW T, NEW x, IsFiniteSet(T), S \subseteq T, x \in T, x \notin S
    PROVE  Cardinality(S) \in Nat /\ Cardinality(T) \in Nat
           /\ Cardinality(S) + 1 <= Cardinality(T)
<1>1. IsFiniteSet(S) /\ Cardinality(S) \in Nat /\ Cardinality(T) \in Nat
  BY CountWithin
<1>2. Cardinality(S \cup {x}) = Cardinality(S) + 1
  BY <1>1, FS_AddElement
<1>3. Cardinality(S \cup {x}) <= Cardinality(T)
  BY CountWithin
<1>4. QED
  BY <1>1, <1>2, <1>3

(* The packets K for q are taken, with at most one more that the step pays *)
(* for with a fault.                                                       *)
Consumes(q, K) ==
    \/ faults' = faults /\ Fresh(q) \subseteq Fresh(q)' \cup K
    \/ faults' = faults + 1 /\ (\E l : Fresh(q) \subseteq Fresh(q)' \cup K \cup {l})

(* Among the packets on their way to q, a step costs at most one that no   *)
(* fault pays for, and none if it does not take any of them.               *)
LEMMA ConsumedCount ==
    ASSUME NEW q \in Endpoints, NEW k, NEW K, K \subseteq {k}, Consumes(q, K), faults \in Nat,
           NEW F, NEW F2, IsFiniteSet(F2), F \subseteq Fresh(q),
           \A x \in F : x \in Fresh(q)' => x \in F2
    PROVE  /\ Cardinality(F) \in Nat /\ Cardinality(F2) \in Nat
           /\ Cardinality(F) + faults <= Cardinality(F2) + 1 + faults'
           /\ F \cap K = {} => Cardinality(F) + faults <= Cardinality(F2) + faults'
<1>1. CASE faults' = faults /\ Fresh(q) \subseteq Fresh(q)' \cup K
  <2>1. F \subseteq F2 \cup {k}
    BY <1>1
  <2>2. /\ Cardinality(F) \in Nat /\ Cardinality(F2) \in Nat
        /\ Cardinality(F) <= Cardinality(F2) + 1
    BY <2>1, CountOneLess
  <2>3. F \cap K = {} => Cardinality(F) <= Cardinality(F2)
    <3>1. F \cap K = {} => F \subseteq F2
      BY <1>1
    <3>2. QED
      BY <3>1, CountWithin
  <2>4. QED
    BY <1>1, <2>2, <2>3
<1>2. CASE faults' = faults + 1 /\ (\E l : Fresh(q) \subseteq Fresh(q)' \cup K \cup {l})
  <2>1. PICK l : Fresh(q) \subseteq Fresh(q)' \cup K \cup {l}
    BY <1>2
  <2>2. F \subseteq F2 \cup {k, l}
    BY <2>1
  <2>3. /\ Cardinality(F) \in Nat /\ Cardinality(F2) \in Nat
        /\ Cardinality(F) <= Cardinality(F2) + 2
    BY <2>2, CountTwoLess
  <2>4. F \cap K = {} => Cardinality(F) <= Cardinality(F2) + 1
    <3>1. F \cap K = {} => F \subseteq F2 \cup {l}
      BY <2>1
    <3>2. QED
      BY <3>1, CountOneLess
  <2>5. QED
    BY <1>2, <2>3, <2>4
<1>3. QED
  BY <1>1, <1>2 DEF Consumes

(* What Deliver and Duplicate do to the packets on their way to q. *)
Taken(q, k, rest) ==
    /\ net[q] \ {k} \subseteq rest
    /\ \/ faults' = faults /\ Overtaken(q, k) = {}
       \/ faults' = faults + 1 /\ (\E l : Overtaken(q, k) \subseteq {l})

(* Deliver and Duplicate take the packet that they hand over; overtaking   *)
(* others or keeping the packet costs a fault.                             *)
LEMMA TakenConsumes ==
    ASSUME ProgressInv, Numbering, NEW q \in Endpoints, NEW k \in net[q], NEW rest,
           Taken(q, k, rest), net'[q] = rest, peerSeq'[q] \in {peerSeq[q], k.seq}
    PROVE  Consumes(q, {k})
<1>1. /\ \A l \in net[q] : l.seq \in Nat /\ l.msg.from = Other(q)
      /\ \A l \in net[q] : l.seq = k.seq => l = k
  <2>1. TypeOK /\ Other(q) \in Endpoints /\ Other(Other(q)) = q
    BY OtherFacts DEF ProgressInv, ContentionInv, AloneInv, AgreementInv, PeerInv, TypeInv
  <2>2. \A l \in net[q] : l.msg.from = Other(q) /\ l \in Packets
    BY PeerDelivered DEF ProgressInv, ContentionInv
  <2>3. QED
    BY <2>1, <2>2 DEF Numbering, Packets
<1>2. ASSUME NEW l \in Fresh(q), l # k, l \notin Overtaken(q, k) PROVE l \in Fresh(q)'
  <2>1. l \in net[q] /\ l.seq > peerSeq[q] /\ l \in net'[q]
    BY <1>2 DEF Fresh, Taken
  <2>2. l.seq > k.seq
    BY <1>1, <1>2, <2>1 DEF Overtaken
  <2>3. l.seq > peerSeq'[q]
    BY <2>1, <2>2
  <2>4. QED
    BY <2>1, <2>3 DEF Fresh
<1>3. CASE faults' = faults /\ Overtaken(q, k) = {}
  BY <1>2, <1>3 DEF Consumes
<1>4. CASE faults' = faults + 1 /\ (\E l : Overtaken(q, k) \subseteq {l})
  <2>1. PICK l : Overtaken(q, k) \subseteq {l}
    BY <1>4
  <2>2. Fresh(q) \subseteq Fresh(q)' \cup {k} \cup {l}
    BY <1>2, <2>1
  <2>3. QED
    BY <1>4, <2>2 DEF Consumes
<1>5. QED
  BY <1>3, <1>4 DEF Taken

(* p waits for the same answer to the same request. *)
KeepsAsking(p) ==
    stateMachine'[p] = stateMachine[p] /\ Retransmitted(p)' = Retransmitted(p)

(* Requests and answers on their way are finitely many. *)
LEMMA CoveredTyped ==
    ASSUME TypeOK, Numbering, NEW p \in Endpoints
    PROVE  /\ IsFiniteSet(Requests(p)) /\ Cardinality(Requests(p)) \in Nat
           /\ IsFiniteSet(Answers(p)) /\ Cardinality(Answers(p)) \in Nat
           /\ faults \in Nat
<1>1. IsFiniteSet(net[p]) /\ IsFiniteSet(net[Other(p)]) /\ faults \in Nat
  BY OtherFacts DEF Numbering, TypeOK
<1>2. Requests(p) \subseteq net[Other(p)] /\ Answers(p) \subseteq net[p]
  BY DEF Requests, Answers, Fresh
<1>3. QED
  BY <1>1, <1>2, CountWithin

(* They still are after a step. *)
LEMMA CoveredTypedNext ==
    ASSUME TypeOK', Numbering', NEW p \in Endpoints
    PROVE  /\ IsFiniteSet(Requests(p)') /\ Cardinality(Requests(p)') \in Nat
           /\ IsFiniteSet(Answers(p)') /\ Cardinality(Answers(p)') \in Nat
           /\ faults' \in Nat
<1>1. IsFiniteSet(net'[p]) /\ IsFiniteSet(net'[Other(p)]) /\ faults' \in Nat
  BY OtherFacts DEF Numbering, TypeOK
<1>2. Requests(p)' \subseteq net'[Other(p)] /\ Answers(p)' \subseteq net'[p]
  BY DEF Requests, Answers, Fresh
<1>3. QED
  BY <1>1, <1>2, CountWithin

(* A request or answer is lost to p only if a fault pays for it. *)
LEMMA CoveredKept ==
    ASSUME TypeOK, TypeOK', Numbering, Numbering', NEW p \in Endpoints, NEW q \in Endpoints,
           NEW k, NEW K, K \subseteq {k}, KeepsAsking(p), Consumes(q, K),
           Fresh(Other(q)) \subseteq Fresh(Other(q))',
           q = p => Answers(p) \cap K = {}, q # p => Requests(p) \cap K = {}
    PROVE  Covered(p) \in Nat /\ Covered(p)' \in Nat /\ Covered(p) <= Covered(p)'
<1> DEFINE R == Requests(p)
           R2 == Requests(p)'
           An == Answers(p)
           An2 == Answers(p)'
<1>1. /\ Cardinality(R) \in Nat /\ Cardinality(An) \in Nat /\ faults \in Nat
      /\ IsFiniteSet(R2) /\ Cardinality(R2) \in Nat
      /\ IsFiniteSet(An2) /\ Cardinality(An2) \in Nat /\ faults' \in Nat
  BY CoveredTyped, CoveredTypedNext
<1>2. /\ R \subseteq Fresh(Other(p)) /\ \A x \in R : x \in Fresh(Other(p))' => x \in R2
      /\ An \subseteq Fresh(p) /\ \A x \in An : x \in Fresh(p)' => x \in An2
  BY DEF Requests, Answers, KeepsAsking, AnswerType
<1>3. q = p \/ (q = Other(p) /\ Other(q) = p /\ q # p)
  BY OtherFacts DEF Endpoints, Other
<1> HIDE DEF R, R2, An, An2
<1>4. CASE q = p
  <2>1. Cardinality(R) <= Cardinality(R2)
    BY <1>1, <1>2, <1>4, CountWithin
  <2>2. Cardinality(An) + faults <= Cardinality(An2) + faults'
    BY <1>1, <1>2, <1>4, ConsumedCount DEF An
  <2>3. QED
    BY <1>1, <2>1, <2>2 DEF Covered, R, R2, An, An2
<1>5. CASE q = Other(p) /\ Other(q) = p /\ q # p
  <2>1. Cardinality(An) <= Cardinality(An2)
    BY <1>1, <1>2, <1>5, CountWithin
  <2>2. Cardinality(R) + faults <= Cardinality(R2) + faults'
    BY <1>1, <1>2, <1>5, ConsumedCount DEF R
  <2>3. QED
    BY <1>1, <2>1, <2>2 DEF Covered, R, R2, An, An2
<1>6. QED
  BY <1>3, <1>4, <1>5
-----------------------------------------------------------------------------
(* Every step leaves the requests of the leader accounted for.             *)

(* The number of times a request was sent is a natural number. *)
LEMMA TimesTyped ==
    ASSUME TypeOK, NEW p \in Endpoints
    PROVE  TimesSent(p) \in Nat
  BY BoundsAssumption DEF TypeOK, TimesSent

(* Waiting leaves the question as it is. *)
LEMMA WaitsAsking ==
    ASSUME NEW q \in Endpoints, NEW p \in Endpoints, Waits(q),
           stateMachine'[q] = stateMachine[q], stateMachine[p] \in RetransmittingStates
    PROVE  KeepsAsking(p)
<1>1. q = p \/ Other(q) = p
  BY OtherFacts DEF Endpoints, Other
<1>2. /\ stateMachine'[p] = stateMachine[p] /\ gen' = gen /\ peerPackets' = peerPackets
      /\ stateMachine[p] # "sendingCommit" => mackeys'[p] = mackeys[p]
  BY <1>1 DEF Waits
<1>3. QED
  BY <1>2 DEF KeepsAsking, Retransmitted, HelloTimerStates, RetransmittingStates, DHPart

(* A step that costs the leader nothing unpaid. *)
LEMMA AccountKept ==
    ASSUME TypeOK, TypeOK', Numbering, Numbering', NEW p \in Endpoints, NEW q \in Endpoints,
           NEW k, NEW K, K \subseteq {k}, KeepsAsking(p), Consumes(q, K),
           Fresh(Other(q)) \subseteq Fresh(Other(q))',
           q = p => Answers(p) \cap K = {}, q # p => Requests(p) \cap K = {},
           Accounted(p), TimesSent(p)' \in Nat, TimesSent(p)' <= TimesSent(p)
    PROVE  Accounted(p)'
<1>1. Covered(p) \in Nat /\ Covered(p)' \in Nat /\ Covered(p) <= Covered(p)'
  BY CoveredKept
<1>2. TimesSent(p) \in Nat
  BY TimesTyped
<1>3. QED
  BY <1>1, <1>2 DEF Accounted

(* An endpoint whose state and timer stay has not sent its request again. *)
LEMMA TimesKept ==
    ASSUME TypeOK, NEW p \in Endpoints, stateMachine'[p] = stateMachine[p],
           firingCount'[p] = firingCount[p]
    PROVE  TimesSent(p)' \in Nat /\ TimesSent(p)' <= TimesSent(p)
<1>1. TimesSent(p)' = TimesSent(p)
  BY DEF TimesSent
<1>2. QED
  BY <1>1, TimesTyped

(* Retransmitting puts one more request on its way. *)
LEMMA RetransmitAccounted ==
    ASSUME ProgressInv, ProgressInv', Numbering, Numbering', TimerOfState,
           NEW p \in Endpoints, Accounted(p), Retransmit(p)
    PROVE  Accounted(p)'
<1> DEFINE o == Other(p)
<1>1. /\ TypeOK /\ TypeOK' /\ o \in Endpoints /\ o # p
      /\ stateMachine[p] \in RetransmittingStates
      /\ stateMachine' = stateMachine /\ peerSeq' = peerSeq /\ faults' = faults
  BY OtherFacts DEF ProgressInv, ContentionInv, AloneInv, AgreementInv, PeerInv, TypeInv,
     Retransmit, envVars
<1>2. KeepsAsking(p)
  BY <1>1, StepWaits, WaitsAsking
<1>3. net'[p] = net[p] /\ net[o] \subseteq net'[o]
  BY <1>1 DEF Retransmit, SendPacket, TypeOK
<1> DEFINE n == [seq |-> selfSeq[p], msg |-> Retransmitted(p)]
<1>4. n \in net'[o] /\ n.seq = selfSeq[p] /\ n.msg = Retransmitted(p)
  BY <1>1 DEF Retransmit, SendPacket, TypeOK
<1>5. peerSeq[o] < selfSeq[p] /\ \A k \in net[o] : k.seq < selfSeq[p]
  BY <1>1 DEF Numbering
<1>6. /\ selfSeq[p] \in Nat /\ peerSeq[o] \in Nat /\ firingCount[p] \in Nat
  BY <1>1 DEF TypeOK
<1> HIDE DEF n
<1>7. n \notin net[o] /\ n \in Fresh(o)'
  BY <1>1, <1>4, <1>5, <1>6 DEF Fresh
<1>8. n \in Requests(p)' /\ n \notin Requests(p)
  BY <1>2, <1>4, <1>7 DEF Requests, Fresh, KeepsAsking
<1>9. Requests(p) \subseteq Requests(p)' /\ Answers(p) \subseteq Answers(p)'
  BY <1>1, <1>2, <1>3 DEF Requests, Answers, Fresh, KeepsAsking, AnswerType
<1>10. /\ IsFiniteSet(Requests(p)') /\ IsFiniteSet(Answers(p)')
       /\ faults \in Nat
  BY <1>1, CoveredTyped, CoveredTypedNext
<1>11. /\ Cardinality(Requests(p)) \in Nat /\ Cardinality(Requests(p)') \in Nat
       /\ Cardinality(Requests(p)) + 1 <= Cardinality(Requests(p)')
  BY <1>8, <1>9, <1>10, CountOneMore
<1>12. /\ Cardinality(Answers(p)) \in Nat /\ Cardinality(Answers(p)') \in Nat
       /\ Cardinality(Answers(p)) <= Cardinality(Answers(p)')
  BY <1>9, <1>10, CountWithin
<1>13. TimesSent(p) \in Nat /\ TimesSent(p)' \in Nat /\ TimesSent(p)' <= TimesSent(p) + 1
  <2>1. TimesSent(p) \in Nat
    BY <1>1, TimesTyped
  <2>2. /\ firingCount[p] = FiringCounts - 1 => firingCount'[p] = 0
        /\ firingCount[p] # FiringCounts - 1 =>
              firingCount'[p] = firingCount[p] + 1 /\ firingCount'[p] < FiringCounts - 1
    BY <1>1, RetransmitTimer DEF TimerOfState
  <2>3. QED
    BY <1>1, <1>6, <2>1, <2>2, BoundsAssumption DEF TimesSent
<1>14. QED
  BY <1>1, <1>10, <1>11, <1>12, <1>13 DEF Accounted, Covered

(* A step that loses no packet, or one against a fault. *)
LEMMA WaitsConsumes ==
    ASSUME TypeOK, NEW q \in Endpoints,
           \/ Retransmit(q) \/ IdleTimer(q)
           \/ ResetRetransmissionTimer(q) \/ SetPeerHelloHash(q)
           \/ \E k \in net[q] : Lose(q, k)
    PROVE  Consumes(q, {}) /\ Fresh(Other(q)) \subseteq Fresh(Other(q))'
<1>1. Other(q) \in Endpoints /\ Other(q) # q
  BY OtherFacts
<1>2. CASE Retransmit(q) \/ IdleTimer(q) \/ ResetRetransmissionTimer(q) \/ SetPeerHelloHash(q)
  <2>1. /\ peerSeq' = peerSeq /\ faults' = faults
        /\ net'[q] = net[q] /\ net[Other(q)] \subseteq net'[Other(q)]
    BY <1>1, <1>2 DEF Retransmit, SendPacket, IdleTimer, ResetRetransmissionTimer,
       SetPeerHelloHash, envVars, TypeOK
  <2>2. QED
    BY <2>1 DEF Consumes, Fresh
<1>3. ASSUME NEW k \in net[q], Lose(q, k)
      PROVE  Consumes(q, {}) /\ Fresh(Other(q)) \subseteq Fresh(Other(q))'
  <2>1. /\ peerSeq' = peerSeq /\ faults' = faults + 1
        /\ net'[q] = net[q] \ {k} /\ net'[Other(q)] = net[Other(q)]
    BY <1>1, <1>3 DEF Lose, TypeOK
  <2>2. Fresh(q) \subseteq Fresh(q)' \cup {} \cup {k}
    BY <2>1 DEF Fresh
  <2>3. QED
    BY <2>1, <2>2 DEF Consumes, Fresh
<1>4. QED
  BY <1>2, <1>3

(* The timers, the application and a loss leave the requests of the leader *)
(* accounted for: a retransmission puts one on its way, a loss spends a    *)
(* fault.                                                                  *)
LEMMA WaitsAccounted ==
    ASSUME PeerInv, ProgressInv, ProgressInv', Numbering, Numbering', TimerOfState,
           NEW p \in Endpoints, Charged(p), Accounted(p), NEW q \in Endpoints,
           \/ Retransmit(q) \/ IdleTimer(q)
           \/ ResetRetransmissionTimer(q) \/ SetPeerHelloHash(q)
           \/ \E k \in net[q] : Lose(q, k)
    PROVE  Accounted(p)'
<1>1. TypeOK /\ TypeOK' /\ Waits(q) /\ stateMachine' = stateMachine
  BY StepWaits DEF ProgressInv, ContentionInv, AloneInv, AgreementInv, PeerInv, TypeInv,
     Retransmit, IdleTimer,
     ResetRetransmissionTimer, SetPeerHelloHash, Lose
<1>2. stateMachine[p] \in RetransmittingStates /\ KeepsAsking(p)
  BY <1>1, ChargedRetransmits, WaitsAsking
<1>3. CASE Retransmit(q) /\ q = p
  BY <1>3, RetransmitAccounted
<1>4. CASE ~(Retransmit(q) /\ q = p)
  <2>1. Consumes(q, {}) /\ Fresh(Other(q)) \subseteq Fresh(Other(q))'
    BY <1>1, WaitsConsumes
  <2>2. TimesSent(p)' \in Nat /\ TimesSent(p)' <= TimesSent(p)
    <3>1. CASE ResetRetransmissionTimer(q) /\ q = p
      <4>1. firingCount'[p] = FiringCounts - 1 /\ firingCount[p] \in Nat
        BY <1>1, <3>1 DEF ResetRetransmissionTimer, TypeOK
      <4>2. QED
        BY <1>1, <4>1 DEF TimesSent
    <3>2. CASE ~(ResetRetransmissionTimer(q) /\ q = p)
      <4>1. firingCount'[p] = firingCount[p]
        <5>1. ~(IdleTimer(q) /\ q = p)
          BY <1>2 DEF IdleTimer
        <5>2. QED
          BY <1>1, <1>4, <3>2, <5>1 DEF Retransmit, IdleTimer, ResetRetransmissionTimer,
             SetPeerHelloHash,
             Lose, timerVars, TypeOK
      <4>2. QED
        BY <1>1, <4>1, TimesKept
    <3>3. QED
      BY <3>1, <3>2
  <2>3. QED
    BY <1>1, <1>2, <2>1, <2>2, AccountKept
<1>5. QED
  BY <1>3, <1>4

(* A packet the leader needs is not dropped. *)
LEMMA DropAccounted ==
    ASSUME PeerInv, ProgressInv, ProgressInv', Numbering, Numbering',
           NEW p \in Endpoints, Charged(p), Accounted(p), NEW q \in Endpoints,
           NEW k \in net[q], NEW rest \in SUBSET net[q],
           ~Accepts(q, k), Drop(q, k, rest), Taken(q, k, rest)
    PROVE  Accounted(p)'
<1>1. TypeOK /\ TypeOK' /\ Waits(q) /\ stateMachine' = stateMachine
  BY DropWaits DEF ProgressInv, ContentionInv, AloneInv, AgreementInv, PeerInv, TypeInv, Drop
<1>2. stateMachine[p] \in RetransmittingStates /\ KeepsAsking(p)
  BY <1>1, ChargedRetransmits, WaitsAsking
<1>3. /\ Other(q) \in Endpoints /\ Other(q) # q
      /\ q = p \/ (q = Other(p) /\ q # p)
  BY OtherFacts DEF Endpoints, Other
<1>4. peerSeq' = peerSeq /\ firingCount' = firingCount
      /\ net'[q] = rest /\ net'[Other(q)] = net[Other(q)]
  BY <1>1, <1>3 DEF Drop, Silent, timerVars, TypeOK
<1>5. Consumes(q, {k})
  BY <1>4, TakenConsumes
<1>6. Fresh(Other(q)) \subseteq Fresh(Other(q))'
  BY <1>4 DEF Fresh
<1>7. q = p => Answers(p) \cap {k} = {}
  BY AnswerAccepted
<1>8. q # p => Requests(p) \cap {k} = {}
  BY <1>3, RequestAccepted
<1>9. TimesSent(p)' \in Nat /\ TimesSent(p)' <= TimesSent(p)
  BY <1>1, <1>4, TimesKept
<1>10. QED
  BY <1>1, <1>2, <1>5, <1>6, <1>7, <1>8, <1>9, AccountKept

(* The leader takes a message: it moves on, with a request just sent, or   *)
(* stays, and then the message was no answer.                              *)
LEMMA LeaderMoves ==
    ASSUME ProgressInv, ProgressInv', Numbering, Numbering', NEW p \in Endpoints,
           Leads(p)', NEW k \in net[p], NEW rest \in SUBSET net[p], Transition(p, k, rest),
           stateMachine'[p] # stateMachine[p]
    PROVE  Accounted(p)'
<1> DEFINE o == Other(p)
           s == stateMachine[p]
           t == stateMachine'[p]
<1>1. /\ TypeOK /\ TypeOK' /\ o \in Endpoints /\ o # p
      /\ Moves(p, k) /\ Posts(p, rest, Replies(s, k.msg.type, t))
  BY OtherFacts DEF ProgressInv, ContentionInv, AloneInv, AgreementInv, PeerInv, TypeInv,
     Transition
<1>2. t \in {"waitingForHelloAck", "sendingCommit", "sendingDHPart2", "sendingConfirm2"}
  BY DEF Leads
<1>3. firingCount'[p] = 0
  BY <1>1, <1>2 DEF Moves, TimerAfter, RetransmittingStates, HelloTimerStates, TypeOK
<1>4. /\ Cardinality(Requests(p)') \in Nat /\ IsFiniteSet(Requests(p)')
      /\ Cardinality(Answers(p)') \in Nat /\ faults' \in Nat
  BY <1>1, CoveredTypedNext
<1>5. CASE t = "waitingForHelloAck"
  <2>1. TimesSent(p)' = 0
    BY <1>3, <1>5, BoundsAssumption DEF TimesSent, HelloTimerStates
  <2>2. QED
    BY <1>4, <2>1 DEF Accounted, Covered
<1>6. CASE t # "waitingForHelloAck"
  <2>1. TimesSent(p)' = 1
    BY <1>2, <1>3, <1>6, BoundsAssumption DEF TimesSent, HelloTimerStates
  <2>2. PICK type : type = RequestType(t)
    OBVIOUS
  <2>3. type \in Replies(s, k.msg.type, t)
    BY <1>1, <1>2, <1>6, <2>2, ModeAssumption DEF RequestType, HelloTimerStates, Replies,
       Moves, Table, ResponderState
  <2>4. PICK n \in net'[o] : n.seq >= selfSeq[p] /\ n.msg = MessageOf(p, type)'
    BY <1>1, <2>3 DEF Posts
  <2>5. Retransmitted(p)' = MessageOf(p, type)'
    <3>1. t \in RetransmittingStates
      BY <1>2 DEF RetransmittingStates, HelloTimerStates
    <3>2. CASE t = "sendingCommit"
      <4>1. type = "Commit" /\ MessageOf(p, "Commit")' = Commit(p, gen'[p], o)
        BY <2>2, <3>2, MessagesNext DEF RequestType, HelloTimerStates
      <4>2. peerPackets'[p]["Hello"].from = o
        BY <3>2 DEF ProgressInv, ContentionInv, AloneInv, AgreementInv, PeerInv, TypeInv,
           PeerHello,
           HelloStored
      <4>3. Retransmitted(p)' = Commit(p, gen'[p], peerPackets'[p]["Hello"].from)
        BY <3>2 DEF Retransmitted, HelloTimerStates
      <4>4. QED
        BY <4>1, <4>2, <4>3
    <3>3. CASE t = "sendingDHPart2"
      <4>1. type = "DHPart2"
        BY <2>2, <3>3 DEF RequestType, HelloTimerStates
      <4>2. Retransmitted(p)' = DHPart(p, "INITIATOR")'
            /\ MessageOf(p, "DHPart2")' = DHPart(p, "INITIATOR")'
        BY <3>3 DEF Retransmitted, HelloTimerStates, MessageOf
      <4>3. QED
        BY <4>1, <4>2
    <3>4. CASE t = "sendingConfirm2"
      <4>1. type = "Confirm2" /\ MessageOf(p, "Confirm2")' = Confirm(p, "INITIATOR", mackeys'[p])
        BY <2>2, <3>4, MessagesNext DEF RequestType, HelloTimerStates
      <4>2. Retransmitted(p)' = Confirm(p, "INITIATOR", mackeys'[p])
        BY <3>4 DEF Retransmitted, HelloTimerStates
      <4>3. QED
        BY <4>1, <4>2
    <3>5. QED
      BY <1>2, <1>6, <3>2, <3>3, <3>4
  <2>6. n \in Requests(p)'
    <3>1. peerSeq'[o] < selfSeq[p] /\ selfSeq[p] \in Nat /\ peerSeq'[o] \in Nat /\ n.seq \in Nat
      <4>1. peerSeq'[o] = peerSeq[o] /\ peerSeq[o] < selfSeq[p]
        BY <1>1 DEF Moves, TypeOK, Numbering
      <4>2. QED
        BY <1>1, <4>1 DEF TypeOK, Packets
    <3>2. n \in Fresh(o)'
      BY <2>4, <3>1 DEF Fresh
    <3>3. QED
      BY <2>4, <2>5, <3>2 DEF Requests
  <2>7. Cardinality(Requests(p)') >= 1
    <3>1. Cardinality(Requests(p)') # 0
      BY <1>4, <2>6, FS_EmptySet
    <3>2. QED
      BY <1>4, <3>1
  <2>8. QED
    BY <1>4, <2>1, <2>7 DEF Accounted, Covered
<1>7. QED
  BY <1>5, <1>6

(* A leader that takes a message and stays in its state is still accounted *)
(* for: the message was no answer to its request.                          *)
LEMMA LeaderStays ==
    ASSUME ProgressInv, ProgressInv', Numbering, Numbering', LeaderAccounted,
           NEW p \in Endpoints, Leads(p)', NEW k \in net[p], NEW rest \in SUBSET net[p],
           Transition(p, k, rest), Taken(p, k, rest), stateMachine'[p] = stateMachine[p]
    PROVE  Accounted(p)'
<1> DEFINE o == Other(p)
           s == stateMachine[p]
<1>1. /\ TypeOK /\ TypeOK' /\ o \in Endpoints /\ o # p /\ Other(o) = p
      /\ Moves(p, k) /\ net'[p] = rest /\ net[o] \subseteq net'[o]
  BY OtherFacts DEF ProgressInv, ContentionInv, AloneInv, AgreementInv, PeerInv, TypeInv,
     Transition, Posts
<1>2. Still(o) /\ stateMachine'[o] = stateMachine[o] /\ gen'[o] = gen[o]
  BY <1>1, TransitionStable DEF Still
<1>3. /\ gen'[p] = gen[p] /\ mackeys'[p] = mackeys[p] /\ peerPackets'[p] = peerPackets[p]
      /\ firingCount'[p] = firingCount[p]
      /\ peerSeq'[p] \in {peerSeq[p], k.seq} /\ peerSeq'[o] = peerSeq[o]
  BY <1>1 DEF Moves, GenAfter, KeysAfter, TimerAfter, TypeOK
<1>4. Leads(p)
  BY <1>1, <1>2, <1>3 DEF Leads
<1>5. KeepsAsking(p)
  BY <1>3 DEF KeepsAsking, Retransmitted, DHPart
<1>6. Consumes(p, {k})
  BY <1>1, <1>3, TakenConsumes
<1>7. Fresh(o) \subseteq Fresh(o)'
  BY <1>1, <1>3 DEF Fresh
<1>8. k \notin Answers(p)
  BY <1>1, <1>4, ModeAssumption DEF Answers, AnswerType, Leads, Moves, Table, ResponderState
<1>9. TimesSent(p)' \in Nat /\ TimesSent(p)' <= TimesSent(p)
  BY <1>1, <1>3, TimesKept
<1>10. Accounted(p)
  BY <1>4 DEF LeaderAccounted
<1>11. Answers(p) \cap {k} = {}
  BY <1>8
<1>12. QED
  BY <1>1, <1>5, <1>6, <1>7, <1>9, <1>10, <1>11, AccountKept

(* The peer of the leader takes a message: the leader led before, and      *)
(* gets an answer if the message was its request.                          *)
LEMMA LedBefore ==
    ASSUME ProgressInv, ProgressInv', NEW p \in Endpoints, Leads(p)',
           NEW k \in net[Other(p)], Moves(Other(p), k)
    PROVE  /\ Leads(p)
           /\ k.msg = Retransmitted(p) =>
                 AnswerType(stateMachine[p]) \in
                    Replies(stateMachine[Other(p)], k.msg.type, stateMachine'[Other(p)])
<1> DEFINE o == Other(p)
           s == stateMachine[p]
           u == stateMachine[o]
           v == stateMachine'[o]
<1>1. /\ TypeOK /\ RoleOfState /\ PeerStates /\ o \in Endpoints /\ o # p /\ Other(o) = p
  BY OtherFacts DEF ProgressInv, ContentionInv, AloneInv, AgreementInv, PeerInv, TypeInv
<1>2. Still(p) /\ Stable(o)
  BY <1>1, TransitionStable
<1>3. stateMachine'[p] = s /\ gen'[p] = gen[p] /\ u \in States
  BY <1>1, <1>2 DEF Still, TypeOK
<1>4. /\ Table(u, k.msg.type, v)
      /\ u = "sendingCommit" /\ k.msg.type = "Commit" =>
            (v = "sendingCommit" <=> ~YieldsTo(o, k.msg))
      /\ u = "sendingCommit" => gen'[o] = gen[o]
  BY <1>1, <1>2 DEF Moves, Stable, DiscoveryStates
<1>5. u = "sendingCommit" /\ k.msg.type = "Commit" =>
         (YieldsTo(o, k.msg) <=> Hvi(o, gen[o]) < Hvi(p, gen[p]))
  <2>1. Genuine(p, k.msg)
    BY DEF ProgressInv, GenuineSent
  <2>2. k.msg.type = "Commit" => k.msg.from = p /\ k.msg.gen = gen[p]
    BY <2>1 DEF Genuine, MessageOf, Commit, Message
  <2>3. u = "sendingCommit" => role[o] # "RESPONDER"
    BY <1>1 DEF RoleOfState, RespondingStates
  <2>4. QED
    BY <2>2, <2>3 DEF YieldsTo
<1>6. s = "sendingCommit" => u \notin EarlyStates
  BY <1>1 DEF PeerStates, PeerState, EarlyStates
<1>7. Leads(p)
  <2>1. CASE s = "waitingForHelloAck"
    <3>1. v \in {"init", "waitingForHello", "waitingForHelloAck"}
      BY <1>3, <2>1 DEF Leads
    <3>2. u \in {"init", "waitingForHello", "waitingForHelloAck"}
      BY <1>4, <3>1, ModeAssumption DEF Table, ResponderState
    <3>3. QED
      BY <2>1, <3>2 DEF Leads
  <2>2. CASE s = "sendingCommit"
    <3>1. \/ v \in {"waitingForHelloAck", "sendingDHPart1", "sendingConfirm1"}
          \/ v = "sendingCommit" /\ Hvi(o, gen'[o]) < Hvi(p, gen'[p])
      BY <1>3, <2>2 DEF Leads
    <3>2. CASE u = "sendingCommit"
      <4>1. Hvi(o, gen[o]) < Hvi(p, gen[p])
        BY <1>3, <1>4, <1>5, <3>1, <3>2, ModeAssumption DEF Table, ResponderState
      <4>2. QED
        BY <2>2, <3>2, <4>1 DEF Leads
    <3>3. CASE u # "sendingCommit"
      <4>1. u \in {"waitingForHelloAck", "sendingDHPart1", "sendingConfirm1"}
        <5>1. v \in {"waitingForHelloAck", "sendingCommit", "sendingDHPart1", "sendingConfirm1"}
          BY <3>1
        <5>2. u \notin {"init", "waitingForHello", "sendingCommit"}
          BY <1>6, <2>2, <3>3 DEF EarlyStates
        <5>3. QED
          BY <1>4, <5>1, <5>2 DEF Table
      <4>2. QED
        BY <2>2, <4>1 DEF Leads
    <3>4. QED
      BY <3>2, <3>3
  <2>3. CASE s \in {"sendingDHPart2", "sendingConfirm2"}
    BY <2>3 DEF Leads
  <2>4. QED
    BY <1>3, <2>1, <2>2, <2>3 DEF Leads
<1>8. ASSUME k.msg = Retransmitted(p)
      PROVE  AnswerType(s) \in Replies(u, k.msg.type, v)
  <2>1. k.msg.type = RequestType(s)
    BY <1>7, <1>8, ChargedRetransmits, RequestIs DEF Charged
  <2>2. CASE s = "waitingForHelloAck"
    BY <1>3, <1>4, <2>1, <2>2 DEF Leads, RequestType, HelloTimerStates, AnswerType, Table,
       Replies
  <2>3. CASE s = "sendingCommit"
    <3>1. k.msg.type = "Commit"
      BY <2>1, <2>3 DEF RequestType, HelloTimerStates
    <3>2. v = ResponderState /\ (Mode = "DHM" => v = "sendingDHPart1")
          /\ (Mode = "Mult" => v = "sendingConfirm1")
      <4>1. CASE u = "sendingCommit"
        <5>1. Hvi(o, gen[o]) < Hvi(p, gen[p])
          BY <1>7, <2>3, <4>1 DEF Leads
        <5>2. QED
          BY <1>4, <1>5, <3>1, <4>1, <5>1 DEF Table, ResponderState
      <4>2. CASE u # "sendingCommit"
        <5>1. u = "sendingDHPart1" => Mode = "DHM"
          BY <1>1, ModeAssumption DEF PeerStates, PeerState
        <5>2. u = "sendingConfirm1" => Mode = "Mult"
          BY <1>1, <2>3 DEF PeerStates, PeerState
        <5>3. QED
          BY <1>4, <3>1, <4>2, <5>1, <5>2 DEF Table, ResponderState
      <4>3. QED
        BY <4>1, <4>2
    <3>3. QED
      BY <2>3, <3>2, ModeAssumption DEF AnswerType, Replies
  <2>4. CASE s = "sendingDHPart2"
    BY <1>4, <2>1, <2>4 DEF RequestType, HelloTimerStates, AnswerType, Table, Replies
  <2>5. CASE s = "sendingConfirm2"
    BY <1>4, <2>1, <2>5 DEF RequestType, HelloTimerStates, AnswerType, Table, Replies
  <2>6. QED
    BY <1>7, <2>2, <2>3, <2>4, <2>5 DEF Leads
<1>9. QED
  BY <1>7, <1>8

(* When the peer of the leader takes a message the leader is still         *)
(* accounted for: if the message was its request, the answer is on its     *)
(* way.                                                                    *)
LEMMA LeaderAnswered ==
    ASSUME ProgressInv, ProgressInv', Numbering, Numbering', LeaderAccounted,
           NEW p \in Endpoints, Leads(p)', NEW k \in net[Other(p)],
           NEW rest \in SUBSET net[Other(p)],
           Transition(Other(p), k, rest), Taken(Other(p), k, rest)
    PROVE  Accounted(p)'
<1> DEFINE o == Other(p)
           u == stateMachine[o]
           v == stateMachine'[o]
<1>1. /\ TypeOK /\ TypeOK' /\ o \in Endpoints /\ o # p /\ Other(o) = p
      /\ Moves(o, k) /\ net'[o] = rest /\ net[p] \subseteq net'[p]
      /\ Posts(o, rest, Replies(u, k.msg.type, v))
  BY OtherFacts DEF ProgressInv, ContentionInv, AloneInv, AgreementInv, PeerInv, TypeInv,
     Transition, Posts
<1>2. Leads(p) /\ Accounted(p)
  BY <1>1, LedBefore DEF LeaderAccounted
<1>3. KeepsAsking(p)
  <2>1. Still(p)
    BY <1>1, TransitionStable
  <2>2. QED
    BY <2>1 DEF Still, KeepsAsking, Retransmitted, DHPart
<1>4. /\ firingCount'[p] = firingCount[p] /\ peerSeq'[p] = peerSeq[p]
      /\ peerSeq'[o] \in {peerSeq[o], k.seq}
  BY <1>1 DEF Moves, TimerAfter, TypeOK
<1>5. Consumes(o, {k})
  BY <1>1, <1>4, TakenConsumes
<1>6. Fresh(p) \subseteq Fresh(p)'
  BY <1>1, <1>4 DEF Fresh
<1>7. TimesSent(p)' \in Nat /\ TimesSent(p)' <= TimesSent(p)
  BY <1>1, <1>3, <1>4, TimesKept DEF KeepsAsking
<1>8. CASE k \notin Requests(p)
  <2>1. Requests(p) \cap {k} = {}
    BY <1>8
  <2>2. QED
    BY <1>1, <1>2, <1>3, <1>5, <1>6, <1>7, <2>1, AccountKept
<1>9. CASE k \in Requests(p)
  <2>1. PICK type : type = AnswerType(stateMachine[p])
    OBVIOUS
  <2>2. type \in Replies(u, k.msg.type, v)
    BY <1>1, <1>9, <2>1, LedBefore DEF Requests
  <2>3. PICK n \in net'[p] : n.seq >= selfSeq[o] /\ n.msg = MessageOf(o, type)'
    BY <1>1, <2>2 DEF Posts
  <2>4. n.msg.type = type
    <3>1. type \in MessageTypes
      BY <2>2 DEF Replies, MessageTypes
    <3>2. QED
      BY <1>1, <2>3, <3>1, MessageOfTypeNext
  <2>5. /\ selfSeq[o] \in Nat /\ n.seq \in Nat /\ peerSeq[p] \in Nat
        /\ peerSeq[p] < selfSeq[o] /\ \A l \in net[p] : l.seq < selfSeq[o] /\ l.seq \in Nat
    BY <1>1, <2>3 DEF TypeOK, Packets, Numbering
  <2>6. n \notin net[p] /\ n \in Fresh(p)'
    BY <1>4, <2>3, <2>5 DEF Fresh
  <2>7. n \in Answers(p)' /\ n \notin Answers(p)
    BY <1>3, <2>1, <2>4, <2>6 DEF Answers, Fresh, KeepsAsking
  <2>8. Answers(p) \subseteq Answers(p)'
    BY <1>3, <1>6 DEF Answers, KeepsAsking
  <2>9. /\ IsFiniteSet(Requests(p)') /\ Cardinality(Requests(p)') \in Nat
        /\ IsFiniteSet(Answers(p)') /\ faults' \in Nat /\ faults \in Nat
    BY <1>1, CoveredTyped, CoveredTypedNext
  <2>10. /\ Cardinality(Answers(p)) \in Nat /\ Cardinality(Answers(p)') \in Nat
         /\ Cardinality(Answers(p)) + 1 <= Cardinality(Answers(p)')
    BY <2>7, <2>8, <2>9, CountOneMore
  <2>11. /\ Requests(p) \subseteq Fresh(o)
         /\ \A x \in Requests(p) : x \in Fresh(o)' => x \in Requests(p)'
    BY <1>3 DEF Requests, KeepsAsking
  <2>12. /\ Cardinality(Requests(p)) \in Nat
         /\ Cardinality(Requests(p)) + faults <= Cardinality(Requests(p)') + 1 + faults'
    BY <1>1, <1>5, <2>9, <2>11, ConsumedCount
  <2>13. TimesSent(p) \in Nat
    BY <1>1, TimesTyped
  <2>14. QED
    BY <1>2, <1>7, <2>9, <2>10, <2>12, <2>13 DEF Accounted, Covered
<1>10. QED
  BY <1>8, <1>9

(* After every transition the leader is accounted for. *)
LEMMA TransitionAccounted ==
    ASSUME ProgressInv, ProgressInv', Numbering, Numbering', LeaderAccounted,
           NEW q \in Endpoints, NEW k \in net[q], NEW rest \in SUBSET net[q],
           Transition(q, k, rest), Taken(q, k, rest)
    PROVE  LeaderAccounted'
<1>1. ASSUME NEW p \in Endpoints, Leads(p)' PROVE Accounted(p)'
  <2>1. CASE q = p
    BY <1>1, <2>1, LeaderMoves, LeaderStays
  <2>2. CASE q = Other(p)
    BY <1>1, <2>2, LeaderAnswered
  <2>3. QED
    BY <2>1, <2>2, OtherFacts DEF Endpoints, Other
<1>2. stateMachine'[q] # "init"
  BY ModeAssumption DEF Transition, Moves, Table, ResponderState
<1>3. QED
  BY <1>1, <1>2 DEF LeaderAccounted, BothInit

(* An endpoint that starts has not sent a Hello yet, and is accounted for. *)
LEMMA StartAccounted ==
    ASSUME ProgressInv, ProgressInv', Numbering, Numbering', LeaderAccounted,
           NEW q \in Endpoints, StartChannelEngine(q)
    PROVE  LeaderAccounted'
<1>1. /\ TypeOK /\ TypeOK' /\ PeerStates' /\ Other(q) \in Endpoints /\ Other(q) # q
      /\ Other(Other(q)) = q /\ \A p \in Endpoints : p = q \/ p = Other(q)
  BY OtherFacts DEF Endpoints, Other, ProgressInv, ContentionInv, AloneInv, AgreementInv,
     PeerInv, TypeInv
<1>2. stateMachine'[q] = "init" /\ firingCount'[q] = 0
  BY <1>1 DEF StartChannelEngine, EnterDiscovery, ArmTimer, TypeOK
<1>3. stateMachine'[Other(q)] \in {"NULL", "init"}
  <2>1. stateMachine[Other(q)] \in {"NULL", "init"}
    BY DEF StartChannelEngine, ProgressInv, PeerStates, PeerState
  <2>2. QED
    BY <1>1, <2>1 DEF StartChannelEngine, EnterDiscovery, TypeOK
<1>4. \A p \in Endpoints : ~Leads(p)'
  BY <1>1, <1>2, <1>3 DEF Leads
<1>5. Accounted(q)'
  <2>1. TimesSent(q)' = 0
    BY <1>2, BoundsAssumption DEF TimesSent, HelloTimerStates
  <2>2. /\ Cardinality(Requests(q)') \in Nat /\ Cardinality(Answers(q)') \in Nat
        /\ faults' \in Nat
    BY <1>1, CoveredTypedNext
  <2>3. QED
    BY <2>1, <2>2 DEF Accounted, Covered
<1>6. QED
  BY <1>4, <1>5 DEF LeaderAccounted

(* Steps that change no state have the same leader. *)
LEMMA SameLeader ==
    ASSUME LeaderAccounted, stateMachine' = stateMachine, gen' = gen,
           \A p \in Endpoints : Charged(p) /\ Accounted(p) => Accounted(p)'
    PROVE  LeaderAccounted'
  BY DEF LeaderAccounted, Leads, BothInit, Charged

(* Every step keeps the timers as the states say. *)
LEMMA TimersKept ==
    ASSUME TypeOK, TimerOfState, NEW q \in Endpoints,
           \/ StartChannelEngine(q) \/ Retransmit(q) \/ IdleTimer(q)
           \/ ResetRetransmissionTimer(q) \/ SetPeerHelloHash(q)
           \/ \E k \in net[q] : \/ Lose(q, k)
                                \/ \E rest : Drop(q, k, rest)
                                \/ Moves(q, k)
    PROVE  TimerOfState'
<1>1. /\ Other(q) \in Endpoints /\ Other(q) # q
      /\ \A p \in Endpoints : p = q \/ p = Other(q)
  BY OtherFacts DEF Endpoints, Other
<1>2. TimerOf(Other(q))'
  <2>1. /\ stateMachine'[Other(q)] = stateMachine[Other(q)]
        /\ timerStatus'[Other(q)] = timerStatus[Other(q)]
        /\ firingCount'[Other(q)] = firingCount[Other(q)]
    BY <1>1 DEF StartChannelEngine, EnterDiscovery, ArmTimer, Retransmit, IdleTimer,
       ResetRetransmissionTimer, SetPeerHelloHash, Lose, Drop, Moves, TimerAfter,
       timerVars, TypeOK
  <2>2. QED
    BY <1>1, <2>1, TimerKept DEF TimerOfState
<1>3. CASE StartChannelEngine(q)
  BY <1>1, <1>2, <1>3, ArmedTimer DEF StartChannelEngine, EnterDiscovery, ArmTimer, TypeOK,
     TimerOfState
<1>4. CASE Retransmit(q)
  BY <1>1, <1>2, <1>4, RetransmitTimer DEF TimerOfState
<1>5. CASE IdleTimer(q)
  <2>1. stateMachine'[q] \notin RetransmittingStates
    BY <1>5 DEF IdleTimer
  <2>2. TimerOf(q)'
    BY <2>1 DEF TimerOf
  <2>3. QED
    BY <1>1, <1>2, <2>2 DEF TimerOfState
<1>6. CASE ResetRetransmissionTimer(q)
  <2>1. timerStatus'[q] = "ON" /\ firingCount'[q] = FiringCounts - 1
    BY <1>6 DEF ResetRetransmissionTimer, TypeOK
  <2>2. TimerOf(q)'
    BY <2>1 DEF TimerOf
  <2>3. QED
    BY <1>1, <1>2, <2>2 DEF TimerOfState
<1>7. CASE SetPeerHelloHash(q) \/ \E k \in net[q] : Lose(q, k) \/ \E rest : Drop(q, k, rest)
  <2>1. /\ stateMachine'[q] = stateMachine[q] /\ timerStatus'[q] = timerStatus[q]
        /\ firingCount'[q] = firingCount[q]
    BY <1>7 DEF SetPeerHelloHash, Lose, Drop, timerVars
  <2>2. TimerOf(q)'
    BY <2>1, TimerKept DEF TimerOfState
  <2>3. QED
    BY <1>1, <1>2, <2>2 DEF TimerOfState
<1>8. ASSUME NEW k \in net[q], Moves(q, k) PROVE TimerOfState'
  <2>1. CASE stateMachine'[q] = stateMachine[q]
    <3>1. timerStatus'[q] = timerStatus[q] /\ firingCount'[q] = firingCount[q]
      BY <1>8, <2>1 DEF Moves, TimerAfter, TypeOK
    <3>2. TimerOf(q)'
      BY <2>1, <3>1, TimerKept DEF TimerOfState
    <3>3. QED
      BY <1>1, <1>2, <3>2 DEF TimerOfState
  <2>2. CASE stateMachine'[q] # stateMachine[q] /\ stateMachine'[q] \in RetransmittingStates
    <3>1. timerStatus'[q] = "ON" /\ firingCount'[q] = 0
      BY <1>8, <2>2 DEF Moves, TimerAfter, TypeOK
    <3>2. TimerOf(q)'
      BY <3>1, ArmedTimer
    <3>3. QED
      BY <1>1, <1>2, <3>2 DEF TimerOfState
  <2>3. CASE stateMachine'[q] \notin RetransmittingStates
    <3>1. TimerOf(q)'
      BY <2>3 DEF TimerOf
    <3>2. QED
      BY <1>1, <1>2, <3>1 DEF TimerOfState
  <2>4. QED
    BY <2>1, <2>2, <2>3
<1>9. QED
  BY <1>3, <1>4, <1>5, <1>6, <1>7, <1>8

(* Every step keeps the budget. *)
LEMMA BudgetKept == BudgetInv /\ [Next]_vars => BudgetInv'
<1> SUFFICES ASSUME BudgetInv, [Next]_vars PROVE BudgetInv'
  OBVIOUS
<1>1. /\ PeerInv /\ ProgressInv /\ Numbering /\ TimerOfState /\ LeaderAccounted
      /\ TypeOK /\ faults <= MaxFaults /\ faults \in Nat
  BY DEF BudgetInv, ProgressInv, ContentionInv, AloneInv, AgreementInv, PeerInv, TypeInv,
     TypeOK
<1>2. ProgressInv' /\ PeerInv' /\ TypeOK'
  BY <1>1, ProgressKept, OnePeerNext DEF PeerInv, TypeInv
<1>3. ASSUME NEW q \in Endpoints, NumberedStep(q) PROVE Numbering'
  BY <1>1, <1>2, <1>3, NumberedStepKeeps
<1>4. ASSUME NEW q \in Endpoints,
             \/ Retransmit(q) \/ IdleTimer(q)
             \/ ResetRetransmissionTimer(q) \/ SetPeerHelloHash(q)
             \/ \E k \in net[q] : Lose(q, k)
      PROVE  BudgetInv'
  <2>1. Numbering'
    BY <1>1, <1>3, <1>4, WaitsNumbered
  <2>2. TimerOfState'
    BY <1>1, <1>4, TimersKept
  <2>3. stateMachine' = stateMachine /\ gen' = gen
    BY <1>4 DEF Retransmit, IdleTimer, ResetRetransmissionTimer, SetPeerHelloHash, Lose
  <2>4. \A p \in Endpoints : Charged(p) /\ Accounted(p) => Accounted(p)'
    BY <1>1, <1>2, <1>4, <2>1, WaitsAccounted
  <2>5. LeaderAccounted'
    BY <1>1, <2>3, <2>4, SameLeader
  <2>6. faults' <= MaxFaults
    BY <1>1, <1>4, BoundsAssumption DEF Retransmit, IdleTimer, ResetRetransmissionTimer,
       SetPeerHelloHash,
       Lose, envVars
  <2>7. QED
    BY <1>2, <2>1, <2>2, <2>5, <2>6 DEF BudgetInv
<1>5. ASSUME NEW q \in Endpoints, StartChannelEngine(q) PROVE BudgetInv'
  <2>1. Numbering'
    BY <1>1, <1>3, <1>5, WaitsNumbered
  <2>2. TimerOfState'
    BY <1>1, <1>5, TimersKept
  <2>3. LeaderAccounted'
    BY <1>1, <1>2, <1>5, <2>1, StartAccounted
  <2>4. faults' <= MaxFaults
    BY <1>1, <1>5 DEF StartChannelEngine, envVars
  <2>5. QED
    BY <1>2, <2>1, <2>2, <2>3, <2>4 DEF BudgetInv
<1>6. ASSUME NEW q \in Endpoints, NEW k \in net[q], NEW rest \in SUBSET net[q],
             ProcessMessage(q, k, rest), Taken(q, k, rest), faults' <= MaxFaults
      PROVE  BudgetInv'
  <2>1. CASE Accepts(q, k) /\ Handle(q, k, rest)
    <3>1. Transition(q, k, rest)
      BY <1>1, <2>1, HandlersTransit DEF ProgressInv
    <3>2. Numbering'
      BY <1>1, <1>3, <3>1, TransitionNumbered
    <3>3. TimerOfState'
      BY <1>1, <3>1, TimersKept DEF Transition
    <3>4. LeaderAccounted'
      BY <1>1, <1>2, <1>6, <3>1, <3>2, TransitionAccounted
    <3>5. QED
      BY <1>2, <1>6, <3>2, <3>3, <3>4 DEF BudgetInv
  <2>2. CASE ~Accepts(q, k) /\ Drop(q, k, rest)
    <3>1. Numbering'
      BY <1>1, <1>3, <2>2, WaitsNumbered
    <3>2. TimerOfState'
      BY <1>1, <2>2, TimersKept
    <3>3. stateMachine' = stateMachine /\ gen' = gen
      BY <2>2 DEF Drop
    <3>4. \A p \in Endpoints : Charged(p) /\ Accounted(p) => Accounted(p)'
      BY <1>1, <1>2, <1>6, <2>2, <3>1, DropAccounted
    <3>5. LeaderAccounted'
      BY <1>1, <3>3, <3>4, SameLeader
    <3>6. QED
      BY <1>2, <1>6, <3>1, <3>2, <3>5 DEF BudgetInv
  <2>3. QED
    BY <1>6, <2>1, <2>2 DEF ProcessMessage
<1>7. ASSUME NEW q \in Endpoints, NEW k \in net[q], Deliver(q, k) \/ Duplicate(q, k)
      PROVE  BudgetInv'
  <2>1. faults' <= MaxFaults
    BY <1>1, <1>7, BoundsAssumption DEF Deliver, Duplicate
  <2>2. CASE Deliver(q, k)
    <3>1. ProcessMessage(q, k, net[q] \ {k}) /\ Taken(q, k, net[q] \ {k})
      BY <2>2 DEF Deliver, Taken
    <3>2. PICK rest : rest = net[q] \ {k}
      OBVIOUS
    <3>3. QED
      BY <1>6, <2>1, <3>1, <3>2
  <2>3. CASE Duplicate(q, k)
    <3>1. ProcessMessage(q, k, net[q]) /\ Taken(q, k, net[q])
      BY <2>3 DEF Duplicate, Taken
    <3>2. PICK rest : rest = net[q]
      OBVIOUS
    <3>3. QED
      BY <1>6, <2>1, <3>1, <3>2
  <2>4. QED
    BY <1>7, <2>2, <2>3
<1>8. CASE Next
  <2>1. PICK q \in Endpoints :
         \/ StartChannelEngine(q) \/ Retransmit(q) \/ IdleTimer(q)
         \/ ResetRetransmissionTimer(q) \/ SetPeerHelloHash(q)
         \/ RestartOnHelloHashMismatch(q)
         \/ \E k \in net[q] : Lose(q, k)
         \/ \E k \in net[q] : Deliver(q, k) \/ Duplicate(q, k)
    BY <1>8 DEF Next, Receive
  <2>2. ~RestartOnHelloHashMismatch(q)
    BY <1>1 DEF RestartOnHelloHashMismatch, HelloHashMismatch, PeerHello, ProgressInv,
       ContentionInv,
       AloneInv, AgreementInv
  <2>3. QED
    BY <1>4, <1>5, <1>7, <2>1, <2>2
<1>9. CASE UNCHANGED vars
  <2>1. Numbering' /\ TimerOfState' /\ faults' <= MaxFaults
    BY <1>1, <1>9 DEF Numbering, TimerOfState, TimerOf, MaxRetransmissions, vars,
       timerVars, envVars
  <2>2. LeaderAccounted'
    BY <1>1, <1>9 DEF LeaderAccounted, Leads, BothInit, Accounted, Covered, TimesSent,
       Requests, Answers,
       Fresh, Retransmitted, DHPart, AnswerType, vars, timerVars, keyVars, envVars
  <2>3. QED
    BY <1>2, <2>1, <2>2 DEF BudgetInv
<1>10. QED
  BY <1>8, <1>9

(* Nothing is sent and no fault spent in the initial states. *)
LEMMA BudgetInitial == ASSUME NoStrays PROVE Init => BudgetInv
<1> SUFFICES ASSUME Init PROVE BudgetInv
  OBVIOUS
<1>1. \A p \in Endpoints : net[p] = {} /\ Other(p) \in Endpoints
  BY OtherFacts DEF Init, NoStrays
<1>2. ProgressInv /\ TypeInv
  BY ProgressInitial, InitTyped
<1>3. PeerInv
  BY <1>2 DEF Init, NoPackets, PeerInv, OnePeer, Slots
<1>4. Numbering
  <2>1. \A p \in Endpoints : IsFiniteSet(net[p])
    BY <1>1, FS_EmptySet
  <2>2. QED
    BY <1>1, <2>1, BoundsAssumption DEF Init, Numbering
<1>5. TimerOfState /\ LeaderAccounted
  BY DEF Init, TimerOfState, TimerOf, RetransmittingStates, HelloTimerStates,
     LeaderAccounted, Leads,
     BothInit, Endpoints
<1>6. faults <= MaxFaults
  BY BoundsAssumption DEF Init
<1>7. QED
  BY <1>2, <1>3, <1>4, <1>5, <1>6 DEF BudgetInv

(* The requests of the leader are accounted for in every reachable state. *)
LEMMA BudgetInvariant == ASSUME NoStrays PROVE Spec => []BudgetInv
  BY BudgetInitial, BudgetKept, PTL DEF Spec

-----------------------------------------------------------------------------
(* Two endpoints that are started and not both secure have a leader. *)
LEMMA SomeoneLeads ==
    ASSUME ProgressInv, \A p \in Endpoints : stateMachine[p] # "NULL"
    PROVE  \/ \A p \in Endpoints : stateMachine[p] = "secure"
           \/ BothInit
           \/ \E p \in Endpoints : Leads(p)
<1> DEFINE s == stateMachine[A]
           t == stateMachine[B]
<1>1. /\ TypeOK /\ KeysAgreed /\ PeerStates /\ ContentionInv
      /\ A \in Endpoints /\ B \in Endpoints /\ Other(A) = B /\ Other(B) = A
      /\ \A p \in Endpoints : p = A \/ p = B
  BY EndpointsAssumption DEF ProgressInv, ContentionInv, AloneInv, AgreementInv, PeerInv,
     TypeInv, Endpoints,
     Other
<1>2. s \in States /\ t \in States /\ s # "NULL" /\ t # "NULL"
  BY <1>1 DEF TypeOK
<1>3. PeerState(A) /\ PeerState(B)
  BY <1>1 DEF PeerStates
<1>4. /\ s = "secure" => t \in {"sendingConfirm2", "secure"}
      /\ t = "secure" => s \in {"sendingConfirm2", "secure"}
  BY <1>1 DEF KeysAgreed, TypeOK, Roles
<1>5. CASE s \in InitiatingStates \/ t \in InitiatingStates
  BY <1>1, <1>5 DEF Leads, InitiatingStates
<1>6. CASE s = "sendingCommit" /\ t = "sendingCommit"
  <2>1. gen[A] \in 0..1 /\ gen[B] \in 0..1
    BY <1>1 DEF ContentionInv, GenOfState
  <2>2. Hvi(A, gen[A]) \in Nat /\ Hvi(B, gen[B]) \in Nat /\ Hvi(A, gen[A]) # Hvi(B, gen[B])
    BY <2>1, HviAssumption, EndpointsAssumption DEF Senders, Endpoints
  <2>3. Hvi(A, gen[A]) < Hvi(B, gen[B]) \/ Hvi(B, gen[B]) < Hvi(A, gen[A])
    BY <2>2
  <2>4. QED
    BY <1>1, <1>6, <2>3 DEF Leads
<1>7. CASE s = "init" /\ t = "init"
  BY <1>1, <1>7 DEF BothInit
<1>8. CASE s = "secure" /\ t = "secure"
  BY <1>1, <1>8
<1>9. CASE /\ ~(s \in InitiatingStates \/ t \in InitiatingStates)
           /\ ~(s = "sendingCommit" /\ t = "sendingCommit")
           /\ ~(s = "init" /\ t = "init")
           /\ ~(s = "secure" /\ t = "secure")
  <2>1. \/ s = "waitingForHelloAck" /\ t \in {"init", "waitingForHello", "waitingForHelloAck"}
        \/ s = "sendingCommit" /\ t \in {"waitingForHelloAck", "sendingDHPart1", "sendingConfirm1"}
        \/ t = "waitingForHelloAck" /\ s \in {"init", "waitingForHello", "waitingForHelloAck"}
        \/ t = "sendingCommit" /\ s \in {"waitingForHelloAck", "sendingDHPart1", "sendingConfirm1"}
    BY <1>1, <1>2, <1>3, <1>4, <1>9 DEF PeerState, EarlyStates, InitiatingStates, States
  <2>2. QED
    BY <1>1, <2>1 DEF Leads
<1>10. QED
  BY <1>5, <1>6, <1>7, <1>8, <1>9

(* The faults stay within the retransmissions: HelloMax of them follow the *)
(* first Hello, and NonHelloMax + 1 the first sending of another message.  *)
EnoughRetransmissions == MaxFaults <= HelloMax /\ MaxFaults <= NonHelloMax + 1

(* The retransmissions of bzrtp_iterate are enough: within the budget, no  *)
(* loss, repetition, overtaking or reset of the timer leaves the two       *)
(* endpoints waiting for each other with nothing on its way.               *)
THEOREM NoStall ==
    ASSUME NoStrays, EnoughRetransmissions
    PROVE  Spec => []NeverStalled
<1>1. BudgetInv => NeverStalled
  <2> SUFFICES ASSUME BudgetInv, \A p \in Endpoints : NothingToCome(p),
                      ~(\A p \in Endpoints : stateMachine[p] = "secure")
               PROVE  FALSE
    BY DEF NeverStalled
  <2>1. PICK p \in Endpoints : Charged(p) /\ Accounted(p)
    <3>1. BothInit \/ \E p \in Endpoints : Leads(p)
      BY SomeoneLeads DEF BudgetInv, NothingToCome
    <3>2. QED
      BY <3>1 DEF BudgetInv, LeaderAccounted, Charged
  <2>2. /\ stateMachine[p] \in RetransmittingStates /\ timerStatus[p] # "ON"
    BY <2>1, ChargedRetransmits DEF NothingToCome
  <2>3. firingCount[p] = MaxRetransmissions(stateMachine[p]) + 1
    BY <2>2 DEF BudgetInv, TimerOfState, TimerOf
  <2>4. Requests(p) = {} /\ Answers(p) = {}
    BY OtherFacts DEF Requests, Answers, Fresh, NothingToCome
  <2>5. faults \in Nat /\ Covered(p) = faults
    <3>1. faults \in Nat
      BY DEF BudgetInv, ProgressInv, ContentionInv, AloneInv, AgreementInv, PeerInv,
         TypeInv, TypeOK
    <3>2. Cardinality(Requests(p)) = 0 /\ Cardinality(Answers(p)) = 0
      BY <2>4, FS_EmptySet
    <3>3. QED
      BY <3>1, <3>2 DEF Covered
  <2>6. TimesSent(p) = IF stateMachine[p] \in HelloTimerStates THEN HelloMax + 1
                       ELSE NonHelloMax + 2
    BY <2>3, BoundsAssumption DEF TimesSent, MaxRetransmissions
  <2>7. TimesSent(p) <= faults /\ faults <= MaxFaults
    BY <2>1, <2>5 DEF Accounted, BudgetInv
  <2>8. QED
    BY <2>5, <2>6, <2>7, BoundsAssumption DEF EnoughRetransmissions
<1>2. QED
  BY <1>1, BudgetInvariant, PTL
=============================================================================
