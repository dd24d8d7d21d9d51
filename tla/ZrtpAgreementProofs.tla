------------------------ MODULE ZrtpAgreementProofs ------------------------
(***************************************************************************)
(* The SRTP keys and retained secrets are installed as SrtpKeyInstall      *)
(* says, whatever the network loses, duplicates or reorders, for any       *)
(* number of retransmissions and timer resets, in both modes, and although *)
(* a third endpoint takes part in the key agreement, with either end,      *)
(* until signalling names the right peer.                                  *)
(***************************************************************************)
EXTENDS ZrtpHandshakeProofs

(* No packets of a third endpoint. *)
NoStrays == StrayPackets = [p \in Endpoints |-> {}]

(* A third endpoint that never comes to confirm. *)
ConfirmTypes == {"Confirm1", "Confirm2", "Conf2ACK"}
Stray(m) == m.from = Stranger /\ m.type \notin ConfirmTypes
StraysUnconfirmed == \A p \in Endpoints : \A k \in StrayPackets[p] : Stray(k.msg)

ConfirmingStates == {"sendingConfirm1", "sendingConfirm2", "secure"}
UncommittedStates == {"NULL", "init", "waitingForHello", "waitingForHelloAck", "sendingCommit"}

(* A message p may have on its way, given the state p is in now: a Confirm *)
(* carries the keys p still has, and a Conf2ACK means that p is done.      *)
MessageBy(p, m) ==
    /\ m.from = p
    /\ m.type = "Confirm1" =>
          /\ role[p] = "RESPONDER"
          /\ stateMachine[p] \in {"sendingConfirm1", "secure"}
          /\ m.key = Directed(mackeys[p], "RESPONDER")
    /\ m.type = "Confirm2" =>
          /\ role[p] = "INITIATOR"
          /\ stateMachine[p] \in {"sendingConfirm2", "secure"}
          /\ m.key = Directed(mackeys[p], "INITIATOR")
    /\ m.type = "Conf2ACK" => role[p] = "RESPONDER" /\ stateMachine[p] = "secure"

(* The Confirm1 of a session that p gave up on signalling: its keys are    *)
(* not for the peer.                                                       *)
Abandoned(p, m) ==
    /\ m.type = "Confirm1"
    /\ m.from = p
    /\ m.key.s0.ini # Other(p)
    /\ m.key.dir = "RESPONDER"

MessagesKnown ==
    \A p \in Endpoints : \A k \in net[Other(p)] :
        Stray(k.msg) \/ MessageBy(p, k.msg) \/ Abandoned(p, k.msg)

(* The handshake is completed with the peer only: it is never restarted    *)
(* once there are SRTP keys.                                               *)
ConfirmedWithPeer ==
    \A p \in Endpoints :
        stateMachine[p] \in {"sendingConfirm2", "secure"} =>
            /\ peerPackets[p]["Hello"] # None
            /\ peerPackets[p]["Hello"].from = Other(p)

(* A role that survives a restart is of no use to an initiator: it has no  *)
(* Commit to check a DHPart1 against.                                      *)
RoleSettled ==
    \A p \in Endpoints :
        /\ stateMachine[p] \in RespondingStates => role[p] = "RESPONDER"
        /\ stateMachine[p] \in InitiatingStates => role[p] = "INITIATOR"
        /\ stateMachine[p] \in UncommittedStates => peerPackets[p]["Commit"] = None
        /\ stateMachine[p] = "sendingDHPart2" => mackeys[p].ini = p

(* What the client and the cache of an endpoint have been given. *)
Installed ==
    \A p \in Endpoints :
        /\ stateMachine[p] \notin {"sendingConfirm2", "secure"} => rx[p] = None
        /\ stateMachine[p] # "secure" => tx[p] = None /\ rs1[p] = None
        /\ stateMachine[p] = "sendingConfirm2" => rx[p] = Directed(mackeys[p], "RESPONDER")
        /\ stateMachine[p] = "secure" =>
              /\ mackeys[p] \in Keys
              /\ rx[p] = Directed(mackeys[p], PeerRole(role[p]))
              /\ tx[p] = Directed(mackeys[p], role[p])
              /\ rs1[p] = IF Mode = "DHM" THEN mackeys[p] ELSE None

(* A secure endpoint knows how far its peer is. *)
KeysAgreed ==
    \A p \in Endpoints : stateMachine[p] = "secure" =>
        /\ role[p] = "RESPONDER" =>
              /\ role[Other(p)] = "INITIATOR"
              /\ stateMachine[Other(p)] \in {"sendingConfirm2", "secure"}
              /\ mackeys[Other(p)] = mackeys[p]
        /\ role[p] = "INITIATOR" =>
              role[Other(p)] = "RESPONDER" /\ stateMachine[Other(p)] = "secure"

AgreementInv ==
    /\ PeerInv
    /\ MessagesKnown
    /\ ConfirmedWithPeer
    /\ RoleSettled
    /\ Installed
    /\ KeysAgreed

(* What holds besides without a third endpoint. *)

PeerMessages == \A p \in Endpoints : \A k \in net[Other(p)] : MessageBy(p, k.msg)

PeerHello ==
    \A p \in Endpoints :
        peerPackets[p]["Hello"] # None => peerPackets[p]["Hello"].from = Other(p)

RoleOfState ==
    \A p \in Endpoints :
        /\ stateMachine[p] \in RespondingStates => role[p] = "RESPONDER"
        /\ stateMachine[p] \notin RespondingStates \cup {"secure"} => role[p] = "INITIATOR"

AloneInv ==
    /\ AgreementInv
    /\ PeerMessages
    /\ PeerHello
    /\ RoleOfState

-----------------------------------------------------------------------------
(* What a step of p does, seen from the invariant.                         *)

(* MessageBy in the next state. *)
MessageByNext(p, m) ==
    /\ m.from = p
    /\ m.type = "Confirm1" =>
          /\ role'[p] = "RESPONDER"
          /\ stateMachine'[p] \in {"sendingConfirm1", "secure"}
          /\ m.key = Directed(mackeys'[p], "RESPONDER")
    /\ m.type = "Confirm2" =>
          /\ role'[p] = "INITIATOR"
          /\ stateMachine'[p] \in {"sendingConfirm2", "secure"}
          /\ m.key = Directed(mackeys'[p], "INITIATOR")
    /\ m.type = "Conf2ACK" => role'[p] = "RESPONDER" /\ stateMachine'[p] = "secure"

(* Packets are taken from p's side and only p's messages are added. *)
NetFrame(p) ==
    /\ net'[p] \subseteq net[p]
    /\ \A k \in net'[Other(p)] : k \in net[Other(p)] \/ MessageByNext(p, k.msg)

(* The other endpoint is left alone, and a Hello is stored as received. *)
OtherFrame(p) ==
    /\ stateMachine'[Other(p)] = stateMachine[Other(p)]
    /\ role'[Other(p)] = role[Other(p)]
    /\ mackeys'[Other(p)] = mackeys[Other(p)]
    /\ rx' = [rx EXCEPT ![p] = rx'[p]]
    /\ tx' = [tx EXCEPT ![p] = tx'[p]]
    /\ rs1' = [rs1 EXCEPT ![p] = rs1'[p]]
    /\ peerPackets'[Other(p)] = peerPackets[Other(p)]
    /\ \/ peerPackets'[p]["Hello"] \in {None, peerPackets[p]["Hello"]}
       \/ \E k \in net[p] : peerPackets'[p]["Hello"] = k.msg

(* The state stays; only a multistream initiator may derive keys again. *)
Quiet(p) ==
    /\ stateMachine'[p] = stateMachine[p]
    /\ role'[p] = role[p]
    /\ peerPackets'[p] = peerPackets[p]
    /\ mackeys'[p] = mackeys[p] \/ stateMachine[p] = "sendingCommit"
    /\ rx'[p] = rx[p] /\ tx'[p] = tx[p] /\ rs1'[p] = rs1[p]

(* Discovery and key agreement, up to the first Confirm message. *)
Negotiates(p) ==
    /\ stateMachine[p] \notin ConfirmingStates
    /\ stateMachine'[p] \notin {"sendingConfirm2", "secure"}
    /\ role'[p] = IF stateMachine'[p] \in RespondingStates THEN "RESPONDER" ELSE role[p]
    /\ stateMachine[p] \in RespondingStates => stateMachine'[p] \in RespondingStates
    /\ stateMachine'[p] \in UncommittedStates =>
          /\ stateMachine[p] \in UncommittedStates
          /\ peerPackets'[p]["Commit"] = peerPackets[p]["Commit"]
    /\ stateMachine'[p] = "sendingDHPart2" => role[p] = "INITIATOR" /\ mackeys'[p].ini = p
    /\ rx'[p] = rx[p] /\ tx'[p] = tx[p] /\ rs1'[p] = rs1[p]

(* bzrtp_setPeerHelloHash finds the Hello of a third endpoint. *)
Restarts(p) ==
    /\ HelloHashMismatch(p)
    /\ stateMachine'[p] = "init"
    /\ role'[p] = role[p]
    /\ peerPackets'[p]["Hello"] = None /\ peerPackets'[p]["Commit"] = None
    /\ rx'[p] = None /\ tx'[p] = None /\ rs1'[p] = rs1[p]

(* The three steps that hand out keys. *)
ReceiverInstalled(p) ==
    /\ stateMachine[p] \in {"sendingCommit", "sendingDHPart2"}
    /\ stateMachine'[p] = "sendingConfirm2"
    /\ role[p] = "INITIATOR" /\ role'[p] = "INITIATOR"
    /\ mackeys'[p] \in Keys
    /\ rx'[p] = Directed(mackeys'[p], "RESPONDER") /\ tx'[p] = tx[p] /\ rs1'[p] = rs1[p]
    /\ stateMachine[Other(p)] = "sendingConfirm1"
    /\ peerPackets'[p]["Hello"] # None /\ peerPackets'[p]["Hello"].from = Other(p)

Secured(p) ==
    /\ stateMachine'[p] = "secure"
    /\ role'[p] = role[p]
    /\ mackeys'[p] = mackeys[p] /\ mackeys[p] \in Keys
    /\ tx'[p] = Directed(mackeys[p], role[p])
    /\ rs1'[p] = IF Mode = "DHM" THEN mackeys[p] ELSE rs1[p]
    /\ peerPackets'[p]["Hello"] # None /\ peerPackets'[p]["Hello"].from = Other(p)

ResponderSecured(p) ==
    /\ stateMachine[p] = "sendingConfirm1"
    /\ role[p] = "RESPONDER"
    /\ Secured(p)
    /\ rx'[p] = Directed(mackeys[p], "INITIATOR")
    /\ role[Other(p)] = "INITIATOR"
    /\ stateMachine[Other(p)] \in {"sendingConfirm2", "secure"}
    /\ mackeys[Other(p)] = mackeys[p]

InitiatorSecured(p) ==
    /\ stateMachine[p] = "sendingConfirm2"
    /\ role[p] = "INITIATOR"
    /\ Secured(p)
    /\ rx'[p] = rx[p]
    /\ role[Other(p)] = "RESPONDER"
    /\ stateMachine[Other(p)] = "secure"

StepOf(p) ==
    /\ NetFrame(p)
    /\ OtherFrame(p)
    /\ \/ Quiet(p)
       \/ Negotiates(p)
       \/ Restarts(p)
       \/ ReceiverInstalled(p)
       \/ ResponderSecured(p)
       \/ InitiatorSecured(p)

-----------------------------------------------------------------------------
(* Messages that are not Confirms or Conf2ACKs are p's whatever its state. *)
LEMMA PlainMessages ==
    ASSUME NEW p \in Endpoints
    PROVE  /\ MessageByNext(p, Hello(p))
           /\ MessageByNext(p, HelloACK(p))
           /\ \A g, q : MessageByNext(p, Commit(p, g, q))
           /\ \A r : MessageByNext(p, DHPart(p, r))
  BY DEF MessageByNext, Hello, HelloACK, Commit, DHPart, Message

(* A step that sends nothing adds no packet. *)
LEMMA SilentFrame ==
    ASSUME TypeOK, NEW p \in Endpoints, NEW rest \in SUBSET net[p], Silent(p, rest)
    PROVE  NetFrame(p)
  BY OtherFacts DEF TypeOK, Silent, NetFrame

(* bzrtp_sendPacket adds one packet, for the peer. *)
LEMMA SendFrame ==
    ASSUME TypeOK, NEW p \in Endpoints, NEW rest \in SUBSET net[p],
           NEW m, MessageByNext(p, m), SendPacket(p, rest, m)
    PROVE  NetFrame(p)
  BY OtherFacts DEF TypeOK, SendPacket, NetFrame

(* Two calls of it add two packets, for the peer. *)
LEMMA SendTwoFrame ==
    ASSUME TypeOK, NEW p \in Endpoints, NEW rest \in SUBSET net[p],
           NEW m1, MessageByNext(p, m1), NEW m2, MessageByNext(p, m2),
           SendPackets(p, rest, m1, m2)
    PROVE  NetFrame(p)
  BY OtherFacts DEF TypeOK, SendPackets, NetFrame

(* The facts about a delivered packet that the handlers rely on: what      *)
(* confirms comes from the peer.                                           *)
LEMMA Delivered ==
    ASSUME AgreementInv, NEW p \in Endpoints, NEW k \in net[p]
    PROVE  /\ k \in Packets
           /\ k.msg \in Messages
           /\ k.msg # None
           /\ k.msg.type \in ConfirmTypes =>
                 /\ k.msg.from = Other(p)
                 /\ MessageBy(Other(p), k.msg) \/ Abandoned(Other(p), k.msg)
<1>1. k \in net[Other(Other(p))] /\ Other(p) \in Endpoints
  BY OtherFacts
<1>2. Stray(k.msg) \/ MessageBy(Other(p), k.msg) \/ Abandoned(Other(p), k.msg)
  BY <1>1 DEF AgreementInv, MessagesKnown
<1>3. k \in Packets
  BY DEF AgreementInv, PeerInv, TypeInv, TypeOK
<1>4. k.msg \in Messages /\ k.msg # None
  BY <1>3, EndpointsAssumption DEF Packets
<1>5. QED
  BY <1>2, <1>3, <1>4 DEF Stray, MessageBy, Abandoned

(* The two fields of a directed key. *)
LEMMA DirectedFields ==
    \A k, r : Directed(k, r).s0 = k /\ Directed(k, r).dir = r
  BY DEF Directed

(* Every handler takes a step of one of the kinds. *)
LEMMA HandlersStep ==
    ASSUME AgreementInv, NEW p \in Endpoints, NEW k \in net[p],
           NEW rest \in SUBSET net[p], Accepts(p, k), Handle(p, k, rest)
    PROVE  StepOf(p)
<1>1. /\ TypeOK /\ HelloStored /\ KeysDerived
      /\ RoleSettled /\ ConfirmedWithPeer /\ Installed /\ KeysAgreed
  BY DEF AgreementInv, PeerInv, TypeInv
<1>2. /\ k.msg \in Messages
      /\ k.msg # None
      /\ k.msg.type \in ConfirmTypes =>
            /\ k.msg.from = Other(p)
            /\ MessageBy(Other(p), k.msg) \/ Abandoned(Other(p), k.msg)
  BY Delivered
<1>3. Other(p) \in Endpoints /\ Other(p) # p
  BY OtherFacts
<1>4. /\ MessageByNext(p, HelloACK(p))
      /\ \A g, q : MessageByNext(p, Commit(p, g, q))
      /\ \A r : MessageByNext(p, DHPart(p, r))
  BY PlainMessages
<1>5. CASE InitHello(p, k, rest)
  <2>1. NetFrame(p)
    BY <1>1, <1>4, <1>5, SendFrame DEF InitHello
  <2>2. OtherFrame(p)
    BY <1>1, <1>2, <1>3, <1>5 DEF InitHello, OtherFrame, TypeOK, keyVars, GoTo, Store, SlotOf,
       Slots
  <2>3. Negotiates(p)
    BY <1>1, <1>2, <1>3, <1>5 DEF InitHello, Negotiates, TypeOK, RoleSettled, RespondingStates,
       UncommittedStates, ConfirmingStates, keyVars, GoTo, Store, SlotOf, Slots
  <2>4. QED
    BY <2>1, <2>2, <2>3 DEF StepOf
<1>6. CASE InitHelloACK(p, k, rest)
  <2>1. NetFrame(p)
    BY <1>1, <1>4, <1>6, SilentFrame DEF InitHelloACK
  <2>2. OtherFrame(p)
    BY <1>1, <1>2, <1>3, <1>6 DEF InitHelloACK, OtherFrame, TypeOK, keyVars, GoTo
  <2>3. Negotiates(p)
    BY <1>1, <1>2, <1>3, <1>6 DEF InitHelloACK, Negotiates, TypeOK, RoleSettled, RespondingStates,
       UncommittedStates, ConfirmingStates, keyVars, GoTo
  <2>4. QED
    BY <2>1, <2>2, <2>3 DEF StepOf
<1>7. CASE WaitingForHelloHello(p, k, rest)
  <2>1. NetFrame(p)
    BY <1>1, <1>4, <1>7, SendTwoFrame DEF WaitingForHelloHello
  <2>2. OtherFrame(p)
    BY <1>1, <1>2, <1>3, <1>7 DEF WaitingForHelloHello, OtherFrame, TypeOK, keyVars, GoTo,
       Store, SlotOf, Slots
  <2>3. Negotiates(p)
    BY <1>1, <1>2, <1>3, <1>7
    DEF WaitingForHelloHello, Negotiates, TypeOK, RoleSettled, RespondingStates,
       UncommittedStates, ConfirmingStates, keyVars, GoTo, Store, SlotOf, Slots, Accepts, ExpectedTypes
  <2>4. QED
    BY <2>1, <2>2, <2>3 DEF StepOf
<1>8. CASE RepeatedHello(p, k, rest)
  <2>1. NetFrame(p)
    BY <1>1, <1>4, <1>8, SendFrame DEF RepeatedHello
  <2>2. OtherFrame(p)
    BY <1>1, <1>2, <1>3, <1>8 DEF RepeatedHello, OtherFrame, TypeOK, keyVars
  <2>3. Quiet(p)
    BY <1>1, <1>2, <1>3, <1>8
    DEF RepeatedHello, Quiet, TypeOK, RoleSettled, RespondingStates, InitiatingStates,
       ConfirmingStates, keyVars
  <2>4. QED
    BY <2>1, <2>2, <2>3 DEF StepOf
<1>9. CASE WaitingForHelloAckHelloACK(p, k, rest)
  <2>1. NetFrame(p)
    BY <1>1, <1>4, <1>9, SendFrame DEF WaitingForHelloAckHelloACK
  <2>2. OtherFrame(p)
    BY <1>1, <1>2, <1>3, <1>9 DEF WaitingForHelloAckHelloACK, OtherFrame, TypeOK, keyVars, GoTo
  <2>3. Negotiates(p)
    BY <1>1, <1>2, <1>3, <1>9
    DEF WaitingForHelloAckHelloACK, Negotiates, TypeOK, RoleSettled, RespondingStates,
       UncommittedStates, ConfirmingStates, keyVars, GoTo
  <2>4. QED
    BY <2>1, <2>2, <2>3 DEF StepOf
<1>10. CASE TurnIntoResponder(p, k, rest)
  <2>1. Negotiates(p)
    BY <1>1, <1>10 DEF TurnIntoResponder, Negotiates, TypeOK, RespondingStates,
       UncommittedStates, ConfirmingStates, GoTo
  <2>2. OtherFrame(p)
    BY <1>1, <1>2, <1>3, <1>10 DEF TurnIntoResponder, OtherFrame, TypeOK, GoTo, Store, SlotOf,
       Slots, DeriveKeys
  <2>3. CASE Mode = "DHM"
    <3>1. NetFrame(p)
      BY <1>1, <1>4, <1>10, <2>3, SendFrame DEF TurnIntoResponder
    <3>2. QED
      BY <2>1, <2>2, <3>1 DEF StepOf
  <2>4. CASE Mode = "Mult"
    <3> DEFINE key == Key(k.msg.from, k.msg.gen, p, 0)
    <3>1. MessageByNext(p, Confirm(p, "RESPONDER", key))
      BY <1>1, <1>10, <2>4
      DEF TurnIntoResponder, MessageByNext, Confirm, Message, DeriveKeys, GoTo, TypeOK
    <3>2. NetFrame(p)
      BY <1>1, <1>10, <2>4, <3>1, SendFrame DEF TurnIntoResponder
    <3>3. QED
      BY <2>1, <2>2, <3>2 DEF StepOf
  <2>5. QED
    BY <2>3, <2>4, ModeAssumption
<1>11. CASE KeepInitiating(p, k, rest)
  <2>1. NetFrame(p)
    BY <1>1, <1>4, <1>11, SilentFrame DEF KeepInitiating
  <2>2. OtherFrame(p)
    BY <1>1, <1>2, <1>3, <1>11 DEF KeepInitiating, OtherFrame, TypeOK, keyVars
  <2>3. Quiet(p)
    BY <1>1, <1>2, <1>3, <1>11
    DEF KeepInitiating, Quiet, TypeOK, RoleSettled, RespondingStates, InitiatingStates,
       ConfirmingStates, keyVars
  <2>4. QED
    BY <2>1, <2>2, <2>3 DEF StepOf
<1>12. CASE CommitDHPart1(p, k, rest)
  <2>1. NetFrame(p)
    BY <1>1, <1>4, <1>12, SendFrame DEF CommitDHPart1
  <2>2. OtherFrame(p)
    BY <1>1, <1>2, <1>3, <1>12 DEF CommitDHPart1, OtherFrame, TypeOK, keyVars, GoTo, Store,
       SlotOf, Slots, DeriveKeys
  <2>3. role[p] = "INITIATOR"
    BY <1>1, <1>12 DEF CommitDHPart1, RoleSettled, UncommittedStates, Accepts, RepetitionStates,
       Parses, ParsesDHPart, TypeOK, Roles
  <2>4. mackeys'[p].ini = p
    BY <1>1, <1>12 DEF CommitDHPart1, DeriveKeys, Key, TypeOK
  <2>5. Negotiates(p)
    BY <1>1, <1>12, <2>3, <2>4 DEF CommitDHPart1, Negotiates, TypeOK, RespondingStates,
       UncommittedStates, ConfirmingStates, GoTo
  <2>6. QED
    BY <2>1, <2>2, <2>5 DEF StepOf
<1>13. CASE RepeatedCommit(p, k, rest)
  <2>1. NetFrame(p)
    BY <1>1, <1>4, <1>13, SendFrame DEF RepeatedCommit
  <2>2. OtherFrame(p)
    BY <1>1, <1>2, <1>3, <1>13 DEF RepeatedCommit, OtherFrame, TypeOK, keyVars
  <2>3. Quiet(p)
    BY <1>1, <1>2, <1>3, <1>13
    DEF RepeatedCommit, Quiet, TypeOK, RoleSettled, RespondingStates, InitiatingStates,
       ConfirmingStates, keyVars
  <2>4. QED
    BY <2>1, <2>2, <2>3 DEF StepOf
<1>14. CASE DHPart1DHPart2(p, k, rest)
  <2>1. MessageByNext(p, Confirm(p, "RESPONDER", Key(k.msg.from, k.msg.gen, p, gen[p])))
    BY <1>1, <1>14 DEF DHPart1DHPart2, MessageByNext, Confirm, Message, DeriveKeys, GoTo,
       TypeOK, RoleSettled, RespondingStates, InitiatingStates
  <2>2. NetFrame(p)
    BY <1>1, <1>4, <1>14, <2>1, SendFrame DEF DHPart1DHPart2
  <2>3. OtherFrame(p)
    BY <1>1, <1>2, <1>3, <1>14 DEF DHPart1DHPart2, OtherFrame, TypeOK, keyVars, GoTo, Store,
       SlotOf, Slots, DeriveKeys
  <2>4. Negotiates(p)
    BY <1>1, <1>14 DEF DHPart1DHPart2, Negotiates, TypeOK, RoleSettled, RespondingStates,
       UncommittedStates, ConfirmingStates, GoTo
  <2>5. QED
    BY <2>2, <2>3, <2>4 DEF StepOf
<1>15. CASE RepeatedAnswer(p, k, rest)
  <2>1. NetFrame(p)
    BY <1>1, <1>4, <1>15, SilentFrame DEF RepeatedAnswer
  <2>2. OtherFrame(p)
    BY <1>1, <1>2, <1>3, <1>15 DEF RepeatedAnswer, OtherFrame, TypeOK, keyVars
  <2>3. Quiet(p)
    BY <1>1, <1>2, <1>3, <1>15
    DEF RepeatedAnswer, Quiet, TypeOK, RoleSettled, RespondingStates, InitiatingStates,
       ConfirmingStates, keyVars
  <2>4. QED
    BY <2>1, <2>2, <2>3 DEF StepOf
<1>16. CASE Confirm1(p, k, rest)
  <2>1. KeysForConfirm(p) \in Keys
    BY <1>16, KeysTyped DEF Confirm1, Accepts, ExpectedTypes, AgreementInv, PeerInv
  <2>2. /\ k.msg.from = Other(p)
        /\ MessageBy(Other(p), k.msg) \/ Abandoned(Other(p), k.msg)
        /\ k.msg.key = Directed(KeysForConfirm(p), PeerRole(role[p]))
        /\ k.msg.from = peerPackets[p]["Hello"].from
    BY <1>2, <1>16 DEF Confirm1, ConfirmTypes, Accepts, RepetitionStates, Parses, ParsesConfirm
  <2>3. role[p] = "INITIATOR"
    BY <1>1, <1>16, <2>2 DEF Confirm1, MessageBy, Abandoned, Directed, PeerRole, TypeOK, Roles
  <2>4. KeysForConfirm(p).ini = p
    BY <1>1, <1>16 DEF Confirm1, KeysForConfirm, Key, RoleSettled, Accepts, ExpectedTypes
  <2>5. stateMachine[Other(p)] = "sendingConfirm1"
    <3>1. ~Abandoned(Other(p), k.msg)
      <4>1. Directed(KeysForConfirm(p), PeerRole(role[p])).s0 = KeysForConfirm(p)
        BY DirectedFields
      <4>2. k.msg.key.s0.ini = p
        BY <2>2, <2>4, <4>1
      <4>3. QED
        BY <4>2, OtherFacts DEF Abandoned
    <3>2. /\ role[Other(p)] = "RESPONDER"
          /\ stateMachine[Other(p)] \in {"sendingConfirm1", "secure"}
      BY <1>16, <2>2, <3>1 DEF Confirm1, MessageBy
    <3>3. stateMachine[Other(p)] # "secure"
      BY <1>1, <1>3, <1>16, <3>2, OtherFacts DEF Confirm1, KeysAgreed
    <3>4. QED
      BY <3>2, <3>3
  <2>6. peerPackets'[p]["Hello"] # None /\ peerPackets'[p]["Hello"].from = Other(p)
    <3>1. peerPackets'[p]["Hello"] = peerPackets[p]["Hello"]
      BY <1>1, <1>16 DEF Confirm1, Store, SlotOf, Slots, TypeOK
    <3>2. peerPackets[p]["Hello"] # None
      BY <1>1, <1>16 DEF Confirm1, Accepts, ExpectedTypes, HelloStored
    <3>3. QED
      BY <2>2, <3>1, <3>2
  <2>7. ReceiverInstalled(p)
    BY <1>1, <1>16, <2>1, <2>3, <2>5, <2>6
    DEF Confirm1, ReceiverInstalled, TypeOK, GoTo, DeriveKeys, SecretsForReceiver, PeerRole
  <2>8. MessageByNext(p, Confirm(p, "INITIATOR", KeysForConfirm(p)))
    BY <1>1, <1>16, <2>3
    DEF Confirm1, MessageByNext, Confirm, Message, DeriveKeys, GoTo, TypeOK
  <2>9. NetFrame(p)
    BY <1>1, <1>3, <1>16, <2>8 DEF Confirm1, NetFrame, TypeOK
  <2>10. OtherFrame(p)
    BY <1>1, <1>2, <1>3, <1>16 DEF Confirm1, OtherFrame, TypeOK, GoTo, Store, SlotOf, Slots,
       DeriveKeys, SecretsForReceiver
  <2>11. QED
    BY <2>7, <2>9, <2>10 DEF StepOf
<1>17. CASE RepeatedRequest(p, k, rest)
  <2>1. MessageByNext(p, Confirm(p, "RESPONDER", mackeys[p]))
    BY <1>1, <1>17 DEF RepeatedRequest, MessageByNext, Confirm, Message, RoleSettled,
        RespondingStates, InitiatingStates, keyVars
  <2>2. NetFrame(p)
    BY <1>1, <1>4, <1>17, <2>1, SendFrame DEF RepeatedRequest
  <2>3. OtherFrame(p)
    BY <1>1, <1>2, <1>3, <1>17 DEF RepeatedRequest, OtherFrame, TypeOK, keyVars
  <2>4. Quiet(p)
    BY <1>1, <1>2, <1>3, <1>17, <2>1
    DEF RepeatedRequest, Quiet, TypeOK, RoleSettled, RespondingStates, InitiatingStates,
       ConfirmingStates, keyVars
  <2>5. QED
    BY <2>2, <2>3, <2>4 DEF StepOf
<1>18. CASE Confirm2(p, k, rest)
  <2>1. role[p] = "RESPONDER" /\ mackeys[p] \in Keys /\ s0[p] = mackeys[p]
    BY <1>1, <1>18
    DEF Confirm2, RoleSettled, RespondingStates, InitiatingStates, KeysDerived, TypeOK
  <2>2. k.msg.key = Directed(mackeys[p], "INITIATOR")
    BY <1>18, <2>1
    DEF Confirm2, Accepts, RepetitionStates, Parses, ParsesConfirm, KeysForConfirm, PeerRole
  <2>3. /\ role[Other(p)] = "INITIATOR"
        /\ stateMachine[Other(p)] \in {"sendingConfirm2", "secure"}
        /\ k.msg.key = Directed(mackeys[Other(p)], "INITIATOR")
    BY <1>2, <1>18 DEF Confirm2, ConfirmTypes, MessageBy, Abandoned
  <2>4. mackeys[Other(p)] = mackeys[p]
    BY <2>2, <2>3 DEF Directed
  <2>5. Secured(p)
    <3>1. k.msg.from = Other(p) /\ k.msg.from = peerPackets[p]["Hello"].from
      BY <1>2, <1>18 DEF Confirm2, ConfirmTypes, Accepts, RepetitionStates, Parses, ParsesConfirm
    <3>2. peerPackets'[p]["Hello"] # None /\ peerPackets'[p]["Hello"].from = Other(p)
      <4>1. peerPackets'[p]["Hello"] = peerPackets[p]["Hello"]
        BY <1>1, <1>18 DEF Confirm2, Store, SlotOf, Slots, TypeOK
      <4>2. peerPackets[p]["Hello"] # None
        BY <1>1, <1>18 DEF Confirm2, HelloStored
      <4>3. QED
        BY <3>1, <4>1, <4>2
    <3>3. QED
      BY <1>1, <1>18, <2>1, <3>2
      DEF Confirm2, Secured, TypeOK, GoTo, UpdateCachedSecrets, SecretsForSender
  <2>6. rx'[p] = Directed(mackeys[p], "INITIATOR")
    BY <1>1, <1>18, <2>1 DEF Confirm2, TypeOK, SecretsForReceiver, PeerRole
  <2>7. ResponderSecured(p)
    BY <1>18, <2>1, <2>3, <2>4, <2>5, <2>6 DEF Confirm2, ResponderSecured
  <2>8. MessageByNext(p, Conf2ACK(p))
    BY <2>1, <2>5 DEF MessageByNext, Conf2ACK, Message, Secured
  <2>9. NetFrame(p)
    BY <1>1, <1>18, <2>8, SendFrame DEF Confirm2
  <2>10. OtherFrame(p)
    BY <1>1, <1>2, <1>3, <1>18 DEF Confirm2, OtherFrame, TypeOK, GoTo, Store, SlotOf, Slots,
       UpdateCachedSecrets, SecretsForReceiver, SecretsForSender
  <2>11. QED
    BY <2>7, <2>9, <2>10 DEF StepOf
<1>19. CASE Conf2ACKReceived(p, k, rest)
  <2>1. role[p] = "INITIATOR" /\ mackeys[p] \in Keys /\ s0[p] = mackeys[p]
    BY <1>1, <1>19
    DEF Conf2ACKReceived, RoleSettled, RespondingStates, InitiatingStates, KeysDerived, TypeOK
  <2>2. role[Other(p)] = "RESPONDER" /\ stateMachine[Other(p)] = "secure"
    BY <1>2, <1>19 DEF Conf2ACKReceived, ConfirmTypes, MessageBy, Abandoned
  <2>3. Secured(p)
    BY <1>1, <1>19, <2>1
    DEF Conf2ACKReceived, ConfirmedWithPeer, Secured, TypeOK, GoTo, UpdateCachedSecrets,
        SecretsForSender
  <2>4. InitiatorSecured(p)
    BY <1>19, <2>1, <2>2, <2>3 DEF Conf2ACKReceived, InitiatorSecured
  <2>5. NetFrame(p)
    BY <1>1, <1>19, SilentFrame DEF Conf2ACKReceived
  <2>6. OtherFrame(p)
    BY <1>1, <1>2, <1>3, <1>19 DEF Conf2ACKReceived, OtherFrame, TypeOK, GoTo,
       UpdateCachedSecrets, SecretsForSender
  <2>7. QED
    BY <2>4, <2>5, <2>6 DEF StepOf
<1>20. CASE RepeatedConfirm2(p, k, rest)
  <2>1. role[p] = "RESPONDER"
    BY <1>1, <1>2, <1>20 DEF RepeatedConfirm2, ConfirmTypes, MessageBy, Abandoned, KeysAgreed,
       TypeOK, Roles
  <2>2. MessageByNext(p, Conf2ACK(p))
    BY <1>20, <2>1 DEF RepeatedConfirm2, MessageByNext, Conf2ACK, Message
  <2>3. NetFrame(p)
    BY <1>1, <1>4, <1>20, <2>1, <2>2, SendFrame DEF RepeatedConfirm2
  <2>4. OtherFrame(p)
    BY <1>1, <1>2, <1>3, <1>20 DEF RepeatedConfirm2, OtherFrame, TypeOK, keyVars
  <2>5. Quiet(p)
    BY <1>1, <1>2, <1>3, <1>20, <2>1, <2>2
    DEF RepeatedConfirm2, Quiet, TypeOK, RoleSettled, RespondingStates, InitiatingStates,
       ConfirmingStates, keyVars
  <2>6. QED
    BY <2>3, <2>4, <2>5 DEF StepOf
<1>21. QED
  BY <1>5, <1>6, <1>7, <1>8, <1>9, <1>10, <1>11, <1>12, <1>13, <1>14, <1>15, <1>16, <1>17,
     <1>18, <1>19, <1>20 DEF Handle

(* Dropping a packet is a step of one of the kinds. *)
LEMMA DropStep ==
    ASSUME AgreementInv, NEW p \in Endpoints, NEW k \in net[p],
           NEW rest \in SUBSET net[p], Drop(p, k, rest)
    PROVE  StepOf(p)
<1>1. TypeOK /\ Other(p) # p /\ Other(p) \in Endpoints
  BY OtherFacts DEF AgreementInv, PeerInv, TypeInv
<1>2. NetFrame(p)
  BY <1>1, SilentFrame DEF Drop
<1>3. OtherFrame(p)
  BY <1>1 DEF Drop, OtherFrame, TypeOK
<1>4. Quiet(p)
  BY <1>1 DEF Drop, Quiet, TypeOK, DerivesBeforeCheck
<1>5. QED
  BY <1>2, <1>3, <1>4 DEF StepOf

(* Every step of the system is a step of one endpoint. *)
LEMMA NextStep ==
    ASSUME AgreementInv, Next
    PROVE  \E p \in Endpoints : StepOf(p)
<1>1. TypeOK /\ RoleSettled
  BY DEF AgreementInv, PeerInv, TypeInv
<1>2. PICK p \in Endpoints :
         \/ StartChannelEngine(p)
         \/ Retransmit(p)
         \/ IdleTimer(p)
         \/ ResetRetransmissionTimer(p)
         \/ SetPeerHelloHash(p)
         \/ RestartOnHelloHashMismatch(p)
         \/ \E k \in net[p] : Deliver(p, k) \/ Duplicate(p, k) \/ Lose(p, k)
  BY DEF Next, Receive
<1>3. Other(p) \in Endpoints /\ Other(p) # p
  BY OtherFacts
<1>4. CASE StartChannelEngine(p)
  <2>1. NetFrame(p)
    BY <1>4 DEF StartChannelEngine, NetFrame
  <2>2. OtherFrame(p)
    BY <1>1, <1>3, <1>4 DEF StartChannelEngine, EnterDiscovery, OtherFrame, TypeOK, keyVars
  <2>3. Negotiates(p)
    BY <1>1, <1>4 DEF StartChannelEngine, EnterDiscovery, Negotiates, TypeOK,
       RespondingStates, UncommittedStates, ConfirmingStates, keyVars
  <2>4. QED
    BY <2>1, <2>2, <2>3 DEF StepOf
<1>5. CASE Retransmit(p)
  <2>1. MessageByNext(p, Retransmitted(p))
    <3>1. /\ MessageByNext(p, Hello(p))
          /\ \A g, q : MessageByNext(p, Commit(p, g, q))
          /\ \A r : MessageByNext(p, DHPart(p, r))
      BY PlainMessages
    <3>2. CASE stateMachine[p] # "sendingConfirm2"
      BY <1>5, <3>1, <3>2 DEF Retransmit, Retransmitted, HelloTimerStates, RetransmittingStates
    <3>3. CASE stateMachine[p] = "sendingConfirm2"
      <4>1. MessageByNext(p, Confirm(p, "INITIATOR", mackeys[p]))
        BY <1>1, <1>5, <3>3
        DEF Retransmit, MessageByNext, Confirm, Message, RoleSettled, RespondingStates,
            InitiatingStates, keyVars
      <4>2. QED
        BY <3>3, <4>1 DEF Retransmitted, HelloTimerStates
    <3>4. QED
      BY <3>2, <3>3
  <2>2. NetFrame(p)
    BY <1>1, <1>5, <2>1, SendFrame DEF Retransmit
  <2>3. OtherFrame(p) /\ Quiet(p)
    BY <1>1, <1>5 DEF Retransmit, OtherFrame, Quiet, TypeOK, keyVars
  <2>4. QED
    BY <2>2, <2>3 DEF StepOf
<1>6. CASE IdleTimer(p)
  BY <1>1, <1>6 DEF IdleTimer, StepOf, NetFrame, OtherFrame, Quiet, TypeOK, keyVars
<1>7. CASE ResetRetransmissionTimer(p)
  BY <1>1, <1>7 DEF ResetRetransmissionTimer, StepOf, NetFrame, OtherFrame, Quiet, TypeOK,
     keyVars
<1>8. CASE SetPeerHelloHash(p)
  BY <1>1, <1>8 DEF SetPeerHelloHash, StepOf, NetFrame, OtherFrame, Quiet, TypeOK, keyVars
<1>9. CASE RestartOnHelloHashMismatch(p)
  <2>1. NetFrame(p)
    BY <1>9 DEF RestartOnHelloHashMismatch, NetFrame
  <2>2. OtherFrame(p)
    BY <1>1, <1>3, <1>9 DEF RestartOnHelloHashMismatch, EnterDiscovery, OtherFrame, TypeOK,
       NoPackets, Slots
  <2>3. Restarts(p)
    BY <1>1, <1>9 DEF RestartOnHelloHashMismatch, EnterDiscovery, Restarts, TypeOK, NoPackets,
       Slots
  <2>4. QED
    BY <2>1, <2>2, <2>3 DEF StepOf
<1>10. ASSUME NEW k \in net[p], Deliver(p, k) \/ Duplicate(p, k) PROVE StepOf(p)
  BY <1>10, HandlersStep, DropStep DEF Deliver, Duplicate, ProcessMessage
<1>11. ASSUME NEW k \in net[p], Lose(p, k) PROVE StepOf(p)
  BY <1>1, <1>3, <1>11 DEF Lose, StepOf, NetFrame, OtherFrame, Quiet, TypeOK, keyVars
<1>12. QED
  BY <1>2, <1>4, <1>5, <1>6, <1>7, <1>8, <1>9, <1>10, <1>11

-----------------------------------------------------------------------------
(* A step of each kind keeps what the messages in flight say. *)
LEMMA MessagesStay ==
    ASSUME AgreementInv, NEW p \in Endpoints, StepOf(p), NEW m, MessageBy(p, m)
    PROVE  MessageByNext(p, m) \/ Abandoned(p, m)
<1>1. \/ Quiet(p) \/ Negotiates(p) \/ Restarts(p) \/ ReceiverInstalled(p)
      \/ ResponderSecured(p) \/ InitiatorSecured(p)
  BY DEF StepOf
<1>2. CASE Restarts(p)
  <2>1. stateMachine[p] \notin {"sendingConfirm2", "secure"}
    BY <1>2 DEF Restarts, HelloHashMismatch, AgreementInv, ConfirmedWithPeer
  <2>2. m.type = "Confirm1" => mackeys[p].ini # Other(p)
    <3>1. SUFFICES ASSUME m.type = "Confirm1" PROVE mackeys[p].ini # Other(p)
      OBVIOUS
    <3>2. mackeys[p] # None
      BY <2>1, <3>1, EndpointsAssumption
      DEF MessageBy, AgreementInv, PeerInv, TypeInv, KeysDerived
    <3>3. {mackeys[p].ini, mackeys[p].rsp} = {p, peerPackets[p]["Hello"].from}
      BY <3>2 DEF AgreementInv, PeerInv, OnePeer
    <3>4. QED
      BY <1>2, <3>3, OtherFacts DEF Restarts, HelloHashMismatch
  <2>3. QED
    BY <2>1, <2>2, DirectedFields DEF MessageBy, MessageByNext, Abandoned
<1>3. CASE ~Restarts(p)
  BY <1>1, <1>3 DEF MessageBy, MessageByNext, Quiet, Negotiates, ReceiverInstalled,
     ResponderSecured, InitiatorSecured, Secured, ConfirmingStates
<1>4. QED
  BY <1>2, <1>3

(* A step of each kind preserves the invariant. *)
LEMMA StepKeeps ==
    ASSUME AgreementInv, PeerInv', NEW p \in Endpoints, StepOf(p)
    PROVE  AgreementInv'
<1> DEFINE q == Other(p)
<1>1. /\ TypeOK /\ MessagesKnown /\ ConfirmedWithPeer /\ RoleSettled /\ Installed /\ KeysAgreed
      /\ NetFrame(p) /\ OtherFrame(p)
  BY DEF AgreementInv, PeerInv, TypeInv, StepOf
<1>2. q \in Endpoints /\ q # p /\ Other(q) = p /\ \A r \in Endpoints : r = p \/ r = q
  BY OtherFacts DEF Endpoints, Other
<1>3. \/ Quiet(p) \/ Negotiates(p) \/ Restarts(p) \/ ReceiverInstalled(p)
      \/ ResponderSecured(p) \/ InitiatorSecured(p)
  BY DEF StepOf
<1>4. Restarts(p) => stateMachine[p] \notin {"sendingConfirm2", "secure"}
  BY <1>1 DEF Restarts, HelloHashMismatch, ConfirmedWithPeer
<1>5. MessagesKnown'
  <2>1. ASSUME NEW k \in net'[p]
        PROVE  Stray(k.msg) \/ MessageBy(q, k.msg)' \/ Abandoned(q, k.msg)
    <3>1. Stray(k.msg) \/ MessageBy(q, k.msg) \/ Abandoned(q, k.msg)
      BY <1>1, <1>2, <2>1 DEF NetFrame, MessagesKnown
    <3>2. QED
      BY <1>1, <3>1 DEF OtherFrame, MessageBy
  <2>2. ASSUME NEW k \in net'[q]
        PROVE  Stray(k.msg) \/ MessageByNext(p, k.msg) \/ Abandoned(p, k.msg)
    BY <1>1, <2>2, MessagesStay DEF NetFrame, MessagesKnown
  <2>3. ASSUME NEW k \in net'[q]
        PROVE  Stray(k.msg) \/ MessageBy(p, k.msg)' \/ Abandoned(p, k.msg)
    BY <2>2, <2>3 DEF MessageByNext, MessageBy
  <2>4. QED
    BY <1>2, <2>1, <2>3 DEF MessagesKnown
<1>6. ConfirmedWithPeer'
  <2>1. ASSUME stateMachine'[p] \in {"sendingConfirm2", "secure"}
        PROVE  peerPackets'[p]["Hello"] # None /\ peerPackets'[p]["Hello"].from = Other(p)
    BY <1>1, <1>3, <2>1 DEF ConfirmedWithPeer, Quiet, Negotiates, Restarts, ReceiverInstalled,
       ResponderSecured, InitiatorSecured, Secured
  <2>2. QED
    BY <1>1, <1>2, <2>1 DEF ConfirmedWithPeer, OtherFrame
<1>7. RoleSettled'
  <2>1. /\ stateMachine'[p] \in RespondingStates => role'[p] = "RESPONDER"
        /\ stateMachine'[p] \in InitiatingStates => role'[p] = "INITIATOR"
        /\ stateMachine'[p] \in UncommittedStates => peerPackets'[p]["Commit"] = None
        /\ stateMachine'[p] = "sendingDHPart2" => mackeys'[p].ini = p
    BY <1>1, <1>3 DEF RoleSettled, Quiet, Negotiates, Restarts, ReceiverInstalled,
       ResponderSecured, InitiatorSecured, Secured, RespondingStates, InitiatingStates,
       UncommittedStates
  <2>2. QED
    BY <1>1, <1>2, <2>1 DEF RoleSettled, OtherFrame
<1>8. Installed'
  <2>1. ASSUME NEW r \in Endpoints, r # p
        PROVE  /\ rx'[r] = rx[r] /\ tx'[r] = tx[r] /\ rs1'[r] = rs1[r]
               /\ stateMachine'[r] = stateMachine[r] /\ role'[r] = role[r]
               /\ mackeys'[r] = mackeys[r]
    BY <1>1, <1>2, <2>1 DEF OtherFrame, TypeOK
  <2>2. QED
    BY <1>1, <1>2, <1>3, <1>4, <2>1 DEF Installed, Quiet, Negotiates, Restarts,
       ReceiverInstalled, ResponderSecured, InitiatorSecured, Secured, PeerRole,
       ConfirmingStates
<1>9. KeysAgreed'
  BY <1>1, <1>2, <1>3, <1>4 DEF KeysAgreed, OtherFrame, Quiet, Negotiates, Restarts,
     ReceiverInstalled, ResponderSecured, InitiatorSecured, Secured, ConfirmingStates
<1>10. QED
  BY <1>5, <1>6, <1>7, <1>8, <1>9 DEF AgreementInv

(* A step of each kind keeps a third endpoint out where there is none. *)
LEMMA StepKeepsAlone ==
    ASSUME AloneInv, NEW p \in Endpoints, StepOf(p)
    PROVE  PeerMessages' /\ PeerHello' /\ RoleOfState'
<1> DEFINE q == Other(p)
<1>1. /\ AgreementInv /\ PeerMessages /\ PeerHello /\ RoleOfState /\ NetFrame(p) /\ OtherFrame(p)
  BY DEF AloneInv, StepOf
<1>2. q \in Endpoints /\ q # p /\ Other(q) = p /\ \A r \in Endpoints : r = p \/ r = q
  BY OtherFacts DEF Endpoints, Other
<1>3. \/ Quiet(p) \/ Negotiates(p) \/ ReceiverInstalled(p)
      \/ ResponderSecured(p) \/ InitiatorSecured(p)
  BY <1>1 DEF StepOf, Restarts, HelloHashMismatch, PeerHello
<1>4. PeerMessages'
  <2>1. ASSUME NEW k \in net'[p] PROVE MessageBy(q, k.msg)'
    <3>1. MessageBy(q, k.msg)
      BY <1>1, <1>2, <2>1 DEF NetFrame, PeerMessages
    <3>2. QED
      BY <1>1, <3>1 DEF OtherFrame, MessageBy
  <2>2. ASSUME NEW k \in net[q] PROVE MessageByNext(p, k.msg)
    <3>1. MessageBy(p, k.msg)
      BY <1>1, <2>2 DEF PeerMessages
    <3>2. QED
      BY <1>3, <3>1 DEF MessageBy, MessageByNext, Quiet, Negotiates, ReceiverInstalled,
         ResponderSecured, InitiatorSecured, Secured, ConfirmingStates
  <2>3. ASSUME NEW k \in net'[q] PROVE MessageBy(p, k.msg)'
    <3>1. MessageByNext(p, k.msg)
      BY <1>1, <2>2, <2>3 DEF NetFrame
    <3>2. QED
      BY <3>1 DEF MessageByNext, MessageBy
  <2>4. QED
    BY <1>2, <2>1, <2>3 DEF PeerMessages
<1>5. PeerHello'
  <2>1. \A k \in net[p] : k.msg.from = q
    BY <1>1, <1>2 DEF PeerMessages, MessageBy
  <2>2. peerPackets'[p]["Hello"] # None => peerPackets'[p]["Hello"].from = q
    BY <1>1, <2>1 DEF PeerHello, OtherFrame
  <2>3. QED
    BY <1>1, <1>2, <2>2 DEF PeerHello, OtherFrame
<1>6. RoleOfState'
  BY <1>1, <1>2, <1>3 DEF RoleOfState, OtherFrame, Quiet, Negotiates, ReceiverInstalled,
     ResponderSecured, InitiatorSecured, Secured, RespondingStates, ConfirmingStates
<1>7. QED
  BY <1>4, <1>5, <1>6

(* Then every delivered packet is the peer's. *)
LEMMA PeerDelivered ==
    ASSUME AloneInv, NEW p \in Endpoints, NEW k \in net[p]
    PROVE  /\ k \in Packets
           /\ k.msg \in Messages
           /\ k.msg # None
           /\ k.msg.from = Other(p)
           /\ MessageBy(Other(p), k.msg)
<1>1. k \in net[Other(Other(p))] /\ Other(p) \in Endpoints
  BY OtherFacts
<1>2. MessageBy(Other(p), k.msg)
  BY <1>1 DEF AloneInv, PeerMessages
<1>3. QED
  BY <1>2, Delivered DEF AloneInv, MessageBy

(* Freshly created channels agree. *)
LEMMA AgreementInitial == ASSUME StraysUnconfirmed PROVE Init => AgreementInv
<1> SUFFICES ASSUME Init PROVE AgreementInv
  OBVIOUS
<1>1. PeerInv
  BY InitTyped DEF Init, NoPackets, PeerInv, OnePeer, Slots
<1>2. MessagesKnown
  BY OtherFacts DEF Init, StraysUnconfirmed, MessagesKnown
<1>3. ConfirmedWithPeer /\ RoleSettled /\ Installed /\ KeysAgreed
  BY DEF Init, NoPackets, Slots, ConfirmedWithPeer, RoleSettled, RespondingStates,
     InitiatingStates, Installed, KeysAgreed
<1>4. QED
  BY <1>1, <1>2, <1>3 DEF AgreementInv

(* Every step keeps the agreement. *)
LEMMA AgreementKept == AgreementInv /\ [Next]_vars => AgreementInv'
<1> SUFFICES ASSUME AgreementInv, [Next]_vars PROVE AgreementInv'
  OBVIOUS
<1>1. PeerInv'
  BY OnePeerNext DEF AgreementInv
<1>2. CASE Next
  BY <1>1, <1>2, NextStep, StepKeeps
<1>3. CASE UNCHANGED vars
  BY <1>1, <1>3 DEF AgreementInv, MessagesKnown, MessageBy, ConfirmedWithPeer, RoleSettled,
     Installed, KeysAgreed, vars, keyVars
<1>4. QED
  BY <1>2, <1>3

(* The agreement holds throughout. *)
LEMMA AgreementInvariant == ASSUME StraysUnconfirmed PROVE Spec => []AgreementInv
  BY AgreementInitial, AgreementKept, PTL DEF Spec

(* No packets at all are no Confirms. *)
LEMMA AloneInitial == ASSUME NoStrays PROVE Init => AloneInv
<1> SUFFICES ASSUME Init PROVE AloneInv
  OBVIOUS
<1>1. \A p \in Endpoints : net[p] = {} /\ Other(p) \in Endpoints
  BY OtherFacts DEF Init, NoStrays
<1>2. AgreementInv
  BY AgreementInitial DEF StraysUnconfirmed, NoStrays
<1>3. PeerMessages
  BY <1>1 DEF PeerMessages
<1>4. PeerHello /\ RoleOfState
  BY DEF Init, NoPackets, Slots, PeerHello, RoleOfState, RespondingStates
<1>5. QED
  BY <1>2, <1>3, <1>4 DEF AloneInv

(* Every step keeps a third endpoint out. *)
LEMMA AloneKept == AloneInv /\ [Next]_vars => AloneInv'
<1> SUFFICES ASSUME AloneInv, [Next]_vars PROVE AloneInv'
  OBVIOUS
<1>1. AgreementInv /\ AgreementInv'
  BY AgreementKept DEF AloneInv
<1>2. CASE Next
  BY <1>1, <1>2, NextStep, StepKeepsAlone DEF AloneInv
<1>3. CASE UNCHANGED vars
  BY <1>1, <1>3 DEF AloneInv, PeerMessages, MessageBy, PeerHello, RoleOfState, vars, keyVars
<1>4. QED
  BY <1>2, <1>3

-----------------------------------------------------------------------------
(* No SRTP packet is ever sent under a key the peer's client does not      *)
(* hold for receiving (bzrtp_deriveSrtpKeysFromS0 and the callback         *)
(* srtpSecretsAvailable, called for the two directions at different        *)
(* times by the two ends).                                                 *)
THEOREM MediaDecryptable == ASSUME StraysUnconfirmed PROVE Spec => []SentMediaDecryptable
<1>1. AgreementInv => SentMediaDecryptable
  <2> SUFFICES ASSUME AgreementInv, NEW p \in Endpoints, tx[p] # None
               PROVE  rx[Other(p)] = tx[p]
    BY DEF SentMediaDecryptable
  <2>1. stateMachine[p] = "secure" /\ role[p] \in Roles /\ Other(p) \in Endpoints
    BY OtherFacts DEF AgreementInv, PeerInv, TypeInv, TypeOK, Installed
  <2>2. CASE role[p] = "RESPONDER"
    BY <2>1, <2>2 DEF AgreementInv, Installed, KeysAgreed, PeerRole
  <2>3. CASE role[p] = "INITIATOR"
    BY <2>1, <2>3, OtherFacts DEF AgreementInv, Installed, KeysAgreed, PeerRole
  <2>4. QED
    BY <2>1, <2>2, <2>3 DEF Roles
<1>2. QED
  BY <1>1, AgreementInvariant, PTL

(* bzrtp_updateCachedSecrets runs at the initiator only once it ran at the *)
(* responder, on the same s0: wherever the session is cut, the initiator's *)
(* cache is never ahead of the responder's.                                *)
THEOREM CacheOrder == ASSUME StraysUnconfirmed PROVE Spec => []InitiatorCachesLast
<1>1. AgreementInv => InitiatorCachesLast
  <2> SUFFICES ASSUME AgreementInv, NEW p \in Endpoints,
                      rs1[p] # None, role[p] = "INITIATOR"
               PROVE  rs1[Other(p)] = rs1[p]
    BY DEF InitiatorCachesLast
  <2>1. stateMachine[p] = "secure" /\ Other(p) \in Endpoints
    BY OtherFacts DEF AgreementInv, Installed
  <2>2. QED
    BY <2>1, OtherFacts DEF AgreementInv, Installed, KeysAgreed
<1>2. QED
  BY <1>1, AgreementInvariant, PTL

-----------------------------------------------------------------------------
(* What the invariant says of the keys held by a secure pair. *)
LEMMA HeldKeys ==
    ASSUME AgreementInv, NEW p \in Endpoints
    PROVE  /\ stateMachine[p] \in {"sendingConfirm2", "secure"} => mackeys[p] \in Keys
           /\ (role[p] = "INITIATOR" /\ stateMachine[p] \in {"sendingConfirm2", "secure"})
                 => rx[p] = Directed(mackeys[p], "RESPONDER")
           /\ (role[p] = "RESPONDER" /\ stateMachine[p] = "secure")
                 => /\ rx[p] = Directed(mackeys[p], "INITIATOR")
                    /\ tx[p] = Directed(mackeys[p], "RESPONDER")
<1>1. stateMachine[p] = "sendingConfirm2" => mackeys[p] \in Keys
  BY DEF AgreementInv, PeerInv, TypeInv, TypeOK, KeysDerived
<1>2. QED
  BY <1>1 DEF AgreementInv, Installed, PeerRole

(* A variable of p that does not change does not change at all. *)
LEMMA KeptWhole ==
    ASSUME TypeOK, NEW p \in Endpoints, OtherFrame(p)
    PROVE  /\ rx'[p] = rx[p] => rx' = rx
           /\ tx'[p] = tx[p] => tx' = tx
           /\ rs1'[p] = rs1[p] => rs1' = rs1
<1>1. /\ [rx EXCEPT ![p] = rx[p]] = rx
      /\ [tx EXCEPT ![p] = tx[p]] = tx
      /\ [rs1 EXCEPT ![p] = rs1[p]] = rs1
  BY DEF TypeOK
<1>2. /\ rx' = [rx EXCEPT ![p] = rx'[p]]
      /\ tx' = [tx EXCEPT ![p] = tx'[p]]
      /\ rs1' = [rs1 EXCEPT ![p] = rs1'[p]]
  BY DEF OtherFrame
<1>3. ASSUME rx'[p] = rx[p] PROVE rx' = rx
  BY <1>1, <1>2, <1>3, Zenon
<1>4. ASSUME tx'[p] = tx[p] PROVE tx' = tx
  BY <1>1, <1>2, <1>4, Zenon
<1>5. ASSUME rs1'[p] = rs1[p] PROVE rs1' = rs1
  BY <1>1, <1>2, <1>5, Zenon
<1>6. QED
  BY <1>3, <1>4, <1>5

(* A step of each kind is a step of SrtpKeyInstall or a stutter. *)
LEMMA StepInstalls ==
    ASSUME AgreementInv, NEW p \in Endpoints, StepOf(p)
    PROVE  [Install!Next]_(Install!vars)
<1> DEFINE q == Other(p)
<1>1. TypeOK /\ Installed /\ KeysAgreed /\ OtherFrame(p)
  BY DEF AgreementInv, PeerInv, TypeInv, StepOf
<1>2. q \in Endpoints /\ q # p /\ Other(q) = p
  BY OtherFacts
<1>3. p \in Install!Endpoints /\ Install!Other(p) = q
  BY DEF Install!Endpoints, Install!Other, Endpoints, Other
<1>4. CASE Quiet(p) \/ Negotiates(p) \/ Restarts(p)
  <2>1. Restarts(p) => rx[p] = None /\ tx[p] = None
    <3>1. Restarts(p) => stateMachine[p] \notin {"sendingConfirm2", "secure"}
      BY DEF Restarts, HelloHashMismatch, AgreementInv, ConfirmedWithPeer
    <3>2. QED
      BY <1>1, <3>1 DEF Installed
  <2>2. rx' = rx /\ tx' = tx /\ rs1' = rs1
    BY <1>1, <1>4, <2>1, KeptWhole DEF Quiet, Negotiates, Restarts
  <2>3. QED
    BY <2>2 DEF Install!vars
<1>5. CASE ReceiverInstalled(p)
  <2>1. rx[p] = None /\ rx[q] = None
    BY <1>1, <1>2, <1>5 DEF ReceiverInstalled, Installed
  <2>2. rx'[p] \in [s0 : Keys, dir : {"RESPONDER"}]
    BY <1>5 DEF ReceiverInstalled, Directed
  <2>3. rx' = [rx EXCEPT ![p] = rx'[p]] /\ tx' = tx /\ rs1' = rs1
    BY <1>1, <1>5, KeptWhole DEF ReceiverInstalled, OtherFrame
  <2>4. Install!InitiatorReady(p)
    BY <1>3, <2>1, <2>2, <2>3 DEF Install!InitiatorReady
  <2>5. QED
    BY <1>3, <2>4 DEF Install!Next
<1>6. CASE ResponderSecured(p)
  <2>1. rx[p] = None /\ mackeys[p] \in Keys
    BY <1>1, <1>6 DEF ResponderSecured, Secured, Installed
  <2>2. rx[q] = Directed(mackeys[p], "RESPONDER")
    BY <1>2, <1>6, HeldKeys DEF ResponderSecured
  <2>3. rx[q] # None /\ rx[q].s0 = mackeys[p]
    BY <2>1, <2>2, DirectedTyped, DirectedFields, EndpointsAssumption DEF Roles
  <2>4. rx' = [rx EXCEPT ![p] = [s0 |-> rx[q].s0, dir |-> "INITIATOR"]]
    BY <1>1, <1>6, <2>3 DEF ResponderSecured, OtherFrame, Directed
  <2>5. tx' = [tx EXCEPT ![p] = rx[q]]
    BY <1>1, <1>6, <2>2 DEF ResponderSecured, Secured, OtherFrame
  <2>6. rs1' = IF Mode = "DHM" THEN [rs1 EXCEPT ![p] = rx[q].s0] ELSE rs1
    BY <1>1, <1>6, <2>3 DEF ResponderSecured, Secured, OtherFrame, TypeOK
  <2>7. Install!ResponderSecure(p)
    BY <1>3, <2>1, <2>3, <2>4, <2>5, <2>6 DEF Install!ResponderSecure, Install!Retain
  <2>8. QED
    BY <1>3, <2>7 DEF Install!Next
<1>7. CASE InitiatorSecured(p)
  <2>1. tx[p] = None /\ mackeys[p] \in Keys
    BY <1>1, <1>7 DEF InitiatorSecured, Secured, Installed
  <2>2. rx[p].s0 = mackeys[p]
    BY <1>7, HeldKeys, DirectedFields DEF InitiatorSecured
  <2>3. mackeys[q] = mackeys[p]
    BY <1>1, <1>2, <1>7 DEF InitiatorSecured, KeysAgreed
  <2>4. rx[q] = Directed(mackeys[p], "INITIATOR") /\ tx[q] = Directed(mackeys[p], "RESPONDER")
    BY <1>2, <1>7, <2>3, HeldKeys DEF InitiatorSecured
  <2>5. tx[q] # None
    BY <2>1, <2>4, DirectedTyped, EndpointsAssumption DEF Roles
  <2>6. tx' = [tx EXCEPT ![p] = rx[q]] /\ rx' = rx
    BY <1>1, <1>7, <2>4, KeptWhole DEF InitiatorSecured, Secured, OtherFrame
  <2>7. rs1' = IF Mode = "DHM" THEN [rs1 EXCEPT ![p] = rx[p].s0] ELSE rs1
    BY <1>1, <1>7, <2>2 DEF InitiatorSecured, Secured, OtherFrame, TypeOK
  <2>8. Install!InitiatorSecure(p)
    BY <1>3, <2>1, <2>5, <2>6, <2>7 DEF Install!InitiatorSecure, Install!Retain
  <2>9. QED
    BY <1>3, <2>8 DEF Install!Next
<1>8. QED
  BY <1>4, <1>5, <1>6, <1>7 DEF StepOf

(* The handshake implements SrtpKeyInstall: SRTP keys and retained secrets *)
(* are handed out once, in that order, and never replaced or withdrawn by  *)
(* a late, repeated or reordered packet.                                   *)
THEOREM HandshakeInstalls == ASSUME StraysUnconfirmed PROVE Spec => InstallsSrtpKeys
<1>1. Init => Install!Init
  BY DEF Init, Install!Init, Install!Endpoints, Endpoints
<1>2. AgreementInv /\ [Next]_vars => [Install!Next]_(Install!vars)
  <2> SUFFICES ASSUME AgreementInv, [Next]_vars
               PROVE  [Install!Next]_(Install!vars)
    OBVIOUS
  <2>1. CASE Next
    BY <2>1, NextStep, StepInstalls
  <2>2. CASE UNCHANGED vars
    BY <2>2 DEF vars, keyVars, Install!vars
  <2>3. QED
    BY <2>1, <2>2
<1>3. QED
  BY <1>1, <1>2, AgreementInvariant, PTL DEF Spec, InstallsSrtpKeys, Install!Spec
=============================================================================
