------------------------------- MODULE GoClear -------------------------------
(* Two endpoints whose channels are secure switch to clear mode and back:  *)
(* state_secure, state_sending_GoClear, state_clear, and the multistream   *)
(* handshake by which the channels become secure again.  The channels of   *)
(* an endpoint share its ZRTPSess, and GoClear concerns all of them.       *)
(*                                                                         *)
(* Both endpoints accept GoClear (the A flag of the Confirm messages).     *)
EXTENDS Naturals

CONSTANTS
    A, B,           \* the endpoints
    Channels,
    None,
    NonHelloMax,    \* NON_HELLO_MAX_RETRANSMISSION_NUMBER
    ClearAckMax,    \* CLEARACK_MAX_RETRANSMISSION_NUMBER
    MaxCalls,       \* calls of bzrtp_sendGoClear, and confirmations of nothing
    MaxFirings,     \* timers that fire, over all channels
    MaxFaults       \* packets lost, duplicated or delayed, and uneven calls

ASSUME GoClearAssumption ==
    /\ A # B /\ None \notin {A, B} /\ Channels # {}
    /\ {NonHelloMax, ClearAckMax, MaxCalls, MaxFirings, MaxFaults} \subseteq Nat

Endpoints == {A, B}
Other(p) == IF p = A THEN B ELSE A

VARIABLES
    ch,         \* the channel contexts
    ZRTPSess,   \* how often an endpoint has derived a new ZRTPSess
    net,        \* packets in flight to an endpoint on a channel, in order
    late,       \* packets the network holds back
    uneven,     \* calls made when not all channels of the end could follow
    calls, firings, faults      \* how much of the bounds is used up

vars == <<ch, ZRTPSess, net, late, uneven, calls, firings, faults>>

(* The state functions, and the end of the process. *)
States == {"secure", "sending_GoClear", "clear",
           "sendingCommit", "sendingConfirm1", "sendingConfirm2", "crashed"}
Roles == {"INITIATOR", "RESPONDER"}

(* s0 and the keys derived from it are named by the ZRTPSess and the nonce *)
(* of the Commit they come from.                                           *)
Key(sess, nonce) == [sess |-> sess, nonce |-> nonce]

(* The nonce of the n-th Commit of p on a channel.  A nonce is random; by  *)
(* symmetry A's is taken to be the greater one.                            *)
Nonce(p, n) == [of |-> p, n |-> n]
NonceBelow(x, y) == x.of = B /\ y.of = A

Msg(type, value) == [type |-> type, value |-> value]
ClearACK == Msg("ClearACK", None)
Conf2ACK == Msg("Conf2ACK", None)
Commit(p, n) == Msg("Commit", Nonce(p, n))

(* The clear_mac depends on the role of the sender. *)
GoClearBy(c) == Msg("GoClear", <<c.key, c.role>>)
PeerRole(r) == IF r = "INITIATOR" THEN "RESPONDER" ELSE "INITIATOR"

(* The types of all these. *)
Nonces == [of : Endpoints, n : Nat]
Keys == [sess : Nat, nonce : Nonces]
Messages ==
    [type : {"Commit"}, value : Nonces] \cup
    [type : {"Confirm1", "Confirm2"}, value : Keys] \cup
    [type : {"GoClear"}, value : Keys \X Roles] \cup
    [type : {"ClearACK", "Conf2ACK"}, value : {None}]
Packets == [seq : Nat, msg : Messages]
ChannelContexts ==
    [state : States, role : Roles, timer : {"ON", "OFF"}, firingCount : Nat,
     key : Keys \cup {None}, isSecure : BOOLEAN, isClear : BOOLEAN, commits : Nat,
     goClear : Messages \cup {None}, selfSeq : Nat, peerSeq : Nat]

ASSUME NoneAssumption == None \notin Keys \cup Messages

SecureChannel(p, initiator) ==
    [state |-> "secure",
     role |-> IF p = initiator THEN "INITIATOR" ELSE "RESPONDER",
     timer |-> "OFF", firingCount |-> 0,
     key |-> Key(0, Nonce(initiator, 0)),
     isSecure |-> TRUE, isClear |-> FALSE,
     commits |-> 0,         \* Commits created on this channel
     goClear |-> None,      \* selfPackets[GOCLEAR_MESSAGE_STORE_ID]
     selfSeq |-> 1, peerSeq |-> 0]

(* The roles were settled on each channel for itself. *)
Init ==
    /\ \E initiator \in [Channels -> Endpoints] :
           ch = [p \in Endpoints |-> [c \in Channels |-> SecureChannel(p, initiator[c])]]
    /\ ZRTPSess = [p \in Endpoints |-> 0]
    /\ net = [p \in Endpoints |-> [c \in Channels |-> {}]]
    /\ late = [p \in Endpoints |-> [c \in Channels |-> {}]]
    /\ uneven = 0 /\ calls = 0 /\ firings = 0 /\ faults = 0

-----------------------------------------------------------------------------
(* Steps of one channel context; sending is left to the actions.           *)

TimerOn(c) == [c EXCEPT !.timer = "ON", !.firingCount = 0]
TimerOff(c) == [c EXCEPT !.timer = "OFF"]

(* Mutant: every packet has the same sequence number. *)
SentSameNumber(c) == c

(* bzrtp_sendPacket uses up a sequence number. *)
Sent(c) == [c EXCEPT !.selfSeq = @ + 1]
Packet(c, m) == [seq |-> c.selfSeq, msg |-> m]

(* Mutant: the timer of the Confirm2 is left running. *)
EnterSecureTimerOn(c) == [c EXCEPT !.state = "secure", !.isSecure = TRUE]

(* state_secure, INIT. *)
EnterSecure(c) == [TimerOff(c) EXCEPT !.state = "secure", !.isSecure = TRUE]

(* Mutant: the channel is still marked as secure. *)
EnterClearStillSecure(c) ==
    [c EXCEPT !.key = None, !.state = "clear", !.isClear = TRUE, !.role = "INITIATOR"]

(* Mutant: the channel keeps the role of the last handshake. *)
EnterClearSameRole(c) ==
    [c EXCEPT !.key = None, !.isSecure = FALSE, !.state = "clear", !.isClear = TRUE]

(* bzrtp_destroyKeyMaterial on every channel, then state_clear, INIT, which *)
(* reports every channel as clear and makes it an initiator.                *)
EnterClear(c) ==
    [c EXCEPT !.key = None, !.isSecure = FALSE, !.state = "clear",
              !.isClear = TRUE, !.role = "INITIATOR"]

(* Packets but the Hello are deleted; state_keyAgreement_sendingCommit, INIT. *)
EnterSendingCommit(c) ==
    Sent([TimerOn(c) EXCEPT !.goClear = None, !.isClear = FALSE,
                            !.state = "sendingCommit", !.commits = @ + 1])

(* bzrtp_turnIntoResponder and state_confirmation_responderSendingConfirm1, *)
(* INIT: the keys come from the endpoint's ZRTPSess and the peer's Commit.  *)
TurnIntoResponder(c, sess, commit) ==
    Sent([TimerOff(c) EXCEPT !.role = "RESPONDER", !.key = Key(sess, commit.value),
                             !.state = "sendingConfirm1"])

(* state_confirmation_initiatorSendingConfirm2, INIT: the sequence number  *)
(* is moved on twice.                                                      *)
EnterSendingConfirm2(c, key) ==
    Sent(Sent([TimerOn(c) EXCEPT !.key = key, !.state = "sendingConfirm2"]))

(* bzrtp_getChannelStatus. *)
ChannelStatus(c) ==
    IF c.isSecure THEN "SECURE" ELSE IF c.isClear THEN "CLEAR" ELSE "ONGOING"

-----------------------------------------------------------------------------
(* Calls of the application.  A call on one channel concerns all channels  *)
(* of the context; the code looks at the state of the one only.            *)

Ask(p, c, state) ==
    /\ ch[p][c].state = state
    /\ IF \A d \in Channels : ch[p][d].state = state
       THEN UNCHANGED uneven
       ELSE faults + uneven < MaxFaults /\ uneven' = uneven + 1

(* bzrtp_sendGoClear: every channel changes its state function, only the   *)
(* one of the call is initialised.                                         *)
SendGoClear(p, c) ==
    /\ calls < MaxCalls /\ calls' = calls + 1
    /\ Ask(p, c, "secure")
    /\ LET m == GoClearBy(ch[p][c])
           moved == [d \in Channels |-> [ch[p][d] EXCEPT !.state = "sending_GoClear"]]
       IN  /\ ch' = [ch EXCEPT ![p] =
                       [moved EXCEPT ![c] = Sent(TimerOn([@ EXCEPT !.goClear = m]))]]
           /\ net' = [net EXCEPT ![Other(p)][c] = @ \cup {Packet(ch[p][c], m)}]
    /\ UNCHANGED <<ZRTPSess, late, firings, faults>>

(* bzrtp_confirmGoClear: no more ClearACK are sent.  It may be called at   *)
(* any time; on a channel that is not in clear mode it moves the count     *)
(* and does nothing else (and so does bzrtp_backToSecureMode).             *)
ConfirmGoClear(p, c) ==
    /\ ch[p][c].state # "crashed"
    /\ \/ /\ ch[p][c].state = "clear" /\ ch[p][c].timer = "ON"
          /\ UNCHANGED calls
       \/ /\ ~(ch[p][c].state = "clear" /\ ch[p][c].timer = "ON")
          /\ calls < MaxCalls /\ calls' = calls + 1
    /\ LET counted == [ch[p][c] EXCEPT !.firingCount = @ + 1]
       IN  ch' = [ch EXCEPT ![p][c] =
                    IF counted.state = "clear" THEN TimerOff(counted) ELSE counted]
    /\ UNCHANGED <<ZRTPSess, net, late, uneven, firings, faults>>

(* bzrtp_backToSecureMode: on every channel, whatever its state. *)
BackToSecureMode(p, c) ==
    /\ Ask(p, c, "clear")
    /\ ch' = [ch EXCEPT ![p] = [d \in Channels |-> EnterSendingCommit(@[d])]]
    /\ net' = [net EXCEPT ![Other(p)] =
                 [d \in Channels |->
                     @[d] \cup {Packet(ch[p][d], Commit(p, ch[p][d].commits + 1))}]]
    /\ UNCHANGED <<ZRTPSess, late, calls, firings, faults>>

-----------------------------------------------------------------------------
(* bzrtp_iterate: the timer of a channel fires.                            *)

(* The packet a state sends again.  In state_sending_GoClear it is the     *)
(* stored GoClear.  The other states are entered with the timer off.       *)
Retransmitted(p, c) ==
    CASE ch[p][c].state = "sendingCommit" -> Commit(p, ch[p][c].commits)
      [] ch[p][c].state = "sendingConfirm2" -> Msg("Confirm2", ch[p][c].key)
      [] ch[p][c].state = "sending_GoClear" -> ch[p][c].goClear
      [] ch[p][c].state = "clear" -> ClearACK
      [] OTHER -> None

MaxRetransmissions(state) == IF state = "clear" THEN ClearAckMax ELSE NonHelloMax

Retransmit(p, c) ==
    /\ Retransmitted(p, c) # None
    /\ LET count == ch[p][c].firingCount + 1
           status == IF count <= MaxRetransmissions(ch[p][c].state) THEN "ON" ELSE "OFF"
       IN  ch' = [ch EXCEPT ![p][c] =
                    Sent([@ EXCEPT !.firingCount = count, !.timer = status])]
    /\ net' = [net EXCEPT ![Other(p)][c] = @ \cup {Packet(ch[p][c], Retransmitted(p, c))}]

(* There is no GoClear to send again: bzrtp_sendPacket follows the NULL    *)
(* pointer, which is the end of the process and of all its channels.       *)
GoClearMissing(c) == c.state = "sending_GoClear" /\ c.timer = "ON" /\ c.goClear = None

Crash(p, c) ==
    /\ GoClearMissing(ch[p][c])
    /\ ch' = [ch EXCEPT ![p] =
                [d \in Channels |-> [TimerOff(@[d]) EXCEPT !.state = "crashed"]]]
    /\ UNCHANGED net

Timer(p, c) ==
    /\ firings < MaxFirings /\ firings' = firings + 1
    /\ ch[p][c].timer = "ON"
    /\ Retransmit(p, c) \/ Crash(p, c)
    /\ UNCHANGED <<ZRTPSess, late, uneven, calls, faults>>

-----------------------------------------------------------------------------
(* bzrtp_processMessage: a packet k for channel c of p.  Each handler says *)
(* what becomes of the channels, of ZRTPSess and what is answered on c.    *)

Update(p, c, new) == ch' = [ch EXCEPT ![p][c] = new]
SetPeerSeq(c, k) == [c EXCEPT !.peerSeq = k.seq]

(* What remains of the network, and the answer sent on the same channel. *)
Answer(p, c, rest, m) ==
    net' = [rest EXCEPT ![Other(p)][c] = @ \cup {Packet(ch[p][c], m)}]
Silent(rest) == net' = rest

(* Mutant: packets are taken in any order. *)
PacketCheckAnyOrder(c, k) == TRUE

PacketCheck(c, k) == k.seq > c.peerSeq

(* The clear_mac of the peer, under the present keys. *)
ClearMacOk(c, m) == m = Msg("GoClear", <<c.key, PeerRole(c.role)>>)

(* The messages a state takes: those it expects, that check under the keys *)
(* of the channel or repeat the stored message.                            *)
Takes(c, m) ==
    CASE c.state = "secure" ->
            ClearMacOk(c, m) \/ (c.role = "RESPONDER" /\ m = Msg("Confirm2", c.key))
      [] c.state = "sending_GoClear" -> m = ClearACK \/ ClearMacOk(c, m)
      [] c.state = "clear" -> m.type = "Commit"
      [] c.state = "sendingCommit" -> m.type \in {"Commit", "Confirm1"}
      [] c.state = "sendingConfirm1" ->
            m \in {Msg("Commit", c.key.nonce), Msg("Confirm2", c.key)}
      [] c.state = "sendingConfirm2" -> m \in {Msg("Confirm1", c.key), Conf2ACK}
      [] c.state = "crashed" -> FALSE

(* The new ZRTPSess is derived from the old one. *)
NewZRTPSess(p) == ZRTPSess' = [ZRTPSess EXCEPT ![p] = @ + 1]

(* state_secure, GoClear: answered, and the ClearACK is repeated until the *)
(* user confirms.  The sequence number is not taken over.                  *)
SecureGoClear(p, c, k, rest) ==
    /\ ch[p][c].state = "secure" /\ k.msg.type = "GoClear"
    /\ Answer(p, c, rest, ClearACK)
    /\ NewZRTPSess(p)
    /\ ch' = [ch EXCEPT ![p] =
                [d \in Channels |->
                    EnterClear(IF d = c THEN TimerOn(Sent(@[d])) ELSE @[d])]]

(* state_sending_GoClear, ClearACK: taken on any channel, unauthenticated. *)
SendingGoClearClearACK(p, c, k, rest) ==
    /\ ch[p][c].state = "sending_GoClear" /\ k.msg = ClearACK
    /\ NewZRTPSess(p)
    /\ ch' = [ch EXCEPT ![p] =
                [d \in Channels |-> EnterClear(IF d = c THEN TimerOff(@[d]) ELSE @[d])]]
    /\ Silent(rest)

(* state_sending_GoClear, GoClear: the two crossed. *)
SendingGoClearGoClear(p, c, k, rest) ==
    /\ ch[p][c].state = "sending_GoClear" /\ k.msg.type = "GoClear"
    /\ Answer(p, c, rest, ClearACK)
    /\ Update(p, c, Sent(SetPeerSeq(ch[p][c], k)))
    /\ UNCHANGED ZRTPSess

(* state_clear, Commit: the packets of the last handshake are deleted. *)
ClearCommit(p, c, k, rest) ==
    /\ ch[p][c].state = "clear" /\ k.msg.type = "Commit"
    /\ LET cleaned == [SetPeerSeq(ch[p][c], k) EXCEPT !.goClear = None, !.isClear = FALSE]
       IN  Update(p, c, TurnIntoResponder(cleaned, ZRTPSess[p], k.msg))
    /\ Answer(p, c, rest, Msg("Confirm1", Key(ZRTPSess[p], k.msg.value)))
    /\ UNCHANGED ZRTPSess

(* state_keyAgreement_sendingCommit, Commit: contention. *)
Yields(p, c, m) ==
    ch[p][c].role = "RESPONDER" \/ NonceBelow(Nonce(p, ch[p][c].commits), m.value)

CommitCommit(p, c, k, rest) ==
    /\ ch[p][c].state = "sendingCommit" /\ k.msg.type = "Commit"
    /\ \/ /\ Yields(p, c, k.msg)
          /\ Update(p, c, TurnIntoResponder(SetPeerSeq(ch[p][c], k), ZRTPSess[p], k.msg))
          /\ Answer(p, c, rest, Msg("Confirm1", Key(ZRTPSess[p], k.msg.value)))
       \/ /\ ~Yields(p, c, k.msg)
          /\ Update(p, c, SetPeerSeq(ch[p][c], k))
          /\ Silent(rest)
    /\ UNCHANGED ZRTPSess

(* state_keyAgreement_sendingCommit, Confirm1: the keys are derived first, *)
(* and stay when the packet does not check under them.                     *)
OwnKey(p, c) == Key(ZRTPSess[p], Nonce(p, ch[p][c].commits))

CommitConfirm1(p, c, k, rest) ==
    /\ ch[p][c].state = "sendingCommit" /\ k.msg.type = "Confirm1"
    /\ IF k.msg.value = OwnKey(p, c)
       THEN /\ Update(p, c, EnterSendingConfirm2(SetPeerSeq(ch[p][c], k), OwnKey(p, c)))
            /\ Answer(p, c, rest, Msg("Confirm2", OwnKey(p, c)))
       ELSE /\ Update(p, c, [ch[p][c] EXCEPT !.key = OwnKey(p, c)])
            /\ Silent(rest)
    /\ UNCHANGED ZRTPSess

(* state_confirmation_responderSendingConfirm1: a repeated Commit. *)
RepeatedCommit(p, c, k, rest) ==
    /\ ch[p][c].state = "sendingConfirm1" /\ k.msg.type = "Commit"
    /\ Answer(p, c, rest, Msg("Confirm1", ch[p][c].key))
    /\ Update(p, c, Sent(SetPeerSeq(ch[p][c], k)))
    /\ UNCHANGED ZRTPSess

(* A Confirm2, the first in state_confirmation_responderSendingConfirm1    *)
(* or a repeated one in state_secure.                                      *)
Confirm2(p, c, k, rest) ==
    /\ k.msg.type = "Confirm2"
    /\ \/ /\ ch[p][c].state = "sendingConfirm1"
          /\ Update(p, c, EnterSecure(Sent(SetPeerSeq(ch[p][c], k))))
       \/ /\ ch[p][c].state = "secure"
          /\ Update(p, c, Sent(SetPeerSeq(ch[p][c], k)))
    /\ Answer(p, c, rest, Conf2ACK)
    /\ UNCHANGED ZRTPSess

(* state_confirmation_initiatorSendingConfirm2: a repeated Confirm1, or    *)
(* the Conf2ACK, whose sequence number is not taken over.                  *)
AfterConfirm2(p, c, k, rest) ==
    /\ ch[p][c].state = "sendingConfirm2"
    /\ \/ /\ k.msg.type = "Confirm1"
          /\ Update(p, c, SetPeerSeq(ch[p][c], k))
       \/ /\ k.msg = Conf2ACK
          /\ Update(p, c, EnterSecure(ch[p][c]))
    /\ Silent(rest)
    /\ UNCHANGED ZRTPSess

Handle(p, c, k, rest) ==
    \/ SecureGoClear(p, c, k, rest)
    \/ SendingGoClearClearACK(p, c, k, rest)
    \/ SendingGoClearGoClear(p, c, k, rest)
    \/ ClearCommit(p, c, k, rest)
    \/ CommitCommit(p, c, k, rest)
    \/ CommitConfirm1(p, c, k, rest)
    \/ RepeatedCommit(p, c, k, rest)
    \/ Confirm2(p, c, k, rest)
    \/ AfterConfirm2(p, c, k, rest)

ProcessMessage(p, c, k, rest) ==
    IF PacketCheck(ch[p][c], k) /\ Takes(ch[p][c], k.msg)
    THEN Handle(p, c, k, rest)
    ELSE Silent(rest) /\ UNCHANGED <<ch, ZRTPSess>>

-----------------------------------------------------------------------------
(* The network delivers the packets of a channel in order, those of two    *)
(* channels in any order.  A fault makes it hold a packet, or a copy of    *)
(* it, back; such a packet arrives at any later time, or never.            *)

Deliver(p, c, k) ==
    /\ \A o \in net[p][c] : k.seq <= o.seq
    /\ ProcessMessage(p, c, k, [net EXCEPT ![p][c] = @ \ {k}])
    /\ UNCHANGED <<late, uneven, calls, firings, faults>>

Hold(p, c, k, rest) ==
    /\ faults + uneven < MaxFaults /\ faults' = faults + 1
    /\ late' = [late EXCEPT ![p][c] = @ \cup {k}]
    /\ net' = [net EXCEPT ![p][c] = rest]
    /\ UNCHANGED <<ch, ZRTPSess, uneven, calls, firings>>

DeliverLate(p, c, k) ==
    /\ ProcessMessage(p, c, k, net)
    /\ late' = [late EXCEPT ![p][c] = @ \ {k}]
    /\ UNCHANGED <<uneven, calls, firings, faults>>

Receive(p, c) == \E k \in net[p][c] : Deliver(p, c, k)

Next ==
    \E p \in Endpoints, c \in Channels :
        \/ SendGoClear(p, c)
        \/ ConfirmGoClear(p, c)
        \/ BackToSecureMode(p, c)
        \/ Timer(p, c)
        \/ Receive(p, c)
        \/ \E k \in net[p][c] : Hold(p, c, k, net[p][c] \ {k}) \/ Hold(p, c, k, net[p][c])
        \/ \E k \in late[p][c] : DeliverLate(p, c, k)

Spec == Init /\ [][Next]_vars

(* The client keeps calling bzrtp_iterate and the transport delivers what  *)
(* it does not hold back; nobody has to press a button.                    *)
Fairness ==
    \A p \in Endpoints, c \in Channels : WF_vars(Timer(p, c)) /\ WF_vars(Receive(p, c))

FairSpec == Spec /\ Fairness

-----------------------------------------------------------------------------
(* The types of the channel contexts and of the network; a sequence number *)
(* that is in flight is used up.                                           *)
TypeOK ==
    /\ ch \in [Endpoints -> [Channels -> ChannelContexts]]
    /\ ZRTPSess \in [Endpoints -> Nat]
    /\ net \in [Endpoints -> [Channels -> SUBSET Packets]]
    /\ late \in [Endpoints -> [Channels -> SUBSET Packets]]
    /\ {uneven, calls, firings, faults} \subseteq Nat
    /\ \A p \in Endpoints, c \in Channels :
          \A k \in net[p][c] \cup late[p][c] : k.seq < ch[Other(p)][c].selfSeq

(* So far the application has asked for clear mode, or to leave it, only   *)
(* when all its channels could follow.                                     *)
Careful == uneven = 0

(* With careful applications the two ends derive a new ZRTPSess in step,   *)
(* without agreeing on it: an end that is behind is still waiting for its  *)
(* GoClear to be acknowledged.  Otherwise no later handshake between them  *)
(* could succeed: no delayed or repeated ClearACK, GoClear or Commit of an *)
(* earlier round may put them out of step.                                 *)
SessionsInStep ==
    Careful =>
    \A p \in Endpoints :
        ZRTPSess[p] < ZRTPSess[Other(p)] =>
            /\ ZRTPSess[Other(p)] = ZRTPSess[p] + 1
            /\ \A c \in Channels : ch[p][c].state = "sending_GoClear"

(* With careful applications, when both ends report a channel as secure    *)
(* and do not wait for a ClearACK, they hold the same keys in              *)
(* complementary roles, and these come from their present ZRTPSess, never  *)
(* from the one before clear mode.                                         *)
SecureAlike ==
    Careful =>
    \A c \in Channels :
        (\A p \in Endpoints : ch[p][c].state = "secure") =>
            /\ ch[A][c].key = ch[B][c].key
            /\ ch[A][c].role # ch[B][c].role
            /\ \A p \in Endpoints : ch[p][c].key.sess = ZRTPSess[p]

(* bzrtp_getChannelStatus never tells the application that a channel is    *)
(* secure when its keys are destroyed, nor that it is in clear mode while  *)
(* it holds keys.                                                          *)
StatusTellsKeys ==
    \A p \in Endpoints, c \in Channels :
        /\ ChannelStatus(ch[p][c]) = "SECURE" => ch[p][c].key # None
        /\ ChannelStatus(ch[p][c]) = "CLEAR" => ch[p][c].key = None

(* Whatever the application calls: a timer is left without a GoClear to    *)
(* send again only by a call of bzrtp_sendGoClear on a channel that is     *)
(* secure, while this one is in clear mode or in the middle of the         *)
(* handshake by which it becomes secure again, with its timer running.     *)
GoClearMissingOnlyIfUneven ==
    [][\A p \in Endpoints, c \in Channels :
          ~GoClearMissing(ch[p][c]) /\ GoClearMissing(ch'[p][c]) =>
              /\ ch[p][c].state \in {"clear", "sendingCommit", "sendingConfirm2"}
              /\ \E d \in Channels : ch[p][d].state = "secure" /\ ch'[p][d].goClear # None]_vars

(* The channels of an end that asked for clear mode get there.             *)
GoClearCompletes ==
    \A p \in Endpoints, c \in Channels :
        (ch[p][c].state = "sending_GoClear") ~> (ch[p][c].state = "clear")
=============================================================================
