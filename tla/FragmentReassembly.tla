------------------------- MODULE FragmentReassembly -------------------------
(* One direction of a channel below the state machine: the sender cuts a   *)
(* message that does not fit the MTU into fragments, the network loses,    *)
(* duplicates and reorders packets, the receiver puts messages together    *)
(* again.                                                                  *)
(*                                                                         *)
(* A message is its number in the order it was built; byte i of message m  *)
(* is <<m, i>>, and a fragment says which bytes it carries.  CRC, magic    *)
(* cookie and SSRC are left out: a packet the network delivers is one that *)
(* was sent.                                                               *)
EXTENDS Integers, Sequences, FiniteSets

CONSTANTS
    MessageLength,  \* the length in bytes of every message, in build order
    AskedMtu,       \* what the application gives to bzrtp_set_MTU
    MinimumMtu,     \* BZRTP_MINIMUM_MTU
    InitialSeq,     \* the sequence number drawn at channel creation
    MaxSends,       \* how often each message is sent, retransmissions included
    MaxFaults,      \* packets lost or duplicated
    Garbage         \* the content of a byte nothing was copied to

ASSUME MtuAssumption == AskedMtu \in Nat /\ MinimumMtu \in Nat

set_MTU(mtu) == IF mtu > MinimumMtu THEN mtu ELSE MinimumMtu

ZRTP_PACKET_OVERHEAD == 16
ZRTP_FRAGMENTEDPACKET_OVERHEAD == 24
WordSize == 4
Wrap == 65536       \* 2^16, where a uint16_t wraps around
Mtu == set_MTU(AskedMtu)
Messages == 1..Len(MessageLength)

(* The payload of a message, byte by byte. *)
Content(m) == [i \in 0 .. MessageLength[m] - 1 |-> <<m, i>>]

ASSUME FragmentAssumption ==
    /\ Mtu > ZRTP_FRAGMENTEDPACKET_OVERHEAD
    \* the first number is drawn as rand & 0x0FFF, plus 1
    /\ InitialSeq \in 1..4096 /\ MaxSends \in [Messages -> Nat \ {0}] /\ MaxFaults \in Nat
    \* messages are a whole number of words, at least the three of their header,
    \* and the length of their packet is a uint16_t
    /\ MessageLength \in Seq(Nat)
    /\ \A m \in Messages :
          /\ MessageLength[m] % WordSize = 0 /\ MessageLength[m] >= 12
          /\ MessageLength[m] + ZRTP_PACKET_OVERHEAD < Wrap

VARIABLES
    current,                    \* the last message built
    fragments,                  \* its fragments, <<>> when it goes in one packet
    sends,                      \* how often it was sent
    selfSequenceNumber,
    selfMessageSequenceNumber,
    net,                        \* packets in flight
    faults,
    incomingFragmentedPacket,
    peerSequenceNumber,
    received                    \* the packet strings handed to the state machine

senderVars == <<current, fragments, sends, selfSequenceNumber, selfMessageSequenceNumber>>
receiverVars == <<incomingFragmentedPacket, peerSequenceNumber, received>>
vars == <<senderVars, receiverVars, net, faults>>

Init ==
    /\ current = 0 /\ fragments = <<>> /\ sends = 0
    /\ selfSequenceNumber = InitialSeq
    /\ selfMessageSequenceNumber = InitialSeq
    /\ net = {} /\ faults = 0
    /\ incomingFragmentedPacket =
           [messageId |-> 0, fragments |-> {}, packetString |-> <<>>]
    /\ peerSequenceNumber = 0
    /\ received = {}

-----------------------------------------------------------------------------
(* The sender.                                                             *)

(* Bytes that one fragment carries at most. *)
FragmentMax == Mtu - ZRTP_FRAGMENTEDPACKET_OVERHEAD

(* Mutant: a fragment carries all that is left of the message. *)
FragmentUnbounded(m, id, k) ==
    LET offset == (k - 1) * FragmentMax
        size == MessageLength[m] - offset
    IN  [messageId |-> id,
         messageTotalLength |-> MessageLength[m] \div WordSize,
         offset |-> offset \div WordSize,
         fragmentLength |-> size \div WordSize,
         message |-> m, from |-> offset, size |-> size]

(* Fragment number k of message m: the header fields count words. *)
Fragment(m, id, k) ==
    LET offset == (k - 1) * FragmentMax
        rest == MessageLength[m] - offset
        size == IF rest < FragmentMax THEN rest ELSE FragmentMax
    IN  [messageId |-> id,
         messageTotalLength |-> MessageLength[m] \div WordSize,
         offset |-> offset \div WordSize,
         fragmentLength |-> size \div WordSize,
         message |-> m, from |-> offset, size |-> size]

(* Mutant: the last, shorter fragment is forgotten. *)
FragmentsRoundedDown(m, id) ==
    IF Mtu < MessageLength[m] + ZRTP_PACKET_OVERHEAD
    THEN [k \in 1 .. MessageLength[m] \div FragmentMax |-> Fragment(m, id, k)]
    ELSE <<>>

(* The fragments of a message that is longer than the MTU allows. *)
FragmentsOf(m, id) ==
    IF Mtu < MessageLength[m] + ZRTP_PACKET_OVERHEAD
    THEN [k \in 1 .. (MessageLength[m] + FragmentMax - 1) \div FragmentMax
            |-> Fragment(m, id, k)]
    ELSE <<>>

(* Mutant: the message id is not moved on. *)
NextMessageIdKept(frags) == selfMessageSequenceNumber

(* Only a fragmented message uses up a message id. *)
NextMessageId(frags) ==
    IF frags = <<>> THEN selfMessageSequenceNumber
    ELSE (selfMessageSequenceNumber + 1) % Wrap

(* The packets of message m, numbered from the sender's sequence number    *)
(* on, a uint16_t like the field of the header.                            *)
Packets(m, frags) ==
    IF frags = <<>>
    THEN {[seq |-> selfSequenceNumber, fragmented |-> FALSE, payload |-> m]}
    ELSE {[seq |-> (selfSequenceNumber + k - 1) % Wrap, fragmented |-> TRUE,
           payload |-> frags[k]] : k \in DOMAIN frags}

PacketCount(frags) == IF frags = <<>> THEN 1 ELSE Len(frags)

(* bzrtp_sendPacket: every packet gets the next sequence number. *)
sendPacket(m, frags) ==
    /\ net' = net \cup Packets(m, frags)
    /\ selfSequenceNumber' = (selfSequenceNumber + PacketCount(frags)) % Wrap

(* The state machine moves on to its next message: it is built and sent.   *)
(* It may do so whether or not the last one was received (a Commit that    *)
(* loses against the peer's is followed by a DHPart1).                     *)
Build ==
    /\ current < Len(MessageLength)
    /\ LET frags == FragmentsOf(current + 1, selfMessageSequenceNumber)
       IN  /\ current' = current + 1
           /\ fragments' = frags
           /\ selfMessageSequenceNumber' = NextMessageId(frags)
           /\ sendPacket(current + 1, frags)
    /\ sends' = 1
    /\ UNCHANGED <<receiverVars, faults>>

(* The timer, or a repeated message of the peer, has the stored packet sent *)
(* again: the same fragments under new sequence numbers.                    *)
Resend ==
    /\ current > 0 /\ sends < MaxSends[current]
    /\ sends' = sends + 1
    /\ sendPacket(current, fragments)
    /\ UNCHANGED <<current, fragments, selfMessageSequenceNumber, receiverVars, faults>>

-----------------------------------------------------------------------------
(* The receiver: bzrtp_packetCheck.                                        *)

(* Mutant: the fragments of the old message are kept with the new one. *)
CollectingAlong(f) ==
    [messageId |-> f.messageId, fragments |-> incomingFragmentedPacket.fragments,
     packetString |-> [i \in 0 .. WordSize * f.messageTotalLength - 1 |-> Garbage]]

(* The buffer for a new message; malloc does not initialise it. *)
Collecting(f) ==
    [messageId |-> f.messageId, fragments |-> {},
     packetString |-> [i \in 0 .. WordSize * f.messageTotalLength - 1 |-> Garbage]]

(* The reassembly state fragment f is put in. *)
Reassembly(f) ==
    IF incomingFragmentedPacket.messageId < f.messageId
    THEN Collecting(f) ELSE incomingFragmentedPacket

(* A fragment whose offset is known already is a repetition. *)
Insert(asm, f) ==
    IF \E g \in asm.fragments : g.offset = f.offset THEN asm
    ELSE [asm EXCEPT
            !.fragments = @ \cup {[offset |-> f.offset, length |-> f.fragmentLength]},
            !.packetString =
                [i \in DOMAIN @ |->
                    LET k == i - WordSize * f.offset
                    IN  IF k \in 0 .. f.size - 1 THEN <<f.message, f.from + k>> ELSE @[i]]]

(* The lengths added up: the words of all fragments, counted. *)
receivedLength(asm) ==
    Cardinality(UNION {{g} \X (1..g.length) : g \in asm.fragments}) % Wrap

(* A complete packet for the state machine.  It takes the sequence number  *)
(* over with a message it did not have yet and leaves it alone with a      *)
(* repetition.                                                             *)
HandOver(seq, packetString) ==
    /\ received' = received \cup {packetString}
    /\ peerSequenceNumber' =
           IF packetString \in received THEN peerSequenceNumber ELSE seq

Unfragmented(pkt) ==
    /\ ~pkt.fragmented
    /\ IF pkt.seq > peerSequenceNumber
       THEN HandOver(pkt.seq, Content(pkt.payload))
       ELSE UNCHANGED <<peerSequenceNumber, received>>
    /\ UNCHANGED incomingFragmentedPacket

(* A fragment of an older message than the one that is put together. *)
OldFragment(pkt) ==
    /\ pkt.fragmented
    /\ incomingFragmentedPacket.messageId > pkt.payload.messageId
    /\ UNCHANGED receiverVars

(* Any other fragment; the sequence number is not looked at.  The one that *)
(* completes the message gives it its sequence number.                     *)
NewFragment(pkt) ==
    /\ pkt.fragmented
    /\ incomingFragmentedPacket.messageId <= pkt.payload.messageId
    /\ LET asm == Insert(Reassembly(pkt.payload), pkt.payload)
       IN  IF receivedLength(asm) = pkt.payload.messageTotalLength
           THEN /\ HandOver(pkt.seq, asm.packetString)
                /\ incomingFragmentedPacket' =
                       [messageId |-> 0, fragments |-> {}, packetString |-> asm.packetString]
           ELSE /\ incomingFragmentedPacket' = asm
                /\ UNCHANGED <<peerSequenceNumber, received>>

packetCheck(pkt) == Unfragmented(pkt) \/ OldFragment(pkt) \/ NewFragment(pkt)

Receive(pkt) ==
    /\ packetCheck(pkt)
    /\ net' = net \ {pkt}
    /\ UNCHANGED <<senderVars, faults>>

(* The network delivers a packet twice... *)
Duplicate(pkt) ==
    /\ faults < MaxFaults /\ faults' = faults + 1
    /\ packetCheck(pkt)
    /\ UNCHANGED <<senderVars, net>>

(* ... or not at all. *)
Lose(pkt) ==
    /\ faults < MaxFaults /\ faults' = faults + 1
    /\ net' = net \ {pkt}
    /\ UNCHANGED <<senderVars, receiverVars>>

Next ==
    \/ Build
    \/ Resend
    \/ \E pkt \in net : Receive(pkt) \/ Duplicate(pkt) \/ Lose(pkt)

Spec == Init /\ [][Next]_vars

(* The state machine builds its messages and its timer repeats the last    *)
(* one; a packet that is not lost arrives.                                 *)
Fairness ==
    /\ WF_vars(Build)
    /\ WF_vars(Resend)
    /\ WF_vars(\E pkt \in net : Receive(pkt))

FairSpec == Spec /\ Fairness
-----------------------------------------------------------------------------
(* Properties.                                                             *)

(* The length of a packet, a message or a fragment of one. *)
PacketLength(pkt) ==
    IF pkt.fragmented THEN pkt.payload.size + ZRTP_FRAGMENTEDPACKET_OVERHEAD
    ELSE MessageLength[pkt.payload] + ZRTP_PACKET_OVERHEAD

(* The packet state of bzrtpChannelContext_t: sequence numbers, message    *)
(* ids, offsets and lengths are of 16 bits, and no packet that is sent,    *)
(* whole or a fragment, exceeds the MTU.                                   *)
TypeOK ==
    /\ current \in 0 .. Len(MessageLength) /\ sends \in Nat /\ faults \in 0..MaxFaults
    /\ {selfSequenceNumber, peerSequenceNumber, selfMessageSequenceNumber,
        incomingFragmentedPacket.messageId} \subseteq 0 .. Wrap - 1
    /\ \A pkt \in net : /\ pkt.seq \in 0 .. Wrap - 1 /\ pkt.fragmented \in BOOLEAN
                       /\ PacketLength(pkt) <= Mtu
    /\ incomingFragmentedPacket.fragments \subseteq
           [offset : 0 .. Wrap - 1, length : 0 .. Wrap - 1]

(* What bzrtp_packetCheck hands to the state machine is, byte for byte, a  *)
(* message the peer built: never one with bytes nothing was copied to, and *)
(* never a mixture of two messages, whichever fragments were lost,         *)
(* repeated or overtaken by those of the next message.                     *)
ReassembledIntact ==
    received \subseteq {Content(m) : m \in 1..current}

(* The bytes of all collected fragments are those of the message whose id  *)
(* is stored, and a fragment is never copied past the end of the buffer    *)
(* that the first one of its message had allocated.                        *)
FragmentsInPlace ==
    \A g \in incomingFragmentedPacket.fragments :
        LET bytes == WordSize * g.offset .. WordSize * (g.offset + g.length) - 1
        IN  /\ bytes \subseteq DOMAIN incomingFragmentedPacket.packetString
            /\ \E m \in 1..current : \A i \in bytes :
                   incomingFragmentedPacket.packetString[i] = <<m, i>>

(* The timer's retransmissions repair the losses: when they outnumber      *)
(* these, the message the state machine stays with is put together in the  *)
(* end, whatever was left of earlier messages in the reassembly state.     *)
LastMessageArrives == <>(Content(Len(MessageLength)) \in received)
=============================================================================
