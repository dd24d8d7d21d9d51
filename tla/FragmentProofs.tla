--------------------------- MODULE FragmentProofs ---------------------------
(***************************************************************************)
(* Proofs about FragmentReassembly, for any messages, any MTU, any number  *)
(* of retransmissions and of packets lost or duplicated.                   *)
(***************************************************************************)
EXTENDS FragmentReassembly, FiniteSetTheorems, TLAPS

(* Every fragment the sender keeps or the network may still deliver. *)
Known ==
    {pkt.payload : pkt \in {q \in net : q.fragmented}}
        \cup {fragments[k] : k \in DOMAIN fragments}

-----------------------------------------------------------------------------
(* Types.                                                                  *)

U16 == 0 .. Wrap - 1

FragmentOK(f) ==
    /\ f.messageId \in U16
    /\ f.offset \in U16 /\ f.fragmentLength \in U16
    /\ f.size + ZRTP_FRAGMENTEDPACKET_OVERHEAD <= Mtu

(* A message that was not cut fits. *)
Fits(m, frags) == frags = <<>> => MessageLength[m] + ZRTP_PACKET_OVERHEAD <= Mtu

Numbered(frags) == frags = <<>> \/ \E n \in Nat : DOMAIN frags = 1..n /\ Len(frags) = n

Shape(asm) ==
    asm = [messageId |-> asm.messageId, fragments |-> asm.fragments,
           packetString |-> asm.packetString]

TypeInv ==
    /\ TypeOK
    /\ Shape(incomingFragmentedPacket)
    /\ Numbered(fragments)
    /\ current > 0 => Fits(current, fragments)
    /\ \A f \in Known : FragmentOK(f)

-----------------------------------------------------------------------------
(* Where the bytes are.                                                    *)

(* What the code relies on without checking it: an MTU of whole words, for *)
(* offsets are counted in words, and no message id used twice.             *)
WholeWords == Mtu % WordSize = 0
NoIdTwice == InitialSeq + Len(MessageLength) < Wrap

(* Sizes in words. *)
Room == FragmentMax \div WordSize
Words(m) == MessageLength[m] \div WordSize

(* The fragments of a message m, of all ids, cut it into pieces: the one   *)
(* that starts at word o is l words long.                                  *)
Piece(m, o, l) ==
    /\ \E j \in 0..o : o = j * Room
    /\ o < Words(m)
    /\ l = IF Words(m) - o < Room THEN Words(m) - o ELSE Room

(* A fragment is a piece of one of the first n messages, and says so; the  *)
(* next message id is next.                                                *)
Faithful(f, n, next) ==
    /\ f.message \in 1..n
    /\ f.messageId \in 1 .. next - 1
    /\ f.messageTotalLength = Words(f.message)
    /\ Piece(f.message, f.offset, f.fragmentLength)
    /\ f.from = WordSize * f.offset /\ f.size = WordSize * f.fragmentLength

(* The reassembly state holds pieces of message m, in their place. *)
Bytes(g) == WordSize * g.offset .. WordSize * (g.offset + g.length) - 1

Holds(asm, m) ==
    /\ asm.packetString = [i \in 0 .. MessageLength[m] - 1 |-> asm.packetString[i]]
    /\ asm.fragments \subseteq [offset : Nat, length : Nat]
    /\ \A g \in asm.fragments :
          /\ Piece(m, g.offset, g.length)
          /\ \A i \in Bytes(g) : asm.packetString[i] = <<m, i>>

(* The message that is put together is the one its id stands for. *)
Collects(asm, m, known) ==
    /\ \A f \in known : f.messageId = asm.messageId => f.message = m
    /\ Holds(asm, m)

InOrder(asm, known, n, next) ==
    /\ asm.messageId = 0 => asm.fragments = {}
    /\ asm.messageId # 0 =>
          /\ asm.messageId \in 1 .. next - 1
          /\ \E m \in 1..n : Collects(asm, m, known)

OneMessagePerId(known) ==
    \A f, g \in known : f.messageId = g.messageId => f.message = g.message

IntactInv ==
    /\ selfMessageSequenceNumber \in InitialSeq .. InitialSeq + current
    /\ \A pkt \in net : ~pkt.fragmented => pkt.payload \in 1..current
    /\ \A f \in Known : Faithful(f, current, selfMessageSequenceNumber)
    /\ OneMessagePerId(Known)
    /\ InOrder(incomingFragmentedPacket, Known, current, selfMessageSequenceNumber)
    /\ ReassembledIntact

-----------------------------------------------------------------------------
(* Arithmetic.                                                             *)

(* What the assumptions say about the sizes. *)
LEMMA Sizes ==
    /\ Mtu \in Nat /\ FragmentMax \in Nat /\ FragmentMax > 0
    /\ \A m \in Messages : MessageLength[m] \in Nat /\ MessageLength[m] > 0
    /\ Len(MessageLength) \in Nat /\ Messages = 1..Len(MessageLength)
    /\ \A m \in Messages : MessageLength[m] < Wrap
    /\ InitialSeq \in Nat /\ InitialSeq > 0 /\ InitialSeq < Wrap /\ MaxFaults \in Nat
<1>1. Mtu \in Nat
  BY MtuAssumption DEF Mtu, set_MTU
<1> QED BY <1>1, FragmentAssumption
       DEF FragmentMax, ZRTP_FRAGMENTEDPACKET_OVERHEAD, ZRTP_PACKET_OVERHEAD, Messages, Wrap

(* A number reduced to 16 bits. *)
LEMMA Reduced ==
    ASSUME NEW a \in Nat
    PROVE  a % Wrap \in U16
<1>1. Wrap \in Nat /\ Wrap > 0
  BY DEF Wrap
<1>2. ASSUME NEW w \in Nat, w > 0 PROVE a % w \in 0 .. w - 1
  BY <1>2
<1> QED BY <1>1, <1>2 DEF U16

(* Whatever is below the length of a message is of 16 bits, counted in     *)
(* bytes or in words.                                                      *)
LEMMA Below ==
    ASSUME NEW m \in Messages, NEW a \in Nat, a <= MessageLength[m]
    PROVE  a \div WordSize \in U16
<1>1. Wrap \in Nat /\ a < Wrap
  BY Sizes DEF Wrap
<1>2. a \div 4 \in Int /\ 4 * (a \div 4) <= a /\ a < 4 * (a \div 4) + 4
  OBVIOUS
<1>3. ASSUME NEW w \in Nat, NEW q \in Int, 4 * q <= a, a < 4 * q + 4, a < w
      PROVE  q \in 0 .. w - 1
  BY <1>3
<1> QED BY <1>1, <1>2, <1>3 DEF U16, WordSize

(* Multiples of a size are that far apart. *)
LEMMA Apart ==
    ASSUME NEW a \in Nat, NEW b \in Nat, NEW s \in Nat, a < b
    PROVE  a * s + s <= b * s
<1> DEFINE d == b - (a + 1)
<1>1. d \in Nat /\ b = a + 1 + d
  OBVIOUS
<1> HIDE DEF d
<1>2. b * s = a * s + s + d * s
  BY <1>1
<1>3. d * s \in Nat /\ a * s \in Nat
  BY <1>1
<1> QED BY <1>2, <1>3

(* The number of fragments is just large enough. *)
LEMMA LastStart ==
    ASSUME NEW l \in Nat, NEW s \in Nat, s > 0, NEW k \in 1 .. (l + s - 1) \div s
    PROVE  (k - 1) * s \in Nat /\ (k - 1) * s < l
<1> DEFINE n == (l + s - 1) \div s
<1>1. n \in Nat /\ n * s <= l + s - 1
  OBVIOUS
<1>2. k - 1 \in Nat /\ k - 1 < n
  BY <1>1
<1> HIDE DEF n
<1>3. (k - 1) * s + s <= n * s
  BY <1>1, <1>2, Apart
<1>4. (k - 1) * s \in Nat
  BY <1>2
<1>5. n * s \in Nat
  BY <1>1
<1> QED BY <1>1, <1>3, <1>4, <1>5

(* The header of a fragment. *)
LEMMA FragmentFields ==
    ASSUME NEW m \in Messages, NEW id,
           NEW k \in 1 .. (MessageLength[m] + FragmentMax - 1) \div FragmentMax
    PROVE  LET f == Fragment(m, id, k) IN
           /\ f.messageId = id /\ f.message = m /\ f.from = (k - 1) * FragmentMax
           /\ f.messageTotalLength = Words(m)
           /\ f.offset = f.from \div WordSize /\ f.fragmentLength = f.size \div WordSize
           /\ f.from \in Nat /\ f.from < MessageLength[m]
           /\ f.size = IF MessageLength[m] - f.from < FragmentMax
                       THEN MessageLength[m] - f.from ELSE FragmentMax
           /\ f.size \in Nat /\ f.size <= FragmentMax
           /\ f.offset \in U16 /\ f.fragmentLength \in U16
<1> DEFINE o == (k - 1) * FragmentMax
           rest == MessageLength[m] - o
           size == IF rest < FragmentMax THEN rest ELSE FragmentMax
           f == Fragment(m, id, k)
<1>1. o \in Nat /\ o < MessageLength[m]
  BY Sizes, LastStart
<1>2. /\ f.messageId = id /\ f.message = m /\ f.from = o /\ f.size = size
      /\ f.messageTotalLength = Words(m)
      /\ f.offset = o \div WordSize /\ f.fragmentLength = size \div WordSize
  BY DEF Fragment, Words
<1> HIDE DEF o, f
<1>3. size \in Nat /\ size <= FragmentMax /\ size <= MessageLength[m] /\ o <= MessageLength[m]
  BY <1>1, Sizes
<1>4. o \div WordSize \in U16 /\ size \div WordSize \in U16
  <2> HIDE DEF size
  <2> QED BY <1>1, <1>3, Below
<1>5. /\ f.from \in Nat /\ f.from < MessageLength[m] /\ f.size \in Nat
      /\ f.size = IF MessageLength[m] - f.from < FragmentMax
                  THEN MessageLength[m] - f.from ELSE FragmentMax
      /\ f.offset = f.from \div WordSize /\ f.fragmentLength = f.size \div WordSize
      /\ f.size <= FragmentMax /\ f.offset \in U16 /\ f.fragmentLength \in U16
  BY <1>1, <1>2, <1>3, <1>4
<1>6. f.from = (k - 1) * FragmentMax
  BY <1>2 DEF o
<1> QED BY <1>2, <1>5, <1>6 DEF f

-----------------------------------------------------------------------------
(* The sender.                                                             *)

(* The packets of a message carry the message, or its fragments. *)
LEMMA PacketContents ==
    ASSUME NEW m, NEW frags, NEW pkt \in Packets(m, frags)
    PROVE  /\ pkt.fragmented \in BOOLEAN
           /\ ~pkt.fragmented => pkt.payload = m /\ frags = <<>>
           /\ pkt.fragmented => \E k \in DOMAIN frags : pkt.payload = frags[k]
<1>1. CASE frags = <<>>
  <2>1. pkt = [seq |-> selfSequenceNumber, fragmented |-> FALSE, payload |-> m]
    BY <1>1 DEF Packets
  <2> QED BY <1>1, <2>1
<1>2. CASE frags # <<>>
  <2>1. PICK k \in DOMAIN frags : pkt = [seq |-> (selfSequenceNumber + k - 1) % Wrap,
                                         fragmented |-> TRUE, payload |-> frags[k]]
    BY <1>2 DEF Packets
  <2> QED BY <2>1
<1> QED BY <1>1, <1>2

(* Their numbers, and the next one. *)
LEMMA PacketNumbers ==
    ASSUME selfSequenceNumber \in U16, NEW m, NEW frags, Numbered(frags)
    PROVE  /\ \A pkt \in Packets(m, frags) : pkt.seq \in U16
           /\ (selfSequenceNumber + PacketCount(frags)) % Wrap \in U16
<1>0. selfSequenceNumber \in Nat
  BY DEF U16
<1>1. CASE frags = <<>>
  <2>1. Packets(m, frags) = {[seq |-> selfSequenceNumber, fragmented |-> FALSE, payload |-> m]}
        /\ PacketCount(frags) = 1
    BY <1>1 DEF Packets, PacketCount
  <2>2. selfSequenceNumber + 1 \in Nat
    BY <1>0
  <2> QED BY <2>1, <2>2, Reduced
<1>2. CASE frags # <<>>
  <2>1. PICK n \in Nat : DOMAIN frags = 1..n /\ Len(frags) = n
    BY <1>2 DEF Numbered
  <2>2. PacketCount(frags) = n
    BY <1>2, <2>1 DEF PacketCount
  <2>3. ASSUME NEW pkt \in Packets(m, frags) PROVE pkt.seq \in U16
    <3>1. PICK k \in 1..n : pkt = [seq |-> (selfSequenceNumber + k - 1) % Wrap,
                                   fragmented |-> TRUE, payload |-> frags[k]]
      BY <1>2, <2>1 DEF Packets
    <3>2. selfSequenceNumber + k - 1 \in Nat
      BY <1>0
    <3> QED BY <3>1, <3>2, Reduced
  <2>4. selfSequenceNumber + n \in Nat
    BY <1>0
  <2> QED BY <2>2, <2>3, <2>4, Reduced
<1> QED BY <1>1, <1>2

(* The fragments of a message are numbered from 1 on. *)
LEMMA FragmentsNumbered ==
    ASSUME NEW m \in Messages, NEW id
    PROVE  /\ Numbered(FragmentsOf(m, id)) /\ Fits(m, FragmentsOf(m, id))
           /\ \A k \in DOMAIN FragmentsOf(m, id) :
                 /\ k \in 1 .. (MessageLength[m] + FragmentMax - 1) \div FragmentMax
                 /\ FragmentsOf(m, id)[k] = Fragment(m, id, k)
<1> DEFINE n == (MessageLength[m] + FragmentMax - 1) \div FragmentMax
<1>1. n \in Nat /\ n > 0
  <2> DEFINE l == MessageLength[m]
             s == FragmentMax
  <2>1. l \in Nat /\ l > 0 /\ s \in Nat /\ s > 0
    BY Sizes
  <2> HIDE DEF l, s
  <2>2. (l + s - 1) \div s \in Nat /\ (l + s - 1) \div s > 0
    BY <2>1
  <2> QED BY <2>2 DEF l, s
<1> HIDE DEF n
<1>2. CASE Mtu < MessageLength[m] + ZRTP_PACKET_OVERHEAD
  <2>1. FragmentsOf(m, id) = [k \in 1..n |-> Fragment(m, id, k)]
    BY <1>2 DEF FragmentsOf, n
  <2>2. DOMAIN FragmentsOf(m, id) = 1..n /\ Len(FragmentsOf(m, id)) = n
    BY <1>1, <2>1
  <2>3. FragmentsOf(m, id) # <<>>
    BY <1>1, <2>2
  <2> QED BY <1>1, <2>1, <2>2, <2>3 DEF Numbered, Fits, n
<1>3. CASE ~(Mtu < MessageLength[m] + ZRTP_PACKET_OVERHEAD)
  <2>1. FragmentsOf(m, id) = <<>>
    BY <1>3 DEF FragmentsOf
  <2>2. MessageLength[m] + ZRTP_PACKET_OVERHEAD <= Mtu
    BY <1>3, Sizes DEF ZRTP_PACKET_OVERHEAD
  <2> QED BY <2>1, <2>2 DEF Numbered, Fits
<1> QED BY <1>2, <1>3

-----------------------------------------------------------------------------
(* Types are kept.                                                         *)

(* Sending: what is known afterwards was known or is in what is sent. *)
LEMMA SendKnows ==
    ASSUME NEW m, NEW frags, sendPacket(m, frags), fragments' = frags
    PROVE  /\ \A f \in Known' : f \in Known \/ \E k \in DOMAIN frags : f = frags[k]
           /\ \A pkt \in net' : pkt \in net \/ pkt \in Packets(m, frags)
<1>1. net' = net \cup Packets(m, frags)
  BY DEF sendPacket
<1>2. ASSUME NEW f \in Known' PROVE f \in Known \/ \E k \in DOMAIN frags : f = frags[k]
  <2>1. CASE \E pkt \in net' : pkt.fragmented /\ f = pkt.payload
    <3>1. PICK pkt \in net' : pkt.fragmented /\ f = pkt.payload
      BY <2>1
    <3>2. CASE pkt \in net
      BY <3>1, <3>2 DEF Known
    <3>3. CASE pkt \in Packets(m, frags)
      BY <3>1, <3>3, PacketContents
    <3> QED BY <1>1, <3>2, <3>3
  <2>2. CASE \E k \in DOMAIN frags : f = frags[k]
    BY <2>2
  <2> QED BY <2>1, <2>2 DEF Known
<1> QED BY <1>1, <1>2

(* The types of what is sent. *)
PacketOK(pkt) == pkt.seq \in U16 /\ pkt.fragmented \in BOOLEAN /\ PacketLength(pkt) <= Mtu

(* Packets of fragments that fit, or of a message that does. *)
LEMMA SendTypes ==
    ASSUME TypeInv, NEW m, NEW frags, Numbered(frags), Fits(m, frags),
           \A k \in DOMAIN frags : FragmentOK(frags[k]),
           sendPacket(m, frags), fragments' = frags
    PROVE  /\ selfSequenceNumber' \in U16
           /\ \A pkt \in net' : PacketOK(pkt)
           /\ \A f \in Known' : FragmentOK(f)
<1>1. selfSequenceNumber \in U16 /\ \A pkt \in net : PacketOK(pkt)
  BY DEF TypeInv, TypeOK, U16, PacketOK
<1>2. /\ \A pkt \in Packets(m, frags) : pkt.seq \in U16
      /\ selfSequenceNumber' \in U16
  BY <1>1, PacketNumbers DEF sendPacket
<1>3. \A f \in Known' : FragmentOK(f)
  BY SendKnows DEF TypeInv
<1>4. ASSUME NEW pkt \in Packets(m, frags) PROVE PacketOK(pkt)
  <2>1. CASE pkt.fragmented
    BY <1>2, <2>1, PacketContents DEF PacketOK, PacketLength, FragmentOK
  <2>2. CASE ~pkt.fragmented
    BY <1>2, <2>2, PacketContents DEF PacketOK, PacketLength, Fits
  <2> QED BY <2>1, <2>2
<1> QED BY <1>1, <1>2, <1>3, <1>4, SendKnows

(* Building a message. *)
LEMMA TypeBuild == ASSUME TypeInv, Build PROVE TypeInv'
<1> DEFINE m == current + 1
           id == selfMessageSequenceNumber
           frags == FragmentsOf(m, id)
<1>1. current \in Nat /\ current < Len(MessageLength) /\ m \in Messages /\ id \in 0 .. Wrap - 1
  BY Sizes DEF TypeInv, TypeOK, Build
<1>2. Numbered(frags) /\ Fits(m, frags) /\ \A k \in DOMAIN frags : FragmentOK(frags[k])
  <2>1. ASSUME NEW k \in 1 .. (MessageLength[m] + FragmentMax - 1) \div FragmentMax
        PROVE  FragmentOK(Fragment(m, id, k))
    <3> DEFINE f == Fragment(m, id, k)
    <3>1. /\ f.messageId = id /\ f.size \in Nat /\ f.size <= FragmentMax
          /\ f.offset \in U16 /\ f.fragmentLength \in U16
      BY <1>1, FragmentFields
    <3> HIDE DEF f, id
    <3>2. f.size + ZRTP_FRAGMENTEDPACKET_OVERHEAD <= Mtu
      BY <3>1, Sizes DEF FragmentMax, ZRTP_FRAGMENTEDPACKET_OVERHEAD
    <3> QED BY <1>1, <3>1, <3>2 DEF FragmentOK, f, U16
  <2> QED BY <1>1, <2>1, FragmentsNumbered
<1>3. /\ sendPacket(m, frags) /\ fragments' = frags /\ current' = m /\ sends' = 1
      /\ selfMessageSequenceNumber' = NextMessageId(frags)
      /\ UNCHANGED <<receiverVars, faults>>
  BY DEF Build
<1> HIDE DEF frags
<1>4. selfMessageSequenceNumber' \in 0 .. Wrap - 1
  <2>1. NextMessageId(frags) \in {id, (id + 1) % Wrap}
    BY DEF NextMessageId
  <2>2. (id + 1) % Wrap \in 0 .. Wrap - 1
    <3>1. id + 1 \in Nat
      <4> HIDE DEF id
      <4> QED BY <1>1
    <3> QED BY <3>1, Reduced DEF U16
  <2> QED BY <1>1, <1>3, <2>1, <2>2
<1>5. /\ selfSequenceNumber' \in U16
      /\ \A pkt \in net' : PacketOK(pkt)
      /\ \A f \in Known' : FragmentOK(f)
  BY <1>2, <1>3, SendTypes
<1>6. TypeOK'
  BY <1>1, <1>3, <1>4, <1>5, Sizes
     DEF TypeInv, TypeOK, receiverVars, U16, PacketOK, PacketLength
<1>7. Numbered(fragments)' /\ Shape(incomingFragmentedPacket)' /\ Fits(current, fragments)'
  BY <1>2, <1>3 DEF TypeInv, receiverVars, Numbered, Shape, Fits
<1>8. (\A f \in Known : FragmentOK(f))'
  BY <1>5 DEF FragmentOK
<1> QED BY <1>5, <1>6, <1>7, <1>8 DEF TypeInv

(* Sending it again. *)
LEMMA TypeResend == ASSUME TypeInv, Resend PROVE TypeInv'
<1>1. /\ sendPacket(current, fragments) /\ sends' = sends + 1
      /\ UNCHANGED <<current, fragments, selfMessageSequenceNumber, receiverVars, faults>>
  BY DEF Resend
<1>2. \A k \in DOMAIN fragments : FragmentOK(fragments[k])
  BY DEF TypeInv, Known
<1>3. /\ selfSequenceNumber' \in U16
      /\ \A pkt \in net' : PacketOK(pkt)
      /\ \A f \in Known' : FragmentOK(f)
  BY <1>1, <1>2, SendTypes DEF TypeInv, Resend
<1>4. TypeOK'
  BY <1>1, <1>3 DEF TypeInv, TypeOK, receiverVars, U16, PacketOK, PacketLength
<1>5. /\ Numbered(fragments)' /\ Shape(incomingFragmentedPacket)'
      /\ (current > 0 => Fits(current, fragments))'
  BY <1>1 DEF TypeInv, receiverVars, Numbered, Shape, Fits
<1>6. (\A f \in Known : FragmentOK(f))'
  BY <1>3 DEF FragmentOK
<1> QED BY <1>3, <1>4, <1>5, <1>6 DEF TypeInv

-----------------------------------------------------------------------------
(* The receiver.                                                           *)

(* Fragment f copied to its place. *)
Copied(string, f) ==
    [i \in DOMAIN string |->
        LET k == i - WordSize * f.offset
        IN  IF k \in 0 .. f.size - 1 THEN <<f.message, f.from + k>> ELSE string[i]]

Info(f) == [offset |-> f.offset, length |-> f.fragmentLength]

(* What Insert does. *)
LEMMA InsertFields ==
    ASSUME NEW asm, NEW f, Shape(asm)
    PROVE  LET new == Insert(asm, f) IN
           /\ Shape(new) /\ new.messageId = asm.messageId
           /\ \/ new = asm
              \/ /\ new.fragments = asm.fragments \cup {Info(f)}
                 /\ new.packetString = Copied(asm.packetString, f)
<1>1. CASE \E g \in asm.fragments : g.offset = f.offset
  BY <1>1 DEF Insert
<1>2. CASE ~\E g \in asm.fragments : g.offset = f.offset
  <2> DEFINE rec == [messageId |-> asm.messageId,
                     fragments |-> asm.fragments \cup {Info(f)},
                     packetString |-> Copied(asm.packetString, f)]
  <2>1. Insert(asm, f) = rec
    BY <1>2 DEF Insert, Shape, Info, Copied
  <2>2. Shape(rec)
    BY DEF Shape
  <2> QED BY <2>1, <2>2
<1> QED BY <1>1, <1>2

(* The state a fragment is put in. *)
LEMMA ReassemblyFields ==
    ASSUME NEW f, Shape(incomingFragmentedPacket)
    PROVE  LET asm == Reassembly(f) IN
           /\ Shape(asm)
           /\ \/ asm = incomingFragmentedPacket
              \/ /\ asm.messageId = f.messageId /\ asm.fragments = {}
                 /\ asm.packetString = [i \in 0 .. WordSize * f.messageTotalLength - 1 |-> Garbage]
BY DEF Reassembly, Collecting, Shape

(* What packetCheck does: nothing, hand over a message that came in one    *)
(* packet, go on collecting fragments, or hand over what was collected.    *)
Keeps == UNCHANGED <<received, incomingFragmentedPacket>>
HandsOver(pkt) ==
    /\ ~pkt.fragmented
    /\ received' = received \cup {Content(pkt.payload)} /\ UNCHANGED incomingFragmentedPacket
GoesOn(f) == UNCHANGED received /\ incomingFragmentedPacket' = Insert(Reassembly(f), f)
Completes(f) ==
    LET asm == Insert(Reassembly(f), f) IN
    /\ receivedLength(asm) = f.messageTotalLength
    /\ received' = received \cup {asm.packetString}
    /\ incomingFragmentedPacket' =
           [messageId |-> 0, fragments |-> {}, packetString |-> asm.packetString]

(* The cases of bzrtp_packetCheck. *)
LEMMA CheckCases ==
    ASSUME TypeInv, NEW pkt \in net, packetCheck(pkt)
    PROVE  /\ peerSequenceNumber' \in {peerSequenceNumber, pkt.seq}
           /\ \/ Keeps \/ HandsOver(pkt)
              \/ /\ pkt.fragmented
                 /\ incomingFragmentedPacket.messageId <= pkt.payload.messageId
                 /\ GoesOn(pkt.payload) \/ Completes(pkt.payload)
<1>1. CASE Unfragmented(pkt)
  BY <1>1 DEF Unfragmented, HandOver, Keeps, HandsOver
<1>2. CASE OldFragment(pkt)
  BY <1>2 DEF OldFragment, receiverVars, Keeps
<1>3. CASE NewFragment(pkt)
  <2> DEFINE f == pkt.payload
             asm == Insert(Reassembly(f), f)
  <2>3. CASE receivedLength(asm) = f.messageTotalLength
    BY <1>3, <2>3 DEF NewFragment, HandOver, Completes
  <2>4. CASE ~(receivedLength(asm) = f.messageTotalLength)
    BY <1>3, <2>4 DEF NewFragment, GoesOn
  <2> QED BY <1>3, <2>3, <2>4 DEF NewFragment
<1> QED BY <1>1, <1>2, <1>3 DEF packetCheck

(* The receiver's types. *)
LEMMA TypeCheck ==
    ASSUME TypeInv, NEW pkt \in net, packetCheck(pkt)
    PROVE  /\ peerSequenceNumber' \in U16
           /\ Shape(incomingFragmentedPacket)'
           /\ incomingFragmentedPacket'.messageId \in U16
           /\ incomingFragmentedPacket'.fragments \subseteq [offset : U16, length : U16]
<1> DEFINE old == incomingFragmentedPacket
           f == pkt.payload
<1>1. /\ Shape(old) /\ old.messageId \in U16
      /\ old.fragments \subseteq [offset : U16, length : U16]
  BY DEF TypeInv, TypeOK, U16
<1>2. peerSequenceNumber' \in U16
  BY CheckCases DEF TypeInv, TypeOK, U16
<1>3. CASE Keeps \/ HandsOver(pkt)
  BY <1>1, <1>2, <1>3 DEF Keeps, HandsOver, Shape
<1>4. CASE pkt.fragmented /\ (GoesOn(f) \/ Completes(f))
  <2> DEFINE new == Insert(Reassembly(f), f)
  <2>1. f.messageId \in U16 /\ Info(f) \in [offset : U16, length : U16]
    <3>1. FragmentOK(f)
      BY <1>4 DEF TypeInv, Known
    <3> QED BY <3>1 DEF FragmentOK, Info
  <2>2. /\ Shape(Reassembly(f)) /\ Reassembly(f).messageId \in U16
        /\ Reassembly(f).fragments \subseteq [offset : U16, length : U16]
    BY <1>1, <2>1, ReassemblyFields
  <2>3. /\ Shape(new) /\ new.messageId \in U16
        /\ new.fragments \subseteq [offset : U16, length : U16]
    <3>1. /\ Shape(new) /\ new.messageId = Reassembly(f).messageId
          /\ \/ new = Reassembly(f)
             \/ new.fragments = Reassembly(f).fragments \cup {Info(f)}
      BY <2>2, InsertFields
    <3> HIDE DEF new
    <3> QED BY <2>1, <2>2, <3>1
  <2>4. CASE GoesOn(f)
    <3>1. incomingFragmentedPacket' = new
      BY <2>4 DEF GoesOn
    <3> HIDE DEF new
    <3> QED BY <1>2, <2>3, <3>1 DEF Shape
  <2>5. CASE Completes(f)
    <3>1. incomingFragmentedPacket' =
            [messageId |-> 0, fragments |-> {}, packetString |-> new.packetString]
      BY <2>5 DEF Completes
    <3>2. 0 \in U16
      BY DEF Wrap, U16
    <3> HIDE DEF new
    <3>3. /\ incomingFragmentedPacket'.messageId = 0
          /\ incomingFragmentedPacket'.fragments = {}
          /\ incomingFragmentedPacket'.packetString = new.packetString
      BY <3>1
    <3>4. Shape(incomingFragmentedPacket)'
      BY <3>1, <3>3 DEF Shape
    <3> QED BY <1>2, <3>2, <3>3, <3>4
  <2> QED BY <1>4, <2>4, <2>5
<1> QED BY <1>3, <1>4, CheckCases

(* Nothing is known that was not known when no packet is sent. *)
LEMMA FewerKnown ==
    ASSUME net' \subseteq net, UNCHANGED fragments
    PROVE  \A f \in Known' : f \in Known
BY DEF Known

(* The invariant for the types holds in every state. *)
LEMMA TypeInvariance == Spec => []TypeInv
<1>1. Init => TypeInv
  <2> SUFFICES ASSUME Init PROVE TypeInv
    OBVIOUS
  <2>1. Known = {}
    BY DEF Init, Known
  <2>2. TypeOK
    <3>1. /\ Len(MessageLength) \in Nat /\ MaxFaults \in Nat
          /\ InitialSeq \in Nat /\ InitialSeq < Wrap /\ Wrap \in Nat
      BY Sizes DEF Wrap
    <3>2. 0 \in 0 .. Len(MessageLength) /\ 0 \in 0..MaxFaults /\ 0 \in 0 .. Wrap - 1
      BY <3>1
    <3>3. InitialSeq \in 0 .. Wrap - 1
      BY <3>1
    <3> QED BY <3>1, <3>2, <3>3 DEF Init, TypeOK
  <2>3. Shape(incomingFragmentedPacket) /\ Numbered(fragments)
    BY DEF Init, Shape, Numbered
  <2> QED BY <2>1, <2>2, <2>3, Sizes DEF TypeInv, Init
<1>2. TypeInv /\ [Next]_vars => TypeInv'
  <2> SUFFICES ASSUME TypeInv, [Next]_vars PROVE TypeInv'
    OBVIOUS
  <2>1. CASE UNCHANGED vars
    <3>1. /\ UNCHANGED <<current, fragments, sends, selfSequenceNumber, net, faults,
                         selfMessageSequenceNumber, incomingFragmentedPacket,
                         peerSequenceNumber, received>>
      BY <2>1 DEF vars, senderVars, receiverVars
    <3> QED BY <3>1 DEF TypeInv, TypeOK, Known, Numbered, Shape, FragmentOK, Fits, PacketLength
  <2>2. CASE Build
    BY <2>2, TypeBuild
  <2>3. CASE Resend
    BY <2>3, TypeResend
  <2>4. ASSUME NEW pkt \in net, Receive(pkt) \/ Duplicate(pkt) \/ Lose(pkt) PROVE TypeInv'
    <3>1. /\ net' \subseteq net /\ UNCHANGED senderVars
          /\ faults' \in 0..MaxFaults
      BY <2>4, Sizes DEF Receive, Duplicate, Lose, TypeInv, TypeOK
    <3>2. /\ peerSequenceNumber' \in U16
          /\ Shape(incomingFragmentedPacket)'
          /\ incomingFragmentedPacket'.messageId \in U16
          /\ incomingFragmentedPacket'.fragments \subseteq [offset : U16, length : U16]
      <4>1. CASE packetCheck(pkt)
        BY <4>1, TypeCheck
      <4>2. CASE UNCHANGED receiverVars
        BY <4>2 DEF receiverVars, TypeInv, TypeOK, Shape, U16
      <4> QED BY <2>4, <4>1, <4>2 DEF Receive, Duplicate, Lose
    <3>3. (\A f \in Known : FragmentOK(f))'
      BY <3>1, FewerKnown DEF senderVars, TypeInv, FragmentOK
    <3>4. TypeOK'
      BY <3>1, <3>2 DEF senderVars, TypeInv, TypeOK, U16, PacketLength
    <3> QED BY <3>1, <3>2, <3>3, <3>4 DEF TypeInv, senderVars, Numbered, Fits
  <2> QED BY <2>1, <2>2, <2>3, <2>4 DEF Next
<1> QED BY <1>1, <1>2, PTL DEF Spec

(* TypeOK: sequence numbers, message ids and the offsets and lengths that  *)
(* are stored of fragments stay in 16 bits, and no packet in flight is     *)
(* longer than the MTU, whatever MTU the application asked for.            *)
THEOREM Types == Spec => []TypeOK
<1>1. TypeInv => TypeOK
  BY DEF TypeInv
<1> QED BY <1>1, TypeInvariance, PTL

-----------------------------------------------------------------------------
(* Whole words.                                                            *)

LEMMA WholeSizes ==
    ASSUME WholeWords
    PROVE  /\ Room \in Nat /\ Room > 0 /\ FragmentMax = 4 * Room
           /\ \A m \in Messages : /\ Words(m) \in Nat /\ Words(m) < Wrap
                                  /\ MessageLength[m] = 4 * Words(m)
<1>1. FragmentMax % 4 = 0
  BY Sizes DEF WholeWords, WordSize, FragmentMax, ZRTP_FRAGMENTEDPACKET_OVERHEAD
<1>2. Room \in Nat /\ Room > 0 /\ FragmentMax = 4 * Room
  BY <1>1, Sizes DEF Room, WordSize
<1>3. ASSUME NEW m \in Messages
      PROVE  Words(m) \in Nat /\ Words(m) < Wrap /\ MessageLength[m] = 4 * Words(m)
  <2>1. /\ MessageLength[m] \in Nat /\ MessageLength[m] % 4 = 0
        /\ MessageLength[m] + 16 < Wrap
    BY Sizes, FragmentAssumption DEF WordSize, ZRTP_PACKET_OVERHEAD
  <2> QED BY <2>1 DEF Words, WordSize, Wrap
<1> QED BY <1>2, <1>3

(* The fragments of a message are pieces of it. *)
LEMMA FragmentFaithful ==
    ASSUME WholeWords, NEW m \in Messages, NEW id,
           NEW k \in 1 .. (MessageLength[m] + FragmentMax - 1) \div FragmentMax
    PROVE  LET f == Fragment(m, id, k) IN
           /\ f.messageId = id /\ f.message = m /\ f.messageTotalLength = Words(m)
           /\ Piece(m, f.offset, f.fragmentLength)
           /\ f.from = WordSize * f.offset /\ f.size = WordSize * f.fragmentLength
<1> DEFINE f == Fragment(m, id, k)
           j == k - 1
           o == j * Room
           l == IF Words(m) - o < Room THEN Words(m) - o ELSE Room
<1>1. /\ f.messageId = id /\ f.message = m /\ f.from = (k - 1) * FragmentMax
      /\ f.messageTotalLength = Words(m)
      /\ f.offset = f.from \div WordSize /\ f.fragmentLength = f.size \div WordSize
      /\ f.from \in Nat /\ f.from < MessageLength[m]
      /\ f.size = IF MessageLength[m] - f.from < FragmentMax
                  THEN MessageLength[m] - f.from ELSE FragmentMax
  BY FragmentFields
<1> HIDE DEF f
<1>2. /\ Room \in Nat /\ Room > 0 /\ FragmentMax = 4 * Room
      /\ Words(m) \in Nat /\ MessageLength[m] = 4 * Words(m)
  BY WholeSizes
<1>3. j \in Nat
  <2>1. (MessageLength[m] + FragmentMax - 1) \div FragmentMax \in Int
    BY Sizes
  <2> QED BY <2>1
<1>4. o \in Nat /\ j <= o
  <2> HIDE DEF j
  <2>1. j * (Room - 1) \in Nat /\ o = j + j * (Room - 1)
    BY <1>2, <1>3
  <2> QED BY <1>3, <2>1
<1>5. f.from = 4 * o
  <2> HIDE DEF j
  <2>1. j * (4 * Room) = 4 * (j * Room)
    BY <1>2, <1>3
  <2> QED BY <1>1, <1>2, <2>1 DEF j
<1> HIDE DEF o
<1>6. f.offset = o /\ o < Words(m)
  BY <1>1, <1>2, <1>4, <1>5 DEF WordSize
<1>7. f.size = 4 * l /\ l \in Nat
  BY <1>1, <1>2, <1>4, <1>5, <1>6
<1> HIDE DEF l
<1>8. f.fragmentLength = l
  BY <1>1, <1>7 DEF WordSize
<1>9. Piece(m, o, l)
  <2>1. \E i \in 0..o : o = i * Room
    BY <1>3, <1>4 DEF o
  <2> QED BY <1>6, <2>1 DEF Piece, l
<1> QED BY <1>1, <1>5, <1>6, <1>7, <1>8, <1>9 DEF f, WordSize

(* Pieces do not overlap. *)
LEMMA PiecesApart ==
    ASSUME WholeWords, NEW m \in Messages, NEW o \in Nat, NEW l \in Nat, NEW p \in Nat, NEW n \in Nat,
           Piece(m, o, l), Piece(m, p, n), o < p
    PROVE  o + l <= p
<1>1. Room \in Nat /\ Words(m) \in Nat
  BY WholeSizes
<1>2. PICK j \in 0..o : o = j * Room
  BY DEF Piece
<1>3. PICK i \in 0..p : p = i * Room
  BY DEF Piece
<1>4. j < i
  <2>1. CASE i = j
    BY <1>2, <1>3, <2>1
  <2>2. CASE i < j
    <3>1. i * Room + Room <= j * Room
      BY <1>1, <2>2, Apart
    <3> QED BY <1>1, <1>2, <1>3, <3>1
  <2> QED BY <2>1, <2>2
<1>5. j * Room + Room <= i * Room
  BY <1>1, <1>4, Apart
<1>6. l <= Room
  BY <1>1 DEF Piece
<1> QED BY <1>1, <1>2, <1>3, <1>5, <1>6

(* A piece lies within its message. *)
LEMMA PieceInside ==
    ASSUME WholeWords, NEW m \in Messages, NEW o \in Nat, NEW l \in Nat, Piece(m, o, l)
    PROVE  o + l <= Words(m)
BY WholeSizes DEF Piece

(* Fragments whose lengths add up to that of the message leave no gap.     *)
(* The words counted by receivedLength are mapped to the words of the      *)
(* message, no two to the same one.                                        *)
LEMMA NoGap ==
    ASSUME WholeWords, NEW m \in Messages, NEW asm, Holds(asm, m),
           receivedLength(asm) = Words(m)
    PROVE  asm.packetString = Content(m)
<1> DEFINE frags == asm.fragments
           W == UNION {{g} \X (1..g.length) : g \in frags}
           T == 0 .. Words(m) - 1
           place == [w \in W |-> w[1].offset + w[2] - 1]
<1>1. Words(m) \in Nat /\ Words(m) < Wrap /\ MessageLength[m] = 4 * Words(m)
  BY WholeSizes
<1>2. \A g \in frags : /\ g \in [offset : Nat, length : Nat]
                       /\ Piece(m, g.offset, g.length)
                       /\ \A i \in Bytes(g) : asm.packetString[i] = <<m, i>>
  BY DEF Holds
<1> HIDE DEF frags
<1>3. ASSUME NEW w \in W
      PROVE  /\ w = <<w[1], w[2]>> /\ w[1] \in frags /\ w[2] \in 1..w[1].length
             /\ w[1].offset \in Nat /\ w[1].length \in Nat
  BY <1>2
<1>4. place \in [W -> T]
  <2> SUFFICES ASSUME NEW w \in W PROVE w[1].offset + w[2] - 1 \in T
    OBVIOUS
  <2>1. w[1].offset + w[1].length <= Words(m)
    BY <1>2, <1>3, PieceInside
  <2> QED BY <1>1, <1>3, <2>1
<1>5. ASSUME NEW v \in W, NEW w \in W, place[v] = place[w] PROVE v = w
  <2> DEFINE g == v[1]
             h == w[1]
  <2>1. /\ g \in frags /\ h \in frags /\ g.offset \in Nat /\ h.offset \in Nat
        /\ g.length \in Nat /\ h.length \in Nat
        /\ v[2] \in 1..g.length /\ w[2] \in 1..h.length
        /\ v = <<g, v[2]>> /\ w = <<h, w[2]>>
    BY <1>3
  <2>2. g.offset + v[2] = h.offset + w[2]
    BY <1>5, <2>1
  <2>3. g.offset = h.offset
    <3>1. CASE g.offset < h.offset
      BY <1>2, <2>1, <2>2, <3>1, PiecesApart
    <3>2. CASE h.offset < g.offset
      BY <1>2, <2>1, <2>2, <3>2, PiecesApart
    <3> QED BY <2>1, <3>1, <3>2
  <2>4. g.length = h.length
    BY <1>2, <2>1, <2>3 DEF Piece
  <2>5. g = h
    BY <1>2, <2>1, <2>3, <2>4
  <2> QED BY <2>1, <2>2, <2>5
<1> HIDE DEF W
<1>6. place \in Injection(W, T)
  BY <1>4, <1>5 DEF Injection, IsInjective
<1>7. IsFiniteSet(T) /\ Cardinality(T) = Words(m)
  <2> DEFINE b == Words(m) - 1
  <2>1. 0 \in Int /\ b \in Int
    BY <1>1
  <2> HIDE DEF b
  <2>2. IsFiniteSet(0..b) /\ Cardinality(0..b) = IF 0 > b THEN 0 ELSE b - 0 + 1
    BY <2>1, FS_Interval
  <2>3. (IF 0 > b THEN 0 ELSE b - 0 + 1) = Words(m)
    BY <1>1 DEF b
  <2> QED BY <2>2, <2>3 DEF b
<1>8. /\ Cardinality(W) \in Nat /\ Cardinality(W) <= Words(m)
      /\ Cardinality(W) = Words(m) => place \in Surjection(W, T)
  BY <1>6, <1>7, FS_Injection, FS_CardinalityType
<1>9. Cardinality(W) = Words(m)
  <2>1. Cardinality(W) % Wrap = Words(m)
    BY DEF receivedLength, W, frags
  <2> QED BY <1>1, <1>8, <2>1 DEF Wrap
<1>10. ASSUME NEW i \in 0 .. MessageLength[m] - 1 PROVE asm.packetString[i] = <<m, i>>
  <2>1. i \div 4 \in T
    BY <1>1
  <2>2. PICK w \in W : place[w] = i \div 4
    BY <1>8, <1>9, <2>1 DEF Surjection
  <2>3. w[1].offset + w[2] - 1 = i \div 4
    BY <2>2
  <2>4. i \in Bytes(w[1])
    BY <1>3, <2>3 DEF Bytes, WordSize
  <2> QED BY <1>2, <1>3, <2>4
<1> QED BY <1>10 DEF Holds, Content

-----------------------------------------------------------------------------
(* The receiver, with faithful fragments.                                  *)

(* Inserting a fragment of the same message. *)
LEMMA InsertHolds ==
    ASSUME WholeWords, NEW m \in Messages, NEW asm, Shape(asm), Holds(asm, m),
           NEW f, f.message = m, f.offset \in Nat, f.fragmentLength \in Nat,
           Piece(m, f.offset, f.fragmentLength),
           f.from = WordSize * f.offset, f.size = WordSize * f.fragmentLength
    PROVE  Holds(Insert(asm, f), m)
<1> DEFINE new == Insert(asm, f)
           last == MessageLength[m] - 1
<1>1. CASE new = asm
  BY <1>1
<1>2. CASE /\ new.fragments = asm.fragments \cup {Info(f)}
           /\ new.packetString = Copied(asm.packetString, f)
  <2> HIDE DEF new
  <2>1. DOMAIN asm.packetString = 0..last
    BY DEF Holds
  <2>2. /\ Words(m) \in Nat /\ MessageLength[m] = 4 * Words(m)
        /\ f.offset + f.fragmentLength <= Words(m)
    BY WholeSizes, PieceInside
  <2>3. /\ new.packetString = [i \in 0..last |-> new.packetString[i]]
        /\ \A i \in 0..last :
              LET k == i - WordSize * f.offset
              IN  new.packetString[i] = IF k \in 0 .. f.size - 1
                                        THEN <<f.message, f.from + k>> ELSE asm.packetString[i]
    BY <1>2, <2>1 DEF Copied
  <2> HIDE DEF last
  <2>4. \A i \in 0..last : new.packetString[i] \in {asm.packetString[i], <<m, i>>}
    <3> SUFFICES ASSUME NEW i \in 0..last
                 PROVE  new.packetString[i] \in {asm.packetString[i], <<m, i>>}
      OBVIOUS
    <3>1. i \in Int
      BY <2>2 DEF last
    <3>2. f.from + (i - WordSize * f.offset) = i
      BY <3>1 DEF WordSize
    <3> QED BY <2>3, <3>2
  <2>5. ASSUME NEW g \in new.fragments
        PROVE  /\ g \in [offset : Nat, length : Nat] /\ Piece(m, g.offset, g.length)
               /\ \A i \in Bytes(g) : new.packetString[i] = <<m, i>>
    <3>1. CASE g \in asm.fragments
      <4>1. /\ g \in [offset : Nat, length : Nat] /\ Piece(m, g.offset, g.length)
            /\ \A i \in Bytes(g) : asm.packetString[i] = <<m, i>>
        BY <3>1 DEF Holds
      <4>2. g.offset + g.length <= Words(m)
        BY <4>1, PieceInside
      <4>3. \A i \in Bytes(g) : i \in 0..last
        BY <2>2, <4>1, <4>2 DEF Bytes, WordSize, last
      <4> QED BY <2>4, <4>1, <4>3
    <3>2. CASE g = Info(f)
      <4>1. g.offset = f.offset /\ g.length = f.fragmentLength
            /\ g \in [offset : Nat, length : Nat]
        BY <3>2 DEF Info
      <4>2. ASSUME NEW i \in Bytes(g) PROVE new.packetString[i] = <<m, i>>
        <5>1. i \in 0..last /\ i - WordSize * f.offset \in 0 .. f.size - 1
          BY <2>2, <4>1 DEF Bytes, WordSize, last
        <5>2. f.from + (i - WordSize * f.offset) = i
          BY <2>2, <5>1 DEF WordSize, last
        <5> QED BY <2>3, <5>1, <5>2
      <4> QED BY <4>1, <4>2
    <3> QED BY <1>2, <3>1, <3>2
  <2>6. Holds(new, m)
    BY <2>3, <2>5 DEF Holds, last
  <2> QED BY <2>6 DEF new
<1> QED BY <1>1, <1>2, InsertFields

(* The receiver has chosen the message the fragment belongs to. *)
LEMMA InsertInPlace ==
    ASSUME TypeInv, WholeWords, IntactInv, NEW f \in Known,
           incomingFragmentedPacket.messageId <= f.messageId
    PROVE  LET new == Insert(Reassembly(f), f) IN
           /\ Holds(new, f.message) /\ new.messageId = f.messageId
           /\ f.message \in 1..current /\ f.message \in Messages
           /\ f.messageTotalLength = Words(f.message)
<1> DEFINE old == incomingFragmentedPacket
           asm == Reassembly(f)
           m == f.message
<1>1. /\ FragmentOK(f) /\ Shape(old)
      /\ Faithful(f, current, selfMessageSequenceNumber)
  BY DEF TypeInv, IntactInv
<1>2. m \in 1..current /\ m \in Messages /\ f.messageId > 0 /\ f.messageId \in Int
  BY <1>1, Sizes DEF Faithful, FragmentOK, TypeInv, TypeOK
<1>3. Words(m) \in Nat /\ MessageLength[m] = WordSize * Words(m)
  BY <1>2, WholeSizes DEF WordSize
<1>4. Shape(asm)
  BY <1>1, ReassemblyFields
<1>5. Holds(asm, m) /\ asm.messageId = f.messageId
  <2>1. CASE old.messageId < f.messageId
    <3>1. asm = Collecting(f)
      BY <2>1 DEF Reassembly
    <3>2. /\ asm.messageId = f.messageId /\ asm.fragments = {}
          /\ asm.packetString = [i \in 0 .. MessageLength[m] - 1 |-> Garbage]
      BY <1>1, <1>3, <3>1 DEF Collecting, Faithful
    <3> HIDE DEF asm
    <3> QED BY <3>2 DEF Holds
  <2>2. CASE ~(old.messageId < f.messageId)
    <3>1. asm = old
      BY <2>2 DEF Reassembly
    <3>2. old.messageId = f.messageId /\ old.messageId # 0
      BY <1>2, <2>2 DEF TypeInv, TypeOK
    <3>3. PICK n \in 1..current : Collects(old, n, Known)
      BY <3>2 DEF IntactInv, InOrder
    <3>4. n = m
      BY <3>2, <3>3 DEF Collects
    <3> QED BY <3>1, <3>2, <3>3, <3>4 DEF Collects
  <2> QED BY <2>1, <2>2
<1> HIDE DEF asm
<1>6. Holds(Insert(asm, f), m)
  BY <1>1, <1>2, <1>4, <1>5, InsertHolds DEF Faithful, FragmentOK, U16
<1>7. Insert(asm, f).messageId = asm.messageId
  BY <1>4, InsertFields
<1> QED BY <1>1, <1>2, <1>5, <1>6, <1>7 DEF asm, Faithful

-----------------------------------------------------------------------------
(* IntactInv is kept.                                                      *)

(* What is true of a fragment stays true as more messages are built. *)
LEMMA StaysFaithful ==
    ASSUME NEW f, NEW n \in Nat, NEW q \in Nat, NEW next \in Nat, NEW later \in Nat,
           Faithful(f, n, next), n <= q, next <= later
    PROVE  Faithful(f, q, later)
BY DEF Faithful

(* The message that is put together stays the same as long as no new       *)
(* fragment has its id.                                                    *)
LEMMA StaysInOrder ==
    ASSUME NEW asm, NEW known, NEW more, NEW n \in Nat, NEW q \in Nat,
           NEW next \in Nat, NEW later \in Nat,
           InOrder(asm, known, n, next), n <= q, next <= later,
           \A f \in more : f \in known \/ f.messageId = next
    PROVE  InOrder(asm, more, q, later)
<1>1. CASE asm.messageId = 0
  BY <1>1 DEF InOrder
<1>2. CASE asm.messageId # 0
  <2>1. asm.messageId \in 1 .. next - 1
    BY <1>2 DEF InOrder
  <2>2. PICK m \in 1..n : Collects(asm, m, known)
    BY <1>2 DEF InOrder
  <2>3. Collects(asm, m, more)
    BY <2>1, <2>2 DEF Collects
  <2> QED BY <1>2, <2>1, <2>2, <2>3 DEF InOrder
<1> QED BY <1>1, <1>2

(* What was received stays what the peer built. *)
LEMMA StaysReceived ==
    ASSUME IntactInv, current \in Nat, current' \in Nat, current <= current',
           UNCHANGED received
    PROVE  ReassembledIntact'
BY DEF IntactInv, ReassembledIntact

(* Building a message: its fragments get an id no other fragment has. *)
LEMMA IntactBuild ==
    ASSUME WholeWords, NoIdTwice, TypeInv, IntactInv, Build
    PROVE  IntactInv'
<1> DEFINE next == selfMessageSequenceNumber'
<1>m. PICK m : m = current + 1
  OBVIOUS
<1>i. PICK id : id = selfMessageSequenceNumber
  OBVIOUS
<1>f. PICK frags : frags = FragmentsOf(m, id)
  OBVIOUS
<1>1. m = current + 1 /\ id = selfMessageSequenceNumber /\ frags = FragmentsOf(m, id)
  BY <1>m, <1>i, <1>f
<1>2. /\ current \in Nat /\ current < Len(MessageLength) /\ m \in Messages
      /\ id \in InitialSeq .. InitialSeq + current /\ id \in Nat /\ id + 1 < Wrap /\ id > 0
  <2>1. current \in Nat /\ current < Len(MessageLength) /\ Len(MessageLength) \in Nat
    BY Sizes DEF TypeInv, TypeOK, Build
  <2>2. m \in Messages
    BY <1>1, <2>1, Sizes
  <2>3. id \in InitialSeq .. InitialSeq + current
    BY <1>1 DEF IntactInv
  <2>4. InitialSeq \in Nat /\ InitialSeq > 0 /\ InitialSeq + Len(MessageLength) < Wrap
    BY Sizes DEF NoIdTwice
  <2>5. id \in Nat /\ id + 1 < Wrap /\ id > 0
    BY <2>1, <2>3, <2>4 DEF Wrap
  <2> QED BY <2>1, <2>2, <2>3, <2>5
<1>3. \A k \in DOMAIN frags :
        /\ k \in 1 .. (MessageLength[m] + FragmentMax - 1) \div FragmentMax
        /\ frags[k] = Fragment(m, id, k)
  BY <1>1, <1>2, FragmentsNumbered
<1>4. /\ sendPacket(m, frags) /\ fragments' = frags /\ current' = m
      /\ next = NextMessageId(frags)
      /\ UNCHANGED <<incomingFragmentedPacket, received>>
  BY <1>1 DEF Build, receiverVars
<1>5. /\ next = IF frags = <<>> THEN id ELSE id + 1
      /\ next \in InitialSeq .. InitialSeq + current' /\ next \in Nat
  <2>1. (id + 1) % Wrap = id + 1
    BY <1>2 DEF Wrap
  <2>2. next = IF frags = <<>> THEN id ELSE id + 1
    BY <1>1, <1>4, <2>1 DEF NextMessageId
  <2> QED BY <1>1, <1>2, <1>4, <2>2, Sizes
<1>6. current <= current' /\ current' \in Nat /\ id <= next
  BY <1>1, <1>2, <1>4, <1>5
<1> HIDE DEF next
<1>7. ASSUME NEW k \in DOMAIN frags
      PROVE  /\ Faithful(frags[k], current', next)
             /\ frags[k].messageId = id /\ frags[k].message = m
  <2>1. PICK f : f = frags[k]
    OBVIOUS
  <2>2. /\ f.messageId = id /\ f.message = m /\ f.messageTotalLength = Words(m)
        /\ Piece(m, f.offset, f.fragmentLength)
        /\ f.from = WordSize * f.offset /\ f.size = WordSize * f.fragmentLength
    BY <1>2, <1>3, <2>1, FragmentFaithful
  <2>3. frags # <<>>
    OBVIOUS
  <2>4. f.messageId \in 1 .. next - 1 /\ f.message \in 1..current'
    BY <1>1, <1>2, <1>4, <1>5, <2>2, <2>3
  <2>5. Faithful(f, current', next)
    BY <2>2, <2>4 DEF Faithful
  <2> QED BY <2>1, <2>2, <2>5
<1>8. \A f \in Known' : f \in Known \/ \E k \in DOMAIN frags : f = frags[k]
  BY <1>4, SendKnows
<1>9. \A f \in Known : Faithful(f, current, id) /\ f.messageId \in 1 .. id - 1
  BY <1>1 DEF IntactInv, Faithful
<1>10. ASSUME NEW f \in Known' PROVE Faithful(f, current', next)
  BY <1>2, <1>5, <1>6, <1>7, <1>8, <1>9, StaysFaithful
<1>11. OneMessagePerId(Known')
  <2> SUFFICES ASSUME NEW f \in Known', NEW g \in Known', f.messageId = g.messageId
               PROVE  f.message = g.message
    BY DEF OneMessagePerId
  <2>1. CASE f \in Known /\ g \in Known
    BY <2>1 DEF IntactInv, OneMessagePerId
  <2>2. CASE f \notin Known /\ g \notin Known
    BY <1>7, <1>8, <2>2
  <2>3. CASE f \in Known /\ g \notin Known
    BY <1>2, <1>7, <1>8, <1>9, <2>3
  <2>4. CASE f \notin Known /\ g \in Known
    BY <1>2, <1>7, <1>8, <1>9, <2>4
  <2> QED BY <2>1, <2>2, <2>3, <2>4
<1>12. ASSUME NEW pkt \in net', ~pkt.fragmented PROVE pkt.payload \in 1..current'
  <2>1. CASE pkt \in net
    BY <1>2, <1>6, <1>12, <2>1 DEF IntactInv
  <2>2. CASE pkt \in Packets(m, frags)
    BY <1>1, <1>2, <1>4, <1>12, <2>2, PacketContents
  <2> QED BY <1>4, <2>1, <2>2, SendKnows
<1>13. InOrder(incomingFragmentedPacket', Known', current', next)
  <2>1. \A f \in Known' : f \in Known \/ f.messageId = id
    BY <1>7, <1>8
  <2>2. InOrder(incomingFragmentedPacket, Known, current, id)
    BY <1>1 DEF IntactInv
  <2>3. InOrder(incomingFragmentedPacket, Known', current', next)
    BY <1>2, <1>5, <1>6, <2>1, <2>2, StaysInOrder
  <2> QED BY <1>4, <2>3
<1>14. ReassembledIntact'
  BY <1>2, <1>4, <1>6, StaysReceived
<1> QED BY <1>5, <1>10, <1>11, <1>12, <1>13, <1>14 DEF IntactInv, next

(* Sending it again: the same fragments. *)
LEMMA IntactResend == ASSUME TypeInv, IntactInv, Resend PROVE IntactInv'
<1>1. /\ sendPacket(current, fragments) /\ current > 0
      /\ UNCHANGED <<current, fragments, selfMessageSequenceNumber,
                     incomingFragmentedPacket, received>>
  BY DEF Resend, receiverVars
<1>2. current \in Nat /\ selfMessageSequenceNumber \in Nat
  BY DEF TypeInv, TypeOK
<1>3. \A f \in Known' : f \in Known
  BY <1>1, SendKnows DEF Known
<1>4. ASSUME NEW pkt \in net', ~pkt.fragmented PROVE pkt.payload \in 1..current
  <2>1. CASE pkt \in net
    BY <1>4, <2>1 DEF IntactInv
  <2>2. CASE pkt \in Packets(current, fragments)
    BY <1>1, <1>2, <1>4, <2>2, PacketContents
  <2> QED BY <1>1, <2>1, <2>2, SendKnows
<1>5. InOrder(incomingFragmentedPacket, Known', current, selfMessageSequenceNumber)
  <2>1. InOrder(incomingFragmentedPacket, Known, current, selfMessageSequenceNumber)
    BY DEF IntactInv
  <2> QED BY <1>2, <1>3, <2>1, StaysInOrder
<1>6. \A f \in Known' : Faithful(f, current, selfMessageSequenceNumber)
  BY <1>3 DEF IntactInv
<1>7. OneMessagePerId(Known')
  BY <1>3 DEF IntactInv, OneMessagePerId
<1>8. ReassembledIntact'
  BY <1>1, <1>2, StaysReceived
<1>9. selfMessageSequenceNumber \in InitialSeq .. InitialSeq + current
  BY DEF IntactInv
<1> QED BY <1>1, <1>4, <1>5, <1>6, <1>7, <1>8, <1>9 DEF IntactInv

(* A packet is taken from the network, or not. *)
LEMMA IntactCheck ==
    ASSUME WholeWords, TypeInv, IntactInv, NEW pkt \in net,
           packetCheck(pkt) \/ UNCHANGED receiverVars,
           net' \subseteq net, UNCHANGED senderVars
    PROVE  IntactInv'
<1> DEFINE f == pkt.payload
           new == Insert(Reassembly(f), f)
           n == f.message
           id == selfMessageSequenceNumber
<1>1. UNCHANGED <<current, fragments, selfMessageSequenceNumber>>
  BY DEF senderVars
<1>2. current \in Nat /\ id \in Nat
  BY DEF TypeInv, TypeOK
<1>3. \A g \in Known' : g \in Known
  BY <1>1, FewerKnown
<1>4. \A g \in Known' : Faithful(g, current, id)
  BY <1>3 DEF IntactInv
<1>5. OneMessagePerId(Known')
  BY <1>3 DEF IntactInv, OneMessagePerId
<1>6. \A t \in net' : ~t.fragmented => t.payload \in 1..current
  BY DEF IntactInv
<1>7. id \in InitialSeq .. InitialSeq + current
  BY DEF IntactInv
<1>8. ASSUME InOrder(incomingFragmentedPacket', Known', current, id), ReassembledIntact'
      PROVE  IntactInv'
  BY <1>1, <1>4, <1>5, <1>6, <1>7, <1>8 DEF IntactInv
<1>9. InOrder(incomingFragmentedPacket, Known', current, id)
  <2>1. InOrder(incomingFragmentedPacket, Known, current, id)
    BY DEF IntactInv
  <2> QED BY <1>2, <1>3, <2>1, StaysInOrder
<1>10. CASE UNCHANGED <<incomingFragmentedPacket, received>>
  <2>1. ReassembledIntact'
    BY <1>1, <1>2, <1>10, StaysReceived
  <2>2. InOrder(incomingFragmentedPacket', Known', current, id)
    BY <1>9, <1>10
  <2> QED BY <1>8, <2>1, <2>2
<1>11. CASE HandsOver(pkt)
  <2>1. pkt.payload \in 1..current
    BY <1>11 DEF HandsOver, IntactInv
  <2>2. ReassembledIntact'
    BY <1>1, <1>11, <2>1 DEF HandsOver, IntactInv, ReassembledIntact
  <2>3. incomingFragmentedPacket' = incomingFragmentedPacket
    BY <1>11 DEF HandsOver
  <2>4. InOrder(incomingFragmentedPacket', Known', current, id)
    BY <1>9, <2>3
  <2> QED BY <1>8, <2>2, <2>4
<1>12. ASSUME pkt.fragmented, incomingFragmentedPacket.messageId <= f.messageId,
              GoesOn(f) \/ Completes(f)
       PROVE  IntactInv'
  <2>1. f \in Known
    BY <1>12 DEF Known
  <2>2. /\ Holds(new, n) /\ new.messageId = f.messageId
        /\ n \in 1..current /\ n \in Messages /\ f.messageTotalLength = Words(n)
    BY <1>12, <2>1, InsertInPlace
  <2>3. f.messageId \in 1 .. id - 1
    BY <2>1 DEF IntactInv, Faithful
  <2>4. CASE GoesOn(f)
    <3>1. incomingFragmentedPacket' = new /\ received' = received
      BY <2>4 DEF GoesOn
    <3> HIDE DEF new
    <3>2. \A g \in Known' : g.messageId = new.messageId => g.message = n
      BY <1>3, <2>1, <2>2 DEF IntactInv, OneMessagePerId
    <3>3. Collects(new, n, Known')
      BY <2>2, <3>2 DEF Collects
    <3>4. InOrder(new, Known', current, id)
      BY <2>2, <2>3, <3>3 DEF InOrder
    <3>5. ReassembledIntact'
      BY <1>1, <1>2, <3>1, StaysReceived
    <3>6. InOrder(incomingFragmentedPacket', Known', current, id)
      BY <3>1, <3>4
    <3> QED BY <1>8, <3>5, <3>6
  <2>5. CASE Completes(f)
    <3>1. /\ receivedLength(new) = f.messageTotalLength
          /\ received' = received \cup {new.packetString}
          /\ incomingFragmentedPacket' =
               [messageId |-> 0, fragments |-> {}, packetString |-> new.packetString]
      BY <2>5 DEF Completes
    <3> HIDE DEF new
    <3>2. new.packetString = Content(n)
      BY <2>2, <3>1, NoGap
    <3>3. ReassembledIntact'
      BY <1>1, <2>2, <3>1, <3>2 DEF IntactInv, ReassembledIntact
    <3>4. incomingFragmentedPacket'.messageId = 0 /\ incomingFragmentedPacket'.fragments = {}
      BY <3>1
    <3>5. InOrder(incomingFragmentedPacket', Known', current, id)
      BY <3>4 DEF InOrder
    <3> QED BY <1>8, <3>3, <3>5
  <2> QED BY <1>12, <2>4, <2>5
<1> QED BY <1>10, <1>11, <1>12, CheckCases DEF receiverVars, Keeps

(* IntactInv is an invariant when the MTU is a whole number of words and   *)
(* no message id is used twice.                                            *)
LEMMA IntactInvariance == WholeWords /\ NoIdTwice => (Spec => []IntactInv)
<1> SUFFICES ASSUME WholeWords, NoIdTwice PROVE Spec => []IntactInv
  OBVIOUS
<1>1. Init => IntactInv
  <2> SUFFICES ASSUME Init PROVE IntactInv
    OBVIOUS
  <2>1. Known = {} /\ net = {} /\ received = {} /\ selfMessageSequenceNumber = InitialSeq
        /\ current = 0
    BY DEF Init, Known
  <2>2. incomingFragmentedPacket.messageId = 0 /\ incomingFragmentedPacket.fragments = {}
    BY DEF Init
  <2> QED BY <2>1, <2>2, Sizes DEF IntactInv, ReassembledIntact, OneMessagePerId, InOrder
<1>2. TypeInv /\ IntactInv /\ [Next]_vars => IntactInv'
  <2> SUFFICES ASSUME TypeInv, IntactInv, [Next]_vars PROVE IntactInv'
    OBVIOUS
  <2>1. CASE UNCHANGED vars
    <3>1. UNCHANGED <<current, fragments, net, selfMessageSequenceNumber,
                      incomingFragmentedPacket, received>>
      BY <2>1 DEF vars, senderVars, receiverVars
    <3>2. Known' = Known
      BY <3>1 DEF Known
    <3>3. ReassembledIntact'
      BY <3>1 DEF IntactInv, ReassembledIntact
    <3> QED BY <3>1, <3>2, <3>3 DEF IntactInv
  <2>2. CASE Build
    BY <2>2, IntactBuild
  <2>3. CASE Resend
    BY <2>3, IntactResend
  <2>4. ASSUME NEW pkt \in net, Receive(pkt) \/ Duplicate(pkt) \/ Lose(pkt) PROVE IntactInv'
    <3>1. /\ net' \subseteq net /\ UNCHANGED senderVars
          /\ packetCheck(pkt) \/ UNCHANGED receiverVars
      BY <2>4 DEF Receive, Duplicate, Lose
    <3> QED BY <3>1, IntactCheck
  <2> QED BY <2>1, <2>2, <2>3, <2>4 DEF Next
<1> QED BY <1>1, <1>2, TypeInvariance, PTL DEF Spec

(* ReassembledIntact: what bzrtp_packetCheck hands to the state machine is *)
(* a message the peer has built, byte for byte, whatever the network lost, *)
(* repeated or reordered, for any messages and any MTU of whole words.     *)
THEOREM Intact == WholeWords /\ NoIdTwice => (Spec => []ReassembledIntact)
<1>1. IntactInv => ReassembledIntact
  BY DEF IntactInv
<1> QED BY <1>1, IntactInvariance, PTL

(* FragmentsInPlace: every fragment is copied within the buffer allocated  *)
(* for its message, and the bytes of what was copied are those of one      *)
(* message.                                                                *)
THEOREM InPlace == WholeWords /\ NoIdTwice => (Spec => []FragmentsInPlace)
<1> SUFFICES ASSUME WholeWords, NoIdTwice PROVE Spec => []FragmentsInPlace
  OBVIOUS
<1>1. TypeInv /\ IntactInv => FragmentsInPlace
  <2> DEFINE asm == incomingFragmentedPacket
  <2> SUFFICES ASSUME TypeInv, IntactInv, NEW g \in asm.fragments
               PROVE  /\ Bytes(g) \subseteq DOMAIN asm.packetString
                      /\ \E m \in 1..current : \A i \in Bytes(g) : asm.packetString[i] = <<m, i>>
    BY DEF FragmentsInPlace, Bytes
  <2>1. PICK m \in 1..current : Collects(asm, m, Known)
    BY DEF IntactInv, InOrder
  <2>2. m \in Messages
    BY Sizes DEF TypeInv, TypeOK
  <2>3. /\ g \in [offset : Nat, length : Nat] /\ Piece(m, g.offset, g.length)
        /\ \A i \in Bytes(g) : asm.packetString[i] = <<m, i>>
        /\ DOMAIN asm.packetString = 0 .. MessageLength[m] - 1
    BY <2>1 DEF Collects, Holds
  <2>4. /\ g.offset + g.length <= Words(m) /\ Words(m) \in Nat
        /\ MessageLength[m] = 4 * Words(m)
    BY <2>2, <2>3, PieceInside, WholeSizes
  <2>5. Bytes(g) \subseteq 0 .. MessageLength[m] - 1
    BY <2>3, <2>4 DEF Bytes, WordSize
  <2> QED BY <2>3, <2>5
<1> QED BY <1>1, IntactInvariance, TypeInvariance, PTL
=============================================================================
