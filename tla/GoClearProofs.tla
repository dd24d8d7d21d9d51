--------------------------- MODULE GoClearProofs ---------------------------
(***************************************************************************)
(* Proofs about GoClear, for any number of channels, requests,             *)
(* retransmissions and delayed, lost or repeated packets.                  *)
(***************************************************************************)
EXTENDS GoClear, TLAPS

(* A channel context, and what its keys say of its flags and state. *)
ContextOK(x) ==
    /\ x \in ChannelContexts
    /\ x.isSecure => x.key # None
    /\ x.isClear => x.key = None /\ x.state \in {"clear", "sending_GoClear", "crashed"}
    /\ x.state \in {"sendingConfirm1", "sendingConfirm2", "secure"} => x.key # None
    /\ x.state \in {"sendingConfirm1", "secure", "crashed"} => x.timer = "OFF"

TypeInv == TypeOK /\ \A p \in Endpoints, c \in Channels : ContextOK(ch[p][c])

Flight(p, c) == net[p][c] \cup late[p][c]
Networks == [Endpoints -> [Channels -> SUBSET Packets]]

(* The other endpoint is an endpoint, and the other of it is the first. *)
LEMMA OtherEnd ==
    ASSUME NEW p \in Endpoints
    PROVE  Other(p) \in Endpoints /\ Other(p) # p /\ Other(Other(p)) = p
BY GoClearAssumption DEF Endpoints, Other

(* Two endpoints are all there are. *)
LEMMA TwoEnds ==
    ASSUME NEW p \in Endpoints, NEW q \in Endpoints
    PROVE  q = p \/ q = Other(p)
BY DEF Endpoints, Other

(* A step of p takes packets from its side, and gives those it sends its   *)
(* next sequence number.                                                   *)
Sends(p, d, k) == k.seq = ch[p][d].selfSeq /\ ch'[p][d].selfSeq > ch[p][d].selfSeq
FlightStep(p) ==
    \A d \in Channels :
        /\ Flight(p, d)' \subseteq Flight(p, d)
        /\ \A k \in Flight(Other(p), d)' : k \in Flight(Other(p), d) \/ Sends(p, d, k)

(* A step of p that changes contexts of p only keeps the types. *)
LEMMA TypeStep ==
    ASSUME TypeInv, NEW p \in Endpoints, NEW new \in [Channels -> ChannelContexts],
           ch' = [ch EXCEPT ![p] = new],
           \A d \in Channels : ContextOK(new[d]) /\ new[d].selfSeq >= ch[p][d].selfSeq,
           FlightStep(p), net' \in Networks, late' \in Networks,
           ZRTPSess' \in [Endpoints -> Nat], {uneven', calls', firings', faults'} \subseteq Nat
    PROVE  TypeInv'
<1>0. Other(p) \in Endpoints /\ Other(p) # p /\ Other(Other(p)) = p
  BY OtherEnd
<1>1. ch' \in [Endpoints -> [Channels -> ChannelContexts]]
  BY DEF TypeInv, TypeOK
<1>2. ch'[p] = new /\ ch'[Other(p)] = ch[Other(p)]
  BY <1>0 DEF TypeInv, TypeOK
<1>3. ASSUME NEW q \in Endpoints, NEW d \in Channels
      PROVE  /\ ContextOK(ch'[q][d])
             /\ \A k \in net'[q][d] \cup late'[q][d] : k.seq < ch'[Other(q)][d].selfSeq
  <2>1. CASE q = p
    <3>1. \A k \in net'[q][d] \cup late'[q][d] : k \in net[q][d] \cup late[q][d]
      BY <2>1 DEF FlightStep, Flight
    <3> QED BY <1>0, <1>2, <2>1, <3>1 DEF TypeInv, TypeOK
  <2>2. CASE q = Other(p)
    <3>1. \A k \in net[q][d] \cup late[q][d] : k \in Packets /\ k.seq < ch[p][d].selfSeq
      BY <1>0, <2>2 DEF TypeInv, TypeOK
    <3>2. new[d].selfSeq \in Nat /\ ch[p][d].selfSeq \in Nat
      BY DEF TypeInv, TypeOK, ChannelContexts
    <3>3. ASSUME NEW k \in net'[q][d] \cup late'[q][d] PROVE k.seq < new[d].selfSeq
      <4>1. k \in net[q][d] \cup late[q][d] \/ Sends(p, d, k)
        BY <2>2 DEF FlightStep, Flight
      <4> QED BY <1>2, <3>1, <3>2, <4>1 DEF Sends, Packets
    <3> QED BY <1>0, <1>2, <2>2, <3>3 DEF TypeInv
  <2> QED BY <2>1, <2>2, TwoEnds
<1> QED BY <1>1, <1>3 DEF TypeInv, TypeOK, Networks

-----------------------------------------------------------------------------
(* The steps of one context keep it well formed.                           *)

(* All that is said of them below: fields that stay as they are. *)
SameKeys(x, y) ==
    /\ y.role = x.role /\ y.key = x.key /\ y.peerSeq = x.peerSeq
    /\ y.isSecure = x.isSecure /\ y.isClear = x.isClear
    /\ y.goClear = x.goClear /\ y.commits = x.commits

(* Sending moves the sequence number on. *)
LEMMA SentFacts ==
    ASSUME NEW x \in ChannelContexts
    PROVE  /\ Sent(x) \in ChannelContexts
           /\ Sent(x).selfSeq = x.selfSeq + 1 /\ Sent(x).selfSeq > x.selfSeq
           /\ Sent(x).state = x.state /\ Sent(x).timer = x.timer /\ SameKeys(x, Sent(x))
BY DEF Sent, SameKeys, ChannelContexts

(* The timer is on, or off, and nothing else changes. *)
LEMMA TimerFacts ==
    ASSUME NEW x \in ChannelContexts
    PROVE  /\ TimerOn(x) \in ChannelContexts /\ TimerOff(x) \in ChannelContexts
           /\ TimerOn(x).timer = "ON" /\ TimerOff(x).timer = "OFF"
           /\ TimerOn(x).state = x.state /\ TimerOff(x).state = x.state
           /\ TimerOn(x).selfSeq = x.selfSeq /\ TimerOff(x).selfSeq = x.selfSeq
           /\ SameKeys(x, TimerOn(x)) /\ SameKeys(x, TimerOff(x))
BY DEF TimerOn, TimerOff, SameKeys, ChannelContexts

(* The sequence number of a packet is taken over. *)
LEMMA PeerSeqFacts ==
    ASSUME NEW x \in ChannelContexts, NEW k \in Packets
    PROVE  LET y == SetPeerSeq(x, k) IN
           /\ y \in ChannelContexts /\ y.peerSeq = k.seq
           /\ y.state = x.state /\ y.timer = x.timer /\ y.selfSeq = x.selfSeq
           /\ y.role = x.role /\ y.key = x.key /\ y.isSecure = x.isSecure
           /\ y.isClear = x.isClear /\ y.goClear = x.goClear /\ y.commits = x.commits
BY DEF SetPeerSeq, ChannelContexts, Packets

(* A channel becomes secure under the keys it has. *)
LEMMA EnterSecureFacts ==
    ASSUME NEW x \in ChannelContexts
    PROVE  LET y == EnterSecure(x) IN
           /\ y \in ChannelContexts /\ y.state = "secure" /\ y.timer = "OFF"
           /\ y.isSecure = TRUE /\ y.selfSeq = x.selfSeq
           /\ y.role = x.role /\ y.key = x.key /\ y.peerSeq = x.peerSeq
           /\ y.isClear = x.isClear /\ y.goClear = x.goClear
BY DEF EnterSecure, TimerOff, ChannelContexts, States

(* A channel goes to clear mode without keys, as an initiator. *)
LEMMA EnterClearFacts ==
    ASSUME NEW x \in ChannelContexts
    PROVE  LET y == EnterClear(x) IN
           /\ y \in ChannelContexts /\ ContextOK(y)
           /\ y.state = "clear" /\ y.role = "INITIATOR" /\ y.key = None
           /\ y.selfSeq = x.selfSeq /\ y.peerSeq = x.peerSeq
BY DEF EnterClear, ChannelContexts, ContextOK, States, Roles

(* A channel sends its Commit. *)
LEMMA EnterSendingCommitFacts ==
    ASSUME NEW x \in ChannelContexts, ContextOK(x)
    PROVE  LET y == EnterSendingCommit(x) IN
           /\ y \in ChannelContexts /\ ContextOK(y)
           /\ y.state = "sendingCommit" /\ y.role = x.role
           /\ y.goClear = None
           /\ y.commits = x.commits + 1 /\ y.selfSeq = x.selfSeq + 1 /\ y.peerSeq = x.peerSeq
<1> DEFINE t == TimerOn(x)
           z == [t EXCEPT !.goClear = None, !.isClear = FALSE,
                          !.state = "sendingCommit", !.commits = @ + 1]
<1>1. t \in ChannelContexts /\ t.selfSeq = x.selfSeq /\ SameKeys(x, t)
  BY TimerFacts
<1>2. EnterSendingCommit(x) = Sent(z)
  BY DEF EnterSendingCommit
<1> HIDE DEF t
<1>3. z \in ChannelContexts
  <2> DEFINE n == t.commits + 1
             g == Messages \cup {None}
  <2>1. n \in Nat /\ None \in g
    BY <1>1 DEF ChannelContexts
  <2>2. z = [t EXCEPT !.goClear = None, !.isClear = FALSE,
                      !.state = "sendingCommit", !.commits = n]
    OBVIOUS
  <2>3. ChannelContexts = [state : States, role : Roles, timer : {"ON", "OFF"},
            firingCount : Nat, key : Keys \cup {None}, isSecure : BOOLEAN,
            isClear : BOOLEAN, commits : Nat, goClear : g, selfSeq : Nat, peerSeq : Nat]
    BY DEF ChannelContexts
  <2> HIDE DEF n, g
  <2> QED BY <1>1, <2>1, <2>2, <2>3 DEF States
<1>4. /\ z.state = "sendingCommit" /\ z.commits = t.commits + 1
      /\ z.goClear = None /\ z.isClear = FALSE
      /\ z.role = t.role /\ z.key = t.key /\ z.isSecure = t.isSecure
      /\ z.selfSeq = t.selfSeq /\ z.peerSeq = t.peerSeq
  BY <1>1 DEF ChannelContexts
<1> HIDE DEF z
<1> QED BY <1>1, <1>2, <1>3, <1>4, SentFacts DEF ContextOK, SameKeys

(* A channel answers a Commit. *)
LEMMA TurnIntoResponderFacts ==
    ASSUME NEW x \in ChannelContexts, NEW s \in Nat, NEW m \in Messages,
           m.type = "Commit", x.isClear = FALSE
    PROVE  LET y == TurnIntoResponder(x, s, m) IN
           /\ y \in ChannelContexts /\ ContextOK(y)
           /\ y.state = "sendingConfirm1" /\ y.role = "RESPONDER"
           /\ y.key = Key(s, m.value) /\ y.key \in Keys /\ y.timer = "OFF"
           /\ y.goClear = x.goClear /\ y.selfSeq = x.selfSeq + 1 /\ y.peerSeq = x.peerSeq
<1> DEFINE t == TimerOff(x)
           key == Key(s, m.value)
           z == [t EXCEPT !.role = "RESPONDER", !.key = key, !.state = "sendingConfirm1"]
<1>1. m.value \in Nonces
  BY DEF Messages
<1>2. key \in Keys /\ key # None
  BY <1>1, NoneAssumption DEF Key, Keys
<1>3. t \in ChannelContexts /\ t.selfSeq = x.selfSeq /\ t.timer = "OFF" /\ SameKeys(x, t)
  BY TimerFacts
<1>4. TurnIntoResponder(x, s, m) = Sent(z)
  BY DEF TurnIntoResponder
<1> HIDE DEF t, key
<1>5. /\ z \in ChannelContexts /\ z.state = "sendingConfirm1" /\ z.role = "RESPONDER"
      /\ z.key = key /\ z.goClear = t.goClear /\ z.isClear = t.isClear /\ z.timer = t.timer
      /\ z.selfSeq = t.selfSeq /\ z.peerSeq = t.peerSeq
  BY <1>2, <1>3 DEF ChannelContexts, States, Roles
<1> HIDE DEF z
<1>6. ContextOK(Sent(z)) /\ Sent(z) \in ChannelContexts
  BY <1>2, <1>3, <1>5, SentFacts DEF ContextOK, SameKeys
<1>7. Sent(z).state = "sendingConfirm1" /\ Sent(z).selfSeq = z.selfSeq + 1
      /\ Sent(z).timer = z.timer /\ SameKeys(z, Sent(z))
  BY <1>5, SentFacts
<1> QED BY <1>2, <1>3, <1>4, <1>5, <1>6, <1>7 DEF SameKeys, key

(* A channel has its keys confirmed by the peer and confirms them. *)
LEMMA EnterSendingConfirm2Facts ==
    ASSUME NEW x \in ChannelContexts, NEW key \in Keys, x.isClear = FALSE
    PROVE  LET y == EnterSendingConfirm2(x, key) IN
           /\ y \in ChannelContexts /\ ContextOK(y)
           /\ y.state = "sendingConfirm2" /\ y.role = x.role /\ y.key = key
           /\ y.goClear = x.goClear /\ y.selfSeq = x.selfSeq + 2 /\ y.peerSeq = x.peerSeq
<1> DEFINE t == TimerOn(x)
           z == [t EXCEPT !.key = key, !.state = "sendingConfirm2"]
<1>1. key # None
  BY NoneAssumption
<1>2. t \in ChannelContexts /\ t.selfSeq = x.selfSeq /\ SameKeys(x, t)
  BY TimerFacts
<1>3. EnterSendingConfirm2(x, key) = Sent(Sent(z))
  BY DEF EnterSendingConfirm2
<1> HIDE DEF t
<1>4. /\ z \in ChannelContexts /\ z.state = "sendingConfirm2" /\ z.role = t.role
      /\ z.key = key /\ z.goClear = t.goClear /\ z.isClear = t.isClear
      /\ z.selfSeq = t.selfSeq /\ z.peerSeq = t.peerSeq
  BY <1>2 DEF ChannelContexts, States
<1> HIDE DEF z
<1> DEFINE u == Sent(z)
<1>5. /\ u \in ChannelContexts /\ u.state = z.state /\ u.selfSeq = z.selfSeq + 1
      /\ SameKeys(z, u)
  BY <1>4, SentFacts
<1> HIDE DEF u
<1> DEFINE v == Sent(u)
<1>6. /\ v \in ChannelContexts /\ v.state = u.state /\ v.selfSeq = u.selfSeq + 1
      /\ SameKeys(u, v)
  BY <1>5, SentFacts
<1>7. EnterSendingConfirm2(x, key) = v
  BY <1>3 DEF u
<1> HIDE DEF v
<1>8. z.selfSeq \in Nat
  BY <1>4 DEF ChannelContexts
<1>9. v.selfSeq = z.selfSeq + 2
  BY <1>5, <1>6, <1>8
<1>10. ContextOK(v)
  BY <1>1, <1>2, <1>4, <1>5, <1>6 DEF ContextOK, SameKeys
<1> QED BY <1>2, <1>4, <1>5, <1>6, <1>7, <1>9, <1>10 DEF SameKeys

-----------------------------------------------------------------------------
(* The two ends stay in step, when the application is careful.             *)

Keyed == {"sendingConfirm1", "sendingConfirm2", "secure", "sending_GoClear"}
Done == {"secure", "sending_GoClear"}

(* p has had a message under the keys of the present session. *)
Authenticated(x) == x.state \in Done \cup {"sendingConfirm2"}

(* One channel context x of p: it sends a GoClear again only if it has one. *)
Own(p, x) ==
    /\ x.state # "crashed"
    /\ x.state \in Keyed =>
          /\ x.key # None /\ x.key.sess = ZRTPSess[p]
          /\ x.role = "INITIATOR" <=> x.key.nonce.of = p
    /\ x.state \in {"clear", "sendingCommit", "sendingConfirm2"} => x.role = "INITIATOR"
    /\ x.state = "sendingConfirm1" => x.role = "RESPONDER"
    /\ x.state = "secure" => x.timer = "OFF"
    /\ x.state \notin {"sending_GoClear", "clear"} => x.goClear = None
    /\ x.state = "sending_GoClear" =>
          \/ x.goClear = GoClearBy(x)
          \/ x.goClear = None /\ x.timer = "OFF"

(* All channels wait for a ClearACK, or none. *)
Together(p) ==
    \A c, d \in Channels :
        ch[p][c].state = "sending_GoClear" => ch[p][d].state = "sending_GoClear"

(* What a message in flight from o on channel c says of o, whose context   *)
(* is y: it was sent in an earlier session of o, or o is still there.      *)
SentBy(o, y, m) ==
    /\ m.type = "Commit" => m.value.of = o
    /\ m.type = "Confirm1" =>
          /\ m.value.sess <= ZRTPSess[o]
          /\ m.value.sess = ZRTPSess[o] =>
                y.state \in Done \cup {"sendingConfirm1"} /\ y.key = m.value /\ y.role = "RESPONDER"
    /\ m.type = "Confirm2" =>
          /\ m.value.sess <= ZRTPSess[o]
          /\ m.value.sess = ZRTPSess[o] =>
                y.state \in Done \cup {"sendingConfirm2"} /\ y.key = m.value /\ y.role = "INITIATOR"
    /\ m.type = "GoClear" =>
          /\ m.value[1].sess <= ZRTPSess[o]
          /\ m.value[1].sess = ZRTPSess[o] => y.state = "sending_GoClear"

(* While o is confirming it sends nothing but its Confirm message. *)
Confirms(y, m) ==
    \/ y.state = "sendingConfirm1" /\ m.type = "Confirm1"
    \/ y.state = "sendingConfirm2" /\ m.type = "Confirm2"

NothingAfter(o, y, flight) ==
    \A k, l \in flight :
        Confirms(y, k.msg) /\ k.msg.value.sess = ZRTPSess[o] /\ l.seq > k.seq
            => l.msg = k.msg

(* The messages that nothing authenticates: p, with context x, still takes *)
(* them from o, with context y, only if o has sent them in this session.   *)
AcksRecent(p, o, x, y, flight) ==
    \A k \in flight :
        Authenticated(x) /\ k.seq > x.peerSeq =>
            /\ k.msg.type = "Conf2ACK" => y.state \in Done \/ ZRTPSess[o] > ZRTPSess[p]
            /\ k.msg.type = "ClearACK" =>
                  y.state = "sending_GoClear" \/ ZRTPSess[o] > ZRTPSess[p]

(* In the same session the keys are the same and o is as far as p's state  *)
(* tells.                                                                  *)
Paired(p, o, x, y) ==
    Authenticated(x) /\ ZRTPSess[o] = ZRTPSess[p] =>
        /\ y.state \in Keyed
        /\ y.key = x.key
        /\ x.state \in Done => y.state # "sendingConfirm1"
        /\ x.state \in Done /\ x.role = "INITIATOR" => y.state \in Done

ChannelInv(p, o, c) ==
    /\ Own(p, ch[p][c])
    /\ \A k \in Flight(p, c) : SentBy(o, ch[o][c], k.msg)
    /\ NothingAfter(o, ch[o][c], Flight(p, c))
    /\ AcksRecent(p, o, ch[p][c], ch[o][c], Flight(p, c))
    /\ Paired(p, o, ch[p][c], ch[o][c])

(* The end that is ahead has not had any message in its new session. *)
Ahead(p, o) ==
    ZRTPSess[o] < ZRTPSess[p] =>
        /\ ZRTPSess[p] = ZRTPSess[o] + 1
        /\ \A c \in Channels : ch[o][c].state = "sending_GoClear"
        /\ \A c \in Channels : ~Authenticated(ch[p][c])

SessionInv ==
    \A p \in Endpoints :
        /\ Together(p)
        /\ Ahead(p, Other(p))
        /\ \A c \in Channels : ChannelInv(p, Other(p), c)

-----------------------------------------------------------------------------
(* The kinds of steps that keep it.                                        *)

(* p takes packets from its side and sends, on channel d, messages of      *)
(* sent[d] under its next sequence number.                                 *)
Sending(p, sent) ==
    /\ net' \in Networks /\ late' \in Networks
    /\ {uneven', calls', firings', faults'} \subseteq Nat
    /\ \A d \in Channels :
          /\ Flight(p, d)' \subseteq Flight(p, d)
          /\ \A k \in Flight(Other(p), d)' :
                \/ k \in Flight(Other(p), d)
                \/ k.seq = ch[p][d].selfSeq /\ k.msg \in sent[d]

OnChannel(c, sent) == [d \in Channels |-> IF d = c THEN sent ELSE {}]

(* What p says in a new context x. *)
Speaks(p, x, m) ==
    /\ m.type = "ClearACK" => x.state \in {"clear", "sending_GoClear"}
    /\ m.type = "Conf2ACK" => x.state = "secure"
    /\ m.type = "Commit" => x.state = "sendingCommit" /\ m.value.of = p
    /\ m.type = "Confirm1" => x.state = "sendingConfirm1" /\ m.value = x.key
    /\ m.type = "Confirm2" => x.state = "sendingConfirm2" /\ m.value = x.key
    /\ m.type = "GoClear" => x.state = "sending_GoClear" /\ m.value[1] = x.key

(* x has a Confirm message k under its keys. *)
ConfirmedBy(x, k) ==
    /\ k.seq = x.peerSeq
    /\ \/ x.state = "sendingConfirm2" /\ k.msg = Msg("Confirm1", x.key)
       \/ x.state = "secure" /\ k.msg = Msg("Confirm2", x.key)

(* Within a session a context never goes back, and goes on only for the    *)
(* packets in flight to it that it has to wait for.                        *)
Advances(x, y, flight) ==
    /\ x.state \in Keyed => y.state \in Keyed /\ y.key = x.key /\ y.role = x.role
    /\ x.state \in Done => y.state \in Done
    /\ x.state = "sending_GoClear" => y.state = "sending_GoClear"
    /\ y.state = "sendingConfirm1" => x.state # "sendingConfirm2"
    /\ y.state = "sendingConfirm2" => x.state # "sendingConfirm1"
    /\ y.peerSeq >= x.peerSeq
    /\ Authenticated(y) /\ ~Authenticated(x) => \E k \in flight : ConfirmedBy(y, k)
    /\ y.state = "sendingConfirm2" /\ ~Authenticated(x) => x.state = "sendingCommit"
    /\ y.state \in Done /\ ~Authenticated(x) => x.state = "sendingConfirm1"
    /\ y.state \in Done /\ x.state = "sendingConfirm2" =>
          \E k \in flight : k.msg = Conf2ACK /\ k.seq > x.peerSeq

(* A step of p within its session. *)
InSession(p, sent) ==
    /\ Sending(p, sent)
    /\ ZRTPSess' = ZRTPSess
    /\ ch'[Other(p)] = ch[Other(p)]
    /\ \A d \in Channels :
          /\ Own(p, ch'[p][d])
          /\ Advances(ch[p][d], ch'[p][d], Flight(p, d))
          /\ \A m \in sent[d] : Speaks(p, ch'[p][d], m)

(* What p has in its context stands for all its messages in flight. *)
LEMMA SentByStep ==
    ASSUME TypeInv, TypeInv', SessionInv, NEW p \in Endpoints, NEW sent, InSession(p, sent),
           NEW d \in Channels, NEW k \in Flight(Other(p), d)'
    PROVE  SentBy(p, ch[p][d], k.msg)' /\ k \in Packets
<1> DEFINE o == Other(p)
           x == ch[p][d]
           y == ch'[p][d]
<1>0. o \in Endpoints /\ Other(o) = p
  BY OtherEnd
<1>1. k \in Packets /\ k.msg \in Messages
  BY <1>0 DEF TypeInv, TypeOK, Flight, Packets
<1>2. Own(p, y) /\ Advances(x, y, Flight(p, d)) /\ ZRTPSess' = ZRTPSess
  BY DEF InSession
<1>3. ZRTPSess[p] \in Nat
  BY DEF TypeInv, TypeOK
<1>4. CASE k \in Flight(o, d)
  <2>1. SentBy(p, x, k.msg)
    BY <1>0, <1>4 DEF SessionInv, ChannelInv
  <2> QED BY <1>1, <1>2, <2>1 DEF SentBy, Advances, Keyed, Done
<1>5. CASE k.msg \in sent[d]
  <2>1. Speaks(p, y, k.msg)
    BY <1>5 DEF InSession
  <2> QED BY <1>1, <1>2, <1>3, <2>1 DEF SentBy, Speaks, Own, Keyed, Done
<1> QED BY <1>1, <1>4, <1>5 DEF InSession, Sending

(* While p is confirming it goes on sending the same Confirm message. *)
LEMMA NothingAfterStep ==
    ASSUME TypeInv, TypeInv', SessionInv, NEW p \in Endpoints, NEW sent, InSession(p, sent),
           NEW d \in Channels
    PROVE  NothingAfter(p, ch[p][d], Flight(Other(p), d))'
<1> DEFINE o == Other(p)
           x == ch[p][d]
           y == ch'[p][d]
<1>0. o \in Endpoints /\ Other(o) = p
  BY OtherEnd
<1>1. /\ Own(p, y) /\ Advances(x, y, Flight(p, d)) /\ ZRTPSess' = ZRTPSess
      /\ NothingAfter(p, x, Flight(o, d))
  BY <1>0 DEF InSession, SessionInv, ChannelInv
<1>2. \A k \in Flight(o, d) : k.seq < x.selfSeq /\ SentBy(p, x, k.msg)
  BY <1>0 DEF TypeInv, TypeOK, Flight, SessionInv, ChannelInv
<1>3. \A k \in Flight(o, d)' : k \in Packets /\ k.msg \in Messages /\ SentBy(p, ch[p][d], k.msg)'
  BY SentByStep DEF Packets
<1>4. \A k \in Flight(o, d)' :
         k \in Flight(o, d) \/ (k.seq = x.selfSeq /\ Speaks(p, y, k.msg))
  BY DEF InSession, Sending
<1>5. SUFFICES ASSUME NEW k \in Flight(o, d)', NEW l \in Flight(o, d)',
                      Confirms(y, k.msg), k.msg.value.sess = ZRTPSess[p], l.seq > k.seq
               PROVE  l.msg = k.msg
  BY <1>1 DEF NothingAfter
<1>6. k.msg.value = y.key
  BY <1>1, <1>3, <1>5 DEF SentBy, Confirms
<1>7. x.selfSeq \in Nat /\ k.seq \in Nat /\ l.seq \in Nat
  BY <1>3 DEF TypeInv, TypeOK, ChannelContexts, Packets
<1>8. k.msg = Msg(k.msg.type, y.key)
  BY <1>3, <1>5, <1>6 DEF Confirms, Messages, Msg
<1>9. CASE l \in Flight(o, d)
  <2>1. k \in Flight(o, d)
    BY <1>2, <1>4, <1>5, <1>7, <1>9
  <2>2. Confirms(x, k.msg)
    BY <1>1, <1>2, <1>5, <2>1 DEF Confirms, SentBy, Advances, Done, Keyed
  <2> QED BY <1>1, <1>5, <1>9, <2>1, <2>2 DEF NothingAfter
<1>10. CASE Speaks(p, y, l.msg)
  <2>1. l.msg.type = k.msg.type /\ l.msg.value = y.key
    BY <1>3, <1>5, <1>10 DEF Speaks, Confirms, Messages
  <2>2. l.msg = Msg(k.msg.type, y.key)
    BY <1>3, <1>5, <2>1 DEF Confirms, Messages, Msg
  <2> QED BY <1>8, <2>2
<1> QED BY <1>4, <1>9, <1>10

(* A step of p leaves what holds of the other end's channel. *)
LEMMA PeerStep ==
    ASSUME TypeInv, TypeInv', SessionInv, NEW p \in Endpoints, NEW sent, InSession(p, sent),
           NEW d \in Channels
    PROVE  ChannelInv(Other(p), p, d)'
<1> DEFINE o == Other(p)
           x == ch[p][d]
           y == ch'[p][d]
           z == ch[o][d]
<1>0. o \in Endpoints /\ Other(o) = p
  BY OtherEnd
<1>1. /\ Own(p, y) /\ Advances(x, y, Flight(p, d)) /\ ZRTPSess' = ZRTPSess /\ ch'[o] = ch[o]
      /\ Ahead(o, p) /\ ChannelInv(o, p, d)
  BY <1>0 DEF InSession, SessionInv
<1>2. Own(o, ch[o][d])'
  BY <1>1 DEF ChannelInv, Own
<1>3. AcksRecent(o, p, ch[o][d], ch[p][d], Flight(o, d))'
  <2>1. SUFFICES ASSUME NEW k \in Flight(o, d)', Authenticated(z), k.seq > z.peerSeq
                 PROVE  /\ k.msg.type = "Conf2ACK" => y.state \in Done \/ ZRTPSess[p] > ZRTPSess[o]
                        /\ k.msg.type = "ClearACK" =>
                              y.state = "sending_GoClear" \/ ZRTPSess[p] > ZRTPSess[o]
    BY <1>1 DEF AcksRecent
  <2>2. CASE k \in Flight(o, d)
    BY <1>1, <2>1, <2>2 DEF ChannelInv, AcksRecent, Advances
  <2>3. CASE Speaks(p, y, k.msg)
    <3>1. ZRTPSess[p] \in Nat /\ ZRTPSess[o] \in Nat
      BY <1>0 DEF TypeInv, TypeOK
    <3>2. ZRTPSess[p] > ZRTPSess[o] \/ ZRTPSess[p] = ZRTPSess[o]
      BY <1>1, <2>1, <3>1 DEF Ahead
    <3>3. ZRTPSess[p] = ZRTPSess[o] => y.state \in Keyed
      BY <1>1, <2>1 DEF ChannelInv, Paired, Advances
    <3> QED BY <2>3, <3>2, <3>3 DEF Speaks, Keyed, Done
  <2> QED BY <2>2, <2>3 DEF InSession, Sending
<1>4. Paired(o, p, ch[o][d], ch[p][d])'
  BY <1>1 DEF ChannelInv, Paired, Advances, Keyed, Done
<1>5. \A k \in Flight(o, d)' : SentBy(p, ch[p][d], k.msg)'
  BY SentByStep
<1> QED BY <1>2, <1>3, <1>4, <1>5, NothingAfterStep DEF ChannelInv

(* A Confirm message under its keys tells a channel of p where the other   *)
(* end is.                                                                 *)
LEMMA Confirmed ==
    ASSUME TypeInv, SessionInv, NEW p \in Endpoints, NEW sent, InSession(p, sent),
           NEW d \in Channels, NEW k \in Flight(p, d), ConfirmedBy(ch'[p][d], k),
           Authenticated(ch'[p][d]), ~Authenticated(ch[p][d])
    PROVE  /\ ZRTPSess[Other(p)] = ZRTPSess[p]
           /\ Confirms(ch[Other(p)][d], k.msg) /\ k.msg.value.sess = ZRTPSess[p]
           /\ ch[Other(p)][d].key = ch'[p][d].key
           /\ ch'[p][d].state \in Done => ch[Other(p)][d].state = "sendingConfirm2"
                                          /\ ch'[p][d].role # "INITIATOR"
<1> DEFINE o == Other(p)
           x == ch[p][d]
           y == ch'[p][d]
           z == ch[o][d]
<1>0. o \in Endpoints /\ Other(o) = p
  BY OtherEnd
<1>1. /\ Own(p, y) /\ Advances(x, y, Flight(p, d)) /\ Own(p, x)
      /\ SentBy(o, z, k.msg) /\ Paired(o, p, z, x) /\ Ahead(o, p)
  BY <1>0 DEF InSession, SessionInv, ChannelInv
<1>2. ZRTPSess[p] \in Nat /\ ZRTPSess[o] \in Nat
  BY <1>0 DEF TypeInv, TypeOK
<1>3. /\ k.msg.type \in {"Confirm1", "Confirm2"} /\ k.msg.value = y.key
      /\ y.key.sess = ZRTPSess[p]
      /\ y.state = "sendingConfirm2" => k.msg.type = "Confirm1"
      /\ y.state # "sendingConfirm2" => k.msg.type = "Confirm2" /\ y.state = "secure"
  BY <1>1 DEF ConfirmedBy, Msg, Own, Keyed, Authenticated, Done
<1>4. ZRTPSess[p] = ZRTPSess[o]
  BY <1>1, <1>2, <1>3 DEF SentBy, Ahead, Authenticated, Done
<1>5. z.key = y.key
  BY <1>1, <1>3, <1>4 DEF SentBy
<1>6. y.state \in {"sendingConfirm2", "secure"}
  BY <1>3
<1>7. CASE y.state = "sendingConfirm2"
  BY <1>1, <1>3, <1>4, <1>5, <1>7
     DEF SentBy, Paired, Advances, Confirms, Keyed, Done, Authenticated
<1>8. CASE y.state = "secure"
  <2>1. x.state = "sendingConfirm1" /\ y.role = "RESPONDER"
    BY <1>1, <1>8 DEF Advances, Own, Keyed, Done
  <2> QED BY <1>1, <1>3, <1>4, <1>5, <1>8, <2>1
             DEF SentBy, Paired, Confirms, Keyed, Done, Authenticated
<1> QED BY <1>6, <1>7, <1>8

(* A step of p within its session keeps what holds of its channels. *)
LEMMA OwnStep ==
    ASSUME TypeInv, TypeInv', SessionInv, NEW p \in Endpoints, NEW sent, InSession(p, sent),
           NEW d \in Channels
    PROVE  /\ ChannelInv(p, Other(p), d)'
           /\ ZRTPSess[Other(p)] < ZRTPSess[p] => ~Authenticated(ch'[p][d])
<1> DEFINE o == Other(p)
           x == ch[p][d]
           y == ch'[p][d]
           z == ch[o][d]
<1>0. o \in Endpoints /\ Other(o) = p
  BY OtherEnd
<1>1. /\ Own(p, y) /\ Advances(x, y, Flight(p, d)) /\ ZRTPSess' = ZRTPSess /\ ch'[o] = ch[o]
      /\ Ahead(o, p) /\ Ahead(p, o) /\ ChannelInv(p, o, d) /\ Flight(p, d)' \subseteq Flight(p, d)
  BY <1>0 DEF InSession, SessionInv, Sending
<1>2. ZRTPSess[p] \in Nat /\ ZRTPSess[o] \in Nat
  BY <1>0 DEF TypeInv, TypeOK
<1>3. Own(p, ch[p][d])'
  BY <1>1 DEF Own
<1>4. /\ \A k \in Flight(p, d)' : SentBy(o, ch[o][d], k.msg)'
      /\ NothingAfter(o, ch[o][d], Flight(p, d))'
  BY <1>1 DEF ChannelInv, SentBy, NothingAfter
<1>5. SUFFICES ASSUME Authenticated(y)
               PROVE  /\ AcksRecent(p, o, ch[p][d], ch[o][d], Flight(p, d))'
                      /\ Paired(p, o, ch[p][d], ch[o][d])'
                      /\ ~(ZRTPSess[o] < ZRTPSess[p])
  BY <1>1, <1>3, <1>4 DEF ChannelInv, AcksRecent, Paired
<1>6. CASE Authenticated(x)
  <2>1. AcksRecent(p, o, ch[p][d], ch[o][d], Flight(p, d))'
    <3>1. \A k \in Flight(p, d) : k \in Packets
      BY DEF Flight, TypeInv, TypeOK
    <3>2. x.peerSeq \in Nat /\ y.peerSeq \in Nat
      BY DEF TypeInv, TypeOK, ChannelContexts
    <3>3. ASSUME NEW k \in Flight(p, d)', k.seq > y.peerSeq PROVE k.seq > x.peerSeq
      BY <1>1, <3>1, <3>2, <3>3 DEF Advances, Packets
    <3> QED BY <1>1, <1>6, <3>3 DEF AcksRecent, ChannelInv
  <2>2. Paired(p, o, ch[p][d], ch[o][d])'
    <3>1. x.state = "sendingConfirm2" /\ y.state \in Done /\ ZRTPSess[o] = ZRTPSess[p] => z.state \in Done
      BY <1>1, <1>2, <1>6 DEF Advances, ChannelInv, AcksRecent, Conf2ACK, Msg
    <3> QED BY <1>1, <1>6, <3>1 DEF Advances, ChannelInv, Paired, Keyed, Done, Authenticated
  <2> QED BY <1>1, <1>6, <2>1, <2>2 DEF Ahead
<1>7. CASE ~Authenticated(x)
  <2>1. PICK k \in Flight(p, d) : ConfirmedBy(y, k)
    BY <1>1, <1>5, <1>7 DEF Advances
  <2>2. /\ ZRTPSess[o] = ZRTPSess[p]
        /\ Confirms(z, k.msg) /\ k.msg.value.sess = ZRTPSess[p]
        /\ z.key = y.key
        /\ y.state \in Done => z.state = "sendingConfirm2" /\ y.role # "INITIATOR"
    BY <1>5, <1>7, <2>1, Confirmed
  <2>3. AcksRecent(p, o, ch[p][d], ch[o][d], Flight(p, d))'
    <3>1. k.seq = y.peerSeq
      BY <2>1 DEF ConfirmedBy
    <3>2. ASSUME NEW l \in Flight(p, d)', l.seq > y.peerSeq
          PROVE  l.msg.type \notin {"Conf2ACK", "ClearACK"}
      <4>1. l.msg = k.msg
        BY <1>1, <2>2, <3>1, <3>2 DEF ChannelInv, NothingAfter
      <4> QED BY <2>2, <4>1 DEF Confirms
    <3> QED BY <3>2 DEF AcksRecent
  <2>4. Paired(p, o, ch[p][d], ch[o][d])'
    BY <1>1, <2>2 DEF Paired, Confirms, Keyed, Done
  <2> QED BY <1>2, <2>2, <2>3, <2>4
<1> QED BY <1>6, <1>7

(* A step of p within its session keeps the two ends in step, if all its   *)
(* channels or none of them wait for a ClearACK.                           *)
LEMMA InSessionStep ==
    ASSUME TypeInv, TypeInv', SessionInv, NEW p \in Endpoints, NEW sent, InSession(p, sent),
           Together(p)'
    PROVE  SessionInv'
<1> DEFINE o == Other(p)
<1>0. o \in Endpoints /\ Other(o) = p
  BY OtherEnd
<1>1. /\ ZRTPSess' = ZRTPSess /\ ch'[o] = ch[o]
      /\ \A d \in Channels : Advances(ch[p][d], ch'[p][d], Flight(p, d))
      /\ Ahead(o, p) /\ Ahead(p, o) /\ Together(o)
  BY <1>0 DEF InSession, SessionInv
<1>2. Ahead(p, o)'
  BY <1>1, OwnStep DEF Ahead
<1>3. Ahead(o, p)'
  BY <1>1 DEF Ahead, Advances
<1>4. Together(o)'
  BY <1>1 DEF Together
<1>5. \A d \in Channels : ChannelInv(p, o, d)' /\ ChannelInv(o, p, d)'
  BY OwnStep, PeerStep
<1> QED BY <1>0, <1>2, <1>3, <1>4, <1>5, TwoEnds DEF SessionInv

(* p derives a new ZRTPSess and clears all its channels. *)
Clears(p, sent) ==
    /\ Sending(p, sent)
    /\ ZRTPSess' = [ZRTPSess EXCEPT ![p] = @ + 1]
    /\ ch'[Other(p)] = ch[Other(p)]
    /\ \A d \in Channels :
          /\ ch'[p][d].state = "clear" /\ ch'[p][d].role = "INITIATOR"
          /\ \A m \in sent[d] : m = ClearACK

(* It may do so when the other end waits for it, or has done so. *)
LEMMA ClearsStep ==
    ASSUME TypeInv, TypeInv', SessionInv, NEW p \in Endpoints, NEW sent, Clears(p, sent),
           \/ /\ ZRTPSess[Other(p)] = ZRTPSess[p]
              /\ \A d \in Channels : ch[Other(p)][d].state = "sending_GoClear"
           \/ /\ ZRTPSess[Other(p)] = ZRTPSess[p] + 1
              /\ \A d \in Channels : ~Authenticated(ch[Other(p)][d])
    PROVE  SessionInv'
<1> DEFINE o == Other(p)
           s == ZRTPSess[p]
<1>0. o \in Endpoints /\ Other(o) = p /\ o # p
  BY OtherEnd
<1>1. s \in Nat /\ ZRTPSess[o] \in Nat /\ ZRTPSess'[p] = s + 1 /\ ZRTPSess'[o] = ZRTPSess[o]
  BY <1>0 DEF TypeInv, TypeOK, Clears
<1>2. /\ ch'[o] = ch[o] /\ Together(o)
      /\ \A d \in Channels : ch'[p][d].state = "clear" /\ ch'[p][d].role = "INITIATOR"
      /\ \A d \in Channels : ~Authenticated(ch'[p][d])
  BY <1>0 DEF SessionInv, Clears, Authenticated, Done
<1>3. Together(o)' /\ Together(p)'
  BY <1>2 DEF Together
<1>4. Ahead(p, o)' /\ Ahead(o, p)'
  BY <1>0, <1>1, <1>2 DEF Ahead
<1>5. ASSUME NEW d \in Channels PROVE ChannelInv(p, o, d)'
  <2>1. ChannelInv(p, o, d) /\ Flight(p, d)' \subseteq Flight(p, d)
    BY <1>0 DEF SessionInv, Clears, Sending
  <2>2. Own(p, ch[p][d])'
    BY <1>2 DEF Own, Keyed
  <2>3. /\ \A k \in Flight(p, d)' : SentBy(o, ch[o][d], k.msg)'
        /\ NothingAfter(o, ch[o][d], Flight(p, d))'
    BY <1>1, <1>2, <2>1 DEF ChannelInv, SentBy, NothingAfter
  <2> QED BY <1>2, <2>2, <2>3 DEF ChannelInv, AcksRecent, Paired
<1>6. ASSUME NEW d \in Channels PROVE ChannelInv(o, p, d)'
  <2>1. ChannelInv(o, p, d)
    BY <1>0 DEF SessionInv
  <2>2. Own(o, ch[o][d])'
    BY <1>1, <1>2, <2>1 DEF ChannelInv, Own
  <2>3. ASSUME NEW k \in Flight(o, d)' PROVE SentBy(p, ch[p][d], k.msg)'
    <3>1. k.msg \in Messages
      BY <1>0 DEF TypeInv, TypeOK, Flight, Packets
    <3>2. CASE k \in Flight(o, d)
      <4>1. SentBy(p, ch[p][d], k.msg)
        BY <2>1, <3>2 DEF ChannelInv
      <4>2. /\ k.msg.type \in {"Confirm1", "Confirm2"} => k.msg.value.sess \in Nat
            /\ k.msg.type = "GoClear" => k.msg.value[1].sess \in Nat
        BY <3>1 DEF Messages, Keys
      <4> QED BY <1>1, <4>1, <4>2 DEF SentBy
    <3>3. CASE k.msg \in sent[d]
      BY <3>3 DEF Clears, ClearACK, Msg, SentBy
    <3> QED BY <3>2, <3>3 DEF Clears, Sending
  <2>4. NothingAfter(p, ch[p][d], Flight(o, d))'
    BY <1>2 DEF NothingAfter, Confirms
  <2>5. AcksRecent(o, p, ch[o][d], ch[p][d], Flight(o, d))' /\ Paired(o, p, ch[o][d], ch[p][d])'
    BY <1>1, <1>2 DEF AcksRecent, Paired
  <2> QED BY <2>2, <2>3, <2>4, <2>5 DEF ChannelInv
<1> QED BY <1>0, <1>3, <1>4, <1>5, <1>6, TwoEnds DEF SessionInv

-----------------------------------------------------------------------------
(* The actions are such steps.                                             *)

(* What a handler finds of the network. *)
Remains(rest) ==
    /\ rest \in Networks /\ late' \in Networks
    /\ {uneven', calls', firings', faults'} \subseteq Nat
    /\ \A q \in Endpoints, d \in Channels :
          rest[q][d] \subseteq net[q][d] /\ late'[q][d] \subseteq late[q][d]

(* An answer is sent on the channel of the packet. *)
LEMMA Answered ==
    ASSUME TypeInv, NEW p \in Endpoints, NEW c \in Channels, NEW rest, Remains(rest),
           NEW m \in Messages, Answer(p, c, rest, m)
    PROVE  Sending(p, OnChannel(c, {m}))
<1> DEFINE o == Other(p)
           k == Packet(ch[p][c], m)
<1>0. o \in Endpoints /\ o # p
  BY OtherEnd
<1>1. k \in Packets /\ k.seq = ch[p][c].selfSeq /\ k.msg = m
  BY DEF Packet, Packets, TypeInv, TypeOK, ChannelContexts
<1>2. net' = [rest EXCEPT ![o][c] = @ \cup {k}]
  BY DEF Answer
<1> HIDE DEF k
<1>3. rest \in Networks
  BY DEF Remains
<1>4. net' \in Networks
  BY <1>0, <1>1, <1>2, <1>3 DEF Networks
<1>5. /\ net'[p] = rest[p]
      /\ \A d \in Channels : net'[o][d] \subseteq rest[o][d] \cup (IF d = c THEN {k} ELSE {})
  BY <1>0, <1>2, <1>3 DEF Networks
<1>6. ASSUME NEW d \in Channels
      PROVE  /\ Flight(p, d)' \subseteq Flight(p, d)
             /\ \A l \in Flight(o, d)' : l \in Flight(o, d) \/ (d = c /\ l = k)
  BY <1>0, <1>5 DEF Remains, Flight
<1> QED BY <1>1, <1>4, <1>6 DEF Sending, Remains, OnChannel

(* Or nothing is sent. *)
LEMMA Unanswered ==
    ASSUME NEW p \in Endpoints, NEW c \in Channels, NEW rest, Remains(rest), Silent(rest)
    PROVE  Sending(p, OnChannel(c, {}))
BY OtherEnd DEF Sending, Remains, Silent, Flight

(* p puts well-formed contexts in the place of its own, and numbers what   *)
(* it sends on a channel above what it sent there before.                  *)
Replaces(p, new, sent) ==
    /\ new \in [Channels -> ChannelContexts]
    /\ ch' = [ch EXCEPT ![p] = new]
    /\ ZRTPSess' \in [Endpoints -> Nat]
    /\ Sending(p, sent)
    /\ \A d \in Channels : /\ ContextOK(new[d])
                           /\ new[d].selfSeq >= ch[p][d].selfSeq
                           /\ sent[d] # {} => new[d].selfSeq > ch[p][d].selfSeq

(* A step of p that changes all its contexts. *)
LEMMA AllChannelsTyped ==
    ASSUME TypeInv, NEW p \in Endpoints, NEW new, NEW sent, Replaces(p, new, sent)
    PROVE  TypeInv' /\ ch'[p] = new /\ ch'[Other(p)] = ch[Other(p)]
<1> USE DEF Replaces
<1>0. Other(p) \in Endpoints /\ Other(p) # p
  BY OtherEnd
<1>1. ch'[p] = new /\ ch'[Other(p)] = ch[Other(p)]
  BY <1>0 DEF TypeInv, TypeOK
<1>2. FlightStep(p)
  BY <1>1 DEF FlightStep, Sends, Sending
<1> QED BY <1>1, <1>2, TypeStep DEF Sending

(* A context that does not change goes on. *)
LEMMA Unchanged ==
    ASSUME TypeInv, NEW p \in Endpoints, NEW d \in Channels
    PROVE  Advances(ch[p][d], ch[p][d], Flight(p, d))
BY DEF Advances, TypeInv, TypeOK, ChannelContexts, Done, Authenticated

(* A step of p that changes one context. *)
LEMMA OneChannelStep ==
    ASSUME TypeInv, NEW p \in Endpoints, NEW c \in Channels, NEW new, ContextOK(new),
           Update(p, c, new), ZRTPSess' = ZRTPSess,
           NEW sent, Sending(p, OnChannel(c, sent)),
           new.selfSeq >= ch[p][c].selfSeq,
           sent # {} => new.selfSeq > ch[p][c].selfSeq
    PROVE  /\ TypeInv'
           /\ SessionInv
              /\ Own(p, new) /\ Advances(ch[p][c], new, Flight(p, c))
              /\ (new.state = "sending_GoClear" => ch[p][c].state = "sending_GoClear")
              /\ (\A m \in sent : Speaks(p, new, m))
              => SessionInv'
<1> DEFINE all == [ch[p] EXCEPT ![c] = new]
           s == OnChannel(c, sent)
<1>1. /\ ch[p] \in [Channels -> ChannelContexts] /\ new \in ChannelContexts
      /\ \A d \in Channels : ch[p][d].selfSeq \in Nat
  BY DEF TypeInv, TypeOK, ContextOK, ChannelContexts
<1>2. ch' = [ch EXCEPT ![p] = all]
  BY DEF TypeInv, TypeOK, Update
<1>3. /\ all \in [Channels -> ChannelContexts] /\ all[c] = new
      /\ \A d \in Channels \ {c} : all[d] = ch[p][d]
  BY <1>1
<1>4. ZRTPSess' \in [Endpoints -> Nat]
  BY DEF TypeInv, TypeOK
<1> HIDE DEF all
<1>5. \A d \in Channels : /\ ContextOK(all[d])
                          /\ all[d].selfSeq >= ch[p][d].selfSeq
                          /\ s[d] # {} => all[d].selfSeq > ch[p][d].selfSeq
  BY <1>1, <1>3 DEF OnChannel, TypeInv
<1>5a. Sending(p, s)
  OBVIOUS
<1> HIDE DEF s
<1>6. TypeInv' /\ ch'[p] = all /\ ch'[Other(p)] = ch[Other(p)]
  <2>1. Replaces(p, all, s)
    BY <1>2, <1>3, <1>4, <1>5, <1>5a DEF Replaces
  <2> QED BY <2>1, AllChannelsTyped
<1>7. ASSUME SessionInv, Own(p, new), Advances(ch[p][c], new, Flight(p, c)),
             new.state = "sending_GoClear" => ch[p][c].state = "sending_GoClear",
             \A m \in sent : Speaks(p, new, m)
      PROVE  SessionInv'
  <2>1. ASSUME NEW d \in Channels
        PROVE  /\ Own(p, all[d])
               /\ Advances(ch[p][d], all[d], Flight(p, d))
               /\ \A m \in s[d] : Speaks(p, all[d], m)
               /\ all[d].state = "sending_GoClear" <=> ch[p][d].state = "sending_GoClear"
    <3>1. CASE d = c
      BY <1>3, <1>7, <3>1 DEF s, OnChannel, Advances
    <3>2. CASE d # c
      <4>1. Own(p, ch[p][d])
        BY <1>7 DEF SessionInv, ChannelInv
      <4> QED BY <1>3, <3>2, <4>1, Unchanged DEF s, OnChannel
    <3> QED BY <3>1, <3>2
  <2>2. InSession(p, s)
    BY <1>6, <2>1 DEF InSession, s
  <2>3. Together(p)'
    BY <1>6, <1>7, <2>1 DEF SessionInv, Together
  <2> QED BY <1>6, <1>7, <2>2, <2>3, InSessionStep
<1> QED BY <1>6, <1>7

(* The messages the handlers make. *)
LEMMA MessageTypes ==
    /\ ClearACK \in Messages /\ Conf2ACK \in Messages
    /\ \A key \in Keys : Msg("Confirm1", key) \in Messages /\ Msg("Confirm2", key) \in Messages
    /\ \A p \in Endpoints, n \in Nat : Commit(p, n) \in Messages
BY DEF ClearACK, Conf2ACK, Msg, Messages, Commit, Nonce, Nonces

(* Up to its timer, its sequence numbers and keys that are not in use, y   *)
(* is x.                                                                   *)
Stays(x, y) ==
    /\ y.state = x.state /\ y.role = x.role /\ y.goClear = x.goClear
    /\ x.state \in Keyed => y.key = x.key
    /\ y.timer = x.timer \/ y.timer = "OFF"
    /\ y.peerSeq = x.peerSeq \/ y.peerSeq > x.peerSeq

(* Such a step is one within the session. *)
LEMMA StaysStep ==
    ASSUME NEW x \in ChannelContexts, NEW y \in ChannelContexts, Stays(x, y), NEW flight,
           NEW p \in Endpoints
    PROVE  Advances(x, y, flight) /\ (Own(p, x) => Own(p, y))
<1>1. Advances(x, y, flight)
  BY DEF Stays, Advances, ChannelContexts, Authenticated, Keyed, Done
<1>2. Own(p, x) => Own(p, y)
  BY DEF Stays, Own, Keyed, GoClearBy
<1> QED BY <1>1, <1>2

(* A packet that p takes on channel c. *)
Taken(p, c, k, rest) ==
    /\ k \in Flight(p, c)
    /\ PacketCheck(ch[p][c], k) /\ Takes(ch[p][c], k.msg)
    /\ Remains(rest)

(* Its types, and that its sequence number is newer. *)
LEMMA TakenTypes ==
    ASSUME TypeInv, NEW p \in Endpoints, NEW c \in Channels, NEW k, NEW rest, Taken(p, c, k, rest)
    PROVE  /\ k \in Packets /\ k.msg \in Messages /\ k.seq > ch[p][c].peerSeq
           /\ ch[p][c] \in ChannelContexts /\ ContextOK(ch[p][c])
           /\ ZRTPSess[p] \in Nat
BY DEF TypeInv, TypeOK, Taken, Flight, Packets, PacketCheck

(* Taking over the number of a packet, with or without an answer. *)
LEMMA TakenOver ==
    ASSUME NEW x \in ChannelContexts, ContextOK(x), NEW k \in Packets, k.seq > x.peerSeq
    PROVE  LET y == SetPeerSeq(x, k)  z == Sent(y) IN
           /\ ContextOK(y) /\ Stays(x, y) /\ y.selfSeq = x.selfSeq
           /\ ContextOK(z) /\ Stays(x, z) /\ z.selfSeq > x.selfSeq
           /\ y \in ChannelContexts /\ z \in ChannelContexts
           /\ y.peerSeq = k.seq /\ z.peerSeq = k.seq /\ z.state = x.state /\ z.key = x.key
           /\ z.role = x.role /\ z.goClear = x.goClear /\ z.isClear = x.isClear
           /\ y.state = x.state /\ y.key = x.key /\ y.role = x.role
           /\ y.goClear = x.goClear /\ y.isClear = x.isClear
<1> DEFINE y == SetPeerSeq(x, k)
           z == Sent(y)
<1>1. /\ y \in ChannelContexts /\ y.peerSeq = k.seq
      /\ y.state = x.state /\ y.timer = x.timer /\ y.selfSeq = x.selfSeq
      /\ y.role = x.role /\ y.key = x.key /\ y.isSecure = x.isSecure
      /\ y.isClear = x.isClear /\ y.goClear = x.goClear /\ y.commits = x.commits
  BY PeerSeqFacts
<1> HIDE DEF y
<1>2. /\ z \in ChannelContexts /\ z.selfSeq > y.selfSeq
      /\ z.state = y.state /\ z.timer = y.timer /\ SameKeys(y, z)
  BY <1>1, SentFacts
<1> HIDE DEF z
<1>3. ContextOK(y) /\ Stays(x, y)
  BY <1>1 DEF ContextOK, Stays
<1>4. /\ z.peerSeq = k.seq /\ z.selfSeq > x.selfSeq
      /\ z.role = x.role /\ z.key = x.key /\ z.isSecure = x.isSecure
      /\ z.isClear = x.isClear /\ z.goClear = x.goClear /\ z.timer = x.timer /\ z.state = x.state
  BY <1>1, <1>2 DEF SameKeys
<1>5. ContextOK(z) /\ Stays(x, z)
  BY <1>2, <1>4 DEF ContextOK, Stays
<1> QED BY <1>1, <1>2, <1>3, <1>4, <1>5 DEF y, z

(* A packet whose number alone is taken over, with or without an answer. *)
LEMMA RepeatStep ==
    ASSUME TypeInv, NEW p \in Endpoints, NEW c \in Channels, NEW k, NEW rest, Taken(p, c, k, rest),
           ZRTPSess' = ZRTPSess,
           \/ /\ Update(p, c, SetPeerSeq(ch[p][c], k))
              /\ Silent(rest)
           \/ /\ Update(p, c, Sent(SetPeerSeq(ch[p][c], k)))
              /\ \E m \in Messages :
                    Answer(p, c, rest, m) /\ \A x : Stays(ch[p][c], x) => Speaks(p, x, m)
    PROVE  TypeInv' /\ (SessionInv => SessionInv')
<1> DEFINE x == ch[p][c]
           y == SetPeerSeq(x, k)
           z == Sent(y)
<1>1. /\ k \in Packets /\ k.seq > x.peerSeq /\ x \in ChannelContexts /\ ContextOK(x)
      /\ x.selfSeq \in Nat
  BY TakenTypes DEF ChannelContexts
<1>2. /\ ContextOK(y) /\ Stays(x, y) /\ y.selfSeq = x.selfSeq
      /\ ContextOK(z) /\ Stays(x, z) /\ z.selfSeq > x.selfSeq
      /\ y \in ChannelContexts /\ z \in ChannelContexts
  BY <1>1, TakenOver
<1>3. SessionInv => Own(p, x)
  BY DEF SessionInv, ChannelInv
<1>4. z.selfSeq >= x.selfSeq /\ y.selfSeq >= x.selfSeq /\ z.selfSeq \in Nat
  BY <1>1, <1>2 DEF ChannelContexts
<1> HIDE DEF y, z
<1>5. CASE Update(p, c, y) /\ Silent(rest)
  <2>1. Sending(p, OnChannel(c, {}))
    BY <1>5, Unanswered DEF Taken
  <2>2. Advances(x, y, Flight(p, c)) /\ (SessionInv => Own(p, y)) /\ y.state = x.state
    BY <1>1, <1>2, <1>3, StaysStep DEF Stays
  <2> QED BY <1>2, <1>4, <1>5, <2>1, <2>2, OneChannelStep
<1>6. CASE /\ Update(p, c, z)
           /\ \E m \in Messages :
                 Answer(p, c, rest, m) /\ \A u : Stays(x, u) => Speaks(p, u, m)
  <2>0. PICK m \in Messages : Answer(p, c, rest, m) /\ \A u : Stays(x, u) => Speaks(p, u, m)
    BY <1>6
  <2>1. Sending(p, OnChannel(c, {m}))
    BY <2>0, Answered DEF Taken
  <2>2. Advances(x, z, Flight(p, c)) /\ (SessionInv => Own(p, z)) /\ z.state = x.state
    BY <1>1, <1>2, <1>3, StaysStep DEF Stays
  <2>3. \A n \in {m} : Speaks(p, z, n)
    BY <1>2, <2>0
  <2> QED BY <1>2, <1>4, <1>6, <2>1, <2>2, <2>3, OneChannelStep
<1> QED BY <1>5, <1>6 DEF y, z

(* The two GoClear crossed. *)
LEMMA SendingGoClearGoClearStep ==
    ASSUME TypeInv, NEW p \in Endpoints, NEW c \in Channels, NEW k, NEW rest, Taken(p, c, k, rest),
           SendingGoClearGoClear(p, c, k, rest)
    PROVE  TypeInv' /\ (SessionInv => SessionInv')
<1>1. \A x : Stays(ch[p][c], x) => Speaks(p, x, ClearACK)
  BY DEF Stays, Speaks, ClearACK, Msg, SendingGoClearGoClear
<1> QED BY <1>1, MessageTypes, RepeatStep DEF SendingGoClearGoClear

(* A repeated Commit is answered by the same Confirm1. *)
LEMMA RepeatedCommitStep ==
    ASSUME TypeInv, NEW p \in Endpoints, NEW c \in Channels, NEW k, NEW rest, Taken(p, c, k, rest),
           RepeatedCommit(p, c, k, rest)
    PROVE  TypeInv' /\ (SessionInv => SessionInv')
<1> DEFINE m == Msg("Confirm1", ch[p][c].key)
<1>1. \A x : Stays(ch[p][c], x) => Speaks(p, x, m)
  BY DEF Stays, Speaks, Msg, RepeatedCommit, Keyed
<1>2. m \in Messages
  BY MessageTypes, TakenTypes DEF ContextOK, ChannelContexts, RepeatedCommit
<1> QED BY <1>1, <1>2, RepeatStep DEF RepeatedCommit

(* A Confirm2 makes a responder secure, a repeated one is acknowledged. *)
LEMMA Confirm2Step ==
    ASSUME TypeInv, NEW p \in Endpoints, NEW c \in Channels, NEW k, NEW rest, Taken(p, c, k, rest),
           Confirm2(p, c, k, rest)
    PROVE  TypeInv' /\ (SessionInv => SessionInv')
<1> DEFINE x == ch[p][c]
           z == Sent(SetPeerSeq(x, k))
           y == EnterSecure(z)
<1>0. Conf2ACK \in Messages /\ Answer(p, c, rest, Conf2ACK) /\ ZRTPSess' = ZRTPSess
  BY MessageTypes DEF Confirm2
<1>1. CASE x.state = "secure" /\ Update(p, c, z)
  <2>1. \A u : Stays(x, u) => Speaks(p, u, Conf2ACK)
    BY <1>1 DEF Stays, Speaks, Conf2ACK, Msg
  <2> QED BY <1>0, <1>1, <2>1, RepeatStep
<1>2. CASE x.state = "sendingConfirm1" /\ Update(p, c, y)
  <2>1. /\ k \in Packets /\ k.seq > x.peerSeq /\ x \in ChannelContexts /\ ContextOK(x)
        /\ x.selfSeq \in Nat /\ k.msg \in Messages
    BY TakenTypes DEF ChannelContexts
  <2>2. /\ z \in ChannelContexts /\ ContextOK(z) /\ z.selfSeq > x.selfSeq
        /\ z.peerSeq = k.seq /\ z.state = x.state /\ z.key = x.key
        /\ z.role = x.role /\ z.goClear = x.goClear
    BY <2>1, TakenOver
  <2> HIDE DEF z
  <2>3. /\ y \in ChannelContexts /\ y.state = "secure" /\ y.timer = "OFF"
        /\ y.isSecure = TRUE /\ y.selfSeq = z.selfSeq
        /\ y.role = z.role /\ y.key = z.key /\ y.peerSeq = z.peerSeq
        /\ y.isClear = z.isClear /\ y.goClear = z.goClear
    BY <2>2, EnterSecureFacts
  <2> HIDE DEF y
  <2>4. ContextOK(y)
    BY <1>2, <2>2, <2>3 DEF ContextOK
  <2>5. k.msg = Msg("Confirm2", x.key)
    BY <1>2 DEF Taken, Takes, Confirm2, Msg
  <2>6. Advances(x, y, Flight(p, c))
    <3>1. ConfirmedBy(y, k) /\ k \in Flight(p, c)
      BY <2>2, <2>3, <2>5 DEF ConfirmedBy, Taken
    <3>2. y.peerSeq >= x.peerSeq
      BY <2>1, <2>2, <2>3 DEF ChannelContexts, Packets
    <3> QED BY <1>2, <2>2, <2>3, <3>1, <3>2 DEF Advances, Keyed, Done, Authenticated
  <2>7. SessionInv => Own(p, y)
    BY <1>2, <2>2, <2>3 DEF SessionInv, ChannelInv, Own, Keyed
  <2>8. \A m \in {Conf2ACK} : Speaks(p, y, m)
    BY <2>3 DEF Speaks, Conf2ACK, Msg
  <2>9. Sending(p, OnChannel(c, {Conf2ACK}))
    BY <1>0, Answered DEF Taken
  <2>10. y.selfSeq > x.selfSeq /\ y.selfSeq >= x.selfSeq
    BY <2>1, <2>2, <2>3 DEF ChannelContexts
  <2> QED BY <1>0, <1>2, <2>3, <2>4, <2>6, <2>7, <2>8, <2>9, <2>10, OneChannelStep
<1> QED BY <1>1, <1>2 DEF Confirm2

(* The Conf2ACK makes an initiator secure. *)
LEMMA AfterConfirm2Step ==
    ASSUME TypeInv, NEW p \in Endpoints, NEW c \in Channels, NEW k, NEW rest, Taken(p, c, k, rest),
           AfterConfirm2(p, c, k, rest)
    PROVE  TypeInv' /\ (SessionInv => SessionInv')
<1> DEFINE x == ch[p][c]
           y == EnterSecure(x)
<1>0. x.state = "sendingConfirm2" /\ Silent(rest) /\ ZRTPSess' = ZRTPSess
  BY DEF AfterConfirm2
<1>1. CASE Update(p, c, SetPeerSeq(x, k))
  BY <1>0, <1>1, RepeatStep
<1>2. CASE k.msg = Conf2ACK /\ Update(p, c, y)
  <2>1. k.seq > x.peerSeq /\ x \in ChannelContexts /\ ContextOK(x) /\ x.selfSeq \in Nat
        /\ x.peerSeq \in Nat
    BY TakenTypes DEF ChannelContexts
  <2>2. /\ y \in ChannelContexts /\ y.state = "secure" /\ y.timer = "OFF"
        /\ y.isSecure = TRUE /\ y.selfSeq = x.selfSeq
        /\ y.role = x.role /\ y.key = x.key /\ y.peerSeq = x.peerSeq
        /\ y.isClear = x.isClear /\ y.goClear = x.goClear
    BY <2>1, EnterSecureFacts
  <2> HIDE DEF y
  <2>3. ContextOK(y)
    BY <1>0, <2>1, <2>2 DEF ContextOK
  <2>4. Advances(x, y, Flight(p, c))
    <3>1. k \in Flight(p, c) /\ k.msg = Conf2ACK /\ k.seq > x.peerSeq
      BY <1>2, <2>1 DEF Taken
    <3> QED BY <1>0, <2>1, <2>2, <3>1 DEF Advances, Keyed, Done, Authenticated
  <2>5. SessionInv => Own(p, y)
    BY <1>0, <2>2 DEF SessionInv, ChannelInv, Own, Keyed
  <2>6. Sending(p, OnChannel(c, {}))
    BY <1>0, Unanswered DEF Taken
  <2> QED BY <1>0, <1>2, <2>1, <2>2, <2>3, <2>4, <2>5, <2>6, OneChannelStep
<1> QED BY <1>1, <1>2 DEF AfterConfirm2

(* A Commit is answered by a Confirm1 under the keys it leads to. *)
LEMMA ResponderStep ==
    ASSUME TypeInv, NEW p \in Endpoints, NEW c \in Channels, NEW k, NEW rest, Taken(p, c, k, rest),
           ch[p][c].state \in {"clear", "sendingCommit"}, k.msg.type = "Commit",
           NEW x \in ChannelContexts, x.isClear = FALSE, x.peerSeq = k.seq, SessionInv => x.goClear = None,
           x.selfSeq = ch[p][c].selfSeq,
           Update(p, c, TurnIntoResponder(x, ZRTPSess[p], k.msg)),
           Answer(p, c, rest, Msg("Confirm1", Key(ZRTPSess[p], k.msg.value))),
           ZRTPSess' = ZRTPSess
    PROVE  TypeInv' /\ (SessionInv => SessionInv')
<1> DEFINE key == Key(ZRTPSess[p], k.msg.value)
           y == TurnIntoResponder(x, ZRTPSess[p], k.msg)
           m == Msg("Confirm1", key)
<1>1. /\ k \in Packets /\ k.msg \in Messages /\ k.seq > ch[p][c].peerSeq
      /\ ch[p][c] \in ChannelContexts /\ ZRTPSess[p] \in Nat /\ x.selfSeq \in Nat
  BY TakenTypes DEF ChannelContexts
<1>2. /\ y \in ChannelContexts /\ ContextOK(y)
      /\ y.state = "sendingConfirm1" /\ y.role = "RESPONDER"
      /\ y.key = key /\ y.key \in Keys /\ y.timer = "OFF"
      /\ y.goClear = x.goClear /\ y.selfSeq = x.selfSeq + 1 /\ y.peerSeq = x.peerSeq
  BY <1>1, TurnIntoResponderFacts
<1> HIDE DEF y
<1>3. m \in Messages
  BY <1>2, MessageTypes
<1>4. key # None /\ key.sess = ZRTPSess[p] /\ key.nonce = k.msg.value
  BY <1>2, NoneAssumption DEF Key
<1>5. Update(p, c, y) /\ Answer(p, c, rest, m)
  BY DEF y
<1>6. Speaks(p, y, m)
  BY <1>2 DEF Speaks, Msg
<1> HIDE DEF key, m
<1>7. Sending(p, OnChannel(c, {m}))
  BY <1>3, <1>5, Answered DEF Taken
<1>8. Advances(ch[p][c], y, Flight(p, c))
  <2>1. y.peerSeq >= ch[p][c].peerSeq
    BY <1>1, <1>2 DEF ChannelContexts, Packets
  <2> QED BY <1>2, <2>1 DEF Advances, Keyed, Done, Authenticated
<1>9. SessionInv => Own(p, y)
  <2>1. SessionInv => key.nonce.of = Other(p)
    BY <1>4 DEF SessionInv, ChannelInv, SentBy, Taken
  <2> QED BY <1>2, <1>4, <2>1, OtherEnd DEF Own, Keyed
<1> QED BY <1>1, <1>2, <1>5, <1>6, <1>7, <1>8, <1>9, OneChannelStep

(* In clear mode. *)
LEMMA ClearCommitStep ==
    ASSUME TypeInv, NEW p \in Endpoints, NEW c \in Channels, NEW k, NEW rest, Taken(p, c, k, rest),
           ClearCommit(p, c, k, rest)
    PROVE  TypeInv' /\ (SessionInv => SessionInv')
<1> DEFINE x == ch[p][c]
           y == SetPeerSeq(x, k)
           z == [y EXCEPT !.goClear = None, !.isClear = FALSE]
<1>1. k \in Packets /\ k.seq > x.peerSeq /\ x \in ChannelContexts /\ ContextOK(x)
  BY TakenTypes
<1>2. y \in ChannelContexts /\ y.selfSeq = x.selfSeq /\ y.peerSeq = k.seq
  BY <1>1, TakenOver
<1>3. ClearCommit(p, c, k, rest)
         => /\ Update(p, c, TurnIntoResponder(z, ZRTPSess[p], k.msg))
            /\ x.state = "clear" /\ k.msg.type = "Commit"
            /\ Answer(p, c, rest, Msg("Confirm1", Key(ZRTPSess[p], k.msg.value)))
            /\ ZRTPSess' = ZRTPSess
  BY DEF ClearCommit
<1> HIDE DEF y
<1>4. /\ z \in ChannelContexts /\ z.goClear = None /\ z.isClear = FALSE
      /\ z.selfSeq = y.selfSeq /\ z.peerSeq = y.peerSeq
  BY <1>2 DEF ChannelContexts
<1> HIDE DEF z
<1> QED BY <1>2, <1>3, <1>4, ResponderStep

(* The two Commit crossed. *)
LEMMA CommitCommitStep ==
    ASSUME TypeInv, NEW p \in Endpoints, NEW c \in Channels, NEW k, NEW rest, Taken(p, c, k, rest),
           CommitCommit(p, c, k, rest)
    PROVE  TypeInv' /\ (SessionInv => SessionInv')
<1> DEFINE x == ch[p][c]
           y == SetPeerSeq(x, k)
<1>1. k \in Packets /\ k.seq > x.peerSeq /\ x \in ChannelContexts /\ ContextOK(x)
  BY TakenTypes
<1>2. /\ y \in ChannelContexts /\ y.selfSeq = x.selfSeq /\ y.peerSeq = k.seq
      /\ y.goClear = x.goClear /\ y.isClear = x.isClear
  BY <1>1, TakenOver
<1>3. x.state = "sendingCommit" /\ k.msg.type = "Commit" /\ ZRTPSess' = ZRTPSess
  BY DEF CommitCommit
<1>4. CASE /\ Update(p, c, TurnIntoResponder(y, ZRTPSess[p], k.msg))
           /\ Answer(p, c, rest, Msg("Confirm1", Key(ZRTPSess[p], k.msg.value)))
  <2>1. SessionInv => x.goClear = None
    BY <1>3 DEF SessionInv, ChannelInv, Own
  <2>2. x.isClear = FALSE
    BY <1>1, <1>3 DEF ContextOK, ChannelContexts
  <2> HIDE DEF y
  <2> QED BY <1>2, <1>3, <1>4, <2>1, <2>2, ResponderStep
<1>5. CASE Update(p, c, y) /\ Silent(rest)
  BY <1>3, <1>5, RepeatStep
<1> QED BY <1>4, <1>5 DEF CommitCommit

(* The Confirm1 that answers the Commit of p is confirmed in turn. *)
LEMMA CommitConfirm1Step ==
    ASSUME TypeInv, NEW p \in Endpoints, NEW c \in Channels, NEW k, NEW rest, Taken(p, c, k, rest),
           CommitConfirm1(p, c, k, rest)
    PROVE  TypeInv' /\ (SessionInv => SessionInv')
<1> DEFINE x == ch[p][c]
           key == OwnKey(p, c)
           y == SetPeerSeq(x, k)
           z == EnterSendingConfirm2(y, key)
           u == [x EXCEPT !.key = key]
<1>1. /\ k \in Packets /\ k.seq > x.peerSeq /\ x \in ChannelContexts /\ ContextOK(x)
      /\ k.msg \in Messages /\ ZRTPSess[p] \in Nat /\ x.selfSeq \in Nat /\ x.peerSeq \in Nat
  BY TakenTypes DEF ChannelContexts
<1>2. /\ key \in Keys /\ key # None
      /\ key.sess = ZRTPSess[p] /\ key.nonce.of = p
  BY <1>1, NoneAssumption DEF OwnKey, Key, Keys, Nonce, Nonces, ChannelContexts
<1>3. x.state = "sendingCommit" /\ k.msg.type = "Confirm1" /\ ZRTPSess' = ZRTPSess
  BY DEF CommitConfirm1
<1>4. x.isClear = FALSE
  BY <1>1, <1>3 DEF ContextOK, ChannelContexts
<1>5. SessionInv => x.goClear = None /\ x.role = "INITIATOR"
  BY <1>3 DEF SessionInv, ChannelInv, Own
<1> HIDE DEF key
<1>6. CASE k.msg.value = key /\ Update(p, c, z) /\ Answer(p, c, rest, Msg("Confirm2", key))
  <2>1. /\ y \in ChannelContexts /\ y.selfSeq = x.selfSeq /\ y.peerSeq = k.seq
        /\ y.goClear = x.goClear /\ y.isClear = x.isClear /\ y.role = x.role
    BY <1>1, TakenOver
  <2> HIDE DEF y
  <2>2. /\ z \in ChannelContexts /\ ContextOK(z)
        /\ z.state = "sendingConfirm2" /\ z.role = y.role /\ z.key = key
        /\ z.goClear = y.goClear /\ z.selfSeq = y.selfSeq + 2 /\ z.peerSeq = y.peerSeq
    <3>1. y.isClear = FALSE /\ y \in ChannelContexts /\ key \in Keys
      BY <1>2, <1>4, <2>1
    <3> QED BY <3>1, EnterSendingConfirm2Facts
  <2> HIDE DEF z
  <2> DEFINE m == Msg("Confirm2", key)
  <2>3. Sending(p, OnChannel(c, {m}))
    BY <1>2, <1>6, MessageTypes, Answered DEF Taken
  <2>4. \A n \in {m} : Speaks(p, z, n)
    BY <2>2 DEF Speaks, Msg
  <2>5. k.msg = Msg("Confirm1", key)
    BY <1>1, <1>3, <1>6 DEF Messages, Msg
  <2> HIDE DEF m
  <2>6. Advances(x, z, Flight(p, c))
    <3>1. ConfirmedBy(z, k) /\ k \in Flight(p, c)
      BY <2>1, <2>2, <2>5 DEF ConfirmedBy, Taken
    <3>2. z.peerSeq >= x.peerSeq
      BY <1>1, <2>1, <2>2 DEF Packets
    <3> QED BY <1>3, <2>2, <3>1, <3>2 DEF Advances, Keyed, Done, Authenticated
  <2>7. SessionInv => Own(p, z)
    BY <1>2, <1>5, <2>1, <2>2 DEF Own, Keyed
  <2> QED BY <1>1, <1>3, <1>6, <2>1, <2>2, <2>3, <2>4, <2>6, <2>7, OneChannelStep
<1>7. CASE Update(p, c, u) /\ Silent(rest)
  <2>1. /\ u \in ChannelContexts /\ u.key = key /\ u.state = x.state /\ u.role = x.role
        /\ u.timer = x.timer /\ u.goClear = x.goClear /\ u.isClear = x.isClear
        /\ u.selfSeq = x.selfSeq /\ u.peerSeq = x.peerSeq
    BY <1>1, <1>2 DEF ChannelContexts
  <2> HIDE DEF u
  <2>2. ContextOK(u) /\ Stays(x, u)
    BY <1>2, <1>3, <1>4, <2>1 DEF ContextOK, Stays, Keyed
  <2>3. Advances(x, u, Flight(p, c)) /\ (SessionInv => Own(p, u))
    BY <1>1, <2>1, <2>2, StaysStep DEF SessionInv, ChannelInv
  <2>4. Sending(p, OnChannel(c, {}))
    BY <1>7, Unanswered DEF Taken
  <2> QED BY <1>1, <1>3, <1>7, <2>1, <2>2, <2>3, <2>4, OneChannelStep
<1> QED BY <1>6, <1>7 DEF CommitConfirm1, key

(* A new ZRTPSess is a number. *)
LEMMA NewSession ==
    ASSUME TypeInv, NEW p \in Endpoints, NewZRTPSess(p)
    PROVE  ZRTPSess' \in [Endpoints -> Nat] /\ ZRTPSess' = [ZRTPSess EXCEPT ![p] = @ + 1]
BY DEF TypeInv, TypeOK, NewZRTPSess

(* Where the other end is when its GoClear is taken. *)
LEMMA GoClearTells ==
    ASSUME TypeInv, SessionInv, NEW p \in Endpoints, NEW c \in Channels, NEW k, NEW rest,
           Taken(p, c, k, rest), ch[p][c].state = "secure", k.msg.type = "GoClear"
    PROVE  /\ ZRTPSess[Other(p)] = ZRTPSess[p]
           /\ \A d \in Channels : ch[Other(p)][d].state = "sending_GoClear"
<1> DEFINE o == Other(p)
           x == ch[p][c]
<1>0. o \in Endpoints /\ Other(o) = p
  BY OtherEnd
<1>1. /\ Own(p, x) /\ SentBy(o, ch[o][c], k.msg) /\ Ahead(p, o) /\ Ahead(o, p) /\ Together(o)
  BY <1>0 DEF SessionInv, ChannelInv, Taken
<1>2. ZRTPSess[p] \in Nat /\ ZRTPSess[o] \in Nat
  BY <1>0 DEF TypeInv, TypeOK
<1>3. k.msg.value[1] = x.key
  BY DEF Taken, Takes, ClearMacOk, Msg
<1>4. x.key.sess = ZRTPSess[p]
  BY <1>1 DEF Own, Keyed
<1>5. ZRTPSess[p] = ZRTPSess[o]
  BY <1>1, <1>2, <1>3, <1>4 DEF SentBy, Ahead
<1> QED BY <1>1, <1>3, <1>4, <1>5 DEF SentBy, Together

(* Where it is when a ClearACK is taken. *)
LEMMA ClearACKTells ==
    ASSUME TypeInv, SessionInv, NEW p \in Endpoints, NEW c \in Channels, NEW k, NEW rest,
           Taken(p, c, k, rest), ch[p][c].state = "sending_GoClear", k.msg = ClearACK
    PROVE  \/ /\ ZRTPSess[Other(p)] = ZRTPSess[p]
              /\ \A d \in Channels : ch[Other(p)][d].state = "sending_GoClear"
           \/ /\ ZRTPSess[Other(p)] = ZRTPSess[p] + 1
              /\ \A d \in Channels : ~Authenticated(ch[Other(p)][d])
<1> DEFINE o == Other(p)
           x == ch[p][c]
<1>0. o \in Endpoints /\ Other(o) = p
  BY OtherEnd
<1>1. /\ AcksRecent(p, o, x, ch[o][c], Flight(p, c))
      /\ Ahead(p, o) /\ Ahead(o, p) /\ Together(o)
  BY <1>0 DEF SessionInv, ChannelInv
<1>2. ZRTPSess[p] \in Nat /\ ZRTPSess[o] \in Nat
  BY <1>0 DEF TypeInv, TypeOK
<1>3. Authenticated(x) /\ k \in Flight(p, c) /\ k.seq > x.peerSeq
  BY DEF Authenticated, Done, Taken, PacketCheck
<1>4. ch[o][c].state = "sending_GoClear" \/ ZRTPSess[o] > ZRTPSess[p]
  BY <1>1, <1>3 DEF AcksRecent, ClearACK, Msg
<1>5. ~(ZRTPSess[o] < ZRTPSess[p])
  BY <1>1, <1>3 DEF Ahead
<1>6. CASE ZRTPSess[o] > ZRTPSess[p]
  BY <1>1, <1>2, <1>6 DEF Ahead
<1>7. CASE ZRTPSess[o] = ZRTPSess[p]
  BY <1>1, <1>2, <1>4, <1>7 DEF Together
<1> QED BY <1>2, <1>5, <1>6, <1>7

(* The contexts of p, cleared: whatever was done to that of c before. *)
Cleared(p, c, u) ==
    ch' = [ch EXCEPT ![p] = [d \in Channels |-> EnterClear(IF d = c THEN u ELSE ch[p][d])]]

(* This is what a new ZRTPSess goes with. *)
LEMMA ClearedFacts ==
    ASSUME TypeInv, NEW p \in Endpoints, NEW c \in Channels, NEW u \in ChannelContexts,
           Cleared(p, c, u), NEW sent, Sending(p, OnChannel(c, sent)), u.selfSeq >= ch[p][c].selfSeq,
           sent # {} => u.selfSeq > ch[p][c].selfSeq,
           \A m \in sent : m = ClearACK, NewZRTPSess(p)
    PROVE  TypeInv' /\ Clears(p, OnChannel(c, sent))
<1> DEFINE all == [d \in Channels |-> EnterClear(IF d = c THEN u ELSE ch[p][d])]
           s == OnChannel(c, sent)
<1>1. \A d \in Channels : ch[p][d] \in ChannelContexts /\ ch[p][d].selfSeq \in Nat
  BY DEF TypeInv, TypeOK, ChannelContexts
<1>2. ASSUME NEW d \in Channels
      PROVE  LET y == EnterClear(IF d = c THEN u ELSE ch[p][d]) IN
             /\ y \in ChannelContexts /\ ContextOK(y)
             /\ y.state = "clear" /\ y.role = "INITIATOR"
             /\ y.selfSeq >= ch[p][d].selfSeq
             /\ s[d] # {} => y.selfSeq > ch[p][d].selfSeq
  <2>1. CASE d = c
    BY <2>1, EnterClearFacts DEF OnChannel
  <2>2. CASE d # c
    BY <1>1, <2>2, EnterClearFacts DEF OnChannel
  <2> QED BY <2>1, <2>2
<1>3. ch' = [ch EXCEPT ![p] = all]
  BY DEF Cleared
<1>4. /\ all \in [Channels -> ChannelContexts]
      /\ \A d \in Channels :
            /\ ContextOK(all[d]) /\ all[d].state = "clear" /\ all[d].role = "INITIATOR"
            /\ all[d].selfSeq >= ch[p][d].selfSeq
            /\ s[d] # {} => all[d].selfSeq > ch[p][d].selfSeq
  BY <1>2
<1> HIDE DEF all, s
<1>5. TypeInv' /\ ch'[p] = all /\ ch'[Other(p)] = ch[Other(p)]
  <2>1. ZRTPSess' \in [Endpoints -> Nat] /\ Sending(p, s)
    BY NewSession DEF s
  <2>2. Replaces(p, all, s)
    BY <1>3, <1>4, <2>1 DEF Replaces
  <2> QED BY <2>2, AllChannelsTyped
<1>6. \A d \in Channels : \A m \in s[d] : m = ClearACK
  BY DEF s, OnChannel
<1> QED BY <1>4, <1>5, <1>6, NewSession DEF Clears, s

(* A GoClear under the present keys, in state_secure. *)
LEMMA SecureGoClearStep ==
    ASSUME TypeInv, NEW p \in Endpoints, NEW c \in Channels, NEW k, NEW rest, Taken(p, c, k, rest),
           SecureGoClear(p, c, k, rest)
    PROVE  TypeInv' /\ (SessionInv => SessionInv')
<1> DEFINE x == ch[p][c]
           v == Sent(x)
           u == TimerOn(v)
<1>1. x \in ChannelContexts
  BY TakenTypes
<1>2. v \in ChannelContexts /\ v.selfSeq = x.selfSeq + 1
  BY <1>1, SentFacts
<1>3. u \in ChannelContexts /\ u.selfSeq = v.selfSeq
  BY <1>2, TimerFacts
<1>4. u.selfSeq > x.selfSeq /\ u.selfSeq >= x.selfSeq
  BY <1>1, <1>2, <1>3 DEF ChannelContexts
<1>5. Cleared(p, c, u)
  <2>1. ch' = [ch EXCEPT ![p] =
               [d \in Channels |-> EnterClear(IF d = c THEN TimerOn(Sent(ch[p][d])) ELSE ch[p][d])]]
    BY DEF SecureGoClear, TypeInv, TypeOK
  <2>2. [d \in Channels |-> EnterClear(IF d = c THEN TimerOn(Sent(ch[p][d])) ELSE ch[p][d])]
        = [d \in Channels |-> EnterClear(IF d = c THEN u ELSE ch[p][d])]
    OBVIOUS
  <2> QED BY <2>1, <2>2 DEF Cleared
<1> HIDE DEF u
<1>6. Sending(p, OnChannel(c, {ClearACK}))
  BY MessageTypes, Answered DEF SecureGoClear, Taken
<1>7. TypeInv' /\ Clears(p, OnChannel(c, {ClearACK}))
  BY <1>3, <1>4, <1>5, <1>6, ClearedFacts DEF SecureGoClear
<1> QED BY <1>7, GoClearTells, ClearsStep DEF SecureGoClear

(* A ClearACK in state_sending_GoClear. *)
LEMMA SendingGoClearClearACKStep ==
    ASSUME TypeInv, NEW p \in Endpoints, NEW c \in Channels, NEW k, NEW rest, Taken(p, c, k, rest),
           SendingGoClearClearACK(p, c, k, rest)
    PROVE  TypeInv' /\ (SessionInv => SessionInv')
<1> DEFINE x == ch[p][c]
           u == TimerOff(x)
<1>1. x \in ChannelContexts /\ x.selfSeq \in Nat
  BY TakenTypes DEF ChannelContexts
<1>2. u \in ChannelContexts /\ u.selfSeq = x.selfSeq
  BY <1>1, TimerFacts
<1>3. Cleared(p, c, u)
  <2>1. ch' = [ch EXCEPT ![p] =
               [d \in Channels |-> EnterClear(IF d = c THEN TimerOff(ch[p][d]) ELSE ch[p][d])]]
    BY DEF SendingGoClearClearACK, TypeInv, TypeOK
  <2>2. [d \in Channels |-> EnterClear(IF d = c THEN TimerOff(ch[p][d]) ELSE ch[p][d])]
        = [d \in Channels |-> EnterClear(IF d = c THEN u ELSE ch[p][d])]
    OBVIOUS
  <2> QED BY <2>1, <2>2 DEF Cleared
<1> HIDE DEF u
<1>4. Sending(p, OnChannel(c, {}))
  BY Unanswered DEF SendingGoClearClearACK, Taken
<1>5. TypeInv' /\ Clears(p, OnChannel(c, {}))
  BY <1>1, <1>2, <1>3, <1>4, ClearedFacts DEF SendingGoClearClearACK
<1> QED BY <1>5, ClearACKTells, ClearsStep DEF SendingGoClearClearACK

(* Whatever packet is processed. *)
LEMMA ProcessMessageStep ==
    ASSUME TypeInv, NEW p \in Endpoints, NEW c \in Channels, NEW k \in Flight(p, c),
           NEW rest, Remains(rest), ProcessMessage(p, c, k, rest)
    PROVE  TypeInv' /\ (SessionInv => SessionInv')
<1>1. CASE Taken(p, c, k, rest)
  <2>1. Handle(p, c, k, rest)
    BY <1>1 DEF ProcessMessage, Taken
  <2> QED BY <1>1, <2>1, SecureGoClearStep, SendingGoClearClearACKStep, SendingGoClearGoClearStep,
             ClearCommitStep, CommitCommitStep, CommitConfirm1Step, RepeatedCommitStep,
             Confirm2Step, AfterConfirm2Step DEF Handle
<1>2. CASE ~Taken(p, c, k, rest)
  <2>1. Silent(rest) /\ ch' = ch /\ ZRTPSess' = ZRTPSess
    BY <1>2 DEF ProcessMessage, Taken
  <2>2. /\ Sending(p, OnChannel(c, {})) /\ Update(p, c, ch[p][c]) /\ ContextOK(ch[p][c])
        /\ ch[p][c].selfSeq \in Nat
    BY <2>1, Unanswered DEF Update, TypeInv, TypeOK, ChannelContexts
  <2>3. Advances(ch[p][c], ch[p][c], Flight(p, c)) /\ (SessionInv => Own(p, ch[p][c]))
    BY Unchanged DEF SessionInv, ChannelInv
  <2> QED BY <2>1, <2>2, <2>3, OneChannelStep
<1> QED BY <1>1, <1>2

(* An action other than the receipt of a packet leaves the network. *)
LEMMA NetRemains ==
    ASSUME TypeInv, late' = late, {uneven', calls', firings', faults'} \subseteq Nat
    PROVE  Remains(net)
BY DEF Remains, TypeInv, TypeOK, Networks

(* bzrtp_sendGoClear, one context: the channel of the call and another. *)
LEMMA AskedFacts ==
    ASSUME NEW p \in Endpoints, NEW x \in ChannelContexts, ContextOK(x)
    PROVE  LET y == [x EXCEPT !.state = "sending_GoClear"] IN
           /\ y \in ChannelContexts /\ ContextOK(y) /\ y.state = "sending_GoClear"
           /\ y.selfSeq = x.selfSeq
           /\ x.state = "secure" /\ Own(p, x) =>
                 Own(p, y) /\ \A flight : Advances(x, y, flight)
<1> DEFINE y == [x EXCEPT !.state = "sending_GoClear"]
<1>1. /\ y \in ChannelContexts /\ y.state = "sending_GoClear"
      /\ y.selfSeq = x.selfSeq /\ y.peerSeq = x.peerSeq /\ y.role = x.role /\ y.key = x.key
      /\ y.goClear = x.goClear /\ y.timer = x.timer
      /\ y.isSecure = x.isSecure /\ y.isClear = x.isClear
  BY DEF ChannelContexts, States
<1>2. x.peerSeq \in Nat
  BY DEF ChannelContexts
<1> HIDE DEF y
<1>3. ContextOK(y)
  BY <1>1 DEF ContextOK
<1>4. x.state = "secure" /\ Own(p, x) => Own(p, y)
  BY <1>1 DEF Own, Keyed
<1>5. x.state = "secure" => \A flight : Advances(x, y, flight)
  BY <1>1, <1>2 DEF Advances, Keyed, Done, Authenticated
<1> QED BY <1>1, <1>3, <1>4, <1>5 DEF y

(* The channel of the call, whose GoClear is stored and sent. *)
LEMMA AskingFacts ==
    ASSUME NEW p \in Endpoints, NEW x \in ChannelContexts, ContextOK(x), x.state = "secure"
    PROVE  LET y == [x EXCEPT !.state = "sending_GoClear"]
               z == Sent(TimerOn([y EXCEPT !.goClear = GoClearBy(x)])) IN
           /\ GoClearBy(x) \in Messages
           /\ z \in ChannelContexts /\ ContextOK(z) /\ z.state = "sending_GoClear"
           /\ z.selfSeq > x.selfSeq /\ z.selfSeq >= x.selfSeq
           /\ Speaks(p, z, GoClearBy(x))
           /\ Own(p, x) => Own(p, z) /\ \A flight : Advances(x, z, flight)
<1> DEFINE y == [x EXCEPT !.state = "sending_GoClear"]
           u == [y EXCEPT !.goClear = GoClearBy(x)]
           v == TimerOn(u)
           z == Sent(v)
<1>1. GoClearBy(x) \in Messages /\ GoClearBy(x).value[1] = x.key /\ GoClearBy(x).type = "GoClear"
  BY DEF GoClearBy, Messages, Msg, ContextOK, ChannelContexts
<1>2. /\ y \in ChannelContexts /\ y.state = "sending_GoClear"
      /\ y.selfSeq = x.selfSeq /\ y.peerSeq = x.peerSeq /\ y.role = x.role /\ y.key = x.key
      /\ y.isSecure = x.isSecure /\ y.isClear = x.isClear
  BY DEF ChannelContexts, States
<1>3. x.peerSeq \in Nat /\ x.selfSeq \in Nat
  BY DEF ChannelContexts
<1> HIDE DEF y
<1>4. /\ u \in ChannelContexts /\ u.state = "sending_GoClear" /\ u.goClear = GoClearBy(x)
      /\ u.selfSeq = y.selfSeq /\ u.peerSeq = y.peerSeq /\ u.role = y.role /\ u.key = y.key
      /\ u.isSecure = y.isSecure /\ u.isClear = y.isClear
  BY <1>1, <1>2 DEF ChannelContexts
<1> HIDE DEF u
<1>5. v \in ChannelContexts /\ v.selfSeq = u.selfSeq /\ v.state = u.state /\ SameKeys(u, v)
  BY <1>4, TimerFacts
<1> HIDE DEF v
<1>6. z \in ChannelContexts /\ z.selfSeq = v.selfSeq + 1 /\ z.state = v.state /\ SameKeys(v, z)
  BY <1>5, SentFacts
<1> HIDE DEF z
<1>7. /\ z.state = "sending_GoClear" /\ z.goClear = GoClearBy(x) /\ z.peerSeq = x.peerSeq
      /\ z.role = x.role /\ z.key = x.key /\ z.isSecure = x.isSecure /\ z.isClear = x.isClear
  BY <1>2, <1>4, <1>5, <1>6 DEF SameKeys
<1>8. z.selfSeq > x.selfSeq /\ z.selfSeq >= x.selfSeq
  BY <1>2, <1>3, <1>4, <1>5, <1>6
<1>9. ContextOK(z)
  BY <1>6, <1>7 DEF ContextOK
<1>10. Speaks(p, z, GoClearBy(x))
  BY <1>1, <1>7 DEF Speaks
<1>11. Own(p, x) => Own(p, z)
  BY <1>7 DEF Own, Keyed, GoClearBy
<1>12. \A flight : Advances(x, z, flight)
  BY <1>3, <1>7 DEF Advances, Keyed, Done, Authenticated
<1> QED BY <1>1, <1>6, <1>7, <1>8, <1>9, <1>10, <1>11, <1>12 DEF y, u, v, z

(* After a call that not all channels can follow nobody is careful. *)
LEMMA AskedUnevenly ==
    ASSUME TypeInv, NEW p \in Endpoints, NEW c \in Channels, NEW state, Ask(p, c, state)
    PROVE  /\ uneven' \in Nat /\ (Careful' => Careful)
           /\ Careful' => \A d \in Channels : ch[p][d].state = state
<1>1. uneven \in Nat /\ uneven' \in {uneven, uneven + 1}
  BY DEF Ask, TypeInv, TypeOK
<1>2. uneven' # uneven + 1 => \A d \in Channels : ch[p][d].state = state
  BY <1>1 DEF Ask
<1> QED BY <1>1, <1>2 DEF Careful

(* bzrtp_sendGoClear. *)
LEMMA SendGoClearStep ==
    ASSUME TypeInv, NEW p \in Endpoints, NEW c \in Channels, SendGoClear(p, c)
    PROVE  TypeInv' /\ (Careful' /\ SessionInv => SessionInv')
<1> DEFINE m == GoClearBy(ch[p][c])
           y(d) == [ch[p][d] EXCEPT !.state = "sending_GoClear"]
           z == Sent(TimerOn([y(c) EXCEPT !.goClear = m]))
           all == [d \in Channels |-> IF d = c THEN z ELSE y(d)]
           s == OnChannel(c, {m})
<1>1. \A d \in Channels : /\ ch[p][d] \in ChannelContexts /\ ContextOK(ch[p][d])
                          /\ ch[p][d].selfSeq \in Nat
  BY DEF TypeInv, TypeOK, ChannelContexts
<1>2. /\ ch[p][c].state = "secure" /\ Answer(p, c, net, m)
      /\ Careful' => \A d \in Channels : ch[p][d].state = "secure"
      /\ late' = late /\ ZRTPSess' = ZRTPSess
  BY AskedUnevenly DEF SendGoClear, Ask, Answer
<1>3. {uneven', calls', firings', faults'} \subseteq Nat
  BY AskedUnevenly DEF SendGoClear, TypeInv, TypeOK
<1>4. ch' = [ch EXCEPT ![p] = all]
  <2>1. ch' = [ch EXCEPT ![p] = [[d \in Channels |-> y(d)] EXCEPT ![c] = z]]
    BY DEF SendGoClear, TypeInv, TypeOK
  <2>2. [[d \in Channels |-> y(d)] EXCEPT ![c] = z] = all
    OBVIOUS
  <2> QED BY <2>1, <2>2
<1>5. /\ m \in Messages
      /\ z \in ChannelContexts /\ ContextOK(z) /\ z.state = "sending_GoClear"
      /\ z.selfSeq > ch[p][c].selfSeq /\ z.selfSeq >= ch[p][c].selfSeq
      /\ Speaks(p, z, m)
      /\ Own(p, ch[p][c]) => Own(p, z) /\ \A flight : Advances(ch[p][c], z, flight)
  BY <1>1, <1>2, AskingFacts
<1>6. ASSUME NEW d \in Channels
      PROVE  /\ y(d) \in ChannelContexts /\ ContextOK(y(d)) /\ y(d).state = "sending_GoClear"
             /\ y(d).selfSeq >= ch[p][d].selfSeq
             /\ ch[p][d].state = "secure" /\ Own(p, ch[p][d]) =>
                   Own(p, y(d)) /\ \A flight : Advances(ch[p][d], y(d), flight)
  BY <1>1, AskedFacts
<1> HIDE DEF m, y, z
<1>7. ASSUME NEW d \in Channels
      PROVE  /\ all[d] \in ChannelContexts /\ ContextOK(all[d])
             /\ all[d].state = "sending_GoClear"
             /\ all[d].selfSeq >= ch[p][d].selfSeq
             /\ s[d] # {} => all[d].selfSeq > ch[p][d].selfSeq
             /\ \A n \in s[d] : Speaks(p, all[d], n)
             /\ ch[p][d].state = "secure" /\ Own(p, ch[p][d]) =>
                   Own(p, all[d]) /\ Advances(ch[p][d], all[d], Flight(p, d))
  <2>1. CASE d = c
    BY <1>5, <2>1 DEF OnChannel
  <2>2. CASE d # c
    BY <1>6, <2>2 DEF OnChannel
  <2> QED BY <2>1, <2>2
<1>8. all \in [Channels -> ChannelContexts]
  BY <1>5, <1>6
<1>9. Sending(p, s)
  BY <1>2, <1>3, <1>5, NetRemains, Answered
<1> HIDE DEF all, s
<1>10. ZRTPSess' \in [Endpoints -> Nat]
  BY <1>2 DEF TypeInv, TypeOK
<1>11. TypeInv' /\ ch'[p] = all /\ ch'[Other(p)] = ch[Other(p)]
  <2>1. Replaces(p, all, s)
    BY <1>4, <1>7, <1>8, <1>9, <1>10 DEF Replaces
  <2> QED BY <2>1, AllChannelsTyped
<1>12. ASSUME Careful', SessionInv PROVE SessionInv'
  <2>1. \A d \in Channels : ch[p][d].state = "secure" /\ Own(p, ch[p][d])
    BY <1>2, <1>12 DEF SessionInv, ChannelInv
  <2>2. InSession(p, s)
    BY <1>2, <1>7, <1>9, <1>11, <2>1 DEF InSession
  <2>3. Together(p)'
    BY <1>7, <1>11 DEF Together
  <2> QED BY <1>11, <1>12, <2>2, <2>3, InSessionStep
<1> QED BY <1>11, <1>12

(* bzrtp_backToSecureMode. *)
LEMMA BackToSecureModeStep ==
    ASSUME TypeInv, NEW p \in Endpoints, NEW c \in Channels, BackToSecureMode(p, c)
    PROVE  TypeInv' /\ (Careful' /\ SessionInv => SessionInv')
<1> DEFINE o == Other(p)
           y(d) == EnterSendingCommit(ch[p][d])
           m(d) == Commit(p, ch[p][d].commits + 1)
           k(d) == Packet(ch[p][d], m(d))
           all == [d \in Channels |-> y(d)]
           s == [d \in Channels |-> {m(d)}]
<1>0. o \in Endpoints /\ o # p
  BY OtherEnd
<1>1. \A d \in Channels : /\ ch[p][d] \in ChannelContexts /\ ContextOK(ch[p][d])
                          /\ ch[p][d].selfSeq \in Nat /\ ch[p][d].commits \in Nat
                          /\ ch[p][d].peerSeq \in Nat
  BY DEF TypeInv, TypeOK, ChannelContexts
<1>2. /\ Careful' => \A d \in Channels : ch[p][d].state = "clear"
      /\ late' = late /\ ZRTPSess' = ZRTPSess /\ ZRTPSess' \in [Endpoints -> Nat]
      /\ {uneven', calls', firings', faults'} \subseteq Nat
  BY AskedUnevenly DEF BackToSecureMode, TypeInv, TypeOK
<1>3. ch' = [ch EXCEPT ![p] = all]
  BY DEF BackToSecureMode, TypeInv, TypeOK
<1>4. ASSUME NEW d \in Channels
      PROVE  /\ y(d) \in ChannelContexts /\ ContextOK(y(d))
             /\ y(d).state = "sendingCommit" /\ y(d).role = ch[p][d].role
             /\ y(d).goClear = None
             /\ y(d).selfSeq > ch[p][d].selfSeq /\ y(d).selfSeq >= ch[p][d].selfSeq
             /\ y(d).peerSeq = ch[p][d].peerSeq
  BY <1>1, EnterSendingCommitFacts
<1>5. ASSUME NEW d \in Channels
      PROVE  /\ m(d) \in Messages /\ k(d) \in Packets
             /\ k(d).seq = ch[p][d].selfSeq /\ k(d).msg = m(d)
             /\ Speaks(p, y(d), m(d))
  <2>1. m(d) \in Messages /\ m(d).type = "Commit" /\ m(d).value.of = p
    BY <1>1, MessageTypes DEF Commit, Msg, Nonce
  <2> HIDE DEF m
  <2> QED BY <1>1, <1>4, <2>1 DEF Packet, Packets, Speaks
<1>6. net \in Networks /\ net' = [net EXCEPT ![o] = [d \in Channels |-> net[o][d] \cup {k(d)}]]
  BY <1>0 DEF BackToSecureMode, TypeInv, TypeOK, Networks
<1> HIDE DEF y, m, k, o
<1>7. Sending(p, s)
  <2>1. net' \in Networks
    BY <1>0, <1>5, <1>6 DEF Networks
  <2>2. /\ net'[p] = net[p]
        /\ \A d \in Channels : net'[o][d] = net[o][d] \cup {k(d)}
    BY <1>0, <1>6 DEF Networks
  <2>3. late' \in Networks
    BY <1>2 DEF TypeInv, TypeOK, Networks
  <2> QED BY <1>2, <1>5, <2>1, <2>2, <2>3 DEF Sending, Flight, o
<1>8. all \in [Channels -> ChannelContexts]
  BY <1>4
<1>9. \A d \in Channels : /\ all[d] = y(d) /\ s[d] = {m(d)}
  OBVIOUS
<1> HIDE DEF all, s
<1>10. TypeInv' /\ ch'[p] = all /\ ch'[Other(p)] = ch[Other(p)]
  <2>1. \A d \in Channels : /\ ContextOK(all[d])
                            /\ all[d].selfSeq >= ch[p][d].selfSeq
                            /\ s[d] # {} => all[d].selfSeq > ch[p][d].selfSeq
    BY <1>4, <1>9
  <2>2. ZRTPSess' \in [Endpoints -> Nat]
    BY <1>2 DEF TypeInv, TypeOK
  <2>3. Replaces(p, all, s)
    BY <1>3, <1>7, <1>8, <2>1, <2>2 DEF Replaces
  <2> QED BY <2>3, AllChannelsTyped
<1>11. ASSUME Careful', SessionInv PROVE SessionInv'
  <2>1. ASSUME NEW d \in Channels
        PROVE  Own(p, all[d]) /\ Advances(ch[p][d], all[d], Flight(p, d))
    <3>1. ch[p][d].state = "clear" /\ Own(p, ch[p][d])
      BY <1>2, <1>11 DEF SessionInv, ChannelInv
    <3>2. Own(p, y(d))
      BY <1>4, <3>1 DEF Own, Keyed
    <3>3. Advances(ch[p][d], y(d), Flight(p, d))
      BY <1>1, <1>4, <3>1 DEF Advances, Keyed, Done, Authenticated
    <3> QED BY <1>9, <3>2, <3>3
  <2>2. InSession(p, s)
    BY <1>2, <1>5, <1>7, <1>9, <1>10, <2>1 DEF InSession
  <2>3. Together(p)'
    BY <1>4, <1>9, <1>10 DEF Together
  <2> QED BY <1>10, <1>11, <2>2, <2>3, InSessionStep
<1> QED BY <1>10, <1>11

(* bzrtp_confirmGoClear. *)
LEMMA ConfirmGoClearStep ==
    ASSUME TypeInv, NEW p \in Endpoints, NEW c \in Channels, ConfirmGoClear(p, c)
    PROVE  TypeInv' /\ (SessionInv => SessionInv')
<1> DEFINE x == ch[p][c]
           u == [x EXCEPT !.firingCount = x.firingCount + 1]
           y == IF u.state = "clear" THEN TimerOff(u) ELSE u
<1>1. x \in ChannelContexts /\ ContextOK(x) /\ x.selfSeq \in Nat
  BY DEF TypeInv, TypeOK, ChannelContexts
<1>2. Update(p, c, y) /\ ZRTPSess' = ZRTPSess /\ net' = net /\ late' = late
      /\ {uneven', calls', firings', faults'} \subseteq Nat
  BY DEF ConfirmGoClear, Update, TypeInv, TypeOK
<1>3. /\ u \in ChannelContexts /\ u.selfSeq = x.selfSeq /\ u.state = x.state
      /\ u.role = x.role /\ u.key = x.key /\ u.isSecure = x.isSecure /\ u.isClear = x.isClear
      /\ u.goClear = x.goClear /\ u.peerSeq = x.peerSeq /\ u.timer = x.timer
  BY <1>1 DEF ChannelContexts
<1> HIDE DEF u
<1>4. /\ y \in ChannelContexts /\ y.timer \in {u.timer, "OFF"}
      /\ y.selfSeq = u.selfSeq /\ y.state = u.state /\ SameKeys(u, y)
  BY <1>3, TimerFacts DEF SameKeys
<1> HIDE DEF y
<1>5. ContextOK(y) /\ Stays(x, y)
  <2>1. ContextOK(y)
    BY <1>1, <1>3, <1>4 DEF ContextOK, SameKeys
  <2> QED BY <1>3, <1>4, <2>1 DEF Stays, SameKeys
<1>6. Advances(x, y, Flight(p, c)) /\ (SessionInv => Own(p, y))
  BY <1>1, <1>4, <1>5, StaysStep DEF SessionInv, ChannelInv
<1>7. Sending(p, OnChannel(c, {}))
  BY <1>2, NetRemains, Unanswered DEF Silent
<1> QED BY <1>1, <1>2, <1>3, <1>4, <1>5, <1>6, <1>7, OneChannelStep

(* A packet is sent again. *)
LEMMA RetransmitStep ==
    ASSUME TypeInv, NEW p \in Endpoints, NEW c \in Channels, Timer(p, c), Retransmit(p, c)
    PROVE  TypeInv' /\ (SessionInv => SessionInv')
<1> DEFINE x == ch[p][c]
           m == Retransmitted(p, c)
           count == x.firingCount + 1
           status == IF count <= MaxRetransmissions(x.state) THEN "ON" ELSE "OFF"
           u == [x EXCEPT !.firingCount = count, !.timer = status]
           y == Sent(u)
<1>1. /\ x \in ChannelContexts /\ ContextOK(x) /\ x.selfSeq \in Nat /\ x.firingCount \in Nat
      /\ x.commits \in Nat
  BY DEF TypeInv, TypeOK, ChannelContexts
<1>2. /\ Update(p, c, y) /\ ZRTPSess' = ZRTPSess /\ late' = late
      /\ {uneven', calls', firings', faults'} \subseteq Nat
      /\ x.timer = "ON" /\ m # None /\ Answer(p, c, net, m)
  BY DEF Timer, Retransmit, Update, Answer, TypeInv, TypeOK
<1>3. count \in Nat /\ status \in {"ON", "OFF"}
  BY <1>1
<1> HIDE DEF count, status
<1>4. /\ u \in ChannelContexts /\ u.selfSeq = x.selfSeq /\ u.state = x.state /\ u.timer = status
      /\ u.role = x.role /\ u.key = x.key /\ u.isSecure = x.isSecure /\ u.isClear = x.isClear
      /\ u.goClear = x.goClear /\ u.peerSeq = x.peerSeq
  BY <1>1, <1>3 DEF ChannelContexts
<1> HIDE DEF u
<1>5. /\ y \in ChannelContexts /\ y.selfSeq > u.selfSeq
      /\ y.state = u.state /\ y.timer = u.timer /\ SameKeys(u, y)
  BY <1>4, SentFacts
<1> HIDE DEF y
<1>6. ContextOK(y) /\ Stays(x, y) /\ y.selfSeq > x.selfSeq /\ y.selfSeq >= x.selfSeq
  <2>1. ContextOK(y)
    BY <1>1, <1>2, <1>4, <1>5 DEF ContextOK, SameKeys
  <2>2. Stays(x, y)
    BY <1>2, <1>3, <1>4, <1>5 DEF Stays, SameKeys
  <2>3. y.selfSeq \in Nat
    BY <1>5 DEF ChannelContexts
  <2> QED BY <1>1, <1>4, <1>5, <2>1, <2>2, <2>3
<1>7. Advances(x, y, Flight(p, c)) /\ (SessionInv => Own(p, y)) /\ y.state = x.state
  BY <1>1, <1>4, <1>5, <1>6, StaysStep DEF SessionInv, ChannelInv
<1>8. m \in Messages
  BY <1>1, <1>2, MessageTypes DEF Retransmitted, ContextOK, ChannelContexts
<1>9. SessionInv => Speaks(p, y, m)
  <2>1. SUFFICES ASSUME SessionInv PROVE Speaks(p, y, m)
    OBVIOUS
  <2>2. Own(p, x) /\ y.state = x.state /\ y.key = x.key
    BY <1>4, <1>5, <2>1 DEF SessionInv, ChannelInv, SameKeys
  <2>3. CASE x.state = "sendingCommit"
    BY <2>2, <2>3 DEF Speaks, Retransmitted, Commit, Msg, Nonce
  <2>4. CASE x.state = "sendingConfirm2"
    BY <2>2, <2>4 DEF Speaks, Retransmitted, Msg
  <2>5. CASE x.state = "sending_GoClear"
    <3>1. m = GoClearBy(x)
      BY <1>2, <2>2, <2>5 DEF Retransmitted, Own
    <3> QED BY <2>2, <2>5, <3>1 DEF Speaks, GoClearBy, Msg
  <2>6. CASE x.state = "clear"
    BY <2>2, <2>6 DEF Speaks, Retransmitted, ClearACK, Msg
  <2> QED BY <1>2, <2>3, <2>4, <2>5, <2>6 DEF Retransmitted
<1>10. Sending(p, OnChannel(c, {m}))
  BY <1>2, <1>8, NetRemains, Answered
<1> HIDE DEF m
<1> QED BY <1>2, <1>6, <1>7, <1>9, <1>10, OneChannelStep

(* Two ends in step have a GoClear to send again. *)
LEMMA NotMissing ==
    ASSUME TypeInv, SessionInv, NEW p \in Endpoints, NEW c \in Channels
    PROVE  ~GoClearMissing(ch[p][c])
<1>1. SUFFICES ASSUME ch[p][c].state = "sending_GoClear", ch[p][c].timer = "ON"
               PROVE  ch[p][c].goClear # None
  BY DEF GoClearMissing
<1>2. Own(p, ch[p][c])
  BY DEF SessionInv, ChannelInv
<1>3. ch[p][c].key \in Keys /\ ch[p][c].role \in Roles
  BY <1>1, <1>2 DEF TypeInv, TypeOK, ChannelContexts, Own, Keyed
<1>4. GoClearBy(ch[p][c]) \in Messages
  BY <1>3 DEF GoClearBy, Msg, Messages
<1> QED BY <1>1, <1>2, <1>4, NoneAssumption DEF Own

(* A channel of a process that has ended. *)
LEMMA CrashedFacts ==
    ASSUME NEW x \in ChannelContexts, ContextOK(x)
    PROVE  LET y == [TimerOff(x) EXCEPT !.state = "crashed"] IN
           /\ y \in ChannelContexts /\ ContextOK(y) /\ y.state = "crashed"
           /\ y.selfSeq = x.selfSeq
<1> DEFINE t == TimerOff(x)
           y == [t EXCEPT !.state = "crashed"]
<1>1. t \in ChannelContexts /\ t.selfSeq = x.selfSeq /\ t.timer = "OFF" /\ SameKeys(x, t)
  BY TimerFacts
<1> HIDE DEF t
<1>2. /\ y \in ChannelContexts /\ y.state = "crashed" /\ y.selfSeq = t.selfSeq
      /\ y.timer = t.timer /\ y.key = t.key
      /\ y.isSecure = t.isSecure /\ y.isClear = t.isClear
  BY <1>1 DEF ChannelContexts, States
<1> HIDE DEF y
<1>3. ContextOK(y)
  BY <1>1, <1>2 DEF ContextOK, SameKeys
<1> QED BY <1>1, <1>2, <1>3 DEF y, t

(* There is no packet to send again. *)
LEMMA CrashStep ==
    ASSUME TypeInv, NEW p \in Endpoints, NEW c \in Channels, Timer(p, c), Crash(p, c)
    PROVE  TypeInv' /\ (SessionInv => SessionInv')
<1> DEFINE y(d) == [TimerOff(ch[p][d]) EXCEPT !.state = "crashed"]
           all == [d \in Channels |-> y(d)]
           s == OnChannel(c, {})
<1>1. \A d \in Channels : /\ ch[p][d] \in ChannelContexts /\ ContextOK(ch[p][d])
                          /\ ch[p][d].selfSeq \in Nat
  BY DEF TypeInv, TypeOK, ChannelContexts
<1>2. /\ ch' = [ch EXCEPT ![p] = all] /\ net' = net /\ late' = late
      /\ ZRTPSess' \in [Endpoints -> Nat] /\ {uneven', calls', firings', faults'} \subseteq Nat
  BY DEF Timer, Crash, TypeInv, TypeOK
<1>3. \A d \in Channels : /\ y(d) \in ChannelContexts /\ ContextOK(y(d))
                          /\ y(d).selfSeq = ch[p][d].selfSeq
  BY <1>1, CrashedFacts
<1>4. Sending(p, s) /\ \A d \in Channels : s[d] = {}
  BY <1>2, NetRemains, Unanswered DEF Silent, OnChannel
<1> HIDE DEF y, s
<1>5. Replaces(p, all, s)
  BY <1>1, <1>2, <1>3, <1>4 DEF Replaces
<1>6. TypeInv'
  BY <1>5, AllChannelsTyped
<1> QED BY <1>6, NotMissing DEF Crash

(* bzrtp_iterate. *)
LEMMA TimerStep ==
    ASSUME TypeInv, NEW p \in Endpoints, NEW c \in Channels, Timer(p, c)
    PROVE  TypeInv' /\ (SessionInv => SessionInv')
BY RetransmitStep, CrashStep DEF Timer

(* A packet arrives in order, or late. *)
LEMMA Delivered ==
    ASSUME TypeInv, NEW p \in Endpoints, NEW c \in Channels, NEW k,
           \/ k \in net[p][c] /\ Deliver(p, c, k)
           \/ k \in late[p][c] /\ DeliverLate(p, c, k)
    PROVE  k \in Flight(p, c) /\ \E rest : Remains(rest) /\ ProcessMessage(p, c, k, rest)
<1>0. net \in Networks /\ late \in Networks /\ {uneven, calls, firings, faults} \subseteq Nat
  BY DEF TypeInv, TypeOK, Networks
<1>1. CASE k \in net[p][c] /\ Deliver(p, c, k)
  <2> DEFINE rest == [net EXCEPT ![p][c] = @ \ {k}]
  <2>1. ProcessMessage(p, c, k, rest) /\ late' = late /\ {uneven', calls', firings', faults'} \subseteq Nat
    BY <1>0, <1>1 DEF Deliver
  <2>2. rest \in Networks /\ \A q \in Endpoints, d \in Channels : rest[q][d] \subseteq net[q][d]
    BY <1>0 DEF Networks
  <2> HIDE DEF rest
  <2>3. Remains(rest) /\ k \in Flight(p, c)
    BY <1>0, <1>1, <2>1, <2>2 DEF Remains, Flight
  <2> QED BY <2>1, <2>3
<1>2. CASE k \in late[p][c] /\ DeliverLate(p, c, k)
  <2>1. /\ ProcessMessage(p, c, k, net) /\ {uneven', calls', firings', faults'} \subseteq Nat
        /\ late' = [late EXCEPT ![p][c] = @ \ {k}]
    BY <1>0, <1>2 DEF DeliverLate
  <2>2. late' \in Networks /\ \A q \in Endpoints, d \in Channels : late'[q][d] \subseteq late[q][d]
    BY <1>0, <2>1 DEF Networks
  <2>3. Remains(net) /\ k \in Flight(p, c)
    BY <1>0, <1>2, <2>1, <2>2 DEF Remains, Flight
  <2> QED BY <2>1, <2>3
<1> QED BY <1>1, <1>2

(* It is processed. *)
LEMMA DeliverStep ==
    ASSUME TypeInv, NEW p \in Endpoints, NEW c \in Channels, NEW k,
           \/ k \in net[p][c] /\ Deliver(p, c, k)
           \/ k \in late[p][c] /\ DeliverLate(p, c, k)
    PROVE  TypeInv' /\ (SessionInv => SessionInv')
BY Delivered, ProcessMessageStep

(* The network holds a packet back, or a copy of it. *)
LEMMA HoldStep ==
    ASSUME TypeInv, NEW p \in Endpoints, NEW c \in Channels, NEW k \in net[p][c],
           NEW rest \in SUBSET net[p][c], Hold(p, c, k, rest)
    PROVE  TypeInv' /\ (SessionInv => SessionInv')
<1>0. /\ net \in Networks /\ late \in Networks /\ {uneven', calls', firings', faults'} \subseteq Nat
      /\ Other(p) \in Endpoints /\ Other(p) # p
  BY OtherEnd DEF TypeInv, TypeOK, Networks, Hold
<1>1. /\ late' = [late EXCEPT ![p][c] = @ \cup {k}] /\ net' = [net EXCEPT ![p][c] = rest]
      /\ ch' = ch /\ ZRTPSess' = ZRTPSess
  BY DEF Hold
<1>2. net' \in Networks /\ late' \in Networks
  BY <1>0, <1>1 DEF Networks
<1>3. ASSUME NEW d \in Channels
      PROVE  Flight(p, d)' \subseteq Flight(p, d) /\ Flight(Other(p), d)' = Flight(Other(p), d)
  <2>1. net'[p][d] \subseteq net[p][d] /\ late'[p][d] \subseteq late[p][d] \cup net[p][d]
    BY <1>0, <1>1 DEF Networks
  <2>2. net'[Other(p)] = net[Other(p)] /\ late'[Other(p)] = late[Other(p)]
    BY <1>0, <1>1 DEF Networks
  <2> QED BY <2>1, <2>2 DEF Flight
<1>4. Sending(p, OnChannel(c, {}))
  BY <1>0, <1>2, <1>3 DEF Sending
<1>5. Update(p, c, ch[p][c]) /\ ContextOK(ch[p][c]) /\ ch[p][c].selfSeq \in Nat
  BY <1>1 DEF Update, TypeInv, TypeOK, ChannelContexts
<1>6. Advances(ch[p][c], ch[p][c], Flight(p, c)) /\ (SessionInv => Own(p, ch[p][c]))
  BY Unchanged DEF SessionInv, ChannelInv
<1> QED BY <1>1, <1>4, <1>5, <1>6, OneChannelStep

(* Every step keeps the types, and those of a careful application keep the *)
(* two ends in step.                                                       *)
LEMMA NextStep ==
    ASSUME TypeInv, Next
    PROVE  TypeInv' /\ (Careful' => Careful) /\ (Careful' /\ SessionInv => SessionInv')
<1>1. PICK p \in Endpoints, c \in Channels :
         \/ SendGoClear(p, c)
         \/ ConfirmGoClear(p, c)
         \/ BackToSecureMode(p, c)
         \/ Timer(p, c)
         \/ Receive(p, c)
         \/ \E k \in net[p][c] : Hold(p, c, k, net[p][c] \ {k}) \/ Hold(p, c, k, net[p][c])
         \/ \E k \in late[p][c] : DeliverLate(p, c, k)
  BY DEF Next
<1>2. CASE SendGoClear(p, c)
  BY <1>2, SendGoClearStep, AskedUnevenly DEF SendGoClear
<1>3. CASE ConfirmGoClear(p, c)
  BY <1>3, ConfirmGoClearStep DEF ConfirmGoClear, Careful
<1>4. CASE BackToSecureMode(p, c)
  BY <1>4, BackToSecureModeStep, AskedUnevenly DEF BackToSecureMode
<1>5. CASE Timer(p, c)
  BY <1>5, TimerStep DEF Timer, Careful
<1>6. CASE Receive(p, c)
  BY <1>6, DeliverStep DEF Receive, Deliver, Careful
<1>7. CASE \E k \in net[p][c] : Hold(p, c, k, net[p][c] \ {k}) \/ Hold(p, c, k, net[p][c])
  <2>1. PICK k \in net[p][c] : Hold(p, c, k, net[p][c] \ {k}) \/ Hold(p, c, k, net[p][c])
    BY <1>7
  <2>2. net[p][c] \ {k} \in SUBSET net[p][c] /\ net[p][c] \in SUBSET net[p][c]
    OBVIOUS
  <2> QED BY <2>1, <2>2, HoldStep DEF Hold, Careful
<1>8. CASE \E k \in late[p][c] : DeliverLate(p, c, k)
  BY <1>8, DeliverStep DEF DeliverLate, Careful
<1> QED BY <1>1, <1>2, <1>3, <1>4, <1>5, <1>6, <1>7, <1>8

(* A context x of p at first: its keys come from a Commit of i. *)
AtFirst(p, i, x) ==
    /\ x \in ChannelContexts /\ x.state = "secure" /\ x.timer = "OFF"
    /\ x.key = Key(0, Nonce(i, 0)) /\ x.key \in Keys /\ x.key # None
    /\ x.key.sess = 0 /\ x.key.nonce.of = i
    /\ x.isClear = FALSE /\ x.goClear = None
    /\ x.role = "INITIATOR" <=> i = p

(* The contexts of Init are such. *)
LEMMA SecureChannelFacts ==
    ASSUME NEW p \in Endpoints, NEW i \in Endpoints
    PROVE  AtFirst(p, i, SecureChannel(p, i))
<1> DEFINE key == Key(0, Nonce(i, 0))
<1>1. key \in Keys /\ key # None /\ key.sess = 0 /\ key.nonce.of = i
  BY NoneAssumption DEF Key, Keys, Nonce, Nonces
<1> HIDE DEF key
<1> QED BY <1>1 DEF AtFirst, SecureChannel, ChannelContexts, States, Roles, key

(* At first the channels are secure and nothing is in flight. *)
LEMMA InitInv ==
    ASSUME Init
    PROVE  TypeInv /\ SessionInv
<1>1. PICK r \in [Channels -> Endpoints] :
         ch = [p \in Endpoints |-> [c \in Channels |-> SecureChannel(p, r[c])]]
  BY DEF Init
<1>2. \A p \in Endpoints, c \in Channels : ch[p][c] = SecureChannel(p, r[c])
  BY <1>1
<1>3. \A p \in Endpoints, c \in Channels : AtFirst(p, r[c], ch[p][c])
  BY <1>2, SecureChannelFacts
<1>4. /\ ZRTPSess \in [Endpoints -> Nat] /\ \A p \in Endpoints : ZRTPSess[p] = 0
      /\ net \in Networks /\ late \in Networks
      /\ \A p \in Endpoints, c \in Channels : Flight(p, c) = {}
      /\ {uneven, calls, firings, faults} \subseteq Nat
  BY DEF Init, Networks, Flight
<1>5. TypeInv
  <2>1. ch \in [Endpoints -> [Channels -> ChannelContexts]]
    BY <1>1, <1>2, <1>3 DEF AtFirst
  <2>2. \A p \in Endpoints, c \in Channels : ContextOK(ch[p][c])
    BY <1>3 DEF ContextOK, AtFirst
  <2> QED BY <1>4, <2>1, <2>2 DEF TypeInv, TypeOK, Networks, Flight
<1>6. ASSUME NEW p \in Endpoints
      PROVE  /\ Together(p)
             /\ Ahead(p, Other(p))
             /\ \A c \in Channels : ChannelInv(p, Other(p), c)
  <2>0. Other(p) \in Endpoints
    BY OtherEnd
  <2>1. Together(p) /\ Ahead(p, Other(p))
    BY <1>3, <1>4, <2>0 DEF Together, Ahead, AtFirst
  <2>2. ASSUME NEW c \in Channels PROVE ChannelInv(p, Other(p), c)
    <3>1. Own(p, ch[p][c])
      BY <1>3, <1>4 DEF Own, Keyed, AtFirst
    <3>2. Paired(p, Other(p), ch[p][c], ch[Other(p)][c])
      BY <1>3, <2>0 DEF Paired, Keyed, Done, AtFirst
    <3> QED BY <1>4, <3>1, <3>2 DEF ChannelInv, NothingAfter, AcksRecent
  <2> QED BY <2>1, <2>2
<1> QED BY <1>5, <1>6 DEF SessionInv

(* The types, and that a channel is secure only with keys, clear only      *)
(* without: in every behaviour.                                            *)
LEMMA TypesHold == Spec => []TypeInv
<1>1. Init => TypeInv
  BY InitInv
<1>2. TypeInv /\ [Next]_vars => TypeInv'
  <2>1. ASSUME TypeInv, UNCHANGED vars PROVE TypeInv'
    BY <2>1 DEF TypeInv, TypeOK, vars
  <2> QED BY <2>1, NextStep
<1> QED BY <1>1, <1>2, PTL DEF Spec

(* The invariant of careful applications, in every behaviour. *)
LEMMA InStepHolds == Spec => [](Careful => SessionInv)
<1>1. Init => SessionInv
  BY InitInv
<1>2. TypeInv /\ (Careful => SessionInv) /\ [Next]_vars => (Careful => SessionInv)'
  <2>1. ASSUME Careful => SessionInv, UNCHANGED vars PROVE (Careful => SessionInv)'
    BY <2>1 DEF SessionInv, Together, Ahead, ChannelInv, Own, SentBy, NothingAfter,
                AcksRecent, Paired, Flight, Careful, vars
  <2> QED BY <2>1, NextStep
<1> QED BY <1>1, <1>2, TypesHold, PTL DEF Spec

-----------------------------------------------------------------------------
(* The channel contexts and the network keep their types, whatever the     *)
(* application does, and a packet in flight has a number its sender has    *)
(* used up.                                                                *)
THEOREM Types == Spec => []TypeOK
<1>1. TypeInv => TypeOK
  BY DEF TypeInv
<1> QED BY <1>1, TypesHold, PTL

(* bzrtp_getChannelStatus reports a channel as secure only with keys, and  *)
(* as clear only when they are destroyed, whatever the application does.   *)
THEOREM StatusTold == Spec => []StatusTellsKeys
<1>1. TypeInv => StatusTellsKeys
  BY DEF TypeInv, ContextOK, StatusTellsKeys, ChannelStatus
<1> QED BY <1>1, TypesHold, PTL

(* With careful applications no lost, delayed or repeated packet of this   *)
(* or an earlier round puts the ZRTPSess of the two ends out of step.      *)
THEOREM InStep == Spec => []SessionsInStep
<1>1. (Careful => SessionInv) => SessionsInStep
  <2>1. SUFFICES ASSUME SessionInv, NEW p \in Endpoints, ZRTPSess[p] < ZRTPSess[Other(p)]
                 PROVE  /\ ZRTPSess[Other(p)] = ZRTPSess[p] + 1
                        /\ \A c \in Channels : ch[p][c].state = "sending_GoClear"
    BY DEF SessionsInStep
  <2>2. Ahead(Other(p), p)
    BY <2>1, OtherEnd DEF SessionInv
  <2> QED BY <2>1, <2>2 DEF Ahead
<1> QED BY <1>1, InStepHolds, PTL

(* With careful applications two ends that are both secure have the same   *)
(* keys of their present session, one as initiator, one as responder.      *)
THEOREM Alike == Spec => []SecureAlike
<1>1. TypeInv /\ (Careful => SessionInv) => SecureAlike
  <2>1. SUFFICES ASSUME TypeInv, SessionInv, NEW c \in Channels,
                        \A p \in Endpoints : ch[p][c].state = "secure"
                 PROVE  /\ ch[A][c].key = ch[B][c].key
                        /\ ch[A][c].role # ch[B][c].role
                        /\ \A p \in Endpoints : ch[p][c].key.sess = ZRTPSess[p]
    BY DEF SecureAlike
  <2>2. A \in Endpoints /\ B \in Endpoints /\ Other(A) = B /\ Other(B) = A /\ A # B
    BY GoClearAssumption DEF Endpoints, Other
  <2>3. \A p \in Endpoints : Own(p, ch[p][c]) /\ Ahead(p, Other(p))
    BY <2>1 DEF SessionInv, ChannelInv
  <2>4. ZRTPSess[A] = ZRTPSess[B]
    <3>1. ZRTPSess[A] \in Nat /\ ZRTPSess[B] \in Nat
      BY <2>1, <2>2 DEF TypeInv, TypeOK
    <3> QED BY <2>1, <2>2, <2>3, <3>1 DEF Ahead
  <2>5. ch[B][c].key = ch[A][c].key
    BY <2>1, <2>2, <2>4 DEF SessionInv, ChannelInv, Paired, Authenticated, Done
  <2>6. \A p \in Endpoints : /\ ch[p][c].key.sess = ZRTPSess[p]
                             /\ ch[p][c].role = "INITIATOR" <=> ch[p][c].key.nonce.of = p
    BY <2>1, <2>3 DEF Own, Keyed
  <2>7. (ch[A][c].role = "INITIATOR" <=> ch[A][c].key.nonce.of = A)
        /\ (ch[B][c].role = "INITIATOR" <=> ch[A][c].key.nonce.of = B)
    BY <2>2, <2>5, <2>6
  <2>8. ch[A][c].key.nonce.of \in {A, B}
    <3>1. ch[A][c].key \in Keys
      BY <2>1, <2>2 DEF TypeInv, TypeOK, ContextOK, ChannelContexts
    <3> QED BY <3>1 DEF Keys, Nonces, Endpoints
  <2>9. ch[A][c].role \in Roles /\ ch[B][c].role \in Roles
    BY <2>1, <2>2 DEF TypeInv, TypeOK, ChannelContexts
  <2> QED BY <2>2, <2>5, <2>6, <2>7, <2>8, <2>9 DEF Roles
<1> QED BY <1>1, TypesHold, InStepHolds, PTL
-----------------------------------------------------------------------------
(* What leaves a channel without the GoClear it is to send again.          *)

(* A step that does not bring a channel to state_sending_GoClear, nor      *)
(* starts the timer or takes the GoClear away there.                       *)
Quiet(x, y) ==
    y.state = "sending_GoClear" =>
        /\ x.state = "sending_GoClear" /\ y.goClear = x.goClear
        /\ y.timer \in {x.timer, "OFF"}

AllQuiet == \A p \in Endpoints, c \in Channels : Quiet(ch[p][c], ch'[p][c])

(* A step that changes one context. *)
LEMMA OneChannelQuiet ==
    ASSUME TypeInv, NEW p \in Endpoints, NEW c \in Channels, NEW new, Update(p, c, new),
           Quiet(ch[p][c], new)
    PROVE  AllQuiet
<1>1. /\ ch'[p][c] = new
      /\ \A q \in Endpoints, d \in Channels : <<q, d>> # <<p, c>> => ch'[q][d] = ch[q][d]
  BY DEF Update, TypeInv, TypeOK
<1> QED BY <1>1 DEF AllQuiet, Quiet

(* A step that changes all the contexts of an end. *)
LEMMA AllChannelsQuiet ==
    ASSUME TypeInv, NEW p \in Endpoints, NEW new, ch' = [ch EXCEPT ![p] = new],
           \A d \in Channels : new[d].state # "sending_GoClear"
    PROVE  AllQuiet
<1>1. ch'[p] = new /\ \A q \in Endpoints \ {p} : ch'[q] = ch[q]
  BY DEF TypeInv, TypeOK
<1> QED BY <1>1 DEF AllQuiet, Quiet

(* A packet that is taken. *)
LEMMA HandleQuiet ==
    ASSUME TypeInv, NEW p \in Endpoints, NEW c \in Channels, NEW k, NEW rest,
           Taken(p, c, k, rest), Handle(p, c, k, rest)
    PROVE  AllQuiet
<1> DEFINE x == ch[p][c]
           y == SetPeerSeq(x, k)
           z == Sent(y)
<1>1. /\ k \in Packets /\ k.msg \in Messages /\ k.seq > x.peerSeq
      /\ x \in ChannelContexts /\ ContextOK(x) /\ ZRTPSess[p] \in Nat
      /\ \A d \in Channels : ch[p][d] \in ChannelContexts
  BY TakenTypes DEF TypeInv, TypeOK
<1>2. /\ y \in ChannelContexts /\ z \in ChannelContexts /\ Stays(x, y) /\ Stays(x, z)
      /\ y.state = x.state /\ y.isClear = x.isClear
  BY <1>1, TakenOver
<1>3. Quiet(x, y) /\ Quiet(x, z)
  BY <1>2 DEF Quiet, Stays
<1>4. CASE Update(p, c, y) \/ Update(p, c, z)
  BY <1>3, <1>4, OneChannelQuiet
<1>5. CASE SecureGoClear(p, c, k, rest)
  <2> DEFINE u(d) == IF d = c THEN TimerOn(Sent(ch[p][d])) ELSE ch[p][d]
             all == [d \in Channels |-> EnterClear(u(d))]
  <2>1. ch' = [ch EXCEPT ![p] = all]
    BY <1>5 DEF SecureGoClear, TypeInv, TypeOK
  <2>2. \A d \in Channels : u(d) \in ChannelContexts
    BY <1>1, SentFacts, TimerFacts
  <2> HIDE DEF u
  <2>3. \A d \in Channels : all[d].state = "clear"
    BY <2>2, EnterClearFacts
  <2> QED BY <2>1, <2>3, AllChannelsQuiet
<1>6. CASE SendingGoClearClearACK(p, c, k, rest)
  <2> DEFINE u(d) == IF d = c THEN TimerOff(ch[p][d]) ELSE ch[p][d]
             all == [d \in Channels |-> EnterClear(u(d))]
  <2>1. ch' = [ch EXCEPT ![p] = all]
    BY <1>6 DEF SendingGoClearClearACK, TypeInv, TypeOK
  <2>2. \A d \in Channels : u(d) \in ChannelContexts
    BY <1>1, TimerFacts
  <2> HIDE DEF u
  <2>3. \A d \in Channels : all[d].state = "clear"
    BY <2>2, EnterClearFacts
  <2> QED BY <2>1, <2>3, AllChannelsQuiet
<1>7. CASE ClearCommit(p, c, k, rest)
  <2> DEFINE u == [y EXCEPT !.goClear = None, !.isClear = FALSE]
             v == TurnIntoResponder(u, ZRTPSess[p], k.msg)
  <2>1. Update(p, c, v) /\ k.msg.type = "Commit"
    BY <1>7 DEF ClearCommit
  <2>2. u \in ChannelContexts /\ u.isClear = FALSE
    BY <1>2 DEF ChannelContexts
  <2> HIDE DEF u
  <2>3. v.state = "sendingConfirm1"
    BY <1>1, <2>1, <2>2, TurnIntoResponderFacts
  <2> QED BY <2>1, <2>3, OneChannelQuiet DEF Quiet
<1>8. CASE Update(p, c, TurnIntoResponder(y, ZRTPSess[p], k.msg)) /\ CommitCommit(p, c, k, rest)
  <2>1. y.isClear = FALSE /\ k.msg.type = "Commit"
    BY <1>1, <1>2, <1>8 DEF CommitCommit, ContextOK, ChannelContexts
  <2> HIDE DEF y
  <2>2. TurnIntoResponder(y, ZRTPSess[p], k.msg).state = "sendingConfirm1"
    BY <1>1, <1>2, <2>1, TurnIntoResponderFacts
  <2> QED BY <1>8, <2>2, OneChannelQuiet DEF Quiet
<1>9. CASE CommitConfirm1(p, c, k, rest)
  <2> DEFINE key == OwnKey(p, c)
             u == EnterSendingConfirm2(y, key)
             v == [x EXCEPT !.key = key]
  <2>1. key \in Keys
    BY <1>1 DEF OwnKey, Key, Keys, Nonce, Nonces, ChannelContexts
  <2>2. y.isClear = FALSE /\ x.state = "sendingCommit"
    BY <1>1, <1>2, <1>9 DEF CommitConfirm1, ContextOK, ChannelContexts
  <2>3. Update(p, c, u) \/ Update(p, c, v)
    BY <1>9 DEF CommitConfirm1
  <2> HIDE DEF y, key
  <2>4. u.state = "sendingConfirm2"
    BY <1>2, <2>1, <2>2, EnterSendingConfirm2Facts
  <2>5. v.state = "sendingCommit"
    BY <1>1, <2>2 DEF ChannelContexts
  <2> HIDE DEF u, v
  <2> QED BY <2>3, <2>4, <2>5, OneChannelQuiet DEF Quiet
<1>10. CASE Update(p, c, EnterSecure(z)) \/ Update(p, c, EnterSecure(x))
  <2> HIDE DEF z
  <2>1. EnterSecure(z).state = "secure" /\ EnterSecure(x).state = "secure"
    BY <1>1, <1>2, EnterSecureFacts
  <2> QED BY <1>10, <2>1, OneChannelQuiet DEF Quiet
<1>11. CASE SendingGoClearGoClear(p, c, k, rest) \/ RepeatedCommit(p, c, k, rest)
  BY <1>4, <1>11 DEF SendingGoClearGoClear, RepeatedCommit
<1>12. CASE CommitCommit(p, c, k, rest)
  BY <1>4, <1>8, <1>12 DEF CommitCommit
<1>13. CASE Confirm2(p, c, k, rest)
  BY <1>4, <1>10, <1>13 DEF Confirm2
<1>14. CASE AfterConfirm2(p, c, k, rest)
  BY <1>4, <1>10, <1>14 DEF AfterConfirm2
<1> QED BY <1>5, <1>6, <1>7, <1>9, <1>11, <1>12, <1>13, <1>14 DEF Handle

(* Whatever packet arrives. *)
LEMMA ProcessMessageQuiet ==
    ASSUME TypeInv, NEW p \in Endpoints, NEW c \in Channels, NEW k \in Flight(p, c),
           NEW rest, Remains(rest), ProcessMessage(p, c, k, rest)
    PROVE  AllQuiet
<1>1. CASE Taken(p, c, k, rest)
  BY <1>1, HandleQuiet DEF ProcessMessage, Taken
<1>2. CASE ~Taken(p, c, k, rest)
  BY <1>2 DEF ProcessMessage, Taken, AllQuiet, Quiet
<1> QED BY <1>1, <1>2

(* bzrtp_iterate. *)
LEMMA TimerQuiet ==
    ASSUME TypeInv, NEW p \in Endpoints, NEW c \in Channels, Timer(p, c)
    PROVE  AllQuiet
<1> DEFINE x == ch[p][c]
           count == x.firingCount + 1
           status == IF count <= MaxRetransmissions(x.state) THEN "ON" ELSE "OFF"
           u == [x EXCEPT !.firingCount = count, !.timer = status]
<1>1. \A d \in Channels : ch[p][d] \in ChannelContexts
  BY DEF TypeInv, TypeOK
<1>2. CASE Retransmit(p, c)
  <2>1. Update(p, c, Sent(u)) /\ x.timer = "ON"
    BY <1>2 DEF Timer, Retransmit, Update
  <2>2. count \in Nat /\ status \in {"ON", "OFF"}
    BY <1>1 DEF ChannelContexts
  <2> HIDE DEF count, status
  <2>3. /\ u \in ChannelContexts /\ u.state = x.state /\ u.goClear = x.goClear
        /\ u.timer = status
    BY <1>1, <2>2 DEF ChannelContexts
  <2> HIDE DEF u
  <2>4. Quiet(x, Sent(u))
    BY <2>1, <2>2, <2>3, SentFacts DEF Quiet, SameKeys
  <2> QED BY <2>1, <2>4, OneChannelQuiet
<1>3. CASE Crash(p, c)
  <2> DEFINE y(d) == [TimerOff(ch[p][d]) EXCEPT !.state = "crashed"]
             all == [d \in Channels |-> y(d)]
  <2>1. ch' = [ch EXCEPT ![p] = all]
    BY <1>3 DEF Crash, TypeInv, TypeOK
  <2>2. \A d \in Channels : y(d).state = "crashed"
    BY <1>1, CrashedFacts DEF TypeInv
  <2> HIDE DEF y
  <2>3. \A d \in Channels : all[d].state # "sending_GoClear"
    BY <2>2
  <2> HIDE DEF all
  <2> QED BY <2>1, <2>3, AllChannelsQuiet
<1> QED BY <1>2, <1>3 DEF Timer

(* bzrtp_confirmGoClear and bzrtp_backToSecureMode. *)
LEMMA CallsQuiet ==
    ASSUME TypeInv, NEW p \in Endpoints, NEW c \in Channels,
           ConfirmGoClear(p, c) \/ BackToSecureMode(p, c)
    PROVE  AllQuiet
<1> DEFINE x == ch[p][c]
           u == [x EXCEPT !.firingCount = x.firingCount + 1]
           y == IF u.state = "clear" THEN TimerOff(u) ELSE u
<1>1. \A d \in Channels : ch[p][d] \in ChannelContexts /\ ContextOK(ch[p][d])
  BY DEF TypeInv, TypeOK
<1>2. CASE ConfirmGoClear(p, c)
  <2>1. Update(p, c, y)
    BY <1>2 DEF ConfirmGoClear, Update, TypeInv, TypeOK
  <2>2. /\ u \in ChannelContexts /\ u.state = x.state /\ u.goClear = x.goClear
        /\ u.timer = x.timer
    BY <1>1 DEF ChannelContexts
  <2> HIDE DEF u
  <2>3. Quiet(x, y)
    BY <2>2, TimerFacts DEF Quiet
  <2> QED BY <2>1, <2>3, OneChannelQuiet
<1>3. CASE BackToSecureMode(p, c)
  <2> DEFINE all == [d \in Channels |-> EnterSendingCommit(ch[p][d])]
  <2>1. ch' = [ch EXCEPT ![p] = all]
    BY <1>3 DEF BackToSecureMode, TypeInv, TypeOK
  <2>2. \A d \in Channels : all[d].state = "sendingCommit"
    BY <1>1, EnterSendingCommitFacts
  <2> QED BY <2>1, <2>2, AllChannelsQuiet
<1> QED BY <1>2, <1>3

(* p asks for clear mode on channel c and may leave others, that are not   *)
(* secure, without a GoClear.                                              *)
Uneven(p, c) ==
    /\ ch[p][c].state \in {"clear", "sendingCommit", "sendingConfirm2"}
    /\ \E d \in Channels : ch[p][d].state = "secure" /\ ch'[p][d].goClear # None

(* bzrtp_sendGoClear. *)
LEMMA SendGoClearMissing ==
    ASSUME TypeInv, NEW p \in Endpoints, NEW c \in Channels, SendGoClear(p, c),
           NEW q \in Endpoints, NEW d \in Channels,
           ~GoClearMissing(ch[q][d]), GoClearMissing(ch'[q][d])
    PROVE  Uneven(q, d)
<1> DEFINE x == ch[p][c]
           m == GoClearBy(x)
           y(e) == [ch[p][e] EXCEPT !.state = "sending_GoClear"]
           u == [y(c) EXCEPT !.goClear = m]
           z == Sent(TimerOn(u))
           all == [[e \in Channels |-> y(e)] EXCEPT ![c] = z]
<1>1. \A e \in Channels : ch[p][e] \in ChannelContexts /\ ContextOK(ch[p][e])
  BY DEF TypeInv, TypeOK
<1>2. ch' = [ch EXCEPT ![p] = all] /\ x.state = "secure"
  BY DEF SendGoClear, Ask, TypeInv, TypeOK
<1>3. m \in Messages /\ m # None
  <2>1. m \in Messages
    BY <1>1, <1>2, AskingFacts
  <2> QED BY <2>1, NoneAssumption
<1>4. z.goClear = m
  <2>1. u \in ChannelContexts /\ u.goClear = m
    BY <1>1, <1>3 DEF ChannelContexts, States
  <2> HIDE DEF u
  <2> QED BY <2>1, TimerFacts, SentFacts DEF SameKeys
<1>5. \A e \in Channels : y(e).timer = ch[p][e].timer /\ y(e).goClear = ch[p][e].goClear
  BY <1>1 DEF ChannelContexts
<1> HIDE DEF m, y, z
<1>6. q = p
  BY <1>2 DEF TypeInv, TypeOK
<1>7. ch'[p][c].goClear # None
  BY <1>2, <1>3, <1>4 DEF TypeInv, TypeOK
<1>8. d # c
  BY <1>6, <1>7 DEF GoClearMissing
<1>9. ch'[p][d] = y(d)
  BY <1>2, <1>8 DEF TypeInv, TypeOK
<1>10. ch[p][d].timer = "ON" /\ ch[p][d].goClear = None /\ ch[p][d].state # "sending_GoClear"
  BY <1>5, <1>6, <1>9 DEF GoClearMissing
<1>11. ch[p][d].state \in {"clear", "sendingCommit", "sendingConfirm2"}
  BY <1>1, <1>10 DEF ContextOK, ChannelContexts, States
<1> QED BY <1>2, <1>6, <1>7, <1>11 DEF Uneven

(* Whatever the application calls and whatever the network does: the timer *)
(* of state_sending_GoClear is left without a GoClear to send again only   *)
(* by a call of bzrtp_sendGoClear, on a channel that the call does not     *)
(* initialise and that is not secure.                                      *)
THEOREM MissingOnlyIfUneven == Spec => GoClearMissingOnlyIfUneven
<1> DEFINE Step == \A p \in Endpoints, c \in Channels :
              ~GoClearMissing(ch[p][c]) /\ GoClearMissing(ch'[p][c]) => Uneven(p, c)
<1>1. AllQuiet => Step
  BY DEF AllQuiet, Quiet, GoClearMissing
<1>2. ASSUME TypeInv, Next PROVE Step
  <2>1. PICK p \in Endpoints, c \in Channels :
           \/ SendGoClear(p, c)
           \/ ConfirmGoClear(p, c)
           \/ BackToSecureMode(p, c)
           \/ Timer(p, c)
           \/ Receive(p, c)
           \/ \E k \in net[p][c] : Hold(p, c, k, net[p][c] \ {k}) \/ Hold(p, c, k, net[p][c])
           \/ \E k \in late[p][c] : DeliverLate(p, c, k)
    BY <1>2 DEF Next
  <2>2. CASE SendGoClear(p, c)
    BY <1>2, <2>2, SendGoClearMissing
  <2>3. CASE ConfirmGoClear(p, c) \/ BackToSecureMode(p, c) \/ Timer(p, c)
    BY <1>1, <1>2, <2>3, CallsQuiet, TimerQuiet
  <2>4. CASE Receive(p, c) \/ \E k \in late[p][c] : DeliverLate(p, c, k)
    <3>1. AllQuiet
      BY <1>2, <2>4, Delivered, ProcessMessageQuiet DEF Receive
    <3> QED BY <1>1, <3>1
  <2>5. CASE \E k \in net[p][c] : Hold(p, c, k, net[p][c] \ {k}) \/ Hold(p, c, k, net[p][c])
    BY <2>5 DEF Hold
  <2> QED BY <2>1, <2>2, <2>3, <2>4, <2>5
<1>3. TypeInv /\ [Next]_vars => [Step]_vars
  BY <1>2
<1>4. Step <=> \A p \in Endpoints, c \in Channels :
          ~GoClearMissing(ch[p][c]) /\ GoClearMissing(ch'[p][c]) =>
              /\ ch[p][c].state \in {"clear", "sendingCommit", "sendingConfirm2"}
              /\ \E d \in Channels : ch[p][d].state = "secure" /\ ch'[p][d].goClear # None
  BY DEF Uneven
<1> HIDE DEF Step
<1> QED BY <1>3, <1>4, TypesHold, PTL DEF Spec, GoClearMissingOnlyIfUneven
=============================================================================
