----------------------- MODULE RetainedSecretsProofs -----------------------
(***************************************************************************)
(* Proofs about RetainedSecrets, for any number of devices and sessions.   *)
(***************************************************************************)
EXTENDS RetainedSecrets, TLAPS

Before == {"NULL", "discovery", "agreement"}
ResponderStates == {"sendingDHPart1", "sendingConfirm1"}
InitiatorStates == {"sendingDHPart2", "sendingConfirm2"}

(* What holds of the context c and the cached rows of one endpoint p.      *)
ContextOK(p, c, rows) ==
    /\ c.state = "NULL" => c = NoContext
    /\ c.state # "NULL" => p \in {Caller, dev}
    /\ c.state \in ResponderStates => p # initiator
    /\ c.state \in InitiatorStates => p = initiator
    /\ c.state \notin Before => c.peerZID = Peer(p)
    /\ c.state \in Before \cup {"sendingDHPart1"} => ~c.mismatch
    /\ c.state \in {"agreement", "sendingDHPart1"} => c.rs1 = c.rs1ID /\ c.rs2 = c.rs2ID
    /\ c.rs1ID = None => c.rs2ID = None
    /\ c.rs1 # None \/ c.mismatch => c.zuid # None
    /\ c.state = "secure" => c.zuid # None
    /\ c.state = "secure" /\ ~c.mismatch => rows[c.zuid].rs1 # None
    /\ c.s0 # None <=> \/ c.state \in InitiatorStates \cup {"sendingConfirm1"}
                       \/ c.state = "secure" /\ c.mismatch

RowsOK(rows) == \A q \in Ends : rows[q].rs1 = None => rows[q].rs2 = None

EndOK(p, c, rows) ==
    /\ c \in Contexts
    /\ rows \in [Ends -> Rows]
    /\ ContextOK(p, c, rows)
    /\ RowsOK(rows)

GlobalOK ==
    /\ session \in 0..MaxSessions
    /\ dev \in Devices
    /\ initiator \in {Caller, dev}
    /\ sent \subseteq DHParts \cup Confirms \cup Acks
    /\ lag \in [Devices -> Nat]
    /\ confirmed \in [Ends -> SUBSET Nat]

TypeInv ==
    /\ GlobalOK
    /\ ctx \in [Ends -> Contexts]
    /\ cache \in [Ends -> [Ends -> Rows]]
    /\ \A p \in Ends : EndOK(p, ctx[p], cache[p])

-----------------------------------------------------------------------------
(* An action that only touches the context and rows of one endpoint. *)
LEMMA OneEnd ==
    ASSUME TypeInv, NEW p \in Ends, NEW c, NEW rows,
           EndOK(p, c, rows), UNCHANGED <<dev, initiator>>,
           ctx' = [ctx EXCEPT ![p] = c], cache' = [cache EXCEPT ![p] = rows],
           GlobalOK'
    PROVE  TypeInv'
<1>1. ctx' \in [Ends -> Contexts] /\ cache' \in [Ends -> [Ends -> Rows]]
  BY DEF TypeInv, EndOK
<1>2. ASSUME NEW q \in Ends PROVE EndOK(q, ctx[q], cache[q])'
  <2>1. CASE q = p
    BY <2>1 DEF TypeInv, EndOK, ContextOK, RowsOK, Peer
  <2>2. CASE q # p
    BY <2>2 DEF TypeInv, EndOK, ContextOK, RowsOK, Peer
  <2> QED BY <2>1, <2>2
<1> QED BY <1>1, <1>2 DEF TypeInv

(* The same when the rows do not change. *)
LEMMA OneContext ==
    ASSUME TypeInv, NEW p \in Ends, NEW c,
           EndOK(p, c, cache[p]), UNCHANGED <<dev, initiator, cache>>,
           ctx' = [ctx EXCEPT ![p] = c],
           GlobalOK'
    PROVE  TypeInv'
<1>1. cache' = [cache EXCEPT ![p] = cache[p]]
  BY DEF TypeInv
<1> QED BY <1>1, OneEnd

(* A device is an end, and so is the peer of an end. *)
LEMMA PeerIsEnd ==
    ASSUME GlobalOK, NEW p \in {Caller, dev}
    PROVE  /\ Peer(p) \in {Caller, dev} /\ Peer(p) # p /\ Peer(Peer(p)) = p
           /\ {Caller, dev} \subseteq Ends /\ None \notin Ends
BY EndsAssumption DEF GlobalOK, Peer, Ends

(* Messages of a given type are of the right kind. *)
LEMMA MessageKinds ==
    ASSUME GlobalOK, NEW m \in sent
    PROVE  /\ m.type \in {"DHPart1", "DHPart2"} => m \in DHParts
           /\ m.type \in {"Confirm1", "Confirm2"} => m \in Confirms
BY DEF GlobalOK, DHParts, Confirms, Acks

(* Resetting the flag is all ForgetPvs does. *)
LEMMA ForgetPvsFacts ==
    ASSUME NEW c \in Contexts
    PROVE  /\ ForgetPvs(c) \in Contexts
           /\ ForgetPvs(c) = [c EXCEPT !.pvs = ForgetPvs(c).pvs]
BY DEF ForgetPvs, Contexts

(* Matching sets these three fields of a context. *)
Matched(c, a, b, e) == [c EXCEPT !.rs1 = a, !.rs2 = b, !.mismatch = e]

(* The other fields stay. *)
LEMMA MatchedFacts ==
    ASSUME NEW c \in Contexts, NEW a \in SecretOrNone, NEW b \in SecretOrNone,
           NEW e \in BOOLEAN
    PROVE  LET d == Matched(c, a, b, e) IN
           /\ d \in Contexts
           /\ d.state = c.state /\ d.peerZID = c.peerZID /\ d.zuid = c.zuid
           /\ d.rs1ID = c.rs1ID /\ d.rs2ID = c.rs2ID /\ d.s0 = c.s0 /\ d.pvs = c.pvs
           /\ d.rs1 = a /\ d.rs2 = b /\ d.mismatch = e
BY DEF Matched, Contexts

(* The initiator keeps some of its secrets, and flags a mismatch only if   *)
(* it had one.                                                             *)
LEMMA InitiatorMatchFacts ==
    ASSUME NEW c \in Contexts, NEW m \in DHParts
    PROVE  \E a \in {c.rs1, None}, b \in {c.rs2, None}, e \in BOOLEAN :
           /\ InitiatorMatch(c, m) = Matched(c, a, b, e)
           /\ e => c.mismatch \/ c.rs1 # None
<1> DEFINE keep1 == Same(c.rs1ID, m.rs1ID) \/ Same(c.rs1ID, m.rs2ID)
           keep2 == Same(c.rs2ID, m.rs1ID) \/ Same(c.rs2ID, m.rs2ID)
           lost1 == c.rs1 # None /\ ~keep1
           flag  == c.mismatch \/ lost1
           a == IF lost1 THEN None ELSE c.rs1
           b == IF flag /\ ~keep2 THEN None ELSE c.rs2
           e == flag /\ ~keep2
<1>1. InitiatorMatch(c, m) = Matched(c, a, b, e)
  BY DEF InitiatorMatch, Matched
<1>2. a \in {c.rs1, None} /\ b \in {c.rs2, None} /\ e \in BOOLEAN
  OBVIOUS
<1>3. e => c.mismatch \/ c.rs1 # None
  OBVIOUS
<1> HIDE DEF a, b, e
<1> QED BY <1>1, <1>2, <1>3

(* The same for the responder. *)
LEMMA ResponderMatchFacts ==
    ASSUME NEW c \in Contexts, NEW m \in DHParts
    PROVE  \E a \in {c.rs1, None}, b \in {c.rs2, None}, e \in BOOLEAN :
           /\ ResponderMatch(c, m) = Matched(c, a, b, e)
           /\ e => c.mismatch \/ c.rs1 # None
<1> DEFINE first  == Same(c.rs1ID, m.rs1ID)
           second == ~first /\ Same(c.rs2ID, m.rs1ID)
           third  == ~first /\ ~second /\ Same(c.rs1ID, m.rs2ID)
           fourth == ~first /\ ~second /\ ~third /\ Same(c.rs2ID, m.rs2ID)
           a == IF first \/ third THEN c.rs1 ELSE None
           b == IF first \/ second \/ third \/ fourth THEN c.rs2 ELSE None
           e == c.mismatch \/ ~(first \/ second \/ third \/ fourth)
<1>1. CASE c.rs1 = None
  <2>1. c = Matched(c, c.rs1, c.rs2, c.mismatch)
    BY DEF Matched, Contexts
  <2>2. c.mismatch \in BOOLEAN
    BY DEF Contexts
  <2> QED BY <1>1, <2>1, <2>2 DEF ResponderMatch
<1>2. CASE c.rs1 # None
  <2>1. ResponderMatch(c, m) = Matched(c, a, b, e)
    BY <1>2 DEF ResponderMatch, Matched
  <2>2. a \in {c.rs1, None} /\ b \in {c.rs2, None} /\ e \in BOOLEAN
    OBVIOUS
  <2> HIDE DEF a, b, e
  <2> QED BY <1>2, <2>1, <2>2
<1> QED BY <1>1, <1>2

(* What bzrtp_updateCachedSecrets writes. *)
LEMMA UpdateFacts ==
    ASSUME NEW c \in Contexts, NEW rows \in [Ends -> Rows], RowsOK(rows),
           c.s0 # None, c.peerZID # None
    PROVE  /\ UpdatedRows(rows, c) \in [Ends -> Rows]
           /\ RowsOK(UpdatedRows(rows, c))
           /\ UpdatedContext(c) \in Contexts
           /\ c.mismatch => UpdatedContext(c) = c /\ UpdatedRows(rows, c) = rows
           /\ ~c.mismatch =>
                /\ UpdatedContext(c).zuid = UpdatedZuid(c) /\ UpdatedZuid(c) \in Ends
                /\ UpdatedRows(rows, c)[UpdatedZuid(c)].rs1 # None
                /\ UpdatedContext(c) = [c EXCEPT !.zuid = UpdatedZuid(c), !.s0 = None,
                                                 !.rs1 = None, !.rs2 = None]
<1>1. RetainedSecret(c.s0) \in Secrets
  BY NoneAssumption DEF Contexts, S0s, SecretOrNone, Secrets, RetainedSecret
<1>2. RetainedSecret(c.s0) # None
  BY <1>1, NoneAssumption
<1>3. CASE c.mismatch
  BY <1>3 DEF UpdatedRows, UpdatedContext
<1>4. CASE ~c.mismatch
  <2>1. UpdatedZuid(c) \in Ends
    BY DEF UpdatedZuid, Contexts
  <2>2. UpdatedContext(c) \in Contexts
    BY <1>4, <2>1 DEF UpdatedContext, Contexts, SecretOrNone
  <2> DEFINE row == [rows[UpdatedZuid(c)] EXCEPT !.rs1 = RetainedSecret(c.s0), !.rs2 = c.rs1]
  <2>3. row \in Rows /\ row.rs1 = RetainedSecret(c.s0)
    BY <1>1, <2>1 DEF Rows, SecretOrNone, Contexts
  <2>4. UpdatedRows(rows, c) = [rows EXCEPT ![UpdatedZuid(c)] = row]
    BY <1>4, <2>1 DEF UpdatedRows
  <2> HIDE DEF row
  <2>5. UpdatedRows(rows, c) \in [Ends -> Rows] /\ RowsOK(UpdatedRows(rows, c))
    BY <1>2, <2>1, <2>3, <2>4 DEF RowsOK
  <2>6. UpdatedRows(rows, c)[UpdatedZuid(c)].rs1 # None
    BY <1>2, <2>1, <2>3, <2>4
  <2>7. /\ UpdatedContext(c) = [c EXCEPT !.zuid = UpdatedZuid(c), !.s0 = None,
                                         !.rs1 = None, !.rs2 = None]
        /\ UpdatedContext(c).zuid = UpdatedZuid(c)
    BY <1>4 DEF UpdatedContext, Contexts
  <2> QED BY <1>4, <2>1, <2>2, <2>5, <2>6, <2>7
<1> QED BY <1>3, <1>4

(* A mismatch resets the flag, and nothing else. *)
LEMMA ForgetRowFacts ==
    ASSUME NEW rows \in [Ends -> Rows], RowsOK(rows), NEW c \in Contexts
    PROVE  LET new == ForgetRowPvs(rows, c) IN
           /\ new \in [Ends -> Rows] /\ RowsOK(new)
           /\ \A q \in Ends : new[q].rs1 = rows[q].rs1 /\ new[q].rs2 = rows[q].rs2
<1>1. CASE c.mismatch /\ c.zuid # None
  <2>1. c.zuid \in Ends
    BY <1>1 DEF Contexts
  <2>2. ForgetRowPvs(rows, c) = [rows EXCEPT ![c.zuid].pvs = FALSE]
    BY <1>1 DEF ForgetRowPvs
  <2> DEFINE new == [rows EXCEPT ![c.zuid].pvs = FALSE]
  <2>3. \A q \in Ends : new[q] = IF q = c.zuid THEN [rows[q] EXCEPT !.pvs = FALSE]
                                               ELSE rows[q]
    BY <2>1
  <2>4. new = [q \in Ends |-> new[q]]
    BY <2>1
  <2> HIDE DEF new
  <2>5. \A q \in Ends : /\ new[q] \in Rows
                         /\ new[q].rs1 = rows[q].rs1 /\ new[q].rs2 = rows[q].rs2
    BY <2>3 DEF Rows
  <2>6. new \in [Ends -> Rows]
    BY <2>4, <2>5
  <2>7. RowsOK(new)
    BY <2>5 DEF RowsOK
  <2> QED BY <2>2, <2>5, <2>6, <2>7 DEF new
<1>2. CASE ~(c.mismatch /\ c.zuid # None)
  BY <1>2 DEF ForgetRowPvs
<1> QED BY <1>1, <1>2

-----------------------------------------------------------------------------
(* TypeInv holds of the first state. *)
LEMMA TypeInit == Init => TypeInv
<1> SUFFICES ASSUME Init PROVE TypeInv
  OBVIOUS
<1>1. NoContext \in Contexts /\ NoRow \in Rows
  BY DEF NoContext, NoRow, Contexts, Rows, States, SecretOrNone
<1>2. GlobalOK
  BY BoundAssumption DEF Init, GlobalOK
<1>3. ctx \in [Ends -> Contexts] /\ cache \in [Ends -> [Ends -> Rows]]
  BY <1>1 DEF Init
<1>4. ASSUME NEW p \in Ends PROVE EndOK(p, ctx[p], cache[p])
  BY <1>1 DEF Init, EndOK, ContextOK, RowsOK, NoContext, NoRow, Before,
              ResponderStates, InitiatorStates
<1> QED BY <1>2, <1>3, <1>4 DEF TypeInv

(* A new session starts from fresh contexts and the same caches. *)
LEMMA TypeStart ==
    ASSUME TypeInv, NEW d \in Devices, NEW i \in {Caller, d}, Start(d, i)
    PROVE  TypeInv'
<1> DEFINE fresh == [NoContext EXCEPT !.state = "discovery"]
<1>1. NoContext \in Contexts /\ fresh \in Contexts
  BY DEF NoContext, Contexts, States, SecretOrNone
<1>2. GlobalOK'
  BY BoundAssumption DEF TypeInv, GlobalOK, Start
<1>3. ctx' \in [Ends -> Contexts] /\ cache' \in [Ends -> [Ends -> Rows]]
  BY <1>1 DEF Start, TypeInv
<1>4. ASSUME NEW p \in Ends PROVE EndOK(p, ctx[p], cache[p])'
  <2>1. RowsOK(cache'[p]) /\ cache'[p] \in [Ends -> Rows]
    BY DEF TypeInv, EndOK, Start, RowsOK
  <2>2. CASE p \in {Caller, d}
    <3>1. ctx'[p] = fresh
      BY <2>2 DEF Start
    <3> QED BY <1>1, <2>1, <2>2, <3>1 DEF EndOK, ContextOK, RowsOK, NoContext, Before,
                                    ResponderStates, InitiatorStates, Start
  <2>3. CASE p \notin {Caller, d}
    <3>1. ctx'[p] = NoContext
      BY <2>3 DEF Start
    <3> QED BY <1>1, <2>1, <2>3, <3>1 DEF EndOK, ContextOK, RowsOK, NoContext, Before,
                                    ResponderStates, InitiatorStates, Start
  <2> QED BY <2>2, <2>3
<1> QED BY <1>2, <1>3, <1>4 DEF TypeInv

(* Loading secrets, or keeping those of another device. *)
LEMMA LoadedFacts ==
    ASSUME NEW c \in Contexts, NEW row \in Rows, NEW q \in Ends,
           row.rs1 = None => row.rs2 = None,
           c.rs1 # None => c.zuid # None
    PROVE  LET d == Loaded(c, row, q) IN
           /\ d \in Contexts
           /\ d.state = c.state /\ d.mismatch = c.mismatch /\ d.s0 = c.s0
           /\ d.rs1 = None => d.rs2 = None
           /\ d.rs1 # None => d.zuid # None
<1>1. CASE c.rs1 # None
  BY <1>1 DEF Loaded
<1>2. CASE c.rs1 = None
  <2>1. q # None
    BY EndsAssumption DEF Ends
  <2> QED BY <1>2, <2>1 DEF Loaded, Contexts, Rows
<1> QED BY <1>1, <1>2

(* TypeInv is preserved by RecvHello. *)
LEMMA TypeRecvHello ==
    ASSUME TypeInv, NEW p \in Ends, NEW q \in Ends, RecvHello(p, q)
    PROVE  TypeInv'
<1> DEFINE c == Loaded(ctx[p], cache[p][q], q)
           n == [c EXCEPT !.state = "agreement", !.peerZID = q,
                          !.rs1ID = c.rs1, !.rs2ID = c.rs2]
<1>0. EndOK(p, ctx[p], cache[p]) /\ ctx[p].state = "discovery"
  BY DEF TypeInv, RecvHello
<1>1. /\ c \in Contexts /\ c.state = "discovery" /\ ~c.mismatch /\ c.s0 = None
      /\ c.rs1 = None => c.rs2 = None
      /\ c.rs1 # None => c.zuid # None
  <2>1. /\ ctx[p] \in Contexts /\ cache[p][q] \in Rows
        /\ cache[p][q].rs1 = None => cache[p][q].rs2 = None
        /\ ctx[p].rs1 # None => ctx[p].zuid # None
        /\ ~ctx[p].mismatch /\ ctx[p].s0 = None
    BY <1>0 DEF EndOK, ContextOK, RowsOK, Before, InitiatorStates
  <2> QED BY <1>0, <2>1, LoadedFacts
<1> HIDE DEF c
<1>2. /\ n \in Contexts /\ n.state = "agreement" /\ n.rs1 = c.rs1 /\ n.rs2 = c.rs2
      /\ n.rs1ID = c.rs1 /\ n.rs2ID = c.rs2 /\ n.mismatch = c.mismatch
      /\ n.s0 = c.s0 /\ n.zuid = c.zuid
  BY <1>1 DEF Contexts, States
<1>3. ctx' = [ctx EXCEPT ![p] = n]
  BY DEF RecvHello, c
<1> HIDE DEF n
<1>4. EndOK(p, n, cache[p])
  BY <1>0, <1>1, <1>2 DEF EndOK, ContextOK, Before, ResponderStates, InitiatorStates
<1>5. GlobalOK'
  BY DEF TypeInv, GlobalOK, RecvHello, Acks
<1>6. UNCHANGED <<dev, initiator, cache>>
  BY DEF RecvHello
<1> QED BY <1>3, <1>4, <1>5, <1>6, OneContext

(* TypeInv is preserved by bzrtp_setPeerHelloHash. *)
LEMMA TypeSetPeerHelloHash ==
    ASSUME TypeInv, SetPeerHelloHash
    PROVE  TypeInv'
<1> DEFINE c == ctx[Caller]
           n == [c EXCEPT !.helloHash = TRUE,
                          !.state = IF c.peerZID \in {None, dev} THEN @ ELSE "discovery"]
<1>0. Caller \in Ends /\ EndOK(Caller, c, cache[Caller]) /\ c.state # "NULL"
  BY DEF TypeInv, SetPeerHelloHash, Ends
<1>1. ctx' = [ctx EXCEPT ![Caller] = n]
  BY <1>0 DEF SetPeerHelloHash, TypeInv
<1>2. EndOK(Caller, n, cache[Caller])
  <2>1. CASE c.peerZID \in {None, dev}
    <3>1. n = [c EXCEPT !.helloHash = TRUE]
      BY <1>0, <2>1 DEF EndOK, Contexts
    <3> HIDE DEF n
    <3>2. /\ n \in Contexts /\ n.state = c.state /\ n.peerZID = c.peerZID
          /\ n.rs1 = c.rs1 /\ n.rs2 = c.rs2 /\ n.rs1ID = c.rs1ID /\ n.rs2ID = c.rs2ID
          /\ n.mismatch = c.mismatch /\ n.s0 = c.s0 /\ n.zuid = c.zuid
      BY <1>0, <3>1 DEF EndOK, Contexts
    <3> HIDE DEF c
    <3> QED BY <1>0, <3>2 DEF EndOK, ContextOK, Before, ResponderStates, InitiatorStates
  <2>2. CASE c.peerZID \notin {None, dev}
    <3>1. n = [c EXCEPT !.helloHash = TRUE, !.state = "discovery"]
      BY <1>0, <2>2 DEF EndOK, Contexts
    <3> HIDE DEF n
    <3>2. /\ n \in Contexts /\ n.state = "discovery" /\ n.peerZID = c.peerZID
          /\ n.rs1 = c.rs1 /\ n.rs2 = c.rs2 /\ n.rs1ID = c.rs1ID /\ n.rs2ID = c.rs2ID
          /\ n.mismatch = c.mismatch /\ n.s0 = c.s0 /\ n.zuid = c.zuid
      BY <1>0, <3>1 DEF EndOK, Contexts, States
    <3>3. c.state \in Before
      BY <1>0, <2>2 DEF EndOK, ContextOK, Peer
    <3> HIDE DEF c
    <3> QED BY <1>0, <3>2, <3>3 DEF EndOK, ContextOK, Before, ResponderStates, InitiatorStates
  <2> QED BY <2>1, <2>2
<1>3. GlobalOK' /\ UNCHANGED <<dev, initiator, cache>>
  BY DEF TypeInv, GlobalOK, SetPeerHelloHash
<1> HIDE DEF c, n
<1> QED BY <1>0, <1>1, <1>2, <1>3, OneContext

(* TypeInv is preserved by RecvCommit. *)
LEMMA TypeRecvCommit ==
    ASSUME TypeInv, NEW p \in Ends, RecvCommit(p)
    PROVE  TypeInv'
<1> DEFINE n == [ctx[p] EXCEPT !.state = "sendingDHPart1"]
<1>0. /\ EndOK(p, ctx[p], cache[p]) /\ ctx[p].state = "agreement"
      /\ ctx[p].peerZID = Peer(p) /\ p # initiator
  BY DEF TypeInv, RecvCommit
<1>1. ctx' = [ctx EXCEPT ![p] = n]
  BY DEF RecvCommit, TypeInv
<1>2. /\ n \in Contexts /\ n.state = "sendingDHPart1" /\ n.peerZID = Peer(p)
      /\ n.rs1 = ctx[p].rs1 /\ n.rs2 = ctx[p].rs2
      /\ n.rs1ID = ctx[p].rs1ID /\ n.rs2ID = ctx[p].rs2ID
      /\ n.mismatch = ctx[p].mismatch /\ n.s0 = ctx[p].s0 /\ n.zuid = ctx[p].zuid
  BY <1>0 DEF EndOK, Contexts, States
<1> HIDE DEF n
<1>3. EndOK(p, n, cache[p])
  BY <1>0, <1>2 DEF EndOK, ContextOK, Before, ResponderStates, InitiatorStates
<1>4. GlobalOK'
  <2>1. [type |-> "DHPart1", rs1ID |-> ctx[p].rs1ID, rs2ID |-> ctx[p].rs2ID] \in DHParts
    BY <1>0 DEF EndOK, Contexts, DHParts
  <2> QED BY <2>1 DEF TypeInv, GlobalOK, RecvCommit
<1>5. UNCHANGED <<dev, initiator, cache>>
  BY DEF RecvCommit
<1> QED BY <1>1, <1>3, <1>4, <1>5, OneContext

(* The s0 an endpoint computes. *)
LEMMA S0Type ==
    ASSUME GlobalOK, NEW c \in Contexts
    PROVE  S0(c) \in S0s /\ S0(c) # None
BY NoneAssumption, BoundAssumption DEF GlobalOK, S0, S0s, Contexts

(* Both sides go on in the same way after the matching, which has left the *)
(* fields a, b and e in the context.                                       *)
LEMMA AfterMatch ==
    ASSUME TypeInv, NEW p \in Ends,
           ctx[p].state \in {"agreement", "sendingDHPart1"}, ctx[p].peerZID = Peer(p),
           NEW a \in {ctx[p].rs1, None}, NEW b \in {ctx[p].rs2, None}, NEW e \in BOOLEAN,
           e => ctx[p].rs1 # None,
           NEW s \in {"sendingDHPart2", "sendingConfirm1"},
           s = "sendingDHPart2" => p = initiator,
           s = "sendingConfirm1" => p # initiator
    PROVE  LET c == ForgetPvs(Matched(ctx[p], a, b, e))
               n == [c EXCEPT !.state = s, !.s0 = S0(c)]
           IN  /\ EndOK(p, n, ForgetRowPvs(cache[p], c))
               /\ c \in Contexts /\ S0(c) \in S0s
<1> DEFINE m == Matched(ctx[p], a, b, e)
           c == ForgetPvs(m)
           n == [c EXCEPT !.state = s, !.s0 = S0(c)]
           rows == ForgetRowPvs(cache[p], c)
<1>0. EndOK(p, ctx[p], cache[p])
  BY DEF TypeInv
<1>1. ctx[p] \in Contexts /\ a \in SecretOrNone /\ b \in SecretOrNone
  BY <1>0 DEF EndOK, Contexts, SecretOrNone
<1>2. /\ m \in Contexts
      /\ m.state = ctx[p].state /\ m.peerZID = ctx[p].peerZID /\ m.zuid = ctx[p].zuid
      /\ m.rs1ID = ctx[p].rs1ID /\ m.rs2ID = ctx[p].rs2ID /\ m.s0 = ctx[p].s0
      /\ m.rs1 = a /\ m.rs2 = b /\ m.mismatch = e
  BY <1>1, MatchedFacts
<1> HIDE DEF m
<1>3. /\ c \in Contexts
      /\ c.state = m.state /\ c.peerZID = m.peerZID /\ c.zuid = m.zuid
      /\ c.rs1ID = m.rs1ID /\ c.rs2ID = m.rs2ID /\ c.s0 = m.s0
      /\ c.rs1 = m.rs1 /\ c.rs2 = m.rs2 /\ c.mismatch = m.mismatch
  BY <1>2, ForgetPvsFacts DEF Contexts
<1> HIDE DEF c
<1>4. S0(c) \in S0s /\ S0(c) # None
  BY <1>3, S0Type DEF TypeInv
<1>5. /\ n \in Contexts
      /\ n.state = s /\ n.peerZID = c.peerZID /\ n.zuid = c.zuid
      /\ n.rs1ID = c.rs1ID /\ n.rs2ID = c.rs2ID /\ n.s0 = S0(c)
      /\ n.rs1 = c.rs1 /\ n.rs2 = c.rs2 /\ n.mismatch = c.mismatch
  BY <1>3, <1>4 DEF Contexts, States
<1> HIDE DEF n
<1>6. rows \in [Ends -> Rows] /\ RowsOK(rows)
  BY <1>0, <1>3, ForgetRowFacts DEF EndOK
<1> HIDE DEF rows
<1>7. ContextOK(p, n, rows)
  BY <1>0, <1>2, <1>3, <1>4, <1>5
     DEF EndOK, ContextOK, Before, ResponderStates, InitiatorStates
<1>8. EndOK(p, n, rows)
  BY <1>5, <1>6, <1>7 DEF EndOK
<1> QED BY <1>3, <1>4, <1>8 DEF n, c, m, rows

(* TypeInv is preserved by RecvDHPart1. *)
LEMMA TypeRecvDHPart1 ==
    ASSUME TypeInv, NEW p \in Ends, RecvDHPart1(p)
    PROVE  TypeInv'
<1>0. /\ EndOK(p, ctx[p], cache[p]) /\ ctx[p].state = "agreement" /\ p = initiator
      /\ ctx[p].peerZID = Peer(p)
  BY DEF TypeInv, RecvDHPart1, EndOK, ContextOK, Before
<1>1. PICK m \in sent :
        /\ m.type = "DHPart1"
        /\ LET c0 == ForgetPvs(InitiatorMatch(ctx[p], m)) IN
            /\ ctx' = [ctx EXCEPT ![p] = [c0 EXCEPT !.state = "sendingDHPart2", !.s0 = S0(c0)]]
            /\ cache' = [cache EXCEPT ![p] = ForgetRowPvs(cache[p], c0)]
  BY DEF RecvDHPart1, TypeInv
<1>2. m \in DHParts /\ ctx[p] \in Contexts
  BY <1>0, <1>1, MessageKinds DEF TypeInv, EndOK
<1>3. PICK a \in {ctx[p].rs1, None}, b \in {ctx[p].rs2, None}, e \in BOOLEAN :
        /\ InitiatorMatch(ctx[p], m) = Matched(ctx[p], a, b, e)
        /\ e => ctx[p].mismatch \/ ctx[p].rs1 # None
  BY <1>2, InitiatorMatchFacts
<1> DEFINE c == ForgetPvs(Matched(ctx[p], a, b, e))
           n == [c EXCEPT !.state = "sendingDHPart2", !.s0 = S0(c)]
<1>4. EndOK(p, n, ForgetRowPvs(cache[p], c)) /\ c \in Contexts /\ S0(c) \in S0s
  <2>1. ~ctx[p].mismatch
    BY <1>0 DEF EndOK, ContextOK, Before
  <2> QED BY <1>0, <1>3, <2>1, AfterMatch
<1>6. /\ ctx' = [ctx EXCEPT ![p] = n]
      /\ cache' = [cache EXCEPT ![p] = ForgetRowPvs(cache[p], c)]
  BY <1>1, <1>3
<1> HIDE DEF c, n
<1>5. GlobalOK'
  <2>1. [type |-> "DHPart2", rs1ID |-> ctx[p].rs1ID, rs2ID |-> ctx[p].rs2ID] \in DHParts
    BY <1>0 DEF EndOK, Contexts, DHParts
  <2> QED BY <2>1 DEF TypeInv, GlobalOK, RecvDHPart1
<1>7. UNCHANGED <<dev, initiator>>
  BY DEF RecvDHPart1
<1> QED BY <1>4, <1>5, <1>6, <1>7, OneEnd

(* TypeInv is preserved by RecvDHPart2. *)
LEMMA TypeRecvDHPart2 ==
    ASSUME TypeInv, NEW p \in Ends, RecvDHPart2(p)
    PROVE  TypeInv'
<1>0. /\ EndOK(p, ctx[p], cache[p]) /\ ctx[p].state = "sendingDHPart1" /\ p # initiator
      /\ ctx[p].peerZID = Peer(p)
  BY DEF TypeInv, RecvDHPart2, EndOK, ContextOK, Before
<1>1. PICK m \in sent :
        /\ m.type = "DHPart2"
        /\ LET c0 == ForgetPvs(ResponderMatch(ctx[p], m)) IN
            /\ ctx' = [ctx EXCEPT ![p] = [c0 EXCEPT !.state = "sendingConfirm1", !.s0 = S0(c0)]]
            /\ cache' = [cache EXCEPT ![p] = ForgetRowPvs(cache[p], c0)]
            /\ sent' = sent \cup {[type |-> "Confirm1", s0 |-> S0(c0), V |-> c0.pvs]}
  BY DEF RecvDHPart2, TypeInv
<1>2. m \in DHParts /\ ctx[p] \in Contexts
  BY <1>0, <1>1, MessageKinds DEF TypeInv, EndOK
<1>3. PICK a \in {ctx[p].rs1, None}, b \in {ctx[p].rs2, None}, e \in BOOLEAN :
        /\ ResponderMatch(ctx[p], m) = Matched(ctx[p], a, b, e)
        /\ e => ctx[p].mismatch \/ ctx[p].rs1 # None
  BY <1>2, ResponderMatchFacts
<1> DEFINE c == ForgetPvs(Matched(ctx[p], a, b, e))
           n == [c EXCEPT !.state = "sendingConfirm1", !.s0 = S0(c)]
<1>4. EndOK(p, n, ForgetRowPvs(cache[p], c)) /\ c \in Contexts /\ S0(c) \in S0s
  <2>1. ~ctx[p].mismatch
    BY <1>0 DEF EndOK, ContextOK, Before
  <2> QED BY <1>0, <1>3, <2>1, AfterMatch
<1>6. /\ ctx' = [ctx EXCEPT ![p] = n]
      /\ cache' = [cache EXCEPT ![p] = ForgetRowPvs(cache[p], c)]
            /\ sent' = sent \cup {[type |-> "Confirm1", s0 |-> S0(c), V |-> c.pvs]}
  BY <1>1, <1>3
<1> HIDE DEF c, n
<1>5. GlobalOK'
  <2>1. [type |-> "Confirm1", s0 |-> S0(c), V |-> c.pvs] \in Confirms
    BY <1>4 DEF Contexts, Confirms
  <2> QED BY <1>6, <2>1 DEF TypeInv, GlobalOK, RecvDHPart2
<1>7. UNCHANGED <<dev, initiator>>
  BY DEF RecvDHPart2
<1> QED BY <1>4, <1>5, <1>6, <1>7, OneEnd

(* TypeInv is preserved by RecvConfirm1. *)
LEMMA TypeRecvConfirm1 ==
    ASSUME TypeInv, NEW p \in Ends, RecvConfirm1(p)
    PROVE  TypeInv'
<1>0. /\ EndOK(p, ctx[p], cache[p]) /\ ctx[p].state = "sendingDHPart2" /\ p = initiator
      /\ ctx[p] \in Contexts /\ ctx[p].s0 # None
  BY DEF TypeInv, RecvConfirm1, EndOK, ContextOK, InitiatorStates
<1>1. PICK m \in sent :
        /\ m.type = "Confirm1"
        /\ ctx' = [ctx EXCEPT ![p].state = "sendingConfirm2", ![p].peerPVS = m.V]
  BY DEF RecvConfirm1
<1>2. m \in Confirms
  BY <1>1, MessageKinds DEF TypeInv
<1> DEFINE n == [ctx[p] EXCEPT !.state = "sendingConfirm2", !.peerPVS = m.V]
<1>3. ctx' = [ctx EXCEPT ![p] = n]
  BY <1>1 DEF TypeInv
<1>4. /\ n \in Contexts /\ n.state = "sendingConfirm2" /\ n.peerZID = ctx[p].peerZID
      /\ n.rs1 = ctx[p].rs1 /\ n.rs1ID = ctx[p].rs1ID /\ n.rs2ID = ctx[p].rs2ID
      /\ n.mismatch = ctx[p].mismatch /\ n.s0 = ctx[p].s0 /\ n.zuid = ctx[p].zuid
  BY <1>0, <1>2 DEF Contexts, States, Confirms
<1> HIDE DEF n
<1>5. EndOK(p, n, cache[p])
  BY <1>0, <1>4 DEF EndOK, ContextOK, Before, ResponderStates, InitiatorStates
<1>6. GlobalOK'
  <2>1. [type |-> "Confirm2", s0 |-> ctx[p].s0, V |-> ctx[p].pvs] \in Confirms
    BY <1>0 DEF Contexts, Confirms
  <2> QED BY <2>1 DEF TypeInv, GlobalOK, RecvConfirm1
<1>7. UNCHANGED <<dev, initiator, cache>>
  BY DEF RecvConfirm1
<1> QED BY <1>3, <1>5, <1>6, <1>7, OneContext

(* What entering the secure state changes in a context. *)
LEMMA SecureContext ==
    ASSUME NEW u \in Contexts
    PROVE  /\ EnterSecure(u) \in Contexts /\ EnterSecure(u).state = "secure"
           /\ EnterSecure(u).peerZID = u.peerZID /\ EnterSecure(u).mismatch = u.mismatch
           /\ EnterSecure(u).rs1ID = u.rs1ID /\ EnterSecure(u).rs2ID = u.rs2ID
           /\ EnterSecure(u).s0 = u.s0 /\ EnterSecure(u).zuid = u.zuid
<1> DEFINE told == u.pvs /\ u.peerPVS
<1>1. told \in BOOLEAN
  OBVIOUS
<1> HIDE DEF told
<1>2. EnterSecure(u) = [u EXCEPT !.state = "secure", !.told = told]
  BY DEF EnterSecure, told
<1>3. [u EXCEPT !.state = "secure", !.told = told] \in Contexts
  BY <1>1 DEF Contexts, States
<1> QED BY <1>2, <1>3 DEF Contexts

(* An endpoint that updates its cache and becomes secure. *)
LEMMA BecomingSecure ==
    ASSUME TypeInv, NEW p \in Ends, NEW c \in Contexts,
           ContextOK(p, c, cache[p]),
           c.state \in {"sendingConfirm1", "sendingConfirm2"}
    PROVE  EndOK(p, EnterSecure(UpdatedContext(c)), UpdatedRows(cache[p], c))
<1> DEFINE u == UpdatedContext(c)
           n == EnterSecure(u)
           rows == UpdatedRows(cache[p], c)
<1>1. cache[p] \in [Ends -> Rows] /\ RowsOK(cache[p])
  BY DEF TypeInv, EndOK
<1>2. /\ c.s0 # None /\ c.peerZID = Peer(p) /\ p \in {Caller, dev}
      /\ c.mismatch => c.zuid # None
      /\ c.rs1ID = None => c.rs2ID = None
  BY DEF ContextOK, Before, InitiatorStates
<1>3. c.peerZID # None
  BY <1>2, PeerIsEnd DEF TypeInv
<1>4. /\ rows \in [Ends -> Rows] /\ RowsOK(rows) /\ u \in Contexts
      /\ c.mismatch => u = c /\ rows = cache[p]
      /\ ~c.mismatch => /\ u.zuid = UpdatedZuid(c) /\ UpdatedZuid(c) \in Ends
                        /\ rows[UpdatedZuid(c)].rs1 # None
                        /\ u = [c EXCEPT !.zuid = UpdatedZuid(c), !.s0 = None,
                                         !.rs1 = None, !.rs2 = None]
  BY <1>1, <1>2, <1>3, UpdateFacts
<1>5. /\ u.peerZID = c.peerZID /\ u.mismatch = c.mismatch
      /\ u.rs1ID = c.rs1ID /\ u.rs2ID = c.rs2ID
      /\ u.zuid # None /\ (~u.mismatch => rows[u.zuid].rs1 # None)
      /\ u.s0 # None <=> u.mismatch
  <2>1. CASE c.mismatch
    BY <1>2, <1>4, <2>1
  <2>2. CASE ~c.mismatch
    <3>1. UpdatedZuid(c) # None
      BY <1>2, <1>4, <2>2, PeerIsEnd DEF TypeInv
    <3> QED BY <1>4, <2>2, <3>1 DEF Contexts
  <2> QED BY <2>1, <2>2
<1> HIDE DEF u, rows
<1>6. /\ n \in Contexts /\ n.state = "secure" /\ n.peerZID = u.peerZID
      /\ n.rs1ID = u.rs1ID /\ n.rs2ID = u.rs2ID /\ n.mismatch = u.mismatch
      /\ n.s0 = u.s0 /\ n.zuid = u.zuid
  BY <1>4, SecureContext
<1> HIDE DEF n
<1>7. ContextOK(p, n, rows)
  BY <1>2, <1>5, <1>6 DEF ContextOK, Before, ResponderStates, InitiatorStates
<1> QED BY <1>4, <1>6, <1>7 DEF EndOK, n, u, rows

(* TypeInv is preserved by RecvConfirm2. *)
LEMMA TypeRecvConfirm2 ==
    ASSUME TypeInv, NEW p \in Ends, RecvConfirm2(p)
    PROVE  TypeInv'
<1>0. /\ EndOK(p, ctx[p], cache[p]) /\ ctx[p].state = "sendingConfirm1"
      /\ ctx[p] \in Contexts
  BY DEF TypeInv, RecvConfirm2, EndOK
<1>1. PICK m \in sent :
        /\ m.type = "Confirm2"
        /\ LET c0 == [ctx[p] EXCEPT !.peerPVS = m.V] IN
            /\ ctx' = [ctx EXCEPT ![p] = EnterSecure(UpdatedContext(c0))]
            /\ cache' = [cache EXCEPT ![p] = UpdatedRows(cache[p], c0)]
  BY DEF RecvConfirm2, TypeInv
<1> DEFINE c == [ctx[p] EXCEPT !.peerPVS = m.V]
<1>2. m \in Confirms
  BY <1>1, MessageKinds DEF TypeInv
<1>3. /\ c \in Contexts /\ c.state = ctx[p].state /\ c.peerZID = ctx[p].peerZID
      /\ c.rs1 = ctx[p].rs1 /\ c.rs1ID = ctx[p].rs1ID /\ c.rs2ID = ctx[p].rs2ID
      /\ c.mismatch = ctx[p].mismatch /\ c.s0 = ctx[p].s0 /\ c.zuid = ctx[p].zuid
  BY <1>0, <1>2 DEF Contexts, Confirms
<1>4. /\ ctx' = [ctx EXCEPT ![p] = EnterSecure(UpdatedContext(c))]
      /\ cache' = [cache EXCEPT ![p] = UpdatedRows(cache[p], c)]
  BY <1>1
<1> HIDE DEF c
<1>5. ContextOK(p, c, cache[p])
  BY <1>0, <1>3 DEF EndOK, ContextOK, Before, ResponderStates, InitiatorStates
<1>6. EndOK(p, EnterSecure(UpdatedContext(c)), UpdatedRows(cache[p], c))
  BY <1>0, <1>3, <1>5, BecomingSecure
<1>7. GlobalOK' /\ UNCHANGED <<dev, initiator>>
  BY DEF TypeInv, GlobalOK, RecvConfirm2, Acks
<1> QED BY <1>4, <1>6, <1>7, OneEnd

(* TypeInv is preserved by RecvConf2ACK. *)
LEMMA TypeRecvConf2ACK ==
    ASSUME TypeInv, NEW p \in Ends, RecvConf2ACK(p)
    PROVE  TypeInv'
<1> DEFINE c == ctx[p]
<1>0. ContextOK(p, c, cache[p]) /\ c \in Contexts /\ c.state = "sendingConfirm2"
  BY DEF TypeInv, RecvConf2ACK, EndOK
<1>1. /\ ctx' = [ctx EXCEPT ![p] = EnterSecure(UpdatedContext(c))]
      /\ cache' = [cache EXCEPT ![p] = UpdatedRows(cache[p], c)]
  BY DEF RecvConf2ACK, TypeInv
<1>2. EndOK(p, EnterSecure(UpdatedContext(c)), UpdatedRows(cache[p], c))
  BY <1>0, BecomingSecure
<1>3. GlobalOK' /\ UNCHANGED <<dev, initiator>>
  BY DEF TypeInv, GlobalOK, RecvConf2ACK
<1> QED BY <1>1, <1>2, <1>3, OneEnd

(* The chain a secure endpoint's session belongs to is a session number. *)
LEMMA RootType ==
    ASSUME TypeInv, NEW p \in Ends, ctx[p].state = "secure"
    PROVE  Root(p) \in Nat
<1>0. EndOK(p, ctx[p], cache[p])
  BY DEF TypeInv
<1>1. CASE ctx[p].s0 # None
  <2>1. ctx[p].s0 \in S0s
    BY <1>0, <1>1 DEF EndOK, Contexts
  <2>2. RetainedSecret(ctx[p].s0) \in Secrets
    BY <2>1 DEF S0s, SecretOrNone, Secrets, RetainedSecret
  <2> QED BY <1>1, <2>2 DEF Root, Secrets
<1>2. CASE ctx[p].s0 = None
  <2>1. ctx[p].zuid \in Ends /\ cache[p][ctx[p].zuid].rs1 # None
    BY <1>0, <1>2 DEF EndOK, ContextOK, Contexts
  <2>2. cache[p][ctx[p].zuid].rs1 \in Secrets
    BY <1>0, <2>1 DEF EndOK, Rows, SecretOrNone
  <2> QED BY <1>2, <2>2 DEF Root, Secrets
<1> QED BY <1>1, <1>2

(* TypeInv is preserved by bzrtp_SASVerified. *)
LEMMA TypeSASVerified ==
    ASSUME TypeInv, NEW p \in Ends, SASVerified(p)
    PROVE  TypeInv'
<1> DEFINE c == [ctx[p] EXCEPT !.mismatch = FALSE]
           n == IF ctx[p].mismatch THEN UpdatedContext(c) ELSE c
           written == IF ctx[p].mismatch THEN UpdatedRows(cache[p], c) ELSE cache[p]
           rows == [written EXCEPT ![c.zuid].pvs = TRUE]
<1>0. /\ EndOK(p, ctx[p], cache[p]) /\ ctx[p].state = "secure" /\ ctx[p] \in Contexts
      /\ cache[p] \in [Ends -> Rows] /\ RowsOK(cache[p])
  BY DEF TypeInv, SASVerified, EndOK
<1>1. /\ c \in Contexts /\ c.state = "secure" /\ c.peerZID = ctx[p].peerZID
      /\ c.rs1 = ctx[p].rs1 /\ c.rs1ID = ctx[p].rs1ID /\ c.rs2ID = ctx[p].rs2ID
      /\ c.mismatch = FALSE /\ c.s0 = ctx[p].s0 /\ c.zuid = ctx[p].zuid
  BY <1>0 DEF Contexts
<1>2. ctx' = [ctx EXCEPT ![p] = n] /\ cache' = [cache EXCEPT ![p] = rows]
  BY DEF SASVerified, TypeInv
<1> HIDE DEF c
<1>3. /\ p \in {Caller, dev} /\ c.peerZID = Peer(p) /\ c.peerZID # None
      /\ c.zuid \in Ends /\ c.zuid # None
  BY <1>0, <1>1, PeerIsEnd DEF EndOK, ContextOK, Before, Contexts, TypeInv
<1>4. /\ n \in Contexts /\ n.state = "secure" /\ n.peerZID = Peer(p) /\ n.zuid = c.zuid
      /\ n.rs1ID = c.rs1ID /\ n.rs2ID = c.rs2ID /\ n.mismatch = FALSE /\ n.s0 = None
      /\ written \in [Ends -> Rows] /\ RowsOK(written) /\ written[c.zuid].rs1 # None
  <2>1. CASE ctx[p].mismatch
    <3>1. c.s0 # None
      BY <1>0, <1>1, <2>1 DEF EndOK, ContextOK
    <3>2. /\ UpdatedRows(cache[p], c) \in [Ends -> Rows] /\ RowsOK(UpdatedRows(cache[p], c))
          /\ UpdatedContext(c) \in Contexts
          /\ UpdatedRows(cache[p], c)[UpdatedZuid(c)].rs1 # None
          /\ UpdatedContext(c) = [c EXCEPT !.zuid = UpdatedZuid(c), !.s0 = None,
                                           !.rs1 = None, !.rs2 = None]
      BY <1>0, <1>1, <1>3, <3>1, UpdateFacts
    <3>3. UpdatedZuid(c) = c.zuid
      BY <1>3 DEF UpdatedZuid
    <3> QED BY <1>1, <1>3, <2>1, <3>2, <3>3 DEF Contexts
  <2>2. CASE ~ctx[p].mismatch
    BY <1>0, <1>1, <1>3, <2>2 DEF EndOK, ContextOK, InitiatorStates
  <2> QED BY <2>1, <2>2
<1> HIDE DEF n, written
<1>5. rows \in [Ends -> Rows] /\ RowsOK(rows) /\ rows[c.zuid].rs1 # None
  BY <1>3, <1>4 DEF Rows, RowsOK
<1> HIDE DEF rows
<1>6. ContextOK(p, n, rows)
  BY <1>0, <1>1, <1>3, <1>4, <1>5
     DEF EndOK, ContextOK, Before, ResponderStates, InitiatorStates
<1>7. EndOK(p, n, rows)
  BY <1>4, <1>5, <1>6 DEF EndOK
<1>8. GlobalOK'
  BY <1>0, RootType DEF TypeInv, GlobalOK, SASVerified
<1>9. UNCHANGED <<dev, initiator>>
  BY DEF SASVerified
<1> QED BY <1>2, <1>7, <1>8, <1>9, OneEnd

(* TypeInv is preserved by bzrtp_resetSASVerified. *)
LEMMA TypeResetSASVerified ==
    ASSUME TypeInv, NEW p \in Ends, ResetSASVerified(p)
    PROVE  TypeInv'
<1> DEFINE rows == [cache[p] EXCEPT ![ctx[p].zuid].pvs = FALSE]
<1>0. /\ EndOK(p, ctx[p], cache[p]) /\ ctx[p].state = "secure" /\ ctx[p].zuid \in Ends
  BY DEF TypeInv, ResetSASVerified, EndOK, ContextOK, Contexts
<1>1. /\ rows \in [Ends -> Rows] /\ RowsOK(rows)
      /\ \A q \in Ends : rows[q].rs1 = cache[p][q].rs1
  BY <1>0 DEF EndOK, Rows, RowsOK
<1>2. cache' = [cache EXCEPT ![p] = rows] /\ ctx' = [ctx EXCEPT ![p] = ctx[p]]
  BY DEF ResetSASVerified, TypeInv
<1> HIDE DEF rows
<1>3. EndOK(p, ctx[p], rows)
  BY <1>0, <1>1 DEF EndOK, ContextOK
<1>4. GlobalOK' /\ UNCHANGED <<dev, initiator>>
  BY DEF TypeInv, GlobalOK, ResetSASVerified
<1> QED BY <1>2, <1>3, <1>4, OneEnd

(* TypeInv is preserved by the end of a context. *)
LEMMA TypeEnd ==
    ASSUME TypeInv, NEW p \in Ends, End(p)
    PROVE  TypeInv'
<1>1. EndOK(p, NoContext, cache[p])
  <2>1. NoContext \in Contexts
    BY DEF NoContext, Contexts, States, SecretOrNone
  <2> QED BY <2>1 DEF TypeInv, EndOK, ContextOK, NoContext, Before, ResponderStates,
                      InitiatorStates
<1>2. ctx' = [ctx EXCEPT ![p] = NoContext] /\ UNCHANGED <<dev, initiator, cache>>
  BY DEF End
<1>3. GlobalOK'
  BY DEF TypeInv, GlobalOK, End
<1> QED BY <1>1, <1>2, <1>3, OneContext

(* TypeInv is preserved by every step. *)
LEMMA TypeNext == TypeInv /\ [Next]_vars => TypeInv'
<1> SUFFICES ASSUME TypeInv, [Next]_vars PROVE TypeInv'
  OBVIOUS
<1>1. CASE UNCHANGED vars
  BY <1>1 DEF vars, TypeInv, GlobalOK, EndOK, ContextOK, RowsOK, Peer
<1>2. ASSUME NEW d \in Devices, NEW i \in {Caller, d}, Start(d, i) PROVE TypeInv'
  BY <1>2, TypeStart
<1>3. CASE SetPeerHelloHash
  BY <1>3, TypeSetPeerHelloHash
<1>4. ASSUME NEW p \in Ends, NEW q \in Ends, RecvHello(p, q) PROVE TypeInv'
  BY <1>4, TypeRecvHello
<1>5. ASSUME NEW p \in Ends,
             \/ RecvCommit(p) \/ RecvDHPart1(p) \/ RecvDHPart2(p)
             \/ RecvConfirm1(p) \/ RecvConfirm2(p) \/ RecvConf2ACK(p)
             \/ SASVerified(p) \/ ResetSASVerified(p) \/ End(p)
      PROVE  TypeInv'
  BY <1>5, TypeRecvCommit, TypeRecvDHPart1, TypeRecvDHPart2, TypeRecvConfirm1,
     TypeRecvConfirm2, TypeRecvConf2ACK, TypeSASVerified, TypeResetSASVerified, TypeEnd
<1> QED BY <1>1, <1>2, <1>3, <1>4, <1>5 DEF Next

(* TypeInv is an invariant. *)
LEMMA TypeInvariance == Spec => []TypeInv
BY TypeInit, TypeNext, PTL DEF Spec

(* TypeOK: an endpoint that is secure has a row for its peer, and s0 lives *)
(* exactly as long as an update can need it, for any number of devices and *)
(* sessions and wherever a session is cut.                                 *)
THEOREM SecretsTypeCorrect == Spec => []TypeOK
<1>1. TypeInv => TypeOK
  BY DEF TypeInv, GlobalOK, EndOK, ContextOK, TypeOK, InitiatorStates
<1> QED BY <1>1, TypeInvariance, PTL

-----------------------------------------------------------------------------
(* Agreement on s0.                                                        *)

(* The secret an initiator with secrets a1, a2 and a responder with b1, b2 *)
(* have in common, the initiator's rs1 first.                              *)
Common(a1, a2, b1, b2) ==
    IF a1 # None /\ (a1 = b1 \/ a1 = b2) THEN a1
    ELSE IF a2 # None /\ (a2 = b1 \/ a2 = b2) THEN a2
    ELSE None

LateInitiator == {"sendingDHPart2", "sendingConfirm2", "secure"}
LateResponder == {"sendingDHPart1", "sendingConfirm1", "secure"}
KeyedResponder == {"sendingConfirm1", "secure"}

SameIDs(c, m) == m.rs1ID = c.rs1ID /\ m.rs2ID = c.rs2ID
AgreedS0(ci, cr) == [session |-> session, dev |-> dev,
                     s1 |-> Common(ci.rs1ID, ci.rs2ID, cr.rs1ID, cr.rs2ID)]

(* With i the initiator and r the responder: the DHPart messages carry the *)
(* hashes of the contexts they were sent from, as long as these exist, and *)
(* an s0 is the one the hashes of both contexts determine.                 *)
Agreement(i, r) ==
    /\ \A m \in sent : m.type = "DHPart1" =>
        ctx[r].state = "NULL" \/ (ctx[r].state \in LateResponder /\ SameIDs(ctx[r], m))
    /\ \A m \in sent : m.type = "DHPart2" =>
        ctx[i].state = "NULL" \/ (ctx[i].state \in LateInitiator /\ SameIDs(ctx[i], m))
    /\ ctx[i].state \in LateInitiator => ctx[r].state \in LateResponder \cup {"NULL"}
    /\ ctx[r].state \in KeyedResponder => ctx[i].state \in LateInitiator \cup {"NULL"}
    /\ ctx[i].state \in LateInitiator /\ ctx[i].s0 # None /\ ctx[r].state # "NULL" =>
        ctx[i].s0 = AgreedS0(ctx[i], ctx[r])
    /\ ctx[r].state \in KeyedResponder /\ ctx[r].s0 # None /\ ctx[i].state # "NULL" =>
        ctx[r].s0 = AgreedS0(ctx[i], ctx[r])

AgreementInv == Agreement(initiator, Peer(initiator))

(* The initiator's matching finds the common secret. *)
LEMMA InitiatorCommon ==
    ASSUME NEW c \in Contexts, NEW m \in DHParts, ~c.mismatch,
           c.rs1 = c.rs1ID, c.rs2 = c.rs2ID, c.rs1 = None => c.rs2 = None
    PROVE  S0(ForgetPvs(InitiatorMatch(c, m))).s1 =
             Common(c.rs1ID, c.rs2ID, m.rs1ID, m.rs2ID)
BY DEF S0, ForgetPvs, InitiatorMatch, Same, Common, Contexts

(* The responder's matching finds the same one. *)
LEMMA ResponderCommon ==
    ASSUME NEW c \in Contexts, NEW m \in DHParts,
           c.rs1 = c.rs1ID, c.rs2 = c.rs2ID, c.rs1 = None => c.rs2 = None
    PROVE  S0(ForgetPvs(ResponderMatch(c, m))).s1 =
             Common(m.rs1ID, m.rs2ID, c.rs1ID, c.rs2ID)
BY DEF S0, ForgetPvs, ResponderMatch, Same, Common, Contexts

(* The two endpoints of the session. *)
LEMMA TwoEnds ==
    ASSUME TypeInv
    PROVE  /\ initiator \in Ends /\ Peer(initiator) \in Ends
           /\ Peer(initiator) # initiator /\ Peer(Peer(initiator)) = initiator
           /\ \A p \in Ends : ctx[p].state # "NULL" => p \in {initiator, Peer(initiator)}
<1>1. initiator \in {Caller, dev} /\ GlobalOK
  BY DEF TypeInv, GlobalOK
<1>2. {initiator, Peer(initiator)} = {Caller, dev}
  BY <1>1, EndsAssumption DEF GlobalOK, Peer
<1>3. \A p \in Ends : ctx[p].state # "NULL" => p \in {Caller, dev}
  BY DEF TypeInv, EndOK, ContextOK
<1> QED BY <1>1, <1>2, <1>3, PeerIsEnd

(* Steps of one endpoint, from context c to n, that cannot disturb the     *)
(* agreement: the end of the context, steps before it has hashes that      *)
(* matter, and steps that leave them alone and at most destroy s0.         *)
Harmless(p, c, n) ==
    \/ n.state = "NULL"
    \/ {c.state, n.state} \subseteq {"discovery", "agreement"}
    \/ /\ SameIDs(c, n) /\ n.s0 \in {c.s0, None}
       /\ p = initiator => (c.state \in LateInitiator <=> n.state \in LateInitiator)
       /\ p # initiator => /\ c.state \in LateResponder <=> n.state \in LateResponder
                           /\ c.state \in KeyedResponder <=> n.state \in KeyedResponder

(* Such steps preserve the agreement. *)
LEMMA AgreementFrame ==
    ASSUME TypeInv, AgreementInv, NEW p \in Ends, NEW n,
           ctx' = [ctx EXCEPT ![p] = n], UNCHANGED <<session, dev, initiator>>,
           \A m \in sent' : m \in sent \/ m.type \notin {"DHPart1", "DHPart2"},
           ctx[p].state # "NULL", Harmless(p, ctx[p], n)
    PROVE  AgreementInv'
<1>0. PICK i \in Ends, r \in Ends : i = initiator /\ r = Peer(initiator)
  BY TwoEnds
<1>1. i # r /\ p \in {i, r}
  BY <1>0, TwoEnds
<1>2. initiator' = i /\ Peer(initiator)' = r /\ Agreement(i, r)
  BY <1>0 DEF AgreementInv, Peer
<1>3. CASE p = i
  <2>1. ctx'[i] = n /\ ctx'[r] = ctx[r] /\ p = initiator
    BY <1>0, <1>1, <1>3 DEF TypeInv
  <2>2. Agreement(i, r)'
    <3>1. CASE n.state = "NULL"
      BY <1>2, <1>3, <2>1, <3>1 DEF Agreement, LateInitiator, SameIDs, AgreedS0
    <3>2. CASE {ctx[p].state, n.state} \subseteq {"discovery", "agreement"}
      BY <1>2, <1>3, <2>1, <3>2 DEF Agreement, LateInitiator, SameIDs, AgreedS0
    <3>3. CASE /\ SameIDs(ctx[p], n) /\ n.s0 \in {ctx[p].s0, None}
               /\ ctx[p].state \in LateInitiator <=> n.state \in LateInitiator
      BY <1>2, <1>3, <2>1, <3>3 DEF Agreement, SameIDs, AgreedS0
    <3> QED BY <2>1, <3>1, <3>2, <3>3 DEF Harmless
  <2> QED BY <1>2, <2>2 DEF AgreementInv
<1>4. CASE p = r
  <2>1. ctx'[r] = n /\ ctx'[i] = ctx[i] /\ p # initiator
    BY <1>0, <1>1, <1>4 DEF TypeInv
  <2>2. Agreement(i, r)'
    <3>1. CASE n.state = "NULL"
      BY <1>2, <1>4, <2>1, <3>1 DEF Agreement, KeyedResponder, SameIDs, AgreedS0
    <3>2. CASE {ctx[p].state, n.state} \subseteq {"discovery", "agreement"}
      BY <1>2, <1>4, <2>1, <3>2 DEF Agreement, LateResponder, KeyedResponder, SameIDs, AgreedS0
    <3>3. CASE /\ SameIDs(ctx[p], n) /\ n.s0 \in {ctx[p].s0, None}
               /\ ctx[p].state \in LateResponder <=> n.state \in LateResponder
               /\ ctx[p].state \in KeyedResponder <=> n.state \in KeyedResponder
      BY <1>2, <1>4, <2>1, <3>3 DEF Agreement, SameIDs, AgreedS0
    <3> QED BY <2>1, <3>1, <3>2, <3>3 DEF Harmless
  <2> QED BY <1>2, <2>2 DEF AgreementInv
<1> QED BY <1>1, <1>3, <1>4

(* The responder announces its hashes. *)
LEMMA AgreementRecvCommit ==
    ASSUME TypeInv, AgreementInv, NEW p \in Ends, RecvCommit(p)
    PROVE  AgreementInv'
<1>0. PICK i \in Ends, r \in Ends : i = initiator /\ r = Peer(initiator)
  BY TwoEnds
<1> DEFINE n == [ctx[r] EXCEPT !.state = "sendingDHPart1"]
<1>1. i # r /\ p = r
  BY <1>0, TwoEnds DEF RecvCommit
<1>2. initiator' = i /\ Peer(initiator)' = r /\ Agreement(i, r)
  BY <1>0 DEF AgreementInv, Peer, RecvCommit
<1>3. ctx'[r] = n /\ ctx'[i] = ctx[i] /\ ctx[r].state = "agreement"
  BY <1>1 DEF RecvCommit, TypeInv
<1>4. n.state = "sendingDHPart1" /\ SameIDs(ctx[r], n) /\ n.s0 = ctx[r].s0
  BY <1>1 DEF TypeInv, EndOK, Contexts, SameIDs
<1>5. /\ sent' = sent \cup {[type |-> "DHPart1", rs1ID |-> ctx[r].rs1ID,
                             rs2ID |-> ctx[r].rs2ID]}
      /\ UNCHANGED <<session, dev>>
  BY <1>1 DEF RecvCommit
<1> HIDE DEF n
<1>6. Agreement(i, r)'
  BY <1>2, <1>3, <1>4, <1>5
     DEF Agreement, LateInitiator, LateResponder, KeyedResponder, SameIDs, AgreedS0
<1> QED BY <1>2, <1>6 DEF AgreementInv

(* The matching does not change the hashes. *)
LEMMA MatchKeepsIDs ==
    ASSUME NEW c \in Contexts, NEW a \in SecretOrNone, NEW b \in SecretOrNone,
           NEW f \in BOOLEAN
    PROVE  LET n == ForgetPvs(Matched(c, a, b, f))
           IN  n \in Contexts /\ SameIDs(c, n)
<1>1. Matched(c, a, b, f) \in Contexts /\ SameIDs(c, Matched(c, a, b, f))
  BY MatchedFacts DEF SameIDs
<1>2. ASSUME NEW d \in Contexts
      PROVE  ForgetPvs(d) \in Contexts /\ SameIDs(d, ForgetPvs(d))
  <2> DEFINE pvs == d.pvs /\ ~d.mismatch
  <2>1. pvs \in BOOLEAN
    OBVIOUS
  <2>2. ForgetPvs(d) = [d EXCEPT !.pvs = pvs]
    BY DEF ForgetPvs
  <2> HIDE DEF pvs
  <2> QED BY <2>1, <2>2 DEF Contexts, SameIDs
<1> QED BY <1>1, <1>2 DEF SameIDs

(* The initiator computes the s0 that the hashes determine. *)
LEMMA AgreementRecvDHPart1 ==
    ASSUME TypeInv, AgreementInv, NEW p \in Ends, RecvDHPart1(p)
    PROVE  AgreementInv'
<1>0. PICK i \in Ends, r \in Ends : i = initiator /\ r = Peer(initiator)
  BY TwoEnds
<1>1. i # r /\ p = i /\ ctx[i].state = "agreement"
  BY <1>0, TwoEnds DEF RecvDHPart1
<1>2. initiator' = i /\ Peer(initiator)' = r /\ Agreement(i, r)
  BY <1>0 DEF AgreementInv, Peer, RecvDHPart1
<1>3. PICK m \in sent :
        /\ m.type = "DHPart1"
        /\ LET c == ForgetPvs(InitiatorMatch(ctx[i], m)) IN
            ctx' = [ctx EXCEPT ![i] = [c EXCEPT !.state = "sendingDHPart2", !.s0 = S0(c)]]
  BY <1>1 DEF RecvDHPart1, TypeInv
<1> DEFINE c == ForgetPvs(InitiatorMatch(ctx[i], m))
           n == [c EXCEPT !.state = "sendingDHPart2", !.s0 = S0(c)]
<1>4. /\ m \in DHParts /\ ctx[i] \in Contexts /\ ~ctx[i].mismatch
      /\ ctx[i].rs1 = ctx[i].rs1ID /\ ctx[i].rs2 = ctx[i].rs2ID
      /\ ctx[i].rs1 = None => ctx[i].rs2 = None
  BY <1>1, <1>3, MessageKinds DEF TypeInv, EndOK, ContextOK, Before
<1>5. n.state = "sendingDHPart2" /\ SameIDs(ctx[i], n) /\ n.s0 = S0(c)
  <2>1. PICK a \in {ctx[i].rs1, None}, b \in {ctx[i].rs2, None}, f \in BOOLEAN :
          InitiatorMatch(ctx[i], m) = Matched(ctx[i], a, b, f)
    BY <1>4, InitiatorMatchFacts
  <2>2. a \in SecretOrNone /\ b \in SecretOrNone
    BY <1>4 DEF Contexts, SecretOrNone
  <2>3. c \in Contexts /\ SameIDs(ctx[i], c)
    BY <1>4, <2>1, <2>2, MatchKeepsIDs
  <2> HIDE DEF c
  <2> QED BY <2>3 DEF Contexts, SameIDs
<1>6. S0(c) = [session |-> session, dev |-> dev,
               s1 |-> Common(ctx[i].rs1ID, ctx[i].rs2ID, m.rs1ID, m.rs2ID)]
  BY <1>4, InitiatorCommon DEF S0
<1>7. ctx'[i] = n /\ ctx'[r] = ctx[r]
  BY <1>1, <1>3 DEF TypeInv
<1>8. /\ sent' = sent \cup {[type |-> "DHPart2", rs1ID |-> ctx[i].rs1ID,
                             rs2ID |-> ctx[i].rs2ID]}
      /\ UNCHANGED <<session, dev>>
  BY <1>1 DEF RecvDHPart1
<1> HIDE DEF c, n
<1>9. ctx[r].state = "NULL" \/ (ctx[r].state \in LateResponder /\ SameIDs(ctx[r], m))
  BY <1>2, <1>3 DEF Agreement
<1>10. Agreement(i, r)'
  BY <1>1, <1>2, <1>5, <1>6, <1>7, <1>8, <1>9
     DEF Agreement, LateInitiator, LateResponder, KeyedResponder, SameIDs, AgreedS0
<1> QED BY <1>2, <1>10 DEF AgreementInv

(* So does the responder. *)
LEMMA AgreementRecvDHPart2 ==
    ASSUME TypeInv, AgreementInv, NEW p \in Ends, RecvDHPart2(p)
    PROVE  AgreementInv'
<1>0. PICK i \in Ends, r \in Ends : i = initiator /\ r = Peer(initiator)
  BY TwoEnds
<1>1. i # r /\ p = r /\ ctx[r].state = "sendingDHPart1"
  BY <1>0, TwoEnds DEF RecvDHPart2
<1>2. initiator' = i /\ Peer(initiator)' = r /\ Agreement(i, r)
  BY <1>0 DEF AgreementInv, Peer, RecvDHPart2
<1>3. PICK m \in sent :
        /\ m.type = "DHPart2"
        /\ LET c == ForgetPvs(ResponderMatch(ctx[r], m)) IN
            /\ ctx' = [ctx EXCEPT ![r] = [c EXCEPT !.state = "sendingConfirm1", !.s0 = S0(c)]]
            /\ sent' = sent \cup {[type |-> "Confirm1", s0 |-> S0(c), V |-> c.pvs]}
  BY <1>1 DEF RecvDHPart2, TypeInv
<1> DEFINE c == ForgetPvs(ResponderMatch(ctx[r], m))
           n == [c EXCEPT !.state = "sendingConfirm1", !.s0 = S0(c)]
<1>4. /\ m \in DHParts /\ ctx[r] \in Contexts
      /\ ctx[r].rs1 = ctx[r].rs1ID /\ ctx[r].rs2 = ctx[r].rs2ID
      /\ ctx[r].rs1 = None => ctx[r].rs2 = None
  BY <1>1, <1>3, MessageKinds DEF TypeInv, EndOK, ContextOK
<1>5. n.state = "sendingConfirm1" /\ SameIDs(ctx[r], n) /\ n.s0 = S0(c)
  <2>1. PICK a \in {ctx[r].rs1, None}, b \in {ctx[r].rs2, None}, f \in BOOLEAN :
          ResponderMatch(ctx[r], m) = Matched(ctx[r], a, b, f)
    BY <1>4, ResponderMatchFacts
  <2>2. a \in SecretOrNone /\ b \in SecretOrNone
    BY <1>4 DEF Contexts, SecretOrNone
  <2>3. c \in Contexts /\ SameIDs(ctx[r], c)
    BY <1>4, <2>1, <2>2, MatchKeepsIDs
  <2> HIDE DEF c
  <2> QED BY <2>3 DEF Contexts, SameIDs
<1>6. S0(c) = [session |-> session, dev |-> dev,
               s1 |-> Common(m.rs1ID, m.rs2ID, ctx[r].rs1ID, ctx[r].rs2ID)]
  BY <1>4, ResponderCommon DEF S0
<1>7. ctx'[r] = n /\ ctx'[i] = ctx[i]
  BY <1>1, <1>3 DEF TypeInv
<1>8. /\ \A k \in sent' : k \in sent \/ k.type \notin {"DHPart1", "DHPart2"}
      /\ UNCHANGED <<session, dev>>
  BY <1>1, <1>3 DEF RecvDHPart2
<1> HIDE DEF c, n
<1>9. ctx[i].state = "NULL" \/ (ctx[i].state \in LateInitiator /\ SameIDs(ctx[i], m))
  BY <1>2, <1>3 DEF Agreement
<1>10. Agreement(i, r)'
  BY <1>1, <1>2, <1>5, <1>6, <1>7, <1>8, <1>9
     DEF Agreement, LateInitiator, LateResponder, KeyedResponder, SameIDs, AgreedS0
<1> QED BY <1>2, <1>10 DEF AgreementInv

(* The agreement is preserved by every step. *)
LEMMA AgreementNext == TypeInv /\ AgreementInv /\ [Next]_vars => AgreementInv'
<1> SUFFICES ASSUME TypeInv, AgreementInv, [Next]_vars PROVE AgreementInv'
  OBVIOUS
<1> USE DEF TypeInv
<1>1. CASE UNCHANGED vars
  BY <1>1 DEF vars, AgreementInv, Agreement, Peer, AgreedS0
<1>2. ASSUME NEW d \in Devices, NEW j \in {Caller, d}, Start(d, j) PROVE AgreementInv'
  <2>1. \A p \in Ends : ctx'[p].state \in {"NULL", "discovery"}
    BY <1>2 DEF Start, NoContext
  <2>2. sent' = {} /\ initiator' \in Ends /\ Peer(initiator)' \in Ends
    BY <1>2 DEF Start, Ends, Peer
  <2> QED BY <2>1, <2>2 DEF AgreementInv, Agreement, LateInitiator, LateResponder,
                            KeyedResponder
<1>3. CASE SetPeerHelloHash
  <2> DEFINE n == [ctx[Caller] EXCEPT !.helloHash = TRUE,
                     !.state = IF ctx[Caller].peerZID \in {None, dev} THEN @ ELSE "discovery"]
  <2>1. Caller \in Ends /\ ctx' = [ctx EXCEPT ![Caller] = n] /\ ctx[Caller].state # "NULL"
    BY <1>3 DEF SetPeerHelloHash, Ends
  <2>2. Harmless(Caller, ctx[Caller], n)
    <3>1. ctx[Caller] \in Contexts /\ EndOK(Caller, ctx[Caller], cache[Caller])
      BY <2>1
    <3>2. CASE ctx[Caller].peerZID \in {None, dev}
      <4>1. n = [ctx[Caller] EXCEPT !.helloHash = TRUE]
        BY <3>1, <3>2 DEF Contexts
      <4> HIDE DEF n
      <4>2. SameIDs(ctx[Caller], n) /\ n.s0 = ctx[Caller].s0 /\ n.state = ctx[Caller].state
        BY <3>1, <4>1 DEF Contexts, SameIDs
      <4> QED BY <4>2 DEF Harmless
    <3>3. CASE ctx[Caller].peerZID \notin {None, dev}
      <4>1. ctx[Caller].state \in {"discovery", "agreement"}
        BY <2>1, <3>1, <3>3 DEF EndOK, ContextOK, Peer, Before
      <4>2. n.state = "discovery"
        BY <3>1, <3>3 DEF Contexts
      <4> QED BY <4>1, <4>2 DEF Harmless
    <3> QED BY <3>2, <3>3
  <2>3. UNCHANGED <<session, dev, initiator, sent>>
    BY <1>3 DEF SetPeerHelloHash
  <2> HIDE DEF n
  <2> QED BY <2>1, <2>2, <2>3, AgreementFrame
<1>4. ASSUME NEW p \in Ends, NEW q \in Ends, RecvHello(p, q) PROVE AgreementInv'
  <2> DEFINE c == Loaded(ctx[p], cache[p][q], q)
             n == [c EXCEPT !.state = "agreement", !.peerZID = q,
                            !.rs1ID = c.rs1, !.rs2ID = c.rs2]
  <2>1. ctx' = [ctx EXCEPT ![p] = n] /\ ctx[p].state = "discovery"
    BY <1>4 DEF RecvHello
  <2>2. n.state = "agreement"
    <3>1. /\ ctx[p] \in Contexts /\ cache[p][q] \in Rows
          /\ cache[p][q].rs1 = None => cache[p][q].rs2 = None
          /\ ctx[p].rs1 # None => ctx[p].zuid # None
      BY DEF EndOK, ContextOK, RowsOK
    <3>2. c \in Contexts
      BY <3>1, LoadedFacts
    <3> HIDE DEF c
    <3> QED BY <3>2 DEF Contexts
  <2>3. Harmless(p, ctx[p], n)
    BY <2>1, <2>2 DEF Harmless
  <2>4. /\ UNCHANGED <<session, dev, initiator>>
        /\ \A m \in sent' : m \in sent \/ m.type \notin {"DHPart1", "DHPart2"}
    BY <1>4 DEF RecvHello
  <2> HIDE DEF n
  <2> QED BY <2>1, <2>3, <2>4, AgreementFrame
<1>5. ASSUME NEW p \in Ends, RecvConfirm1(p) PROVE AgreementInv'
  <2>1. PICK v : ctx' = [ctx EXCEPT ![p].state = "sendingConfirm2", ![p].peerPVS = v]
    BY <1>5 DEF RecvConfirm1
  <2> DEFINE n == [ctx[p] EXCEPT !.state = "sendingConfirm2", !.peerPVS = v]
  <2>2. ctx' = [ctx EXCEPT ![p] = n] /\ ctx[p].state = "sendingDHPart2" /\ p = initiator
    BY <1>5, <2>1 DEF RecvConfirm1
  <2>3. Harmless(p, ctx[p], n)
    BY <2>2 DEF Harmless, SameIDs, Contexts, LateInitiator
  <2>4. /\ UNCHANGED <<session, dev, initiator>>
        /\ \A m \in sent' : m \in sent \/ m.type \notin {"DHPart1", "DHPart2"}
    BY <1>5 DEF RecvConfirm1
  <2> HIDE DEF n
  <2> QED BY <2>2, <2>3, <2>4, AgreementFrame
<1>6. ASSUME NEW p \in Ends, RecvConfirm2(p) PROVE AgreementInv'
  <2>1. PICK v : ctx' = [ctx EXCEPT ![p] =
                           EnterSecure(UpdatedContext([ctx[p] EXCEPT !.peerPVS = v]))]
    BY <1>6 DEF RecvConfirm2
  <2> DEFINE n == EnterSecure(UpdatedContext([ctx[p] EXCEPT !.peerPVS = v]))
  <2>2. ctx[p].state = "sendingConfirm1" /\ p # initiator
    BY <1>6 DEF RecvConfirm2
  <2>3. Harmless(p, ctx[p], n)
    BY <2>2 DEF Harmless, SameIDs, Contexts, LateResponder, KeyedResponder,
                EnterSecure, UpdatedContext
  <2>4. /\ UNCHANGED <<session, dev, initiator>>
        /\ \A m \in sent' : m \in sent \/ m.type \notin {"DHPart1", "DHPart2"}
    BY <1>6 DEF RecvConfirm2
  <2> HIDE DEF n
  <2>5. ctx' = [ctx EXCEPT ![p] = n]
    BY <2>1 DEF n
  <2> QED BY <2>2, <2>3, <2>4, <2>5, AgreementFrame
<1>7. ASSUME NEW p \in Ends, RecvConf2ACK(p) PROVE AgreementInv'
  <2> DEFINE n == EnterSecure(UpdatedContext(ctx[p]))
  <2>1. ctx' = [ctx EXCEPT ![p] = n] /\ ctx[p].state = "sendingConfirm2" /\ p = initiator
    BY <1>7 DEF RecvConf2ACK
  <2>2. Harmless(p, ctx[p], n)
    BY <2>1 DEF Harmless, SameIDs, Contexts, LateInitiator, EnterSecure, UpdatedContext
  <2>3. UNCHANGED <<session, dev, initiator, sent>>
    BY <1>7 DEF RecvConf2ACK
  <2> HIDE DEF n
  <2> QED BY <2>1, <2>2, <2>3, AgreementFrame
<1>8. ASSUME NEW p \in Ends, SASVerified(p) PROVE AgreementInv'
  <2> DEFINE c == [ctx[p] EXCEPT !.mismatch = FALSE]
             n == IF ctx[p].mismatch THEN UpdatedContext(c) ELSE c
  <2>1. ctx' = [ctx EXCEPT ![p] = n] /\ ctx[p].state = "secure"
    BY <1>8 DEF SASVerified
  <2>2. Harmless(p, ctx[p], n)
    BY <2>1 DEF Harmless, SameIDs, Contexts, UpdatedContext
  <2>3. UNCHANGED <<session, dev, initiator, sent>>
    BY <1>8 DEF SASVerified
  <2> HIDE DEF n
  <2> QED BY <2>1, <2>2, <2>3, AgreementFrame
<1>9. ASSUME NEW p \in Ends, ResetSASVerified(p) PROVE AgreementInv'
  BY <1>9 DEF ResetSASVerified, AgreementInv, Agreement, Peer, AgreedS0
<1>10. ASSUME NEW p \in Ends, End(p) PROVE AgreementInv'
  <2>1. Harmless(p, ctx[p], NoContext)
    BY DEF Harmless, NoContext
  <2> QED BY <1>10, <2>1, AgreementFrame DEF End
<1>11. ASSUME NEW p \in Ends, RecvCommit(p) \/ RecvDHPart1(p) \/ RecvDHPart2(p)
       PROVE  AgreementInv'
  BY <1>11, AgreementRecvCommit, AgreementRecvDHPart1, AgreementRecvDHPart2
<1> QED BY <1>1, <1>2, <1>3, <1>4, <1>5, <1>6, <1>7, <1>8, <1>9, <1>10, <1>11 DEF Next

(* SameS0: whatever the two caches hold, and wherever earlier sessions     *)
(* were cut, the matching on DHPart1 and the matching on DHPart2 settle on *)
(* the same retained secret, so that the Confirm messages can be checked.  *)
THEOREM S0Agreement == Spec => []SameS0
<1>1. Init => AgreementInv
  <2>1. Init => \A p \in Ends : ctx[p].state = "NULL"
    BY DEF Init, NoContext
  <2>2. Init => sent = {} /\ initiator \in Ends /\ Peer(initiator) \in Ends
    BY DEF Init, Ends, Peer
  <2> QED BY <2>1, <2>2 DEF AgreementInv, Agreement, LateInitiator, KeyedResponder
<1>2. TypeInv /\ AgreementInv => SameS0
  <2> SUFFICES ASSUME TypeInv, AgreementInv, NEW p \in Ends,
                      ctx[p].s0 # None, ctx[Peer(p)].s0 # None
               PROVE  ctx[p].s0 = ctx[Peer(p)].s0
    BY DEF SameS0
  <2> DEFINE i == initiator
             r == Peer(initiator)
  <2>1. /\ i \in Ends /\ r \in Ends /\ i # r /\ Peer(r) = i
        /\ \A q \in Ends : ctx[q].state # "NULL" => q \in {i, r}
    BY TwoEnds
  <2>2. \A q \in Ends : EndOK(q, ctx[q], cache[q])
    BY DEF TypeInv
  <2>3. p \in {i, r} /\ {p, Peer(p)} = {i, r}
    BY <2>1, <2>2 DEF EndOK, ContextOK, InitiatorStates
  <2>4. ctx[i].s0 # None /\ ctx[r].s0 # None
    BY <2>3
  <2>5. ctx[i].state \in LateInitiator /\ ctx[r].state \in KeyedResponder
    BY <2>1, <2>2, <2>4 DEF EndOK, ContextOK, ResponderStates, InitiatorStates,
                            LateInitiator, KeyedResponder
  <2>6. ctx[i].s0 = ctx[r].s0
    BY <2>4, <2>5 DEF AgreementInv, Agreement, LateInitiator, KeyedResponder
  <2> QED BY <2>3, <2>6
<1> QED BY <1>1, <1>2, AgreementNext, TypeInvariance, PTL DEF Spec
=============================================================================
