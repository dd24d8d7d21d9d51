----------------------- MODULE RetainedVerifiedProofs -----------------------
(***************************************************************************)
(* Proofs about the two flags of RetainedSecrets, for any number of        *)
(* sessions: the verified flag follows the chain of secrets whose SAS the  *)
(* user has confirmed, and the mismatch flag is not raised by one session  *)
(* that was cut.                                                           *)
(***************************************************************************)
EXTENDS RetainedSecretsProofs

(* The two secrets of a row are of one chain, which is confirmed if the    *)
(* row is flagged as verified.                                             *)
RowsChained(rows, chains) ==
    \A q \in Ends :
        /\ rows[q].rs2 # None => rows[q].rs1 # None /\ rows[q].rs2.root = rows[q].rs1.root
        /\ rows[q].pvs => rows[q].rs1 # None /\ rows[q].rs1.root \in chains

(* The secret of the row in use is of the chain r. *)
RowRoot(c, rows, r) ==
    c.zuid # None /\ rows[c.zuid].rs1 # None /\ rows[c.zuid].rs1.root = r

(* Chains that are confirmed, as the row in use tells. *)
RowIn(c, rows, chains) ==
    c.zuid # None /\ rows[c.zuid].rs1 # None /\ rows[c.zuid].rs1.root \in chains

(* The secrets and the s0 of a context are of the chain of the row in use; *)
(* there are none if there is no row.                                      *)
Chained(c, rows) ==
    /\ c.rs1 # None => RowRoot(c, rows, c.rs1.root)
    /\ c.rs2 # None => RowRoot(c, rows, c.rs2.root)
    /\ c.state \notin {"NULL", "discovery"} /\ c.zuid = None => rows[c.peerZID].rs1 = None
    /\ c.state \in {"agreement", "sendingDHPart1"} /\ c.zuid # None => c.rs1 # None
    /\ c.mismatch => c.rs1 = None /\ c.rs2 = None
    /\ c.s0 # None /\ ~c.mismatch /\ c.zuid = None => c.s0.s1 = None
    /\ c.s0 # None /\ ~c.mismatch /\ c.zuid # None =>
          c.s0.s1 # None /\ RowRoot(c, rows, c.s0.s1.root)

(* What the flag of a context, and what the client was told, say of the    *)
(* chains the user has confirmed, mine, and those the peer's has.          *)
FlagsTrue(c, rows, mine, peers) ==
    /\ c.pvs /\ c.state # "secure" => ~c.mismatch /\ RowIn(c, rows, mine)
    /\ c.peerPVS /\ c.state # "secure" =>
          c.s0 # None /\ RetainedSecret(c.s0).root \in peers
    /\ c.told => /\ c.state = "secure" /\ ~c.mismatch
                 /\ RowIn(c, rows, mine) /\ RowIn(c, rows, peers)

EndVerified(p, c, rows) ==
    /\ RowsChained(rows, confirmed[p])
    /\ Chained(c, rows)
    /\ FlagsTrue(c, rows, confirmed[p], confirmed[Peer(p)])

(* The V flag of a Confirm message says the same. *)
MessageTrue(m) ==
    /\ m.type = "Confirm1" /\ m.V => RetainedSecret(m.s0).root \in confirmed[Peer(initiator)]
    /\ m.type = "Confirm2" /\ m.V => RetainedSecret(m.s0).root \in confirmed[initiator]

VerifiedInv ==
    /\ \A p \in Ends : EndVerified(p, ctx[p], cache[p])
    /\ \A m \in sent : MessageTrue(m)

-----------------------------------------------------------------------------
(* Confirming another chain harms nothing. *)
LEMMA MoreConfirmed ==
    ASSUME NEW c, NEW rows, NEW S, NEW T \in SUBSET S, NEW U, NEW V \in SUBSET U
    PROVE  /\ RowsChained(rows, T) => RowsChained(rows, S)
           /\ FlagsTrue(c, rows, T, V) => FlagsTrue(c, rows, S, U)
<1>1. RowsChained(rows, T) => RowsChained(rows, S)
  BY DEF RowsChained
<1>2. FlagsTrue(c, rows, T, V) => FlagsTrue(c, rows, S, U)
  BY DEF FlagsTrue, RowIn
<1> QED BY <1>1, <1>2

(* A step that changes the context and the rows of one end. *)
LEMMA VerifiedFrame ==
    ASSUME TypeInv, VerifiedInv, NEW p \in Ends, NEW c, NEW rows,
           ctx' = [ctx EXCEPT ![p] = c], cache' = [cache EXCEPT ![p] = rows],
           UNCHANGED <<dev, initiator>>,
           \A q \in Ends : confirmed[q] \subseteq confirmed'[q],
           RowsChained(rows, confirmed'[p]), Chained(c, rows),
           FlagsTrue(c, rows, confirmed'[p], confirmed'[Peer(p)]),
           \A m \in sent' : m \in sent \/ MessageTrue(m)
    PROVE  VerifiedInv'
<1>0. \A q \in Ends : Peer(q) \in Ends /\ Peer(q)' = Peer(q)
  BY DEF Peer, Ends, TypeInv, GlobalOK
<1>1. ASSUME NEW q \in Ends PROVE EndVerified(q, ctx[q], cache[q])'
  <2>1. CASE q = p
    BY <1>0, <2>1 DEF EndVerified, TypeInv
  <2>2. CASE q # p
    <3>1. ctx'[q] = ctx[q] /\ cache'[q] = cache[q]
      BY <2>2 DEF TypeInv
    <3>2. EndVerified(q, ctx[q], cache[q])
      BY DEF VerifiedInv
    <3>3. confirmed[q] \in SUBSET confirmed'[q] /\ confirmed[Peer(q)] \in SUBSET confirmed'[Peer(q)]
      BY <1>0
    <3> QED BY <1>0, <3>1, <3>2, <3>3, MoreConfirmed DEF EndVerified
  <2> QED BY <2>1, <2>2
<1>2. ASSUME NEW m \in sent' PROVE MessageTrue(m)'
  <2>1. MessageTrue(m)
    BY DEF VerifiedInv
  <2>2. initiator \in Ends
    BY DEF TypeInv, GlobalOK, Ends
  <2> QED BY <1>0, <2>1, <2>2 DEF MessageTrue
<1> QED BY <1>1, <1>2 DEF VerifiedInv

(* The same when neither the rows nor what is confirmed change. *)
LEMMA VerifiedContext ==
    ASSUME TypeInv, VerifiedInv, NEW p \in Ends, NEW c,
           ctx' = [ctx EXCEPT ![p] = c], UNCHANGED <<dev, initiator, cache, confirmed>>,
           Chained(c, cache[p]), FlagsTrue(c, cache[p], confirmed[p], confirmed[Peer(p)]),
           \A m \in sent' : m \in sent \/ MessageTrue(m)
    PROVE  VerifiedInv'
<1>1. cache' = [cache EXCEPT ![p] = cache[p]]
  BY DEF TypeInv
<1>2. RowsChained(cache[p], confirmed'[p])
  BY DEF VerifiedInv, EndVerified
<1>3. FlagsTrue(c, cache[p], confirmed'[p], confirmed'[Peer(p)])
  OBVIOUS
<1>4. \A q \in Ends : confirmed[q] \subseteq confirmed'[q]
  OBVIOUS
<1> QED BY <1>1, <1>2, <1>3, <1>4, VerifiedFrame

(* The chain an s0 belongs to is that of the row in use. *)
LEMMA ChainOfS0 ==
    ASSUME NEW c, NEW rows, Chained(c, rows), c.s0 # None, ~c.mismatch
    PROVE  /\ c.zuid # None => RowRoot(c, rows, RetainedSecret(c.s0).root)
           /\ c.zuid = None => RetainedSecret(c.s0).root = c.s0.session
BY DEF Chained, RowRoot, RetainedSecret

(* Contexts that have loaded nothing. *)
LEMMA VerifiedStart ==
    ASSUME TypeInv, VerifiedInv, NEW d \in Devices, NEW i \in {Caller, d}, Start(d, i)
    PROVE  VerifiedInv'
<1>1. sent' = {} /\ UNCHANGED <<cache, confirmed>>
  BY DEF Start
<1>2. ASSUME NEW q \in Ends PROVE EndVerified(q, ctx[q], cache[q])'
  <2>1. /\ ctx'[q].state \in {"NULL", "discovery"} /\ ctx'[q].rs1 = None /\ ctx'[q].rs2 = None
        /\ ctx'[q].mismatch = FALSE /\ ctx'[q].s0 = None /\ ctx'[q].pvs = FALSE
        /\ ctx'[q].peerPVS = FALSE /\ ctx'[q].told = FALSE
    BY DEF Start, NoContext
  <2>2. RowsChained(cache[q], confirmed[q])
    BY DEF VerifiedInv, EndVerified
  <2>3. Chained(ctx'[q], cache[q])
    BY <2>1 DEF Chained
  <2>4. FlagsTrue(ctx'[q], cache'[q], confirmed'[q], confirmed'[Peer(q)'])
    BY <2>1 DEF FlagsTrue
  <2> QED BY <1>1, <2>2, <2>3, <2>4 DEF EndVerified
<1> QED BY <1>1, <1>2 DEF VerifiedInv

(* The restart of a session. *)
LEMMA VerifiedSetPeerHelloHash ==
    ASSUME TypeInv, VerifiedInv, SetPeerHelloHash
    PROVE  VerifiedInv'
<1> DEFINE c == ctx[Caller]
           s == IF c.peerZID \in {None, dev} THEN c.state ELSE "discovery"
           n == [c EXCEPT !.helloHash = TRUE, !.state = s]
<1>0. /\ Caller \in Ends /\ EndOK(Caller, c, cache[Caller]) /\ c \in Contexts
      /\ EndVerified(Caller, c, cache[Caller])
  BY DEF TypeInv, VerifiedInv, Ends
<1>1. ctx' = [ctx EXCEPT ![Caller] = n] /\ UNCHANGED <<dev, initiator, cache, confirmed, sent>>
  BY <1>0 DEF SetPeerHelloHash, TypeInv
<1>2. s = c.state \/ (s = "discovery" /\ c.state \in Before)
  BY <1>0 DEF EndOK, ContextOK, Peer
<1> HIDE DEF s
<1>3. /\ n.state = s /\ n.peerZID = c.peerZID /\ n.rs1 = c.rs1 /\ n.rs2 = c.rs2
      /\ n.mismatch = c.mismatch /\ n.s0 = c.s0 /\ n.zuid = c.zuid
      /\ n.pvs = c.pvs /\ n.peerPVS = c.peerPVS /\ n.told = c.told
  BY <1>0 DEF Contexts
<1> HIDE DEF c, n
<1>4. Chained(n, cache[Caller])
  BY <1>0, <1>2, <1>3 DEF EndVerified, Chained, RowRoot
<1>5. FlagsTrue(n, cache[Caller], confirmed[Caller], confirmed[Peer(Caller)])
  BY <1>0, <1>2, <1>3 DEF EndVerified, FlagsTrue, RowIn, Before
<1> QED BY <1>0, <1>1, <1>4, <1>5, VerifiedContext

(* Loading a row, or keeping what is loaded. *)
LEMMA VerifiedRecvHello ==
    ASSUME TypeInv, VerifiedInv, NEW p \in Ends, NEW q \in Ends, RecvHello(p, q)
    PROVE  VerifiedInv'
<1> DEFINE o == ctx[p]
           rows == cache[p]
           c == Loaded(o, rows[q], q)
           n == [c EXCEPT !.state = "agreement", !.peerZID = q,
                          !.rs1ID = c.rs1, !.rs2ID = c.rs2]
<1>0. /\ EndOK(p, o, rows) /\ o \in Contexts /\ o.state = "discovery" /\ rows[q] \in Rows
      /\ EndVerified(p, o, rows) /\ q # None
  BY EndsAssumption DEF TypeInv, VerifiedInv, RecvHello, Ends
<1>1. ctx' = [ctx EXCEPT ![p] = n] /\ UNCHANGED <<dev, initiator, cache, confirmed>>
  BY DEF RecvHello
<1>2. \A m \in sent' : m \in sent \/ MessageTrue(m)
  BY DEF RecvHello, MessageTrue
<1>3. ~o.mismatch /\ o.s0 = None /\ (o.rs1 # None => o.zuid # None)
  BY <1>0 DEF EndOK, ContextOK, Before, InitiatorStates
<1>4. /\ c \in Contexts /\ c.mismatch = o.mismatch /\ c.s0 = o.s0
      /\ c.peerPVS = o.peerPVS /\ c.told = o.told
      /\ \/ /\ o.rs1 # None
            /\ c.rs1 = o.rs1 /\ c.rs2 = o.rs2 /\ c.pvs = o.pvs /\ c.zuid = o.zuid
         \/ /\ c.rs1 = rows[q].rs1 /\ c.rs2 = rows[q].rs2 /\ c.pvs = rows[q].pvs
            /\ c.zuid = IF rows[q].rs1 = None THEN None ELSE q
  <2>1. CASE o.rs1 # None
    BY <1>0, <2>1 DEF Loaded
  <2>2. CASE o.rs1 = None
    BY <1>0, <2>2 DEF Loaded, Contexts, Rows
  <2> QED BY <2>1, <2>2
<1> HIDE DEF c
<1>5. /\ n.state = "agreement" /\ n.peerZID = q /\ n.rs1 = c.rs1 /\ n.rs2 = c.rs2
      /\ n.mismatch = c.mismatch /\ n.s0 = c.s0 /\ n.zuid = c.zuid
      /\ n.pvs = c.pvs /\ n.peerPVS = c.peerPVS /\ n.told = c.told
  BY <1>4 DEF Contexts
<1> HIDE DEF n
<1>6. /\ RowsChained(rows, confirmed[p]) /\ Chained(o, rows)
      /\ FlagsTrue(o, rows, confirmed[p], confirmed[Peer(p)])
  BY <1>0 DEF EndVerified
<1> HIDE DEF o, rows
<1>7. Chained(n, rows)
  BY <1>0, <1>3, <1>4, <1>5, <1>6 DEF Chained, RowRoot, RowsChained
<1>8. FlagsTrue(n, rows, confirmed[p], confirmed[Peer(p)])
  BY <1>0, <1>3, <1>4, <1>5, <1>6 DEF FlagsTrue, RowIn, RowsChained
<1> QED BY <1>1, <1>2, <1>7, <1>8, VerifiedContext DEF rows

(* The responder answers a Commit. *)
LEMMA VerifiedRecvCommit ==
    ASSUME TypeInv, VerifiedInv, NEW p \in Ends, RecvCommit(p)
    PROVE  VerifiedInv'
<1> DEFINE o == ctx[p]
           n == [o EXCEPT !.state = "sendingDHPart1"]
<1>0. /\ o \in Contexts /\ o.state = "agreement" /\ EndVerified(p, o, cache[p])
      /\ EndOK(p, o, cache[p])
  BY DEF TypeInv, VerifiedInv, RecvCommit
<1>1. ctx' = [ctx EXCEPT ![p] = n] /\ UNCHANGED <<dev, initiator, cache, confirmed>>
  BY DEF RecvCommit
<1>2. \A m \in sent' : m \in sent \/ MessageTrue(m)
  BY DEF RecvCommit, MessageTrue
<1>3. /\ n.state = "sendingDHPart1" /\ n.peerZID = o.peerZID /\ n.rs1 = o.rs1 /\ n.rs2 = o.rs2
      /\ n.mismatch = o.mismatch /\ n.s0 = o.s0 /\ n.zuid = o.zuid
      /\ n.pvs = o.pvs /\ n.peerPVS = o.peerPVS /\ n.told = o.told
  BY <1>0 DEF Contexts
<1> HIDE DEF o, n
<1>4. Chained(n, cache[p])
  BY <1>0, <1>3 DEF EndVerified, Chained, RowRoot
<1>5. FlagsTrue(n, cache[p], confirmed[p], confirmed[Peer(p)])
  BY <1>0, <1>3 DEF EndVerified, FlagsTrue, RowIn
<1> QED BY <1>1, <1>2, <1>4, <1>5, VerifiedContext

(* What is kept of the secrets: one at least, or a mismatch. *)
KeepsOne(c, a, b, e) ==
    /\ e => a = None /\ b = None /\ c.rs1 # None
    /\ ~e /\ c.rs1 # None => a # None \/ b # None

(* Without a mismatch the initiator keeps a secret if it had one. *)
LEMMA InitiatorKeepsOne ==
    ASSUME NEW c \in Contexts, NEW m, ~c.mismatch, c.rs1 = c.rs1ID, c.rs2 = c.rs2ID
    PROVE  \E a \in {c.rs1, None}, b \in {c.rs2, None}, e \in BOOLEAN :
           InitiatorMatch(c, m) = Matched(c, a, b, e) /\ KeepsOne(c, a, b, e)
<1> DEFINE keep1 == Same(c.rs1ID, m.rs1ID) \/ Same(c.rs1ID, m.rs2ID)
           keep2 == Same(c.rs2ID, m.rs1ID) \/ Same(c.rs2ID, m.rs2ID)
           lost1 == c.rs1 # None /\ ~keep1
           flag  == c.mismatch \/ lost1
           a == IF lost1 THEN None ELSE c.rs1
           b == IF flag /\ ~keep2 THEN None ELSE c.rs2
           e == flag /\ ~keep2
<1>1. InitiatorMatch(c, m) = Matched(c, a, b, e)
  BY DEF InitiatorMatch, Matched
<1>2. a \in {c.rs1, None} /\ b \in {c.rs2, None} /\ e \in BOOLEAN
  OBVIOUS
<1>3. KeepsOne(c, a, b, e)
  BY DEF KeepsOne, Same
<1> HIDE DEF a, b, e
<1> QED BY <1>1, <1>2, <1>3

(* So does the responder. *)
LEMMA ResponderKeepsOne ==
    ASSUME NEW c \in Contexts, NEW m, ~c.mismatch, c.rs1 = c.rs1ID, c.rs2 = c.rs2ID
    PROVE  \E a \in {c.rs1, None}, b \in {c.rs2, None}, e \in BOOLEAN :
           ResponderMatch(c, m) = Matched(c, a, b, e) /\ KeepsOne(c, a, b, e)
<1> DEFINE first  == Same(c.rs1ID, m.rs1ID)
           second == ~first /\ Same(c.rs2ID, m.rs1ID)
           third  == ~first /\ ~second /\ Same(c.rs1ID, m.rs2ID)
           fourth == ~first /\ ~second /\ ~third /\ Same(c.rs2ID, m.rs2ID)
           a == IF first \/ third THEN c.rs1 ELSE None
           b == IF first \/ second \/ third \/ fourth THEN c.rs2 ELSE None
           e == c.mismatch \/ ~(first \/ second \/ third \/ fourth)
<1>1. CASE c.rs1 = None
  <2>1. c = Matched(c, c.rs1, c.rs2, c.mismatch)
    BY DEF Matched, Contexts
  <2>2. c.mismatch \in BOOLEAN /\ KeepsOne(c, c.rs1, c.rs2, c.mismatch)
    BY <1>1 DEF Contexts, KeepsOne
  <2> QED BY <1>1, <2>1, <2>2 DEF ResponderMatch
<1>2. CASE c.rs1 # None
  <2>1. ResponderMatch(c, m) = Matched(c, a, b, e)
    BY <1>2 DEF ResponderMatch, Matched
  <2>2. a \in {c.rs1, None} /\ b \in {c.rs2, None} /\ e \in BOOLEAN
    OBVIOUS
  <2>3. KeepsOne(c, a, b, e)
    BY <1>2 DEF KeepsOne, Same
  <2> HIDE DEF a, b, e
  <2> QED BY <2>1, <2>2, <2>3
<1> QED BY <1>1, <1>2

(* A mismatch leaves the secrets of the rows alone and can only reset a    *)
(* verified flag.                                                          *)
OnlyReset(rows, new) ==
    \A q \in Ends : /\ new[q].rs1 = rows[q].rs1 /\ new[q].rs2 = rows[q].rs2
                    /\ new[q].pvs => rows[q].pvs

(* ForgetRowPvs touches no secret. *)
LEMMA ForgetOnlyResets ==
    ASSUME NEW rows \in [Ends -> Rows], NEW c \in Contexts
    PROVE  OnlyReset(rows, ForgetRowPvs(rows, c))
<1>1. CASE c.mismatch /\ c.zuid # None
  <2>1. c.zuid \in Ends
    BY <1>1 DEF Contexts
  <2> DEFINE new == [rows EXCEPT ![c.zuid].pvs = FALSE]
  <2>2. ForgetRowPvs(rows, c) = new
    BY <1>1 DEF ForgetRowPvs
  <2>3. \A q \in Ends : new[q] = IF q = c.zuid THEN [rows[q] EXCEPT !.pvs = FALSE]
                                               ELSE rows[q]
    BY <2>1
  <2> HIDE DEF new
  <2>4. OnlyReset(rows, new)
    BY <2>3 DEF Rows, OnlyReset
  <2> QED BY <2>2, <2>4
<1>2. CASE ~(c.mismatch /\ c.zuid # None)
  BY <1>2 DEF ForgetRowPvs, OnlyReset
<1> QED BY <1>1, <1>2

(* After the matching, which has kept a and b: the context is still that   *)
(* of the row in use, and its flag is true of the s0 computed.             *)
LEMMA VerifiedMatch ==
    ASSUME TypeInv, VerifiedInv, NEW p \in Ends,
           ctx[p].state \in {"agreement", "sendingDHPart1"}, ctx[p].peerZID = Peer(p),
           NEW a \in {ctx[p].rs1, None}, NEW b \in {ctx[p].rs2, None}, NEW e \in BOOLEAN,
           KeepsOne(ctx[p], a, b, e),
           NEW s \in {"sendingDHPart2", "sendingConfirm1"}
    PROVE  LET c == ForgetPvs(Matched(ctx[p], a, b, e))
               n == [c EXCEPT !.state = s, !.s0 = S0(c)]
               rows == ForgetRowPvs(cache[p], c)
           IN  /\ RowsChained(rows, confirmed[p]) /\ Chained(n, rows)
               /\ FlagsTrue(n, rows, confirmed[p], confirmed[Peer(p)])
               /\ c.pvs => RetainedSecret(S0(c)).root \in confirmed[p]
<1> DEFINE o == ctx[p]
           old == cache[p]
           m == Matched(o, a, b, e)
           c == ForgetPvs(m)
           n == [c EXCEPT !.state = s, !.s0 = S0(c)]
           rows == ForgetRowPvs(old, c)
           s1 == IF a # None THEN a ELSE b
<1>0. EndOK(p, o, old) /\ EndVerified(p, o, old) /\ o \in Contexts /\ old \in [Ends -> Rows]
  BY DEF TypeInv, VerifiedInv
<1>1. a \in SecretOrNone /\ b \in SecretOrNone
  BY <1>0 DEF Contexts, SecretOrNone
<1>2. /\ m \in Contexts
      /\ m.peerZID = o.peerZID /\ m.zuid = o.zuid /\ m.pvs = o.pvs
      /\ m.rs1 = a /\ m.rs2 = b /\ m.mismatch = e
      /\ m.peerPVS = o.peerPVS /\ m.told = o.told
  <2>1. m.peerPVS = o.peerPVS /\ m.told = o.told
    BY <1>0 DEF Matched, Contexts
  <2> QED BY <1>0, <1>1, <2>1, MatchedFacts
<1> HIDE DEF m
<1>3. /\ c \in Contexts
      /\ c.peerZID = m.peerZID /\ c.zuid = m.zuid
      /\ c.rs1 = m.rs1 /\ c.rs2 = m.rs2 /\ c.mismatch = m.mismatch
      /\ c.peerPVS = m.peerPVS /\ c.told = m.told
  BY <1>2, ForgetPvsFacts DEF Contexts
<1>4. c.pvs => m.pvs /\ ~m.mismatch
  BY <1>2 DEF ForgetPvs, Contexts
<1> HIDE DEF c
<1>5. S0(c) \in S0s /\ S0(c) # None /\ S0(c).s1 = s1
  BY <1>2, <1>3, S0Type DEF TypeInv, S0
<1>6. /\ n.state = s /\ n.peerZID = c.peerZID /\ n.zuid = c.zuid
      /\ n.s0 = S0(c) /\ n.pvs = c.pvs
      /\ n.rs1 = c.rs1 /\ n.rs2 = c.rs2 /\ n.mismatch = c.mismatch
      /\ n.peerPVS = c.peerPVS /\ n.told = c.told
  BY <1>3 DEF Contexts
<1> HIDE DEF n
<1>7. OnlyReset(old, rows)
  BY <1>0, <1>3, ForgetOnlyResets
<1> HIDE DEF rows
<1>8. /\ RowsChained(old, confirmed[p]) /\ Chained(o, old)
      /\ FlagsTrue(o, old, confirmed[p], confirmed[Peer(p)])
  BY <1>0 DEF EndVerified
<1>9. /\ o.s0 = None /\ o.state # "secure"
      /\ o.rs1 = None => o.rs2 = None
      /\ o.zuid \in Ends \cup {None} /\ o.peerZID \in Ends \cup {None}
  BY <1>0 DEF EndOK, ContextOK, InitiatorStates, Contexts
<1>10. o.peerZID \in Ends
  BY <1>9 DEF Peer, Ends, TypeInv, GlobalOK
<1>11. RowsChained(rows, confirmed[p])
  BY <1>7, <1>8 DEF RowsChained, OnlyReset
<1>12. KeepsOne(o, a, b, e) /\ a \in {o.rs1, None} /\ b \in {o.rs2, None}
       /\ o.state \in {"agreement", "sendingDHPart1"}
  OBVIOUS
<1> HIDE DEF o, old
<1>13. /\ a # None => RowRoot(o, rows, a.root)
       /\ b # None => RowRoot(o, rows, b.root)
  BY <1>7, <1>8, <1>9, <1>12 DEF Chained, RowRoot, OnlyReset
<1>14. /\ e => a = None /\ b = None /\ s1 = None
       /\ ~e /\ o.zuid # None => s1 # None
       /\ o.zuid = None => s1 = None
       /\ s1 # None => RowRoot(o, rows, s1.root)
  BY <1>8, <1>12, <1>13 DEF Chained, KeepsOne, RowRoot
<1>15. o.zuid = None => rows[o.peerZID].rs1 = None
  BY <1>7, <1>8, <1>10, <1>12 DEF Chained, OnlyReset
<1> HIDE DEF s1
<1>16. Chained(n, rows)
  BY <1>2, <1>3, <1>5, <1>6, <1>13, <1>14, <1>15 DEF Chained, RowRoot
<1>17. o.pvs => RowIn(o, rows, confirmed[p])
  BY <1>7, <1>8, <1>9 DEF FlagsTrue, RowIn, OnlyReset
<1>18. ~o.peerPVS /\ ~o.told
  BY <1>8, <1>9 DEF FlagsTrue
<1>19. FlagsTrue(n, rows, confirmed[p], confirmed[Peer(p)])
  BY <1>2, <1>3, <1>4, <1>6, <1>17, <1>18 DEF FlagsTrue, RowIn
<1>20. c.pvs => RetainedSecret(S0(c)).root \in confirmed[p]
  BY <1>2, <1>4, <1>5, <1>14, <1>17 DEF RowIn, RowRoot, RetainedSecret
<1> QED BY <1>11, <1>16, <1>19, <1>20 DEF n, c, m, rows, o, old

(* The initiator's matching. *)
LEMMA VerifiedRecvDHPart1 ==
    ASSUME TypeInv, VerifiedInv, NEW p \in Ends, RecvDHPart1(p)
    PROVE  VerifiedInv'
<1>0. /\ ctx[p] \in Contexts /\ ctx[p].state = "agreement" /\ ctx[p].peerZID = Peer(p)
      /\ ~ctx[p].mismatch /\ ctx[p].rs1 = ctx[p].rs1ID /\ ctx[p].rs2 = ctx[p].rs2ID
  BY DEF TypeInv, RecvDHPart1, EndOK, ContextOK, Before
<1>1. PICK m \in sent :
        LET c0 == ForgetPvs(InitiatorMatch(ctx[p], m)) IN
          /\ ctx' = [ctx EXCEPT ![p] = [c0 EXCEPT !.state = "sendingDHPart2", !.s0 = S0(c0)]]
          /\ cache' = [cache EXCEPT ![p] = ForgetRowPvs(cache[p], c0)]
  BY DEF RecvDHPart1, TypeInv
<1>2. PICK a \in {ctx[p].rs1, None}, b \in {ctx[p].rs2, None}, e \in BOOLEAN :
        InitiatorMatch(ctx[p], m) = Matched(ctx[p], a, b, e) /\ KeepsOne(ctx[p], a, b, e)
  BY <1>0, InitiatorKeepsOne
<1> DEFINE c == ForgetPvs(Matched(ctx[p], a, b, e))
           n == [c EXCEPT !.state = "sendingDHPart2", !.s0 = S0(c)]
           rows == ForgetRowPvs(cache[p], c)
<1>3. ctx' = [ctx EXCEPT ![p] = n] /\ cache' = [cache EXCEPT ![p] = rows]
  BY <1>1, <1>2
<1>4. /\ RowsChained(rows, confirmed[p]) /\ Chained(n, rows)
      /\ FlagsTrue(n, rows, confirmed[p], confirmed[Peer(p)])
  BY <1>0, <1>2, VerifiedMatch
<1> HIDE DEF c, n, rows
<1>5. UNCHANGED <<dev, initiator, confirmed>>
  BY DEF RecvDHPart1
<1>6. \A k \in sent' : k \in sent \/ MessageTrue(k)
  BY DEF RecvDHPart1, MessageTrue
<1> QED BY <1>3, <1>4, <1>5, <1>6, VerifiedFrame

(* The responder's matching, and the flag it sends. *)
LEMMA VerifiedRecvDHPart2 ==
    ASSUME TypeInv, VerifiedInv, NEW p \in Ends, RecvDHPart2(p)
    PROVE  VerifiedInv'
<1>0. /\ ctx[p] \in Contexts /\ ctx[p].state = "sendingDHPart1" /\ ctx[p].peerZID = Peer(p)
      /\ ~ctx[p].mismatch /\ ctx[p].rs1 = ctx[p].rs1ID /\ ctx[p].rs2 = ctx[p].rs2ID
  BY DEF TypeInv, RecvDHPart2, EndOK, ContextOK, Before
<1>1. PICK m \in sent :
        LET c0 == ForgetPvs(ResponderMatch(ctx[p], m)) IN
          /\ ctx' = [ctx EXCEPT ![p] = [c0 EXCEPT !.state = "sendingConfirm1", !.s0 = S0(c0)]]
          /\ cache' = [cache EXCEPT ![p] = ForgetRowPvs(cache[p], c0)]
          /\ sent' = sent \cup {[type |-> "Confirm1", s0 |-> S0(c0), V |-> c0.pvs]}
  BY DEF RecvDHPart2, TypeInv
<1>2. PICK a \in {ctx[p].rs1, None}, b \in {ctx[p].rs2, None}, e \in BOOLEAN :
        ResponderMatch(ctx[p], m) = Matched(ctx[p], a, b, e) /\ KeepsOne(ctx[p], a, b, e)
  BY <1>0, ResponderKeepsOne
<1> DEFINE c == ForgetPvs(Matched(ctx[p], a, b, e))
           n == [c EXCEPT !.state = "sendingConfirm1", !.s0 = S0(c)]
           rows == ForgetRowPvs(cache[p], c)
<1>3. /\ ctx' = [ctx EXCEPT ![p] = n] /\ cache' = [cache EXCEPT ![p] = rows]
      /\ sent' = sent \cup {[type |-> "Confirm1", s0 |-> S0(c), V |-> c.pvs]}
  BY <1>1, <1>2
<1>4. /\ RowsChained(rows, confirmed[p]) /\ Chained(n, rows)
      /\ FlagsTrue(n, rows, confirmed[p], confirmed[Peer(p)])
      /\ c.pvs => RetainedSecret(S0(c)).root \in confirmed[p]
  BY <1>0, <1>2, VerifiedMatch
<1> HIDE DEF c, n, rows
<1>5. UNCHANGED <<dev, initiator, confirmed>>
  BY DEF RecvDHPart2
<1>6. p = Peer(initiator)
  BY <1>0 DEF RecvDHPart2, TypeInv, GlobalOK, EndOK, ContextOK, Peer
<1>7. \A k \in sent' : k \in sent \/ MessageTrue(k)
  BY <1>3, <1>4, <1>6 DEF MessageTrue
<1> QED BY <1>3, <1>4, <1>5, <1>7, VerifiedFrame

(* The initiator learns the flag of the responder and sends its own. *)
LEMMA VerifiedRecvConfirm1 ==
    ASSUME TypeInv, VerifiedInv, NEW p \in Ends, RecvConfirm1(p)
    PROVE  VerifiedInv'
<1> DEFINE o == ctx[p]
<1>0. /\ o \in Contexts /\ o.state = "sendingDHPart2" /\ EndVerified(p, o, cache[p])
      /\ o.s0 # None /\ p = initiator
  BY DEF TypeInv, VerifiedInv, RecvConfirm1, EndOK, ContextOK, InitiatorStates
<1>1. PICK m \in sent :
        /\ m.type = "Confirm1" /\ m.s0 = o.s0
        /\ ctx' = [ctx EXCEPT ![p].state = "sendingConfirm2", ![p].peerPVS = m.V]
  BY DEF RecvConfirm1
<1> DEFINE n == [o EXCEPT !.state = "sendingConfirm2", !.peerPVS = m.V]
<1>2. /\ ctx' = [ctx EXCEPT ![p] = n] /\ UNCHANGED <<dev, initiator, cache, confirmed>>
      /\ sent' = sent \cup {[type |-> "Confirm2", s0 |-> o.s0, V |-> o.pvs]}
  BY <1>1 DEF RecvConfirm1, TypeInv
<1>3. m.V => RetainedSecret(o.s0).root \in confirmed[Peer(p)]
  BY <1>0, <1>1 DEF VerifiedInv, MessageTrue
<1>4. /\ n.state = "sendingConfirm2" /\ n.peerZID = o.peerZID /\ n.rs1 = o.rs1 /\ n.rs2 = o.rs2
      /\ n.mismatch = o.mismatch /\ n.s0 = o.s0 /\ n.zuid = o.zuid
      /\ n.pvs = o.pvs /\ n.peerPVS = m.V /\ n.told = o.told
  BY <1>0 DEF Contexts
<1> HIDE DEF o, n
<1>5. Chained(n, cache[p])
  BY <1>0, <1>4 DEF EndVerified, Chained, RowRoot
<1>6. FlagsTrue(n, cache[p], confirmed[p], confirmed[Peer(p)])
  BY <1>0, <1>3, <1>4 DEF EndVerified, FlagsTrue, RowIn
<1>7. o.pvs => RetainedSecret(o.s0).root \in confirmed[p]
  <2>1. o.pvs => ~o.mismatch /\ RowIn(o, cache[p], confirmed[p])
    BY <1>0 DEF EndVerified, FlagsTrue
  <2> QED BY <1>0, <2>1, ChainOfS0 DEF EndVerified, RowIn, RowRoot
<1>8. \A k \in sent' : k \in sent \/ MessageTrue(k)
  BY <1>0, <1>2, <1>7 DEF MessageTrue
<1> QED BY <1>2, <1>5, <1>6, <1>8, VerifiedContext

(* The row that bzrtp_updateCachedSecrets writes. *)
LEMMA WrittenRow ==
    ASSUME NEW c \in Contexts, NEW rows \in [Ends -> Rows], ~c.mismatch, c.peerZID # None
    PROVE  LET new == UpdatedRows(rows, c)
               z == UpdatedZuid(c)
           IN  /\ z \in Ends
               /\ new[z].rs1 = RetainedSecret(c.s0) /\ new[z].rs2 = c.rs1
               /\ new[z].pvs = rows[z].pvs
               /\ \A q \in Ends : q # z => new[q] = rows[q]
<1> DEFINE z == UpdatedZuid(c)
           row == [rows[z] EXCEPT !.rs1 = RetainedSecret(c.s0), !.rs2 = c.rs1]
           new == UpdatedRows(rows, c)
<1>1. z \in Ends
  BY DEF UpdatedZuid, Contexts
<1>2. row.rs1 = RetainedSecret(c.s0) /\ row.rs2 = c.rs1 /\ row.pvs = rows[z].pvs
  BY <1>1 DEF Rows
<1> HIDE DEF z
<1>3. new = [rows EXCEPT ![z] = row]
  BY <1>1 DEF UpdatedRows, z
<1> HIDE DEF new, row
<1>4. new[z] = row /\ \A q \in Ends : q # z => new[q] = rows[q]
  BY <1>1, <1>3
<1> QED BY <1>1, <1>2, <1>4 DEF z, new

(* The secret written continues the chain of the row. *)
LEMMA WrittenChain ==
    ASSUME NEW p \in Ends, NEW c \in Contexts, NEW rows \in [Ends -> Rows],
           ~c.mismatch, c.s0 # None, c.peerZID # None,
           Chained(c, rows), RowsChained(rows, confirmed[p]),
           c.state \notin {"NULL", "discovery"}
    PROVE  RowsChained(UpdatedRows(rows, c), confirmed[p])
<1> DEFINE new == UpdatedRows(rows, c)
           z == UpdatedZuid(c)
           rs1 == RetainedSecret(c.s0)
<1>1. /\ z \in Ends /\ new[z].rs1 = rs1 /\ new[z].rs2 = c.rs1 /\ new[z].pvs = rows[z].pvs
      /\ \A q \in Ends : q # z => new[q] = rows[q]
  BY WrittenRow
<1>2. rs1 # None
  <2>1. rs1 \in Secrets
    BY NoneAssumption DEF Contexts, S0s, SecretOrNone, Secrets, RetainedSecret
  <2> QED BY <2>1, NoneAssumption
<1>3. c.zuid # None => z = c.zuid /\ RowRoot(c, rows, rs1.root)
  BY ChainOfS0 DEF UpdatedZuid
<1>4. c.zuid = None => rows[z].rs1 = None
  BY DEF UpdatedZuid, Chained
<1> HIDE DEF new, z, rs1
<1>5. c.rs1 # None => c.rs1.root = rs1.root
  BY <1>3 DEF Chained, RowRoot
<1>6. rows[z].pvs => rs1.root \in confirmed[p]
  BY <1>1, <1>3, <1>4 DEF RowsChained, RowRoot
<1>7. RowsChained(new, confirmed[p])
  BY <1>1, <1>2, <1>5, <1>6 DEF RowsChained
<1> QED BY <1>7 DEF new

(* An endpoint that updates its cache and becomes secure. *)
LEMMA VerifiedSecure ==
    ASSUME TypeInv, NEW p \in Ends, NEW c \in Contexts, c.peerZID # None,
           c.state \in {"sendingConfirm1", "sendingConfirm2"}, c.s0 # None,
           c.mismatch => c.zuid # None,
           EndVerified(p, c, cache[p])
    PROVE  LET n == EnterSecure(UpdatedContext(c))
               rows == UpdatedRows(cache[p], c)
           IN  /\ RowsChained(rows, confirmed[p]) /\ Chained(n, rows)
               /\ FlagsTrue(n, rows, confirmed[p], confirmed[Peer(p)])
<1> DEFINE old == cache[p]
           u == UpdatedContext(c)
           n == EnterSecure(u)
           rows == UpdatedRows(old, c)
           z == UpdatedZuid(c)
<1>0. /\ old \in [Ends -> Rows] /\ RowsOK(old)
      /\ RowsChained(old, confirmed[p]) /\ Chained(c, old)
      /\ FlagsTrue(c, old, confirmed[p], confirmed[Peer(p)])
  BY DEF TypeInv, EndOK, EndVerified
<1>1. /\ u \in Contexts
      /\ c.mismatch => u = c /\ rows = old
      /\ ~c.mismatch => u = [c EXCEPT !.zuid = z, !.s0 = None, !.rs1 = None, !.rs2 = None]
  BY <1>0, UpdateFacts
<1>2. ~c.mismatch => /\ u.zuid = z /\ u.s0 = None /\ u.rs1 = None /\ u.rs2 = None
                     /\ u.mismatch = c.mismatch /\ u.pvs = c.pvs /\ u.peerPVS = c.peerPVS
  BY <1>1 DEF Contexts
<1> HIDE DEF u
<1>3. /\ n.state = "secure" /\ n.peerZID = u.peerZID /\ n.mismatch = u.mismatch
      /\ n.s0 = u.s0 /\ n.zuid = u.zuid /\ n.rs1 = u.rs1 /\ n.rs2 = u.rs2
      /\ n.told => u.pvs /\ u.peerPVS
  <2>1. n.rs1 = u.rs1 /\ n.rs2 = u.rs2 /\ (n.told => u.pvs /\ u.peerPVS)
    BY <1>1 DEF EnterSecure, Contexts
  <2> QED BY <1>1, <2>1, SecureContext
<1> HIDE DEF n
<1>4. CASE c.mismatch
  <2>1. ~c.pvs
    BY <1>0, <1>4 DEF FlagsTrue
  <2>2. Chained(n, rows)
    BY <1>0, <1>1, <1>3, <1>4 DEF Chained, RowRoot
  <2>3. FlagsTrue(n, rows, confirmed[p], confirmed[Peer(p)])
    BY <1>1, <1>3, <1>4, <2>1 DEF FlagsTrue
  <2> QED BY <1>0, <1>1, <1>4, <2>2, <2>3 DEF n, u
<1>5. CASE ~c.mismatch
  <2>1. RowsChained(rows, confirmed[p])
    BY <1>0, <1>5, WrittenChain
  <2>2. z \in Ends /\ z # None /\ rows[z].rs1 = RetainedSecret(c.s0)
    BY <1>0, <1>5, WrittenRow, EndsAssumption DEF Ends
  <2>3. RetainedSecret(c.s0) # None
    BY <1>0, <1>5, <2>2, UpdateFacts
  <2>4. c.pvs => RetainedSecret(c.s0).root \in confirmed[p]
    <3>1. c.pvs => RowIn(c, old, confirmed[p])
      BY <1>0 DEF FlagsTrue
    <3> QED BY <1>0, <1>5, <3>1, ChainOfS0 DEF RowIn, RowRoot
  <2>5. c.peerPVS => RetainedSecret(c.s0).root \in confirmed[Peer(p)]
    BY <1>0 DEF FlagsTrue
  <2> HIDE DEF rows, z
  <2>6. Chained(n, rows)
    BY <1>2, <1>3, <1>5, <2>2 DEF Chained
  <2>7. FlagsTrue(n, rows, confirmed[p], confirmed[Peer(p)])
    BY <1>2, <1>3, <1>5, <2>2, <2>3, <2>4, <2>5 DEF FlagsTrue, RowIn
  <2> QED BY <2>1, <2>6, <2>7 DEF n, u, rows
<1> QED BY <1>4, <1>5

(* The responder ends the exchange. *)
LEMMA VerifiedRecvConfirm2 ==
    ASSUME TypeInv, VerifiedInv, NEW p \in Ends, RecvConfirm2(p)
    PROVE  VerifiedInv'
<1> DEFINE o == ctx[p]
<1>0. /\ EndOK(p, o, cache[p]) /\ EndVerified(p, o, cache[p]) /\ o \in Contexts
      /\ o.state = "sendingConfirm1"
  BY DEF TypeInv, VerifiedInv, RecvConfirm2
<1>1. /\ p \in {Caller, dev} /\ p # initiator /\ o.peerZID = Peer(p) /\ o.s0 # None
      /\ o.mismatch => o.zuid # None
  BY <1>0 DEF EndOK, ContextOK, Before, ResponderStates
<1>2. Peer(p) = initiator /\ o.peerZID # None
  BY <1>1, EndsAssumption DEF Peer, TypeInv, GlobalOK
<1>3. PICK m \in sent :
        /\ m.type = "Confirm2" /\ m.s0 = o.s0
        /\ LET c0 == [ctx[p] EXCEPT !.peerPVS = m.V] IN
            /\ ctx' = [ctx EXCEPT ![p] = EnterSecure(UpdatedContext(c0))]
            /\ cache' = [cache EXCEPT ![p] = UpdatedRows(cache[p], c0)]
  <2>1. PICK m \in {k \in sent : k.type = "Confirm2"} :
          LET c0 == [ctx[p] EXCEPT !.peerPVS = m.V] IN
            /\ m.s0 = c0.s0
            /\ ctx' = [ctx EXCEPT ![p] = EnterSecure(UpdatedContext(c0))]
            /\ cache' = [cache EXCEPT ![p] = UpdatedRows(cache[p], c0)]
    BY DEF RecvConfirm2, TypeInv
  <2>2. [ctx[p] EXCEPT !.peerPVS = m.V].s0 = o.s0
    BY <1>0 DEF Contexts
  <2> QED BY <2>1, <2>2
<1> DEFINE c == [o EXCEPT !.peerPVS = m.V]
           n == EnterSecure(UpdatedContext(c))
           rows == UpdatedRows(cache[p], c)
<1>4. ctx' = [ctx EXCEPT ![p] = n] /\ cache' = [cache EXCEPT ![p] = rows]
  BY <1>3
<1>5. m \in Confirms
  BY <1>3, MessageKinds DEF TypeInv
<1>6. /\ c \in Contexts /\ c.state = o.state /\ c.peerZID = o.peerZID /\ c.rs1 = o.rs1
      /\ c.rs2 = o.rs2 /\ c.mismatch = o.mismatch /\ c.s0 = o.s0 /\ c.zuid = o.zuid
      /\ c.pvs = o.pvs /\ c.peerPVS = m.V /\ c.told = o.told
  BY <1>0, <1>5 DEF Contexts, Confirms
<1> HIDE DEF c, o
<1>7. m.V => RetainedSecret(o.s0).root \in confirmed[Peer(p)]
  BY <1>2, <1>3 DEF VerifiedInv, MessageTrue
<1>8. EndVerified(p, c, cache[p])
  <2>1. Chained(c, cache[p])
    BY <1>0, <1>6 DEF EndVerified, Chained, RowRoot
  <2>2. FlagsTrue(c, cache[p], confirmed[p], confirmed[Peer(p)])
    BY <1>0, <1>1, <1>6, <1>7 DEF EndVerified, FlagsTrue, RowIn
  <2> QED BY <1>0, <2>1, <2>2 DEF EndVerified
<1>9. /\ RowsChained(rows, confirmed[p]) /\ Chained(n, rows)
      /\ FlagsTrue(n, rows, confirmed[p], confirmed[Peer(p)])
  BY <1>0, <1>1, <1>2, <1>6, <1>8, VerifiedSecure
<1> HIDE DEF n, rows
<1>10. UNCHANGED <<dev, initiator, confirmed>>
  BY DEF RecvConfirm2
<1>11. \A k \in sent' : k \in sent \/ MessageTrue(k)
  BY DEF RecvConfirm2, MessageTrue
<1> QED BY <1>4, <1>9, <1>10, <1>11, VerifiedFrame

(* The initiator ends the exchange. *)
LEMMA VerifiedRecvConf2ACK ==
    ASSUME TypeInv, VerifiedInv, NEW p \in Ends, RecvConf2ACK(p)
    PROVE  VerifiedInv'
<1> DEFINE c == ctx[p]
           n == EnterSecure(UpdatedContext(c))
           rows == UpdatedRows(cache[p], c)
<1>0. /\ EndOK(p, c, cache[p]) /\ EndVerified(p, c, cache[p]) /\ c \in Contexts
      /\ c.state = "sendingConfirm2"
  BY DEF TypeInv, VerifiedInv, RecvConf2ACK
<1>1. /\ p \in {Caller, dev} /\ c.peerZID = Peer(p) /\ c.s0 # None
      /\ c.mismatch => c.zuid # None
  BY <1>0 DEF EndOK, ContextOK, Before, InitiatorStates
<1>2. c.peerZID # None
  BY <1>1, EndsAssumption DEF Peer, TypeInv, GlobalOK
<1>3. /\ ctx' = [ctx EXCEPT ![p] = n] /\ cache' = [cache EXCEPT ![p] = rows]
      /\ UNCHANGED <<dev, initiator, confirmed, sent>>
  BY DEF RecvConf2ACK, TypeInv
<1>4. /\ RowsChained(rows, confirmed[p]) /\ Chained(n, rows)
      /\ FlagsTrue(n, rows, confirmed[p], confirmed[Peer(p)])
  BY <1>0, <1>1, <1>2, VerifiedSecure
<1> HIDE DEF n, rows
<1> QED BY <1>3, <1>4, VerifiedFrame

(* The flag of one row is set to v. *)
LEMMA FlagRow ==
    ASSUME NEW rows \in [Ends -> Rows], NEW z \in Ends, NEW v \in BOOLEAN
    PROVE  LET new == [rows EXCEPT ![z].pvs = v]
           IN  /\ \A q \in Ends : new[q].rs1 = rows[q].rs1 /\ new[q].rs2 = rows[q].rs2
               /\ new[z].pvs = v /\ \A q \in Ends : q # z => new[q] = rows[q]
<1> DEFINE new == [rows EXCEPT ![z].pvs = v]
<1>1. \A q \in Ends : new[q] = IF q = z THEN [rows[q] EXCEPT !.pvs = v] ELSE rows[q]
  OBVIOUS
<1> HIDE DEF new
<1>2. \A q \in Ends : new[q].rs1 = rows[q].rs1 /\ new[q].rs2 = rows[q].rs2
  BY <1>1 DEF Rows
<1>3. new[z].pvs = v /\ \A q \in Ends : q # z => new[q] = rows[q]
  BY <1>1 DEF Rows
<1> QED BY <1>2, <1>3 DEF new

(* The user confirms the SAS: the row holds a secret of the chain that is  *)
(* confirmed, be it written on Confirm2 or Conf2ACK or only now.           *)
LEMMA VerifiedSASVerified ==
    ASSUME TypeInv, VerifiedInv, NEW p \in Ends, SASVerified(p)
    PROVE  VerifiedInv'
<1> DEFINE o == ctx[p]
           old == cache[p]
           c == [o EXCEPT !.mismatch = FALSE]
           n == IF o.mismatch THEN UpdatedContext(c) ELSE c
           written == IF o.mismatch THEN UpdatedRows(old, c) ELSE old
           z == c.zuid
           rows == [written EXCEPT ![z].pvs = TRUE]
           mine == confirmed[p] \cup {Root(p)}
<1>0. /\ EndOK(p, o, old) /\ o.state = "secure" /\ o \in Contexts
      /\ old \in [Ends -> Rows] /\ RowsOK(old)
      /\ RowsChained(old, confirmed[p]) /\ Chained(o, old)
      /\ FlagsTrue(o, old, confirmed[p], confirmed[Peer(p)])
  BY DEF TypeInv, SASVerified, EndOK, VerifiedInv, EndVerified
<1>1. /\ ctx' = [ctx EXCEPT ![p] = n] /\ cache' = [cache EXCEPT ![p] = rows]
      /\ confirmed' = [confirmed EXCEPT ![p] = mine]
      /\ UNCHANGED <<dev, initiator, sent>>
  BY DEF SASVerified, TypeInv, GlobalOK
<1>2. /\ c \in Contexts /\ c.state = "secure" /\ c.peerZID = o.peerZID
      /\ c.rs1 = o.rs1 /\ c.rs2 = o.rs2 /\ c.mismatch = FALSE /\ c.s0 = o.s0
      /\ c.zuid = o.zuid /\ c.pvs = o.pvs /\ c.peerPVS = o.peerPVS /\ c.told = o.told
  BY <1>0 DEF Contexts
<1> HIDE DEF c
<1>3. /\ p \in {Caller, dev} /\ o.peerZID = Peer(p) /\ z \in Ends /\ z # None
      /\ o.s0 # None <=> o.mismatch
      /\ ~o.mismatch => old[o.zuid].rs1 # None
  BY <1>0, <1>2 DEF EndOK, ContextOK, Before, Contexts, InitiatorStates
<1>4. c.peerZID # None
  BY <1>2, <1>3, EndsAssumption DEF Peer, TypeInv, GlobalOK
<1>5. /\ written \in [Ends -> Rows]
      /\ written[z].rs1 # None /\ written[z].rs1.root = Root(p)
      /\ written[z].rs2 # None => written[z].rs2.root = Root(p)
      /\ \A q \in Ends : q # z => written[q] = old[q]
      /\ n.zuid = z /\ n.s0 = None /\ n.mismatch = FALSE /\ n.state = "secure"
      /\ n.told = o.told
      /\ n.rs1 # None => ~o.mismatch /\ n.rs1 = o.rs1
      /\ n.rs2 # None => ~o.mismatch /\ n.rs2 = o.rs2
  <2>1. CASE o.mismatch
    <3>1. UpdatedZuid(c) = z
      BY <1>3 DEF UpdatedZuid
    <3>2. /\ written[z].rs1 = RetainedSecret(o.s0) /\ written[z].rs2 = None
          /\ \A q \in Ends : q # z => written[q] = old[q]
      BY <1>0, <1>2, <1>4, <2>1, <3>1, WrittenRow DEF Chained
    <3>3. /\ written \in [Ends -> Rows] /\ written[z].rs1 # None
          /\ n \in Contexts
          /\ n = [c EXCEPT !.zuid = z, !.s0 = None, !.rs1 = None, !.rs2 = None]
      <4>1. c.s0 # None /\ ~c.mismatch
        BY <1>2, <1>3, <2>1
      <4>2. /\ UpdatedRows(old, c) \in [Ends -> Rows]
            /\ UpdatedRows(old, c)[z].rs1 # None
            /\ UpdatedContext(c) \in Contexts
            /\ UpdatedContext(c) = [c EXCEPT !.zuid = z, !.s0 = None,
                                             !.rs1 = None, !.rs2 = None]
        <5> HIDE DEF o, old, z
        <5> QED BY <1>0, <1>2, <1>4, <3>1, <4>1, UpdateFacts
      <4> QED BY <2>1, <4>2
    <3>4. written[z].rs1.root = Root(p)
      BY <1>3, <2>1, <3>2 DEF Root
    <3> HIDE DEF written, z, n
    <3>5. /\ n.zuid = z /\ n.s0 = None /\ n.mismatch = FALSE /\ n.state = "secure"
          /\ n.told = o.told /\ n.rs1 = None /\ n.rs2 = None
      BY <1>2, <3>3 DEF Contexts
    <3> QED BY <3>2, <3>3, <3>4, <3>5
  <2>2. CASE ~o.mismatch
    <3>1. Root(p) = old[z].rs1.root /\ written = old /\ n = c
      BY <1>2, <1>3, <2>2 DEF Root
    <3> QED BY <1>0, <1>2, <1>3, <2>2, <3>1 DEF RowsChained
  <2> QED BY <2>1, <2>2
<1>6. o.told => written = old
  BY <1>0 DEF FlagsTrue
<1> HIDE DEF written, n, z
<1>7. /\ \A q \in Ends : rows[q].rs1 = written[q].rs1 /\ rows[q].rs2 = written[q].rs2
      /\ \A q \in Ends : q # z => rows[q] = written[q]
  BY <1>3, <1>5, FlagRow
<1>8. ~o.mismatch => written = old
  BY DEF written
<1> HIDE DEF rows, o, old
<1>9. RowsChained(rows, mine)
  <2>1. ASSUME NEW q \in Ends, q # z
        PROVE  /\ rows[q].rs2 # None => rows[q].rs1 # None /\ rows[q].rs2.root = rows[q].rs1.root
               /\ rows[q].pvs => rows[q].rs1 # None /\ rows[q].rs1.root \in mine
    BY <1>0, <1>5, <1>7, <2>1 DEF RowsChained
  <2>2. /\ rows[z].rs2 # None => rows[z].rs2.root = rows[z].rs1.root
        /\ rows[z].rs1 # None /\ rows[z].rs1.root \in mine
    BY <1>3, <1>5, <1>7
  <2> QED BY <2>1, <2>2 DEF RowsChained
<1>10. Chained(n, rows)
  BY <1>0, <1>2, <1>3, <1>5, <1>7, <1>8 DEF Chained, RowRoot, z
<1>11. FlagsTrue(n, rows, mine, confirmed[Peer(p)])
  BY <1>0, <1>2, <1>3, <1>5, <1>6, <1>7 DEF FlagsTrue, RowIn, z
<1>12. /\ confirmed'[p] = mine /\ Peer(p) # p /\ confirmed'[Peer(p)] = confirmed[Peer(p)]
       /\ \A q \in Ends : confirmed[q] \subseteq confirmed'[q]
  BY <1>1, <1>3, PeerIsEnd DEF TypeInv, GlobalOK
<1> QED BY <1>1, <1>9, <1>10, <1>11, <1>12, VerifiedFrame

(* The user withdraws the confirmation. *)
LEMMA VerifiedResetSASVerified ==
    ASSUME TypeInv, VerifiedInv, NEW p \in Ends, ResetSASVerified(p)
    PROVE  VerifiedInv'
<1> DEFINE o == ctx[p]
           old == cache[p]
           rows == [old EXCEPT ![o.zuid].pvs = FALSE]
<1>0. /\ EndOK(p, o, old) /\ o.state = "secure" /\ o \in Contexts /\ old \in [Ends -> Rows]
      /\ RowsChained(old, confirmed[p]) /\ Chained(o, old)
      /\ FlagsTrue(o, old, confirmed[p], confirmed[Peer(p)])
  BY DEF TypeInv, ResetSASVerified, VerifiedInv, EndVerified
<1>1. /\ ctx' = [ctx EXCEPT ![p] = o] /\ cache' = [cache EXCEPT ![p] = rows]
      /\ UNCHANGED <<dev, initiator, sent, confirmed>>
  BY DEF ResetSASVerified, TypeInv
<1>2. o.zuid \in Ends
  BY <1>0 DEF EndOK, ContextOK, Contexts
<1>3. OnlyReset(old, rows)
  <2>1. /\ \A q \in Ends : rows[q].rs1 = old[q].rs1 /\ rows[q].rs2 = old[q].rs2
        /\ rows[o.zuid].pvs = FALSE /\ \A q \in Ends : q # o.zuid => rows[q] = old[q]
    BY <1>0, <1>2, FlagRow
  <2> HIDE DEF rows, o, old
  <2> QED BY <2>1 DEF OnlyReset
<1> HIDE DEF rows, o, old
<1>4. RowsChained(rows, confirmed[p])
  BY <1>0, <1>3 DEF RowsChained, OnlyReset
<1>5. Chained(o, rows)
  BY <1>0, <1>2, <1>3 DEF Chained, RowRoot, OnlyReset, EndOK, ContextOK
<1>6. FlagsTrue(o, rows, confirmed[p], confirmed[Peer(p)])
  BY <1>0, <1>2, <1>3 DEF FlagsTrue, RowIn, OnlyReset
<1> QED BY <1>1, <1>4, <1>5, <1>6, VerifiedFrame

(* The context is destroyed. *)
LEMMA VerifiedEnd ==
    ASSUME TypeInv, VerifiedInv, NEW p \in Ends, End(p)
    PROVE  VerifiedInv'
<1>1. /\ ctx' = [ctx EXCEPT ![p] = NoContext]
      /\ UNCHANGED <<dev, initiator, cache, sent, confirmed>>
  BY DEF End
<1>2. Chained(NoContext, cache[p])
  BY DEF Chained, NoContext
<1>3. FlagsTrue(NoContext, cache[p], confirmed[p], confirmed[Peer(p)])
  BY DEF FlagsTrue, NoContext
<1> QED BY <1>1, <1>2, <1>3, VerifiedContext

(* VerifiedInv is inductive, relative to the types. *)
LEMMA VerifiedInit == Init => VerifiedInv
<1> SUFFICES ASSUME Init PROVE VerifiedInv
  OBVIOUS
<1>1. ASSUME NEW p \in Ends PROVE EndVerified(p, ctx[p], cache[p])
  <2>1. ctx[p] = NoContext /\ \A q \in Ends : cache[p][q] = NoRow
    BY DEF Init
  <2>2. RowsChained(cache[p], confirmed[p])
    BY <2>1 DEF RowsChained, NoRow
  <2>3. Chained(ctx[p], cache[p])
    BY <2>1 DEF Chained, NoContext
  <2>4. FlagsTrue(ctx[p], cache[p], confirmed[p], confirmed[Peer(p)])
    BY <2>1 DEF FlagsTrue, NoContext
  <2> QED BY <2>2, <2>3, <2>4 DEF EndVerified
<1> QED BY <1>1 DEF VerifiedInv, Init

(* The inductive step, one lemma for each action. *)
LEMMA VerifiedNext == TypeInv /\ VerifiedInv /\ [Next]_vars => VerifiedInv'
<1> SUFFICES ASSUME TypeInv, VerifiedInv, [Next]_vars PROVE VerifiedInv'
  OBVIOUS
<1>1. CASE UNCHANGED vars
  BY <1>1 DEF vars, VerifiedInv, EndVerified, Peer, MessageTrue
<1>2. CASE Next
  BY <1>2, VerifiedStart, VerifiedSetPeerHelloHash, VerifiedRecvHello, VerifiedRecvCommit,
     VerifiedRecvDHPart1, VerifiedRecvDHPart2, VerifiedRecvConfirm1, VerifiedRecvConfirm2,
     VerifiedRecvConf2ACK, VerifiedSASVerified, VerifiedResetSASVerified, VerifiedEnd
     DEF Next
<1> QED BY <1>1, <1>2

-----------------------------------------------------------------------------
(* PvsFollowsSecret: the verified flag of a row always belongs to a secret *)
(* of a chain whose SAS the user has confirmed.  Neither a mismatch nor an *)
(* update that was delayed to bzrtp_SASVerified, nor a session cut or      *)
(* restarted with another device in between, leaves the flag on a secret   *)
(* nobody compared.                                                        *)
THEOREM FlagFollows == Spec => []PvsFollowsSecret
<1>1. VerifiedInv => PvsFollowsSecret
  BY DEF VerifiedInv, EndVerified, RowsChained, PvsFollowsSecret
<1> QED BY <1>1, VerifiedInit, VerifiedNext, TypeInvariance, PTL DEF Spec

(* VerifiedMeansConfirmed: startSrtpSession tells the client that the SAS  *)
(* is verified only when both users have confirmed the SAS of a session    *)
(* that this one's secrets are chained to.                                 *)
THEOREM ToldOnlyConfirmed == Spec => []VerifiedMeansConfirmed
<1>1. TypeInv /\ VerifiedInv => VerifiedMeansConfirmed
  <2> SUFFICES ASSUME TypeInv, VerifiedInv, NEW p \in Ends, ctx[p].told
               PROVE  Root(p) \in confirmed[p] \cap confirmed[Peer(p)]
    BY DEF VerifiedMeansConfirmed
  <2>1. /\ ctx[p].state = "secure" /\ ~ctx[p].mismatch
        /\ RowIn(ctx[p], cache[p], confirmed[p]) /\ RowIn(ctx[p], cache[p], confirmed[Peer(p)])
    BY DEF VerifiedInv, EndVerified, FlagsTrue
  <2>2. ctx[p].s0 = None
    BY <2>1 DEF TypeInv, EndOK, ContextOK, InitiatorStates
  <2> QED BY <2>1, <2>2 DEF RowIn, Root
<1> QED BY <1>1, VerifiedInit, VerifiedNext, TypeInvariance, PTL DEF Spec

-----------------------------------------------------------------------------
(* The mismatch flag, when the caller has one device to call: what the two *)
(* rows of the pair hold in common, over the sessions that were cut.       *)
OneDevice == \A d, e \in Devices : d = e

(* The row of the peer. *)
Row(p) == cache[p][Peer(p)]

(* n sessions after the last one that both rows know, at most one of them  *)
(* being ahead: with none they have the same rs1; with one, the row that   *)
(* is ahead keeps the other's rs1 as its rs2, or both are new.             *)
Linked(x, y, n) ==
    /\ n = 0 => x.rs1 = y.rs1 /\ x.rs1 # None
    /\ n = 1 => \/ x.rs1 = None /\ y.rs1 = None
                \/ x.rs2 = y.rs1 /\ y.rs1 # None
                \/ y.rs2 = x.rs1 /\ x.rs1 # None

(* Within a session: until one of them has written its row, the rows are   *)
(* linked as before; one that has written keeps the other's as its rs2;    *)
(* when both have written they have written the same.                      *)
Bridged(p, q) ==
    /\ ~Holds(p) /\ ~Holds(q) => Linked(Row(p), Row(q), lag[dev])
    /\ Holds(p) /\ ~Holds(q) /\ lag[dev] = 0 =>
          Row(p).rs2 = Row(q).rs1 /\ Row(q).rs1 # None
    /\ Holds(p) /\ Holds(q) => Row(p).rs1 = Row(q).rs1

InSession == \E p \in Ends : ctx[p].state # "NULL"

RowsBridged ==
    IF InSession
    THEN \A p \in Ends : Bridged(p, Peer(p))
    ELSE Linked(Row(Caller), Row(dev), lag[dev])

(* What the context of p has of its row, which has only the peer's. *)
FromRow(p, c) ==
    /\ {c.peerZID, c.zuid} \subseteq {None, Peer(p)}
    /\ c.state = "discovery" => c.rs1 = None
    /\ c.state \in {"agreement", "sendingDHPart1"} =>
          c.rs1 = Row(p).rs1 /\ c.rs2 = Row(p).rs2
    /\ c.s0 # None => c.s0.session = session
    /\ c.s0 # None /\ lag[dev] = 0 => c.rs1 = Row(p).rs1
    /\ c.mismatch => lag[dev] > 1
    /\ Row(p).rs1 # None => Row(p).rs1.session <= session

(* A row is written after the Conf2ACK was sent, from the s0 of both.      *)
Written(p) ==
    /\ ctx[p].state = "secure" \/ Holds(p) => [type |-> "Conf2ACK"] \in sent
    /\ Holds(p) => ctx[p].state \in {"secure", "NULL"}
    /\ Holds(p) /\ ctx[Peer(p)].s0 # None =>
          Row(p).rs1 = RetainedSecret(ctx[Peer(p)].s0)

(* What a message says of the state and the row of its sender. *)
Tells(m, i, r) ==
    /\ m.type = "DHPart1" /\ ~Holds(r) => m.rs1ID = Row(r).rs1 /\ m.rs2ID = Row(r).rs2
    /\ m.type = "DHPart2" /\ ~Holds(i) => m.rs1ID = Row(i).rs1 /\ m.rs2ID = Row(i).rs2
    /\ m.type \in {"Confirm2", "Conf2ACK"} =>
          ctx[i].state \in {"sendingConfirm2", "secure", "NULL"}
    /\ m.type = "Conf2ACK" => ctx[r].state \in {"secure", "NULL"}

HistoryInv ==
    /\ RowsBridged
    /\ \A p \in Ends : FromRow(p, ctx[p]) /\ Written(p)
    /\ \A m \in sent : Tells(m, initiator, Peer(initiator))

(* With one device there are two ends, each the peer of the other. *)
LEMMA Pair ==
    ASSUME OneDevice, TypeInv, NEW p \in Ends
    PROVE  /\ Peer(p) \in Ends /\ Peer(p) # p /\ Peer(Peer(p)) = p
           /\ initiator \in Ends /\ Caller \in Ends /\ dev \in Ends
           /\ Peer(Caller) = dev /\ Peer(dev) = Caller
           /\ \A q \in Ends : q = p \/ q = Peer(p)
<1>1. dev \in Devices /\ Devices = {dev} /\ initiator \in {Caller, dev} /\ Caller # dev
  BY EndsAssumption DEF TypeInv, GlobalOK, OneDevice
<1> QED BY <1>1 DEF Ends, Peer

(* What p, whose context becomes c, may send. *)
Says(m, p, c) ==
    /\ m.type = "DHPart1" =>
          p # initiator /\ m.rs1ID = Row(p).rs1 /\ m.rs2ID = Row(p).rs2
    /\ m.type = "DHPart2" =>
          p = initiator /\ m.rs1ID = Row(p).rs1 /\ m.rs2ID = Row(p).rs2
    /\ m.type = "Confirm2" => p = initiator /\ c.state = "sendingConfirm2"
    /\ m.type = "Conf2ACK" => /\ p # initiator /\ c.state = "secure"
                              /\ \E k \in sent : k.type = "Confirm2"

(* A step of p in which its context becomes c, and goes on if it was about *)
(* to be secure.                                                           *)
Moves(p, c, rows) ==
    /\ ctx' = [ctx EXCEPT ![p] = c] /\ cache' = [cache EXCEPT ![p] = rows]
    /\ UNCHANGED <<session, dev, initiator, lag>>
    /\ ctx[p].state # "NULL" /\ c.state # "NULL"
    /\ ctx[p].state \in {"sendingConfirm2", "secure"} => c.state \in {ctx[p].state, "secure"}
    /\ sent \subseteq sent' /\ \A m \in sent' : m \in sent \/ Says(m, p, c)
    /\ c.state = "secure" => [type |-> "Conf2ACK"] \in sent'

(* Everything of the other end stays. *)
LEMMA MovesFacts ==
    ASSUME OneDevice, TypeInv, NEW p \in Ends, NEW c, NEW rows, Moves(p, c, rows)
    PROVE  /\ ctx'[p] = c /\ Row(p)' = rows[Peer(p)]
           /\ \A q \in Ends : Peer(q)' = Peer(q)
           /\ \A q \in Ends : q # p => /\ ctx'[q] = ctx[q] /\ Row(q)' = Row(q)
                                       /\ Holds(q)' <=> Holds(q)
           /\ InSession /\ InSession'
<1>0. \A q \in Ends : Peer(q)' = Peer(q)
  BY DEF Moves, Peer
<1>1. /\ ctx'[p] = c /\ cache'[p] = rows /\ session' = session
      /\ \A q \in Ends : q # p => ctx'[q] = ctx[q] /\ cache'[q] = cache[q]
  BY DEF Moves, TypeInv
<1>2. InSession /\ InSession'
  BY <1>1 DEF InSession, Moves
<1>3. Row(p)' = rows[Peer(p)]
  BY <1>0, <1>1 DEF Row
<1>4. ASSUME NEW q \in Ends, q # p PROVE Row(q)' = Row(q) /\ (Holds(q)' <=> Holds(q))
  BY <1>0, <1>1, <1>4 DEF Row, Holds
<1> QED BY <1>0, <1>1, <1>2, <1>3, <1>4

(* What the messages tell survives such a step, for as long as the row of  *)
(* p has the same secrets or holds that of the session.                    *)
LEMMA MovesTells ==
    ASSUME OneDevice, TypeInv, HistoryInv, NEW p \in Ends, NEW c, NEW rows, Moves(p, c, rows),
           \/ Holds(p)'
           \/ ~Holds(p)' /\ ~Holds(p) /\ Row(p)'.rs1 = Row(p).rs1 /\ Row(p)'.rs2 = Row(p).rs2
    PROVE  \A m \in sent' : Tells(m, initiator, Peer(initiator))'
<1> PICK i : i = initiator
  OBVIOUS
<1> PICK r : r = Peer(i)
  OBVIOUS
<1>0. /\ i \in Ends /\ r \in Ends /\ i # r /\ Peer(r) = i
      /\ p \in {i, r}
  <2>1. i \in Ends
    BY Pair
  <2> QED BY <2>1, Pair
<1>1. /\ ctx'[p] = c
      /\ \A q \in Ends : q # p => /\ ctx'[q] = ctx[q] /\ Row(q)' = Row(q)
                                  /\ Holds(q)' <=> Holds(q)
  BY MovesFacts
<1>2. initiator' = i /\ Peer(initiator)' = r
  BY <1>0, MovesFacts DEF Moves
<1>3. ASSUME NEW m \in sent' PROVE Tells(m, i, r)'
  <2>1. CASE m \in sent
    <3>1. Tells(m, i, r)
      BY <2>1 DEF HistoryInv
    <3>2. CASE p = i
      BY <1>0, <1>1, <1>2, <3>1, <3>2 DEF Tells, Moves
    <3>3. CASE p = r
      BY <1>0, <1>1, <1>2, <3>1, <3>3 DEF Tells, Moves
    <3> QED BY <1>0, <3>2, <3>3
  <2>2. CASE Says(m, p, c)
    <3>1. m.type = "Conf2ACK" => ctx[i].state \in {"sendingConfirm2", "secure", "NULL"}
      BY <2>2 DEF Says, HistoryInv, Tells
    <3>2. CASE p = i
      BY <1>0, <1>1, <1>2, <2>2, <3>1, <3>2 DEF Tells, Says
    <3>3. CASE p = r
      BY <1>0, <1>1, <1>2, <2>2, <3>1, <3>3 DEF Tells, Says
    <3> QED BY <1>0, <3>2, <3>3
  <2> QED BY <2>1, <2>2 DEF Moves
<1> QED BY <1>2, <1>3 DEF Tells

(* A step of p that leaves the secrets of its row alone. *)
LEMMA HistoryFrame ==
    ASSUME OneDevice, TypeInv, HistoryInv, NEW p \in Ends, NEW c, NEW rows, Moves(p, c, rows),
           rows[Peer(p)].rs1 = Row(p).rs1, rows[Peer(p)].rs2 = Row(p).rs2,
           FromRow(p, c),
           Holds(Peer(p)) /\ c.s0 # None => Row(Peer(p)).rs1 = RetainedSecret(c.s0)
    PROVE  HistoryInv'
<1> PICK q : q = Peer(p)
  OBVIOUS
<1>0. /\ q \in Ends /\ q # p /\ Peer(q) = p /\ Peer(p) = q
      /\ \A x \in Ends : x = p \/ x = q
  BY Pair
<1>1. /\ ctx'[p] = c /\ ctx'[q] = ctx[q] /\ InSession /\ InSession'
      /\ Peer(p)' = q /\ Peer(q)' = p
      /\ Row(q)' = Row(q) /\ (Holds(q)' <=> Holds(q))
      /\ Row(p)' = rows[q] /\ Row(p)'.rs1 = Row(p).rs1 /\ Row(p)'.rs2 = Row(p).rs2
  BY <1>0, MovesFacts
<1>2. session' = session /\ dev' = dev /\ lag' = lag
  BY DEF Moves
<1>3. Holds(p)' <=> Holds(p)
  BY <1>0, <1>1, <1>2 DEF Holds, Row
<1>4. /\ Written(p) /\ Written(q) /\ FromRow(q, ctx[q])
      /\ Bridged(p, q) /\ Bridged(q, p)
  BY <1>0, <1>1 DEF HistoryInv, RowsBridged
<1>5. Bridged(p, q)' /\ Bridged(q, p)'
  BY <1>1, <1>2, <1>3, <1>4 DEF Bridged, Linked
<1>6. RowsBridged'
  <2>1. ASSUME NEW x \in Ends PROVE Bridged(x, Peer(x))'
    <3>1. CASE x = p
      BY <1>1, <1>5, <3>1 DEF Bridged
    <3>2. CASE x = q
      BY <1>1, <1>5, <3>2 DEF Bridged
    <3> QED BY <1>0, <3>1, <3>2
  <2> QED BY <1>1, <2>1 DEF RowsBridged
<1>7. FromRow(p, ctx[p])' /\ FromRow(q, ctx[q])'
  BY <1>0, <1>1, <1>2, <1>4 DEF FromRow
<1>8. Written(p)'
  <2>1. Holds(p) => ctx[p].state = "secure"
    BY <1>4 DEF Written, Moves
  <2>2. Holds(p) => c.state = "secure"
    BY <2>1 DEF Moves
  <2>3. c.state = "secure" => [type |-> "Conf2ACK"] \in sent'
    BY DEF Moves
  <2> QED BY <1>0, <1>1, <1>3, <1>4, <2>2, <2>3 DEF Written
<1>9. Written(q)'
  <2>1. sent \subseteq sent'
    BY DEF Moves
  <2> QED BY <1>0, <1>1, <1>4, <2>1 DEF Written
<1>10. \A m \in sent' : Tells(m, initiator, Peer(initiator))'
  BY <1>1, <1>3, MovesTells
<1> QED BY <1>0, <1>6, <1>7, <1>8, <1>9, <1>10 DEF HistoryInv

(* bzrtp_updateCachedSecrets at p, on Confirm2 or Conf2ACK or delayed by a *)
(* mismatch.                                                               *)
LEMMA HistoryWrite ==
    ASSUME OneDevice, TypeInv, HistoryInv, SameS0,
           NEW p \in Ends, NEW c, NEW rows, Moves(p, c, rows),
           ctx[p].s0 # None, c.state = "secure", c.s0 = None, ~c.mismatch,
           {c.peerZID, c.zuid} \subseteq {None, Peer(p)},
           rows[Peer(p)].rs1 = RetainedSecret(ctx[p].s0), rows[Peer(p)].rs2 = ctx[p].rs1,
           ctx[p].state # "secure" \/ lag[dev] > 1
    PROVE  HistoryInv'
<1> PICK q : q = Peer(p)
  OBVIOUS
<1>0. /\ q \in Ends /\ q # p /\ Peer(q) = p /\ Peer(p) = q
      /\ \A x \in Ends : x = p \/ x = q
  BY Pair
<1>1. /\ ctx'[p] = c /\ ctx'[q] = ctx[q] /\ InSession /\ InSession'
      /\ Peer(p)' = q /\ Peer(q)' = p
      /\ Row(q)' = Row(q) /\ (Holds(q)' <=> Holds(q)) /\ Row(p)' = rows[q]
  BY <1>0, MovesFacts
<1>2. /\ session' = session /\ dev' = dev /\ lag' = lag /\ session \in Nat
      /\ lag[dev] \in Nat
  BY BoundAssumption DEF Moves, TypeInv, GlobalOK
<1>3. /\ Written(p) /\ Written(q) /\ FromRow(q, ctx[q]) /\ FromRow(p, ctx[p])
      /\ Bridged(p, q)
  BY <1>0, <1>1 DEF HistoryInv, RowsBridged
<1>4. /\ RetainedSecret(ctx[p].s0) # None
      /\ RetainedSecret(ctx[p].s0).session = session
  <2>1. ctx[p].s0 \in S0s
    BY DEF TypeInv, Contexts
  <2>2. RetainedSecret(ctx[p].s0) \in Secrets
    BY <2>1, NoneAssumption DEF S0s, SecretOrNone, Secrets, RetainedSecret
  <2>3. ctx[p].s0.session = session
    BY <1>3 DEF FromRow
  <2> QED BY <2>2, <2>3, NoneAssumption DEF RetainedSecret
<1>5. /\ Row(p)'.rs1 = RetainedSecret(ctx[p].s0) /\ Row(p)'.rs2 = ctx[p].rs1
      /\ Holds(p)'
  BY <1>0, <1>1, <1>2, <1>4 DEF Holds, Row
<1>6. ctx[q].s0 # None => ctx[q].s0 = ctx[p].s0
  BY <1>0 DEF SameS0
<1>7. Holds(q) => Row(q).rs1 = RetainedSecret(ctx[p].s0)
  BY <1>0, <1>3 DEF Written
<1>8. ~Holds(q) /\ lag[dev] = 0 => ctx[p].rs1 = Row(q).rs1 /\ Row(q).rs1 # None
  <2> SUFFICES ASSUME ~Holds(q), lag[dev] = 0
               PROVE  ctx[p].rs1 = Row(q).rs1 /\ Row(q).rs1 # None
    OBVIOUS
  <2>1. ctx[p].state # "secure" /\ ctx[p].state # "NULL"
    BY <1>2 DEF Moves
  <2>2. ~Holds(p)
    BY <1>3, <2>1 DEF Written
  <2> QED BY <1>3, <2>2 DEF Bridged, Linked, FromRow
<1>9. Bridged(p, q)' /\ Bridged(q, p)'
  BY <1>1, <1>2, <1>5, <1>7, <1>8 DEF Bridged
<1>10. RowsBridged'
  <2>1. ASSUME NEW x \in Ends PROVE Bridged(x, Peer(x))'
    <3>1. CASE x = p
      BY <1>1, <1>9, <3>1 DEF Bridged
    <3>2. CASE x = q
      BY <1>1, <1>9, <3>2 DEF Bridged
    <3> QED BY <1>0, <3>1, <3>2
  <2> QED BY <1>1, <2>1 DEF RowsBridged
<1>11. FromRow(p, ctx[p])' /\ FromRow(q, ctx[q])'
  BY <1>0, <1>1, <1>2, <1>3, <1>4, <1>5 DEF FromRow
<1>12. Written(p)' /\ Written(q)'
  BY <1>0, <1>1, <1>3, <1>5, <1>6 DEF Written, Moves
<1>13. \A m \in sent' : Tells(m, initiator, Peer(initiator))'
  BY <1>5, MovesTells
<1> QED BY <1>0, <1>10, <1>11, <1>12, <1>13 DEF HistoryInv

(* A new session: no row holds its secret yet. *)
LEMMA HistoryStart ==
    ASSUME OneDevice, TypeInv, HistoryInv, NEW d \in Devices, NEW i \in {Caller, d}, Start(d, i)
    PROVE  HistoryInv'
<1>0. /\ d = dev /\ Caller \in Ends /\ dev \in Ends /\ session \in Nat
      /\ \A p \in Ends : Peer(p) \in Ends /\ Peer(p) = (IF p = Caller THEN dev ELSE Caller)
  <2>1. d = dev /\ session \in Nat /\ Caller \in Ends
    BY BoundAssumption DEF OneDevice, TypeInv, GlobalOK, Ends
  <2> QED BY <2>1, Pair DEF Peer
<1>1. /\ session' = session + 1 /\ dev' = dev /\ sent' = {} /\ cache' = cache /\ lag' = lag
      /\ \A p \in Ends : ctx[p].state = "NULL"
  BY <1>0 DEF Start
<1>2. ASSUME NEW p \in Ends
      PROVE  /\ ctx'[p].state \in {"discovery", "NULL"} /\ ctx'[p].rs1 = None
             /\ ctx'[p].s0 = None /\ ~ctx'[p].mismatch
             /\ ctx'[p].peerZID = None /\ ctx'[p].zuid = None
  BY DEF Start, NoContext
<1>3. ctx'[Caller].state = "discovery"
  BY <1>0 DEF Start, NoContext
<1>4. \A p \in Ends : Peer(p)' = Peer(p) /\ Row(p)' = Row(p)
  BY <1>1 DEF Peer, Row
<1>5. ASSUME NEW p \in Ends
      PROVE  /\ Row(p).rs1 # None => /\ Row(p).rs1.session \in Nat
                                     /\ Row(p).rs1.session <= session
             /\ ~Holds(p)'
  <2>1. Row(p).rs1 # None => Row(p).rs1.session \in Nat /\ Row(p).rs1.session <= session
    <3>1. Row(p) \in Rows
      BY <1>0 DEF Row, TypeInv
    <3>2. Row(p).rs1 # None => Row(p).rs1.session \in Nat
      BY <3>1 DEF Rows, SecretOrNone, Secrets
    <3> QED BY <3>2 DEF HistoryInv, FromRow
  <2>2. Holds(p)' <=> Row(p)'.rs1 # None /\ Row(p)'.rs1.session = session'
    BY DEF Holds, Row
  <2> QED BY <1>0, <1>1, <1>4, <2>1, <2>2
<1>6. RowsBridged'
  <2>1. Linked(Row(Caller), Row(dev), lag[dev])
    BY <1>1 DEF HistoryInv, RowsBridged, InSession
  <2>2. ASSUME NEW p \in Ends PROVE Bridged(p, Peer(p))'
    <3> PICK q : q = Peer(p)
      OBVIOUS
    <3>1. q \in Ends /\ Peer(p)' = q /\ {p, q} = {Caller, dev}
      BY <1>0, <1>4, Pair
    <3>2. Linked(Row(p), Row(q), lag[dev])
      BY <2>1, <3>1 DEF Linked
    <3>3. Bridged(p, q)'
      BY <1>1, <1>4, <1>5, <3>1, <3>2 DEF Bridged, Linked
    <3> QED BY <3>1, <3>3 DEF Bridged
  <2>3. InSession'
    BY <1>0, <1>3 DEF InSession
  <2> QED BY <2>2, <2>3 DEF RowsBridged
<1>7. ASSUME NEW p \in Ends PROVE FromRow(p, ctx[p])' /\ Written(p)'
  <2>1. Row(p)'.rs1 # None => Row(p)'.rs1.session <= session'
    BY <1>0, <1>1, <1>4, <1>5
  <2> QED BY <1>2, <1>5, <2>1 DEF FromRow, Written
<1> QED BY <1>1, <1>6, <1>7 DEF HistoryInv

(* The context of p is destroyed; with the second one the sessions are     *)
(* counted.                                                                *)
LEMMA HistoryEnd ==
    ASSUME OneDevice, TypeInv, HistoryInv, NEW p \in Ends, End(p)
    PROVE  HistoryInv'
<1> PICK q : q = Peer(p)
  OBVIOUS
<1>0. /\ q \in Ends /\ q # p /\ Peer(q) = p /\ Peer(p) = q
      /\ \A x \in Ends : x = p \/ x = q
      /\ {p, q} = {Caller, dev} /\ initiator \in Ends
  BY Pair
<1>1. /\ ctx[p].state # "NULL" /\ ctx'[p] = NoContext /\ ctx'[q] = ctx[q]
      /\ UNCHANGED <<session, dev, initiator, cache, sent>>
  BY <1>0 DEF End, TypeInv
<1>2. \A x \in Ends : /\ Peer(x)' = Peer(x) /\ Row(x)' = Row(x)
                      /\ Holds(x)' <=> Holds(x)
  BY <1>1 DEF Peer, Row, Holds
<1>3. /\ Bridged(p, q) /\ Bridged(q, p)
      /\ FromRow(p, ctx[p]) /\ Written(p) /\ FromRow(q, ctx[q]) /\ Written(q)
      /\ \A m \in sent : Tells(m, initiator, Peer(initiator))
  BY <1>0, <1>1 DEF HistoryInv, RowsBridged, InSession
<1>4. lag[dev] \in Nat /\ dev \in Devices
  BY DEF TypeInv, GlobalOK
<1>5. lag'[dev] = IF ctx[q].state # "NULL" THEN lag[dev]
                  ELSE IF Holds(p) /\ Holds(q) THEN 0
                  ELSE IF Holds(p) \/ Holds(q) THEN lag[dev] + 1
                  ELSE lag[dev]
  BY <1>0, <1>4 DEF End, TypeInv, GlobalOK
<1>6. InSession' <=> ctx[q].state # "NULL"
  BY <1>0, <1>1 DEF InSession, NoContext
<1>7. ctx[q].state = "NULL" => ctx[q].s0 = None /\ ~ctx[q].mismatch
  BY <1>0 DEF TypeInv, EndOK, ContextOK, NoContext
<1>8. RowsBridged'
  <2>1. CASE ctx[q].state # "NULL"
    <3>1. lag'[dev'] = lag[dev]
      BY <1>1, <1>5, <2>1
    <3>2. Bridged(p, q)' /\ Bridged(q, p)'
      BY <1>0, <1>2, <1>3, <3>1 DEF Bridged, Linked
    <3>3. ASSUME NEW x \in Ends PROVE Bridged(x, Peer(x))'
      <4>1. CASE x = p
        BY <1>0, <1>2, <3>2, <4>1 DEF Bridged
      <4>2. CASE x = q
        BY <1>0, <1>2, <3>2, <4>2 DEF Bridged
      <4> QED BY <1>0, <4>1, <4>2
    <3> QED BY <1>6, <2>1, <3>3 DEF RowsBridged
  <2>2. CASE ctx[q].state = "NULL"
    <3>1. Linked(Row(p), Row(q), lag'[dev])
      <4>1. CASE Holds(p) /\ Holds(q)
        <5>1. Row(p).rs1 # None
          BY <4>1 DEF Holds, Row
        <5> QED BY <1>3, <1>5, <2>2, <4>1, <5>1 DEF Bridged, Linked
      <4>2. CASE Holds(p) /\ ~Holds(q)
        BY <1>3, <1>4, <1>5, <2>2, <4>2 DEF Bridged, Linked
      <4>3. CASE ~Holds(p) /\ Holds(q)
        BY <1>3, <1>4, <1>5, <2>2, <4>3 DEF Bridged, Linked
      <4>4. CASE ~Holds(p) /\ ~Holds(q)
        BY <1>3, <1>5, <2>2, <4>4 DEF Bridged
      <4> QED BY <4>1, <4>2, <4>3, <4>4
    <3>2. Linked(Row(Caller), Row(dev), lag'[dev])
      BY <1>0, <3>1 DEF Linked
    <3>3. Caller \in Ends /\ dev \in Ends /\ Row(Caller)' = Row(Caller) /\ Row(dev)' = Row(dev)
      BY <1>0, <1>1, <1>2 DEF Row, Peer
    <3>4. Linked(Row(Caller), Row(dev), lag[dev])'
      BY <1>1, <3>2, <3>3 DEF Linked
    <3> QED BY <1>6, <2>2, <3>4 DEF RowsBridged
  <2> QED BY <2>1, <2>2
<1>9. FromRow(p, ctx[p])' /\ Written(p)'
  <2>1. /\ ctx'[p].state = "NULL" /\ ctx'[p].s0 = None /\ ~ctx'[p].mismatch
        /\ ctx'[p].peerZID = None /\ ctx'[p].zuid = None
    BY <1>1 DEF NoContext
  <2> QED BY <1>0, <1>1, <1>2, <1>3, <2>1 DEF FromRow, Written
<1>10. FromRow(q, ctx[q])' /\ Written(q)'
  <2>1. ctx'[p].s0 = None
    BY <1>1 DEF NoContext
  <2>2. CASE ctx[q].state # "NULL"
    <3>1. lag'[dev'] = lag[dev]
      BY <1>1, <1>5, <2>2
    <3> QED BY <1>0, <1>1, <1>2, <1>3, <2>1, <3>1 DEF FromRow, Written
  <2>3. CASE ctx[q].state = "NULL"
    BY <1>0, <1>1, <1>2, <1>3, <1>7, <2>1, <2>3 DEF FromRow, Written
  <2> QED BY <2>2, <2>3
<1>11. ASSUME NEW m \in sent' PROVE Tells(m, initiator, Peer(initiator))'
  <2> PICK i : i = initiator
    OBVIOUS
  <2> PICK r : r = Peer(i)
    OBVIOUS
  <2>1. i \in Ends /\ r \in Ends /\ initiator' = i /\ Peer(initiator)' = r /\ {i, r} = {p, q}
    BY <1>0, <1>1, <1>2
  <2>2. Tells(m, i, r)
    BY <1>1, <1>3
  <2>3. ctx'[p].state = "NULL"
    BY <1>1 DEF NoContext
  <2>4. Tells(m, i, r)'
    BY <1>1, <1>2, <2>1, <2>2, <2>3 DEF Tells
  <2> QED BY <2>1, <2>4 DEF Tells
<1> QED BY <1>0, <1>8, <1>9, <1>10, <1>11 DEF HistoryInv

(* bzrtp_setPeerHelloHash finds no other device. *)
LEMMA HistorySetPeerHelloHash ==
    ASSUME OneDevice, TypeInv, HistoryInv, SetPeerHelloHash
    PROVE  HistoryInv'
<1> DEFINE o == ctx[Caller]
           n == [o EXCEPT !.helloHash = TRUE]
<1>0. /\ Caller \in Ends /\ Peer(Caller) = dev /\ o \in Contexts /\ o.state # "NULL"
      /\ FromRow(Caller, o) /\ Written(Caller) /\ Peer(Caller) \in Ends
      /\ Peer(Peer(Caller)) = Caller
  <2>1. Caller \in Ends
    BY DEF Ends
  <2> QED BY <2>1, Pair DEF TypeInv, HistoryInv, SetPeerHelloHash
<1>1. ctx' = [ctx EXCEPT ![Caller] = n]
  <2>1. o.peerZID \in {None, dev}
    BY <1>0 DEF FromRow
  <2> QED BY <1>0, <2>1 DEF SetPeerHelloHash, TypeInv, Contexts
<1>2. /\ n.state = o.state /\ n.peerZID = o.peerZID /\ n.rs1 = o.rs1 /\ n.rs2 = o.rs2
      /\ n.mismatch = o.mismatch /\ n.s0 = o.s0 /\ n.zuid = o.zuid
  BY <1>0 DEF Contexts
<1> HIDE DEF o, n
<1>3. FromRow(Caller, n)
  BY <1>0, <1>2 DEF FromRow
<1>4. Moves(Caller, n, cache[Caller])
  <2>1. cache' = [cache EXCEPT ![Caller] = cache[Caller]]
    BY DEF SetPeerHelloHash, TypeInv
  <2>2. n.state = "secure" => [type |-> "Conf2ACK"] \in sent
    BY <1>0, <1>2 DEF Written, o
  <2> QED BY <1>0, <1>1, <1>2, <2>1, <2>2 DEF Moves, SetPeerHelloHash, o
<1>5. Holds(Peer(Caller)) /\ n.s0 # None => Row(Peer(Caller)).rs1 = RetainedSecret(n.s0)
  BY <1>0, <1>2 DEF HistoryInv, Written, o
<1> QED BY <1>0, <1>3, <1>4, <1>5, HistoryFrame DEF Row

(* Nobody has written a row before the keys are agreed on. *)
LEMMA NobodyHolds ==
    ASSUME OneDevice, TypeInv, HistoryInv, NEW p \in Ends,
           \/ p = initiator
              /\ ctx[p].state \in {"discovery", "agreement", "sendingDHPart2"}
           \/ p # initiator
              /\ ctx[p].state \in {"discovery", "agreement", "sendingDHPart1", "sendingConfirm1"}
    PROVE  ~Holds(p) /\ ~Holds(Peer(p)) /\ [type |-> "Conf2ACK"] \notin sent
<1>0. /\ Peer(p) \in Ends /\ initiator \in Ends /\ (p # initiator => p = Peer(initiator))
      /\ Written(p) /\ Written(Peer(p))
  BY Pair DEF HistoryInv
<1>1. [type |-> "Conf2ACK"] \notin sent
  BY <1>0 DEF HistoryInv, Tells
<1> QED BY <1>0, <1>1 DEF Written

(* The secrets of the row are loaded. *)
LEMMA HistoryRecvHello ==
    ASSUME OneDevice, TypeInv, HistoryInv, NEW p \in Ends, NEW q \in Ends, RecvHello(p, q)
    PROVE  HistoryInv'
<1> DEFINE o == ctx[p]
           c == Loaded(o, Row(p), q)
           n == [c EXCEPT !.state = "agreement", !.peerZID = q,
                          !.rs1ID = c.rs1, !.rs2ID = c.rs2]
<1>0. /\ o \in Contexts /\ o.state = "discovery" /\ q = Peer(p) /\ Row(p) \in Rows
      /\ FromRow(p, o) /\ o.s0 = None /\ ~o.mismatch
  <2>1. o \in Contexts /\ o.state = "discovery" /\ FromRow(p, o) /\ EndOK(p, o, cache[p])
    BY DEF RecvHello, TypeInv, HistoryInv
  <2>2. q = Peer(p)
    BY Pair DEF RecvHello, OneDevice, TypeInv, GlobalOK
  <2> QED BY <2>1, <2>2 DEF EndOK, ContextOK, Row, Before, InitiatorStates
<1>1. ctx' = [ctx EXCEPT ![p] = n]
  BY <1>0 DEF RecvHello, Row
<1>2. c = [o EXCEPT !.rs1 = Row(p).rs1, !.rs2 = Row(p).rs2, !.pvs = Row(p).pvs,
                    !.zuid = IF Row(p).rs1 = None THEN None ELSE q]
  BY <1>0 DEF Loaded, FromRow
<1> HIDE DEF c
<1>3. /\ c \in Contexts /\ c.rs1 = Row(p).rs1 /\ c.rs2 = Row(p).rs2 /\ c.zuid \in {None, q}
      /\ c.s0 = None /\ ~c.mismatch
  BY <1>0, <1>2 DEF Contexts, Rows
<1>4. /\ n.state = "agreement" /\ n.peerZID = q /\ n.rs1 = c.rs1 /\ n.rs2 = c.rs2
      /\ n.mismatch = c.mismatch /\ n.s0 = c.s0 /\ n.zuid = c.zuid
  BY <1>3 DEF Contexts
<1> HIDE DEF n
<1>5. FromRow(p, n)
  BY <1>0, <1>3, <1>4 DEF FromRow
<1>6. Moves(p, n, cache[p])
  <2>1. cache' = [cache EXCEPT ![p] = cache[p]]
    BY DEF RecvHello, TypeInv
  <2>2. sent \subseteq sent' /\ \A m \in sent' : m \in sent \/ Says(m, p, n)
    BY DEF RecvHello, Says
  <2>3. UNCHANGED <<session, dev, initiator, lag>>
    BY DEF RecvHello
  <2> QED BY <1>0, <1>1, <1>4, <2>1, <2>2, <2>3 DEF Moves
<1> QED BY <1>3, <1>4, <1>5, <1>6, HistoryFrame DEF Row

(* The responder sends the identifiers of its row. *)
LEMMA HistoryRecvCommit ==
    ASSUME OneDevice, TypeInv, HistoryInv, NEW p \in Ends, RecvCommit(p)
    PROVE  HistoryInv'
<1> DEFINE o == ctx[p]
           n == [o EXCEPT !.state = "sendingDHPart1"]
<1>0. /\ o \in Contexts /\ o.state = "agreement" /\ p # initiator
      /\ FromRow(p, o) /\ o.s0 = None /\ o.rs1 = o.rs1ID /\ o.rs2 = o.rs2ID
  BY DEF RecvCommit, TypeInv, HistoryInv, EndOK, ContextOK, Before, InitiatorStates
<1>1. ctx' = [ctx EXCEPT ![p] = n]
  BY DEF RecvCommit
<1>2. /\ n.state = "sendingDHPart1" /\ n.peerZID = o.peerZID /\ n.rs1 = o.rs1 /\ n.rs2 = o.rs2
      /\ n.mismatch = o.mismatch /\ n.s0 = o.s0 /\ n.zuid = o.zuid
  BY <1>0 DEF Contexts
<1> HIDE DEF n
<1>3. FromRow(p, n)
  BY <1>0, <1>2 DEF FromRow
<1>4. Moves(p, n, cache[p])
  <2>1. cache' = [cache EXCEPT ![p] = cache[p]]
    BY DEF RecvCommit, TypeInv
  <2>2. sent \subseteq sent' /\ \A m \in sent' : m \in sent \/ Says(m, p, n)
    BY <1>0 DEF RecvCommit, Says, FromRow
  <2>3. UNCHANGED <<session, dev, initiator, lag>>
    BY DEF RecvCommit
  <2> QED BY <1>0, <1>1, <1>2, <2>1, <2>2, <2>3 DEF Moves
<1> QED BY <1>0, <1>2, <1>3, <1>4, HistoryFrame DEF Row

(* At most one cut session behind, the initiator finds a secret it has in  *)
(* common with the responder, if there ever was one.                       *)
LEMMA InitiatorFinds ==
    ASSUME NEW c \in Contexts, NEW m, NEW x, NEW y, NEW n \in {0, 1},
           ~c.mismatch, c.rs1 = c.rs1ID, c.rs2 = c.rs2ID, c.rs1 = x.rs1, c.rs2 = x.rs2,
           m.rs1ID = y.rs1, m.rs2ID = y.rs2, Linked(x, y, n)
    PROVE  /\ ~InitiatorMatch(c, m).mismatch
           /\ n = 0 => InitiatorMatch(c, m).rs1 = c.rs1
BY DEF InitiatorMatch, Same, Linked, Contexts

(* So does the responder. *)
LEMMA ResponderFinds ==
    ASSUME NEW c \in Contexts, NEW m, NEW x, NEW y, NEW n \in {0, 1},
           ~c.mismatch, c.rs1 = c.rs1ID, c.rs2 = c.rs2ID, c.rs1 = x.rs1, c.rs2 = x.rs2,
           m.rs1ID = y.rs1, m.rs2ID = y.rs2, Linked(x, y, n)
    PROVE  /\ ~ResponderMatch(c, m).mismatch
           /\ n = 0 => ResponderMatch(c, m).rs1 = c.rs1
BY DEF ResponderMatch, Same, Linked, Contexts

(* Not far apart, the matching raises no mismatch, and keeps rs1 if no     *)
(* session was cut.                                                        *)
FindsOne(c, a, e) ==
    /\ lag[dev] \in {0, 1} => ~e
    /\ lag[dev] = 0 => a = c.rs1

(* The context and the rows after the matching. *)
AfterMatching(p, s, n, rows) ==
    /\ n.state = s /\ FromRow(p, n)
    /\ rows[Peer(p)].rs1 = Row(p).rs1 /\ rows[Peer(p)].rs2 = Row(p).rs2

(* After the matching, which has kept a and b. *)
LEMMA HistoryMatch ==
    ASSUME OneDevice, TypeInv, HistoryInv, NEW p \in Ends,
           ctx[p].state \in {"agreement", "sendingDHPart1"},
           NEW a \in {ctx[p].rs1, None}, NEW b \in {ctx[p].rs2, None}, NEW e \in BOOLEAN,
           FindsOne(ctx[p], a, e),
           NEW s \in {"sendingDHPart2", "sendingConfirm1"}
    PROVE  LET c == ForgetPvs(Matched(ctx[p], a, b, e))
               n == [c EXCEPT !.state = s, !.s0 = S0(c)]
               rows == ForgetRowPvs(cache[p], c)
           IN  AfterMatching(p, s, n, rows)
<1> DEFINE o == ctx[p]
           m == Matched(o, a, b, e)
           c == ForgetPvs(m)
           n == [c EXCEPT !.state = s, !.s0 = S0(c)]
           rows == ForgetRowPvs(cache[p], c)
<1>0. /\ o \in Contexts /\ cache[p] \in [Ends -> Rows] /\ RowsOK(cache[p])
      /\ FromRow(p, o) /\ Peer(p) \in Ends /\ lag[dev] \in Nat
  BY Pair DEF TypeInv, EndOK, HistoryInv, GlobalOK
<1>1. a \in SecretOrNone /\ b \in SecretOrNone
  BY <1>0 DEF Contexts, SecretOrNone
<1>2. /\ m \in Contexts /\ m.peerZID = o.peerZID /\ m.zuid = o.zuid
      /\ m.rs1 = a /\ m.rs2 = b /\ m.mismatch = e
  BY <1>0, <1>1, MatchedFacts
<1> HIDE DEF m
<1>3. /\ c \in Contexts /\ c.peerZID = m.peerZID /\ c.zuid = m.zuid
      /\ c.rs1 = m.rs1 /\ c.rs2 = m.rs2 /\ c.mismatch = m.mismatch
  BY <1>2, ForgetPvsFacts DEF Contexts
<1> HIDE DEF c
<1>4. S0(c).session = session /\ S0(c) # None
  BY <1>3, S0Type DEF TypeInv, S0
<1>5. /\ n.state = s /\ n.peerZID = c.peerZID /\ n.zuid = c.zuid /\ n.s0 = S0(c)
      /\ n.rs1 = c.rs1 /\ n.rs2 = c.rs2 /\ n.mismatch = c.mismatch
  BY <1>3 DEF Contexts
<1> HIDE DEF n
<1>6. rows[Peer(p)].rs1 = Row(p).rs1 /\ rows[Peer(p)].rs2 = Row(p).rs2
  BY <1>0, <1>3, ForgetRowFacts DEF Row
<1>7. e => lag[dev] > 1
  BY <1>0 DEF FindsOne
<1>8. lag[dev] = 0 => a = Row(p).rs1
  BY <1>0 DEF FromRow, FindsOne
<1> HIDE DEF o, rows
<1>9. FromRow(p, n)
  BY <1>0, <1>2, <1>3, <1>4, <1>5, <1>7, <1>8 DEF FromRow
<1>10. AfterMatching(p, s, n, rows)
  BY <1>5, <1>6, <1>9 DEF AfterMatching
<1> QED BY <1>10 DEF n, c, m, o, rows

(* The initiator's matching. *)
LEMMA HistoryRecvDHPart1 ==
    ASSUME OneDevice, TypeInv, HistoryInv, NEW p \in Ends, RecvDHPart1(p)
    PROVE  HistoryInv'
<1>0. /\ ctx[p] \in Contexts /\ ctx[p].state = "agreement" /\ p = initiator
      /\ ~ctx[p].mismatch /\ ctx[p].rs1 = ctx[p].rs1ID /\ ctx[p].rs2 = ctx[p].rs2ID
      /\ ctx[p].rs1 = Row(p).rs1 /\ ctx[p].rs2 = Row(p).rs2
  BY DEF TypeInv, RecvDHPart1, EndOK, ContextOK, Before, HistoryInv, FromRow
<1>1. PICK m \in sent :
        /\ m.type = "DHPart1"
        /\ LET c0 == ForgetPvs(InitiatorMatch(ctx[p], m)) IN
            /\ ctx' = [ctx EXCEPT ![p] = [c0 EXCEPT !.state = "sendingDHPart2", !.s0 = S0(c0)]]
            /\ cache' = [cache EXCEPT ![p] = ForgetRowPvs(cache[p], c0)]
  BY DEF RecvDHPart1, TypeInv
<1>2. ~Holds(p) /\ ~Holds(Peer(p))
  BY <1>0, NobodyHolds
<1>3. m.rs1ID = Row(Peer(p)).rs1 /\ m.rs2ID = Row(Peer(p)).rs2
  BY <1>0, <1>1, <1>2 DEF HistoryInv, Tells
<1>4. Linked(Row(p), Row(Peer(p)), lag[dev])
  BY <1>0, <1>2 DEF HistoryInv, RowsBridged, InSession, Bridged
<1>5. PICK a \in {ctx[p].rs1, None}, b \in {ctx[p].rs2, None}, e \in BOOLEAN :
        InitiatorMatch(ctx[p], m) = Matched(ctx[p], a, b, e) /\ KeepsOne(ctx[p], a, b, e)
  BY <1>0, InitiatorKeepsOne
<1>6. InitiatorMatch(ctx[p], m).mismatch = e /\ InitiatorMatch(ctx[p], m).rs1 = a
  BY <1>0, <1>5 DEF Matched, Contexts
<1>7. FindsOne(ctx[p], a, e)
  BY <1>0, <1>3, <1>4, <1>6, InitiatorFinds DEF FindsOne
<1> DEFINE c == ForgetPvs(Matched(ctx[p], a, b, e))
           n == [c EXCEPT !.state = "sendingDHPart2", !.s0 = S0(c)]
           rows == ForgetRowPvs(cache[p], c)
<1>8. ctx' = [ctx EXCEPT ![p] = n] /\ cache' = [cache EXCEPT ![p] = rows]
  BY <1>1, <1>5
<1>9. AfterMatching(p, "sendingDHPart2", n, rows)
  BY <1>0, <1>7, HistoryMatch
<1> HIDE DEF c, n, rows
<1>10. Moves(p, n, rows)
  <2>1. sent \subseteq sent' /\ \A k \in sent' : k \in sent \/ Says(k, p, n)
    BY <1>0 DEF RecvDHPart1, Says
  <2>2. UNCHANGED <<session, dev, initiator, lag>>
    BY DEF RecvDHPart1
  <2> QED BY <1>0, <1>8, <1>9, <2>1, <2>2 DEF Moves, AfterMatching
<1> QED BY <1>2, <1>9, <1>10, HistoryFrame DEF AfterMatching

(* The responder's matching. *)
LEMMA HistoryRecvDHPart2 ==
    ASSUME OneDevice, TypeInv, HistoryInv, NEW p \in Ends, RecvDHPart2(p)
    PROVE  HistoryInv'
<1>0. /\ ctx[p] \in Contexts /\ ctx[p].state = "sendingDHPart1" /\ p # initiator
      /\ ~ctx[p].mismatch /\ ctx[p].rs1 = ctx[p].rs1ID /\ ctx[p].rs2 = ctx[p].rs2ID
      /\ ctx[p].rs1 = Row(p).rs1 /\ ctx[p].rs2 = Row(p).rs2
  BY DEF TypeInv, RecvDHPart2, EndOK, ContextOK, Before, HistoryInv, FromRow
<1>1. PICK m \in sent :
        /\ m.type = "DHPart2"
        /\ LET c0 == ForgetPvs(ResponderMatch(ctx[p], m)) IN
            /\ ctx' = [ctx EXCEPT ![p] = [c0 EXCEPT !.state = "sendingConfirm1", !.s0 = S0(c0)]]
            /\ cache' = [cache EXCEPT ![p] = ForgetRowPvs(cache[p], c0)]
            /\ sent' = sent \cup {[type |-> "Confirm1", s0 |-> S0(c0), V |-> c0.pvs]}
  BY DEF RecvDHPart2, TypeInv
<1>2. ~Holds(p) /\ ~Holds(Peer(p))
  BY <1>0, NobodyHolds
<1>3. initiator = Peer(p)
  BY <1>0, Pair
<1>4. m.rs1ID = Row(Peer(p)).rs1 /\ m.rs2ID = Row(Peer(p)).rs2
  BY <1>1, <1>2, <1>3 DEF HistoryInv, Tells
<1>5. Linked(Row(p), Row(Peer(p)), lag[dev])
  BY <1>0, <1>2 DEF HistoryInv, RowsBridged, InSession, Bridged
<1>6. PICK a \in {ctx[p].rs1, None}, b \in {ctx[p].rs2, None}, e \in BOOLEAN :
        ResponderMatch(ctx[p], m) = Matched(ctx[p], a, b, e) /\ KeepsOne(ctx[p], a, b, e)
  BY <1>0, ResponderKeepsOne
<1>7. ResponderMatch(ctx[p], m).mismatch = e /\ ResponderMatch(ctx[p], m).rs1 = a
  BY <1>0, <1>6 DEF Matched, Contexts
<1>8. FindsOne(ctx[p], a, e)
  BY <1>0, <1>4, <1>5, <1>7, ResponderFinds DEF FindsOne
<1> DEFINE c == ForgetPvs(Matched(ctx[p], a, b, e))
           n == [c EXCEPT !.state = "sendingConfirm1", !.s0 = S0(c)]
           rows == ForgetRowPvs(cache[p], c)
<1>9. /\ ctx' = [ctx EXCEPT ![p] = n] /\ cache' = [cache EXCEPT ![p] = rows]
      /\ sent' = sent \cup {[type |-> "Confirm1", s0 |-> S0(c), V |-> c.pvs]}
  BY <1>1, <1>6
<1>10. AfterMatching(p, "sendingConfirm1", n, rows)
  BY <1>0, <1>8, HistoryMatch
<1> HIDE DEF c, n, rows
<1>11. Moves(p, n, rows)
  <2>1. sent \subseteq sent' /\ \A k \in sent' : k \in sent \/ Says(k, p, n)
    BY <1>9 DEF Says
  <2>2. UNCHANGED <<session, dev, initiator, lag>>
    BY DEF RecvDHPart2
  <2> QED BY <1>0, <1>9, <1>10, <2>1, <2>2 DEF Moves, AfterMatching
<1> QED BY <1>2, <1>10, <1>11, HistoryFrame DEF AfterMatching

(* The initiator confirms. *)
LEMMA HistoryRecvConfirm1 ==
    ASSUME OneDevice, TypeInv, HistoryInv, NEW p \in Ends, RecvConfirm1(p)
    PROVE  HistoryInv'
<1> DEFINE o == ctx[p]
<1>0. /\ o \in Contexts /\ o.state = "sendingDHPart2" /\ FromRow(p, o) /\ p = initiator
  BY DEF TypeInv, HistoryInv, RecvConfirm1
<1>1. PICK m \in sent :
        ctx' = [ctx EXCEPT ![p].state = "sendingConfirm2", ![p].peerPVS = m.V]
  BY DEF RecvConfirm1
<1> DEFINE n == [o EXCEPT !.state = "sendingConfirm2", !.peerPVS = m.V]
<1>2. ctx' = [ctx EXCEPT ![p] = n]
  BY <1>1 DEF TypeInv
<1>3. /\ n.state = "sendingConfirm2" /\ n.peerZID = o.peerZID /\ n.rs1 = o.rs1 /\ n.rs2 = o.rs2
      /\ n.mismatch = o.mismatch /\ n.s0 = o.s0 /\ n.zuid = o.zuid
  BY <1>0 DEF Contexts
<1> HIDE DEF n
<1>4. FromRow(p, n)
  BY <1>0, <1>3 DEF FromRow
<1>5. ~Holds(Peer(p))
  BY <1>0, NobodyHolds
<1>6. Moves(p, n, cache[p])
  <2>1. cache' = [cache EXCEPT ![p] = cache[p]]
    BY DEF RecvConfirm1, TypeInv
  <2>2. sent \subseteq sent' /\ \A k \in sent' : k \in sent \/ Says(k, p, n)
    BY <1>0, <1>3 DEF RecvConfirm1, Says
  <2>3. UNCHANGED <<session, dev, initiator, lag>>
    BY DEF RecvConfirm1
  <2> QED BY <1>0, <1>2, <1>3, <2>1, <2>2, <2>3 DEF Moves
<1> QED BY <1>4, <1>5, <1>6, HistoryFrame DEF Row

(* An endpoint that updates its row, unless a mismatch delays that, and    *)
(* becomes secure.                                                         *)
LEMMA HistorySecure ==
    ASSUME OneDevice, TypeInv, HistoryInv, SameS0, NEW p \in Ends, NEW v \in BOOLEAN,
           ctx[p].state \in {"sendingConfirm1", "sendingConfirm2"}
    PROVE  LET c == [ctx[p] EXCEPT !.peerPVS = v]
               n == EnterSecure(UpdatedContext(c))
               rows == UpdatedRows(cache[p], c)
           IN  n.state = "secure" /\ (Moves(p, n, rows) => HistoryInv')
<1> DEFINE o == ctx[p]
           c == [o EXCEPT !.peerPVS = v]
           u == UpdatedContext(c)
           n == EnterSecure(u)
           rows == UpdatedRows(cache[p], c)
<1>0. /\ o \in Contexts /\ cache[p] \in [Ends -> Rows] /\ RowsOK(cache[p])
      /\ FromRow(p, o) /\ o.s0 # None /\ o.peerZID = Peer(p) /\ Peer(p) # None
      /\ Peer(p) \in Ends /\ Written(Peer(p)) /\ Peer(Peer(p)) = p
  <2>1. /\ EndOK(p, o, cache[p]) /\ FromRow(p, o) /\ Peer(p) \in Ends
        /\ Peer(Peer(p)) = p /\ Written(Peer(p))
    BY Pair DEF TypeInv, HistoryInv
  <2>2. o.s0 # None /\ o.peerZID = Peer(p)
    BY <2>1 DEF EndOK, ContextOK, Before, InitiatorStates
  <2> QED BY <2>1, <2>2, EndsAssumption DEF EndOK, Ends
<1>1. /\ c \in Contexts /\ c.state = o.state /\ c.peerZID = o.peerZID /\ c.rs1 = o.rs1
      /\ c.rs2 = o.rs2 /\ c.mismatch = o.mismatch /\ c.s0 = o.s0 /\ c.zuid = o.zuid
  BY <1>0 DEF Contexts
<1> HIDE DEF c
<1>2. UpdatedZuid(c) = Peer(p)
  BY <1>0, <1>1 DEF UpdatedZuid, FromRow
<1>3. /\ u \in Contexts
      /\ c.mismatch => u = c /\ rows = cache[p]
      /\ ~c.mismatch => u = [c EXCEPT !.zuid = Peer(p), !.s0 = None, !.rs1 = None, !.rs2 = None]
  BY <1>0, <1>1, <1>2, UpdateFacts
<1>4. ~c.mismatch => /\ u.zuid = Peer(p) /\ u.s0 = None /\ u.mismatch = c.mismatch
                     /\ u.peerZID = c.peerZID
  BY <1>3 DEF Contexts
<1> HIDE DEF u
<1>5. /\ n.state = "secure" /\ n.peerZID = u.peerZID /\ n.mismatch = u.mismatch
      /\ n.s0 = u.s0 /\ n.zuid = u.zuid /\ n.rs1 = u.rs1 /\ n.rs2 = u.rs2
  <2>1. n.rs1 = u.rs1 /\ n.rs2 = u.rs2
    BY <1>3 DEF EnterSecure, Contexts
  <2> QED BY <1>3, <2>1, SecureContext
<1> HIDE DEF n
<1>6. ASSUME Moves(p, n, rows) PROVE HistoryInv'
  <2>1. CASE c.mismatch
    <3>1. FromRow(p, n)
      BY <1>0, <1>1, <1>3, <1>5, <2>1 DEF FromRow
    <3>2. Holds(Peer(p)) /\ n.s0 # None => Row(Peer(p)).rs1 = RetainedSecret(n.s0)
      BY <1>0, <1>1, <1>3, <1>5, <2>1 DEF Written
    <3>3. rows[Peer(p)] = Row(p)
      BY <1>3, <2>1 DEF Row
    <3> HIDE DEF rows
    <3> QED BY <1>6, <3>1, <3>2, <3>3, HistoryFrame
  <2>2. CASE ~c.mismatch
    <3>1. rows[Peer(p)].rs1 = RetainedSecret(o.s0) /\ rows[Peer(p)].rs2 = o.rs1
      BY <1>0, <1>1, <1>2, <2>2, WrittenRow
    <3>2. /\ n.s0 = None /\ ~n.mismatch /\ {n.peerZID, n.zuid} \subseteq {None, Peer(p)}
      BY <1>0, <1>1, <1>4, <1>5, <2>2
    <3>3. o.state # "secure"
      OBVIOUS
    <3> HIDE DEF rows
    <3> QED BY <1>0, <1>5, <1>6, <3>1, <3>2, <3>3, HistoryWrite
  <2> QED BY <2>1, <2>2
<1> QED BY <1>5, <1>6 DEF n, u, c, rows

(* The responder writes its row. *)
LEMMA HistoryRecvConfirm2 ==
    ASSUME OneDevice, TypeInv, HistoryInv, SameS0, NEW p \in Ends, RecvConfirm2(p)
    PROVE  HistoryInv'
<1>0. ctx[p].state = "sendingConfirm1" /\ p # initiator
  BY DEF RecvConfirm2
<1>1. PICK m \in sent :
        /\ m.type = "Confirm2"
        /\ LET c0 == [ctx[p] EXCEPT !.peerPVS = m.V] IN
            /\ ctx' = [ctx EXCEPT ![p] = EnterSecure(UpdatedContext(c0))]
            /\ cache' = [cache EXCEPT ![p] = UpdatedRows(cache[p], c0)]
  BY DEF RecvConfirm2, TypeInv
<1>2. m.V \in BOOLEAN
  BY <1>1, MessageKinds DEF TypeInv, Confirms
<1> PICK v \in BOOLEAN : v = m.V
  BY <1>2
<1> DEFINE c == [ctx[p] EXCEPT !.peerPVS = v]
           n == EnterSecure(UpdatedContext(c))
           rows == UpdatedRows(cache[p], c)
<1>3. ctx' = [ctx EXCEPT ![p] = n] /\ cache' = [cache EXCEPT ![p] = rows]
  BY <1>1
<1>4. n.state = "secure" /\ (Moves(p, n, rows) => HistoryInv')
  BY <1>0, HistorySecure
<1> HIDE DEF n, rows
<1>5. Moves(p, n, rows)
  <2>1. /\ sent \subseteq sent' /\ \A k \in sent' : k \in sent \/ Says(k, p, n)
        /\ [type |-> "Conf2ACK"] \in sent'
    BY <1>0, <1>1, <1>4 DEF RecvConfirm2, Says
  <2>2. UNCHANGED <<session, dev, initiator, lag>>
    BY DEF RecvConfirm2
  <2> QED BY <1>0, <1>3, <1>4, <2>1, <2>2 DEF Moves
<1> QED BY <1>4, <1>5

(* The initiator writes its row. *)
LEMMA HistoryRecvConf2ACK ==
    ASSUME OneDevice, TypeInv, HistoryInv, SameS0, NEW p \in Ends, RecvConf2ACK(p)
    PROVE  HistoryInv'
<1>0. /\ ctx[p].state = "sendingConfirm2" /\ [type |-> "Conf2ACK"] \in sent
      /\ ctx[p] \in Contexts
  BY DEF RecvConf2ACK, TypeInv
<1> PICK v \in BOOLEAN : v = ctx[p].peerPVS
  BY <1>0 DEF Contexts
<1> DEFINE c == [ctx[p] EXCEPT !.peerPVS = v]
           n == EnterSecure(UpdatedContext(c))
           rows == UpdatedRows(cache[p], c)
<1>1. c = ctx[p]
  BY <1>0 DEF Contexts
<1>2. ctx' = [ctx EXCEPT ![p] = n] /\ cache' = [cache EXCEPT ![p] = rows]
  <2> HIDE DEF c
  <2> QED BY <1>1 DEF RecvConf2ACK, TypeInv
<1>3. n.state = "secure" /\ (Moves(p, n, rows) => HistoryInv')
  BY <1>0, HistorySecure
<1> HIDE DEF n, rows
<1>4. Moves(p, n, rows)
  BY <1>0, <1>2, <1>3 DEF Moves, RecvConf2ACK
<1> QED BY <1>3, <1>4

(* The user confirms the SAS; an update that was delayed is done. *)
LEMMA HistorySASVerified ==
    ASSUME OneDevice, TypeInv, HistoryInv, SameS0, NEW p \in Ends, SASVerified(p)
    PROVE  HistoryInv'
<1> DEFINE o == ctx[p]
           c == [o EXCEPT !.mismatch = FALSE]
           n == IF o.mismatch THEN UpdatedContext(c) ELSE c
           written == IF o.mismatch THEN UpdatedRows(cache[p], c) ELSE cache[p]
           rows == [written EXCEPT ![c.zuid].pvs = TRUE]
<1>0. /\ o \in Contexts /\ cache[p] \in [Ends -> Rows] /\ RowsOK(cache[p])
      /\ FromRow(p, o) /\ Written(p) /\ o.state = "secure" /\ o.zuid = Peer(p)
      /\ o.peerZID = Peer(p) /\ (o.s0 # None <=> o.mismatch)
      /\ Peer(p) \in Ends /\ Peer(p) # None
  <2>1. /\ o \in Contexts /\ EndOK(p, o, cache[p]) /\ o.state = "secure"
        /\ FromRow(p, o) /\ Written(p) /\ Peer(p) \in Ends
    BY Pair DEF TypeInv, HistoryInv, SASVerified
  <2>2. o.zuid # None /\ o.peerZID = Peer(p) /\ (o.s0 # None <=> o.mismatch)
    BY <2>1 DEF EndOK, ContextOK, Before, InitiatorStates
  <2> QED BY <2>1, <2>2, EndsAssumption DEF EndOK, FromRow, Ends
<1>1. /\ ctx' = [ctx EXCEPT ![p] = n] /\ cache' = [cache EXCEPT ![p] = rows]
      /\ UNCHANGED <<session, dev, initiator, lag, sent>>
  BY DEF SASVerified, TypeInv
<1>2. /\ c \in Contexts /\ c.state = "secure" /\ c.peerZID = Peer(p) /\ c.zuid = Peer(p)
      /\ c.rs1 = o.rs1 /\ c.rs2 = o.rs2 /\ c.mismatch = FALSE /\ c.s0 = o.s0
  BY <1>0 DEF Contexts
<1> HIDE DEF c
<1>3. UpdatedZuid(c) = Peer(p)
  BY <1>0, <1>2 DEF UpdatedZuid
<1>4. o.mismatch =>
        /\ written \in [Ends -> Rows]
        /\ n = [c EXCEPT !.zuid = Peer(p), !.s0 = None, !.rs1 = None, !.rs2 = None]
        /\ written[Peer(p)].rs1 = RetainedSecret(o.s0) /\ written[Peer(p)].rs2 = o.rs1
  <2> SUFFICES ASSUME o.mismatch
               PROVE  /\ written \in [Ends -> Rows]
                      /\ n = [c EXCEPT !.zuid = Peer(p), !.s0 = None, !.rs1 = None, !.rs2 = None]
                      /\ written[Peer(p)].rs1 = RetainedSecret(o.s0)
                      /\ written[Peer(p)].rs2 = o.rs1
    OBVIOUS
  <2>1. c.s0 # None /\ ~c.mismatch /\ c.peerZID # None
    BY <1>0, <1>2
  <2>2. /\ written = UpdatedRows(cache[p], c) /\ n = UpdatedContext(c)
    OBVIOUS
  <2> HIDE DEF written, n, o
  <2>3. /\ written \in [Ends -> Rows]
        /\ n = [c EXCEPT !.zuid = Peer(p), !.s0 = None, !.rs1 = None, !.rs2 = None]
    BY <1>0, <1>2, <1>3, <2>1, <2>2, UpdateFacts
  <2>4. written[Peer(p)].rs1 = RetainedSecret(o.s0) /\ written[Peer(p)].rs2 = o.rs1
    BY <1>0, <1>2, <1>3, <2>1, <2>2, WrittenRow
  <2> QED BY <2>3, <2>4
<1>5. ~o.mismatch => written = cache[p] /\ n = c
  OBVIOUS
<1>6. written \in [Ends -> Rows]
  BY <1>0, <1>4, <1>5
<1> HIDE DEF written, n
<1>7. /\ n.state = "secure" /\ n.peerZID = Peer(p) /\ n.zuid = Peer(p) /\ n.mismatch = FALSE
      /\ n.s0 = None
  BY <1>0, <1>2, <1>4, <1>5 DEF Contexts
<1>8. /\ rows[Peer(p)].rs1 = written[Peer(p)].rs1
      /\ rows[Peer(p)].rs2 = written[Peer(p)].rs2
  BY <1>0, <1>2, <1>6, FlagRow
<1> HIDE DEF rows
<1>9. Moves(p, n, rows)
  BY <1>0, <1>1, <1>7 DEF Moves, Written
<1>10. CASE o.mismatch
  <2>1. lag[dev] > 1
    BY <1>0, <1>10 DEF FromRow
  <2> QED BY <1>0, <1>4, <1>7, <1>8, <1>9, <1>10, <2>1, HistoryWrite
<1>11. CASE ~o.mismatch
  <2>1. FromRow(p, n)
    BY <1>0, <1>7 DEF FromRow
  <2>2. rows[Peer(p)].rs1 = Row(p).rs1 /\ rows[Peer(p)].rs2 = Row(p).rs2
    BY <1>5, <1>8, <1>11 DEF Row
  <2> QED BY <1>7, <1>9, <2>1, <2>2, HistoryFrame
<1> QED BY <1>10, <1>11

(* The user withdraws the confirmation. *)
LEMMA HistoryResetSASVerified ==
    ASSUME OneDevice, TypeInv, HistoryInv, NEW p \in Ends, ResetSASVerified(p)
    PROVE  HistoryInv'
<1> DEFINE o == ctx[p]
           rows == [cache[p] EXCEPT ![o.zuid].pvs = FALSE]
<1>0. /\ o \in Contexts /\ cache[p] \in [Ends -> Rows] /\ o.zuid \in Ends
      /\ FromRow(p, o) /\ Written(p) /\ o.state = "secure"
      /\ Peer(p) \in Ends /\ Written(Peer(p)) /\ Peer(Peer(p)) = p
  BY Pair DEF TypeInv, HistoryInv, ResetSASVerified, EndOK, ContextOK, Contexts
<1>1. /\ ctx' = [ctx EXCEPT ![p] = o] /\ cache' = [cache EXCEPT ![p] = rows]
      /\ UNCHANGED <<session, dev, initiator, lag, sent>>
  BY DEF ResetSASVerified, TypeInv
<1>2. rows[Peer(p)].rs1 = Row(p).rs1 /\ rows[Peer(p)].rs2 = Row(p).rs2
  BY <1>0, FlagRow DEF Row
<1> HIDE DEF rows
<1>3. Moves(p, o, rows)
  BY <1>0, <1>1 DEF Moves, Written
<1>4. Holds(Peer(p)) /\ o.s0 # None => Row(Peer(p)).rs1 = RetainedSecret(o.s0)
  BY <1>0 DEF Written
<1> HIDE DEF o
<1> QED BY <1>0, <1>2, <1>3, <1>4, HistoryFrame

(* HistoryInv is inductive, relative to the types and the agreement on s0. *)
LEMMA HistoryInit == OneDevice /\ Init => HistoryInv
<1> SUFFICES ASSUME OneDevice, Init PROVE HistoryInv
  OBVIOUS
<1>1. \A p \in Ends : ctx[p] = NoContext /\ \A q \in Ends : cache[p][q] = NoRow
  BY DEF Init
<1>2. /\ Caller \in Ends /\ dev \in Ends /\ lag[dev] = 1 /\ sent = {}
      /\ \A p \in Ends : Peer(p) \in Ends
  BY DEF Init, Ends, Peer
<1>3. ASSUME NEW p \in Ends PROVE Row(p) = NoRow /\ ~Holds(p)
  <2>1. cache[p][Peer(p)] = NoRow
    BY <1>1, <1>2
  <2>2. NoRow.rs1 = None
    BY DEF NoRow
  <2> QED BY <2>1, <2>2 DEF Row, Holds
<1>4. RowsBridged
  BY <1>1, <1>2, <1>3 DEF RowsBridged, InSession, Linked, NoContext, NoRow
<1>5. \A p \in Ends : FromRow(p, ctx[p]) /\ Written(p)
  BY <1>1, <1>3 DEF FromRow, Written, NoContext, NoRow
<1> QED BY <1>2, <1>4, <1>5 DEF HistoryInv

(* The inductive step, one lemma for each action. *)
LEMMA HistoryNext ==
    OneDevice /\ TypeInv /\ SameS0 /\ HistoryInv /\ [Next]_vars => HistoryInv'
<1> SUFFICES ASSUME OneDevice, TypeInv, SameS0, HistoryInv, [Next]_vars PROVE HistoryInv'
  OBVIOUS
<1>1. CASE UNCHANGED vars
  <2>1. /\ session' = session /\ dev' = dev /\ initiator' = initiator /\ ctx' = ctx
        /\ cache' = cache /\ sent' = sent /\ lag' = lag
    BY <1>1 DEF vars
  <2>2. RowsBridged'
    BY <2>1 DEF HistoryInv, RowsBridged, InSession, Bridged, Linked, Row, Holds, Peer
  <2>3. \A p \in Ends : FromRow(p, ctx[p])' /\ Written(p)'
    BY <2>1 DEF HistoryInv, FromRow, Written, Row, Holds, Peer
  <2>4. \A m \in sent' : Tells(m, initiator, Peer(initiator))'
    BY <2>1 DEF HistoryInv, Tells, Row, Holds, Peer
  <2> QED BY <2>2, <2>3, <2>4 DEF HistoryInv
<1>2. CASE Next
  BY <1>2, HistoryStart, HistorySetPeerHelloHash, HistoryRecvHello, HistoryRecvCommit,
     HistoryRecvDHPart1, HistoryRecvDHPart2, HistoryRecvConfirm1, HistoryRecvConfirm2,
     HistoryRecvConf2ACK, HistorySASVerified, HistoryResetSASVerified, HistoryEnd
     DEF Next
<1> QED BY <1>1, <1>2

(* NoFalseMismatch, for a caller with one device and any number of         *)
(* sessions: a cache mismatch is raised only when at least two sessions    *)
(* since the last one that both caches hold were written by one end alone. *)
(* The rs2 that bzrtp_updateCachedSecrets keeps bridges one session that   *)
(* was cut between the two updates, whichever end was ahead.               *)
THEOREM OneCutForgiven == OneDevice => (Spec => []NoFalseMismatch)
<1> SUFFICES ASSUME OneDevice PROVE Spec => []NoFalseMismatch
  OBVIOUS
<1>1. HistoryInv => NoFalseMismatch
  BY DEF HistoryInv, FromRow, NoFalseMismatch
<1>2. Init => HistoryInv
  BY HistoryInit
<1>3. TypeInv /\ SameS0 /\ HistoryInv /\ [Next]_vars => HistoryInv'
  BY HistoryNext
<1> QED BY <1>1, <1>2, <1>3, S0Agreement, TypeInvariance, PTL DEF Spec
=============================================================================
