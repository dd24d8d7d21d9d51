-------------------------- MODULE RetainedSecrets --------------------------
(***************************************************************************)
(* The retained secrets of a caller and the devices it talks to, over a    *)
(* series of sessions: what is loaded from the cache on the peer's Hello,  *)
(* matched on DHPart1 and DHPart2, mixed into s0 as s1, and written back   *)
(* on Confirm2 and Conf2ACK or, after a cache mismatch, when the user      *)
(* confirms the SAS.  A session may be cut at any point, on one side       *)
(* before the other.                                                       *)
(*                                                                         *)
(* Contention, retransmission and packet checks are those of               *)
(* ZrtpHandshake: here the roles are given and a message is received once. *)
(* The packets a session left unread when it ended belong to no other one. *)
(***************************************************************************)
EXTENDS Naturals

CONSTANTS
    Caller,          \* the endpoint whose call may reach several devices
    Devices,         \* the devices, each with its own ZID, under the URI called
    None,            \* a pointer that is NULL, a zuid that is 0
    MaxSessions      \* bound: number of sessions

ASSUME EndsAssumption == Caller \notin Devices /\ None \notin Devices \cup {Caller}
ASSUME BoundAssumption == MaxSessions \in Nat

Ends == {Caller} \cup Devices
States == {"NULL", "discovery", "agreement", "sendingDHPart1", "sendingDHPart2",
           "sendingConfirm1", "sendingConfirm2", "secure"}

(* A retained secret is named by the session it comes from.  root is the   *)
(* session in which its chain of secrets began: the s0 of that one used no *)
(* retained secret, that of the later ones used one of the same chain.     *)
Secrets == [session : Nat, dev : Devices, root : Nat]
SecretOrNone == Secrets \cup {None}
S0s == [session : Nat, dev : Devices, s1 : SecretOrNone]
ASSUME NoneAssumption == None \notin Secrets \cup S0s

(* A row of the zrtp table; the row of a peer that is not in the cache has *)
(* no rs1.                                                                 *)
Rows == [rs1 : SecretOrNone, rs2 : SecretOrNone, pvs : BOOLEAN]

(* bzrtpContext_t.  zuid is the row in use; rs1ID and rs2ID stand for the  *)
(* hashes of the secrets loaded on Hello: equal ones are hashes of the     *)
(* same secret, and the random one of a missing secret equals no other.    *)
(* told is the verified flag given to startSrtpSession.                    *)
Contexts == [state : States, peerZID : Ends \cup {None}, helloHash : BOOLEAN,
             rs1 : SecretOrNone, rs2 : SecretOrNone, pvs : BOOLEAN,
             zuid : Ends \cup {None}, rs1ID : SecretOrNone, rs2ID : SecretOrNone,
             mismatch : BOOLEAN, s0 : S0s \cup {None}, peerPVS : BOOLEAN,
             told : BOOLEAN]

DHParts == [type : {"DHPart1", "DHPart2"}, rs1ID : SecretOrNone, rs2ID : SecretOrNone]
Confirms == [type : {"Confirm1", "Confirm2"}, s0 : S0s, V : BOOLEAN]
Acks == [type : {"Commit", "Conf2ACK"}]

VARIABLES
    session,         \* number of the current or last session
    dev,             \* the device of that session
    initiator,       \* the endpoint that became its initiator
    ctx,             \* bzrtpContext_t of each endpoint
    cache,           \* cache[p][q]: the row of peer q in the cache of p
    sent,            \* messages sent in the session
    lag,             \* lag[d]: see End
    confirmed        \* confirmed[p]: chains of the sessions whose SAS the user
                     \* of p has confirmed

vars == <<session, dev, initiator, ctx, cache, sent, lag, confirmed>>

NoContext == [state |-> "NULL", peerZID |-> None, helloHash |-> FALSE,
              rs1 |-> None, rs2 |-> None, pvs |-> FALSE, zuid |-> None,
              rs1ID |-> None, rs2ID |-> None, mismatch |-> FALSE, s0 |-> None,
              peerPVS |-> FALSE, told |-> FALSE]
NoRow == [rs1 |-> None, rs2 |-> None, pvs |-> FALSE]

Init ==
    /\ session = 0
    /\ dev \in Devices
    /\ initiator = Caller
    /\ ctx = [p \in Ends |-> NoContext]
    /\ cache = [p \in Ends |-> [q \in Ends |-> NoRow]]
    /\ sent = {}
    /\ lag = [d \in Devices |-> 1]
    /\ confirmed = [p \in Ends |-> {}]

Peer(p) == IF p = Caller THEN dev ELSE Caller

(* The s0 of the session, as p computes it from the secrets it kept.       *)
S0(c) == [session |-> session, dev |-> dev,
          s1 |-> IF c.rs1 # None THEN c.rs1 ELSE c.rs2]

(* rs1 = KDF(s0, "retained secret", KDF_Context). *)
RetainedSecret(s0) ==
    [session |-> s0.session, dev |-> s0.dev,
     root |-> IF s0.s1 = None THEN s0.session ELSE s0.s1.root]

-----------------------------------------------------------------------------
(* Matching.                                                               *)

(* Hashes of two secrets compared: a random one matches nothing. *)
Same(secret, id) == secret # None /\ secret = id

(* What the initiator keeps of its secrets on a DHPart1: rs1 if the        *)
(* responder has it, else rs2 if the responder has it.                     *)
InitiatorMatch(c, m) ==
    LET keep1 == Same(c.rs1ID, m.rs1ID) \/ Same(c.rs1ID, m.rs2ID)
        keep2 == Same(c.rs2ID, m.rs1ID) \/ Same(c.rs2ID, m.rs2ID)
        lost1 == c.rs1 # None /\ ~keep1
        flag  == c.mismatch \/ lost1
    IN  [c EXCEPT !.rs1 = IF lost1 THEN None ELSE @,
                  !.rs2 = IF flag /\ ~keep2 THEN None ELSE @,
                  !.mismatch = flag /\ ~keep2]

(* Mutant: the responder does not fall back on its rs2. *)
ResponderMatchNoBackup(c, m) ==
    LET found == Same(c.rs1ID, m.rs1ID) \/ Same(c.rs1ID, m.rs2ID)
    IN  IF c.rs1 = None \/ found
        THEN c
        ELSE [c EXCEPT !.rs1 = None, !.rs2 = None, !.mismatch = TRUE]

(* What the responder keeps on a DHPart2: the secret the initiator has as  *)
(* rs1, else the one the initiator has as rs2.                             *)
ResponderMatch(c, m) ==
    LET first  == Same(c.rs1ID, m.rs1ID)
        second == ~first /\ Same(c.rs2ID, m.rs1ID)
        third  == ~first /\ ~second /\ Same(c.rs1ID, m.rs2ID)
        fourth == ~first /\ ~second /\ ~third /\ Same(c.rs2ID, m.rs2ID)
    IN  IF c.rs1 = None
        THEN c
        ELSE [c EXCEPT !.rs1 = IF first \/ third THEN @ ELSE None,
                       !.rs2 = IF first \/ second \/ third \/ fourth THEN @ ELSE None,
                       !.mismatch = @ \/ ~(first \/ second \/ third \/ fourth)]

(* Mutant: the flag is reset in the cache only. *)
KeepPvs(c) == c

(* A cache mismatch resets the verified flag, in the context and, if the   *)
(* peer has a row, in the cache.                                           *)
ForgetPvs(c) == [c EXCEPT !.pvs = @ /\ ~c.mismatch]
ForgetRowPvs(rows, c) ==
    IF c.mismatch /\ c.zuid # None
    THEN [rows EXCEPT ![c.zuid].pvs = FALSE]
    ELSE rows

-----------------------------------------------------------------------------
(* bzrtp_updateCachedSecrets, on the main channel.                         *)

(* Mutant: the peer is not inserted. *)
LoadedZuid(c) == c.zuid

(* The row written: that of the peer, inserted, if there was none. *)
UpdatedZuid(c) == IF c.zuid = None THEN c.peerZID ELSE c.zuid

(* Mutant: the former rs1 is not kept as rs2. *)
UpdatedRowsNoBackup(rows, c) ==
    IF c.mismatch
    THEN rows
    ELSE [rows EXCEPT ![UpdatedZuid(c)].rs1 = RetainedSecret(c.s0),
                      ![UpdatedZuid(c)].rs2 = None]

UpdatedRows(rows, c) ==
    IF c.mismatch
    THEN rows
    ELSE [rows EXCEPT ![UpdatedZuid(c)].rs1 = RetainedSecret(c.s0),
                      ![UpdatedZuid(c)].rs2 = c.rs1]

(* s0 and the secrets are destroyed with the update. *)
UpdatedContext(c) ==
    IF c.mismatch
    THEN c
    ELSE [c EXCEPT !.zuid = UpdatedZuid(c), !.s0 = None, !.rs1 = None, !.rs2 = None]

-----------------------------------------------------------------------------
(* One session.                                                            *)

(* A call to device d, in which i becomes the initiator. *)
Start(d, i) ==
    /\ session < MaxSessions
    /\ \A p \in Ends : ctx[p].state = "NULL"
    /\ session' = session + 1
    /\ dev' = d
    /\ initiator' = i
    /\ ctx' = [p \in Ends |-> IF p \in {Caller, d}
                              THEN [NoContext EXCEPT !.state = "discovery"]
                              ELSE NoContext]
    /\ sent' = {}
    /\ UNCHANGED <<cache, lag, confirmed>>

(* The Hello of q: the secrets of its row are loaded, unless the context   *)
(* holds an rs1.  Until signalling has named the device, the Hello of any  *)
(* device the call is forked to is as good.                                *)
Loaded(c, row, q) ==
    IF c.rs1 # None
    THEN c
    ELSE [c EXCEPT !.rs1 = row.rs1, !.rs2 = row.rs2, !.pvs = row.pvs,
                   !.zuid = IF row.rs1 = None THEN None ELSE q]

RecvHello(p, q) ==
    /\ ctx[p].state = "discovery"
    /\ q = Peer(p) \/ (p = Caller /\ q \in Devices /\ ~ctx[p].helloHash)
    /\ LET c == Loaded(ctx[p], cache[p][q], q)
       IN  ctx' = [ctx EXCEPT ![p] = [c EXCEPT !.state = "agreement", !.peerZID = q,
                                               !.rs1ID = c.rs1, !.rs2ID = c.rs2]]
    /\ sent' = IF p = initiator /\ q = Peer(p)
               THEN sent \cup {[type |-> "Commit"]}
               ELSE sent
    /\ UNCHANGED <<session, dev, initiator, cache, lag, confirmed>>

(* bzrtp_setPeerHelloHash: a session that began with another device is     *)
(* restarted.  The secrets stay in the context, which the channels share.  *)
SetPeerHelloHash ==
    /\ ctx[Caller].state # "NULL"
    /\ ~ctx[Caller].helloHash
    /\ ctx' = [ctx EXCEPT ![Caller].helloHash = TRUE,
                          ![Caller].state =
                              IF ctx[Caller].peerZID \in {None, dev} THEN @ ELSE "discovery"]
    /\ UNCHANGED <<session, dev, initiator, cache, sent, lag, confirmed>>

(* The responder answers the Commit with the hashes of its secrets. *)
RecvCommit(p) ==
    /\ p # initiator
    /\ ctx[p].state = "agreement" /\ ctx[p].peerZID = Peer(p)
    /\ [type |-> "Commit"] \in sent
    /\ ctx' = [ctx EXCEPT ![p].state = "sendingDHPart1"]
    /\ sent' = sent \cup {[type |-> "DHPart1", rs1ID |-> ctx[p].rs1ID,
                           rs2ID |-> ctx[p].rs2ID]}
    /\ UNCHANGED <<session, dev, initiator, cache, lag, confirmed>>

(* The initiator matches its secrets, computes s0 and sends its hashes. *)
RecvDHPart1(p) ==
    /\ p = initiator
    /\ ctx[p].state = "agreement" /\ ctx[p].peerZID = Peer(p)
    /\ \E m \in {m \in sent : m.type = "DHPart1"} :
        LET c == ForgetPvs(InitiatorMatch(ctx[p], m))
        IN  /\ ctx' = [ctx EXCEPT ![p] = [c EXCEPT !.state = "sendingDHPart2",
                                                   !.s0 = S0(c)]]
            /\ cache' = [cache EXCEPT ![p] = ForgetRowPvs(@, c)]
    /\ sent' = sent \cup {[type |-> "DHPart2", rs1ID |-> ctx[p].rs1ID,
                           rs2ID |-> ctx[p].rs2ID]}
    /\ UNCHANGED <<session, dev, initiator, lag, confirmed>>

(* The responder matches its secrets, computes s0 and sends Confirm1. *)
RecvDHPart2(p) ==
    /\ p # initiator
    /\ ctx[p].state = "sendingDHPart1"
    /\ \E m \in {m \in sent : m.type = "DHPart2"} :
        LET c == ForgetPvs(ResponderMatch(ctx[p], m))
        IN  /\ ctx' = [ctx EXCEPT ![p] = [c EXCEPT !.state = "sendingConfirm1",
                                                   !.s0 = S0(c)]]
            /\ cache' = [cache EXCEPT ![p] = ForgetRowPvs(@, c)]
            /\ sent' = sent \cup {[type |-> "Confirm1", s0 |-> S0(c), V |-> c.pvs]}
    /\ UNCHANGED <<session, dev, initiator, lag, confirmed>>

(* A Confirm message is accepted when its MAC was computed from our s0. *)
RecvConfirm1(p) ==
    /\ p = initiator
    /\ ctx[p].state = "sendingDHPart2"
    /\ \E m \in {m \in sent : m.type = "Confirm1"} :
        /\ m.s0 = ctx[p].s0
        /\ ctx' = [ctx EXCEPT ![p].state = "sendingConfirm2", ![p].peerPVS = m.V]
    /\ sent' = sent \cup {[type |-> "Confirm2", s0 |-> ctx[p].s0, V |-> ctx[p].pvs]}
    /\ UNCHANGED <<session, dev, initiator, cache, lag, confirmed>>

(* The client is told whether both ends know the SAS to be verified. *)
EnterSecure(c) == [c EXCEPT !.state = "secure", !.told = c.pvs /\ c.peerPVS]

RecvConfirm2(p) ==
    /\ p # initiator
    /\ ctx[p].state = "sendingConfirm1"
    /\ \E m \in {m \in sent : m.type = "Confirm2"} :
        LET c == [ctx[p] EXCEPT !.peerPVS = m.V]
        IN  /\ m.s0 = c.s0
            /\ ctx' = [ctx EXCEPT ![p] = EnterSecure(UpdatedContext(c))]
            /\ cache' = [cache EXCEPT ![p] = UpdatedRows(@, c)]
    /\ sent' = sent \cup {[type |-> "Conf2ACK"]}
    /\ UNCHANGED <<session, dev, initiator, lag, confirmed>>

RecvConf2ACK(p) ==
    /\ p = initiator
    /\ ctx[p].state = "sendingConfirm2"
    /\ [type |-> "Conf2ACK"] \in sent
    /\ ctx' = [ctx EXCEPT ![p] = EnterSecure(UpdatedContext(@))]
    /\ cache' = [cache EXCEPT ![p] = UpdatedRows(@, ctx[p])]
    /\ UNCHANGED <<session, dev, initiator, sent, lag, confirmed>>

-----------------------------------------------------------------------------
(* The user.  bzrtp_SASVerified and bzrtp_resetSASVerified look at no      *)
(* state.  That they are called when the channel is secure is assumed of   *)
(* the client: it is given the SAS to show by bzrtp_startSrtpSession, in   *)
(* the step that makes the channel secure, and no earlier.                 *)

(* The chain of secrets the current session belongs to, at p: its s0 is    *)
(* destroyed once the secret derived from it is in the cache.              *)
Root(p) == IF ctx[p].s0 # None
           THEN RetainedSecret(ctx[p].s0).root
           ELSE cache[p][ctx[p].zuid].rs1.root

(* Mutant: the delayed update is forgotten. *)
SASVerifiedOnlyFlag(p) ==
    /\ ctx[p].state = "secure"
    /\ ctx' = [ctx EXCEPT ![p].mismatch = FALSE]
    /\ cache' = [cache EXCEPT ![p][ctx[p].zuid].pvs = TRUE]
    /\ confirmed' = [confirmed EXCEPT ![p] = @ \cup {Root(p)}]
    /\ UNCHANGED <<session, dev, initiator, sent, lag>>

(* The update that a mismatch delayed is done now. *)
SASVerified(p) ==
    /\ ctx[p].state = "secure"
    /\ LET c    == [ctx[p] EXCEPT !.mismatch = FALSE]
           rows == IF ctx[p].mismatch THEN UpdatedRows(cache[p], c) ELSE cache[p]
       IN  /\ ctx' = [ctx EXCEPT ![p] = IF ctx[p].mismatch THEN UpdatedContext(c) ELSE c]
           /\ cache' = [cache EXCEPT ![p] = [rows EXCEPT ![c.zuid].pvs = TRUE]]
    /\ confirmed' = [confirmed EXCEPT ![p] = @ \cup {Root(p)}]
    /\ UNCHANGED <<session, dev, initiator, sent, lag>>

ResetSASVerified(p) ==
    /\ ctx[p].state = "secure"
    /\ cache' = [cache EXCEPT ![p][ctx[p].zuid].pvs = FALSE]
    /\ UNCHANGED <<session, dev, initiator, ctx, sent, lag, confirmed>>

(* The context of p is destroyed: the call ends, is cut or has failed.     *)
(* lag counts the sessions, since the last one whose secret both caches    *)
(* hold, whose secret only one of them holds; it starts at 1, for there is *)
(* no older secret to fall back on.                                        *)
Holds(p) == cache[p][Peer(p)].rs1 # None /\ cache[p][Peer(p)].rs1.session = session

End(p) ==
    /\ ctx[p].state # "NULL"
    /\ ctx' = [ctx EXCEPT ![p] = NoContext]
    /\ lag' = [lag EXCEPT ![dev] =
                  IF ctx[Peer(p)].state # "NULL" THEN @
                  ELSE IF Holds(p) /\ Holds(Peer(p)) THEN 0
                  ELSE IF Holds(p) \/ Holds(Peer(p)) THEN @ + 1
                  ELSE @]
    /\ UNCHANGED <<session, dev, initiator, cache, sent, confirmed>>

-----------------------------------------------------------------------------
Next ==
    \/ \E d \in Devices : \E i \in {Caller, d} : Start(d, i)
    \/ SetPeerHelloHash
    \/ \E p, q \in Ends : RecvHello(p, q)
    \/ \E p \in Ends :
        \/ RecvCommit(p)
        \/ RecvDHPart1(p)
        \/ RecvDHPart2(p)
        \/ RecvConfirm1(p)
        \/ RecvConfirm2(p)
        \/ RecvConf2ACK(p)
        \/ SASVerified(p)
        \/ ResetSASVerified(p)
        \/ End(p)

Spec == Init /\ [][Next]_vars

-----------------------------------------------------------------------------
(* Properties.                                                             *)

(* Types; an endpoint that is secure has a row for its peer (zuid), which  *)
(* bzrtp_SASVerified and bzrtp_resetSASVerified write to unconditionally,  *)
(* and s0 is there exactly as long as an update can still need it.         *)
TypeOK ==
    /\ session \in 0..MaxSessions
    /\ dev \in Devices
    /\ initiator \in {Caller, dev}
    /\ ctx \in [Ends -> Contexts]
    /\ cache \in [Ends -> [Ends -> Rows]]
    /\ sent \subseteq DHParts \cup Confirms \cup Acks
    /\ lag \in [Devices -> Nat]
    /\ confirmed \in [Ends -> SUBSET Nat]
    /\ \A p \in Ends :
        /\ ctx[p].state = "secure" => ctx[p].zuid # None
        /\ ctx[p].s0 # None <=>
            \/ ctx[p].state \in {"sendingDHPart2", "sendingConfirm1", "sendingConfirm2"}
            \/ ctx[p].state = "secure" /\ ctx[p].mismatch

(* The two ends compute the same s0: whatever the two caches hold, the     *)
(* initiator, which looks for its own rs1 first, and the responder, which  *)
(* looks for the initiator's rs1 first, settle on the same secret, or both *)
(* on none (the matching on DHPart1 and on DHPart2).                       *)
SameS0 == \A p \in Ends :
    ctx[p].s0 # None /\ ctx[Peer(p)].s0 # None => ctx[p].s0 = ctx[Peer(p)].s0

(* A cache mismatch, which warns the user, is not raised by a call that    *)
(* was cut between the responder's update and the initiator's: the rs2     *)
(* kept by bzrtp_updateCachedSecrets bridges one such session.  It cannot  *)
(* bridge the very first call between two ends: cut there, the next one    *)
(* does warn, which is why lag starts at 1.                                *)
NoFalseMismatch == \A p \in Ends :
    ctx[p].mismatch => lag[dev] > 1

(* startSrtpSession tells the client that the SAS is verified only when    *)
(* the users of both ends have confirmed the SAS of a session whose        *)
(* secrets this one's are chained to.                                      *)
VerifiedMeansConfirmed == \A p \in Ends :
    ctx[p].told => Root(p) \in confirmed[p] \cap confirmed[Peer(p)]

(* A row that is flagged as verified holds a secret of a chain whose SAS   *)
(* the user has confirmed, through mismatches, delayed updates and         *)
(* sessions that were cut.                                                 *)
PvsFollowsSecret == \A p, q \in Ends :
    cache[p][q].pvs => cache[p][q].rs1 # None /\ cache[p][q].rs1.root \in confirmed[p]

(* The row of a peer holds secrets shared with that peer: "the retained    *)
(* secrets associated to the peer ZID" (bzrtp_responseToHelloMessage).     *)
RowsHoldPeersSecrets == \A d \in Devices :
    /\ cache[Caller][d].rs1 # None => cache[Caller][d].rs1.dev = d
    /\ cache[Caller][d].rs2 # None => cache[Caller][d].rs2.dev = d
=============================================================================
