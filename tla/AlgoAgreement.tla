--------------------------- MODULE AlgoAgreement ---------------------------
(* How two endpoints come to use the same algorithms: the lists that the   *)
(* application sets, the mandatory types added to them when they are set   *)
(* and again when a Hello is parsed, the choice each endpoint makes by     *)
(* itself on the peer's Hello, and the Commit that overrides it.           *)
EXTENDS Naturals, SequencesExt

CONSTANTS
    A, B, None,
    ListSize,       \* 7: the places for the algorithms of one type
    Available,      \* what the build of an endpoint implements, by type
    Requests        \* the lists an application may ask for, by type

Endpoints == {A, B}
Other(p) == IF p = A THEN B ELSE A

Types == {"hash", "cipher", "authtag", "keyAgreement", "sas"}

(* bzrtp.h.  The values of the key agreements grow from fast to slow. *)
UNSET_ALGO == 0
S256 == 17
S384 == 18
S512 == 19
AES1 == 33
AES2 == 34
AES3 == 35
HS32 == 49
HS80 == 50
GCM == 53
DH2k == 65
EC25 == 68
X448 == 69
K448 == 70
DH3k == 71
EC38 == 72
EC52 == 73
KYB1 == 74
K255_KYB512 == 81
K448_KYB1024_HQC256 == 86
Prsh == 158
Mult == 159
B32 == 161
B256 == 162

(* bzrtp_isPostQuantum: the KEMs of bctbxpq and their hybrids. *)
isPostQuantum(k) == k \in KYB1..K448_KYB1024_HQC256

(* bzrtpUtils_getMandatoryCryptoTypes. *)
Mandatory ==
    [hash |-> <<S256>>, cipher |-> <<AES1>>, authtag |-> <<HS32, HS80>>,
     keyAgreement |-> <<DH3k, Mult>>, sas |-> <<B32>>]

(* What a build may have: bzrtpUtils_getAllAvailableCryptoTypes.  X255,    *)
(* X448 and DH3k come first, Mult last.                                    *)
Implementable ==
    [hash |-> {S256, S384, S512}, cipher |-> {AES1, AES3}, authtag |-> {GCM, HS32, HS80},
     keyAgreement |-> (DH2k..DH3k \ {EC25}) \cup (KYB1 .. KYB1 + 5)
                        \cup (K255_KYB512..K448_KYB1024_HQC256) \cup {Mult},
     sas |-> {B32, B256}]

ASSUME AlgoAssumption ==
    /\ A # B /\ ListSize \in Nat
    /\ \A t \in Types : Len(Mandatory[t]) < ListSize /\ Requests[t] \subseteq Seq(Nat)
    /\ \A p \in Endpoints, t \in Types :
          /\ Available[p][t] \in Seq(Implementable[t])
          /\ IsInjective(Available[p][t])
          /\ ToSet(Mandatory[t]) \subseteq ToSet(Available[p][t])
          /\ t # "keyAgreement" => Len(Available[p][t]) <= ListSize
    /\ \A p \in Endpoints :
          LET all == Available[p]["keyAgreement"]
          IN  /\ all[Len(all)] = Mult
              /\ \E i \in 1 .. ListSize - 1 : i \in DOMAIN all /\ all[i] = DH3k

VARIABLES
    supported,      \* the lists of a context, as numbers
    isInitialised,
    isMainChannel,  \* of the channel, alike at both ends
    algos,          \* those of the channel context
    secretIdHash,   \* the hash of rs1ID, rs2ID and pbxsecretID
    commit,         \* the names of the algorithms in the Commit of an endpoint
    role,
    error           \* an endpoint has refused the peer's Hello

vars == <<supported, isInitialised, isMainChannel, algos, secretIdHash,
          commit, role, error>>

-----------------------------------------------------------------------------
(* Algorithms are named by four characters in messages, by numbers inside. *)

Numbered(first, names) == [a \in first .. first + Len(names) - 1 |-> names[a - first + 1]]

Joined(f, g) ==
    [a \in DOMAIN f \cup DOMAIN g |-> IF a \in DOMAIN f THEN f[a] ELSE g[a]]

KeyAgreementNames ==
    Joined(Numbered(DH2k, <<"DH2k", "X255", "K255", "EC25", "X448", "K448", "DH3k",
                            "EC38", "EC52", "KYB1", "KYB2", "KYB3", "HQD1", "HQD2", "HQD3">>),
           Joined(Numbered(K255_KYB512, <<"X1K1", "X1H1", "X3K3", "X3H3", "XKR1", "XKR3">>),
                  Numbered(Prsh, <<"Prsh", "Mult">>)))

TypeNames ==
    [hash |-> Numbered(S256, <<"S256", "S384", "S512", "N256", "N384">>),
     cipher |-> Numbered(AES1, <<"AES1", "AES2", "AES3", "2FS1", "2FS2", "2FS3">>),
     authtag |-> Numbered(HS32, <<"HS32", "HS80", "SK32", "SK64", "GCM">>),
     keyAgreement |-> KeyAgreementNames,
     sas |-> Numbered(B32, <<"B32", "B256">>)]

Names == UNION {{TypeNames[t][a] : a \in DOMAIN TypeNames[t]} : t \in Types}

ASSUME NoneAssumption == None \notin [Types -> Nat] /\ None \notin [Types -> Names]

cryptoAlgoTypeIntToString(t, a) ==
    IF a \in DOMAIN TypeNames[t] THEN TypeNames[t][a] ELSE "NSET"

cryptoAlgoTypeStringToInt(t, name) ==
    LET known == {a \in DOMAIN TypeNames[t] : TypeNames[t][a] = name}
    IN  IF known = {} THEN UNSET_ALGO ELSE CHOOSE a \in known : TRUE

-----------------------------------------------------------------------------
(* The lists.                                                              *)

(* bzrtpUtils_getAvailableCryptoTypes: Mult is always the last key         *)
(* agreement.                                                              *)
getAvailableCryptoTypes(p, t) ==
    LET all == Available[p][t]
    IN  IF t = "keyAgreement" /\ Len(all) >= ListSize
        THEN Append(SubSeq(all, 1, ListSize - 1), Mult)
        ELSE all

(* bzrtp_selectCommonAlgo: no type twice, in the order of the master.      *)
(* common[i] is the list after the first i types of the master.            *)
TakeCommon(common, a, slave) ==
    IF a \in ToSet(slave) \ ToSet(common) /\ Len(common) < ListSize
    THEN Append(common, a)
    ELSE common

selectCommonAlgo(master, slave) ==
    LET common[i \in 0 .. Len(master)] ==
            IF i = 0 THEN <<>> ELSE TakeCommon(common[i - 1], master[i], slave)
    IN  common[Len(master)]

(* Mutant: the missing types are put first. *)
addMandatoryFirst(t, list) ==
    LET missing == ToSet(Mandatory[t]) \ ToSet(list)
        full == SelectSeq(Mandatory[t], LAMBDA a : a \in missing) \o list
    IN  IF Len(full) > ListSize THEN SubSeq(full, 1, ListSize) ELSE full

(* Mutant: no places are kept for the missing types. *)
addMandatoryWhileRoom(t, list) ==
    LET kept == selectCommonAlgo(list, list)
        missing == SelectSeq(Mandatory[t], LAMBDA a : a \notin ToSet(kept))
        full == kept \o missing
    IN  IF Len(full) > ListSize THEN SubSeq(full, 1, ListSize) ELSE full

(* Mutant: the missing types are added whether there is room or not. *)
addMandatoryBeyond(t, list) ==
    list \o SelectSeq(Mandatory[t], LAMBDA a : a \notin ToSet(list))

(* bzrtp_addMandatoryCryptoTypesIfNeeded: as much of the list as leaves    *)
(* room for the mandatory types it does not have...                        *)
Missing(t, list) == ToSet(Mandatory[t]) \ ToSet(list)

Keep(t, kept, a) ==
    IF /\ Len(kept) < ListSize
       /\ Len(kept) + Cardinality(Missing(t, kept)) < ListSize \/ a \in Missing(t, kept)
       /\ a \notin ToSet(kept)
    THEN Append(kept, a)
    ELSE kept

KeepRoom(t, list) ==
    LET kept[i \in 0 .. Len(list)] ==
            IF i = 0 THEN <<>> ELSE Keep(t, kept[i - 1], list[i])
    IN  kept[Len(list)]

(* ... and these after it. *)
AddMissing(t, list) ==
    LET added[i \in 0 .. Len(Mandatory[t])] ==
            IF i = 0 THEN list
            ELSE IF Mandatory[t][i] \in Missing(t, list)
                 THEN Append(added[i - 1], Mandatory[t][i])
                 ELSE added[i - 1]
    IN  added[Len(Mandatory[t])]

addMandatoryCryptoTypesIfNeeded(t, list) == AddMissing(t, KeepRoom(t, list))

(* The lists in a Hello, and what the peer makes of them. *)
BuildHello(lists) ==
    [t \in Types |->
        [i \in DOMAIN lists[t] |-> cryptoAlgoTypeIntToString(t, lists[t][i])]]

ParseHello(hello) ==
    [t \in Types |->
        addMandatoryCryptoTypesIfNeeded(t,
            [i \in DOMAIN hello[t] |-> cryptoAlgoTypeStringToInt(t, hello[t][i])])]

-----------------------------------------------------------------------------
(* bzrtp_cryptoAlgoAgreement.                                              *)

Faster(k, l) == IF l < k THEN l ELSE k

(* Mutant: the endpoint follows its own order. *)
OwnKeyAgreement(self, peer) ==
    LET common == selectCommonAlgo(self, peer)
    IN  IF common = <<>> THEN UNSET_ALGO ELSE Head(common)

KeyAgreement(self, peer) ==
    LET mine == selectCommonAlgo(self, peer)
        theirs == selectCommonAlgo(peer, self)
    IN  IF mine = <<>> THEN UNSET_ALGO ELSE Faster(Head(mine), Head(theirs))

(* The key agreements for which the strongest hash and cipher are taken. *)
Strong(k) == k \in {EC38, X448, K448} \/ isPostQuantum(k)

Preferred == [hash |-> <<S512, S384, S256>>, cipher |-> <<AES3, AES2, AES1>>]

(* Mutant: the first of the endpoint's own list. *)
FirstOwn(t, self, peer, k) == Head(self)

(* The last of the preferred ones is taken unchecked. *)
Strongest(t, common) ==
    IF Preferred[t][1] \in ToSet(common) THEN Preferred[t][1]
    ELSE IF Preferred[t][2] \in ToSet(common) THEN Preferred[t][2] ELSE Preferred[t][3]

(* The other algorithms, in the order of the endpoint itself. *)
OtherAlgo(t, self, peer, k) ==
    LET common == selectCommonAlgo(self, peer)
    IN  IF common = <<>> THEN UNSET_ALGO
        ELSE IF t \in DOMAIN Preferred /\ Strong(k) THEN Strongest(t, common)
             ELSE Head(common)

(* bzrtp_updateCryptoFunctionPointers has functions for them. *)
Implemented(c) ==
    /\ c["hash"] \in {S256, S384, S512}
    /\ c["cipher"] \in {AES1, AES3}
    /\ c["keyAgreement"] \notin {EC25, EC38, EC52}
    /\ c["sas"] \in {B32, B256}

(* None when the Hello is refused. *)
cryptoAlgoAgreement(self, peer) ==
    LET k == KeyAgreement(self["keyAgreement"], peer["keyAgreement"])
        c == [t \in Types |->
                IF t = "keyAgreement" THEN k ELSE OtherAlgo(t, self[t], peer[t], k)]
    IN  IF (\E t \in Types : c[t] = UNSET_ALGO) \/ ~Implemented(c) THEN None ELSE c

-----------------------------------------------------------------------------
Init ==
    /\ supported = [p \in Endpoints |-> [t \in Types |-> getAvailableCryptoTypes(p, t)]]
    /\ isInitialised = [p \in Endpoints |-> FALSE]
    /\ isMainChannel \in BOOLEAN
    /\ algos = [p \in Endpoints |-> None]
    /\ secretIdHash = [p \in Endpoints |-> None]
    /\ commit = [p \in Endpoints |-> None]
    /\ role = [p \in Endpoints |-> "INITIATOR"]
    /\ error = [p \in Endpoints |-> FALSE]

(* bzrtp_setSupportedCryptoTypes. *)
setSupportedCryptoTypes(p, t, request) ==
    /\ ~isInitialised[p]
    /\ LET known == selectCommonAlgo(request, Available[p][t])
       IN  supported' = [supported EXCEPT ![p][t] = addMandatoryCryptoTypesIfNeeded(t, known)]
    /\ UNCHANGED <<isInitialised, isMainChannel, algos, secretIdHash, commit, role, error>>

(* Mutant: the lists are left as they are. *)
AsItIs(list, a) == list

WithAlgo(list, a) ==
    IF Len(list) < ListSize /\ a \notin ToSet(list) THEN Append(list, a) ELSE list

(* bzrtp_initBzrtpContext: a post quantum key agreement calls for AES3 and *)
(* S512.                                                                   *)
initBzrtpContext(p) ==
    /\ ~isInitialised[p]
    /\ isInitialised' = [isInitialised EXCEPT ![p] = TRUE]
    /\ supported' =
         IF \E k \in ToSet(supported[p]["keyAgreement"]) : isPostQuantum(k)
         THEN [supported EXCEPT ![p]["cipher"] = WithAlgo(@, AES3),
                                ![p]["hash"] = WithAlgo(@, S512)]
         ELSE supported
    /\ UNCHANGED <<isMainChannel, algos, secretIdHash, commit, role, error>>

(* bzrtp_responseToHelloMessage.  On a secondary channel Mult replaces the *)
(* key agreement; on the main one the retained secrets are hashed with the *)
(* hash chosen here.                                                       *)
responseToHelloMessage(p) ==
    LET hello == ParseHello(BuildHello(supported[Other(p)]))
        c == cryptoAlgoAgreement(supported[p], hello)
        refused == c = None \/ (~isMainChannel /\ Mult \notin ToSet(hello["keyAgreement"]))
    IN  /\ isInitialised[p] /\ isInitialised[Other(p)]
        /\ algos[p] = None /\ ~error[p]
        /\ error' = [error EXCEPT ![p] = refused]
        /\ algos' = [algos EXCEPT ![p] =
                       IF refused \/ isMainChannel THEN c
                       ELSE [c EXCEPT !["keyAgreement"] = Mult]]
        /\ secretIdHash' = [secretIdHash EXCEPT ![p] =
                              IF refused \/ ~isMainChannel THEN None ELSE c["hash"]]
        /\ UNCHANGED <<supported, isInitialised, isMainChannel, commit, role>>

(* state_keyAgreement_sendingCommit, INIT. *)
sendCommit(p) ==
    /\ algos[p] # None /\ ~error[p] /\ commit[p] = None /\ role[p] = "INITIATOR"
    /\ commit' = [commit EXCEPT ![p] =
                    [t \in Types |-> cryptoAlgoTypeIntToString(t, algos[p][t])]]
    /\ UNCHANGED <<supported, isInitialised, isMainChannel, algos, secretIdHash, role, error>>

(* A Commit makes an endpoint that has not sent its own a responder, and   *)
(* one that has when both ask for the same key agreement and its hvi or    *)
(* nonce is the lower one: let it be B's.  bzrtp_turnIntoResponder.        *)
turnIntoResponder(p) ==
    LET c == commit[Other(p)]
    IN  /\ algos[p] # None /\ ~error[p] /\ role[p] = "INITIATOR"
        /\ c # None /\ role[Other(p)] = "INITIATOR"
        /\ commit[p] # None => p = B /\ c["keyAgreement"] = commit[p]["keyAgreement"]
        /\ role' = [role EXCEPT ![p] = "RESPONDER"]
        /\ algos' = [algos EXCEPT ![p] =
                       [t \in Types |-> cryptoAlgoTypeStringToInt(t, c[t])]]
        /\ UNCHANGED <<supported, isInitialised, isMainChannel, secretIdHash, commit, error>>

Next ==
    \E p \in Endpoints :
        \/ \E t \in Types : \E request \in Requests[t] : setSupportedCryptoTypes(p, t, request)
        \/ initBzrtpContext(p)
        \/ responseToHelloMessage(p)
        \/ sendCommit(p)
        \/ turnIntoResponder(p)

Spec == Init /\ [][Next]_vars

-----------------------------------------------------------------------------
(* The lists fit their arrays, without doubles, and hold what is mandatory *)
(* as every endpoint MUST support it.                                      *)
TypeOK ==
    \A p \in Endpoints, t \in Types :
        /\ Len(supported[p][t]) <= ListSize
        /\ IsInjective(supported[p][t])
        /\ ToSet(Mandatory[t]) \subseteq ToSet(supported[p][t])

(* The peer reads the lists as they were sent: the mandatory types added   *)
(* by bzrtp_setSupportedCryptoTypes and by the parser of the peer leave    *)
(* the same lists.  The choice is made twice, from these.                  *)
ListsSurviveHello ==
    \A p \in Endpoints : isInitialised[p] => ParseHello(BuildHello(supported[p])) = supported[p]

(* Whatever the two applications ask for, no Hello is refused: "this shall *)
(* never bee true", bzrtp_cryptoAlgoAgreement.                             *)
HelloAccepted == \A p \in Endpoints : ~error[p]

(* Two Commits that cross ask for the same key agreement.  Otherwise       *)
(* neither endpoint would yield in state_keyAgreement_sendingCommit.       *)
CrossingCommitsAgree ==
    (commit[A] # None /\ commit[B] # None)
        => commit[A]["keyAgreement"] = commit[B]["keyAgreement"]

(* What an endpoint uses, also when the Commit of the peer imposed it, is  *)
(* among what its application and its build allow.                         *)
UsesSupported ==
    \A p \in Endpoints :
        algos[p] # None =>
            \A t \in Types : algos[p][t] \in ToSet(supported[p][t])

(* A post quantum key agreement comes with AES3 and S512: "we need to      *)
(* supporte AES3 and SHA512", bzrtp_initBzrtpContext.                      *)
PostQuantumStrength ==
    \A p \in Endpoints :
        (algos[p] # None /\ isPostQuantum(algos[p]["keyAgreement"])) =>
            algos[p]["cipher"] = AES3 /\ algos[p]["hash"] = S512

(* "now compute the retained secret hashes [...] as in rfc section 4.3.1": *)
(* once the roles are settled, both ends have computed rs1ID, rs2ID and    *)
(* pbxsecretID with the negotiated hash, so that equal secrets have equal  *)
(* identifiers in the DHPart messages.                                     *)
SecretIdsComparable ==
    \A p \in Endpoints :
        (role[p] = "RESPONDER" /\ isMainChannel) => secretIdHash[p] = algos[p]["hash"]
=============================================================================
