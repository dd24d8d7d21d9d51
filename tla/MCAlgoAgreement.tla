-------------------------- MODULE MCAlgoAgreement --------------------------
(* Lists of at most three algorithms, so that the mandatory ones have to   *)
(* displace others.  The build of B has no X448; nobody's has EC38 or AES2.*)
EXTENDS AlgoAgreement

MCAvailable ==
    [p \in Endpoints |->
        [hash |-> <<S256, S384, S512>>, cipher |-> <<AES1, AES3>>,
         authtag |-> <<GCM, HS32, HS80>>, sas |-> <<B32, B256>>,
         keyAgreement |-> IF p = A THEN <<X448, DH3k, KYB1, Mult>>
                                   ELSE <<DH3k, KYB1, Mult>>]]

(* Every order of up to three of them, and a list with a double. *)
MCKeyAgreements ==
    {<<EC38, KYB1, KYB1>>} \cup
        UNION {{s \in [1..n -> {X448, DH3k, KYB1, Mult}] : IsInjective(s)} : n \in 0..3}

MCRequests ==
    [hash |-> {<<S512>>, <<S384, S256>>}, cipher |-> {<<AES3>>, <<AES2>>},
     authtag |-> {}, sas |-> {},
     keyAgreement |-> MCKeyAgreements]
=============================================================================
