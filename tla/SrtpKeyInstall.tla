--------------------------- MODULE SrtpKeyInstall ---------------------------
(***************************************************************************)
(* What a completed or interrupted handshake promises to the two clients   *)
(* that run SRTP on the channel: the initiator is first able to receive,   *)
(* then the responder to receive and send, then the initiator to send,     *)
(* always with keys of one s0, and the retained secret of that s0 reaches  *)
(* the responder's cache before the initiator's.                           *)
(***************************************************************************)
CONSTANTS
    A, B,
    None,
    Keys,        \* the possible values of s0
    Retains      \* whether this kind of session updates the retained secret

VARIABLES rx, tx, rs1

vars == <<rx, tx, rs1>>

Endpoints == {A, B}
Other(p) == IF p = A THEN B ELSE A

Init ==
    /\ rx = [p \in Endpoints |-> None]
    /\ tx = [p \in Endpoints |-> None]
    /\ rs1 = [p \in Endpoints |-> None]

Retain(p, k) == rs1' = IF Retains THEN [rs1 EXCEPT ![p] = k] ELSE rs1

(* p, the initiator, can decrypt what its peer will send. *)
InitiatorReady(p) ==
    /\ rx[p] = None
    /\ rx[Other(p)] = None
    /\ rx'[p] \in [s0 : Keys, dir : {"RESPONDER"}]
    /\ rx' = [rx EXCEPT ![p] = rx'[p]]
    /\ UNCHANGED <<tx, rs1>>

(* p, the responder, can receive and send. *)
ResponderSecure(p) ==
    /\ rx[p] = None
    /\ rx[Other(p)] # None
    /\ rx' = [rx EXCEPT ![p] = [s0 |-> rx[Other(p)].s0, dir |-> "INITIATOR"]]
    /\ tx' = [tx EXCEPT ![p] = rx[Other(p)]]
    /\ Retain(p, rx[Other(p)].s0)

(* p, the initiator, can send too. *)
InitiatorSecure(p) ==
    /\ tx[p] = None
    /\ tx[Other(p)] # None
    /\ tx' = [tx EXCEPT ![p] = rx[Other(p)]]
    /\ Retain(p, rx[p].s0)
    /\ UNCHANGED rx

Next == \E p \in Endpoints : InitiatorReady(p) \/ ResponderSecure(p) \/ InitiatorSecure(p)

Spec == Init /\ [][Next]_vars
=============================================================================
