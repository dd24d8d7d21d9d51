-------------------------- MODULE MCZrtpHandshake --------------------------
(* Two endpoints and no third party. *)
EXTENDS ZrtpHandshake

MCHvi(p, g) == IF p = A THEN 2 ELSE IF p = B THEN 1 ELSE 3
MCNoStrayPackets == [p \in {A, B} |-> {}]
=============================================================================
