---------------------------- MODULE MCForkedCall ----------------------------
(* A call that was forked: packets of a third endpoint reach A before the  *)
(* signalling tells A which Hello to expect.                               *)
EXTENDS ZrtpHandshake, TLC

MCHvi(p, g) == IF p = A THEN 2 ELSE IF p = B THEN 1 ELSE 3

StrayHello(seq) == [seq |-> seq, msg |-> Hello(Stranger)]
StrayCommit(seq) == [seq |-> seq, msg |-> Message("Commit", Stranger, 1, A, None)]

StrayDHPart2(seq) == [seq |-> seq, msg |-> Message("DHPart2", Stranger, 1, None, None)]

(* The Stranger takes part until its DHPart2: A derives keys with it. *)
MCStrayUntilDHPart2 == (A :> {StrayHello(1), StrayCommit(2), StrayDHPart2(3)}) @@ (B :> {})
=============================================================================
