------------------------ MODULE MCFragmentReassembly ------------------------
(* A Commit in two fragments and a DHPart1 in three, both retransmitted    *)
(* once, and between them a HelloACK that goes in one packet, once.        *)
EXTENDS FragmentReassembly

MCMessageLength == <<24, 12, 28>>
MCMaxSends == <<2, 1, 2>>
=============================================================================
