----------------------------- MODULE MCGoClear -----------------------------
(* Channels between A and B that may be exchanged for one another. *)
EXTENDS GoClear, TLC
ChannelSymmetry == Permutations(Channels)
=============================================================================
