------------------------- MODULE MCRetainedSecrets -------------------------
(* The caller and one device, or two devices the call is forked to.        *)
EXTENDS RetainedSecrets, TLC

DeviceSymmetry == Permutations(Devices)
=============================================================================
