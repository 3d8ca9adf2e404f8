--------------------------- MODULE MCTrustedDevice ---------------------------
(* A small instance of TrustedDevice.                                      *)
EXTENDS TrustedDevice, TLC

Symmetry == Permutations(Reqs) \cup Permutations(Calls) \cup Permutations(Addrs)
=============================================================================
