---------------------------- MODULE MCSocResponse ----------------------------
(* A small instance of SocResponse.                                        *)
EXTENDS SocResponse, TLC

Symmetry == Permutations(Jobs) \cup Permutations(Slots)
=============================================================================
