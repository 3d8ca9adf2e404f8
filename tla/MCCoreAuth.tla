----------------------------- MODULE MCCoreAuth -----------------------------
(* Small instances of CoreAuth.  Model values are interchangeable, and no  *)
(* property singles one out, so their permutations are a symmetry.         *)
EXTENDS CoreAuth, TLC

Symmetry == Permutations(Users) \cup Permutations(Sids) \cup Permutations(Txns)
=============================================================================
