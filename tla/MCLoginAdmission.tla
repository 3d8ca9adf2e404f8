-------------------------- MODULE MCLoginAdmission --------------------------
(* Small instances of LoginAdmission.  Both runs have a liveness property, *)
(* so neither declares the symmetry of requests and workers to TLC: the    *)
(* passing run breaks it by hand.                                          *)
EXTENDS LoginAdmission, TLC

(* Requests are numbered as they arrive, workers as they first receive     *)
(* one.  Every behaviour is one of these with its requests and its workers *)
(* renamed, and no property names either.                                  *)
NumberedInOrder ==
    /\ \A q, r \in Requests : q < r /\ req[r].pc # "new" => req[q].pc # "new"
    /\ Worker(1) = CHOOSE w \in Workers : TRUE
=============================================================================
