---------------------------- MODULE MCPublication ----------------------------
(* Values for model-checking Publication, and the runs' derived properties. *)
EXTENDS Publication, TLC

CONSTANTS p1, p2

Processes == Permutations({p1, p2})

(* Bound: a change that the validator refuses is asked for by one process  *)
(* at a time, on the command line.                                         *)
RefusedBound ==
    LET refused == {p \in Proc : ~At(p, "idle") /\ call[p].req \in Refused}
    IN  Cardinality(refused) <= 1 /\ \A p \in refused : call[p].mode = "cli"
=============================================================================
