----------------------------- MODULE MCCuration -----------------------------
(* Values for model-checking Curation. *)
EXTENDS Curation, TLC

CONSTANTS a, b, c, d, e1, v1, v2

(* A message and the first version of the memory file say a, the second    *)
(* version says b.                                                         *)
SaysBoth == (e1 :> {a}) @@ (v1 :> {a}) @@ (v2 :> {b})

(* b and the caller's c restate each other. *)
SimilarFacts == {{b, c}}

(* The second version says what the first one says, and more. *)
VersionsSay == (v1 :> {a}) @@ (v2 :> {a, b})

SaysOne == (e1 :> {a}) @@ (v1 :> {a})

Callers == Permutations({c, d})
=============================================================================
