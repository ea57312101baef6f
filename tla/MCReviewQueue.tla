--------------------------- MODULE MCReviewQueue ---------------------------
(***************************************************************************)
(* ReviewQueue for TLC: what its configurations cannot write.              *)
(***************************************************************************)
EXTENDS ReviewQueue, TLC

CONSTANTS f1, f2, n1, c1, c2, r1, r2

\* The second fact was reported without evidence.
MCNodeOf == f1 :> n1 @@ f2 :> NoNode

\* Only one fact.
MCNodeOfOne == f1 :> n1
\* Callers and reviewers are interchangeable.
Interchangeable == Permutations({c1, c2}) \cup Permutations({r1, r2})
=============================================================================
