-------------------------- MODULE MCGovernanceScan --------------------------
(***************************************************************************)
(* GovernanceScan for TLC: what its configuration cannot write.            *)
(***************************************************************************)
EXTENDS GovernanceScan, TLC

CONSTANTS volatile, usual, s1, s2

\* A day of the model is thirty days.  On a scale of 20, source confidences 0.9 and
\* 1.0, and exp(-age / ttl) for the ttl of volatilities 0.7 and 0.5.
MCSource == volatile :> 18 @@ usual :> 20
MCKeep ==
    LET Table(first, second) == 0 :> 20 @@ 1 :> first @@ 2 :> second
    IN  volatile :> Table(8, 3) @@ usual :> Table(12, 7)

\* Workers are interchangeable.
Interchangeable == Permutations({s1, s2})
=============================================================================
