--------------------------- MODULE MCQueryService ---------------------------
(***************************************************************************)
(* Instances of QueryService for TLC.                                      *)
(***************************************************************************)
EXTENDS QueryService

CONSTANTS a1, a2, w1, w2
=============================================================================
