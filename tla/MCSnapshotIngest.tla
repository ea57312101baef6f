------------------------- MODULE MCSnapshotIngest -------------------------
(***************************************************************************)
(* SnapshotIngest for TLC: what its configurations cannot write.           *)
(***************************************************************************)
EXTENDS SnapshotIngest

CONSTANTS p1, p2

\* The working tree may gain a file between two reads of it.
MCTrees == {{p1}, {p1, p2}}
=============================================================================
