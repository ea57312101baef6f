-------------------------- MODULE MCContextCompiler --------------------------
\* Instances of ContextCompiler for TLC: one query raced by two callers and two
\* invalidations, and several queries over a small document for the packing.
EXTENDS ContextCompiler

CONSTANTS q1, q2, q3, n1, n2, n3, n4, n5, s1

\* A race needs no more than one node that fits.
RaceNodes == {n1}
RaceSelected == [q \in Queries |-> <<n1>>]
RaceEdges == {}
RaceSection == [n \in Nodes |-> NoSection]
RaceChars == [n \in Nodes |-> 9]
RaceBudgets == {2}

\* n1, n2 and n3 are sections s1 of the document n5, n4 is a page of n5 in no
\* section; n3 itself has the child n2.
PackNodes == {n1, n2, n3, n4, n5}
PackSelected ==
    [q \in Queries |-> CASE q = q1 -> <<n1, n2>>
                         [] q = q2 -> <<n3, n4>>
                         [] q = q3 -> <<>>]
PackEdges == {<<n1, n5>>, <<n2, n5>>, <<n3, n5>>, <<n4, n5>>, <<n2, n3>>}
PackSection == [n \in Nodes |-> IF n \in {n4, n5} THEN NoSection ELSE s1]
PackChars == [n \in Nodes |-> CASE n = n1 -> 9 [] n = n2 -> 0 [] n = n3 -> 30
                               [] n = n4 -> 3 [] n = n5 -> 8]
PackBudgets == {-1, 0, 1, 4, 20}
==============================================================================
