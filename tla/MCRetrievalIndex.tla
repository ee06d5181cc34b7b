--------------------------- MODULE MCRetrievalIndex ---------------------------
(* Three documents and two callers; two of the three providers claim the same  *)
(* artifact version.                                                           *)
EXTENDS RetrievalIndex, TLC

CONSTANTS d1, d2, d3, p1, p2, p3, v1, v2, c1, c2

ThreeDocuments == {d1, d2, d3}
ThreeProviders == {p1, p2, p3}
TwoVersions    == {v1, v2}
TwoCallers     == {c1, c2}
Declared       == [q \in ThreeProviders |-> IF q = p2 THEN v2 ELSE v1]

RetrievalSymmetry == Permutations(ThreeDocuments) \cup Permutations(TwoCallers)
================================================================================
