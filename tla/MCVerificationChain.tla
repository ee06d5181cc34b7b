-------------------------- MODULE MCVerificationChain --------------------------
(* Two heads, tests generated from the evidence of the first; a valid content x of  *)
(* a test and two invalid ones, all edits of each other; two images, so that a test  *)
(* can have two plans; two keys for the results of one attempt.                      *)
EXTENDS VerificationChain, TLC

CONSTANTS h1, h2, x, y, z, i1, i2, k1, k2

TwoHeads      == {h1, h2}
ThreeContents == {x, y, z}
OneValid      == {x}
TwoImages     == {i1, i2}
TwoKeys       == {k1, k2}
OneAttempt    == {1}
SomeReports   == {<<"no_difference", "strong">>, <<"no_difference", "weak">>,
                  <<"difference", "strong">>, <<"inconclusive", "incomplete">>}
LowThenHigh   == [h \in TwoHeads |-> IF h = h1 THEN "low" ELSE "high"]
AllOrAllButOne == {Components, {}} \cup {Components \ {c} : c \in Components}
BothHeads     == TwoHeads
FirstHead     == {h1}

\* Images, keys and the invalid contents are interchangeable; only safety is checked.
ChainSymmetry == Permutations({y, z}) \cup Permutations(TwoImages) \cup Permutations(TwoKeys)
================================================================================
