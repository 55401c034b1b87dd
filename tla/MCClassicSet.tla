---------------------------- MODULE MCClassicSet ----------------------------
(* Whole games of the smallest deck that has every kind of set: two features,
   nine cards, three of them dealt at first. *)
EXTENDS ClassicSet

CONSTANTS f1, f2, v1, v2, v3

\* Features, and the values of all features, can be renamed: no definition of
\* the game tells them apart.
Symmetry == Permutations({f1, f2}) \cup Permutations({v1, v2, v3})

=============================================================================
