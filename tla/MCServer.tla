------------------------------ MODULE MCServer ------------------------------
(* Small instances of Server: two or three connections over two descriptors,  *)
(* so that descriptors run out and are used again.                            *)
EXTENDS Server, TLC

CONSTANTS c1, c2, c3

Two   == {c1, c2}
Three == {c1, c2, c3}

Symmetry == Permutations(Three)
=============================================================================
