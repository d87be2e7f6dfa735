--------------------------- MODULE MCImageDelivery ---------------------------
EXTENDS ImageDelivery, TLC

(* Images are interchangeable.                                             *)
Symmetry == Permutations(Images)
=============================================================================
