------------------------------- MODULE MCPhotos -------------------------------
(* Instances of Photos for TLC. *)
EXTENDS Photos, TLC

CONSTANTS p1, p2

PhotoSymmetry == Permutations(Photos)
===============================================================================
