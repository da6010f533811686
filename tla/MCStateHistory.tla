--------------------------- MODULE MCStateHistory ---------------------------
(* Two interchangeable states, five slots, one crash and one redelivery. *)
EXTENDS StateHistory, TLC

Symmetry == Permutations(State)
=============================================================================
