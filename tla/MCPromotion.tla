------------------------------ MODULE MCPromotion ------------------------------
(* Small instances of the promotion for TLC. *)
EXTENDS PromotionProperties, TLC

(* The shared versions are interchangeable, and so are the adapters. *)
Symmetry == Permutations(Shared) \cup Permutations(Adapters)

===============================================================================
