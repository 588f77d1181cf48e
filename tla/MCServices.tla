----------------------------- MODULE MCServices -----------------------------
(* Services with the symmetry of its menus.                                   *)
EXTENDS Services, TLC

MenuSymmetry == Permutations(Menus)
=============================================================================
