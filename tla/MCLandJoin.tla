----------------------------- MODULE MCLandJoin -----------------------------
(***************************************************************************)
(* Small instances of LandJoin.  Requests, keys and heads are model values *)
(* that no action tells apart, so the safety run may permute them; the     *)
(* liveness run may not.                                                   *)
(***************************************************************************)
EXTENDS LandJoin, TLC

Symmetry == Permutations(Requests) \cup Permutations(Keys) \cup Permutations(Heads)
=============================================================================
