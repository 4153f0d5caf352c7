-------------------------- MODULE MCClientRegistry --------------------------
(* Model-checking instance of ClientRegistry: client sites are model values. *)
EXTENDS ClientRegistry

\* Sites are interchangeable: no definition singles one out.
OriginSymmetry == Permutations(Origin)
=============================================================================
