-------------------------- MODULE MCConfigureBaker --------------------------
(***************************************************************************)
(* ConfigureBaker with every bitmap and URLs of up to two bytes, in        *)
(* pages of up to two. Paths and values are interchangeable.               *)
(***************************************************************************)
EXTENDS ConfigureBaker, TLC

Symmetry == Permutations(Paths) \cup Permutations(Values)
=============================================================================
