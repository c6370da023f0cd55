---------------------------- MODULE MCTransfers -----------------------------
(***************************************************************************)
(* Transfers on a small instance. Sender, recipient and amount values are  *)
(* interchangeable; paths are not, as one names no governance key.         *)
(***************************************************************************)
EXTENDS Transfers, TLC

ValueSymmetry == Permutations(Values)
=============================================================================
