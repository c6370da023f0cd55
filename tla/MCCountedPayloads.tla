------------------------- MODULE MCCountedPayloads --------------------------
(***************************************************************************)
(* CountedPayloads with data, memos and proofs of up to four bytes, in     *)
(* pieces of up to two, and a 16-bit word of six values.                   *)
(***************************************************************************)
EXTENDS CountedPayloads
=============================================================================
