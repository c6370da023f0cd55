------------------------------- MODULE Reading -------------------------------
(***************************************************************************)
(* A sequence read from its first element to its last: Nothing is known    *)
(* before it, and Read(r, x) where r was known and x comes next.  A fold   *)
(* whose lemmas (ReadingProofs) are proved once, for every Read.           *)
(***************************************************************************)
EXTENDS Integers, Sequences

CONSTANTS Nothing, Read(_, _)

Readings(s) ==
  LET reading[k \in 0..Len(s)] == IF k = 0 THEN Nothing ELSE Read(reading[k - 1], s[k])
  IN  reading

\* What is known behind s.
After(s) == Readings(s)[Len(s)]
=============================================================================
