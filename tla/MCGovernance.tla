---------------------------- MODULE MCGovernance ----------------------------
(***************************************************************************)
(* Governance with authorizations of one and of two access structures,     *)
(* texts and keys of up to two units, and counters that wrap at eleven.    *)
(***************************************************************************)
EXTENDS Governance

\* Between two instructions nothing reads the hash, nor the context but for the
\* text of a key update; a signature is looked at where it is given.
View ==
  <<currentInstruction, owed, screen,
    IF currentInstruction # None THEN <<hash, ctx, seen>>
    ELSE IF ctx.of \in HigherLevel THEN <<ctx.type>> ELSE <<>>,
    IF hash = Finalised THEN reply ELSE reply.kind>>

MCAuthorizationEnd == [v \in {0, 1} |-> v + 1]
=============================================================================
