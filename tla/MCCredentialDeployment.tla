----------------------- MODULE MCCredentialDeployment -----------------------
(***************************************************************************)
(* Small instances of CredentialDeployment: up to two credentials, keys,   *)
(* revokers, attributes and removed ids, proofs of up to two pieces.       *)
(***************************************************************************)
EXTENDS CredentialDeployment

InProgress == currentInstruction # None \/ owed

\* The state without what nobody can read any more: between instructions the hash
\* and the history, of the context what the next first command writes, and at any
\* time a countdown in a state that does not read it.
LiveView ==
  LET live(v, when) == IF InProgress /\ when THEN v ELSE None IN
  <<deviceVars, live(<<hash, read, early, ctx.state, ctx.key, ctx.id>>, TRUE),
    live(ctx.keys, ctx.state = "VERIFICATION_KEY"),
    live(ctx.ars, ctx.state = "AR_IDENTITY"),
    live(ctx.attributes, ctx.state \in {"ATTRIBUTE_TAG", "ATTRIBUTE_VALUE"}),
    live(ctx.proof, ctx.state = "PROOFS"),
    live(ctx.ids, ctx.update = "ID"),
    ctx.showIntro, ctx.update,
    IF ctx.update \in {"CREDENTIAL_INDEX", "CREDENTIAL"} THEN ctx.credentials ELSE 0>>
=============================================================================
