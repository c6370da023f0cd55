------------------------- MODULE UpdateInstruction --------------------------
(***************************************************************************)
(* What the multi-command update instructions of the governance app share: *)
(* one hash, one context in a union, and the steps that read a piece of    *)
(* the transaction, hash it and show it.  KeyUpdates, DescribedUpdates and *)
(* PayloadUpdates build their handlers from these; Governance composes     *)
(* them into the app.                                                      *)
(*                                                                         *)
(* A transaction is the sequence of the items hashed: an item has a name   *)
(* and one number, which is a length, a count or, for the index of a key,  *)
(* its value.                                                              *)
(***************************************************************************)
EXTENDS Device, Integers, Sequences

CONSTANTS
  MaxPayload,  \* largest payload length announced
  MaxText,     \* largest length of a text announced
  MaxChunk,    \* most bytes of text, key or parameters in one command
  Word,        \* 2^16, 2^32 or 2^64: where lengths and counts wrap
  MaxItems     \* bound on the items hashed in one transaction

\* Lengths and chunks fit their counters; a pressed step is off the display.
ASSUME UpdateAssumption ==
  /\ MaxPayload \in Nat /\ MaxText \in Nat /\ MaxChunk \in Nat \ {0} /\ MaxItems \in Nat
  /\ Word \in Nat /\ Word > MaxPayload /\ Word > MaxText /\ Word > MaxChunk
  /\ KeepsStep = {FALSE}

VARIABLES
  hash,        \* what tx_state->hash covers
  ctx,         \* global: a union, so a record of one instruction at a time
  seen         \* history: what the dialogs of this transaction have shown

updateVars == <<hash, ctx, seen>>

RootKeys       == "UPDATE_ROOT_KEYS"
Level1Keys     == "UPDATE_LEVEL1_KEYS"
Level2ByRoot   == "UPDATE_LEVEL2_KEYS_ROOT"
Level2ByLevel1 == "UPDATE_LEVEL2_KEYS_LEVEL1"
AddProvider    == "ADD_IDENTITY_PROVIDER"
AddRevoker     == "ADD_ANONYMITY_REVOKER"
Protocol       == "UPDATE_PROTOCOL"
CreatePlt      == "CREATE_PLT"
Pool           == "UPDATE_POOL_PARAMETERS"
Other          == "another instruction"

HigherLevel   == {RootKeys, Level1Keys}
Authorizing   == {Level2ByRoot, Level2ByLevel1}
Described     == {AddProvider, AddRevoker}
MultiCommand  == HigherLevel \cup Authorizing \cup Described \cup {Protocol, CreatePlt, Pool}

ASSUME NoneIsNoInstruction == None \notin MultiCommand \cup {Other}

Field == 1     \* what a field of fixed size adds to a payload, whatever its bytes

Item(name, n) == [item |-> name, n |-> n]
Named(name)   == Item(name, 0)
NoContext     == [of |-> None, state |-> "INITIAL"]

UpdateInit == hash = <<>> /\ ctx = NoContext /\ seen = <<>>

\* ctx->state as the handlers find it: each begins by resetting it on the initial call.
foundState == IF isInitialCall THEN "INITIAL" ELSE ctx.state

InTurn(i, s) ==
  /\ Accepts(i)
  /\ foundState = s
  /\ isInitialCall \/ Len(hash) < MaxItems

\* An unsigned counter of the context after a subtraction.
Minus(counter, n) == (counter + Word - (n % Word)) % Word

\* hashUpdateHeaderAndType after cx_sha256_init: the transaction starts over.
Begin(i, items) == hash' = <<Named(i)>> \o items

Absorb(items) == hash' = hash \o items

\* Bytes of one kind of item: hashing none of them leaves the hash as it is.
AbsorbBytes(name, n) == IF n = 0 THEN UNCHANGED hash ELSE Absorb(<<Item(name, n)>>)

\* A dialog of the handler: `what' is on display under the title number `under'.
Shown(under, what) == [under |-> under, what |-> what]
Show(i, flow, under, what) ==
  /\ Ask(i, flow)
  /\ seen' = Append(seen, Shown(under, what))

\* The dialog of a chunk of a text; without a byte it has nothing on it.
ShowText(i, flow, under, n) ==
  IF n = 0 THEN Ask(i, flow) /\ UNCHANGED seen ELSE Show(i, flow, under, Item("text", n))

\* The first command is refused: by the path before the hash is initialised, or
\* by the header's update type or a number that does not fit its text afterwards.
InitialRefused(i) ==
  /\ Accepts(i) /\ isInitialCall
  /\ hash' \in {hash, <<>>}
  /\ ctx' \in {ctx, NoContext}
  /\ Refuse
  /\ UNCHANGED seen

\* A later command is refused before it has changed anything: P1 does not fit the
\* state, or the handler's own check comes first.
Refused(i) ==
  /\ Accepts(i) /\ ~isInitialCall
  /\ Refuse
  /\ UNCHANGED updateVars

(***************************************************************************)
(* Dialogs that end in sendSuccessNoIdle(), and the shared signing flow.   *)
(***************************************************************************)
PressNext(flows) ==
  /\ screen \in flows
  /\ PressContinue
  /\ UNCHANGED updateVars

Finalised == <<Named("final")>>
Signature == [kind |-> "signature", over |-> hash, seen |-> seen]

PressSign ==
  /\ screen = "sign"
  /\ PressAnswer(Signature)
  /\ hash' = Finalised
  /\ UNCHANGED <<ctx, seen>>

PressSignFails ==
  /\ screen = "sign"
  /\ PressThrow
  /\ hash' = Finalised
  /\ UNCHANGED <<ctx, seen>>

PressDecline ==
  /\ screen = "sign"
  /\ PressAnswer(Rejection)
  /\ UNCHANGED updateVars
=============================================================================
