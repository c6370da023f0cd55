-------------------------- MODULE DescribedUpdates --------------------------
(***************************************************************************)
(* New identity providers (signAddIdentityProvider.c) and anonymity        *)
(* revokers (signAddAnonymityRevoker.c). Both send a description of three  *)
(* texts - name, URL, description - which descriptionView.c shows chunk by *)
(* chunk, each text after its length; the provider's verify key follows,   *)
(* whose length is what the payload length leaves for it.                  *)
(*                                                                         *)
(* The fields of fixed size are one Field of the payload each: the         *)
(* identity (4 bytes), a text's length (4), the CDI verify key (32).       *)
(***************************************************************************)
EXTENDS UpdateInstruction

\* descriptionState: DESC_NAME, DESC_URL, DESC_DESCRIPTION.
DESC_DESCRIPTION == 2

\* The provider's handler takes the identity off the payload; the revoker's does
\* not, and never looks at the payload length again.
DescribedInitial(i, payload) ==
  /\ InTurn(i, "INITIAL")
  /\ Begin(i, <<Item("payloadLength", payload)>>)
  /\ ctx' = [of |-> i, state |-> "DESCRIPTION_LENGTH", part |-> 0, text |-> 0, verifyKey |-> 0,
             payload |-> IF i = AddProvider THEN Minus(payload, Field) ELSE payload]
  /\ seen' = <<Shown(0, Named(i))>>
  /\ Ask(i, "start")

\* checkIfDescriptionPartIsDoneIdentityProvider, and ...AnonymityRevoker.
checkIfDescriptionPartIsDone(c) ==
  IF c.text > 0 THEN c
  ELSE IF c.part # DESC_DESCRIPTION THEN [c EXCEPT !.state = "DESCRIPTION_LENGTH"]
  ELSE IF c.of = AddProvider
         THEN [c EXCEPT !.state = "VERIFY_KEY", !.verifyKey = Minus(c.payload, Field)]
         ELSE [c EXCEPT !.state = "PUBLIC_KEY"]

\* Mutant of nextPart: there is a part after the last.
nextPartPast(c) == IF c.text = 0 THEN c.part + 1 ELSE c.part

\* The part of the description that handleDescriptionPart leaves.
nextPart(c) == IF c.text = 0 /\ c.part # DESC_DESCRIPTION THEN c.part + 1 ELSE c.part

\* Mutant of DescriptionLength: an empty text is not skipped.
DescriptionLengthStays(i, n) ==
  /\ InTurn(i, "DESCRIPTION_LENGTH")
  /\ Absorb(<<Item("textLength", n)>>)
  /\ ctx' = checkIfDescriptionPartIsDone(
              [ctx EXCEPT !.text = n, !.payload = Minus(@, Field), !.state = "DESCRIPTION"])
  /\ AnswerNow(i)
  /\ UNCHANGED seen

DescriptionLength(i, n) ==
  /\ InTurn(i, "DESCRIPTION_LENGTH")
  /\ Absorb(<<Item("textLength", n)>>)
  /\ LET c == checkIfDescriptionPartIsDone(
                [ctx EXCEPT !.text = n, !.payload = Minus(@, Field), !.state = "DESCRIPTION"])
     IN ctx' = [c EXCEPT !.part = nextPart(c)]
  /\ AnswerNow(i)
  /\ UNCHANGED seen

\* Mutant of Description: a chunk is not taken off the payload.
DescriptionUncounted(i, n) ==
  /\ InTurn(i, "DESCRIPTION") /\ n <= ctx.text
  /\ AbsorbBytes("text", n)
  /\ ctx' = checkIfDescriptionPartIsDone([ctx EXCEPT !.text = @ - n])
  /\ ShowText(i, "description", ctx.part + 1, n)

\* A chunk of a text. One longer than what is left of it is refused.
Description(i, n) ==
  /\ InTurn(i, "DESCRIPTION") /\ n <= ctx.text
  /\ AbsorbBytes("text", n)
  /\ ctx' = checkIfDescriptionPartIsDone(
              [ctx EXCEPT !.text = @ - n, !.payload = Minus(@, n)])
  /\ ShowText(i, "description", ctx.part + 1, n)

\* handleDescriptionPart, from the button.
PressDescription ==
  /\ screen = "description"
  /\ ctx' = [ctx EXCEPT !.part = nextPart(ctx)]
  /\ PressContinue
  /\ UNCHANGED <<hash, seen>>

\* verifyKeyLength is unsigned: the branch for a negative one is never taken.
VerifyKey(n) ==
  /\ InTurn(AddProvider, "VERIFY_KEY")
  /\ AbsorbBytes("verifyKey", n)
  /\ LET left == Minus(ctx.verifyKey, n) IN
     /\ ctx' = [ctx EXCEPT !.verifyKey = left, !.payload = Minus(@, n),
                           !.state = IF left = 0 THEN "CDI_VERIFY_KEY" ELSE @]
     /\ IF left = 0 THEN Ask(AddProvider, "verifyKeyHash") ELSE AnswerNow(AddProvider)
  /\ UNCHANGED seen

\* A command that is not exactly one CDI key, or a payload that is not used up, is
\* refused, when the hash and the payload length have moved already.
CdiVerifyKey(whole) ==
  /\ InTurn(AddProvider, "CDI_VERIFY_KEY")
  /\ Absorb(<<Named("cdiVerifyKey")>>)
  /\ ctx' = [ctx EXCEPT !.payload = Minus(@, Field)]
  /\ IF whole /\ ctx'.payload = 0 THEN Ask(AddProvider, "sign") ELSE Refuse
  /\ UNCHANGED seen

RevokerPublicKey ==
  /\ InTurn(AddRevoker, "PUBLIC_KEY")
  /\ Absorb(<<Named("publicKey")>>)
  /\ Ask(AddRevoker, "sign")
  /\ UNCHANGED <<ctx, seen>>

DescribedCommand ==
  \/ \E i \in Described :
       \/ \E n \in 0..MaxPayload : DescribedInitial(i, n)
       \/ \E n \in 0..MaxText : DescriptionLength(i, n)
       \/ \E n \in 0..MaxChunk : Description(i, n)
  \/ \E n \in 0..MaxChunk : VerifyKey(n)
  \/ \E whole \in BOOLEAN : CdiVerifyKey(whole)
  \/ RevokerPublicKey

DescribedButton == PressDescription
=============================================================================
