-------------------------- MODULE CredentialProofs --------------------------
(***************************************************************************)
(* For every number of credentials, keys, revokers, attributes and ids,    *)
(* every proof length, and whether or not the UX engine keeps a pressed    *)
(* step alive: no countdown of a credential deployment or update passes    *)
(* zero; a signature covers one transaction of whole credentials; and what *)
(* it removes and adds has been on display, but for the last key of each   *)
(* credential of an update.  ReviewInv accounts for the pages read,        *)
(* PlaceInv for what the hash was fed: what a reader knows behind it       *)
(* (known) fits what the countdowns of the context still expect.  With     *)
(* PartsInv, the instruction implements ReviewedSigning.                   *)
(***************************************************************************)
EXTENDS CredentialDeployment, SequenceTheorems, FiniteSetTheorems, TLAPS

ItemNames ==
  {"head", "index", "keys", "key", "thresholds", "ar", "dates", "tag", "value", "proofLength",
   "proof", "account", "idCount", "id", "threshold", "spent"}

Items == [item : ItemNames, size : Nat, p2 : P2]

Contexts ==
  [state : States, update : UpdateStates, credentials : 0..MaxCredentials,
   ids : 0..MaxCredentials, keys : 0..MaxKeys, ars : 0..MaxList, attributes : 0..MaxList,
   proof : 0..MaxProof, showIntro : BOOLEAN, key : 0..MaxItems, id : 0..MaxItems]

\* A countdown that is looked at only when it has run has something to count.
CountInv ==
  /\ ctx.state \in {"ATTRIBUTE_TAG", "ATTRIBUTE_VALUE"} => ctx.attributes > 0
  /\ ctx.update = "ID" => ctx.ids > 0

\* The signing step is on display behind the item that ends a transaction, or
\* behind a signature that failed.
DialogInv ==
  owed =>
    \/ currentInstruction = None /\ hash = Spent
    \/ /\ currentInstruction \in Ours
       /\ screen \in Signing =>
            Len(hash) > 0 /\ hash[Len(hash)].item \in {"account", "threshold"}

\* Every id hashed has been paged through or is the one on display.
IdsInv ==
  \A k \in 1..Len(hash) :
    hash[k].item = "id" => k \in read \/ (owed /\ screen = "id" /\ k = ctx.id)

\* So has every key, unless an early step was pressed: but not the last one of its
\* credential, behind which no other key can come.
KeysInv ==
  early \/ \A k \in 1..Len(hash) :
    hash[k].item = "key" =>
      \/ k \in read
      \/ k < Len(hash) /\ hash[k + 1].item # "key"
      \/ k = Len(hash) /\ ctx.state = "SIGNATURE_THRESHOLD"
      \/ k = Len(hash) /\ owed /\ screen \in {"review", "key"} /\ k = ctx.key

ReviewInv == currentInstruction \in Ours => IdsInv /\ KeysInv

ControlOK ==
  /\ currentInstruction \in Ours \cup {Other, None} /\ owed \in BOOLEAN
  /\ screen \in Signing \cup {"idle", "frozen", "initial", "review", "key", "id"}

HashOK    == hash \in Seq(Items) /\ Len(hash) <= MaxItems
ContextOK == ctx \in Contexts /\ CountInv
ReadOK    == read \subseteq 0..MaxItems

LEMMA TypeIs == ControlOK /\ HashOK /\ ContextOK /\ ReadOK => TypeOK
  BY DEF TypeOK, ControlOK, HashOK, ContextOK, ReadOK, Contexts
-----------------------------------------------------------------------------
LEMMA Names3 == None \notin Ours /\ Other \notin Ours /\ Deploy # Update /\ Ours = {Deploy, Update}
  BY NoneIsNoInstruction DEF Ours, Deploy, Update, Other

(***************************************************************************)
(* A command in the middle of a transaction finds the context it left.     *)
(***************************************************************************)
LEMMA InCredentialIs ==
  ASSUME NEW i \in Ours, NEW p2, NEW s, s # "INITIAL", InCredential(i, p2, s)
  PROVE  /\ currentInstruction = i /\ ~owed /\ ctx.state = s /\ Len(hash) < MaxItems
         /\ i = Update => ctx.update = "CREDENTIAL" /\ ctx.credentials > 0
  <1>1. currentInstruction \in {None, i} /\ ~owed /\ Len(hash) < MaxItems
    BY DEF InCredential, Turn, Accepts
  <1>2. CASE isInitialCall
    <2>1. CASE i = Deploy
      <3>1. found(i) = [ctx EXCEPT !.state = "INITIAL"]
        BY <1>2, <2>1, Names3 DEF found
      <3>2. found(i).state = s
        BY DEF InCredential
      <3>3. QED
        BY <3>1, <3>2
    <2>2. CASE i = Update
      <3>1. found(i) = [ctx EXCEPT !.state = "VERIFICATION_KEYS_LENGTH", !.update = "INITIAL"]
        BY <1>2, <2>2, Names3 DEF found
      <3>2. found(i).update = "CREDENTIAL"
        BY <2>2 DEF InCredential
      <3>3. QED
        BY <3>1, <3>2
    <2>3. QED
      BY <2>1, <2>2, Names3
  <1>3. CASE ~isInitialCall
    <2>1. found(i) = ctx
      BY <1>3 DEF found
    <2>2. QED
      BY <1>1, <1>3, <2>1 DEF InCredential, isInitialCall
  <1>4. QED
    BY <1>2, <1>3

LEMMA InUpdateIs ==
  ASSUME NEW s, s # "INITIAL", InUpdate(s)
  PROVE  currentInstruction = Update /\ ~owed /\ ctx.update = s /\ Len(hash) < MaxItems
  <1>1. currentInstruction \in {None, Update} /\ ~owed /\ Len(hash) < MaxItems
    BY DEF InUpdate, Turn, Accepts
  <1>2. CASE isInitialCall
    <2>1. found(Update) = [ctx EXCEPT !.state = "VERIFICATION_KEYS_LENGTH", !.update = "INITIAL"]
      BY <1>2, Names3 DEF found
    <2>2. found(Update).update = s
      BY DEF InUpdate
    <2>3. QED
      BY <2>1, <2>2
  <1>3. CASE ~isInitialCall
    <2>1. found(Update) = ctx
      BY <1>3 DEF found
    <2>2. QED
      BY <1>1, <1>3, <2>1 DEF InUpdate, isInitialCall
  <1>4. QED
    BY <1>2, <1>3

LEMMA FoundOK == ASSUME ContextOK, NEW i \in Ours PROVE found(i) \in Contexts
  <1>1. CASE ~isInitialCall
    BY <1>1 DEF found, ContextOK
  <1>2. CASE isInitialCall /\ i = Deploy
    BY <1>2, Names3 DEF found, ContextOK, Contexts, States
  <1>3. CASE isInitialCall /\ i = Update
    BY <1>3, Names3 DEF found, ContextOK, Contexts, States, UpdateStates
  <1>4. QED
    BY <1>1, <1>2, <1>3, Names3

LEMMA FoundCounts ==
  ASSUME ContextOK, NEW i \in Ours, ctx' = found(i) PROVE ContextOK'
  <1>1. CASE ~isInitialCall
    BY <1>1 DEF found, ContextOK, CountInv
  <1>2. CASE isInitialCall /\ i = Deploy
    BY <1>2, Names3 DEF found, ContextOK, CountInv, Contexts, States
  <1>3. CASE isInitialCall /\ i = Update
    BY <1>3, Names3 DEF found, ContextOK, CountInv, Contexts, States, UpdateStates
  <1>4. QED
    BY <1>1, <1>2, <1>3, Names3

(***************************************************************************)
(* Types and countdowns: of each command of a credential ...               *)
(***************************************************************************)
LEMMA CredentialCounts ==
  ASSUME ContextOK, NEW i \in Ours, NEW p2,
         \/ \E n \in 0..MaxKeys : KeysLength(i, p2, n)
         \/ \E n \in 0..MaxList : SignatureThreshold(i, p2, n)
         \/ ArIdentity(i, p2)
         \/ \E n \in 0..MaxList : CredentialDates(i, p2, n)
         \/ AttributeTag(i, p2) \/ AttributeValue(i, p2)
         \/ \E n \in 0..MaxProof : LengthOfProofs(i, p2, n)
         \/ NewOrExisting(i, p2) \/ NewOrExistingRefused(i, p2)
  PROVE  ContextOK'
  <1> USE DEF ContextOK, Contexts, CountInv, Take
  <1>1. ASSUME NEW n \in 0..MaxKeys, KeysLength(i, p2, n) PROVE ContextOK'
    BY <1>1 DEF KeysLength, States
  <1>2. ASSUME NEW n \in 0..MaxList, SignatureThreshold(i, p2, n) PROVE ContextOK'
    BY <1>2 DEF SignatureThreshold, States
  <1>3. ASSUME ArIdentity(i, p2) PROVE ContextOK'
    <2>1. ctx.ars - 1 \in 0..MaxList
      BY <1>3, CredentialAssumption, SMTT(40) DEF ArIdentity
    <2>2. QED
      BY <1>3, <2>1 DEF ArIdentity, States
  <1>4. ASSUME NEW n \in 0..MaxList, CredentialDates(i, p2, n) PROVE ContextOK'
    <2>1. n = 0 \/ n > 0
      BY CredentialAssumption
    <2>2. QED
      BY <1>4, <2>1 DEF CredentialDates, attributesLeft, States
  <1>5. ASSUME AttributeTag(i, p2) PROVE ContextOK'
    <2>1. ctx.state = "ATTRIBUTE_TAG"
      BY <1>5, InCredentialIs DEF AttributeTag
    <2>2. QED
      BY <1>5, <2>1 DEF AttributeTag, States
  <1>6. ASSUME AttributeValue(i, p2) PROVE ContextOK'
    <2>1. ctx.state = "ATTRIBUTE_VALUE"
      BY <1>6, InCredentialIs DEF AttributeValue
    <2>2. ctx.attributes - 1 \in 0..MaxList /\ (ctx.attributes - 1 = 0 \/ ctx.attributes - 1 > 0)
      BY <2>1, CredentialAssumption
    <2>3. QED
      BY <1>6, <2>2 DEF AttributeValue, attributesLeft, States
  <1>7. ASSUME NEW n \in 0..MaxProof, LengthOfProofs(i, p2, n) PROVE ContextOK'
    BY <1>7 DEF LengthOfProofs, States
  <1>8. ASSUME NewOrExisting(i, p2) \/ NewOrExistingRefused(i, p2) PROVE ContextOK'
    BY <1>8 DEF NewOrExisting, NewOrExistingRefused
  <1>9. QED
    BY <1>1, <1>2, <1>3, <1>4, <1>5, <1>6, <1>7, <1>8

LEMMA KeyCounts ==
  ASSUME HashOK, ContextOK, NEW i \in Ours, NEW p2, VerificationKey(i, p2)
  PROVE  ContextOK'
  <1>1. Len(hash) \in Nat /\ Len(hash) < MaxItems
    BY InCredentialIs, LenProperties DEF VerificationKey, HashOK
  <1>2. Len(hash) + 1 \in 0..MaxItems
    BY <1>1, CredentialAssumption
  <1>3. ctx.keys > 0 /\ ctx.keys \in 0..MaxKeys
    BY DEF VerificationKey, ContextOK, Contexts
  <1>4. ctx.keys - 1 \in 0..MaxKeys
    BY <1>3, CredentialAssumption
  <1> DEFINE c == [ctx EXCEPT !.key = Len(hash) + 1, !.keys = @ - 1]
  <1>5. ctx' = [c EXCEPT !.state = "SIGNATURE_THRESHOLD"] \/ ctx' = [c EXCEPT !.showIntro = FALSE]
    BY DEF VerificationKey, Take
  <1>6. c \in Contexts /\ c.state = ctx.state /\ c.attributes = ctx.attributes
        /\ c.update = ctx.update /\ c.ids = ctx.ids
    BY <1>2, <1>4 DEF ContextOK, Contexts
  <1> HIDE DEF c
  <1>7. QED
    BY <1>5, <1>6, ZenonT(60) DEF ContextOK, CountInv, Contexts, States

LEMMA ProofCounts ==
  ASSUME ContextOK, NEW i \in Ours, NEW p2, Proofs(i, p2) PROVE ContextOK'
  <1> USE DEF ContextOK, Contexts, CountInv
  <1>1. CASE ctx.proof > Piece
    <2>1. ctx.proof - Piece \in 0..MaxProof
      BY <1>1, CredentialAssumption
    <2>2. ctx' = [ctx EXCEPT !.proof = @ - Piece]
      BY <1>1 DEF Proofs, Take
    <2>3. QED
      BY <2>1, <2>2
  <1>2. CASE ~(ctx.proof > Piece)
    <2>1. ctx' = credentialDone(p2)
      BY <1>2 DEF Proofs, Take
    <2>2. CASE p2 = "credential" /\ ctx.update = "CREDENTIAL" /\ ctx.credentials > 0
      <3>1. ctx.credentials - 1 \in 0..MaxCredentials
        BY <2>2, CredentialAssumption
      <3>2. QED
        BY <2>1, <2>2, <3>1 DEF credentialDone, States, UpdateStates
    <2>3. CASE ~(p2 = "credential" /\ ctx.update = "CREDENTIAL" /\ ctx.credentials > 0)
      BY <2>1, <2>3 DEF credentialDone, States
    <2>4. QED
      BY <2>2, <2>3
  <1>3. QED
    BY <1>1, <1>2

(***************************************************************************)
(* ... of an update, and of all steps.                                     *)
(***************************************************************************)
LEMMA UpdateCounts ==
  ASSUME HashOK, ContextOK,
         \/ CredentialIndex \/ CredentialId \/ UpdateThreshold
         \/ \E n \in 0..MaxCredentials : IdCount(n)
  PROVE  ContextOK'
  <1> USE DEF ContextOK, Contexts, CountInv
  <1>1. CASE CredentialIndex
    BY <1>1 DEF CredentialIndex, Take, UpdateStates
  <1>2. CASE CredentialId
    <2>1. ctx.update = "ID" /\ Len(hash) < MaxItems /\ Len(hash) \in Nat
      BY <1>2, InUpdateIs, LenProperties DEF CredentialId, HashOK
    <2>2. Len(hash) + 1 \in 0..MaxItems
      BY <2>1, CredentialAssumption, SMTT(40)
    <2>3. ctx.ids - 1 \in 0..MaxCredentials /\ (ctx.ids - 1 = 0 \/ ctx.ids - 1 > 0)
      BY <2>1, CredentialAssumption, SMTT(40)
    <2>4. ctx' = [ctx EXCEPT !.id = Len(hash) + 1, !.ids = @ - 1, !.update = idsLeft(ctx.ids - 1)]
      BY <1>2 DEF CredentialId
    <2>5. QED
      BY <2>2, <2>3, <2>4 DEF idsLeft, UpdateStates
  <1>3. CASE UpdateThreshold
    BY <1>3 DEF UpdateThreshold
  <1>4. ASSUME NEW n \in 0..MaxCredentials, IdCount(n) PROVE ContextOK'
    <2>1. n = 0 \/ n > 0
      BY CredentialAssumption
    <2>2. QED
      BY <1>4, <2>1 DEF IdCount, Take, idsLeft, UpdateStates
  <1>5. QED
    BY <1>1, <1>2, <1>3, <1>4

LEMMA BeginCounts ==
  ASSUME ContextOK,
         \/ DeployInitial
         \/ \E n \in 0..MaxCredentials : UpdateInitial(n)
         \/ \E i \in Ours : InitialRefused(i)
  PROVE  ContextOK'
  <1> USE DEF Begin
  <1>0. 0 \in 0..MaxItems
    BY CredentialAssumption
  <1>1. ASSUME NEW c \in Contexts, c.state \notin {"ATTRIBUTE_TAG", "ATTRIBUTE_VALUE"},
               c.update # "ID" \/ c.ids > 0, ctx' = [c EXCEPT !.key = 0, !.id = 0]
        PROVE  ContextOK'
    BY <1>0, <1>1 DEF ContextOK, Contexts, CountInv
  <1>2. CASE DeployInitial
    <2> DEFINE f == found(Deploy)
               c == [f EXCEPT !.state = "VERIFICATION_KEYS_LENGTH", !.showIntro = TRUE]
    <2>1. f \in Contexts /\ (f.update # "ID" \/ f.ids > 0)
      <3>1. CASE ~isInitialCall
        BY <3>1 DEF found, ContextOK, CountInv
      <3>2. CASE isInitialCall
        BY <3>2, Names3 DEF found, ContextOK, CountInv, Contexts, States
      <3>3. QED
        BY <3>1, <3>2
    <2>2. ctx' = [c EXCEPT !.key = 0, !.id = 0]
      BY <1>2 DEF DeployInitial
    <2> HIDE DEF f
    <2>3. /\ c \in Contexts /\ c.state = "VERIFICATION_KEYS_LENGTH"
          /\ c.update = f.update /\ c.ids = f.ids
      BY <2>1 DEF Contexts, States
    <2> HIDE DEF c
    <2>4. QED
      BY <1>1, <2>1, <2>2, <2>3
  <1>3. ASSUME NEW n \in 0..MaxCredentials, UpdateInitial(n) PROVE ContextOK'
    <2> DEFINE f == found(Update)
               c == [f EXCEPT !.credentials = n,
                              !.update = IF n = 0 THEN "ID_COUNT" ELSE "CREDENTIAL_INDEX"]
    <2>1. f \in Contexts /\ (f.state \in {"ATTRIBUTE_TAG", "ATTRIBUTE_VALUE"} => f.attributes > 0)
      <3>1. CASE ~isInitialCall
        BY <3>1 DEF found, ContextOK, CountInv
      <3>2. CASE isInitialCall
        BY <3>2, Names3 DEF found, ContextOK, CountInv, Contexts, States, UpdateStates
      <3>3. QED
        BY <3>1, <3>2
    <2>2. ctx' = [c EXCEPT !.key = 0, !.id = 0]
      BY <1>3 DEF UpdateInitial
    <2> HIDE DEF f
    <2>3. /\ c \in Contexts /\ c.update # "ID"
          /\ c.state = f.state /\ c.attributes = f.attributes
      BY <2>1 DEF Contexts, UpdateStates
    <2> HIDE DEF c
    <2>4. QED
      BY <1>0, <2>1, <2>2, <2>3 DEF ContextOK, Contexts, CountInv
  <1>4. ASSUME NEW i \in Ours, InitialRefused(i) PROVE ContextOK'
    <2>1. CASE ctx' = found(i)
      BY <2>1, FoundCounts
    <2>2. CASE i = Update /\ ctx' = [found(i) EXCEPT !.key = 0, !.id = 0]
      <3> DEFINE f == found(i)
      <3>1. isInitialCall
        BY <1>4 DEF InitialRefused
      <3>2. f \in Contexts
        BY FoundOK
      <3>3. f = [ctx EXCEPT !.state = "VERIFICATION_KEYS_LENGTH", !.update = "INITIAL"]
        BY <2>2, <3>1, Names3 DEF found
      <3>4. f.state = "VERIFICATION_KEYS_LENGTH" /\ f.update = "INITIAL"
        BY <3>3 DEF ContextOK, Contexts
      <3> HIDE DEF f
      <3>5. ctx' = [f EXCEPT !.key = 0, !.id = 0]
        BY <2>2 DEF f
      <3>6. QED
        BY <1>1, <3>2, <3>4, <3>5
    <2>3. QED
      BY <1>4, <2>1, <2>2 DEF InitialRefused
  <1>5. QED
    BY <1>2, <1>3, <1>4

LEMMA BlankContext ==
  ASSUME NEW update \in UpdateStates, update # "ID", NEW n \in 0..MaxCredentials,
         NEW intro \in BOOLEAN,
         ctx' = [NoContext EXCEPT !.update = update, !.credentials = n, !.showIntro = intro]
  PROVE  ContextOK'
  <1>1. /\ 0 \in 0..MaxCredentials /\ 0 \in 0..MaxKeys /\ 0 \in 0..MaxList /\ 0 \in 0..MaxProof
        /\ 0 \in 0..MaxItems
    BY CredentialAssumption
  <1>2. QED
    BY <1>1 DEF NoContext, ContextOK, CountInv, Contexts, States

LEMMA NoContextOK == ASSUME ctx' = NoContext PROVE ContextOK'
  <1>1. /\ 0 \in 0..MaxCredentials /\ 0 \in 0..MaxKeys /\ 0 \in 0..MaxList /\ 0 \in 0..MaxProof
        /\ 0 \in 0..MaxItems
    BY CredentialAssumption
  <1>2. QED
    BY <1>1 DEF NoContext, ContextOK, CountInv, Contexts, States, UpdateStates

LEMMA ContextNext == ASSUME HashOK, ContextOK, [Next]_vars PROVE ContextOK'
  <1>1. ASSUME ctx' = ctx PROVE ContextOK'
    BY <1>1 DEF ContextOK, CountInv
  <1>2. ASSUME Restart PROVE ContextOK'
    BY <1>2, NoContextOK DEF Restart
  <1>3. ASSUME NEW i \in Ours, NEW p2,
               \/ \E n \in 0..MaxKeys : KeysLength(i, p2, n)
               \/ VerificationKey(i, p2) \/ ThresholdTooWide(i, p2)
               \/ \E n \in 0..MaxList : SignatureThreshold(i, p2, n) \/ CredentialDates(i, p2, n)
               \/ ArIdentity(i, p2) \/ AttributeTag(i, p2) \/ AttributeValue(i, p2)
               \/ \E n \in 0..MaxProof : LengthOfProofs(i, p2, n)
               \/ Proofs(i, p2) \/ NewOrExisting(i, p2) \/ NewOrExistingRefused(i, p2)
        PROVE  ContextOK'
    <2>1. ThresholdTooWide(i, p2) => Restart
      BY DEF ThresholdTooWide
    <2>2. QED
      BY <1>2, <1>3, <2>1, CredentialCounts, KeyCounts, ProofCounts
  <1>4. ASSUME NEW update \in {"none", "CREDENTIAL"}, NEW n \in {0, MaxCredentials},
               NEW intro \in BOOLEAN, OtherInstruction(update, n, intro)
        PROVE  ContextOK'
    <2>1. update \in UpdateStates /\ update # "ID" /\ n \in 0..MaxCredentials
      BY CredentialAssumption DEF UpdateStates
    <2>2. QED
      BY <1>4, <2>1, BlankContext DEF OtherInstruction
  <1>5. ASSUME NEW i \in Ours, InitialRefused(i) \/ OutOfTurn(i) PROVE ContextOK'
    <2>1. OutOfTurn(i) => ctx' = found(i)
      BY DEF OutOfTurn
    <2>2. QED
      BY <1>5, <2>1, FoundCounts, BeginCounts
  <1>6. CASE Command
    <2>1. Dispatch => ctx' = ctx
      BY DEF Dispatch
    <2>2. CASE \/ DeployInitial
               \/ \E n \in 0..MaxCredentials : UpdateInitial(n) \/ IdCount(n)
               \/ CredentialIndex \/ CredentialId \/ UpdateThreshold
      BY <2>2, BeginCounts, UpdateCounts
    <2>3. QED
      BY <1>1, <1>3, <1>4, <1>5, <1>6, <2>1, <2>2 DEF Command
  <1>7. CASE Button
    BY <1>1, <1>2, <1>7
    DEF Button, PressContinueInitial, PressReview, PressKey, PressArThreshold, PressId, PressSign,
        PressSignFails, PressDecline, PressStray, PressQuit
  <1>8. CASE PowerLost \/ UNCHANGED vars
    BY <1>1, <1>2, <1>8 DEF PowerLost, vars
  <1>9. QED
    BY <1>6, <1>7, <1>8 DEF Next

(***************************************************************************)
(* Every step begins a hash, adds one item to it in the middle of a        *)
(* transaction, or adds none.                                              *)
(***************************************************************************)
Blank == hash' = <<>> \/ hash' = Spent \/ \E n \in Nat : hash' = <<Counted("head", n)>>

\* A first command, or the end of everything.
Begins == Blank /\ read' = {} /\ early' = FALSE

\* An item is taken in and the command answered: x.
Takes(x) ==
  /\ Len(hash) < MaxItems /\ ~owed /\ currentInstruction \in Ours
  /\ x \in Items /\ hash' = Append(hash, x)
  /\ read' = read /\ early' = early

LEMMA ItemTypes ==
  ASSUME NEW name \in ItemNames, NEW n \in Nat, NEW p2 \in P2
  PROVE  /\ Named(name) \in Items /\ Counted(name, n) \in Items /\ Proof(name, n, p2) \in Items
         /\ Named(name).item = name /\ Counted(name, n).item = name
         /\ Proof(name, n, p2).item = name
         /\ Named(name).size = 0 /\ Counted(name, n).size = n /\ Proof(name, n, p2).size = n
         /\ Proof(name, n, p2).p2 = p2
  BY DEF Items, Named, Counted, Proof, P2

LEMMA HashBegins == ASSUME Blank PROVE HashOK'
  <1>1. 0 <= MaxItems /\ 1 <= MaxItems
    BY CredentialAssumption
  <1>2. <<>> \in Seq(Items) /\ Len(<<>>) = 0
    OBVIOUS
  <1>3. ASSUME NEW x \in Items PROVE <<x>> \in Seq(Items) /\ Len(<<x>>) = 1
    BY <1>3
  <1>4. Named("spent") \in Items /\ \A n \in Nat : Counted("head", n) \in Items
    BY ItemTypes DEF P2, ItemNames
  <1>5. QED
    BY <1>1, <1>2, <1>3, <1>4 DEF Blank, Spent, HashOK

LEMMA HashTakes ==
  ASSUME HashOK, NEW x, Takes(x)
  PROVE  /\ HashOK' /\ Len(hash) \in Nat /\ Len(hash') = Len(hash) + 1
         /\ hash'[Len(hash) + 1] = x /\ \A k \in 1..Len(hash) : hash'[k] = hash[k]
  <1>1. hash \in Seq(Items) /\ Len(hash) \in Nat
    BY LenProperties DEF HashOK
  <1>2. /\ Append(hash, x) \in Seq(Items) /\ Len(Append(hash, x)) = Len(hash) + 1
        /\ Append(hash, x)[Len(hash) + 1] = x
        /\ \A k \in 1..Len(hash) : Append(hash, x)[k] = hash[k]
    BY <1>1, AppendProperties DEF Takes
  <1>3. Len(hash) + 1 <= MaxItems
    BY <1>1, CredentialAssumption DEF Takes
  <1>4. QED
    BY <1>1, <1>2, <1>3 DEF Takes, HashOK

\* What is taken in answers at once, or ends the transaction, or is shown.
Answered == owed' = FALSE
EndsIn(x) == x.item \in {"account", "threshold"}
ShowsKey(x) ==
  /\ x.item = "key" /\ ctx.state = "VERIFICATION_KEY"
  /\ \/ ctx'.state = "SIGNATURE_THRESHOLD" /\ owed' = FALSE
     \/ ctx'.key = Len(hash) + 1 /\ owed' = TRUE /\ screen' \in {"review", "key"}
ShowsId(x) == x.item = "id" /\ ctx'.id = Len(hash) + 1 /\ owed' = TRUE /\ screen' = "id"

Shows(x) ==
  \/ x.item \notin {"key", "id"} /\ (Answered \/ EndsIn(x))
  \/ ShowsKey(x) \/ ShowsId(x)

LEMMA CredentialTakes ==
  ASSUME ContextOK, NEW i \in Ours, NEW p2 \in P2,
         \/ \E n \in 0..MaxKeys : KeysLength(i, p2, n)
         \/ VerificationKey(i, p2)
         \/ \E n \in 0..MaxList : SignatureThreshold(i, p2, n) \/ CredentialDates(i, p2, n)
         \/ ArIdentity(i, p2) \/ AttributeTag(i, p2) \/ AttributeValue(i, p2)
         \/ \E n \in 0..MaxProof : LengthOfProofs(i, p2, n)
         \/ Proofs(i, p2) \/ NewOrExisting(i, p2) \/ NewOrExistingRefused(i, p2)
  PROVE  /\ \E x : Takes(x) /\ Shows(x)
         /\ currentInstruction' = i \/ (currentInstruction' = None /\ owed' = FALSE)
  <1> USE DEF Take, AnswerNow, Ask, Refuse, Shows, Answered
  <1>0. /\ MaxKeys \in Nat /\ MaxList \in Nat /\ MaxProof \in Nat /\ Piece \in Nat
        /\ ctx.proof \in Nat
    BY CredentialAssumption DEF ContextOK, Contexts
  <1>1. ASSUME NEW s, s # "INITIAL", InCredential(i, p2, s)
        PROVE  Len(hash) < MaxItems /\ ~owed /\ currentInstruction = i
    BY <1>1, InCredentialIs
  <1>2. ASSUME NEW n \in 0..MaxKeys, KeysLength(i, p2, n)
        PROVE  Takes(Counted("keys", n)) /\ Shows(Counted("keys", n)) /\ currentInstruction' = i
    <2>1. Counted("keys", n) \in Items /\ Counted("keys", n).item = "keys"
      BY <1>0, ItemTypes DEF ItemNames
    <2>2. QED
      BY <1>1, <1>2, <2>1 DEF KeysLength, Takes
  <1>3. ASSUME NEW n \in 0..MaxList, SignatureThreshold(i, p2, n)
        PROVE  /\ Takes(Counted("thresholds", n)) /\ Shows(Counted("thresholds", n))
               /\ currentInstruction' = i
    <2>1. Counted("thresholds", n) \in Items /\ Counted("thresholds", n).item = "thresholds"
      BY <1>0, ItemTypes DEF ItemNames
    <2>2. QED
      BY <1>1, <1>3, <2>1 DEF SignatureThreshold, Takes
  <1>4. ASSUME NEW n \in 0..MaxList, CredentialDates(i, p2, n)
        PROVE  Takes(Counted("dates", n)) /\ Shows(Counted("dates", n)) /\ currentInstruction' = i
    <2>1. Counted("dates", n) \in Items /\ Counted("dates", n).item = "dates"
      BY <1>0, ItemTypes DEF ItemNames
    <2>2. QED
      BY <1>1, <1>4, <2>1 DEF CredentialDates, Takes
  <1>5. ASSUME NEW n \in 0..MaxProof, LengthOfProofs(i, p2, n)
        PROVE  /\ Takes(Proof("proofLength", n, p2)) /\ Shows(Proof("proofLength", n, p2))
               /\ currentInstruction' = i
    <2>1. Proof("proofLength", n, p2) \in Items /\ Proof("proofLength", n, p2).item = "proofLength"
      BY <1>0, ItemTypes DEF ItemNames
    <2>2. QED
      BY <1>1, <1>5, <2>1 DEF LengthOfProofs, Takes
  <1>6. ASSUME Proofs(i, p2)
        PROVE  (\E x : Takes(x) /\ Shows(x)) /\ currentInstruction' = i
    <2>1. PICK n \in {Piece, ctx.proof} :
            /\ hash' = Append(hash, Proof("proof", n, p2))
            /\ owed' = FALSE /\ currentInstruction' = i /\ read' = read /\ early' = early
      BY <1>6 DEF Proofs
    <2>2. Proof("proof", n, p2) \in Items /\ Proof("proof", n, p2).item = "proof"
      BY <1>0, ItemTypes DEF ItemNames
    <2>3. Takes(Proof("proof", n, p2)) /\ Shows(Proof("proof", n, p2))
      BY <1>1, <1>6, <2>1, <2>2 DEF Proofs, Takes
    <2>4. QED
      BY <2>1, <2>3
  <1>7. \A name \in ItemNames : Named(name) \in Items /\ Named(name).item = name
    BY ItemTypes
  <1>8. ASSUME ArIdentity(i, p2)
        PROVE  Takes(Named("ar")) /\ Shows(Named("ar")) /\ currentInstruction' = i
    <2>1. Named("ar") \in Items /\ Named("ar").item = "ar"
      BY <1>7 DEF ItemNames
    <2>2. QED
      BY <1>1, <1>8, <2>1 DEF ArIdentity, Takes
  <1>9. ASSUME AttributeTag(i, p2)
        PROVE  Takes(Named("tag")) /\ Shows(Named("tag")) /\ currentInstruction' = i
    <2>1. Named("tag") \in Items /\ Named("tag").item = "tag"
      BY <1>7 DEF ItemNames
    <2>2. QED
      BY <1>1, <1>9, <2>1 DEF AttributeTag, Takes
  <1>10. ASSUME AttributeValue(i, p2)
         PROVE  Takes(Named("value")) /\ Shows(Named("value")) /\ currentInstruction' = i
    <2>1. Named("value") \in Items /\ Named("value").item = "value"
      BY <1>7 DEF ItemNames
    <2>2. QED
      BY <1>1, <1>10, <2>1 DEF AttributeValue, Takes
  <1>11. ASSUME NewOrExisting(i, p2) \/ NewOrExistingRefused(i, p2)
         PROVE  /\ Takes(Named("account")) /\ Shows(Named("account"))
                /\ currentInstruction' = i \/ (currentInstruction' = None /\ owed' = FALSE)
    <2>1. Named("account") \in Items /\ Named("account").item = "account"
      BY <1>7 DEF ItemNames
    <2>2. QED
      BY <1>1, <1>11, <2>1 DEF NewOrExisting, NewOrExistingRefused, Takes, EndsIn
  <1>12. ASSUME VerificationKey(i, p2)
         PROVE  Takes(Named("key")) /\ Shows(Named("key")) /\ currentInstruction' = i
    <2>1. Named("key") \in Items /\ Named("key").item = "key"
      BY <1>7 DEF ItemNames
    <2>2. /\ ctx.state = "VERIFICATION_KEY" /\ Len(hash) < MaxItems /\ ~owed
          /\ currentInstruction = i
      BY <1>12, InCredentialIs DEF VerificationKey
    <2> DEFINE c == [ctx EXCEPT !.key = Len(hash) + 1, !.keys = @ - 1]
    <2>3. /\ hash' = Append(hash, Named("key")) /\ read' = read /\ early' = early
          /\ currentInstruction' = i
          /\ \/ ctx' = [c EXCEPT !.state = "SIGNATURE_THRESHOLD"] /\ owed' = FALSE
             \/ /\ ctx' = [c EXCEPT !.showIntro = FALSE]
                /\ owed' = TRUE /\ screen' \in {"review", "key"}
      BY <1>12 DEF VerificationKey
    <2>4. DOMAIN c = DOMAIN ctx /\ c.key = Len(hash) + 1 /\ "key" \in DOMAIN c /\ "state" \in DOMAIN c
      BY DEF ContextOK, Contexts
    <2> HIDE DEF c
    <2>5. ShowsKey(Named("key"))
      BY <2>1, <2>2, <2>3, <2>4 DEF ShowsKey
    <2>6. QED
      BY <2>1, <2>2, <2>3, <2>5 DEF Takes
  <1>13. QED
    BY <1>2, <1>3, <1>4, <1>5, <1>6, <1>8, <1>9, <1>10, <1>11, <1>12

LEMMA UpdateTakes ==
  ASSUME ContextOK,
         \/ CredentialIndex \/ CredentialId \/ UpdateThreshold
         \/ \E n \in 0..MaxCredentials : IdCount(n)
  PROVE  (\E x : Takes(x) /\ Shows(x)) /\ currentInstruction' = Update
  <1> USE DEF Take, AnswerNow, Ask, Shows, Answered
  <1>0. MaxCredentials \in Nat /\ Update \in Ours
    BY CredentialAssumption, Names3
  <1>1. ASSUME NEW s, s # "INITIAL", InUpdate(s)
        PROVE  Len(hash) < MaxItems /\ ~owed /\ currentInstruction = Update
    BY <1>1, InUpdateIs
  <1>2. \A name \in ItemNames : Named(name) \in Items /\ Named(name).item = name
    BY ItemTypes DEF P2
  <1>3. ASSUME CredentialIndex
        PROVE  Takes(Named("index")) /\ Shows(Named("index")) /\ currentInstruction' = Update
    <2>1. Named("index") \in Items /\ Named("index").item = "index"
      BY <1>2 DEF ItemNames
    <2>2. QED
      BY <1>0, <1>1, <1>3, <2>1 DEF CredentialIndex, Takes
  <1>4. ASSUME UpdateThreshold
        PROVE  Takes(Named("threshold")) /\ Shows(Named("threshold")) /\ currentInstruction' = Update
    <2>1. Named("threshold") \in Items /\ Named("threshold").item = "threshold"
      BY <1>2 DEF ItemNames
    <2>2. QED
      BY <1>0, <1>1, <1>4, <2>1 DEF UpdateThreshold, Takes, EndsIn
  <1>5. ASSUME NEW n \in 0..MaxCredentials, IdCount(n)
        PROVE  /\ Takes(Counted("idCount", n)) /\ Shows(Counted("idCount", n))
               /\ currentInstruction' = Update
    <2>1. Counted("idCount", n) \in Items /\ Counted("idCount", n).item = "idCount"
      BY <1>0, ItemTypes DEF ItemNames, P2
    <2>2. QED
      BY <1>0, <1>1, <1>5, <2>1 DEF IdCount, Takes
  <1>6. ASSUME CredentialId
        PROVE  Takes(Named("id")) /\ Shows(Named("id")) /\ currentInstruction' = Update
    <2>1. Named("id") \in Items /\ Named("id").item = "id"
      BY <1>2 DEF ItemNames
    <2>2. ShowsId(Named("id"))
      BY <1>6, <2>1 DEF CredentialId, ContextOK, Contexts, ShowsId
    <2>3. QED
      BY <1>0, <1>1, <1>6, <2>1, <2>2 DEF CredentialId, Takes
  <1>7. QED
    BY <1>3, <1>4, <1>5, <1>6

(***************************************************************************)
(* What has been on display.                                               *)
(***************************************************************************)
LEMMA TakesReview ==
  ASSUME HashOK, ReviewInv, NEW x, Takes(x), Shows(x) PROVE ReviewInv'
  <1>1. /\ Len(hash) \in Nat /\ Len(hash') = Len(hash) + 1
        /\ hash'[Len(hash) + 1] = x /\ \A k \in 1..Len(hash) : hash'[k] = hash[k]
    BY HashTakes
  <1>2. ~owed /\ read' = read /\ early' = early /\ IdsInv /\ KeysInv
    BY DEF Takes, ReviewInv
  <1>3. x.item = "id" => owed' = TRUE /\ screen' = "id" /\ ctx'.id = Len(hash) + 1
    BY DEF Shows, ShowsKey, ShowsId
  <1>4. x.item = "key" =>
          /\ ctx.state = "VERIFICATION_KEY"
          /\ \/ ctx'.state = "SIGNATURE_THRESHOLD"
             \/ owed' = TRUE /\ screen' \in {"review", "key"} /\ ctx'.key = Len(hash) + 1
    BY DEF Shows, ShowsKey, ShowsId
  <1>5. IdsInv'
    <2> SUFFICES ASSUME NEW k \in 1..Len(hash'), hash'[k].item = "id"
                 PROVE  k \in read' \/ (owed' /\ screen' = "id" /\ k = ctx'.id)
      BY DEF IdsInv
    <2>1. CASE k \in 1..Len(hash)
      BY <1>1, <1>2, <2>1 DEF IdsInv
    <2>2. CASE k = Len(hash) + 1
      BY <1>1, <1>3, <2>2
    <2>3. QED
      BY <1>1, <2>1, <2>2
  <1>6. KeysInv'
    <2> SUFFICES ASSUME ~early', NEW k \in 1..Len(hash'), hash'[k].item = "key"
                 PROVE  \/ k \in read'
                        \/ k < Len(hash') /\ hash'[k + 1].item # "key"
                        \/ k = Len(hash') /\ ctx'.state = "SIGNATURE_THRESHOLD"
                        \/ k = Len(hash') /\ owed' /\ screen' \in {"review", "key"} /\ k = ctx'.key
      BY DEF KeysInv
    <2>1. CASE k \in 1..Len(hash)
      <3>1. /\ hash[k].item = "key" /\ ~early
            /\ \/ k \in read
               \/ k < Len(hash) /\ hash[k + 1].item # "key"
               \/ k = Len(hash) /\ ctx.state = "SIGNATURE_THRESHOLD"
        BY <1>1, <1>2, <2>1 DEF KeysInv
      <3>2. CASE k < Len(hash) /\ hash[k + 1].item # "key"
        <4>1. k + 1 \in 1..Len(hash) /\ k < Len(hash) + 1
          BY <1>1, <3>2
        <4>2. QED
          BY <1>1, <3>2, <4>1
      <3>3. CASE k = Len(hash) /\ ctx.state = "SIGNATURE_THRESHOLD"
        BY <1>1, <1>4, <3>3
      <3>4. QED
        BY <1>2, <3>1, <3>2, <3>3
    <2>2. CASE k = Len(hash) + 1
      BY <1>1, <1>4, <2>2
    <2>3. QED
      BY <1>1, <2>1, <2>2
  <1>7. QED
    BY <1>5, <1>6 DEF ReviewInv

LEMMA TakesDialog ==
  ASSUME HashOK, NEW x, Takes(x), Shows(x),
         currentInstruction' \in Ours \/ owed' = FALSE
  PROVE  DialogInv'
  <1>1. /\ Len(hash) \in Nat /\ Len(hash') = Len(hash) + 1
        /\ hash'[Len(hash) + 1] = x
    BY HashTakes
  <1>2. hash'[Len(hash')] = x /\ Len(hash') > 0
    BY <1>1
  <1>3. owed' => EndsIn(x) \/ screen' \in {"review", "key", "id"}
    BY DEF Shows, Answered, ShowsKey, ShowsId
  <1>4. {"review", "key", "id"} \cap Signing = {}
    BY DEF Signing, FinalFlows
  <1>5. QED
    BY <1>2, <1>3, <1>4 DEF DialogInv, EndsIn

\* A button that leaves the hash and the transaction in progress.
Goes ==
  /\ owed /\ owed' = FALSE
  /\ currentInstruction' = currentInstruction /\ hash' = hash /\ ctx' = ctx
  /\ read \subseteq read'
  /\ early' \in {early, TRUE}
  /\ screen = "id" => ctx.id \in read'
  /\ screen \in {"review", "key"} => early' = TRUE \/ ctx.key \in read'

LEMMA GoesReview == ASSUME ReviewInv, early \in BOOLEAN, Goes PROVE ReviewInv' /\ DialogInv'
  <1>1. ASSUME IdsInv PROVE IdsInv'
    BY <1>1 DEF Goes, IdsInv
  <1>2. ASSUME KeysInv PROVE KeysInv'
    <2> SUFFICES ASSUME ~early', NEW k \in 1..Len(hash'), hash'[k].item = "key"
                 PROVE  \/ k \in read'
                        \/ k < Len(hash') /\ hash'[k + 1].item # "key"
                        \/ k = Len(hash') /\ ctx'.state = "SIGNATURE_THRESHOLD"
                        \/ k = Len(hash') /\ owed' /\ screen' \in {"review", "key"} /\ k = ctx'.key
      BY DEF KeysInv
    <2>1. /\ hash' = hash /\ ctx' = ctx /\ read \subseteq read' /\ ~early
          /\ screen \in {"review", "key"} => ctx.key \in read'
      <3>1. early' \in {early, TRUE} /\ early' # TRUE
        BY DEF Goes
      <3>2. early' = early
        BY <3>1
      <3>3. ~early
        BY <3>2
      <3>4. QED
        BY <3>1, <3>3 DEF Goes
    <2>2. /\ k \in 1..Len(hash) /\ hash[k].item = "key"
      BY <2>1
    <2>3. \/ k \in read
          \/ k < Len(hash) /\ hash[k + 1].item # "key"
          \/ k = Len(hash) /\ ctx.state = "SIGNATURE_THRESHOLD"
          \/ k = Len(hash) /\ owed /\ screen \in {"review", "key"} /\ k = ctx.key
      BY <1>2, <2>1, <2>2 DEF KeysInv
    <2>4. QED
      BY <2>1, <2>3
  <1>3. QED
    BY <1>1, <1>2 DEF ReviewInv, DialogInv, Goes

LEMMA ButtonGoes ==
  ASSUME PressContinueInitial \/ PressReview \/ PressKey \/ PressArThreshold \/ PressId
  PROVE  Goes
  BY DEF PressContinueInitial, PressReview, PressKey, PressArThreshold, PressId, PressContinue, Goes,
     FinalFlows

LEMMA BeginReview ==
  ASSUME DeployInitial \/ \E n \in 0..MaxCredentials : UpdateInitial(n)
  PROVE  ReviewInv' /\ DialogInv'
  <1>1. CASE DeployInitial
    <2>1. hash' = <<>> /\ owed' = FALSE
      BY <1>1 DEF DeployInitial, Begin, AnswerNow
    <2>2. Len(hash') = 0
      BY <2>1
    <2>3. QED
      BY <2>1, <2>2 DEF ReviewInv, IdsInv, KeysInv, DialogInv
  <1>2. ASSUME NEW n \in 0..MaxCredentials, UpdateInitial(n) PROVE ReviewInv' /\ DialogInv'
    <2>1. /\ hash' = <<Counted("head", n)>> /\ currentInstruction' = Update
          /\ screen' = "initial"
      BY <1>2 DEF UpdateInitial, Begin, Ask
    <2>2. Len(hash') = 1 /\ hash'[1].item = "head"
      BY <2>1 DEF Counted
    <2>3. IdsInv' /\ KeysInv'
      BY <2>2 DEF IdsInv, KeysInv
    <2>4. DialogInv'
      BY <2>1, Names3 DEF DialogInv, Signing, FinalFlows
    <2>5. QED
      BY <2>3, <2>4 DEF ReviewInv
  <1>3. QED
    BY <1>1, <1>2

LEMMA Idles ==
  ASSUME currentInstruction' \notin Ours, owed' = FALSE \/ hash' = Spent,
         currentInstruction' = None \/ owed' = FALSE
  PROVE  ReviewInv' /\ DialogInv'
  BY DEF ReviewInv, DialogInv

\* The steps that end whatever was in progress.
Ends ==
  \/ Restart \/ PressSign \/ PressSignFails \/ PressDecline \/ PressStray \/ PressQuit \/ PowerLost
  \/ Dispatch
  \/ \E i \in Ours : InitialRefused(i) \/ OutOfTurn(i)
  \/ \E i \in Ours, p2 \in P2 : ThresholdTooWide(i, p2)
  \/ \E update \in {"none", "CREDENTIAL"}, n \in {0, MaxCredentials}, intro \in BOOLEAN :
       OtherInstruction(update, n, intro)

LEMMA EndsReview == ASSUME Ends PROVE ReviewInv' /\ DialogInv'
  <1> USE Names3, Idles DEF uiIdle, Refuse
  <1>1. ASSUME Restart PROVE ReviewInv' /\ DialogInv'
    BY <1>1 DEF Restart, DeviceRestart
  <1>2. CASE PressSign \/ PressSignFails \/ PressDecline
    BY <1>2 DEF PressSign, PressSignFails, PressDecline, PressAnswer, PressThrow
  <1>3. CASE PowerLost \/ PressStray \/ PressQuit
    BY <1>1, <1>3 DEF PowerLost, PressStray, PressQuit
  <1>4. CASE Dispatch
    BY <1>4 DEF Dispatch, BadCommand, SwitchInstruction
  <1>5. ASSUME NEW i \in Ours, InitialRefused(i) \/ OutOfTurn(i) PROVE ReviewInv' /\ DialogInv'
    BY <1>5 DEF InitialRefused, OutOfTurn
  <1>6. ASSUME NEW i \in Ours, NEW p2 \in P2, ThresholdTooWide(i, p2)
        PROVE  ReviewInv' /\ DialogInv'
    BY <1>1, <1>6 DEF ThresholdTooWide
  <1>7. ASSUME NEW update, NEW n, NEW intro, OtherInstruction(update, n, intro)
        PROVE  ReviewInv' /\ DialogInv'
    BY <1>7 DEF OtherInstruction, AnswerNow
  <1>8. QED
    BY <1>1, <1>2, <1>3, <1>4, <1>5, <1>6, <1>7 DEF Ends

\* The commands that take in an item.
ItemCommand(i, p2) ==
  \/ \E n \in 0..MaxKeys : KeysLength(i, p2, n)
  \/ VerificationKey(i, p2)
  \/ \E n \in 0..MaxList : SignatureThreshold(i, p2, n) \/ CredentialDates(i, p2, n)
  \/ ArIdentity(i, p2) \/ AttributeTag(i, p2) \/ AttributeValue(i, p2)
  \/ \E n \in 0..MaxProof : LengthOfProofs(i, p2, n)
  \/ Proofs(i, p2) \/ NewOrExisting(i, p2) \/ NewOrExistingRefused(i, p2)

UpdateCommand ==
  \/ CredentialIndex \/ CredentialId \/ UpdateThreshold
  \/ \E n \in 0..MaxCredentials : IdCount(n)

FirstCommand == DeployInitial \/ \E n \in 0..MaxCredentials : UpdateInitial(n)

Steps ==
  \/ Ends \/ FirstCommand \/ UpdateCommand
  \/ \E i \in Ours, p2 \in P2 : ItemCommand(i, p2)
  \/ PressContinueInitial \/ PressReview \/ PressKey \/ PressArThreshold \/ PressId

LEMMA NextSteps == ASSUME Next PROVE Steps
  <1>1. CASE Command
    BY <1>1 DEF Command, Steps, Ends, FirstCommand, UpdateCommand, ItemCommand
  <1>2. CASE Button
    BY <1>2 DEF Button, Steps, Ends
  <1>3. CASE PowerLost
    BY <1>3 DEF Steps, Ends
  <1>4. QED
    BY <1>1, <1>2, <1>3 DEF Next

\* Every command that is no end and no beginning takes in an item.
LEMMA CommandTakes ==
  ASSUME ContextOK, UpdateCommand \/ \E i \in Ours, p2 \in P2 : ItemCommand(i, p2)
  PROVE  /\ \E x : Takes(x) /\ Shows(x)
         /\ currentInstruction' \in Ours \/ owed' = FALSE
  <1>1. CASE UpdateCommand
    BY <1>1, UpdateTakes, Names3 DEF UpdateCommand
  <1>2. ASSUME NEW i \in Ours, NEW p2 \in P2, ItemCommand(i, p2)
        PROVE  /\ \E x : Takes(x) /\ Shows(x)
               /\ currentInstruction' \in Ours \/ owed' = FALSE
    BY <1>2, CredentialTakes DEF ItemCommand
  <1>3. QED
    BY <1>1, <1>2

LEMMA ReviewNext ==
  ASSUME HashOK, ContextOK, early \in BOOLEAN, ReviewInv, DialogInv, [Next]_vars
  PROVE  ReviewInv' /\ DialogInv'
  <1>1. CASE UpdateCommand \/ \E i \in Ours, p2 \in P2 : ItemCommand(i, p2)
    BY <1>1, CommandTakes, TakesReview, TakesDialog
  <1>2. CASE FirstCommand
    BY <1>2, BeginReview DEF FirstCommand
  <1>3. CASE PressContinueInitial \/ PressReview \/ PressKey \/ PressArThreshold \/ PressId
    BY <1>3, ButtonGoes, GoesReview
  <1>4. CASE UNCHANGED vars
    BY <1>4 DEF vars, deviceVars, ReviewInv, IdsInv, KeysInv, DialogInv
  <1>5. QED
    BY <1>1, <1>2, <1>3, <1>4, EndsReview, NextSteps DEF Steps

LEMMA HashNext == ASSUME HashOK, ContextOK, [Next]_vars PROVE HashOK'
  <1>1. CASE UpdateCommand \/ \E i \in Ours, p2 \in P2 : ItemCommand(i, p2)
    BY <1>1, CommandTakes, HashTakes
  <1>2. CASE FirstCommand
    <2>1. MaxCredentials \in Nat
      BY CredentialAssumption
    <2>2. Blank
      <3>1. CASE DeployInitial
        BY <3>1 DEF DeployInitial, Begin, Blank
      <3>2. ASSUME NEW n \in 0..MaxCredentials, UpdateInitial(n) PROVE Blank
        <4>1. hash' = <<Counted("head", n)>> /\ n \in Nat
          BY <2>1, <3>2 DEF UpdateInitial, Begin
        <4>2. QED
          BY <4>1 DEF Blank
      <3>3. QED
        BY <1>2, <3>1, <3>2 DEF FirstCommand
    <2>3. QED
      BY <2>2, HashBegins
  <1>3. ASSUME hash' = hash PROVE HashOK'
    BY <1>3 DEF HashOK
  <1>4. CASE Ends
    <2>1. hash' = hash \/ Blank
      BY <1>4
      DEF Ends, Restart, PressSign, PressSignFails, PressDecline, PressStray, PressQuit, PowerLost,
          Dispatch, InitialRefused, Begin, OutOfTurn, ThresholdTooWide, OtherInstruction, Blank
    <2>2. QED
      BY <1>3, <2>1, HashBegins, SMTT(40)
  <1>5. CASE PressContinueInitial \/ PressReview \/ PressKey \/ PressArThreshold \/ PressId
    BY <1>3, <1>5, ButtonGoes DEF Goes
  <1>6. CASE UNCHANGED vars
    BY <1>3, <1>6 DEF vars
  <1>7. QED
    BY <1>1, <1>2, <1>4, <1>5, <1>6, NextSteps DEF Steps

LEMMA ReadNext ==
  ASSUME ContextOK, ReadOK, early \in BOOLEAN, [Next]_vars PROVE ReadOK' /\ early' \in BOOLEAN
  <1>1. CASE UpdateCommand \/ \E i \in Ours, p2 \in P2 : ItemCommand(i, p2)
    BY <1>1, CommandTakes DEF Takes, ReadOK
  <1>2. CASE FirstCommand
    BY <1>2 DEF FirstCommand, DeployInitial, UpdateInitial, Begin, ReadOK
  <1>3. CASE PressContinueInitial \/ PressReview \/ PressKey \/ PressArThreshold \/ PressId
    <2>1. ctx.key \in 0..MaxItems /\ ctx.id \in 0..MaxItems
      BY DEF ContextOK, Contexts
    <2>2. QED
      BY <1>3, <2>1
      DEF PressContinueInitial, PressReview, PressKey, PressArThreshold, PressId, ReadOK
  <1>4. CASE Ends
    BY <1>4
    DEF Ends, Restart, PressSign, PressSignFails, PressDecline, PressStray, PressQuit, PowerLost,
        Dispatch, InitialRefused, Begin, OutOfTurn, ThresholdTooWide, OtherInstruction, ReadOK
  <1>5. CASE UNCHANGED vars
    BY <1>5 DEF vars, ReadOK
  <1>6. QED
    BY <1>1, <1>2, <1>3, <1>4, <1>5, NextSteps DEF Steps

LEMMA ControlNext == ASSUME ControlOK, ContextOK, [Next]_vars PROVE ControlOK'
  <1> DEFINE Screens == Signing \cup {"idle", "frozen", "initial", "review", "key", "id"}
  <1>0. Ours \subseteq Ours \cup {Other, None} /\ screen \in Screens
    BY DEF ControlOK
  <1>1. ASSUME NEW i \in Ours \cup {Other}, AnswerNow(i) \/ Refuse PROVE ControlOK'
    BY <1>1 DEF AnswerNow, Refuse, ControlOK
  <1>2. ASSUME NEW i \in Ours, NEW flow \in Screens, Ask(i, flow) PROVE ControlOK'
    BY <1>2 DEF Ask, ControlOK
  <1>3. ASSUME NEW r, PressContinue \/ PressAnswer(r) \/ PressThrow PROVE ControlOK'
    BY <1>3 DEF PressContinue, PressAnswer, PressThrow, LeaveScreen, uiIdle, ControlOK
  <1>4. ASSUME uiIdle /\ owed' = FALSE PROVE ControlOK'
    BY <1>4 DEF uiIdle, ControlOK
  <1>5. ASSUME Restart PROVE ControlOK'
    BY <1>4, <1>5, ZenonT(60) DEF Restart, DeviceRestart
  <1>6. {"initial", "review", "key", "id", "final", "finalIntro", "threshold"} \subseteq Screens
    BY DEF Signing, FinalFlows
  <1> HIDE DEF Screens
  <1>7. ASSUME NEW i \in Ours, NEW p2 \in P2, ItemCommand(i, p2) PROVE ControlOK'
    BY <1>1, <1>2, <1>6, <1>7, ZenonT(60)
    DEF ItemCommand, KeysLength, VerificationKey, SignatureThreshold, CredentialDates, ArIdentity,
        AttributeTag, AttributeValue, LengthOfProofs, Proofs, NewOrExisting, NewOrExistingRefused,
        Take
  <1>8. CASE UpdateCommand
    BY <1>1, <1>2, <1>6, <1>8, Names3
    DEF UpdateCommand, CredentialIndex, CredentialId, UpdateThreshold, IdCount, Take
  <1>9. CASE FirstCommand
    BY <1>1, <1>2, <1>6, <1>9, Names3 DEF FirstCommand, DeployInitial, UpdateInitial
  <1>10. CASE PressContinueInitial \/ PressReview \/ PressKey \/ PressArThreshold \/ PressId
    BY <1>3, <1>10
    DEF PressContinueInitial, PressReview, PressKey, PressArThreshold, PressId
  <1>11. ASSUME NEW update, NEW n, NEW intro, OtherInstruction(update, n, intro) PROVE ControlOK'
    BY <1>1, <1>4, <1>11 DEF OtherInstruction
  <1>12. CASE Ends
    <2>1. ASSUME Refuse PROVE ControlOK'
      BY <1>1, <2>1
    <2>2. QED
      BY <1>3, <1>4, <1>5, <1>11, <1>12, <2>1
      DEF Ends, PressSign, PressSignFails, PressDecline, PressStray, PressQuit, PowerLost,
          Dispatch, BadCommand, SwitchInstruction, InitialRefused, OutOfTurn, ThresholdTooWide
  <1>13. CASE UNCHANGED vars
    BY <1>13 DEF vars, deviceVars, ControlOK
  <1>14. QED
    BY <1>7, <1>8, <1>9, <1>10, <1>12, <1>13, NextSteps DEF Steps

(***************************************************************************)
(* The transaction as it is read, and one item more of it.                 *)
(***************************************************************************)
TransactionProofs == INSTANCE ReadingProofs WITH Nothing <- Unread, Read <- ReadItem

\* What is known of the hash.
known == Known(hash)

Knowledge ==
  [next : Inner \cup {"outside"}, left : Int, whole : BOOLEAN,
   then : {"start", "account", "index", "keys", "idCount", "id", "threshold", "end"},
   credentials : Int, ids : Int, ordered : BOOLEAN, accounts : Nat]

LEMMA ItemFields == \A x \in Items : x.item \in ItemNames /\ x.size \in Nat
  BY DEF Items

LEMMA ItemRead == ASSUME NEW k \in Knowledge, NEW x \in Items PROVE ReadItem(k, x) \in Knowledge
  <1> DEFINE q == ReadItem(k, x)
  <1>1. /\ k.next \in Inner \cup {"outside"} /\ k.left \in Int /\ k.whole \in BOOLEAN
        /\ k.credentials \in Int /\ k.ids \in Int /\ k.ordered \in BOOLEAN
        /\ k.accounts \in Nat
        /\ k.then \in {"start", "account", "index", "keys", "idCount", "id", "threshold", "end"}
    BY DEF Knowledge
  <1>2. x.size \in Int
    BY ItemFields
  <1>3. NextInside(k, x) \in Inner \cup {"outside"}
    BY <1>1 DEF NextInside, Inner
  <1>4. LeftInside(k, x) \in Int
    <2>1. Uses(x) \in Int
      BY <1>2 DEF Uses
    <2>2. QED
      BY <1>1, <1>2, <2>1 DEF LeftInside
  <1>5. NextAround(k, x) \in {"start", "account", "index", "keys", "idCount", "id", "threshold", "end"}
    BY <1>1 DEF NextAround
  <1>6. q.whole \in BOOLEAN /\ q.ordered \in BOOLEAN
    BY <1>1 DEF ReadItem
  <1>7. q.credentials \in Int /\ q.ids \in Int /\ q.accounts \in Nat
    BY <1>1, <1>2 DEF ReadItem
  <1>8. q.next = NextInside(k, x) /\ q.left = LeftInside(k, x) /\ q.then = NextAround(k, x)
    BY DEF ReadItem
  <1>9. q = [next |-> q.next, left |-> q.left, whole |-> q.whole, then |-> q.then,
             credentials |-> q.credentials, ids |-> q.ids, ordered |-> q.ordered,
             accounts |-> q.accounts]
    BY DEF ReadItem
  <1> HIDE DEF q
  <1>10. q \in Knowledge
    BY <1>3, <1>4, <1>5, <1>6, <1>7, <1>8, <1>9 DEF Knowledge
  <1>11. QED
    BY <1>10 DEF q

LEMMA NothingRead == Unread \in Knowledge
  BY DEF Unread, Knowledge

LEMMA KnownIs == \A h : Known(h) = TransactionProofs!After(h)
  BY DEF Known, Transaction!After, Transaction!Readings, TransactionProofs!After,
         TransactionProofs!Readings

LEMMA KnownType == ASSUME HashOK PROVE known \in Knowledge
  BY KnownIs, NothingRead, ItemRead, TransactionProofs!AfterIn DEF HashOK, known

LEMMA KnownAppend ==
  ASSUME NEW h \in Seq(Items), NEW x \in Items PROVE Known(Append(h, x)) = ReadItem(Known(h), x)
  BY KnownIs, TransactionProofs!AfterAppend

LEMMA KnownTakes ==
  ASSUME HashOK, NEW x, Takes(x) PROVE known' = ReadItem(known, x) /\ known \in Knowledge
  <1>1. hash \in Seq(Items) /\ x \in Items /\ hash' = Append(hash, x)
    BY DEF HashOK, Takes
  <1>2. Known(Append(hash, x)) = ReadItem(Known(hash), x)
    BY <1>1, KnownAppend
  <1>3. QED
    BY <1>1, <1>2, KnownType DEF known

LEMMA KnownEmpty == Known(<<>>) = Unread
  BY KnownIs, TransactionProofs!AfterEmpty

LEMMA KnownHead ==
  ASSUME NEW n \in Nat PROVE Known(<<Counted("head", n)>>) = ReadItem(Unread, Counted("head", n))
  <1>1. Counted("head", n) \in Items
    BY ItemTypes DEF ItemNames, P2
  <1>2. <<>> \in Seq(Items) /\ Append(<<>>, Counted("head", n)) = <<Counted("head", n)>>
    OBVIOUS
  <1>3. QED
    BY <1>1, <1>2, KnownAppend, KnownEmpty

\* Inside a credential: what an item leaves to come.
LEMMA KeyRead ==
  ASSUME NEW k, NEW x, NEW q, q = ReadItem(k, x), k.left \in Int, x.size \in Nat
  PROVE  /\ x.item = "keys" => q.next = "key" /\ q.left = x.size
         /\ x.item = "key" =>
              q.next = (IF k.left > 1 THEN "key" ELSE "thresholds") /\ q.left = k.left - 1
  BY DEF ReadItem, NextInside, LeftInside, Uses

LEMMA ArRead ==
  ASSUME NEW k, NEW x, NEW q, q = ReadItem(k, x), k.left \in Int, x.size \in Nat
  PROVE  /\ x.item = "thresholds" => q.next = "ar" /\ q.left = x.size
         /\ x.item = "ar" =>
              q.next = (IF k.left > 1 THEN "ar" ELSE "dates") /\ q.left = k.left - 1
  BY DEF ReadItem, NextInside, LeftInside, Uses

LEMMA AttributeRead ==
  ASSUME NEW k, NEW x, NEW q, q = ReadItem(k, x), k.left \in Int, x.size \in Nat
  PROVE  /\ x.item = "dates" =>
              q.next = (IF x.size > 0 THEN "tag" ELSE "proofLength") /\ q.left = x.size
         /\ x.item = "tag" => q.next = "value" /\ q.left = k.left
         /\ x.item = "value" =>
              q.next = (IF k.left > 1 THEN "tag" ELSE "proofLength") /\ q.left = k.left - 1
  BY DEF ReadItem, NextInside, LeftInside, Uses

LEMMA ProofRead ==
  ASSUME NEW k, NEW x, NEW q, q = ReadItem(k, x), k.left \in Int, x.size \in Nat
  PROVE  /\ x.item = "proofLength" => q.next = "proof" /\ q.left = x.size
         /\ x.item = "proof" =>
              q.next = (IF k.left > x.size THEN "proof" ELSE "outside") /\ q.left = k.left - x.size
  BY DEF ReadItem, NextInside, LeftInside, Uses

\* An item of a credential leaves what is around it, and one around it the credential.
SameAround(k, q) ==
  /\ q.then = k.then /\ q.credentials = k.credentials /\ q.ids = k.ids
  /\ q.accounts = k.accounts /\ (q.ordered <=> k.ordered)

LEMMA InsideRead ==
  ASSUME NEW k \in Knowledge, NEW x \in Items, NEW q, q = ReadItem(k, x), x.item \in Inner
  PROVE  /\ SameAround(k, q)
         /\ q.whole <=> k.whole /\ x.item = k.next /\ Uses(x) <= k.left
  <1>1. q.then = k.then /\ q.credentials = k.credentials /\ q.ids = k.ids /\ q.accounts = k.accounts
    BY DEF ReadItem, NextAround, Inner
  <1>2. q.ordered = (k.ordered /\ InTurnAround(k, x)) /\ k.ordered \in BOOLEAN
    BY DEF ReadItem, Knowledge
  <1>3. InTurnAround(k, x)
    BY DEF InTurnAround
  <1>4. q.whole = (k.whole /\ InTurn(k, x)) /\ k.whole \in BOOLEAN
    BY DEF ReadItem, Knowledge
  <1>5. InTurn(k, x) <=> x.item = k.next /\ Uses(x) <= k.left
    BY DEF InTurn
  <1>6. QED
    BY <1>1, <1>2, <1>3, <1>4, <1>5 DEF SameAround

LEMMA AroundRead ==
  ASSUME NEW k \in Knowledge, NEW x \in Items, NEW q, q = ReadItem(k, x), x.item \notin Inner
  PROVE  /\ q.whole <=> k.whole /\ k.next = "outside"
         /\ q.ordered <=> k.ordered /\ InTurnAround(k, x)
         /\ x.item # "keys" => q.next = k.next
  <1>1. q.whole = (k.whole /\ InTurn(k, x)) /\ k.whole \in BOOLEAN
    BY DEF ReadItem, Knowledge
  <1>2. InTurn(k, x) <=> k.next = "outside"
    BY DEF InTurn
  <1>3. q.ordered = (k.ordered /\ InTurnAround(k, x))
    BY DEF ReadItem
  <1>4. x.item # "keys" => q.next = k.next
    BY DEF ReadItem, NextInside, Inner
  <1>5. QED
    BY <1>1, <1>2, <1>3, <1>4

\* Whether a proof claimed, in P2, to be of an update.
Claims(h) == \E i \in At(h, "proof") : h[i].p2 = "credential"
claims == Claims(hash)

LEMMA ItemsTake ==
  ASSUME HashOK, NEW x, Takes(x), NEW name
  PROVE  At(hash', name) = IF x.item = name THEN At(hash, name) \cup {Len(hash) + 1} ELSE At(hash, name)
  <1>1. /\ Len(hash) \in Nat /\ Len(hash') = Len(hash) + 1
        /\ hash'[Len(hash) + 1] = x /\ \A k \in 1..Len(hash) : hash'[k] = hash[k]
    BY HashTakes
  <1>2. 1..Len(hash') = 1..Len(hash) \cup {Len(hash) + 1}
    BY <1>1
  <1>3. QED
    BY <1>1, <1>2 DEF At

LEMMA ClaimsTake ==
  ASSUME HashOK, NEW x, Takes(x)
  PROVE  claims' <=> claims \/ (x.item = "proof" /\ x.p2 = "credential")
  <1>1. /\ hash'[Len(hash) + 1] = x /\ \A k \in 1..Len(hash) : hash'[k] = hash[k]
        /\ Len(hash) + 1 \notin 1..Len(hash)
    BY HashTakes
  <1>2. At(hash', "proof") = IF x.item = "proof" THEN At(hash, "proof") \cup {Len(hash) + 1}
                             ELSE At(hash, "proof")
    BY ItemsTake
  <1>3. \A i \in At(hash, "proof") : hash'[i] = hash[i]
    BY <1>1 DEF At
  <1>4. QED
    BY <1>1, <1>2, <1>3 DEF claims, Claims

(***************************************************************************)
(* What the context expects next is what the reader of the hash expects.   *)
(***************************************************************************)
\* In a credential: the item of the state and its countdown.
Expects(item, n) == known.next = item /\ known.left = n

InsideInv ==
  /\ ctx.state # "INITIAL"
  /\ ctx.state \in {"none", "VERIFICATION_KEYS_LENGTH", "NEW_OR_EXISTING"} => known.next = "outside"
  /\ ctx.state = "VERIFICATION_KEY"    => Expects("key", ctx.keys)
  /\ ctx.state = "SIGNATURE_THRESHOLD" => Expects("thresholds", 0)
  /\ ctx.state = "AR_IDENTITY"         => Expects("ar", ctx.ars)
  /\ ctx.state = "CREDENTIAL_DATES"    => Expects("dates", 0)
  /\ ctx.state = "ATTRIBUTE_TAG"       => Expects("tag", ctx.attributes)
  /\ ctx.state = "ATTRIBUTE_VALUE"     => Expects("value", ctx.attributes)
  /\ ctx.state = "LENGTH_OF_PROOFS"    => Expects("proofLength", 0)
  /\ ctx.state = "PROOFS"              => Expects("proof", ctx.proof)

\* Around the credentials of an update: between two of them the state is that of the
\* first command of one, or none.
Between == ctx.state \in {"none", "VERIFICATION_KEYS_LENGTH"}

UpdateInv ==
  /\ hash # <<>> /\ hash[1].item = "head" /\ known.ordered
  /\ ctx.update # "INITIAL" /\ ctx.state # "NEW_OR_EXISTING"
  /\ ctx.update = "CREDENTIAL_INDEX" =>
       /\ known.then = "index" /\ ctx.state = "VERIFICATION_KEYS_LENGTH"
       /\ known.credentials = ctx.credentials /\ ctx.credentials > 0
  /\ ctx.update = "CREDENTIAL" =>
       /\ ctx.state # "none"
       /\ known.credentials = ctx.credentials - 1
       /\ known.then = IF ctx.state = "VERIFICATION_KEYS_LENGTH" THEN "keys"
                   ELSE IF known.credentials > 0 THEN "index" ELSE "idCount"
  /\ ctx.update = "ID_COUNT" => known.then = "idCount" /\ Between
  /\ ctx.update = "ID" => known.then = "id" /\ known.ids = ctx.ids /\ Between
  /\ ctx.update = "THRESHOLD" =>
       /\ known.then = IF owed /\ screen = "threshold" THEN "end" ELSE "threshold"
       /\ Between
  /\ owed /\ screen = "threshold" => ctx.update = "THRESHOLD"

\* A deployment: what holds whether or not its proofs claim to be of an update ...
DeployInv ==
  /\ hash # <<>> => hash[1].item # "head"
  /\ owed => screen # "threshold"
  /\ owed /\ screen \in FinalFlows => ctx.state = "NEW_OR_EXISTING"
  /\ ~claims =>
       /\ known.ordered
       /\ IF hash = <<>> THEN known.then = "start" /\ ctx.state = "VERIFICATION_KEYS_LENGTH"
          ELSE known.then = "account" /\ ctx.state \notin {"none", "VERIFICATION_KEYS_LENGTH"}
       /\ known.accounts > 0 => ctx.state = "NEW_OR_EXISTING"
       /\ owed /\ screen \in FinalFlows => known.accounts > 0
       /\ ~early => known.accounts = 0 \/ (known.accounts = 1 /\ owed /\ screen \in FinalFlows)

\* ... and the keys of one that does not: all are read but the last, which the
\* context keeps for the final flow.
LastKeyInv ==
  ~claims /\ ~early =>
    \A n \in At(hash, "key") :
      \/ n \in read
      \/ n = ctx.key /\ (ctx.state # "VERIFICATION_KEY" \/ (owed /\ screen \in {"review", "key"}))

PlaceInv ==
  /\ currentInstruction \in Ours => known.whole /\ InsideInv
  /\ currentInstruction = Update => UpdateInv /\ (owed => screen \notin FinalFlows)
  /\ currentInstruction = Deploy => DeployInv /\ LastKeyInv

CredentialStates ==
  {"VERIFICATION_KEY", "SIGNATURE_THRESHOLD", "AR_IDENTITY", "CREDENTIAL_DATES", "ATTRIBUTE_TAG",
   "ATTRIBUTE_VALUE", "LENGTH_OF_PROOFS", "PROOFS"}

LEMMA HeadTakes ==
  ASSUME HashOK, NEW x, Takes(x)
  PROVE  /\ hash' # <<>>
         /\ hash # <<>> => hash'[1] = hash[1]
         /\ hash = <<>> => hash'[1] = x
  <1>1. /\ Len(hash) \in Nat /\ Len(hash') = Len(hash) + 1
        /\ hash'[Len(hash) + 1] = x /\ \A k \in 1..Len(hash) : hash'[k] = hash[k]
    BY HashTakes
  <1>2. hash \in Seq(Items) /\ (hash = <<>> <=> Len(hash) = 0)
    BY EmptySeq DEF HashOK
  <1>3. hash' \in Seq(Items)
    BY HashTakes DEF HashOK
  <1>4. hash' # <<>>
    BY <1>1, <1>3, EmptySeq
  <1>5. QED
    BY <1>1, <1>2, <1>4

LEMMA KeysTake ==
  ASSUME HashOK, NEW x, Takes(x), NEW n \in At(hash', "key")
  PROVE  n \in At(hash, "key") \/ (n = Len(hash) + 1 /\ x.item = "key")
  <1>1. /\ Len(hash) \in Nat /\ Len(hash') = Len(hash) + 1
        /\ hash'[Len(hash) + 1] = x /\ \A k \in 1..Len(hash) : hash'[k] = hash[k]
    BY HashTakes
  <1>2. n \in 1..Len(hash') /\ hash'[n].item = "key"
    BY DEF At
  <1>3. n \in 1..Len(hash) \/ n = Len(hash) + 1
    BY <1>1, <1>2
  <1>4. QED
    BY <1>1, <1>2, <1>3 DEF At

\* In the middle of a credential nothing changes around it.
LEMMA InsideKeeps ==
  ASSUME HashOK, ContextOK, PlaceInv, NEW i \in Ours,
         currentInstruction = i, currentInstruction' = i, ~owed,
         NEW x, Takes(x), x.item \in Inner, x.item = known.next, Uses(x) <= known.left,
         i = Update => ctx.update = "CREDENTIAL",
         ctx.state \in CredentialStates,
         ctx'.state \in CredentialStates \/ (ctx'.state = "NEW_OR_EXISTING" /\ i = Deploy),
         ctx'.update = ctx.update, ctx'.credentials = ctx.credentials,
         owed' => screen' \in {"review", "key"},
         x.item # "key" =>
           ctx'.key = ctx.key /\ ctx.state # "VERIFICATION_KEY" /\ ctx'.state # "VERIFICATION_KEY",
         x.item = "key" =>
           /\ ctx.state = "VERIFICATION_KEY" /\ ctx'.key = Len(hash) + 1
           /\ ctx'.state # "VERIFICATION_KEY" \/ owed',
         InsideInv'
  PROVE  PlaceInv'
  <1>1. /\ known' = ReadItem(known, x) /\ known \in Knowledge /\ x \in Items
        /\ read' = read /\ early' = early
    BY KnownTakes DEF Takes
  <1>2. /\ SameAround(known, known') /\ known'.whole
        /\ claims' <=> claims \/ (x.item = "proof" /\ x.p2 = "credential")
    BY <1>1, InsideRead, ClaimsTake DEF PlaceInv
  <1>3. x.item # "head"
    BY DEF Inner
  <1>4. screen' \in {"review", "key"} => screen' # "threshold" /\ screen' \notin FinalFlows
    BY DEF FinalFlows
  <1>5. /\ ctx.state \notin {"none", "VERIFICATION_KEYS_LENGTH", "NEW_OR_EXISTING"}
        /\ ctx'.state \notin {"none", "VERIFICATION_KEYS_LENGTH"}
    BY DEF CredentialStates
  <1>6. CASE i = Update
    <2>1. UpdateInv
      BY <1>6 DEF PlaceInv
    <2>2. UpdateInv'
      <3>1. hash' # <<>> /\ hash'[1].item = "head" /\ known'.ordered
        BY <1>2, <2>1, HeadTakes DEF UpdateInv, SameAround
      <3>2. ctx'.state # "NEW_OR_EXISTING" /\ ctx'.update = "CREDENTIAL"
        BY <1>5, <1>6, Names3 DEF CredentialStates
      <3>3. known'.credentials = ctx'.credentials - 1
        BY <1>2, <1>6, <2>1 DEF UpdateInv, SameAround
      <3>4. known'.then = IF known'.credentials > 0 THEN "index" ELSE "idCount"
        BY <1>2, <1>5, <1>6, <2>1 DEF UpdateInv, SameAround
      <3>5. ~(owed' /\ screen' = "threshold")
        BY <1>4
      <3>6. QED
        BY <1>5, <3>1, <3>2, <3>3, <3>4, <3>5 DEF UpdateInv
    <2>3. QED
      BY <1>2, <1>4, <1>6, <2>2, Names3 DEF PlaceInv
  <1>7. CASE i = Deploy
    <2>1. DeployInv /\ LastKeyInv
      BY <1>7 DEF PlaceInv
    <2>2. DeployInv'
      <3>1. hash' # <<>> /\ hash'[1].item # "head"
        BY <1>3, <2>1, HeadTakes DEF DeployInv
      <3>2. owed' => screen' # "threshold" /\ screen' \notin FinalFlows
        BY <1>4
      <3>3. ASSUME ~claims'
            PROVE  known'.ordered /\ known'.then = "account" /\ known'.accounts = 0
        <4>1. ~claims /\ hash # <<>> /\ known.ordered /\ known.then = "account"
          BY <1>2, <1>5, <2>1, <3>3 DEF DeployInv
        <4>2. ~(known.accounts > 0) /\ known.accounts \in Nat
          BY <1>1, <1>5, <2>1, <4>1 DEF DeployInv, Knowledge
        <4>3. known.accounts = 0
          BY <4>2
        <4>4. QED
          BY <1>2, <4>1, <4>3 DEF SameAround
      <3>4. QED
        BY <1>5, <3>1, <3>2, <3>3 DEF DeployInv
    <2>3. LastKeyInv'
      <3> SUFFICES ASSUME ~claims', ~early', NEW n \in At(hash', "key")
                   PROVE  \/ n \in read'
                          \/ /\ n = ctx'.key
                             /\ \/ ctx'.state # "VERIFICATION_KEY"
                                \/ owed' /\ screen' \in {"review", "key"}
        BY DEF LastKeyInv
      <3>1. ~claims /\ ~early
        BY <1>1, <1>2
      <3>2. n \in At(hash, "key") \/ (n = Len(hash) + 1 /\ x.item = "key")
        BY KeysTake
      <3>3. CASE n \in At(hash, "key")
        <4>1. n \in read \/ (n = ctx.key /\ ctx.state # "VERIFICATION_KEY")
          BY <2>1, <3>1, <3>3 DEF LastKeyInv
        <4>2. QED
          BY <1>1, <4>1
      <3>4. CASE n = Len(hash) + 1 /\ x.item = "key"
        BY <3>4
      <3>5. QED
        BY <3>2, <3>3, <3>4
    <2>4. QED
      BY <1>2, <1>4, <1>7, <2>2, <2>3, Names3 DEF PlaceInv
  <1>8. QED
    BY <1>6, <1>7, Names3

\* What a command of a credential in state s finds.
LEMMA InStateIs ==
  ASSUME PlaceInv, NEW i \in Ours, NEW p2, NEW s, s # "INITIAL", InCredential(i, p2, s)
  PROVE  /\ currentInstruction = i /\ ~owed /\ ctx.state = s /\ InsideInv /\ known.whole
         /\ i = Update => ctx.update = "CREDENTIAL" /\ UpdateInv
         /\ i = Deploy => DeployInv /\ LastKeyInv
  BY InCredentialIs, Names3 DEF PlaceInv

LEMMA TakeIs ==
  ASSUME NEW i \in Ours, NEW item \in Items, NEW c, Take(i, item, c), Len(hash) < MaxItems, ~owed,
         currentInstruction = i
  PROVE  /\ Takes(item) /\ ctx' = c /\ currentInstruction' = i /\ owed' = FALSE
  BY DEF Take, Takes, AnswerNow

LEMMA ArIdentityPlace ==
  ASSUME HashOK, ContextOK, PlaceInv, NEW i \in Ours, NEW p2 \in P2, ArIdentity(i, p2)
  PROVE  PlaceInv'
  <1> DEFINE x == Named("ar")
  <1>1. x \in Items /\ x.item = "ar" /\ x.size = 0
    BY ItemTypes DEF ItemNames
  <1>2. /\ currentInstruction = i /\ ~owed /\ ctx.state = "AR_IDENTITY" /\ InsideInv
        /\ i = Update => ctx.update = "CREDENTIAL"
    BY InStateIs DEF ArIdentity
  <1>3. Len(hash) < MaxItems /\ ctx.ars > 0 /\ ctx.ars \in Nat
    BY InCredentialIs, CredentialAssumption, SMTT(40) DEF ArIdentity, ContextOK, Contexts
  <1> DEFINE c == [ctx EXCEPT !.ars = @ - 1,
                              !.state = IF ctx.ars = 1 THEN "CREDENTIAL_DATES" ELSE @]
  <1>4. Takes(x) /\ ctx' = c /\ currentInstruction' = i /\ owed' = FALSE
    BY <1>1, <1>2, <1>3, TakeIs DEF ArIdentity
  <1>5. /\ ctx'.ars = ctx.ars - 1
        /\ ctx'.state = IF ctx.ars = 1 THEN "CREDENTIAL_DATES" ELSE "AR_IDENTITY"
        /\ ctx'.update = ctx.update /\ ctx'.credentials = ctx.credentials /\ ctx'.key = ctx.key
    BY <1>2, <1>4 DEF ContextOK, Contexts
  <1> HIDE DEF x, c
  <1>6. known' = ReadItem(known, x) /\ known \in Knowledge
    BY <1>4, KnownTakes
  <1>7. known.next = "ar" /\ known.left = ctx.ars
    BY <1>2 DEF InsideInv, Expects
  <1>8. /\ known'.next = (IF known.left > 1 THEN "ar" ELSE "dates")
        /\ known'.left = known.left - 1
    BY <1>1, <1>6, ArRead DEF Knowledge
  <1>9. InsideInv'
    BY <1>3, <1>5, <1>7, <1>8 DEF InsideInv, Expects
  <1>10. x.item \in Inner /\ Uses(x) <= known.left
    BY <1>1, <1>3, <1>7 DEF Inner, Uses
  <1>11. ctx.state \in CredentialStates /\ ctx'.state \in CredentialStates
    BY <1>2, <1>5 DEF CredentialStates
  <1>12. QED
    BY <1>1, <1>2, <1>4, <1>5, <1>7, <1>9, <1>10, <1>11, InsideKeeps

LEMMA SignatureThresholdPlace ==
  ASSUME HashOK, ContextOK, PlaceInv, NEW i \in Ours, NEW p2 \in P2, NEW n \in 0..MaxList,
         SignatureThreshold(i, p2, n)
  PROVE  PlaceInv'
  <1> DEFINE x == Counted("thresholds", n)
             c == [ctx EXCEPT !.ars = n, !.state = "AR_IDENTITY"]
  <1>0. n \in Nat
    BY CredentialAssumption
  <1>1. x \in Items /\ x.item = "thresholds" /\ x.size = n
    BY <1>0, ItemTypes DEF ItemNames
  <1>2. /\ currentInstruction = i /\ ~owed /\ ctx.state = "SIGNATURE_THRESHOLD" /\ InsideInv
        /\ i = Update => ctx.update = "CREDENTIAL"
    BY InStateIs DEF SignatureThreshold
  <1>3. Len(hash) < MaxItems
    BY <1>2, InCredentialIs, CredentialAssumption DEF SignatureThreshold, ContextOK, CountInv, Contexts
  <1>4. Takes(x) /\ ctx' = c /\ currentInstruction' = i /\ owed' = FALSE
    BY <1>1, <1>2, <1>3, TakeIs DEF SignatureThreshold
  <1>5. /\ ctx'.ars = n /\ ctx'.state = "AR_IDENTITY"
        /\ ctx'.update = ctx.update /\ ctx'.credentials = ctx.credentials /\ ctx'.key = ctx.key
    BY <1>2, <1>3, <1>4 DEF ContextOK, Contexts
  <1> HIDE DEF x, c
  <1>6. known' = ReadItem(known, x) /\ known \in Knowledge
    BY <1>4, KnownTakes
  <1>7. known.next = "thresholds" /\ known.left = 0
    BY <1>2 DEF InsideInv, Expects
  <1>8. known'.next = "ar" /\ known'.left = n
    BY <1>0, <1>1, <1>6, ArRead DEF Knowledge
  <1>9. InsideInv'
    BY <1>0, <1>1, <1>3, <1>5, <1>7, <1>8 DEF InsideInv, Expects
  <1>10. x.item \in Inner /\ Uses(x) <= known.left
    BY <1>1, <1>3, <1>7 DEF Inner, Uses
  <1>11. ctx.state \in CredentialStates /\ ctx'.state \in CredentialStates
    BY <1>2, <1>5 DEF CredentialStates
  <1>12. QED
    BY <1>1, <1>2, <1>4, <1>5, <1>7, <1>9, <1>10, <1>11, InsideKeeps

LEMMA CredentialDatesPlace ==
  ASSUME HashOK, ContextOK, PlaceInv, NEW i \in Ours, NEW p2 \in P2, NEW n \in 0..MaxList,
         CredentialDates(i, p2, n)
  PROVE  PlaceInv'
  <1> DEFINE x == Counted("dates", n)
             c == [ctx EXCEPT !.attributes = n, !.state = attributesLeft(n)]
  <1>0. n \in Nat
    BY CredentialAssumption
  <1>1. x \in Items /\ x.item = "dates" /\ x.size = n
    BY <1>0, ItemTypes DEF ItemNames
  <1>2. /\ currentInstruction = i /\ ~owed /\ ctx.state = "CREDENTIAL_DATES" /\ InsideInv
        /\ i = Update => ctx.update = "CREDENTIAL"
    BY InStateIs DEF CredentialDates
  <1>3. Len(hash) < MaxItems
    BY <1>2, InCredentialIs, CredentialAssumption DEF CredentialDates, ContextOK, CountInv, Contexts
  <1>4. Takes(x) /\ ctx' = c /\ currentInstruction' = i /\ owed' = FALSE
    BY <1>1, <1>2, <1>3, TakeIs DEF CredentialDates
  <1>5. /\ ctx'.attributes = n
        /\ ctx'.state = IF n = 0 THEN "LENGTH_OF_PROOFS" ELSE "ATTRIBUTE_TAG"
        /\ ctx'.update = ctx.update /\ ctx'.credentials = ctx.credentials /\ ctx'.key = ctx.key
    BY <1>2, <1>3, <1>4 DEF ContextOK, Contexts, attributesLeft
  <1> HIDE DEF x, c
  <1>6. known' = ReadItem(known, x) /\ known \in Knowledge
    BY <1>4, KnownTakes
  <1>7. known.next = "dates" /\ known.left = 0
    BY <1>2 DEF InsideInv, Expects
  <1>8. known'.next = (IF n > 0 THEN "tag" ELSE "proofLength") /\ known'.left = n
    BY <1>0, <1>1, <1>6, AttributeRead DEF Knowledge
  <1>9. InsideInv'
    BY <1>0, <1>1, <1>3, <1>5, <1>7, <1>8 DEF InsideInv, Expects
  <1>10. x.item \in Inner /\ Uses(x) <= known.left
    BY <1>1, <1>3, <1>7 DEF Inner, Uses
  <1>11. ctx.state \in CredentialStates /\ ctx'.state \in CredentialStates
    BY <1>2, <1>5 DEF CredentialStates
  <1>12. QED
    BY <1>1, <1>2, <1>4, <1>5, <1>7, <1>9, <1>10, <1>11, InsideKeeps

LEMMA AttributeTagPlace ==
  ASSUME HashOK, ContextOK, PlaceInv, NEW i \in Ours, NEW p2 \in P2, AttributeTag(i, p2)
  PROVE  PlaceInv'
  <1> DEFINE x == Named("tag")
             c == [ctx EXCEPT !.state = "ATTRIBUTE_VALUE"]
  <1>1. x \in Items /\ x.item = "tag" /\ x.size = 0
    BY ItemTypes DEF ItemNames
  <1>2. /\ currentInstruction = i /\ ~owed /\ ctx.state = "ATTRIBUTE_TAG" /\ InsideInv
        /\ i = Update => ctx.update = "CREDENTIAL"
    BY InStateIs DEF AttributeTag
  <1>3. Len(hash) < MaxItems /\ ctx.attributes \in Nat
    BY <1>2, InCredentialIs, CredentialAssumption, SMTT(40) DEF AttributeTag, ContextOK, CountInv, Contexts
  <1>4. Takes(x) /\ ctx' = c /\ currentInstruction' = i /\ owed' = FALSE
    BY <1>1, <1>2, <1>3, TakeIs DEF AttributeTag
  <1>5. /\ ctx'.attributes = ctx.attributes /\ ctx'.state = "ATTRIBUTE_VALUE"
        /\ ctx'.update = ctx.update /\ ctx'.credentials = ctx.credentials /\ ctx'.key = ctx.key
    BY <1>2, <1>3, <1>4 DEF ContextOK, Contexts
  <1> HIDE DEF x, c
  <1>6. known' = ReadItem(known, x) /\ known \in Knowledge
    BY <1>4, KnownTakes
  <1>7. known.next = "tag" /\ known.left = ctx.attributes
    BY <1>2 DEF InsideInv, Expects
  <1>8. known'.next = "value" /\ known'.left = known.left
    BY <1>1, <1>6, AttributeRead DEF Knowledge
  <1>9. InsideInv'
    BY <1>1, <1>3, <1>5, <1>7, <1>8 DEF InsideInv, Expects
  <1>10. x.item \in Inner /\ Uses(x) <= known.left
    BY <1>1, <1>3, <1>7 DEF Inner, Uses
  <1>11. ctx.state \in CredentialStates /\ ctx'.state \in CredentialStates
    BY <1>2, <1>5 DEF CredentialStates
  <1>12. QED
    BY <1>1, <1>2, <1>4, <1>5, <1>7, <1>9, <1>10, <1>11, InsideKeeps

LEMMA AttributeValuePlace ==
  ASSUME HashOK, ContextOK, PlaceInv, NEW i \in Ours, NEW p2 \in P2, AttributeValue(i, p2)
  PROVE  PlaceInv'
  <1> DEFINE x == Named("value")
             c == [ctx EXCEPT !.attributes = @ - 1, !.state = attributesLeft(ctx.attributes - 1)]
  <1>1. x \in Items /\ x.item = "value" /\ x.size = 0
    BY ItemTypes DEF ItemNames
  <1>2. /\ currentInstruction = i /\ ~owed /\ ctx.state = "ATTRIBUTE_VALUE" /\ InsideInv
        /\ i = Update => ctx.update = "CREDENTIAL"
    BY InStateIs DEF AttributeValue
  <1>3. Len(hash) < MaxItems /\ ctx.attributes \in Nat /\ ctx.attributes > 0
    BY <1>2, InCredentialIs, CredentialAssumption, SMTT(40) DEF AttributeValue, ContextOK, CountInv, Contexts
  <1>4. Takes(x) /\ ctx' = c /\ currentInstruction' = i /\ owed' = FALSE
    BY <1>1, <1>2, <1>3, TakeIs DEF AttributeValue
  <1>5. /\ ctx'.attributes = ctx.attributes - 1
        /\ ctx'.state = IF ctx.attributes = 1 THEN "LENGTH_OF_PROOFS" ELSE "ATTRIBUTE_TAG"
        /\ ctx'.update = ctx.update /\ ctx'.credentials = ctx.credentials /\ ctx'.key = ctx.key
    BY <1>2, <1>3, <1>4 DEF ContextOK, Contexts, attributesLeft
  <1> HIDE DEF x, c
  <1>6. known' = ReadItem(known, x) /\ known \in Knowledge
    BY <1>4, KnownTakes
  <1>7. known.next = "value" /\ known.left = ctx.attributes
    BY <1>2 DEF InsideInv, Expects
  <1>8. /\ known'.next = (IF known.left > 1 THEN "tag" ELSE "proofLength")
        /\ known'.left = known.left - 1
    BY <1>1, <1>6, AttributeRead DEF Knowledge
  <1>9. InsideInv'
    BY <1>1, <1>3, <1>5, <1>7, <1>8 DEF InsideInv, Expects
  <1>10. x.item \in Inner /\ Uses(x) <= known.left
    BY <1>1, <1>3, <1>7 DEF Inner, Uses
  <1>11. ctx.state \in CredentialStates /\ ctx'.state \in CredentialStates
    BY <1>2, <1>5 DEF CredentialStates
  <1>12. QED
    BY <1>1, <1>2, <1>4, <1>5, <1>7, <1>9, <1>10, <1>11, InsideKeeps

LEMMA LengthOfProofsPlace ==
  ASSUME HashOK, ContextOK, PlaceInv, NEW i \in Ours, NEW p2 \in P2, NEW n \in 0..MaxProof,
         LengthOfProofs(i, p2, n)
  PROVE  PlaceInv'
  <1> DEFINE x == Proof("proofLength", n, p2)
             c == [ctx EXCEPT !.proof = n, !.state = "PROOFS"]
  <1>0. n \in Nat
    BY CredentialAssumption
  <1>1. x \in Items /\ x.item = "proofLength" /\ x.size = n
    BY <1>0, ItemTypes DEF ItemNames
  <1>2. /\ currentInstruction = i /\ ~owed /\ ctx.state = "LENGTH_OF_PROOFS" /\ InsideInv
        /\ i = Update => ctx.update = "CREDENTIAL"
    BY InStateIs DEF LengthOfProofs
  <1>3. Len(hash) < MaxItems
    BY <1>2, InCredentialIs, CredentialAssumption DEF LengthOfProofs, ContextOK, CountInv, Contexts
  <1>4. Takes(x) /\ ctx' = c /\ currentInstruction' = i /\ owed' = FALSE
    BY <1>1, <1>2, <1>3, TakeIs DEF LengthOfProofs
  <1>5. /\ ctx'.proof = n /\ ctx'.state = "PROOFS"
        /\ ctx'.update = ctx.update /\ ctx'.credentials = ctx.credentials /\ ctx'.key = ctx.key
    BY <1>2, <1>3, <1>4 DEF ContextOK, Contexts
  <1> HIDE DEF x, c
  <1>6. known' = ReadItem(known, x) /\ known \in Knowledge
    BY <1>4, KnownTakes
  <1>7. known.next = "proofLength" /\ known.left = 0
    BY <1>2 DEF InsideInv, Expects
  <1>8. known'.next = "proof" /\ known'.left = n
    BY <1>0, <1>1, <1>6, ProofRead DEF Knowledge
  <1>9. InsideInv'
    BY <1>0, <1>1, <1>3, <1>5, <1>7, <1>8 DEF InsideInv, Expects
  <1>10. x.item \in Inner /\ Uses(x) <= known.left
    BY <1>1, <1>3, <1>7 DEF Inner, Uses
  <1>11. ctx.state \in CredentialStates /\ ctx'.state \in CredentialStates
    BY <1>2, <1>5 DEF CredentialStates
  <1>12. QED
    BY <1>1, <1>2, <1>4, <1>5, <1>7, <1>9, <1>10, <1>11, InsideKeeps

LEMMA VerificationKeyPlace ==
  ASSUME HashOK, ContextOK, PlaceInv, NEW i \in Ours, NEW p2 \in P2, VerificationKey(i, p2)
  PROVE  PlaceInv'
  <1> DEFINE x == Named("key")
             c == [ctx EXCEPT !.key = Len(hash) + 1, !.keys = @ - 1]
  <1>1. x \in Items /\ x.item = "key" /\ x.size = 0
    BY ItemTypes DEF ItemNames
  <1>2. /\ currentInstruction = i /\ ~owed /\ ctx.state = "VERIFICATION_KEY" /\ InsideInv
        /\ i = Update => ctx.update = "CREDENTIAL"
    BY InStateIs DEF VerificationKey
  <1>3. Len(hash) < MaxItems /\ ctx.keys > 0 /\ ctx.keys \in Nat
    BY InCredentialIs, CredentialAssumption, SMTT(40) DEF VerificationKey, ContextOK, Contexts
  <1>4. /\ hash' = Append(hash, x) /\ read' = read /\ early' = early
        /\ currentInstruction' = i
        /\ \/ /\ ctx.keys = 1 /\ ctx' = [c EXCEPT !.state = "SIGNATURE_THRESHOLD"]
              /\ owed' = FALSE
           \/ /\ ctx.keys > 1 /\ ctx' = [c EXCEPT !.showIntro = FALSE]
              /\ owed' = TRUE /\ screen' \in {"review", "key"}
    BY DEF VerificationKey, Take, AnswerNow, Ask
  <1>5. /\ c.key = Len(hash) + 1 /\ c.keys = ctx.keys - 1 /\ c.state = "VERIFICATION_KEY"
        /\ c.update = ctx.update /\ c.credentials = ctx.credentials
        /\ DOMAIN c = DOMAIN ctx /\ {"key", "keys", "state", "update", "credentials"} \subseteq DOMAIN c
    BY <1>2 DEF ContextOK, Contexts
  <1> HIDE DEF x, c
  <1>6. /\ ctx'.keys = ctx.keys - 1 /\ ctx'.key = Len(hash) + 1
        /\ ctx'.update = ctx.update /\ ctx'.credentials = ctx.credentials
        /\ ctx'.state = IF ctx.keys = 1 THEN "SIGNATURE_THRESHOLD" ELSE "VERIFICATION_KEY"
    BY <1>3, <1>4, <1>5
  <1>7. Takes(x)
    BY <1>1, <1>2, <1>3, <1>4 DEF Takes
  <1>8. known' = ReadItem(known, x) /\ known \in Knowledge
    BY <1>7, KnownTakes
  <1>9. known.next = "key" /\ known.left = ctx.keys
    BY <1>2 DEF InsideInv, Expects
  <1>10. /\ known'.next = (IF known.left > 1 THEN "key" ELSE "thresholds")
         /\ known'.left = known.left - 1
    BY <1>1, <1>8, KeyRead DEF Knowledge
  <1>11. InsideInv'
    BY <1>3, <1>6, <1>9, <1>10 DEF InsideInv, Expects
  <1>12. x.item \in Inner /\ Uses(x) <= known.left
    BY <1>1, <1>3, <1>9 DEF Inner, Uses
  <1>13. ctx.state \in CredentialStates /\ ctx'.state \in CredentialStates
    BY <1>2, <1>6 DEF CredentialStates
  <1>14. ctx'.state # "VERIFICATION_KEY" \/ owed'
    BY <1>4, <1>6
  <1>15. owed' => screen' \in {"review", "key"}
    BY <1>4
  <1>16. QED
    BY <1>1, <1>2, <1>4, <1>6, <1>7, <1>9, <1>11, <1>12, <1>13, <1>14, <1>15, InsideKeeps

\* The last piece of a proof ends a credential, a piece before it leaves the rest.
LEMMA ProofsIs ==
  ASSUME HashOK, ContextOK, PlaceInv, NEW i \in Ours, NEW p2 \in P2, Proofs(i, p2)
  PROVE  \E n \in Nat :
           /\ Takes(Proof("proof", n, p2)) /\ currentInstruction' = i /\ owed' = FALSE
           /\ n <= ctx.proof /\ known.next = "proof" /\ known.left = ctx.proof
           /\ known'.next = (IF known.left > n THEN "proof" ELSE "outside")
           /\ known'.left = known.left - n
           /\ \/ n < ctx.proof /\ ctx' = [ctx EXCEPT !.proof = @ - n]
              \/ n = ctx.proof /\ ctx' = credentialDone(p2)
  <1>1. currentInstruction = i /\ ~owed /\ ctx.state = "PROOFS" /\ InsideInv
    BY InStateIs DEF Proofs
  <1>2. Len(hash) < MaxItems /\ ctx.proof \in Nat /\ Piece \in Nat
    BY InCredentialIs, CredentialAssumption, SMTT(40) DEF Proofs, ContextOK, Contexts
  <1>3. PICK n \in Nat : \/ n < ctx.proof /\ n = Piece
                         \/ n = ctx.proof /\ ~(ctx.proof > Piece)
    BY <1>2
  <1> DEFINE x == Proof("proof", n, p2)
  <1>4. x \in Items /\ x.item = "proof" /\ x.size = n
    BY ItemTypes DEF ItemNames
  <1>5. /\ Take(i, x, ctx')
        /\ \/ n < ctx.proof /\ ctx' = [ctx EXCEPT !.proof = @ - n]
           \/ n = ctx.proof /\ ctx' = credentialDone(p2)
    <2>1. CASE n < ctx.proof /\ n = Piece
      BY <1>2, <2>1 DEF Proofs, Take
    <2>2. CASE n = ctx.proof /\ ~(ctx.proof > Piece)
      BY <2>2 DEF Proofs, Take
    <2>3. QED
      BY <1>3, <2>1, <2>2
  <1>6. n <= ctx.proof
    BY <1>2, <1>3
  <1> HIDE DEF x
  <1>7. Takes(x) /\ currentInstruction' = i /\ owed' = FALSE
    BY <1>1, <1>2, <1>4, <1>5, TakeIs
  <1>8. known' = ReadItem(known, x) /\ known \in Knowledge
    BY <1>7, KnownTakes
  <1>9. known.next = "proof" /\ known.left = ctx.proof
    BY <1>1 DEF InsideInv, Expects
  <1>10. /\ known'.next = (IF known.left > n THEN "proof" ELSE "outside")
         /\ known'.left = known.left - n
    BY <1>4, <1>8, ProofRead DEF Knowledge
  <1>11. QED
    BY <1>5, <1>6, <1>7, <1>9, <1>10 DEF x

\* Behind a whole credential of an update comes the next one, or the ids.
LEMMA CredentialEnds ==
  ASSUME HashOK, ContextOK, PlaceInv, currentInstruction = Update, currentInstruction' = Update,
         ctx.state = "PROOFS", NEW n \in Nat, NEW p2 \in P2, Takes(Proof("proof", n, p2)), owed' = FALSE,
         known.next = "proof", known.left = n, known'.next = "outside",
         ctx.update = "CREDENTIAL", ctx.credentials > 0,
         ctx' = [ctx EXCEPT !.credentials = @ - 1,
                     !.update = IF ctx.credentials = 1 THEN "ID_COUNT" ELSE "CREDENTIAL_INDEX",
                     !.state = IF ctx.credentials = 1 THEN "none" ELSE "VERIFICATION_KEYS_LENGTH"]
  PROVE  PlaceInv'
  <1> DEFINE x == Proof("proof", n, p2)
  <1>1. x \in Items /\ x.item = "proof" /\ x.size = n
    BY ItemTypes DEF ItemNames
  <1>2. /\ ctx'.credentials = ctx.credentials - 1 /\ ctx.credentials \in Nat
        /\ ctx'.update = (IF ctx.credentials = 1 THEN "ID_COUNT" ELSE "CREDENTIAL_INDEX")
        /\ ctx'.state = (IF ctx.credentials = 1 THEN "none" ELSE "VERIFICATION_KEYS_LENGTH")
    BY CredentialAssumption DEF ContextOK, Contexts
  <1> HIDE DEF x
  <1>3. Takes(x)
    BY DEF x
  <1>4. known' = ReadItem(known, x) /\ known \in Knowledge
    BY <1>3, KnownTakes
  <1>5. x.item \in Inner /\ Uses(x) <= known.left
    BY <1>1 DEF Inner, Uses
  <1>6. known.whole /\ UpdateInv
    BY Names3 DEF PlaceInv
  <1>7. SameAround(known, known') /\ known'.whole
    BY <1>1, <1>4, <1>5, <1>6, InsideRead
  <1>8. InsideInv'
    BY <1>2 DEF InsideInv
  <1>9. hash' # <<>> /\ hash'[1].item = "head" /\ known'.ordered
    BY <1>3, <1>6, <1>7, HeadTakes DEF UpdateInv, SameAround
  <1>10. /\ known'.credentials = ctx'.credentials
         /\ known'.then = IF ctx'.credentials > 0 THEN "index" ELSE "idCount"
    BY <1>2, <1>6, <1>7 DEF UpdateInv, SameAround
  <1>11. UpdateInv'
    BY <1>2, <1>9, <1>10 DEF UpdateInv, Between
  <1>12. QED
    BY <1>7, <1>8, <1>11, Names3 DEF PlaceInv

\* Behind one that a deployment takes for one of an update, nothing is asked of it.
LEMMA DeploymentClaims ==
  ASSUME HashOK, ContextOK, PlaceInv, currentInstruction = Deploy, currentInstruction' = Deploy,
         ctx.state = "PROOFS", NEW n \in Nat, Takes(Proof("proof", n, "credential")), owed' = FALSE,
         known.next = "proof", known.left = n, known'.next = "outside",
         ctx'.state \in {"none", "VERIFICATION_KEYS_LENGTH"}
  PROVE  PlaceInv'
  <1> DEFINE x == Proof("proof", n, "credential")
  <1>1. x \in Items /\ x.item = "proof" /\ x.size = n /\ x.p2 = "credential"
    BY ItemTypes DEF ItemNames, P2
  <1> HIDE DEF x
  <1>3. Takes(x)
    BY DEF x
  <1>4. known' = ReadItem(known, x) /\ known \in Knowledge
    BY <1>3, KnownTakes
  <1>5. x.item \in Inner /\ Uses(x) <= known.left
    BY <1>1 DEF Inner, Uses
  <1>6. known.whole /\ DeployInv
    BY Names3 DEF PlaceInv
  <1>7. known'.whole /\ claims'
    BY <1>1, <1>3, <1>4, <1>5, <1>6, InsideRead, ClaimsTake
  <1>8. InsideInv'
    BY DEF InsideInv
  <1>9. hash' # <<>> /\ hash'[1].item # "head"
    BY <1>1, <1>3, <1>6, HeadTakes DEF DeployInv
  <1>10. DeployInv' /\ LastKeyInv'
    BY <1>7, <1>9 DEF DeployInv, LastKeyInv
  <1>11. QED
    BY <1>7, <1>8, <1>10, Names3 DEF PlaceInv

LEMMA ProofsPlace ==
  ASSUME HashOK, ContextOK, PlaceInv, NEW i \in Ours, NEW p2 \in P2, Proofs(i, p2)
  PROVE  PlaceInv'
  <1>1. /\ currentInstruction = i /\ ~owed /\ ctx.state = "PROOFS"
        /\ i = Update => ctx.update = "CREDENTIAL" /\ ctx.credentials > 0 /\ p2 = "credential"
    BY InStateIs, InCredentialIs DEF Proofs, InCredential
  <1>2. PICK n \in Nat :
           /\ Takes(Proof("proof", n, p2)) /\ currentInstruction' = i /\ owed' = FALSE
           /\ n <= ctx.proof /\ known.next = "proof" /\ known.left = ctx.proof
           /\ known'.next = (IF known.left > n THEN "proof" ELSE "outside")
           /\ known'.left = known.left - n
           /\ \/ n < ctx.proof /\ ctx' = [ctx EXCEPT !.proof = @ - n]
              \/ n = ctx.proof /\ ctx' = credentialDone(p2)
    BY ProofsIs
  <1> DEFINE x == Proof("proof", n, p2)
             Another == p2 = "credential" /\ ctx.update = "CREDENTIAL" /\ ctx.credentials > 0
  <1>3. x \in Items /\ x.item = "proof" /\ x.size = n
    BY ItemTypes DEF ItemNames
  <1>4. ctx.proof \in Nat /\ x.item \in Inner /\ Uses(x) <= known.left
    BY <1>2, <1>3, CredentialAssumption DEF Inner, Uses, ContextOK, Contexts
  <1>5. ASSUME /\ ctx'.update = ctx.update /\ ctx'.credentials = ctx.credentials
               /\ ctx'.key = ctx.key /\ InsideInv'
               /\ ctx'.state = "PROOFS" \/ (ctx'.state = "NEW_OR_EXISTING" /\ i = Deploy)
        PROVE  PlaceInv'
    <2>1. Takes(x)
      BY <1>2
    <2> HIDE DEF x
    <2>2. ctx.state \in CredentialStates /\ (ctx'.state = "PROOFS" => ctx'.state \in CredentialStates)
      BY <1>1 DEF CredentialStates
    <2>3. ~owed' /\ x.item # "key" /\ x.item = known.next
      BY <1>2, <1>3
    <2>4. currentInstruction' = i /\ ctx.state # "VERIFICATION_KEY" /\ ctx'.state # "VERIFICATION_KEY"
      BY <1>1, <1>2, <1>5
    <2>5. QED
      BY <1>1, <1>4, <1>5, <2>1, <2>2, <2>3, <2>4, InsideKeeps
  <1>6. CASE n < ctx.proof /\ ctx' = [ctx EXCEPT !.proof = @ - n]
    <2>1. /\ ctx'.update = ctx.update /\ ctx'.credentials = ctx.credentials
          /\ ctx'.key = ctx.key /\ ctx'.state = "PROOFS" /\ ctx'.proof = ctx.proof - n
      BY <1>1, <1>6 DEF ContextOK, Contexts
    <2>2. known'.next = "proof" /\ known'.left = ctx'.proof
      BY <1>2, <1>4, <1>6, <2>1
    <2>3. InsideInv'
      BY <2>1, <2>2 DEF InsideInv, Expects
    <2>4. QED
      BY <1>5, <2>1, <2>3
  <1>7. CASE n = ctx.proof /\ ctx' = credentialDone(p2)
    <2>1. known'.next = "outside" /\ known.left = n
      BY <1>2, <1>4, <1>7
    <2>2. CASE ~Another
      <3>1. ctx' = [ctx EXCEPT !.state = "NEW_OR_EXISTING"] /\ i # Update
        BY <1>1, <1>7, <2>2 DEF credentialDone
      <3>2. /\ ctx'.update = ctx.update /\ ctx'.credentials = ctx.credentials
            /\ ctx'.key = ctx.key /\ ctx'.state = "NEW_OR_EXISTING" /\ i = Deploy
        BY <3>1, Names3 DEF ContextOK, Contexts
      <3>3. InsideInv'
        BY <2>1, <3>2 DEF InsideInv
      <3>4. QED
        BY <1>5, <3>2, <3>3
    <2>3. CASE Another
      <3>1. ctx' = [ctx EXCEPT !.credentials = @ - 1,
                     !.update = IF ctx.credentials = 1 THEN "ID_COUNT" ELSE "CREDENTIAL_INDEX",
                     !.state = IF ctx.credentials = 1 THEN "none" ELSE "VERIFICATION_KEYS_LENGTH"]
        BY <1>7, <2>3 DEF credentialDone
      <3>2. CASE i = Update
        BY <1>1, <1>2, <2>1, <2>3, <3>1, <3>2, CredentialEnds
      <3>3. CASE i = Deploy
        <4>1. ctx'.state \in {"none", "VERIFICATION_KEYS_LENGTH"}
          BY <3>1 DEF ContextOK, Contexts
        <4>2. QED
          BY <1>1, <1>2, <2>1, <2>3, <3>3, <4>1, DeploymentClaims
      <3>4. QED
        BY <3>2, <3>3, Names3
    <2>4. QED
      BY <2>2, <2>3
  <1>8. QED
    BY <1>2, <1>6, <1>7

\* What is around the credentials: what an item leaves to come.
LEMMA KeysRead ==
  ASSUME NEW k, NEW x, NEW q, q = ReadItem(k, x), x.item \in {"keys", "account"}
  PROVE  /\ x.item = "keys" =>
              q.then = (IF k.then = "start" THEN "account"
                        ELSE IF k.credentials > 0 THEN "index" ELSE "idCount")
         /\ x.item = "account" => q.then = k.then
         /\ q.accounts = (IF x.item = "account" THEN k.accounts + 1 ELSE k.accounts)
         /\ q.credentials = k.credentials
  BY DEF ReadItem, NextAround

LEMMA UpdateRead ==
  ASSUME NEW k, NEW x, NEW q, q = ReadItem(k, x)
  PROVE  /\ x.item = "index" => q.then = "keys" /\ q.credentials = k.credentials - 1
         /\ x.item = "idCount" =>
              q.then = (IF x.size > 0 THEN "id" ELSE "threshold") /\ q.ids = x.size
         /\ x.item = "id" => q.then = (IF k.ids > 1 THEN "id" ELSE "threshold") /\ q.ids = k.ids - 1
         /\ x.item = "threshold" => q.then = "end"
  BY DEF ReadItem, NextAround

LEMMA KeysLengthPlace ==
  ASSUME HashOK, ContextOK, PlaceInv, NEW i \in Ours, NEW p2 \in P2, NEW n \in 0..MaxKeys,
         KeysLength(i, p2, n)
  PROVE  PlaceInv'
  <1> DEFINE x == Counted("keys", n)
             c == [ctx EXCEPT !.keys = n, !.state = "VERIFICATION_KEY"]
  <1>0. n \in Nat
    BY CredentialAssumption
  <1>1. x \in Items /\ x.item = "keys" /\ x.size = n
    BY <1>0, ItemTypes DEF ItemNames, P2
  <1>2. /\ currentInstruction = i /\ ~owed /\ ctx.state = "VERIFICATION_KEYS_LENGTH"
        /\ InsideInv /\ known.whole
        /\ i = Update => ctx.update = "CREDENTIAL" /\ UpdateInv
        /\ i = Deploy => DeployInv /\ LastKeyInv
    BY InStateIs DEF KeysLength
  <1>3. Len(hash) < MaxItems
    BY InCredentialIs DEF KeysLength
  <1>4. Takes(x) /\ ctx' = c /\ currentInstruction' = i /\ owed' = FALSE
    BY <1>1, <1>2, <1>3, TakeIs DEF KeysLength
  <1>5. /\ ctx'.keys = n /\ ctx'.state = "VERIFICATION_KEY"
        /\ ctx'.update = ctx.update /\ ctx'.credentials = ctx.credentials
    BY <1>4 DEF ContextOK, Contexts
  <1> HIDE DEF x, c
  <1>6. known' = ReadItem(known, x) /\ known \in Knowledge
    BY <1>4, KnownTakes
  <1>7. known.next = "outside"
    BY <1>2 DEF InsideInv
  <1>8. x.item \notin Inner
    BY <1>1 DEF Inner
  <1>9. /\ known'.whole /\ (claims' <=> claims)
        /\ known'.ordered <=> known.ordered /\ InTurnAround(known, x)
    BY <1>1, <1>2, <1>4, <1>6, <1>7, <1>8, AroundRead, ClaimsTake
  <1>10. known'.next = "key" /\ known'.left = n
    BY <1>0, <1>1, <1>6, KeyRead DEF Knowledge
  <1>11. /\ known'.then = (IF known.then = "start" THEN "account"
                           ELSE IF known.credentials > 0 THEN "index" ELSE "idCount")
         /\ known'.accounts = known.accounts /\ known'.credentials = known.credentials
    BY <1>1, <1>6, KeysRead
  <1>12. InsideInv'
    BY <1>5, <1>10 DEF InsideInv, Expects
  <1>13. CASE i = Update
    <2>1. known.then = "keys" /\ known.credentials = ctx.credentials - 1 /\ known.ordered
      BY <1>2, <1>13 DEF UpdateInv
    <2>2. hash' # <<>> /\ hash'[1].item = "head"
      BY <1>2, <1>4, <1>13, HeadTakes DEF UpdateInv
    <2>3. known'.ordered
      BY <1>1, <1>9, <2>1 DEF InTurnAround
    <2>4. UpdateInv'
      BY <1>2, <1>4, <1>5, <1>11, <1>13, <2>1, <2>2, <2>3 DEF UpdateInv
    <2>5. QED
      BY <1>4, <1>9, <1>12, <1>13, <2>4, Names3 DEF PlaceInv
  <1>14. CASE i = Deploy
    <2>1. hash' # <<>> /\ hash'[1].item # "head"
      BY <1>1, <1>2, <1>4, <1>14, HeadTakes DEF DeployInv
    <2>2. ASSUME ~claims'
          PROVE  hash = <<>> /\ known'.ordered /\ known'.then = "account" /\ known'.accounts = 0
      <3>1. hash = <<>> /\ known.then = "start" /\ known.ordered /\ ~(known.accounts > 0)
        BY <1>2, <1>9, <1>14, <2>2 DEF DeployInv
      <3>2. known.accounts = 0
        BY <1>6, <3>1 DEF Knowledge
      <3>3. known'.ordered
        BY <1>1, <1>9, <3>1 DEF InTurnAround
      <3>4. QED
        BY <1>11, <3>1, <3>2, <3>3
    <2>3. DeployInv'
      BY <1>4, <1>5, <2>1, <2>2 DEF DeployInv
    <2>4. LastKeyInv'
      <3> SUFFICES ASSUME ~claims', NEW m \in At(hash', "key") PROVE FALSE
        BY DEF LastKeyInv
      <3>1. m \in At(<<>>, "key")
        BY <1>1, <1>4, <2>2, KeysTake
      <3>2. QED
        BY <3>1 DEF At
    <2>5. QED
      BY <1>4, <1>9, <1>12, <1>14, <2>3, <2>4, Names3 DEF PlaceInv
  <1>15. QED
    BY <1>13, <1>14, Names3

LEMMA AccountPlace ==
  ASSUME HashOK, ContextOK, PlaceInv, NEW i \in Ours, NEW p2 \in P2, NewOrExisting(i, p2)
  PROVE  PlaceInv'
  <1> DEFINE x == Named("account")
  <1>1. x \in Items /\ x.item = "account" /\ x.size = 0
    BY ItemTypes DEF ItemNames
  <1>2. /\ currentInstruction = i /\ ~owed /\ ctx.state = "NEW_OR_EXISTING"
        /\ InsideInv /\ known.whole
        /\ i = Update => UpdateInv
        /\ i = Deploy => DeployInv /\ LastKeyInv
    BY InStateIs DEF NewOrExisting
  <1>3. i = Deploy
    BY <1>2, Names3 DEF UpdateInv
  <1>4. /\ Takes(x) /\ ctx' = ctx /\ currentInstruction' = i
        /\ owed' = TRUE /\ screen' \in {"final", "finalIntro"}
    BY <1>1, <1>2, InCredentialIs DEF NewOrExisting, Takes, Ask
  <1> HIDE DEF x
  <1>5. known' = ReadItem(known, x) /\ known \in Knowledge /\ read' = read /\ early' = early
    BY <1>4, KnownTakes DEF Takes
  <1>6. known.next = "outside"
    BY <1>2 DEF InsideInv
  <1>7. x.item \notin Inner /\ x.item # "keys"
    BY <1>1 DEF Inner
  <1>8. /\ known'.whole /\ (claims' <=> claims) /\ known'.next = "outside"
        /\ known'.ordered <=> known.ordered /\ InTurnAround(known, x)
    BY <1>1, <1>2, <1>4, <1>5, <1>6, <1>7, AroundRead, ClaimsTake
  <1>9. known'.then = known.then /\ known'.accounts = known.accounts + 1
    BY <1>1, <1>5, KeysRead
  <1>10. InsideInv'
    BY <1>2, <1>4, <1>8 DEF InsideInv
  <1>11. hash' # <<>> /\ hash'[1].item # "head"
    BY <1>1, <1>2, <1>3, <1>4, HeadTakes DEF DeployInv
  <1>12. screen' \in FinalFlows /\ screen' # "threshold"
    BY <1>4 DEF FinalFlows
  <1>13. ASSUME ~claims'
         PROVE  /\ known'.ordered /\ known'.then = "account" /\ known'.accounts > 0
                /\ ~early => known'.accounts = 1
    <2>1. /\ known.then = "account" /\ known.ordered
          /\ ~early => known.accounts = 0
      BY <1>2, <1>3, <1>8, <1>13 DEF DeployInv
    <2>2. known'.ordered
      BY <1>1, <1>8, <2>1 DEF InTurnAround
    <2>3. known.accounts \in Nat
      BY <1>5 DEF Knowledge
    <2>4. QED
      BY <1>9, <2>1, <2>2, <2>3
  <1>14. DeployInv'
    BY <1>2, <1>4, <1>5, <1>11, <1>12, <1>13 DEF DeployInv
  <1>15. LastKeyInv'
    <2> SUFFICES ASSUME ~claims', ~early', NEW m \in At(hash', "key")
                 PROVE  m \in read' \/ m = ctx'.key
      BY <1>2, <1>4 DEF LastKeyInv
    <2>1. m \in At(hash, "key")
      BY <1>1, <1>4, KeysTake
    <2>2. QED
      BY <1>2, <1>3, <1>4, <1>5, <1>8, <2>1 DEF LastKeyInv
  <1>16. QED
    BY <1>3, <1>4, <1>8, <1>10, <1>14, <1>15, Names3 DEF PlaceInv

\* An item around the credentials of an update, in its turn.
LEMMA AroundKeeps ==
  ASSUME HashOK, PlaceInv, currentInstruction = Update, NEW x, Takes(x),
         x.item \notin Inner \cup {"keys"}, x.item = known.then, known.next = "outside"
  PROVE  /\ known' = ReadItem(known, x) /\ known \in Knowledge
         /\ known'.whole /\ known'.ordered /\ known'.next = "outside"
         /\ hash' # <<>> /\ hash'[1].item = "head"
  <1>1. known' = ReadItem(known, x) /\ known \in Knowledge /\ x \in Items
    BY KnownTakes DEF Takes
  <1>2. known.whole /\ UpdateInv
    BY Names3 DEF PlaceInv
  <1>3. known.ordered /\ InTurnAround(known, x) /\ hash # <<>> /\ hash[1].item = "head"
    BY <1>2 DEF UpdateInv, InTurnAround
  <1>4. known'.whole /\ known'.ordered /\ known'.next = "outside"
    BY <1>1, <1>2, <1>3, AroundRead
  <1>5. QED
    BY <1>1, <1>3, <1>4, HeadTakes

LEMMA UpdateFinds ==
  ASSUME PlaceInv, NEW s, s # "INITIAL", InUpdate(s)
  PROVE  /\ currentInstruction = Update /\ ~owed /\ ctx.update = s /\ Len(hash) < MaxItems
         /\ InsideInv /\ UpdateInv
  BY InUpdateIs, Names3 DEF PlaceInv

LEMMA IndexPlace ==
  ASSUME HashOK, ContextOK, PlaceInv, CredentialIndex
  PROVE  PlaceInv'
  <1> DEFINE x == Named("index")
             c == [ctx EXCEPT !.update = "CREDENTIAL"]
  <1>1. x \in Items /\ x.item = "index"
    BY ItemTypes DEF ItemNames, P2
  <1>2. /\ currentInstruction = Update /\ ~owed /\ ctx.update = "CREDENTIAL_INDEX"
        /\ Len(hash) < MaxItems /\ InsideInv /\ UpdateInv
    BY UpdateFinds DEF CredentialIndex
  <1>3. Takes(x) /\ ctx' = c /\ currentInstruction' = Update /\ owed' = FALSE
    BY <1>1, <1>2, Names3, TakeIs DEF CredentialIndex
  <1>4. /\ ctx'.update = "CREDENTIAL" /\ ctx'.state = ctx.state
        /\ ctx'.credentials = ctx.credentials
    BY <1>3 DEF ContextOK, Contexts
  <1> HIDE DEF x, c
  <1>5. /\ known.then = "index" /\ ctx.state = "VERIFICATION_KEYS_LENGTH"
        /\ known.credentials = ctx.credentials
    BY <1>2 DEF UpdateInv
  <1>6. known.next = "outside"
    BY <1>2, <1>5 DEF InsideInv
  <1>7. x.item \notin Inner \cup {"keys"}
    BY <1>1 DEF Inner
  <1>8. /\ known' = ReadItem(known, x) /\ known'.whole /\ known'.ordered /\ known'.next = "outside"
        /\ hash' # <<>> /\ hash'[1].item = "head"
    BY <1>1, <1>2, <1>3, <1>5, <1>6, <1>7, AroundKeeps
  <1>9. known'.then = "keys" /\ known'.credentials = known.credentials - 1
    BY <1>1, <1>8, UpdateRead
  <1>10. InsideInv' /\ UpdateInv'
    BY <1>3, <1>4, <1>5, <1>8, <1>9 DEF InsideInv, UpdateInv
  <1>11. QED
    BY <1>3, <1>8, <1>10, Names3 DEF PlaceInv

LEMMA IdCountPlace ==
  ASSUME HashOK, ContextOK, PlaceInv, NEW n \in 0..MaxCredentials, IdCount(n)
  PROVE  PlaceInv'
  <1> DEFINE x == Counted("idCount", n)
             c == [ctx EXCEPT !.ids = n, !.update = idsLeft(n)]
  <1>0. n \in Nat
    BY CredentialAssumption
  <1>1. x \in Items /\ x.item = "idCount" /\ x.size = n
    BY <1>0, ItemTypes DEF ItemNames, P2
  <1>2. /\ currentInstruction = Update /\ ~owed /\ ctx.update = "ID_COUNT"
        /\ Len(hash) < MaxItems /\ InsideInv /\ UpdateInv
    BY UpdateFinds DEF IdCount
  <1>3. Takes(x) /\ ctx' = c /\ currentInstruction' = Update /\ owed' = FALSE
    BY <1>1, <1>2, Names3, TakeIs DEF IdCount
  <1>4. /\ ctx'.update = (IF n = 0 THEN "THRESHOLD" ELSE "ID") /\ ctx'.ids = n
        /\ ctx'.state = ctx.state
    BY <1>3 DEF ContextOK, Contexts, idsLeft
  <1> HIDE DEF x, c
  <1>5. known.then = "idCount" /\ Between
    BY <1>2 DEF UpdateInv
  <1>6. known.next = "outside"
    BY <1>2, <1>5 DEF InsideInv, Between
  <1>7. x.item \notin Inner \cup {"keys"}
    BY <1>1 DEF Inner
  <1>8. /\ known' = ReadItem(known, x) /\ known'.whole /\ known'.ordered /\ known'.next = "outside"
        /\ hash' # <<>> /\ hash'[1].item = "head"
    BY <1>1, <1>2, <1>3, <1>5, <1>6, <1>7, AroundKeeps
  <1>9. known'.then = (IF n > 0 THEN "id" ELSE "threshold") /\ known'.ids = n
    BY <1>1, <1>8, UpdateRead
  <1>10. InsideInv' /\ UpdateInv'
    BY <1>0, <1>3, <1>4, <1>5, <1>8, <1>9 DEF InsideInv, UpdateInv, Between
  <1>11. QED
    BY <1>3, <1>8, <1>10, Names3 DEF PlaceInv

LEMMA IdPlace ==
  ASSUME HashOK, ContextOK, PlaceInv, CredentialId
  PROVE  PlaceInv'
  <1> DEFINE x == Named("id")
  <1>1. x \in Items /\ x.item = "id"
    BY ItemTypes DEF ItemNames, P2
  <1>2. /\ currentInstruction = Update /\ ~owed /\ ctx.update = "ID"
        /\ Len(hash) < MaxItems /\ InsideInv /\ UpdateInv /\ ctx.ids > 0 /\ ctx.ids \in Nat
    BY UpdateFinds, CredentialAssumption, SMTT(40) DEF CredentialId, ContextOK, CountInv, Contexts
  <1>3. /\ Takes(x) /\ currentInstruction' = Update /\ owed' = TRUE /\ screen' = "id"
        /\ ctx' = [ctx EXCEPT !.id = Len(hash) + 1, !.ids = @ - 1, !.update = idsLeft(ctx.ids - 1)]
    BY <1>1, <1>2, Names3 DEF CredentialId, Takes, Ask
  <1>4. /\ ctx'.update = (IF ctx.ids = 1 THEN "THRESHOLD" ELSE "ID") /\ ctx'.ids = ctx.ids - 1
        /\ ctx'.state = ctx.state
    BY <1>2, <1>3 DEF ContextOK, Contexts, idsLeft
  <1> HIDE DEF x
  <1>5. known.then = "id" /\ known.ids = ctx.ids /\ Between
    BY <1>2 DEF UpdateInv
  <1>6. known.next = "outside"
    BY <1>2, <1>5 DEF InsideInv, Between
  <1>7. x.item \notin Inner \cup {"keys"}
    BY <1>1 DEF Inner
  <1>8. /\ known' = ReadItem(known, x) /\ known'.whole /\ known'.ordered /\ known'.next = "outside"
        /\ hash' # <<>> /\ hash'[1].item = "head"
    BY <1>1, <1>2, <1>3, <1>5, <1>6, <1>7, AroundKeeps
  <1>9. known'.then = (IF ctx.ids > 1 THEN "id" ELSE "threshold") /\ known'.ids = ctx.ids - 1
    BY <1>1, <1>5, <1>8, UpdateRead
  <1>10. InsideInv' /\ UpdateInv'
    BY <1>2, <1>3, <1>4, <1>5, <1>8, <1>9 DEF InsideInv, UpdateInv, Between
  <1>11. screen' \notin FinalFlows
    BY <1>3 DEF FinalFlows
  <1>12. QED
    BY <1>3, <1>8, <1>10, <1>11, Names3 DEF PlaceInv

LEMMA ThresholdPlace ==
  ASSUME HashOK, ContextOK, PlaceInv, UpdateThreshold
  PROVE  PlaceInv'
  <1> DEFINE x == Named("threshold")
  <1>1. x \in Items /\ x.item = "threshold"
    BY ItemTypes DEF ItemNames, P2
  <1>2. /\ currentInstruction = Update /\ ~owed /\ ctx.update = "THRESHOLD"
        /\ Len(hash) < MaxItems /\ InsideInv /\ UpdateInv
    BY UpdateFinds DEF UpdateThreshold
  <1>3. /\ Takes(x) /\ currentInstruction' = Update /\ owed' = TRUE /\ screen' = "threshold"
        /\ ctx' = ctx
    BY <1>1, <1>2, Names3 DEF UpdateThreshold, Takes, Ask
  <1> HIDE DEF x
  <1>4. known.then = "threshold" /\ Between
    BY <1>2 DEF UpdateInv
  <1>5. known.next = "outside"
    BY <1>2, <1>4 DEF InsideInv, Between
  <1>6. x.item \notin Inner \cup {"keys"}
    BY <1>1 DEF Inner
  <1>7. /\ known' = ReadItem(known, x) /\ known'.whole /\ known'.ordered /\ known'.next = "outside"
        /\ hash' # <<>> /\ hash'[1].item = "head"
    BY <1>1, <1>2, <1>3, <1>4, <1>5, <1>6, AroundKeeps
  <1>8. known'.then = "end"
    BY <1>1, <1>7, UpdateRead
  <1>9. InsideInv' /\ UpdateInv'
    BY <1>2, <1>3, <1>4, <1>7, <1>8 DEF InsideInv, UpdateInv, Between
  <1>10. screen' \notin FinalFlows
    BY <1>3 DEF FinalFlows
  <1>11. QED
    BY <1>3, <1>7, <1>9, <1>10, Names3 DEF PlaceInv

LEMMA HeadRead ==
  ASSUME NEW n \in Nat, NEW q, q = ReadItem(Unread, Counted("head", n))
  PROVE  /\ q.whole /\ q.ordered /\ q.next = "outside"
         /\ q.then = (IF n > 0 THEN "index" ELSE "idCount") /\ q.credentials = n
  <1> DEFINE x == Counted("head", n)
  <1>1. x \in Items /\ x.item = "head" /\ x.size = n
    BY ItemTypes DEF ItemNames, P2
  <1>2. q = ReadItem(Unread, x)
    OBVIOUS
  <1> HIDE DEF x
  <1>3. x.item \notin Inner /\ InTurnAround(Unread, x) /\ Unread.whole /\ Unread.ordered
        /\ Unread.next = "outside"
    BY <1>1 DEF Inner, InTurnAround, Unread
  <1>4. q.whole /\ q.ordered /\ q.next = "outside"
    BY <1>1, <1>2, <1>3, NothingRead, AroundRead
  <1>5. q.then = (IF n > 0 THEN "index" ELSE "idCount") /\ q.credentials = n
    BY <1>1, <1>2 DEF ReadItem, NextAround
  <1>6. QED
    BY <1>4, <1>5

LEMMA UpdateInitialPlace ==
  ASSUME ContextOK, PlaceInv, NEW n \in 0..MaxCredentials, UpdateInitial(n)
  PROVE  PlaceInv'
  <1>0. n \in Nat
    BY CredentialAssumption
  <1>1. /\ currentInstruction \in {None, Update} /\ found(Update).update = "INITIAL"
        /\ hash' = <<Counted("head", n)>>
        /\ currentInstruction' = Update /\ owed' = TRUE /\ screen' = "initial"
    BY DEF UpdateInitial, Turn, Accepts, Begin, Ask
  <1>2. isInitialCall
    <2>1. ASSUME ~isInitialCall PROVE FALSE
      <3>1. found(Update) = ctx /\ currentInstruction = Update
        BY <1>1, <2>1 DEF found, isInitialCall
      <3>2. QED
        BY <1>1, <3>1 DEF PlaceInv, UpdateInv
    <2>2. QED
      BY <2>1
  <1> DEFINE f == found(Update)
             c == [f EXCEPT !.credentials = n,
                            !.update = IF n = 0 THEN "ID_COUNT" ELSE "CREDENTIAL_INDEX"]
  <1>3. f = [ctx EXCEPT !.state = "VERIFICATION_KEYS_LENGTH", !.update = "INITIAL"]
    BY <1>2, Names3 DEF found
  <1>4. f \in Contexts /\ f.state = "VERIFICATION_KEYS_LENGTH"
    BY <1>3 DEF ContextOK, Contexts, States, UpdateStates
  <1>5. ctx' = [c EXCEPT !.key = 0, !.id = 0]
    BY DEF UpdateInitial, Begin
  <1> HIDE DEF f
  <1>6. /\ ctx'.state = "VERIFICATION_KEYS_LENGTH" /\ ctx'.credentials = n
        /\ ctx'.update = (IF n = 0 THEN "ID_COUNT" ELSE "CREDENTIAL_INDEX")
    BY <1>4, <1>5 DEF Contexts
  <1> HIDE DEF c
  <1>7. known' = ReadItem(Unread, Counted("head", n))
    BY <1>0, <1>1, KnownHead DEF known
  <1>8. /\ known'.whole /\ known'.ordered /\ known'.next = "outside"
        /\ known'.then = (IF n > 0 THEN "index" ELSE "idCount") /\ known'.credentials = n
    BY <1>0, <1>7, HeadRead
  <1>9. hash' # <<>> /\ hash'[1].item = "head"
    BY <1>0, <1>1, ItemTypes DEF ItemNames, P2
  <1>10. InsideInv' /\ UpdateInv'
    BY <1>0, <1>1, <1>6, <1>8, <1>9 DEF InsideInv, UpdateInv, Between
  <1>11. screen' \notin FinalFlows
    BY <1>1 DEF FinalFlows
  <1>12. QED
    BY <1>1, <1>8, <1>10, <1>11, Names3 DEF PlaceInv

LEMMA DeployInitialPlace ==
  ASSUME ContextOK, PlaceInv, DeployInitial
  PROVE  PlaceInv'
  <1>1. /\ currentInstruction \in {None, Deploy} /\ found(Deploy).state = "INITIAL"
        /\ hash' = <<>> /\ early' = FALSE
        /\ currentInstruction' = Deploy /\ owed' = FALSE
    BY DEF DeployInitial, Turn, Accepts, Begin, AnswerNow
  <1>2. isInitialCall
    <2>1. ASSUME ~isInitialCall PROVE FALSE
      <3>1. found(Deploy) = ctx /\ currentInstruction = Deploy
        BY <1>1, <2>1 DEF found, isInitialCall
      <3>2. QED
        BY <1>1, <3>1, Names3 DEF PlaceInv, InsideInv
    <2>2. QED
      BY <2>1
  <1> DEFINE f == found(Deploy)
             c == [f EXCEPT !.state = "VERIFICATION_KEYS_LENGTH", !.showIntro = TRUE]
  <1>3. f = [ctx EXCEPT !.state = "INITIAL"]
    BY <1>2, Names3 DEF found
  <1>4. f \in Contexts
    BY <1>3 DEF ContextOK, Contexts, States
  <1>5. ctx' = [c EXCEPT !.key = 0, !.id = 0]
    BY DEF DeployInitial, Begin
  <1> HIDE DEF f
  <1>6. ctx'.state = "VERIFICATION_KEYS_LENGTH"
    BY <1>4, <1>5 DEF Contexts
  <1> HIDE DEF c
  <1>7. known' = Unread
    BY <1>1, KnownEmpty DEF known
  <1>8. /\ known'.whole /\ known'.ordered /\ known'.next = "outside" /\ known'.then = "start"
        /\ known'.accounts = 0
    BY <1>7 DEF Unread
  <1>9. InsideInv' /\ DeployInv'
    BY <1>1, <1>6, <1>8 DEF InsideInv, DeployInv
  <1>10. LastKeyInv'
    <2>1. At(hash, "key")' = {}
      BY <1>1 DEF At
    <2>2. QED
      BY <2>1 DEF LastKeyInv
  <1>11. QED
    BY <1>1, <1>8, <1>9, <1>10, Names3 DEF PlaceInv

\* A button that goes on leaves the transaction where it is.
LEMMA ButtonPlace ==
  ASSUME PlaceInv, early \in BOOLEAN,
         PressContinueInitial \/ PressReview \/ PressKey \/ PressArThreshold \/ PressId
  PROVE  PlaceInv'
  <1>1. Goes
    BY ButtonGoes
  <1>2. screen # "threshold" /\ (screen \in FinalFlows => early')
    BY DEF PressContinueInitial, PressReview, PressKey, PressArThreshold, PressId, FinalFlows
  <1>3. /\ currentInstruction' = currentInstruction /\ hash' = hash /\ ctx' = ctx
        /\ read \subseteq read' /\ owed' = FALSE
        /\ ~early' => ~early /\ (screen \in {"review", "key"} => ctx.key \in read')
    <2>1. early' = early \/ early' = TRUE
      BY <1>1 DEF Goes
    <2>2. ASSUME ~early' PROVE ~early /\ (screen \in {"review", "key"} => ctx.key \in read')
      <3>1. early' = early /\ early' # TRUE
        BY <2>1, <2>2
      <3>2. QED
        BY <1>1, <2>2, <3>1 DEF Goes
    <2>3. QED
      BY <1>1, <2>2 DEF Goes
  <1>4. known' = known /\ claims' = claims
    BY <1>3 DEF known, claims
  <1>5. InsideInv => InsideInv'
    BY <1>3, <1>4 DEF InsideInv, Expects
  <1>6. UpdateInv => UpdateInv'
    BY <1>2, <1>3, <1>4 DEF UpdateInv, Between
  <1>7. DeployInv => DeployInv'
    BY <1>2, <1>3, <1>4 DEF DeployInv
  <1>8. LastKeyInv => LastKeyInv'
    <2> SUFFICES ASSUME LastKeyInv, ~claims', ~early', NEW m \in At(hash', "key")
                 PROVE  m \in read' \/ (m = ctx'.key /\ ctx'.state # "VERIFICATION_KEY")
      BY DEF LastKeyInv
    <2>1. \/ m \in read
          \/ m = ctx.key /\ (ctx.state # "VERIFICATION_KEY" \/ screen \in {"review", "key"})
      BY <1>3, <1>4 DEF LastKeyInv
    <2>2. QED
      BY <1>3, <2>1
  <1>9. QED
    BY <1>3, <1>4, <1>5, <1>6, <1>7, <1>8 DEF PlaceInv

LEMMA PlaceEnds == ASSUME currentInstruction' \notin Ours PROVE PlaceInv'
  BY Names3 DEF PlaceInv

LEMMA EndsPlace == ASSUME Ends PROVE currentInstruction' \notin Ours
  <1> USE Names3 DEF uiIdle, Refuse
  <1>1. ASSUME Restart PROVE currentInstruction' \notin Ours
    BY <1>1 DEF Restart, DeviceRestart
  <1>2. CASE PressSign \/ PressSignFails \/ PressDecline
    BY <1>2 DEF PressSign, PressSignFails, PressDecline, PressAnswer, PressThrow
  <1>3. CASE PowerLost \/ PressStray \/ PressQuit
    BY <1>1, <1>3 DEF PowerLost, PressStray, PressQuit
  <1>4. CASE Dispatch
    BY <1>4 DEF Dispatch, BadCommand, SwitchInstruction
  <1>5. ASSUME NEW i \in Ours, InitialRefused(i) \/ OutOfTurn(i) PROVE currentInstruction' \notin Ours
    BY <1>5 DEF InitialRefused, OutOfTurn
  <1>6. ASSUME NEW i \in Ours, NEW p2 \in P2, ThresholdTooWide(i, p2)
        PROVE  currentInstruction' \notin Ours
    BY <1>1, <1>6 DEF ThresholdTooWide
  <1>7. ASSUME NEW update, NEW n, NEW intro, OtherInstruction(update, n, intro)
        PROVE  currentInstruction' \notin Ours
    BY <1>7 DEF OtherInstruction, AnswerNow
  <1>8. QED
    BY <1>1, <1>2, <1>3, <1>4, <1>5, <1>6, <1>7 DEF Ends

LEMMA PlaceNext ==
  ASSUME HashOK, ContextOK, PlaceInv, early \in BOOLEAN, [Next]_vars PROVE PlaceInv'
  <1>1. ASSUME NEW i \in Ours, NEW p2 \in P2, ItemCommand(i, p2) PROVE PlaceInv'
    <2>1. CASE NewOrExistingRefused(i, p2)
      <3>1. currentInstruction' = None
        BY <2>1 DEF NewOrExistingRefused, Refuse
      <3>2. QED
        BY <3>1, Names3, PlaceEnds
    <2>2. QED
      BY <1>1, <2>1, KeysLengthPlace, VerificationKeyPlace, SignatureThresholdPlace,
         CredentialDatesPlace, ArIdentityPlace, AttributeTagPlace, AttributeValuePlace,
         LengthOfProofsPlace, ProofsPlace, AccountPlace DEF ItemCommand
  <1>2. CASE UpdateCommand
    BY <1>2, IndexPlace, IdCountPlace, IdPlace, ThresholdPlace DEF UpdateCommand
  <1>3. CASE FirstCommand
    BY <1>3, UpdateInitialPlace, DeployInitialPlace DEF FirstCommand
  <1>4. CASE PressContinueInitial \/ PressReview \/ PressKey \/ PressArThreshold \/ PressId
    BY <1>4, ButtonPlace
  <1>5. CASE Ends
    BY <1>5, EndsPlace, PlaceEnds
  <1>6. CASE UNCHANGED vars
    <2>1. known' = known /\ claims' = claims /\ At(hash, "key")' = At(hash, "key")
      BY <1>6 DEF vars, known, claims
    <2>2. QED
      BY <1>6, <2>1
      DEF vars, deviceVars, PlaceInv, InsideInv, Expects, UpdateInv, Between, DeployInv, LastKeyInv
  <1>7. QED
    BY <1>1, <1>2, <1>3, <1>4, <1>5, <1>6, NextSteps DEF Steps

(***************************************************************************)
(* The signature.                                                          *)
(***************************************************************************)
\* A frame that is no signature.
Plain == {Success, Refusal, Rejection, NoReply}

LEMMA RepliesPlain == ASSUME [Next]_vars PROVE reply' = reply \/ reply' \in Plain \/ PressSign
  <1>1. ASSUME NEW i, NEW flow, AnswerNow(i) \/ Ask(i, flow) \/ Refuse
        PROVE  reply' = reply \/ reply' \in Plain
    BY <1>1 DEF AnswerNow, Ask, Refuse, Plain
  <1>2. ASSUME PressContinue \/ PressAnswer(Rejection) \/ PressThrow
        PROVE  reply' = reply \/ reply' \in Plain
    BY <1>2 DEF PressContinue, PressAnswer, PressThrow, Plain
  <1>3. ASSUME Restart PROVE reply' = reply \/ reply' \in Plain
    BY <1>3, SMTT(40) DEF Restart, DeviceRestart, Plain
  <1>4. ASSUME NEW i, NEW p2, ItemCommand(i, p2) PROVE reply' = reply \/ reply' \in Plain
    BY <1>1, <1>4
    DEF ItemCommand, KeysLength, VerificationKey, SignatureThreshold, CredentialDates, ArIdentity,
        AttributeTag, AttributeValue, LengthOfProofs, Proofs, NewOrExisting, NewOrExistingRefused,
        Take
  <1>5. CASE UpdateCommand
    BY <1>1, <1>5 DEF UpdateCommand, CredentialIndex, CredentialId, UpdateThreshold, IdCount, Take
  <1>6. CASE FirstCommand
    BY <1>1, <1>6 DEF FirstCommand, DeployInitial, UpdateInitial
  <1>7. CASE PressContinueInitial \/ PressReview \/ PressKey \/ PressArThreshold \/ PressId
    BY <1>2, <1>7
    DEF PressContinueInitial, PressReview, PressKey, PressArThreshold, PressId
  <1>8. CASE Ends
    <2>1. ASSUME NEW update, NEW n, NEW intro, OtherInstruction(update, n, intro)
          PROVE  reply' = reply \/ reply' \in Plain
      BY <1>1, <2>1 DEF OtherInstruction, Plain
    <2>2. Refuse => reply' = reply \/ reply' \in Plain
      BY <1>1
    <2>3. QED
      BY <1>2, <1>3, <1>8, <2>1, <2>2
      DEF Ends, PressSignFails, PressDecline, PressStray, PressQuit, PowerLost, Dispatch, BadCommand,
          SwitchInstruction, InitialRefused, OutOfTurn, ThresholdTooWide
  <1>9. CASE UNCHANGED vars
    BY <1>9 DEF vars, deviceVars
  <1>10. QED
    BY <1>4, <1>5, <1>6, <1>7, <1>8, <1>9, NextSteps DEF Steps

\* The signing step shows no id and no key of the middle: what is not paged through
\* could only be the last item, which is neither.
LEMMA SignsReviewed ==
  ASSUME HashOK, ReviewInv, DialogInv, early \in BOOLEAN, PressSign PROVE UpdateIsReviewed'
  <1>1. /\ owed /\ screen \in Signing /\ reply' = Signature
    BY DEF PressSign, PressAnswer
  <1>2. reply'.over = hash /\ reply'.early = early /\ read \subseteq reply'.read
    BY <1>1 DEF Signature
  <1>3. CASE hash = Spent
    BY <1>2, <1>3 DEF UpdateIsReviewed, Signed
  <1>4. CASE hash # Spent
    <2>1. /\ Len(hash) \in Nat /\ Len(hash) > 0
          /\ hash[Len(hash)].item \in {"account", "threshold"}
          /\ IdsInv /\ KeysInv
      BY <1>1, <1>4, LenProperties DEF DialogInv, ReviewInv, HashOK
    <2>2. screen \notin {"id", "review", "key"}
      BY <1>1 DEF Signing, FinalFlows
    <2>3. \A k \in 1..Len(hash) : hash[k].item = "id" => k \in reply'.read
      BY <1>2, <2>1, <2>2 DEF IdsInv
    <2>4. ASSUME ~early, NEW k \in 1..Len(hash), hash[k].item = "key", hash[k + 1].item = "key"
          PROVE  k \in reply'.read
      <3>1. k # Len(hash)
        BY <2>1, <2>4
      <3>2. QED
        BY <1>2, <2>1, <2>2, <2>4, <3>1 DEF KeysInv
    <2>5. QED
      BY <1>2, <2>3, <2>4 DEF UpdateIsReviewed, At
  <1>5. QED
    BY <1>3, <1>4

\* A signature comes from a dialog that ends the transaction: of an update behind its
\* threshold, of a deployment behind an account.
SignedIsRight == SignedCredentialsAreWhole /\ SignedIsOneTransaction /\ DeploymentIsReviewed

LEMMA SignsOne ==
  ASSUME HashOK, DialogInv, PlaceInv, early \in BOOLEAN, PressSign PROVE SignedIsRight'
  <1>1. owed /\ screen \in Signing /\ reply' = Signature
    BY DEF PressSign, PressAnswer
  <1>2. reply'.over = hash /\ reply'.early = early
    BY <1>1 DEF Signature
  <1>3. CASE hash = Spent
    BY <1>2, <1>3
    DEF SignedIsRight, SignedCredentialsAreWhole, SignedIsOneTransaction, DeploymentIsReviewed, Signed
  <1>4. CASE hash # Spent
    <2>1. Known(reply.over)' = known
      BY <1>2 DEF known
    <2>2. currentInstruction \in {Deploy, Update} /\ known.whole /\ InsideInv
      BY <1>1, <1>4, Names3 DEF DialogInv, PlaceInv
    <2>3. screen = "threshold" \/ screen \in FinalFlows
      BY <1>1 DEF Signing
    <2>4. CASE currentInstruction = Update
      <3>1. UpdateInv /\ screen = "threshold"
        BY <1>1, <2>3, <2>4 DEF PlaceInv
      <3>2. known.next = "outside" /\ IsUpdate(hash) /\ UpdateTransaction(known)
        BY <1>1, <2>2, <3>1 DEF UpdateInv, Between, InsideInv, IsUpdate, UpdateTransaction
      <3>3. IsUpdate(reply.over)'
        BY <1>2, <3>2 DEF IsUpdate
      <3>4. ~IsDeployment(reply.over)'
        BY <3>3 DEF IsDeployment
      <3>5. QED
        BY <2>1, <2>2, <3>2, <3>3, <3>4
        DEF SignedIsRight, SignedCredentialsAreWhole, SignedIsOneTransaction, DeploymentIsReviewed,
            UpdateTransaction
    <2>5. CASE currentInstruction = Deploy
      <3>1. DeployInv /\ LastKeyInv /\ screen \in FinalFlows /\ ctx.state = "NEW_OR_EXISTING"
        BY <1>1, <2>3, <2>5 DEF PlaceInv, DeployInv
      <3>2. known.next = "outside"
        BY <2>2, <3>1 DEF InsideInv
      <3>3. ~IsUpdate(hash)
        <4>1. hash # <<>>
          BY <1>1, <1>4, <2>5, LenProperties, EmptySeq, Names3 DEF DialogInv
        <4>2. QED
          BY <3>1, <4>1 DEF DeployInv, IsUpdate
      <3>4. ~claims => DeploymentTransaction(known)
        BY <1>1, <3>1 DEF DeployInv, DeploymentTransaction
      <3>5. ASSUME ~claims, ~early
            PROVE  At(hash, "key") \subseteq reply'.read /\ known.accounts = 1
        <4>1. reply'.read = read \cup {ctx.key}
          BY <1>1, <3>1 DEF Signature
        <4>2. \A n \in At(hash, "key") : n \in read \/ n = ctx.key
          BY <3>1, <3>5 DEF LastKeyInv
        <4>3. known.accounts = 1
          BY <1>1, <3>1, <3>5 DEF DeployInv
        <4>4. QED
          BY <4>1, <4>2, <4>3
      <3>6. ~IsUpdate(reply.over)' /\ (IsDeployment(reply.over)' <=> ~claims)
        BY <1>2, <2>1, <3>3 DEF IsUpdate, IsDeployment, claims, Claims
      <3>7. At(reply.over, "key")' = At(hash, "key")
        BY <1>2 DEF At
      <3>8. SignedCredentialsAreWhole'
        BY <2>1, <2>2, <3>2 DEF SignedCredentialsAreWhole
      <3>9. SignedIsOneTransaction'
        BY <2>1, <3>4, <3>6 DEF SignedIsOneTransaction, DeploymentTransaction
      <3>10. DeploymentIsReviewed'
        BY <1>2, <2>1, <3>5, <3>6, <3>7 DEF DeploymentIsReviewed
      <3>11. QED
        BY <3>8, <3>9, <3>10 DEF SignedIsRight
    <2>6. QED
      BY <2>2, <2>4, <2>5
  <1>5. QED
    BY <1>3, <1>4

LEMMA SignedNext ==
  ASSUME HashOK, ReviewInv, DialogInv, PlaceInv, early \in BOOLEAN, UpdateIsReviewed, SignedIsRight,
         [Next]_vars
  PROVE  UpdateIsReviewed' /\ SignedIsRight'
  <1>1. CASE reply' = reply
    <2>1. SignedIsRight'
      BY <1>1
      DEF SignedIsRight, SignedCredentialsAreWhole, SignedIsOneTransaction, DeploymentIsReviewed,
          UpdateTransaction, DeploymentTransaction, IsUpdate, IsDeployment, Signed
    <2>2. UpdateIsReviewed'
      BY <1>1 DEF UpdateIsReviewed, Signed, IsUpdate
    <2>3. QED
      BY <2>1, <2>2
  <1>2. CASE reply' \in Plain
    <2>1. reply'.kind # "signature"
      BY <1>2 DEF Plain, Success, Refusal, Rejection, NoReply
    <2>2. QED
      BY <2>1
      DEF UpdateIsReviewed, SignedIsRight, SignedCredentialsAreWhole, SignedIsOneTransaction,
          DeploymentIsReviewed, Signed
  <1>3. QED
    BY <1>1, <1>2, RepliesPlain, SignsReviewed, SignsOne

CredentialInv ==
  /\ ControlOK /\ HashOK /\ ContextOK /\ ReadOK /\ early \in BOOLEAN
  /\ ReviewInv /\ DialogInv /\ PlaceInv /\ UpdateIsReviewed /\ SignedIsRight

LEMMA CredentialInit == Init => CredentialInv
  <1> SUFFICES ASSUME Init PROVE CredentialInv
    OBVIOUS
  <1> USE DEF Init, DeviceInit
  <1>1. /\ 0 \in 0..MaxCredentials /\ 0 \in 0..MaxKeys /\ 0 \in 0..MaxList /\ 0 \in 0..MaxProof
        /\ 0 \in 0..MaxItems /\ 0 <= MaxItems
    BY CredentialAssumption
  <1>2. ControlOK
    BY DEF ControlOK
  <1>3. HashOK
    <2>1. <<>> \in Seq(Items) /\ Len(<<>>) = 0
      OBVIOUS
    <2>2. QED
      BY <1>1, <2>1 DEF HashOK
  <1>4. ContextOK
    BY <1>1 DEF NoContext, ContextOK, CountInv, Contexts, States, UpdateStates
  <1>5. ReadOK /\ early \in BOOLEAN
    BY DEF ReadOK
  <1>6. ReviewInv /\ DialogInv /\ PlaceInv
    BY Names3 DEF ReviewInv, DialogInv, PlaceInv
  <1>7. UpdateIsReviewed /\ SignedIsRight
    BY DEF UpdateIsReviewed, SignedIsRight, SignedCredentialsAreWhole, SignedIsOneTransaction,
           DeploymentIsReviewed, Signed, NoReply
  <1>8. QED
    BY <1>2, <1>3, <1>4, <1>5, <1>6, <1>7 DEF CredentialInv

LEMMA CredentialCorrect == Spec => []CredentialInv
  <1>1. Init => CredentialInv
    BY CredentialInit
  <1>2. CredentialInv /\ [Next]_vars => CredentialInv'
    BY ControlNext, HashNext, ContextNext, ReadNext, ReviewNext, PlaceNext, SignedNext
    DEF CredentialInv
  <1>3. QED
    BY <1>1, <1>2, PTL DEF Spec

\* Type correctness for all values of the constants: no countdown of credentials, ids,
\* keys, revokers, attributes or proof bytes passes zero, although an update runs the
\* handler of a deployment on its own context and every first command but its own
\* leaves the counts of the transaction before (signCredentialDeployment.c).
THEOREM CredentialTypeCorrect == Spec => []TypeOK
  <1>1. CredentialInv => TypeOK
    BY TypeIs DEF CredentialInv
  <1>2. QED
    BY <1>1, CredentialCorrect, PTL

\* Every credential id that a signed update removes has been paged through, and every
\* key it adds but the last of its credential, for a user who presses no step that
\* answers early (handleSignUpdateCredential, processNextVerificationKey).
THEOREM UpdateReviewed == Spec => []UpdateIsReviewed
  <1>1. CredentialInv => UpdateIsReviewed
    BY DEF CredentialInv
  <1>2. QED
    BY <1>1, CredentialCorrect, PTL

\* Every credential under a signature is whole, whichever of the two handlers ran that
\* of the deployment (handleSignCredentialDeployment) and however commands, errors and
\* other instructions came in between.
THEOREM CredentialsWhole == Spec => []SignedCredentialsAreWhole
  <1>1. CredentialInv => SignedCredentialsAreWhole
    BY DEF CredentialInv, SignedIsRight
  <1>2. QED
    BY <1>1, CredentialCorrect, PTL

\* A signature covers one update or one deployment, with as many credentials and removed
\* ids as an update announces (handleSignUpdateCredential).
THEOREM OneTransaction == Spec => []SignedIsOneTransaction
  <1>1. CredentialInv => SignedIsOneTransaction
    BY DEF CredentialInv, SignedIsRight
  <1>2. QED
    BY <1>1, CredentialCorrect, PTL

\* Every key of a signed deployment has been paged through, the last one in the final
\* flow, for a user who presses no step that answers early; it is for one account.
THEOREM DeploymentReviewed == Spec => []DeploymentIsReviewed
  <1>1. CredentialInv => DeploymentIsReviewed
    BY DEF CredentialInv, SignedIsRight
  <1>2. QED
    BY <1>1, CredentialCorrect, PTL
-----------------------------------------------------------------------------
(***************************************************************************)
(* The refinement.  The instruction implements ReviewedSigning, for each   *)
(* step is one of its steps.  PartsInv counts: the parts hashed and those  *)
(* to come are the parts announced, and none is paged through but those    *)
(* whose page has been left.                                               *)
(***************************************************************************)
\* One item announces parts: those hashed, and n to come.
Counting(count, part, n) ==
  \E c : At(hash, count) = {c} /\ hash[c].size = n + Cardinality(At(hash, part))

PagesInv ==
  /\ read \subseteq 0..Len(hash)
  /\ ctx.key # 0 => ctx.key \in At(hash, "key")
  /\ owed /\ screen = "id" => ctx.id \in At(hash, "id") \ read
  /\ owed /\ screen \in {"review", "key"} => ctx.state = "VERIFICATION_KEY" /\ ctx.keys > 0

IdsCounted ==
  /\ ctx.update = "ID"        => Counting("idCount", "id", ctx.ids)
  /\ ctx.update = "THRESHOLD" => Counting("idCount", "id", 0)
  /\ ctx.update \notin {"ID", "THRESHOLD"} => At(hash, "idCount") = {} /\ At(hash, "id") = {}

\* The last key is in nobody's pages until the final flow.
KeysCounted ==
  hash # <<>> =>
    /\ Counting("keys", "key", IF ctx.state = "VERIFICATION_KEY" THEN ctx.keys ELSE 0)
    /\ ctx.state # "VERIFICATION_KEY" \/ (owed /\ screen \in {"review", "key"}) =>
         ctx.key \in At(hash, "key") \ read

PartsInv ==
  currentInstruction \in Ours =>
    /\ PagesInv
    /\ currentInstruction = Update => IdsCounted
    /\ currentInstruction = Deploy /\ ~claims /\ ~early => KeysCounted

\* What the command that takes in x does to the countdowns of parts and their pages.
CountsNone(x) ==
  /\ x.item \notin {"keys", "key", "idCount", "id"} /\ ctx'.key = ctx.key
  /\ owed' => screen' \in Signing
  /\ currentInstruction = Deploy =>
       /\ ctx.state \notin {"VERIFICATION_KEYS_LENGTH", "VERIFICATION_KEY"}
       /\ ctx'.state # "VERIFICATION_KEY"
  /\ currentInstruction = Update =>
       \/ ctx.update = "THRESHOLD" /\ ctx'.update = "THRESHOLD"
       \/ ctx.update \notin {"ID", "THRESHOLD"} /\ ctx'.update \notin {"ID", "THRESHOLD"}

CountsKeys(x) ==
  /\ x.item = "keys" /\ x.size \in 0..MaxKeys /\ owed' = FALSE
  /\ ctx.state = "VERIFICATION_KEYS_LENGTH" /\ ctx'.state = "VERIFICATION_KEY"
  /\ ctx'.key = ctx.key /\ ctx'.keys = x.size
  /\ currentInstruction = Update => ctx.update = "CREDENTIAL" /\ ctx'.update = "CREDENTIAL"

CountsKey(x) ==
  /\ x.item = "key" /\ ctx.state = "VERIFICATION_KEY"
  /\ ctx'.key = Len(hash) + 1 /\ ctx'.keys = ctx.keys - 1
  /\ \/ ctx.keys = 1 /\ ctx'.state = "SIGNATURE_THRESHOLD" /\ owed' = FALSE
     \/ /\ ctx.keys > 1 /\ ctx'.state = "VERIFICATION_KEY"
        /\ owed' = TRUE /\ screen' \in {"review", "key"}
  /\ currentInstruction = Update => ctx.update = "CREDENTIAL" /\ ctx'.update = "CREDENTIAL"

CountsIds(x) ==
  /\ x.item = "idCount" /\ x.size \in 0..MaxCredentials /\ owed' = FALSE
  /\ currentInstruction = Update /\ ctx.update = "ID_COUNT"
  /\ ctx'.key = ctx.key /\ ctx'.ids = x.size /\ ctx'.update = idsLeft(x.size)

CountsId(x) ==
  /\ x.item = "id" /\ owed' = TRUE /\ screen' = "id"
  /\ currentInstruction = Update /\ ctx.update = "ID"
  /\ ctx'.key = ctx.key /\ ctx'.id = Len(hash) + 1
  /\ ctx'.ids = ctx.ids - 1 /\ ctx'.update = idsLeft(ctx.ids - 1)

Counts(x) ==
  /\ Takes(x) /\ currentInstruction' = currentInstruction
  /\ CountsNone(x) \/ CountsKeys(x) \/ CountsKey(x) \/ CountsIds(x) \/ CountsId(x)

LEMMA PlainCounts ==
  ASSUME ContextOK, PlaceInv, NEW i \in Ours, NEW p2 \in P2, NEW s \in States, NEW x \in Items, NEW c,
         InCredential(i, p2, s), s \notin {"INITIAL", "VERIFICATION_KEYS_LENGTH", "VERIFICATION_KEY"},
         Take(i, x, c), x.item \notin {"keys", "key", "idCount", "id"},
         c.key = ctx.key, c.state # "VERIFICATION_KEY", c.update \notin {"ID", "THRESHOLD"} \/ i = Deploy
  PROVE  Counts(x)
  <1>1. /\ currentInstruction = i /\ ~owed /\ ctx.state = s /\ Len(hash) < MaxItems
        /\ i = Update => ctx.update = "CREDENTIAL"
    BY InCredentialIs
  <1>2. Takes(x) /\ ctx' = c /\ currentInstruction' = i /\ owed' = FALSE
    BY <1>1, TakeIs
  <1>3. CountsNone(x)
    BY <1>1, <1>2, Names3 DEF CountsNone
  <1>4. QED
    BY <1>1, <1>2, <1>3 DEF Counts

LEMMA CredentialCountsParts ==
  ASSUME ContextOK, PlaceInv, NEW i \in Ours, NEW p2 \in P2, ItemCommand(i, p2),
         ~NewOrExistingRefused(i, p2)
  PROVE  \E x : Counts(x)
  <1>0. /\ MaxKeys \in Nat /\ MaxList \in Nat /\ MaxProof \in Nat /\ Piece \in Nat
        /\ ctx.proof \in Nat
    BY CredentialAssumption DEF ContextOK, Contexts
  <1>1. \A name \in ItemNames : Named(name) \in Items /\ Named(name).item = name
    BY ItemTypes
  <1>2. \A name \in ItemNames, n \in Nat :
          /\ Counted(name, n) \in Items /\ Counted(name, n).item = name /\ Counted(name, n).size = n
          /\ Proof(name, n, p2) \in Items /\ Proof(name, n, p2).item = name
    BY ItemTypes
  <1>3. {"keys", "key", "thresholds", "ar", "dates", "tag", "value", "proofLength", "proof", "account"}
          \subseteq ItemNames
    BY DEF ItemNames
  <1>4. ctx \in Contexts
    BY DEF ContextOK
  <1>5. ASSUME NEW n \in 0..MaxKeys, KeysLength(i, p2, n) PROVE Counts(Counted("keys", n))
    <2> DEFINE x == Counted("keys", n)
               c == [ctx EXCEPT !.keys = n, !.state = "VERIFICATION_KEY"]
    <2>1. x \in Items /\ x.item = "keys" /\ x.size = n
      BY <1>0, <1>2, <1>3
    <2>2. /\ currentInstruction = i /\ ~owed /\ ctx.state = "VERIFICATION_KEYS_LENGTH"
          /\ Len(hash) < MaxItems
          /\ i = Update => ctx.update = "CREDENTIAL"
      BY <1>5, InCredentialIs DEF KeysLength
    <2>3. Take(i, x, c)
      BY <1>5 DEF KeysLength
    <2>4. /\ c.key = ctx.key /\ c.keys = n /\ c.state = "VERIFICATION_KEY" /\ c.update = ctx.update
      BY <1>4 DEF Contexts
    <2> HIDE DEF x, c
    <2>5. Takes(x) /\ ctx' = c /\ currentInstruction' = i /\ owed' = FALSE
      BY <2>1, <2>2, <2>3, TakeIs
    <2>6. CountsKeys(x)
      BY <2>1, <2>2, <2>4, <2>5 DEF CountsKeys
    <2>7. QED
      BY <2>2, <2>5, <2>6 DEF Counts, x
  <1>6. ASSUME VerificationKey(i, p2) PROVE Counts(Named("key"))
    <2> DEFINE x == Named("key")
               c == [ctx EXCEPT !.key = Len(hash) + 1, !.keys = @ - 1]
    <2>1. x \in Items /\ x.item = "key"
      BY <1>1, <1>3
    <2>2. /\ currentInstruction = i /\ ~owed /\ ctx.state = "VERIFICATION_KEY"
          /\ Len(hash) < MaxItems
          /\ i = Update => ctx.update = "CREDENTIAL"
      BY <1>6, InCredentialIs DEF VerificationKey
    <2>3. /\ hash' = Append(hash, x) /\ read' = read /\ early' = early /\ currentInstruction' = i
          /\ \/ ctx.keys = 1 /\ ctx' = [c EXCEPT !.state = "SIGNATURE_THRESHOLD"] /\ owed' = FALSE
             \/ /\ ctx.keys > 1 /\ ctx' = [c EXCEPT !.showIntro = FALSE]
                /\ owed' = TRUE /\ screen' \in {"review", "key"}
      BY <1>6 DEF VerificationKey, Take, AnswerNow, Ask
    <2>4. /\ c.key = Len(hash) + 1 /\ c.keys = ctx.keys - 1 /\ c.state = ctx.state
          /\ c.update = ctx.update /\ {"key", "keys", "state", "update"} \subseteq DOMAIN c
      BY <1>4 DEF Contexts
    <2> HIDE DEF x, c
    <2>5. /\ ctx'.key = Len(hash) + 1 /\ ctx'.keys = ctx.keys - 1 /\ ctx'.update = ctx.update
          /\ ctx'.state = IF owed' THEN "VERIFICATION_KEY" ELSE "SIGNATURE_THRESHOLD"
      BY <2>2, <2>3, <2>4
    <2>6. Takes(x)
      BY <2>1, <2>2, <2>3 DEF Takes
    <2>7. CountsKey(x)
      BY <2>1, <2>2, <2>3, <2>5 DEF CountsKey
    <2>8. QED
      BY <2>2, <2>3, <2>6, <2>7 DEF Counts, x
  <1> DEFINE Fits(s, c) ==
               /\ s \in States \ {"INITIAL", "VERIFICATION_KEYS_LENGTH", "VERIFICATION_KEY"}
               /\ InCredential(i, p2, s)
               /\ c.key = ctx.key /\ c.state # "VERIFICATION_KEY"
               /\ c.update \notin {"ID", "THRESHOLD"} \/ i = Deploy
  <1>7. ASSUME NEW s, NEW c, Fits(s, c), NEW x \in Items,
               x.item \notin {"keys", "key", "idCount", "id"}, Take(i, x, c)
        PROVE  Counts(x)
    BY <1>7, PlainCounts
  <1>8. ASSUME NEW s, s # "INITIAL", InCredential(i, p2, s)
        PROVE  ctx.state = s /\ (i = Update => ctx.update = "CREDENTIAL")
    BY <1>8, InCredentialIs
  <1>9. i = Deploy \/ i = Update
    BY Names3
  <1>10. ASSUME NEW n \in 0..MaxList, SignatureThreshold(i, p2, n) PROVE \E x : Counts(x)
    <2> DEFINE c == [ctx EXCEPT !.ars = n, !.state = "AR_IDENTITY"]
    <2>1. Fits("SIGNATURE_THRESHOLD", c)
      BY <1>4, <1>8, <1>9, <1>10 DEF SignatureThreshold, Contexts, States
    <2>2. Counted("thresholds", n) \in Items /\ Counted("thresholds", n).item = "thresholds"
      BY <1>0, <1>2, <1>3
    <2>3. QED
      BY <1>7, <1>10, <2>1, <2>2 DEF SignatureThreshold
  <1>11. ASSUME NEW n \in 0..MaxList, CredentialDates(i, p2, n) PROVE \E x : Counts(x)
    <2> DEFINE c == [ctx EXCEPT !.attributes = n, !.state = attributesLeft(n)]
    <2>1. Fits("CREDENTIAL_DATES", c)
      BY <1>4, <1>8, <1>9, <1>11 DEF CredentialDates, Contexts, States, attributesLeft
    <2>2. Counted("dates", n) \in Items /\ Counted("dates", n).item = "dates"
      BY <1>0, <1>2, <1>3
    <2>3. QED
      BY <1>7, <1>11, <2>1, <2>2 DEF CredentialDates
  <1>12. ASSUME NEW n \in 0..MaxProof, LengthOfProofs(i, p2, n) PROVE \E x : Counts(x)
    <2> DEFINE c == [ctx EXCEPT !.proof = n, !.state = "PROOFS"]
    <2>1. Fits("LENGTH_OF_PROOFS", c)
      BY <1>4, <1>8, <1>9, <1>12 DEF LengthOfProofs, Contexts, States
    <2>2. Proof("proofLength", n, p2) \in Items /\ Proof("proofLength", n, p2).item = "proofLength"
      BY <1>0, <1>2, <1>3
    <2>3. QED
      BY <1>7, <1>12, <2>1, <2>2 DEF LengthOfProofs
  <1>13. ASSUME ArIdentity(i, p2) PROVE \E x : Counts(x)
    <2> DEFINE c == [ctx EXCEPT !.ars = @ - 1,
                                !.state = IF ctx.ars = 1 THEN "CREDENTIAL_DATES" ELSE @]
    <2>1. Fits("AR_IDENTITY", c)
      BY <1>4, <1>8, <1>9, <1>13 DEF ArIdentity, Contexts, States
    <2>2. QED
      BY <1>1, <1>3, <1>7, <1>13, <2>1 DEF ArIdentity
  <1>14. ASSUME AttributeTag(i, p2) PROVE \E x : Counts(x)
    <2> DEFINE c == [ctx EXCEPT !.state = "ATTRIBUTE_VALUE"]
    <2>1. Fits("ATTRIBUTE_TAG", c)
      BY <1>4, <1>8, <1>9, <1>14 DEF AttributeTag, Contexts, States
    <2>2. QED
      BY <1>1, <1>3, <1>7, <1>14, <2>1 DEF AttributeTag
  <1>15. ASSUME AttributeValue(i, p2) PROVE \E x : Counts(x)
    <2> DEFINE c == [ctx EXCEPT !.attributes = @ - 1, !.state = attributesLeft(ctx.attributes - 1)]
    <2>1. Fits("ATTRIBUTE_VALUE", c)
      BY <1>4, <1>8, <1>9, <1>15 DEF AttributeValue, Contexts, States, attributesLeft
    <2>2. QED
      BY <1>1, <1>3, <1>7, <1>15, <2>1 DEF AttributeValue
  <1>16. ASSUME Proofs(i, p2) PROVE \E x : Counts(x)
    <2>1. InCredential(i, p2, "PROOFS") /\ "PROOFS" \in States
      BY <1>16 DEF Proofs, States
    <2>2. CASE ctx.proof > Piece
      <3> DEFINE c == [ctx EXCEPT !.proof = @ - Piece]
      <3>1. Fits("PROOFS", c)
        BY <1>4, <1>8, <1>9, <2>1 DEF Contexts
      <3>2. Proof("proof", Piece, p2) \in Items /\ Proof("proof", Piece, p2).item = "proof"
        BY <1>0, <1>2, <1>3
      <3>3. QED
        BY <1>7, <1>16, <2>2, <3>1, <3>2 DEF Proofs
    <2>3. CASE ~(ctx.proof > Piece)
      <3> DEFINE c == credentialDone(p2)
      <3>1. c.key = ctx.key /\ c.state # "VERIFICATION_KEY"
            /\ c.update \in {ctx.update, "ID_COUNT", "CREDENTIAL_INDEX"}
        BY <1>4 DEF credentialDone, Contexts
      <3>2. Fits("PROOFS", c)
        BY <1>8, <1>9, <2>1, <3>1
      <3>3. Proof("proof", ctx.proof, p2) \in Items /\ Proof("proof", ctx.proof, p2).item = "proof"
        BY <1>0, <1>2, <1>3
      <3>4. QED
        BY <1>7, <1>16, <2>3, <3>2, <3>3 DEF Proofs
    <2>4. QED
      BY <2>2, <2>3
  <1>17. ASSUME NewOrExisting(i, p2) PROVE \E x : Counts(x)
    <2> DEFINE x == Named("account")
    <2>1. x \in Items /\ x.item = "account"
      BY <1>1, <1>3
    <2>2. /\ currentInstruction = i /\ ~owed /\ ctx.state = "NEW_OR_EXISTING"
          /\ Len(hash) < MaxItems
          /\ i = Update => ctx.update = "CREDENTIAL"
      BY <1>17, InCredentialIs DEF NewOrExisting
    <2>3. Takes(x) /\ ctx' = ctx /\ currentInstruction' = i /\ screen' \in Signing
      BY <1>17, <2>1, <2>2 DEF NewOrExisting, Takes, Ask, Signing, FinalFlows
    <2> HIDE DEF x
    <2>4. CountsNone(x)
      BY <1>9, <2>1, <2>2, <2>3 DEF CountsNone
    <2>5. QED
      BY <2>2, <2>3, <2>4 DEF Counts
  <1>18. QED
    BY <1>5, <1>6, <1>10, <1>11, <1>12, <1>13, <1>14, <1>15, <1>16, <1>17 DEF ItemCommand

LEMMA UpdateCountsParts ==
  ASSUME ContextOK, PlaceInv, UpdateCommand PROVE \E x : Counts(x)
  <1>0. /\ \A name \in ItemNames : Named(name) \in Items /\ Named(name).item = name
        /\ \A n \in 0..MaxCredentials :
             /\ Counted("idCount", n) \in Items
             /\ Counted("idCount", n).item = "idCount" /\ Counted("idCount", n).size = n
    BY CredentialAssumption, ItemTypes DEF P2, ItemNames
  <1>1. ctx \in Contexts /\ Update \in Ours
    BY Names3 DEF ContextOK
  <1>2. CASE CredentialIndex
    <2> DEFINE x == Named("index")
               c == [ctx EXCEPT !.update = "CREDENTIAL"]
    <2>1. x \in Items /\ x.item = "index"
      BY <1>0 DEF ItemNames
    <2>2. /\ currentInstruction = Update /\ ~owed /\ ctx.update = "CREDENTIAL_INDEX"
          /\ Len(hash) < MaxItems
      BY <1>2, UpdateFinds DEF CredentialIndex
    <2>3. Takes(x) /\ ctx' = c /\ currentInstruction' = Update /\ owed' = FALSE
      BY <1>1, <1>2, <2>1, <2>2, TakeIs DEF CredentialIndex
    <2>4. ctx'.key = ctx.key /\ ctx'.update = "CREDENTIAL"
      BY <1>1, <2>3 DEF Contexts
    <2> HIDE DEF x, c
    <2>5. CountsNone(x)
      BY <2>1, <2>2, <2>3, <2>4, Names3 DEF CountsNone
    <2>6. QED
      BY <2>2, <2>3, <2>5 DEF Counts
  <1>3. CASE UpdateThreshold
    <2> DEFINE x == Named("threshold")
    <2>1. x \in Items /\ x.item = "threshold"
      BY <1>0 DEF ItemNames
    <2>2. /\ currentInstruction = Update /\ ~owed /\ ctx.update = "THRESHOLD"
          /\ Len(hash) < MaxItems
      BY <1>3, UpdateFinds DEF UpdateThreshold
    <2>3. Takes(x) /\ ctx' = ctx /\ currentInstruction' = Update /\ screen' = "threshold"
      BY <1>1, <1>3, <2>1, <2>2 DEF UpdateThreshold, Takes, Ask
    <2> HIDE DEF x
    <2>4. CountsNone(x)
      BY <2>1, <2>2, <2>3, Names3 DEF CountsNone, Signing
    <2>5. QED
      BY <2>2, <2>3, <2>4 DEF Counts
  <1>4. ASSUME NEW n \in 0..MaxCredentials, IdCount(n) PROVE \E x : Counts(x)
    <2> DEFINE x == Counted("idCount", n)
               c == [ctx EXCEPT !.ids = n, !.update = idsLeft(n)]
    <2>1. x \in Items /\ x.item = "idCount" /\ x.size = n
      BY <1>0
    <2>2. /\ currentInstruction = Update /\ ~owed /\ ctx.update = "ID_COUNT"
          /\ Len(hash) < MaxItems
      BY <1>4, UpdateFinds DEF IdCount
    <2>3. Takes(x) /\ ctx' = c /\ currentInstruction' = Update /\ owed' = FALSE
      BY <1>1, <1>4, <2>1, <2>2, TakeIs DEF IdCount
    <2>4. ctx'.key = ctx.key /\ ctx'.ids = n /\ ctx'.update = idsLeft(n)
      BY <1>1, <2>3 DEF Contexts
    <2> HIDE DEF x, c
    <2>5. CountsIds(x)
      BY <2>1, <2>2, <2>3, <2>4 DEF CountsIds
    <2>6. QED
      BY <2>2, <2>3, <2>5 DEF Counts
  <1>5. CASE CredentialId
    <2> DEFINE x == Named("id")
    <2>1. x \in Items /\ x.item = "id"
      BY <1>0 DEF ItemNames
    <2>2. /\ currentInstruction = Update /\ ~owed /\ ctx.update = "ID"
          /\ Len(hash) < MaxItems
      BY <1>5, UpdateFinds DEF CredentialId
    <2>3. /\ Takes(x) /\ currentInstruction' = Update /\ owed' = TRUE /\ screen' = "id"
          /\ ctx' = [ctx EXCEPT !.id = Len(hash) + 1, !.ids = @ - 1, !.update = idsLeft(ctx.ids - 1)]
      BY <1>1, <1>5, <2>1, <2>2 DEF CredentialId, Takes, Ask
    <2>4. /\ ctx'.key = ctx.key /\ ctx'.id = Len(hash) + 1
          /\ ctx'.ids = ctx.ids - 1 /\ ctx'.update = idsLeft(ctx.ids - 1)
      BY <1>1, <2>3 DEF Contexts
    <2> HIDE DEF x
    <2>5. CountsId(x)
      BY <2>1, <2>2, <2>3, <2>4 DEF CountsId
    <2>6. QED
      BY <2>2, <2>3, <2>5 DEF Counts
  <1>6. QED
    BY <1>2, <1>3, <1>4, <1>5 DEF UpdateCommand

\* The items of a kind are finitely many, and one more is one more.
LEMMA AtIs ==
  ASSUME HashOK, NEW name
  PROVE  /\ IsFiniteSet(At(hash, name)) /\ Cardinality(At(hash, name)) \in Nat
         /\ At(hash, name) \subseteq 1..Len(hash) /\ Len(hash) \in Nat
  <1>1. Len(hash) \in Nat /\ At(hash, name) \subseteq 1..Len(hash)
    BY LenProperties DEF HashOK, At
  <1>2. IsFiniteSet(1..Len(hash))
    BY <1>1, FS_Interval
  <1>3. IsFiniteSet(At(hash, name))
    BY <1>1, <1>2, FS_Subset
  <1>4. QED
    BY <1>1, <1>3, FS_CardinalityType

LEMMA AtTakes ==
  ASSUME HashOK, NEW x, Takes(x), NEW name
  PROVE  /\ x.item # name => At(hash', name) = At(hash, name)
         /\ x.item = name =>
              /\ At(hash', name) = At(hash, name) \cup {Len(hash) + 1}
              /\ Cardinality(At(hash', name)) = Cardinality(At(hash, name)) + 1
         /\ \A k \in At(hash, name) : hash'[k] = hash[k]
         /\ Len(hash) + 1 \notin At(hash, name) /\ hash'[Len(hash) + 1] = x
  <1>1. /\ IsFiniteSet(At(hash, name)) /\ At(hash, name) \subseteq 1..Len(hash)
        /\ Len(hash) + 1 \notin 1..Len(hash)
    BY AtIs
  <1>2. /\ hash'[Len(hash) + 1] = x /\ \A k \in 1..Len(hash) : hash'[k] = hash[k]
    BY HashTakes
  <1>3. /\ x.item = name => At(hash', name) = At(hash, name) \cup {Len(hash) + 1}
        /\ x.item # name => At(hash', name) = At(hash, name)
    BY ItemsTake
  <1>4. Cardinality(At(hash, name) \cup {Len(hash) + 1}) = Cardinality(At(hash, name)) + 1
    BY <1>1, FS_AddElement
  <1>5. QED
    BY <1>1, <1>2, <1>3, <1>4

\* An item that announces nothing: a part of those to come, or none.
LEMMA CountingTakes ==
  ASSUME HashOK, NEW x, Takes(x), NEW count, NEW part, NEW n \in Nat,
         count # part, x.item # count
  PROVE  /\ Counting(count, part, n) /\ x.item # part => Counting(count, part, n)'
         /\ Counting(count, part, n + 1) /\ x.item = part => Counting(count, part, n)'
  <1>1. /\ At(hash', count) = At(hash, count) /\ \A k \in At(hash, count) : hash'[k] = hash[k]
        /\ x.item # part => At(hash', part) = At(hash, part)
        /\ x.item = part => Cardinality(At(hash', part)) = Cardinality(At(hash, part)) + 1
        /\ Cardinality(At(hash, part)) \in Nat
    BY AtTakes, AtIs
  <1>2. ASSUME Counting(count, part, n), x.item # part PROVE Counting(count, part, n)'
    <2>1. PICK c : At(hash, count) = {c} /\ hash[c].size = n + Cardinality(At(hash, part))
      BY <1>2 DEF Counting
    <2>2. At(hash', count) = {c} /\ hash'[c].size = n + Cardinality(At(hash', part))
      BY <1>1, <1>2, <2>1
    <2>3. QED
      BY <2>2 DEF Counting
  <1>3. ASSUME Counting(count, part, n + 1), x.item = part PROVE Counting(count, part, n)'
    <2>1. PICK c : At(hash, count) = {c} /\ hash[c].size = n + 1 + Cardinality(At(hash, part))
      BY <1>3 DEF Counting
    <2>2. At(hash', count) = {c} /\ hash'[c].size = n + 1 + Cardinality(At(hash, part))
      BY <1>1, <2>1
    <2>3. hash'[c].size = n + Cardinality(At(hash', part))
      BY <1>1, <1>3, <2>2
    <2>4. QED
      BY <2>2, <2>3 DEF Counting
  <1>4. QED
    BY <1>2, <1>3

\* The item that announces n parts, before any of them.
LEMMA CountingBegins ==
  ASSUME HashOK, NEW x, Takes(x), NEW count, NEW part, count # part, x.item = count,
         x.size \in Nat, At(hash, count) = {}, At(hash, part) = {}
  PROVE  Counting(count, part, x.size)'
  <1>1. At(hash', count) = {Len(hash) + 1} /\ hash'[Len(hash) + 1] = x /\ At(hash', part) = {}
    BY AtTakes
  <1>2. Cardinality({}) = 0
    BY FS_EmptySet
  <1>3. hash'[Len(hash) + 1].size = x.size + Cardinality(At(hash', part))
    BY <1>1, <1>2
  <1>4. QED
    BY <1>1, <1>3 DEF Counting
LEMMA PagesTake ==
  ASSUME HashOK, ContextOK, PagesInv, NEW x, Counts(x) PROVE PagesInv'
  <1>1. /\ Takes(x) /\ read' = read /\ ~owed
        /\ Len(hash) \in Nat /\ Len(hash') = Len(hash) + 1
    BY HashTakes DEF Counts, Takes
  <1>2. read' \subseteq 0..Len(hash') /\ Len(hash) + 1 \notin read'
    BY <1>1 DEF PagesInv
  <1>3. ctx'.key # 0 => ctx'.key \in At(hash', "key")
    <2>1. CASE x.item = "key"
      <3>1. At(hash', "key") = At(hash, "key") \cup {Len(hash) + 1}
        BY <1>1, <2>1, AtTakes
      <3>2. ctx'.key = Len(hash) + 1
        BY <2>1 DEF Counts, CountsNone, CountsKeys, CountsKey, CountsIds, CountsId
      <3>3. QED
        BY <3>1, <3>2
    <2>2. CASE x.item # "key"
      <3>1. At(hash', "key") = At(hash, "key")
        BY <1>1, <2>2, AtTakes
      <3>2. ctx'.key = ctx.key
        BY <2>2 DEF Counts, CountsNone, CountsKeys, CountsKey, CountsIds, CountsId
      <3>3. QED
        BY <3>1, <3>2 DEF PagesInv
    <2>3. QED
      BY <2>1, <2>2
  <1>4. ASSUME owed', screen' = "id" PROVE ctx'.id \in At(hash', "id") \ read'
    <2>1. x.item = "id" /\ ctx'.id = Len(hash) + 1
      BY <1>4
      DEF Counts, CountsNone, CountsKeys, CountsKey, CountsIds, CountsId, Signing, FinalFlows
    <2>2. At(hash', "id") = At(hash, "id") \cup {Len(hash) + 1}
      BY <1>1, <2>1, AtTakes
    <2>3. QED
      BY <1>2, <2>1, <2>2
  <1>5. ASSUME owed', screen' \in {"review", "key"}
        PROVE  ctx'.state = "VERIFICATION_KEY" /\ ctx'.keys > 0
    <2>1. CountsKey(x)
      BY <1>5 DEF Counts, CountsNone, CountsKeys, CountsIds, CountsId, Signing, FinalFlows
    <2>2. ctx.keys \in Nat
      BY CredentialAssumption DEF ContextOK, Contexts
    <2>3. QED
      BY <1>5, <2>1, <2>2 DEF CountsKey
  <1>6. QED
    BY <1>2, <1>3, <1>4, <1>5 DEF PagesInv

LEMMA IdsTake ==
  ASSUME HashOK, ContextOK, IdsCounted, currentInstruction = Update, NEW x, Counts(x)
  PROVE  IdsCounted'
  <1>1. Takes(x)
    BY DEF Counts
  <1>2. ASSUME x.item \notin {"idCount", "id"}
        PROVE  /\ At(hash', "idCount") = At(hash, "idCount") /\ At(hash', "id") = At(hash, "id")
               /\ Counting("idCount", "id", 0) => Counting("idCount", "id", 0)'
    BY <1>1, <1>2, AtTakes, CountingTakes
  <1>3. CASE CountsNone(x) /\ ctx.update = "THRESHOLD" /\ ctx'.update = "THRESHOLD"
    BY <1>2, <1>3 DEF CountsNone, IdsCounted
  <1>4. CASE /\ ctx.update \notin {"ID", "THRESHOLD"} /\ ctx'.update \notin {"ID", "THRESHOLD"}
             /\ x.item \notin {"idCount", "id"}
    BY <1>2, <1>4 DEF IdsCounted
  <1>5. CASE CountsIds(x)
    <2>1. x.item = "idCount" /\ x.size \in Nat /\ At(hash, "idCount") = {} /\ At(hash, "id") = {}
      BY <1>5, CredentialAssumption DEF CountsIds, IdsCounted
    <2>2. Counting("idCount", "id", x.size)'
      BY <1>1, <2>1, CountingBegins
    <2>3. ctx'.ids = x.size /\ ctx'.update = IF x.size = 0 THEN "THRESHOLD" ELSE "ID"
      BY <1>5 DEF CountsIds, idsLeft
    <2>4. QED
      BY <2>2, <2>3 DEF IdsCounted
  <1>6. CASE CountsId(x)
    <2>1. ctx.ids \in Nat /\ ctx.ids > 0 /\ x.item = "id" /\ ctx.update = "ID"
      BY <1>6, CredentialAssumption, SMTT(40) DEF CountsId, ContextOK, CountInv, Contexts
    <2>2. PICK n \in Nat : n + 1 = ctx.ids
      BY <2>1
    <2>3. Counting("idCount", "id", n + 1)
      BY <2>1, <2>2 DEF IdsCounted
    <2>4. ctx'.ids = n /\ ctx'.update = IF n = 0 THEN "THRESHOLD" ELSE "ID"
      BY <1>6, <2>1, <2>2 DEF CountsId, idsLeft
    <2>5. Counting("idCount", "id", n)'
      BY <1>1, <2>1, <2>2, <2>3, CountingTakes
    <2>6. QED
      BY <2>4, <2>5 DEF IdsCounted
  <1>7. QED
    BY <1>3, <1>4, <1>5, <1>6 DEF Counts, CountsNone, CountsKeys, CountsKey

LEMMA KeysTakeCounted ==
  ASSUME HashOK, ContextOK, PagesInv, DeployInv, KeysCounted, currentInstruction = Deploy, ~claims,
         NEW x, Counts(x)
  PROVE  KeysCounted'
  <1>1. Takes(x) /\ read' = read /\ Deploy # Update
    BY Names3 DEF Counts, Takes
  <1>2. /\ hash = <<>> => ctx.state = "VERIFICATION_KEYS_LENGTH"
        /\ hash # <<>> => ctx.state # "VERIFICATION_KEYS_LENGTH"
    BY DEF DeployInv
  <1>3. CASE CountsNone(x)
    <2>1. /\ ctx.state # "VERIFICATION_KEY" /\ ctx'.state # "VERIFICATION_KEY" /\ hash # <<>>
          /\ ctx'.key = ctx.key /\ x.item \notin {"keys", "key"}
      BY <1>2, <1>3 DEF CountsNone
    <2>2. Counting("keys", "key", 0) /\ ctx.key \in At(hash, "key") \ read
      BY <2>1 DEF KeysCounted
    <2>3. Counting("keys", "key", 0)' /\ At(hash', "key") = At(hash, "key")
      BY <1>1, <2>1, <2>2, CountingTakes, AtTakes
    <2>4. QED
      BY <1>1, <2>1, <2>2, <2>3 DEF KeysCounted
  <1>4. CASE CountsKeys(x)
    <2>1. /\ x.item = "keys" /\ x.size \in Nat /\ hash = <<>> /\ owed' = FALSE
          /\ ctx'.state = "VERIFICATION_KEY" /\ ctx'.keys = x.size
      BY <1>2, <1>4, CredentialAssumption DEF CountsKeys
    <2>2. At(hash, "keys") = {} /\ At(hash, "key") = {}
      BY <2>1 DEF At
    <2>3. Counting("keys", "key", x.size)'
      BY <1>1, <2>1, <2>2, CountingBegins
    <2>4. QED
      BY <2>1, <2>3 DEF KeysCounted
  <1>5. CASE CountsKey(x)
    <2>1. /\ x.item = "key" /\ ctx.state = "VERIFICATION_KEY" /\ hash # <<>>
          /\ ctx.keys \in Nat /\ ctx.keys > 0
          /\ ctx'.key = Len(hash) + 1 /\ ctx'.keys = ctx.keys - 1
      BY <1>2, <1>5, CredentialAssumption, SMTT(40) DEF CountsKey, ContextOK, Contexts
    <2>2. PICK n \in Nat : n + 1 = ctx.keys
      <3>1. ctx.keys \in Nat /\ ctx.keys > 0
        BY <2>1
      <3>2. ctx.keys - 1 \in Nat /\ (ctx.keys - 1) + 1 = ctx.keys
        BY <3>1
      <3>3. QED
        BY <3>2
    <2>3. Counting("keys", "key", n + 1)
      BY <2>1, <2>2 DEF KeysCounted
    <2>4. n = IF ctx'.state = "VERIFICATION_KEY" THEN ctx'.keys ELSE 0
      BY <1>5, <2>1, <2>2 DEF CountsKey
    <2>5. Counting("keys", "key", n)'
      BY <1>1, <2>1, <2>2, <2>3, CountingTakes
    <2>6. Len(hash) + 1 \in At(hash', "key") /\ Len(hash) + 1 \notin read'
      <3>1. Len(hash) \in Nat
        BY AtIs
      <3>2. Len(hash) + 1 \notin read
        BY <3>1 DEF PagesInv
      <3>3. At(hash', "key") = At(hash, "key") \cup {Len(hash) + 1}
        BY <1>1, <2>1, AtTakes
      <3>4. QED
        BY <1>1, <3>2, <3>3
    <2>7. QED
      BY <2>1, <2>4, <2>5, <2>6 DEF KeysCounted
  <1>6. QED
    BY <1>1, <1>3, <1>4, <1>5 DEF Counts, CountsIds, CountsId

LEMMA PartsTake ==
  ASSUME HashOK, ContextOK, PlaceInv, PartsInv, NEW x, Counts(x) PROVE PartsInv'
  <1>1. /\ Takes(x) /\ currentInstruction \in Ours /\ currentInstruction' = currentInstruction
        /\ early' = early /\ PagesInv
    BY DEF Counts, Takes, PartsInv
  <1>2. PagesInv'
    BY <1>1, PagesTake
  <1>3. currentInstruction = Update => IdsCounted'
    BY <1>1, IdsTake DEF PartsInv
  <1>4. ASSUME currentInstruction = Deploy, ~claims', ~early' PROVE KeysCounted'
    <2>1. ~claims
      BY <1>1, <1>4, ClaimsTake
    <2>2. QED
      BY <1>1, <1>4, <2>1, KeysTakeCounted DEF PartsInv, PlaceInv
  <1>5. QED
    BY <1>1, <1>2, <1>3, <1>4 DEF PartsInv

LEMMA PartsBegin == ASSUME ContextOK, PlaceInv, FirstCommand PROVE PartsInv'
  <1>1. CASE DeployInitial
    <2>1. /\ hash' = <<>> /\ owed' = FALSE /\ read' = {} /\ currentInstruction' = Deploy
          /\ ctx' = [[found(Deploy) EXCEPT !.state = "VERIFICATION_KEYS_LENGTH", !.showIntro = TRUE]
                       EXCEPT !.key = 0, !.id = 0]
      BY <1>1 DEF DeployInitial, Begin, AnswerNow
    <2>2. found(Deploy) \in Contexts
      BY Names3, FoundOK
    <2>3. ctx'.key = 0
      BY <2>1, <2>2 DEF Contexts
    <2>4. PagesInv' /\ KeysCounted'
      BY <2>1, <2>3 DEF PagesInv, KeysCounted
    <2>5. QED
      BY <2>1, <2>4, Names3 DEF PartsInv
  <1>2. ASSUME NEW n \in 0..MaxCredentials, UpdateInitial(n) PROVE PartsInv'
    <2> DEFINE c == [found(Update) EXCEPT !.credentials = n,
                                          !.update = IF n = 0 THEN "ID_COUNT" ELSE "CREDENTIAL_INDEX"]
    <2>1. /\ hash' = <<Counted("head", n)>> /\ screen' = "initial" /\ read' = {}
          /\ currentInstruction' = Update
          /\ ctx' = [c EXCEPT !.key = 0, !.id = 0]
      BY <1>2 DEF UpdateInitial, Begin, Ask
    <2>2. found(Update) \in Contexts
      BY Names3, FoundOK
    <2>3. /\ c.update = (IF n = 0 THEN "ID_COUNT" ELSE "CREDENTIAL_INDEX")
          /\ {"key", "id", "update"} \subseteq DOMAIN c
      BY <2>2 DEF Contexts
    <2> HIDE DEF c
    <2>4. ctx'.key = 0 /\ ctx'.update \notin {"ID", "THRESHOLD"}
      BY <2>1, <2>3
    <2>5. Len(hash') = 1 /\ hash'[1].item = "head"
      BY <2>1 DEF Counted
    <2>6. At(hash', "idCount") = {} /\ At(hash', "id") = {}
      BY <2>5 DEF At
    <2>7. PagesInv' /\ IdsCounted'
      BY <2>1, <2>4, <2>6 DEF PagesInv, IdsCounted
    <2>8. QED
      BY <2>1, <2>7, Names3 DEF PartsInv
  <1>3. QED
    BY <1>1, <1>2 DEF FirstCommand

\* What a button pages through: the key or the id on display, or nothing.
Pages ==
  \/ read' = read
  \/ /\ read' = read \cup {ctx.key}
     /\ early' = TRUE \/ (screen \in {"review", "key"} /\ early' = early)
  \/ read' = read \cup {ctx.id} /\ screen = "id" /\ early' = early

LEMMA ButtonPages ==
  ASSUME PressContinueInitial \/ PressReview \/ PressKey \/ PressArThreshold \/ PressId
  PROVE  Pages
  BY DEF PressContinueInitial, PressReview, PressKey, PressArThreshold, PressId, Pages

LEMMA PartsGo ==
  ASSUME HashOK, PartsInv, early \in BOOLEAN, Goes, Pages PROVE PartsInv'
  <1> SUFFICES ASSUME currentInstruction \in Ours PROVE PartsInv'
    BY DEF Goes, PartsInv
  <1>1. /\ owed /\ owed' = FALSE /\ hash' = hash /\ ctx' = ctx
        /\ currentInstruction' = currentInstruction /\ early' \in {early, TRUE}
        /\ PagesInv
    BY DEF Goes, PartsInv
  <1>2. /\ At(hash, "key") \subseteq 1..Len(hash) /\ At(hash, "id") \subseteq 1..Len(hash)
        /\ Len(hash) \in Nat
    BY AtIs
  <1>3. claims' = claims
    BY <1>1 DEF claims
  <1>4. PagesInv'
    <2>1. ctx.key \in 0..Len(hash) /\ (screen = "id" => ctx.id \in 0..Len(hash))
      BY <1>1, <1>2 DEF PagesInv
    <2>2. read' \subseteq 0..Len(hash)
      BY <1>1, <2>1 DEF Pages, PagesInv
    <2>3. QED
      BY <1>1, <2>2 DEF PagesInv
  <1>5. IdsCounted => IdsCounted'
    BY <1>1 DEF IdsCounted, Counting
  <1>6. ASSUME currentInstruction = Deploy, ~claims', ~early' PROVE KeysCounted'
    <2>1. early' = early /\ KeysCounted
      <3>1. early' = early
        BY <1>1, <1>6
      <3>2. QED
        BY <1>3, <1>6, <3>1 DEF PartsInv
    <2>2. ASSUME hash # <<>>, ctx.state # "VERIFICATION_KEY" PROVE ctx.key \notin read'
      <3>1. ctx.key \in At(hash, "key") /\ ctx.key \notin read
        BY <2>1, <2>2 DEF KeysCounted
      <3>2. screen \notin {"review", "key"}
        BY <1>1, <2>2 DEF PagesInv
      <3>3. screen = "id" => ctx.id # ctx.key
        BY <1>1, <3>1 DEF PagesInv, At
      <3>4. early' # TRUE
        BY <1>6
      <3>5. QED
        BY <3>1, <3>2, <3>3, <3>4 DEF Pages
    <2>3. Counting("keys", "key", IF ctx.state = "VERIFICATION_KEY" THEN ctx.keys ELSE 0) =>
            Counting("keys", "key", IF ctx.state = "VERIFICATION_KEY" THEN ctx.keys ELSE 0)'
      BY <1>1 DEF Counting
    <2>4. QED
      BY <1>1, <2>1, <2>2, <2>3 DEF KeysCounted
  <1>7. QED
    BY <1>1, <1>4, <1>5, <1>6 DEF PartsInv

\* Every step is a command that counts, a first command, a button or an end.
LEMMA PartSteps ==
  ASSUME ContextOK, PlaceInv, Next
  PROVE  \/ \E x : Counts(x)
         \/ FirstCommand
         \/ PressContinueInitial \/ PressReview \/ PressKey \/ PressArThreshold \/ PressId
         \/ Ends \/ \E i \in Ours, p2 \in P2 : NewOrExistingRefused(i, p2)
  BY NextSteps, CredentialCountsParts, UpdateCountsParts DEF Steps

LEMMA PartsNext ==
  ASSUME HashOK, ContextOK, PlaceInv, PartsInv, early \in BOOLEAN, [Next]_vars PROVE PartsInv'
  <1>1. ASSUME currentInstruction' \notin Ours PROVE PartsInv'
    BY <1>1 DEF PartsInv
  <1>2. ASSUME NEW i \in Ours, NEW p2 \in P2, NewOrExistingRefused(i, p2) PROVE PartsInv'
    BY <1>1, <1>2, Names3 DEF NewOrExistingRefused, Refuse
  <1>3. CASE PressContinueInitial \/ PressReview \/ PressKey \/ PressArThreshold \/ PressId
    BY <1>3, ButtonGoes, ButtonPages, PartsGo
  <1>4. CASE UNCHANGED vars
    <2>1. /\ hash' = hash /\ ctx' = ctx /\ read' = read /\ early' = early /\ owed' = owed
          /\ screen' = screen /\ currentInstruction' = currentInstruction
      BY <1>4 DEF vars, deviceVars
    <2>2. (PagesInv => PagesInv') /\ claims' = claims
      BY <2>1 DEF PagesInv, claims
    <2>3. (IdsCounted => IdsCounted') /\ (KeysCounted => KeysCounted')
      BY <2>1 DEF IdsCounted, KeysCounted, Counting
    <2>4. QED
      BY <2>1, <2>2, <2>3 DEF PartsInv
  <1>5. QED
    BY <1>1, <1>2, <1>3, <1>4, PartSteps, PartsTake, PartsBegin, EndsPlace

\* A countdown says how many parts are announced.
LEMMA CountingIs ==
  ASSUME NEW n \in Nat, NEW extra, NEW part,
         Counting(CountItem(hash), part, n), Parts(hash) = At(hash, part), Extra(hash) = extra
  PROVE  Announced(hash) = n + Cardinality(Parts(hash)) + extra /\ At(hash, CountItem(hash)) # {}
  <1>1. PICK c : /\ At(hash, CountItem(hash)) = {c}
                 /\ hash[c].size = n + Cardinality(At(hash, part))
    BY DEF Counting
  <1>2. (CHOOSE i \in At(hash, CountItem(hash)) : TRUE) = c
    BY <1>1
  <1>3. QED
    BY <1>1, <1>2 DEF Announced

\* The parts of an update and of a deployment, as its first item tells them apart.
LEMMA UpdateParts ==
  ASSUME NEW h, IsUpdate(h)
  PROVE  CountItem(h) = "idCount" /\ Parts(h) = At(h, "id") /\ Extra(h) = 1
  BY DEF CountItem, Parts, Extra

LEMMA DeploymentParts ==
  ASSUME NEW h, ~IsUpdate(h)
  PROVE  CountItem(h) = "keys" /\ Parts(h) = At(h, "key") /\ Extra(h) = 0
  BY DEF CountItem, Parts, Extra

\* An item that announces nothing leaves the review as it is.
LEMMA SameReview ==
  ASSUME HashOK, NEW x, Takes(x), read \subseteq 0..Len(hash), hash # <<>>,
         x.item # CountItem(hash), IsAnnounced(hash)
  PROVE  /\ CountItem(hash') = CountItem(hash) /\ IsUpdate(hash') = IsUpdate(hash)
         /\ Announced(hash') = Announced(hash)
         /\ Parts(hash') \cap read' = Parts(hash) \cap read
  <1>1. hash'[1] = hash[1]
    BY HeadTakes
  <1>2. /\ IsUpdate(hash') = IsUpdate(hash) /\ CountItem(hash') = CountItem(hash)
        /\ Extra(hash') = Extra(hash)
    BY <1>1 DEF IsUpdate, CountItem, Extra
  <1> DEFINE C == At(hash, CountItem(hash))
  <1>3. At(hash', CountItem(hash)) = C /\ \A i \in C : hash'[i] = hash[i]
    BY AtTakes
  <1>4. C # {}
    BY DEF IsAnnounced
  <1>5. Announced(hash') = Announced(hash)
    <2>1. (CHOOSE i \in C : TRUE) \in C
      BY <1>4
    <2>2. hash'[CHOOSE i \in C : TRUE] = hash[CHOOSE i \in C : TRUE]
      BY <1>3, <2>1
    <2>3. At(hash', CountItem(hash')) = C
      BY <1>2, <1>3
    <2>4. QED
      BY <1>2, <2>2, <2>3 DEF Announced
  <1>6. PICK part : Parts(hash) = At(hash, part) /\ Parts(hash') = At(hash', part)
    BY <1>2 DEF Parts
  <1>7. read' = read /\ Len(hash) \in Nat
    BY AtIs DEF Takes
  <1>8. Len(hash) + 1 \notin read
    BY <1>7
  <1>9. At(hash', part) = At(hash, part) \/ At(hash', part) = At(hash, part) \cup {Len(hash) + 1}
    BY AtTakes
  <1>10. QED
    BY <1>2, <1>5, <1>6, <1>7, <1>8, <1>9

LEMMA EndsReviewing == ASSUME ~UnderReview', Reviewed!Answered PROVE Reviewed!End
  BY DEF announced, reviewed, Reviewed!End

LEMMA BeginsReviewing ==
  ASSUME ~UnderReview, UnderReview', Announced(hash') \in 0..(MaxCredentials + MaxKeys + 1),
         Parts(hash') \cap read' = {}, Reviewed!Answered
  PROVE  \E n \in 0..(MaxCredentials + MaxKeys + 1) : Reviewed!Begin(n)
  <1>1. announced = -1 /\ announced' = Announced(hash')
    BY DEF announced
  <1>2. reviewed' = 0
    BY FS_EmptySet DEF reviewed
  <1>3. Reviewed!Begin(Announced(hash'))
    BY <1>1, <1>2 DEF Reviewed!Begin, Reviewed!UnderReview
  <1>4. QED
    BY <1>3

LEMMA GoesOnReviewing ==
  ASSUME UnderReview, UnderReview', Announced(hash') = Announced(hash),
         Parts(hash') \cap read' = Parts(hash) \cap read, Reviewed!Answered
  PROVE  Reviewed!Answer
  BY DEF announced, reviewed, Reviewed!Answer

LEMMA TakesReviewing ==
  ASSUME HashOK, ContextOK, PlaceInv, PlaceInv', PartsInv, NEW x, Counts(x), Reviewed!Answered
  PROVE  \/ Reviewed!Answer \/ Reviewed!End
         \/ \E n \in 0..(MaxCredentials + MaxKeys + 1) : Reviewed!Begin(n)
  <1> SUFFICES ASSUME UnderReview'
               PROVE  \/ Reviewed!Answer
                      \/ \E n \in 0..(MaxCredentials + MaxKeys + 1) : Reviewed!Begin(n)
    BY EndsReviewing
  <1>1. /\ Takes(x) /\ currentInstruction \in Ours /\ currentInstruction' = currentInstruction
        /\ read' = read /\ early' = early /\ read \subseteq 0..Len(hash)
    BY DEF Counts, Takes, PartsInv, PagesInv
  <1>2. MaxCredentials \in Nat /\ MaxKeys \in Nat /\ hash' # <<>>
    BY <1>1, CredentialAssumption, HeadTakes
  <1>3. CASE currentInstruction = Update
    <2>1. /\ hash # <<>> /\ IsUpdate(hash) /\ IsUpdate(hash') /\ IdsCounted
      BY <1>1, <1>3 DEF PlaceInv, UpdateInv, PartsInv, IsUpdate
    <2>2. /\ CountItem(hash) = "idCount" /\ CountItem(hash') = "idCount"
          /\ Parts(hash') = At(hash', "id") /\ Extra(hash') = 1
      BY <2>1, UpdateParts
    <2>3. CASE x.item = "idCount"
      <3>1. x.size \in 0..MaxCredentials /\ ctx.update = "ID_COUNT"
        BY <2>3 DEF Counts, CountsNone, CountsKeys, CountsKey, CountsIds, CountsId
      <3>2. At(hash, "idCount") = {} /\ At(hash, "id") = {}
        BY <2>1, <3>1 DEF IdsCounted
      <3>3. /\ At(hash', "idCount") = {Len(hash) + 1} /\ hash'[Len(hash) + 1] = x
            /\ At(hash', "id") = {}
        BY <1>1, <2>3, <3>2, AtTakes, SMTT(40)
      <3>4. (CHOOSE i \in At(hash', "idCount") : TRUE) = Len(hash) + 1
        BY <3>3
      <3>5. Announced(hash') = x.size + 1
        BY <2>2, <3>3, <3>4 DEF Announced
      <3>6. ~UnderReview
        BY <2>2, <3>2 DEF UnderReview, IsAnnounced
      <3>7. x.size + 1 \in 0..(MaxCredentials + MaxKeys + 1)
        BY <1>2, <3>1
      <3>8. Parts(hash') \cap read' = {}
        BY <2>2, <3>3
      <3>9. QED
        BY <3>5, <3>6, <3>7, <3>8, BeginsReviewing
    <2>4. CASE x.item # "idCount"
      <3>1. At(hash, "idCount") = At(hash', "idCount") /\ At(hash', "idCount") # {}
        BY <1>1, <2>2, <2>4, AtTakes DEF UnderReview, IsAnnounced
      <3>2. IsAnnounced(hash) /\ UnderReview
        BY <1>1, <2>1, <2>2, <3>1 DEF UnderReview, IsAnnounced
      <3>3. QED
        BY <1>1, <2>1, <2>2, <2>4, <3>2, SameReview, GoesOnReviewing
    <2>5. QED
      BY <2>3, <2>4
  <1>4. CASE currentInstruction = Deploy
    <2>1. DeployInv /\ ~IsUpdate(hash') /\ ~claims' /\ ~early'
      <3>1. DeployInv /\ ~IsUpdate(hash')
        BY <1>1, <1>2, <1>4 DEF PlaceInv, DeployInv, IsUpdate
      <3>2. QED
        BY <3>1 DEF UnderReview, IsDeployment, claims, Claims
    <2>2. ~claims /\ ~early
      BY <1>1, <2>1, ClaimsTake
    <2>3. CountItem(hash') = "keys" /\ Parts(hash') = At(hash', "key") /\ Extra(hash') = 0
      BY <2>1, DeploymentParts
    <2>4. CASE x.item = "keys"
      <3>1. x.size \in 0..MaxKeys /\ ctx.state = "VERIFICATION_KEYS_LENGTH"
        BY <2>4 DEF Counts, CountsNone, CountsKeys, CountsKey, CountsIds, CountsId
      <3>2. hash = <<>>
        BY <2>1, <2>2, <3>1 DEF DeployInv
      <3>3. At(hash, "keys") = {} /\ At(hash, "key") = {}
        BY <3>2 DEF At
      <3>4. /\ At(hash', "keys") = {Len(hash) + 1} /\ hash'[Len(hash) + 1] = x
            /\ At(hash', "key") = {}
        BY <1>1, <2>4, <3>3, AtTakes
      <3>5. (CHOOSE i \in At(hash', "keys") : TRUE) = Len(hash) + 1
        BY <3>4
      <3>6. Announced(hash') = x.size + 0
        BY <2>3, <3>4, <3>5 DEF Announced
      <3>7. ~UnderReview
        BY <3>2 DEF UnderReview, IsAnnounced
      <3>8. x.size + 0 \in 0..(MaxCredentials + MaxKeys + 1)
        BY <1>2, <3>1
      <3>9. Parts(hash') \cap read' = {}
        BY <2>3, <3>4
      <3>10. QED
        BY <3>6, <3>7, <3>8, <3>9, BeginsReviewing
    <2>5. CASE x.item # "keys"
      <3>1. At(hash, "keys") = At(hash', "keys") /\ At(hash', "keys") # {}
        BY <1>1, <2>3, <2>5, AtTakes DEF UnderReview, IsAnnounced
      <3>2. hash # <<>>
        BY <3>1 DEF At
      <3>3. ~IsUpdate(hash)
        BY <2>1, <3>2 DEF DeployInv, IsUpdate
      <3>4. CountItem(hash) = "keys"
        BY <3>3, DeploymentParts
      <3>5. IsAnnounced(hash) /\ UnderReview
        BY <1>1, <2>2, <3>1, <3>2, <3>3, <3>4
        DEF UnderReview, IsAnnounced, IsDeployment, claims, Claims
      <3>6. QED
        BY <1>1, <2>5, <3>2, <3>4, <3>5, SameReview, GoesOnReviewing
    <2>6. QED
      BY <2>4, <2>5
  <1>5. QED
    BY <1>1, <1>3, <1>4, Names3

\* Paging through one of the parts that are not, while more than it are announced.
LEMMA ReviewsOne ==
  ASSUME HashOK, hash' = hash, UnderReview, UnderReview', NEW part, NEW p, NEW n \in Nat,
         Parts(hash) = At(hash, part), read' = read \cup {p}, p \in At(hash, part), p \notin read,
         Announced(hash) = n + Cardinality(Parts(hash)), n > 0, Reviewed!Answered
  PROVE  Reviewed!Review
  <1> DEFINE S == Parts(hash) \cap read
  <1>1. IsFiniteSet(Parts(hash)) /\ Cardinality(Parts(hash)) \in Nat
    BY AtIs
  <1>2. IsFiniteSet(S)
    BY <1>1, FS_Subset
  <1>3. Parts(hash') \cap read' = S \cup {p} /\ p \notin S /\ S \cup {p} \subseteq Parts(hash)
    BY DEF Parts, At, IsUpdate
  <1>4. Cardinality(S \cup {p}) = Cardinality(S) + 1
    BY <1>2, <1>3, FS_AddElement
  <1>5. Cardinality(S) \in Nat
    BY <1>2, FS_CardinalityType
  <1>6. Cardinality(S \cup {p}) <= Cardinality(Parts(hash))
    BY <1>1, <1>3, FS_Subset
  <1>7. announced = n + Cardinality(Parts(hash)) /\ announced' = announced
    BY DEF announced
  <1>8. reviewed = Cardinality(S) /\ reviewed' = Cardinality(S) + 1
    BY <1>3, <1>4 DEF reviewed
  <1>9. announced \in Nat /\ reviewed + 1 < announced
    BY <1>1, <1>4, <1>5, <1>6, <1>7, <1>8
  <1>10. QED
    BY <1>7, <1>8, <1>9 DEF Reviewed!Review, Reviewed!UnderReview

LEMMA PagesReviewing ==
  ASSUME HashOK, ContextOK, PlaceInv, PartsInv, early \in BOOLEAN, Goes, Pages, Reviewed!Answered
  PROVE  Reviewed!Answer \/ Reviewed!Review \/ Reviewed!End
  <1> SUFFICES ASSUME UnderReview' PROVE Reviewed!Answer \/ Reviewed!Review
    BY EndsReviewing
  <1>1. /\ hash' = hash /\ currentInstruction' = currentInstruction /\ owed
        /\ currentInstruction \in Ours /\ early' \in {early, TRUE}
        /\ IsAnnounced(hash) /\ hash # <<>>
    BY DEF Goes, UnderReview, IsAnnounced
  <1>2. PagesInv /\ ctx.ids \in Nat /\ ctx.keys \in Nat
    BY <1>1, CredentialAssumption DEF PartsInv, ContextOK, Contexts
  <1>3. UnderReview
    <2>1. ~early' => ~early
      BY <1>1, Zenon
    <2>2. IsUpdate(hash) \/ (IsDeployment(hash) /\ ~early')
      BY <1>1 DEF UnderReview
    <2>3. QED
      BY <1>1, <2>1, <2>2 DEF UnderReview
  <1>4. ASSUME Parts(hash) \cap read' = Parts(hash) \cap read PROVE Reviewed!Answer
    BY <1>1, <1>3, <1>4, GoesOnReviewing
  <1>5. CASE currentInstruction = Update
    <2>1. IdsCounted /\ IsUpdate(hash)
      BY <1>5, Names3 DEF PartsInv, PlaceInv, UpdateInv, IsUpdate
    <2>2. CountItem(hash) = "idCount" /\ Parts(hash) = At(hash, "id") /\ Extra(hash) = 1
      BY <2>1, UpdateParts
    <2>3. CASE read' = read \cup {ctx.id} /\ screen = "id"
      <3>1. ctx.id \in At(hash, "id") /\ ctx.id \notin read
        BY <1>1, <1>2, <2>3 DEF PagesInv
      <3>2. ctx.update \in {"ID", "THRESHOLD"}
        BY <2>1, <3>1 DEF IdsCounted
      <3>3. PICK n \in Nat : Counting("idCount", "id", n)
        BY <1>2, <2>1, <3>2 DEF IdsCounted
      <3>4. Announced(hash) = n + Cardinality(Parts(hash)) + 1
        BY <2>2, <3>3, CountingIs
      <3>5. Cardinality(Parts(hash)) \in Nat
        BY <2>2, AtIs
      <3>6. Announced(hash) = (n + 1) + Cardinality(Parts(hash)) /\ n + 1 \in Nat /\ n + 1 > 0
        BY <3>4, <3>5
      <3>7. QED
        BY <1>1, <1>3, <2>2, <2>3, <3>1, <3>6, ReviewsOne
    <2>4. CASE read' = read \/ read' = read \cup {ctx.key}
      <3>1. ctx.key \notin At(hash, "id")
        <4>1. 0 \notin At(hash, "id") /\ At(hash, "id") \cap At(hash, "key") = {}
          BY DEF At
        <4>2. QED
          BY <1>2, <4>1 DEF PagesInv
      <3>2. QED
        BY <1>4, <2>2, <2>4, <3>1
    <2>5. QED
      BY <2>3, <2>4 DEF Pages
  <1>6. CASE currentInstruction = Deploy
    <2>1. ~IsUpdate(hash)
      BY <1>1, <1>6, Names3 DEF PlaceInv, DeployInv, IsUpdate
    <2>2. ~claims /\ ~early' /\ early' = early
      <3>1. IsDeployment(hash) /\ ~early'
        BY <1>1, <2>1 DEF UnderReview
      <3>2. early' # TRUE
        BY <3>1
      <3>3. QED
        BY <1>1, <3>1, <3>2 DEF IsDeployment, claims, Claims
    <2>3. KeysCounted
      BY <1>1, <1>6, <2>2 DEF PartsInv
    <2>4. CountItem(hash) = "keys" /\ Parts(hash) = At(hash, "key") /\ Extra(hash) = 0
      BY <2>1, DeploymentParts
    <2>5. CASE read' = read \cup {ctx.key} /\ screen \in {"review", "key"}
      <3>1. ctx.state = "VERIFICATION_KEY" /\ ctx.keys > 0
        BY <1>1, <1>2, <2>5 DEF PagesInv
      <3>2. Counting("keys", "key", ctx.keys) /\ ctx.key \in At(hash, "key") /\ ctx.key \notin read
        BY <1>1, <2>3, <2>5, <3>1 DEF KeysCounted
      <3>3. PICK n \in Nat : n = ctx.keys
        BY <1>2
      <3>4. Announced(hash) = n + Cardinality(Parts(hash)) + 0
        BY <2>4, <3>2, <3>3, CountingIs
      <3>5. Cardinality(Parts(hash)) \in Nat
        BY <2>4, AtIs
      <3>6. Announced(hash) = n + Cardinality(Parts(hash)) /\ n > 0
        BY <3>1, <3>3, <3>4, <3>5
      <3>7. QED
        BY <1>1, <1>3, <2>4, <2>5, <3>2, <3>6, ReviewsOne
    <2>6. CASE read' = read
      BY <1>4, <2>6
    <2>7. CASE read' = read \cup {ctx.id} /\ screen = "id"
      <3>1. ctx.id \notin At(hash, "key")
        BY <1>1, <1>2, <2>7 DEF PagesInv, At
      <3>2. QED
        BY <1>4, <2>4, <2>7, <3>1
    <2>8. early' # TRUE
      BY <2>2
    <2>9. QED
      BY <2>5, <2>6, <2>7, <2>8 DEF Pages
  <1>7. QED
    BY <1>1, <1>5, <1>6, Names3

\* A signature is the last step of a review of all its parts, or is under no review: of
\* a spent hash, of a deployment with an early step or one that claims to be of an update.
LEMMA SignsReviewing ==
  ASSUME HashOK, ContextOK, PlaceInv, PartsInv, ReviewInv, DialogInv, early \in BOOLEAN, PressSign
  PROVE  Reviewed!Sign \/ Reviewed!End
  <1>1. /\ owed /\ screen \in Signing /\ reply' = Signature /\ currentInstruction' \notin Ours
    BY Names3 DEF PressSign, PressAnswer, uiIdle
  <1>2. /\ reply'.kind = "signature" /\ reply'.over = hash /\ reply'.early = early
        /\ reply'.read = IF screen \in FinalFlows THEN read \cup {ctx.key} ELSE read
    BY <1>1 DEF Signature
  <1>3. announced' = -1 /\ reviewed' = 0
    BY <1>1 DEF announced, reviewed, UnderReview
  <1>4. ASSUME \/ hash = Spent
               \/ ~IsUpdate(hash) /\ (early \/ claims)
        PROVE  Reviewed!End
    <2>1. signed' = Reviewed!NoSignature
      BY <1>2, <1>4 DEF signed, Signed, IsDeployment, claims, Claims, Reviewed!NoSignature
    <2>2. QED
      BY <1>3, <2>1 DEF Reviewed!End, Reviewed!Answered
  <1>5. ASSUME NEW part, Parts(hash) = At(hash, part), NEW extra, extra = Extra(hash), hash # Spent,
               hash # <<>>, IsUpdate(hash) \/ (IsDeployment(hash) /\ ~early), currentInstruction \in Ours,
               Counting(CountItem(hash), part, 0), Parts(hash) \subseteq reply'.read,
               extra \in Nat, Cardinality(Parts(hash) \cap read) + 1 = Cardinality(Parts(hash)) + extra
        PROVE  Reviewed!Sign
    <2>1. Announced(hash) = 0 + Cardinality(Parts(hash)) + extra /\ At(hash, CountItem(hash)) # {}
      BY <1>5, CountingIs
    <2>2. Cardinality(Parts(hash)) \in Nat
      BY <1>5, AtIs
    <2>3. Announced(hash) = Cardinality(Parts(hash)) + extra
      BY <1>5, <2>1, <2>2
    <2>4. UnderReview
      BY <1>5, <2>1 DEF UnderReview, IsAnnounced
    <2>5. announced = Announced(hash) /\ reviewed + 1 = announced /\ announced # -1
      BY <1>5, <2>2, <2>3, <2>4 DEF announced, reviewed
    <2>6. Parts(hash) \cap reply'.read = Parts(hash)
      BY <1>5
    <2>7. signed' = Reviewed!Signature(announced)
      BY <1>2, <1>5, <2>3, <2>5, <2>6 DEF signed, Signed, Reviewed!Signature
    <2>8. QED
      BY <1>3, <2>5, <2>7 DEF Reviewed!Sign, Reviewed!UnderReview
  <1>6. ASSUME hash # Spent
        PROVE  /\ currentInstruction \in Ours /\ hash # <<>>
               /\ screen \in {"threshold"} \cup FinalFlows /\ screen \notin {"id", "review", "key"}
    BY <1>1, <1>6 DEF DialogInv, Signing, FinalFlows
  <1>7. CASE hash # Spent /\ currentInstruction = Update
    <2>1. /\ UpdateInv /\ IsUpdate(hash) /\ screen = "threshold" /\ ctx.update = "THRESHOLD"
      BY <1>1, <1>6, <1>7 DEF PlaceInv, UpdateInv, IsUpdate
    <2>2. CountItem(hash) = "idCount" /\ Parts(hash) = At(hash, "id") /\ Extra(hash) = 1
      BY <2>1, UpdateParts
    <2>3. Counting("idCount", "id", 0)
      BY <1>6, <1>7, <2>1 DEF PartsInv, IdsCounted
    <2>4. At(hash, "id") \subseteq read
      BY <1>6, <1>7 DEF ReviewInv, IdsInv, At
    <2>5. At(hash, "id") \subseteq reply'.read /\ At(hash, "id") \cap read = At(hash, "id")
      BY <1>2, <2>4
    <2>6. QED
      BY <1>5, <1>6, <1>7, <2>1, <2>2, <2>3, <2>5
  <1>8. CASE hash # Spent /\ currentInstruction = Deploy /\ ~claims /\ ~early
    <2>1. /\ DeployInv /\ LastKeyInv /\ ~IsUpdate(hash) /\ screen \in FinalFlows
          /\ ctx.state = "NEW_OR_EXISTING"
      BY <1>1, <1>6, <1>8 DEF PlaceInv, DeployInv, IsUpdate
    <2>2. CountItem(hash) = "keys" /\ Parts(hash) = At(hash, "key") /\ Extra(hash) = 0
      BY <2>1, DeploymentParts
    <2>3. Counting("keys", "key", 0) /\ ctx.key \in At(hash, "key") /\ ctx.key \notin read
      BY <1>6, <1>8, <2>1 DEF PartsInv, KeysCounted
    <2>4. \A k \in At(hash, "key") : k \in read \/ k = ctx.key
      BY <1>8, <2>1 DEF LastKeyInv
    <2>5. At(hash, "key") \cap read = At(hash, "key") \ {ctx.key}
      BY <2>3, <2>4
    <2>6. Cardinality(At(hash, "key") \ {ctx.key}) = Cardinality(At(hash, "key")) - 1
      BY <2>3, AtIs, FS_RemoveElement
    <2>7. Cardinality(At(hash, "key") \cap read) + 1 = Cardinality(At(hash, "key")) + 0
      <3>1. Cardinality(At(hash, "key")) \in Nat
        BY AtIs
      <3>2. Cardinality(At(hash, "key") \cap read) = Cardinality(At(hash, "key")) - 1
        BY <2>5, <2>6, Zenon
      <3>3. QED
        BY <3>1, <3>2
    <2>8. At(hash, "key") \subseteq reply'.read
      BY <1>2, <2>1, <2>4
    <2>9. IsDeployment(hash)
      BY <1>8, <2>1 DEF IsDeployment, claims, Claims
    <2>10. QED
      BY <1>5, <1>6, <1>8, <2>2, <2>3, <2>7, <2>8, <2>9
  <1>9. CASE hash # Spent /\ currentInstruction = Deploy /\ (claims \/ early)
    <2>1. ~IsUpdate(hash)
      BY <1>6, <1>9 DEF PlaceInv, DeployInv, IsUpdate
    <2>2. QED
      BY <1>4, <1>9, <2>1
  <1>10. QED
    BY <1>4, <1>6, <1>7, <1>8, <1>9, Names3

LEMMA ReviewedNext ==
  ASSUME CredentialInv, PlaceInv', PartsInv, [Next]_vars
  PROVE  [Reviewed!Next]_(Reviewed!vars)
  <1> USE DEF Reviewed!Next
  <1>1. HashOK /\ ContextOK /\ PlaceInv /\ ReviewInv /\ DialogInv /\ early \in BOOLEAN
    BY DEF CredentialInv
  <1>2. CASE PressSign
    BY <1>1, <1>2, SignsReviewing
  <1>3. CASE ~PressSign
    <2>1. Reviewed!Answered
      <3>1. ASSUME reply' = reply PROVE signed' = signed
        BY <3>1 DEF signed, Signed
      <3>2. ASSUME reply' \in Plain PROVE signed' = Reviewed!NoSignature
        BY <3>2
        DEF signed, Signed, Plain, Success, Refusal, Rejection, NoReply, Reviewed!NoSignature
      <3>3. QED
        BY <1>3, <3>1, <3>2, RepliesPlain DEF Reviewed!Answered
    <2>2. ASSUME currentInstruction' \notin Ours PROVE Reviewed!End
      BY <2>1, <2>2, EndsReviewing DEF UnderReview
    <2>3. ASSUME NEW i \in Ours, NEW p2 \in P2, NewOrExistingRefused(i, p2) PROVE Reviewed!End
      BY <2>2, <2>3, Names3 DEF NewOrExistingRefused, Refuse
    <2>4. CASE FirstCommand
      <3>1. ~IsAnnounced(hash')
        <4>1. CASE DeployInitial
          BY <4>1 DEF DeployInitial, Begin, IsAnnounced
        <4>2. ASSUME NEW n \in 0..MaxCredentials, UpdateInitial(n) PROVE ~IsAnnounced(hash')
          <5>1. hash' = <<Counted("head", n)>>
            BY <4>2 DEF UpdateInitial, Begin
          <5>2. Len(hash') = 1 /\ hash'[1].item = "head"
            BY <5>1 DEF Counted
          <5>3. QED
            BY <5>2 DEF IsAnnounced, CountItem, At
        <4>3. QED
          BY <2>4, <4>1, <4>2 DEF FirstCommand
      <3>2. QED
        BY <2>1, <3>1, EndsReviewing DEF UnderReview
    <2>5. CASE PressContinueInitial \/ PressReview \/ PressKey \/ PressArThreshold \/ PressId
      BY <1>1, <2>1, <2>5, ButtonGoes, ButtonPages, PagesReviewing
    <2>6. ASSUME NEW x, Counts(x) PROVE Reviewed!Next
      BY <1>1, <2>1, <2>6, TakesReviewing
    <2>7. CASE UNCHANGED vars
      <3>1. UNCHANGED <<announced, reviewed, signed>>
        BY <2>7
        DEF vars, deviceVars, announced, reviewed, signed, UnderReview, Signed
      <3>2. QED
        BY <3>1 DEF Reviewed!vars
    <2>8. QED
      BY <1>1, <2>2, <2>3, <2>4, <2>5, <2>6, <2>7, PartSteps, EndsPlace
  <1>4. QED
    BY <1>2, <1>3

\* The deployment of a credential, and the update of those of an account, implement
\* ReviewedSigning: each signature ends a review of its own, in which the ids removed
\* or the keys deployed are as many as were announced and are paged through one after
\* the other, the last in the dialog that signs (signCredentialDeployment.c).
THEOREM ImplementsReviewedSigning == Spec => SignsWhatIsReviewed
  <1>1. Init => PartsInv /\ Reviewed!Init
    <2>1. Init => PartsInv
      BY Names3 DEF Init, DeviceInit, PartsInv
    <2>2. Init => Reviewed!Init
      BY Names3
      DEF Init, DeviceInit, Reviewed!Init, Reviewed!NoSignature, announced, reviewed, signed,
          UnderReview, Signed, NoReply
    <2>3. QED
      BY <2>1, <2>2
  <1>2. CredentialInv /\ PartsInv /\ [Next]_vars => PartsInv'
    BY PartsNext DEF CredentialInv
  <1>3. CredentialInv /\ CredentialInv' /\ PartsInv /\ [Next]_vars => [Reviewed!Next]_(Reviewed!vars)
    BY ReviewedNext DEF CredentialInv
  <1>4. QED
    BY <1>1, <1>2, <1>3, CredentialCorrect, PTL DEF Spec, SignsWhatIsReviewed, Reviewed!Spec
=============================================================================
