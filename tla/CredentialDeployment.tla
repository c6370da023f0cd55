------------------------ MODULE CredentialDeployment ------------------------
(***************************************************************************)
(* Deployment of a credential, and the account transaction that adds and   *)
(* removes credentials (src/src/signCredentialDeployment.c). The second    *)
(* runs the handler of the first for each credential it adds, on the same  *)
(* context: countdowns of credentials, and in each of keys, anonymity      *)
(* revokers, attributes and proof bytes.                                   *)
(*                                                                         *)
(* P2 tells a command of a credential update from one of a deployment; the *)
(* handler of the deployment looks at it too, whatever the instruction.    *)
(* Of the payload only the kinds of items, their order, the counts and the *)
(* sizes that are counted are kept. A text on display is named by the      *)
(* position in the hash of the item it shows, 0 if of another transaction. *)
(***************************************************************************)
EXTENDS Device, Integers, Sequences, FiniteSets

CONSTANTS
  MaxCredentials,  \* largest number of credentials added, and of ids removed: 255
  MaxKeys,         \* largest number of keys: 255
  MaxList,         \* largest number of anonymity revokers or attributes: 2^16 - 1
  MaxProof,        \* largest proof length: 2^32 - 1
  Piece,           \* MAX_CDATA_LENGTH
  MaxItems         \* bound on what is fed to one hash

ASSUME CredentialAssumption ==
  /\ MaxCredentials \in Nat /\ MaxKeys \in Nat /\ MaxList \in Nat /\ MaxProof \in Nat
  /\ Piece \in Nat \ {0} /\ MaxItems \in Nat \ {0}

ASSUME NoneIsNoInstruction ==
  None \notin {"CREDENTIAL_DEPLOYMENT", "UPDATE_CREDENTIAL", "another instruction"}

VARIABLES
  hash,        \* what tx_state->hash covers
  ctx,         \* signCredentialDeploymentContext_t
  read,        \* history: the keys and ids paged through, by position in the hash
  early        \* history: a step was pressed that answers before its flow's end

vars == <<deviceVars, hash, ctx, read, early>>

Deploy == "CREDENTIAL_DEPLOYMENT"
Update == "UPDATE_CREDENTIAL"
Other  == "another instruction"
Ours   == {Deploy, Update}

P2 == {"none", "credential"}   \* P2_CREDENTIAL_CREDENTIAL, or any other value

Named(name)      == [item |-> name, size |-> 0, p2 |-> "none"]
Counted(name, n) == [item |-> name, size |-> n, p2 |-> "none"]
\* A proof and its length carry the P2 they came with; the length is hashed only
\* under P2_CREDENTIAL_CREDENTIAL, and otherwise stands here as a history.
Proof(name, n, p2) == [item |-> name, size |-> n, p2 |-> p2]
Spent == <<Named("spent")>>

NoContext ==
  [state |-> "none", update |-> "none", credentials |-> 0, ids |-> 0, keys |-> 0, ars |-> 0,
   attributes |-> 0, proof |-> 0, showIntro |-> FALSE, key |-> 0, id |-> 0]

Init ==
  /\ DeviceInit
  /\ hash = <<>> /\ ctx = NoContext /\ read = {} /\ early = FALSE

Restart ==
  /\ DeviceRestart
  /\ hash' = <<>> /\ ctx' = NoContext /\ read' = {} /\ early' = FALSE

\* The context as the handler of i finds it.
found(i) ==
  CASE ~isInitialCall -> ctx
    [] isInitialCall /\ i = Deploy -> [ctx EXCEPT !.state = "INITIAL"]
    [] isInitialCall /\ i = Update ->
         [ctx EXCEPT !.state = "VERIFICATION_KEYS_LENGTH", !.update = "INITIAL"]

Turn(i) == Accepts(i) /\ Len(hash) < MaxItems

\* P1 or P2 does not fit the state, or an item comes that nobody announced.
OutOfTurn(i) ==
  /\ Accepts(i)
  /\ ctx' = found(i)
  /\ Refuse
  /\ UNCHANGED <<hash, read, early>>

(***************************************************************************)
(* First commands.                                                         *)
(***************************************************************************)
\* The hash begins anew, and no text on display is of this transaction.
Begin(first, c) ==
  /\ hash' = first
  /\ ctx' = [c EXCEPT !.key = 0, !.id = 0]
  /\ read' = {} /\ early' = FALSE

DeployInitial ==
  /\ Turn(Deploy) /\ found(Deploy).state = "INITIAL"
  /\ Begin(<<>>, [found(Deploy) EXCEPT !.state = "VERIFICATION_KEYS_LENGTH", !.showIntro = TRUE])
  /\ AnswerNow(Deploy)

UpdateInitial(n) ==
  /\ Turn(Update) /\ found(Update).update = "INITIAL"
  /\ Begin(<<Counted("head", n)>>,
           [found(Update) EXCEPT !.credentials = n,
                                 !.update = IF n = 0 THEN "ID_COUNT" ELSE "CREDENTIAL_INDEX"])
  /\ Ask(Update, "initial")

\* A path too long, or for an update another kind of transaction.
InitialRefused(i) ==
  /\ Turn(i) /\ isInitialCall
  /\ \/ ctx' = found(i) /\ UNCHANGED <<hash, read, early>>
     \/ i = Update /\ Begin(<<>>, found(i))
  /\ Refuse

(***************************************************************************)
(* One credential: handleSignCredentialDeployment.                         *)
(***************************************************************************)
\* The handler is entered in state s, by its own instruction or by the update's.
InCredential(i, p2, s) ==
  /\ Turn(i)
  /\ found(i).state = s
  /\ i = Update =>
       p2 = "credential" /\ found(i).update = "CREDENTIAL" /\ ctx.credentials > 0

\* The handler hashes an item, leaves context c and answers.
Take(i, item, c) ==
  /\ hash' = Append(hash, item)
  /\ ctx' = c
  /\ AnswerNow(i)
  /\ UNCHANGED <<read, early>>

KeysLength(i, p2, n) ==
  /\ InCredential(i, p2, "VERIFICATION_KEYS_LENGTH")
  /\ Take(i, Counted("keys", n), [ctx EXCEPT !.keys = n, !.state = "VERIFICATION_KEY"])

\* Mutants of VerificationKey: keys beyond those announced; only a first one shown.
VerificationKeyUncounted(i, p2) ==
  /\ InCredential(i, p2, "VERIFICATION_KEY")
  /\ Take(i, Named("key"), [ctx EXCEPT !.key = Len(hash) + 1, !.keys = @ - 1,
                                       !.state = IF ctx.keys = 1 THEN "SIGNATURE_THRESHOLD" ELSE @])

VerificationKeyUnshown(i, p2) ==
  /\ InCredential(i, p2, "VERIFICATION_KEY") /\ ctx.keys > 0
  /\ Take(i, Named("key"), [ctx EXCEPT !.key = Len(hash) + 1, !.keys = @ - 1,
                                       !.state = IF ctx.keys = 1 THEN "SIGNATURE_THRESHOLD" ELSE @])

\* Each key but the last is shown, the first one behind the intro.
VerificationKey(i, p2) ==
  LET c == [ctx EXCEPT !.key = Len(hash) + 1, !.keys = @ - 1] IN
  /\ InCredential(i, p2, "VERIFICATION_KEY") /\ ctx.keys > 0
  /\ \/ /\ ctx.keys = 1
        /\ Take(i, Named("key"), [c EXCEPT !.state = "SIGNATURE_THRESHOLD"])
     \/ /\ ctx.keys > 1
        /\ hash' = Append(hash, Named("key"))
        /\ ctx' = [c EXCEPT !.showIntro = FALSE]
        /\ Ask(i, IF ctx.showIntro THEN "review" ELSE "key")
        /\ UNCHANGED <<read, early>>

\* Both thresholds, the identity provider and the number of anonymity revokers.
SignatureThreshold(i, p2, n) ==
  /\ InCredential(i, p2, "SIGNATURE_THRESHOLD")
  /\ Take(i, Counted("thresholds", n), [ctx EXCEPT !.ars = n, !.state = "AR_IDENTITY"])

\* "x out of y" needs more than its 13 bytes: an error the dispatcher does not list.
ThresholdTooWide(i, p2) ==
  /\ InCredential(i, p2, "SIGNATURE_THRESHOLD")
  /\ Restart

\* Mutant of ArIdentity: the last one is looked for after counting down.
ArIdentityAfterCounting(i, p2) ==
  /\ InCredential(i, p2, "AR_IDENTITY") /\ ctx.ars > 0
  /\ Take(i, Named("ar"), [ctx EXCEPT !.ars = @ - 1,
                                      !.state = IF ctx.ars <= 2 THEN "CREDENTIAL_DATES" ELSE @])

ArIdentity(i, p2) ==
  /\ InCredential(i, p2, "AR_IDENTITY") /\ ctx.ars > 0
  /\ Take(i, Named("ar"), [ctx EXCEPT !.ars = @ - 1,
                                      !.state = IF ctx.ars = 1 THEN "CREDENTIAL_DATES" ELSE @])

\* The state with n attributes to come.
attributesLeft(n) == IF n = 0 THEN "LENGTH_OF_PROOFS" ELSE "ATTRIBUTE_TAG"

CredentialDates(i, p2, n) ==
  /\ InCredential(i, p2, "CREDENTIAL_DATES")
  /\ Take(i, Counted("dates", n), [ctx EXCEPT !.attributes = n, !.state = attributesLeft(n)])

AttributeTag(i, p2) ==
  /\ InCredential(i, p2, "ATTRIBUTE_TAG")
  /\ Take(i, Named("tag"), [ctx EXCEPT !.state = "ATTRIBUTE_VALUE"])

AttributeValue(i, p2) ==
  /\ InCredential(i, p2, "ATTRIBUTE_VALUE")
  /\ Take(i, Named("value"), [ctx EXCEPT !.attributes = @ - 1,
                                         !.state = attributesLeft(ctx.attributes - 1)])

LengthOfProofs(i, p2, n) ==
  /\ InCredential(i, p2, "LENGTH_OF_PROOFS")
  /\ Take(i, Proof("proofLength", n, p2), [ctx EXCEPT !.proof = n, !.state = "PROOFS"])

\* Mutant of credentialDone: one credential too few is asked for.
credentialDoneEarly(p2) ==
  IF p2 = "credential" /\ ctx.update = "CREDENTIAL" /\ ctx.credentials > 0
    THEN [ctx EXCEPT !.credentials = @ - 1, !.update = "ID_COUNT", !.state = "none"]
    ELSE [ctx EXCEPT !.state = "NEW_OR_EXISTING"]

\* The context behind the last proof byte: P2 and what ctx holds of an update say
\* whether another credential follows.
credentialDone(p2) ==
  IF p2 = "credential" /\ ctx.update = "CREDENTIAL" /\ ctx.credentials > 0
    THEN [ctx EXCEPT !.credentials = @ - 1,
                     !.update = IF ctx.credentials = 1 THEN "ID_COUNT" ELSE "CREDENTIAL_INDEX",
                     !.state = IF ctx.credentials = 1 THEN "none" ELSE "VERIFICATION_KEYS_LENGTH"]
    ELSE [ctx EXCEPT !.state = "NEW_OR_EXISTING"]

\* Full pieces, and the rest: the last command is cut to what is left.
Proofs(i, p2) ==
  /\ InCredential(i, p2, "PROOFS")
  /\ IF ctx.proof > Piece
       THEN Take(i, Proof("proof", Piece, p2), [ctx EXCEPT !.proof = @ - Piece])
       ELSE Take(i, Proof("proof", ctx.proof, p2), credentialDone(p2))

\* A new account, or the address of an existing one.
NewOrExisting(i, p2) ==
  /\ InCredential(i, p2, "NEW_OR_EXISTING")
  /\ hash' = Append(hash, Named("account"))
  /\ Ask(i, IF ctx.showIntro THEN "finalIntro" ELSE "final")
  /\ UNCHANGED <<ctx, read, early>>

\* Neither, or an address that cannot be shown: found out when hashed in part.
NewOrExistingRefused(i, p2) ==
  /\ InCredential(i, p2, "NEW_OR_EXISTING")
  /\ hash' = Append(hash, Named("account"))
  /\ Refuse
  /\ UNCHANGED <<ctx, read, early>>

(***************************************************************************)
(* The rest of a credential update.                                        *)
(***************************************************************************)
InUpdate(s) == Turn(Update) /\ found(Update).update = s

CredentialIndex ==
  /\ InUpdate("CREDENTIAL_INDEX") /\ ctx.credentials > 0
  /\ Take(Update, Named("index"), [ctx EXCEPT !.update = "CREDENTIAL"])

\* The state with n ids to come.
idsLeft(n) == IF n = 0 THEN "THRESHOLD" ELSE "ID"

\* Mutant of IdCount: a second count announces other ids than those hashed.
IdCountAnyTime(n) ==
  /\ InUpdate("ID_COUNT") \/ InUpdate("ID")
  /\ Take(Update, Counted("idCount", n), [ctx EXCEPT !.ids = n, !.update = idsLeft(n)])

IdCount(n) ==
  /\ InUpdate("ID_COUNT")
  /\ Take(Update, Counted("idCount", n), [ctx EXCEPT !.ids = n, !.update = idsLeft(n)])

\* Mutant of CredentialId: the last one is taken without being shown.
CredentialIdLastUnshown ==
  /\ InUpdate("ID")
  /\ hash' = Append(hash, Named("id"))
  /\ ctx' = [ctx EXCEPT !.id = Len(hash) + 1, !.ids = @ - 1, !.update = idsLeft(ctx.ids - 1)]
  /\ IF ctx.ids = 1 THEN AnswerNow(Update) ELSE Ask(Update, "id")
  /\ UNCHANGED <<read, early>>

CredentialId ==
  /\ InUpdate("ID")
  /\ hash' = Append(hash, Named("id"))
  /\ ctx' = [ctx EXCEPT !.id = Len(hash) + 1, !.ids = @ - 1, !.update = idsLeft(ctx.ids - 1)]
  /\ Ask(Update, "id")
  /\ UNCHANGED <<read, early>>

UpdateThreshold ==
  /\ InUpdate("THRESHOLD")
  /\ hash' = Append(hash, Named("threshold"))
  /\ Ask(Update, "threshold")
  /\ UNCHANGED <<ctx, read, early>>

(***************************************************************************)
(* The buttons.                                                            *)
(***************************************************************************)
FinalFlows == {"final", "finalIntro"}
Signing    == FinalFlows \cup {"threshold"}

\* "Continue with transaction", at the head of an update.
PressContinueInitial ==
  /\ screen = "initial"
  /\ PressContinue
  /\ UNCHANGED <<hash, ctx, read, early>>

\* "Review details" heads two flows and answers the command.
PressReview ==
  /\ screen \in {"review", "finalIntro"}
  /\ PressContinue
  /\ early' = TRUE
  /\ UNCHANGED <<hash, ctx, read>>

\* processNextVerificationKey. A key is on display only while others are to come,
\* so that its other branch is dead.
PressKey ==
  /\ screen \in {"review", "key"}
  /\ PressContinue
  /\ read' = read \cup {ctx.key}
  /\ UNCHANGED <<hash, ctx, early>>

\* "AR threshold", in the middle of the final flow, answers too.
PressArThreshold ==
  /\ screen \in FinalFlows
  /\ PressContinue
  /\ early' = TRUE
  /\ read' = read \cup {ctx.key}
  /\ UNCHANGED <<hash, ctx>>

\* "Rem. credential"
PressId ==
  /\ screen = "id"
  /\ PressContinue
  /\ read' = read \cup {ctx.id}
  /\ UNCHANGED <<hash, ctx, early>>

\* The final flow of a deployment shows the last key, that of an update none.
Signature ==
  [kind |-> "signature", over |-> hash, early |-> early,
   read |-> IF screen \in FinalFlows THEN read \cup {ctx.key} ELSE read]

PressSign ==
  /\ screen \in Signing
  /\ PressAnswer(Signature)
  /\ hash' = Spent
  /\ UNCHANGED <<ctx, read, early>>

PressSignFails ==
  /\ screen \in Signing
  /\ PressThrow
  /\ hash' = Spent
  /\ UNCHANGED <<ctx, read, early>>

PressDecline ==
  /\ screen \in Signing
  /\ PressAnswer(Rejection)
  /\ UNCHANGED <<hash, ctx, read, early>>

\* A step left alive answers again, when nothing is owed any more.
PressStray ==
  /\ screen \in Signing \cup {"initial", "review", "key", "id"} /\ ~owed
  /\ Restart

PressQuit == screen = "idle" /\ Restart

PowerLost == Restart

Dispatch ==
  /\ BadCommand \/ \E i \in Ours : SwitchInstruction(i)
  /\ UNCHANGED <<hash, ctx, read, early>>

\* Any other instruction: its context lies over ours and its transaction takes
\* the hash. It runs to its end, or waits for its next command.
OtherInstruction(update, n, intro) ==
  /\ Accepts(Other)
  /\ hash' = Spent
  /\ ctx' = [NoContext EXCEPT !.update = update, !.credentials = n, !.showIntro = intro]
  /\ read' = {} /\ early' = FALSE
  /\ \/ uiIdle /\ owed' = FALSE /\ reply' = Success
     \/ AnswerNow(Other)

Command ==
  \/ Dispatch
  \/ DeployInitial
  \/ \E n \in 0..MaxCredentials : UpdateInitial(n) \/ IdCount(n)
  \/ \E i \in Ours : InitialRefused(i) \/ OutOfTurn(i)
  \/ \E i \in Ours, p2 \in P2 :
       \/ \E n \in 0..MaxKeys : KeysLength(i, p2, n)
       \/ VerificationKey(i, p2) \/ ThresholdTooWide(i, p2)
       \/ \E n \in 0..MaxList : SignatureThreshold(i, p2, n) \/ CredentialDates(i, p2, n)
       \/ ArIdentity(i, p2) \/ AttributeTag(i, p2) \/ AttributeValue(i, p2)
       \/ \E n \in 0..MaxProof : LengthOfProofs(i, p2, n)
       \/ Proofs(i, p2) \/ NewOrExisting(i, p2) \/ NewOrExistingRefused(i, p2)
  \/ CredentialIndex \/ CredentialId \/ UpdateThreshold
  \/ \E update \in {"none", "CREDENTIAL"}, n \in {0, MaxCredentials}, intro \in BOOLEAN :
       OtherInstruction(update, n, intro)

Button ==
  \/ PressContinueInitial \/ PressReview \/ PressKey \/ PressArThreshold \/ PressId
  \/ PressSign \/ PressSignFails \/ PressDecline \/ PressStray \/ PressQuit

Next == Command \/ Button \/ PowerLost

Spec == Init /\ [][Next]_vars
-----------------------------------------------------------------------------
States ==
  {"none", "INITIAL", "VERIFICATION_KEYS_LENGTH", "VERIFICATION_KEY", "SIGNATURE_THRESHOLD",
   "AR_IDENTITY", "CREDENTIAL_DATES", "ATTRIBUTE_TAG", "ATTRIBUTE_VALUE", "LENGTH_OF_PROOFS",
   "PROOFS", "NEW_OR_EXISTING"}
UpdateStates ==
  {"none", "INITIAL", "CREDENTIAL_INDEX", "CREDENTIAL", "ID_COUNT", "ID", "THRESHOLD"}

\* Every variable keeps to the values its C type and the handlers allow; no
\* countdown passes zero.
TypeOK ==
  /\ currentInstruction \in Ours \cup {Other, None}
  /\ owed \in BOOLEAN
  /\ screen \in Signing \cup {"idle", "frozen", "initial", "review", "key", "id"}
  /\ Len(hash) <= MaxItems
  /\ ctx.state \in States /\ ctx.update \in UpdateStates
  /\ ctx.credentials \in 0..MaxCredentials /\ ctx.ids \in 0..MaxCredentials
  /\ ctx.keys \in 0..MaxKeys /\ ctx.ars \in 0..MaxList /\ ctx.attributes \in 0..MaxList
  /\ ctx.proof \in 0..MaxProof
  /\ read \subseteq 0..MaxItems

\* There is a signature, and not of a hash that a failed attempt has spent.
Signed == reply.kind = "signature" /\ reply.over # Spent

At(h, name) == {i \in 1..Len(h) : h[i].item = name}

(***************************************************************************)
(* The transaction as its reader knows it behind each item:                *)
(*   next, left        in a credential, the item to come next, and how     *)
(*                     many of its kind, or bytes of the proof;            *)
(*   whole             whether every item of a credential, and none of     *)
(*                     another kind, has come in its turn;                 *)
(*   then              around the credentials, the item to come next;      *)
(*   credentials, ids  those of an update that are to come;                *)
(*   ordered           whether the items around have come in their turn;   *)
(*   accounts          the accounts of a deployment.                       *)
(***************************************************************************)
Unread ==
  [next |-> "outside", left |-> 0, whole |-> TRUE,
   then |-> "start", credentials |-> 0, ids |-> 0, ordered |-> TRUE,
   accounts |-> 0]

\* The items of a credential behind its number of keys.
Inner == {"key", "thresholds", "ar", "dates", "tag", "value", "proofLength", "proof"}

\* What an item takes of what is left.
Uses(i) ==
  IF i.item = "proof" THEN i.size ELSE IF i.item \in {"key", "ar", "value"} THEN 1 ELSE 0

InTurn(k, i) ==
  IF i.item \in Inner THEN i.item = k.next /\ Uses(i) <= k.left ELSE k.next = "outside"

NextInside(k, i) ==
  CASE i.item = "keys"        -> "key"
    [] i.item = "key"         -> IF k.left > 1 THEN "key" ELSE "thresholds"
    [] i.item = "thresholds"  -> "ar"
    [] i.item = "ar"          -> IF k.left > 1 THEN "ar" ELSE "dates"
    [] i.item = "dates"       -> IF i.size > 0 THEN "tag" ELSE "proofLength"
    [] i.item = "tag"         -> "value"
    [] i.item = "value"       -> IF k.left > 1 THEN "tag" ELSE "proofLength"
    [] i.item = "proofLength" -> "proof"
    [] i.item = "proof"       -> IF k.left > i.size THEN "proof" ELSE "outside"
    [] OTHER                  -> k.next

LeftInside(k, i) ==
  IF i.item \in {"keys", "thresholds", "dates", "proofLength"} THEN i.size ELSE k.left - Uses(i)

InTurnAround(k, i) ==
  i.item \in Inner \/ i.item = k.then \/ (k.then = "start" /\ i.item \in {"head", "keys"})

\* A transaction that begins with the number of keys is a deployment.
NextAround(k, i) ==
  CASE i.item = "head"      -> IF i.size > 0 THEN "index" ELSE "idCount"
    [] i.item = "index"     -> "keys"
    [] i.item = "keys"      -> IF k.then = "start" THEN "account"
                               ELSE IF k.credentials > 0 THEN "index" ELSE "idCount"
    [] i.item = "idCount"   -> IF i.size > 0 THEN "id" ELSE "threshold"
    [] i.item = "id"        -> IF k.ids > 1 THEN "id" ELSE "threshold"
    [] i.item = "threshold" -> "end"
    [] OTHER                -> k.then

ReadItem(k, i) ==
  [next        |-> NextInside(k, i),
   left        |-> LeftInside(k, i),
   whole       |-> k.whole /\ InTurn(k, i),
   then        |-> NextAround(k, i),
   credentials |-> IF i.item = "head" THEN i.size
                   ELSE IF i.item = "index" THEN k.credentials - 1 ELSE k.credentials,
   ids         |-> IF i.item = "idCount" THEN i.size
                   ELSE IF i.item = "id" THEN k.ids - 1 ELSE k.ids,
   ordered     |-> k.ordered /\ InTurnAround(k, i),
   accounts    |-> IF i.item = "account" THEN k.accounts + 1 ELSE k.accounts]

Transaction == INSTANCE Reading WITH Nothing <- Unread, Read <- ReadItem
Known(h) == Transaction!After(h)

\* Every credential under a signature is whole: the keys, revokers, attributes and
\* proof bytes that were announced, in their order, whoever ran its handler, and not
\* an item of one outside of it.
SignedCredentialsAreWhole ==
  Signed => Known(reply.over).whole /\ Known(reply.over).next = "outside"

IsUpdate(h) == h[1].item = "head"

\* A deployment none of whose proof commands claims, in P2, to be of an update.
IsDeployment(h) == ~IsUpdate(h) /\ \A i \in At(h, "proof") : h[i].p2 # "credential"

UpdateTransaction(k)     == k.ordered /\ k.then = "end"
DeploymentTransaction(k) == k.ordered /\ k.then = "account" /\ k.accounts > 0

\* A signature covers one transaction: an update has as many credentials, each with
\* its index, and as many removed ids as it announces, and a deployment has one
\* credential, although both count in one context that nobody clears.
SignedIsOneTransaction ==
  LET h == reply.over IN
  Signed => /\ IsUpdate(h) => UpdateTransaction(Known(h))
            /\ IsDeployment(h) => DeploymentTransaction(Known(h))

\* A user who pages past the steps that answer early has had every key of the
\* deployed credential on display, and signs for exactly one account.
DeploymentIsReviewed ==
  LET h == reply.over IN
  Signed /\ IsDeployment(h) /\ ~reply.early =>
    At(h, "key") \subseteq reply.read /\ Known(h).accounts = 1

\* Every credential an update removes has been on display, and so has, for such a
\* user, every key it adds that another key of its credential follows.
UpdateIsReviewed ==
  LET h == reply.over IN
  Signed /\ IsUpdate(h) =>
    /\ At(h, "id") \subseteq reply.read
    /\ ~reply.early => {k \in At(h, "key") : h[k + 1].item = "key"} \subseteq reply.read

\* "Do not display the last verification key here. This is deferred to the final UI
\* flow" (signCredentialDeployment.c): for a user who pages past the steps that
\* answer early, every key under a signature has been on display.
LastKeyIsShown ==
  Signed /\ ~reply.early /\ (IsUpdate(reply.over) \/ IsDeployment(reply.over)) =>
    At(reply.over, "key") \subseteq reply.read

(***************************************************************************)
(* The instruction is a device that signs what has been reviewed: of an    *)
(* update the ids it removes and then its threshold, of a deployment its   *)
(* keys, the last of them in the final flow. A deployment is under review  *)
(* while no proof claims to be of an update and no early step is pressed.  *)
(***************************************************************************)
\* The item that announces the parts, and the parts.
CountItem(h) == IF IsUpdate(h) THEN "idCount" ELSE "keys"
Parts(h)     == At(h, IF IsUpdate(h) THEN "id" ELSE "key")
\* The threshold of an update is a part behind those announced.
Extra(h)     == IF IsUpdate(h) THEN 1 ELSE 0

IsAnnounced(h) == h # <<>> /\ At(h, CountItem(h)) # {}
Announced(h)   == h[CHOOSE i \in At(h, CountItem(h)) : TRUE].size + Extra(h)

UnderReview ==
  /\ currentInstruction \in Ours /\ IsAnnounced(hash)
  /\ IsUpdate(hash) \/ (IsDeployment(hash) /\ ~early)

announced == IF UnderReview THEN Announced(hash) ELSE -1
reviewed  == IF UnderReview THEN Cardinality(Parts(hash) \cap read) ELSE 0
signed ==
  LET h == reply.over IN
  IF Signed /\ (IsUpdate(h) \/ (IsDeployment(h) /\ ~reply.early))
    THEN [parts |-> Announced(h),
          count |-> Cardinality(Parts(h)) + Extra(h),
          read  |-> Cardinality(Parts(h) \cap reply.read) + Extra(h)]
    ELSE [parts |-> 0, count |-> 0, read |-> 0]

Reviewed == INSTANCE ReviewedSigning
  WITH NoReview <- -1, MaxParts <- MaxCredentials + MaxKeys + 1

\* Whatever the commands and dialogs in between, and whichever instruction ran last,
\* each signature ends a review of its own, of as many ids or keys as were announced,
\* each paged through before the next came.
SignsWhatIsReviewed == Reviewed!Spec
=============================================================================
