-------------------------- MODULE PublicInfoForIp ---------------------------
(***************************************************************************)
(* Signing the public information for an identity provider                 *)
(* (src/src/signPublicInformationForIp.c): a first command with the number *)
(* of keys, one command per key, and one with the signature threshold.     *)
(* Each key but the last is shown and answered on its own; the last one    *)
(* is shown with the threshold. The hash is abstracted to the declared     *)
(* number, the keys and the thresholds it was fed, in order.               *)
(*                                                                         *)
(* A flow is a sequence of steps the user pages through, so who presses a  *)
(* step has had the data steps before it on display.                       *)
(***************************************************************************)
EXTENDS Device, Sequences

CONSTANTS
  Keys,            \* verification keys
  Thresholds,      \* signature thresholds
  Garbage,         \* bytes of another instruction's context
  MaxKeys,         \* largest number of keys: 255
  MaxThresholds    \* bound on the threshold commands of one transaction

ASSUME PublicInfoAssumption ==
  /\ Garbage \notin Keys \cup Thresholds
  /\ MaxKeys \in Nat /\ MaxThresholds \in Nat

ASSUME NoneIsNoInstruction == None \notin {"PUBLIC_INFO_FOR_IP", "another instruction"}

VARIABLES
  hash,       \* what tx_state->hash covers
  ctx,        \* signPublicInformationForIp_t
  read,       \* history: the keys the user has paged through
  reviewed    \* history: the user has pressed the step "Review identity"

vars == <<deviceVars, hash, ctx, read, reviewed>>

Ours  == "PUBLIC_INFO_FOR_IP"
Other == "another instruction"

NoTransaction == [declared |-> 0, keys |-> <<>>, thresholds |-> <<>>]
NoContext ==
  [state |-> "none", keysLeft |-> 0, showIntro |-> FALSE, key |-> Garbage, threshold |-> Garbage]

Init ==
  /\ DeviceInit
  /\ hash = NoTransaction /\ ctx = NoContext /\ read = <<>> /\ reviewed = FALSE

Restart ==
  /\ DeviceRestart
  /\ hash' = NoTransaction /\ ctx' = NoContext /\ read' = <<>> /\ reviewed' = FALSE

\* ctx->state as the handler finds it.
foundState == IF isInitialCall THEN "INITIAL" ELSE ctx.state

Initial(n) ==
  /\ Accepts(Ours)
  /\ foundState = "INITIAL"
  /\ hash' = [NoTransaction EXCEPT !.declared = n]
  /\ ctx' = [ctx EXCEPT !.state = "VERIFICATION_KEY", !.keysLeft = n, !.showIntro = TRUE]
  /\ read' = <<>> /\ reviewed' = FALSE
  /\ AnswerNow(Ours)

\* A path too long is refused before the hash is touched.
InitialRefused ==
  /\ Accepts(Ours)
  /\ foundState = "INITIAL"
  /\ ctx' = [ctx EXCEPT !.state = "INITIAL"]
  /\ Refuse
  /\ UNCHANGED <<hash, read, reviewed>>

\* A key nobody announced, or a P1 that does not fit the state.
OutOfTurn ==
  /\ Accepts(Ours)
  /\ ctx' = [ctx EXCEPT !.state = foundState]
  /\ Refuse
  /\ UNCHANGED <<hash, read, reviewed>>

\* Mutants of VerificationKey: keys are not counted against the announcement; the
\* last key's text is not prepared; keys after the first are not shown.
VerificationKeyUncounted(k) ==
  /\ Accepts(Ours)
  /\ foundState = "VERIFICATION_KEY"
  /\ hash' = [hash EXCEPT !.keys = Append(@, k)]
  /\ ctx' = [ctx EXCEPT !.key = k, !.keysLeft = @ - 1, !.state = "THRESHOLD"]
  /\ AnswerNow(Ours)
  /\ UNCHANGED <<read, reviewed>>

VerificationKeyStaleText(k) ==
  /\ Accepts(Ours)
  /\ foundState = "VERIFICATION_KEY"
  /\ ctx.keysLeft > 0
  /\ hash' = [hash EXCEPT !.keys = Append(@, k)]
  /\ IF ctx.keysLeft > 1
       THEN /\ ctx' = [ctx EXCEPT !.key = k, !.keysLeft = @ - 1, !.showIntro = FALSE]
            /\ Ask(Ours, "publicKey")
       ELSE /\ ctx' = [ctx EXCEPT !.keysLeft = 0, !.state = "THRESHOLD"]
            /\ AnswerNow(Ours)
  /\ UNCHANGED <<read, reviewed>>

VerificationKeyUnshown(k) ==
  /\ Accepts(Ours)
  /\ foundState = "VERIFICATION_KEY"
  /\ ctx.keysLeft > 0
  /\ hash' = [hash EXCEPT !.keys = Append(@, k)]
  /\ ctx' = [ctx EXCEPT !.key = k, !.keysLeft = @ - 1,
                        !.state = IF ctx.keysLeft = 1 THEN "THRESHOLD" ELSE @]
  /\ AnswerNow(Ours)
  /\ UNCHANGED <<read, reviewed>>

VerificationKey(k) ==
  /\ Accepts(Ours)
  /\ foundState = "VERIFICATION_KEY"
  /\ ctx.keysLeft > 0
  /\ hash' = [hash EXCEPT !.keys = Append(@, k)]
  /\ \/ /\ ctx.keysLeft > 1 /\ ctx.showIntro
        /\ ctx' = [ctx EXCEPT !.key = k, !.keysLeft = @ - 1, !.showIntro = FALSE]
        /\ Ask(Ours, "review")
     \/ /\ ctx.keysLeft > 1 /\ ~ctx.showIntro
        /\ ctx' = [ctx EXCEPT !.key = k, !.keysLeft = @ - 1]
        /\ Ask(Ours, "publicKey")
     \/ /\ ctx.keysLeft = 1
        /\ ctx' = [ctx EXCEPT !.key = k, !.keysLeft = 0, !.state = "THRESHOLD"]
        /\ AnswerNow(Ours)
  /\ UNCHANGED <<read, reviewed>>

\* Mutant of Threshold: it is taken before all keys have come.
ThresholdEarly(t) ==
  /\ Accepts(Ours)
  /\ foundState \in {"VERIFICATION_KEY", "THRESHOLD"}
  /\ Len(hash.thresholds) < MaxThresholds
  /\ hash' = [hash EXCEPT !.thresholds = Append(@, t)]
  /\ ctx' = [ctx EXCEPT !.threshold = t]
  /\ Ask(Ours, IF ctx.showIntro THEN "complete" ELSE "final")
  /\ UNCHANGED <<read, reviewed>>

Threshold(t) ==
  /\ Accepts(Ours)
  /\ foundState = "THRESHOLD"
  /\ Len(hash.thresholds) < MaxThresholds
  /\ hash' = [hash EXCEPT !.thresholds = Append(@, t)]
  /\ ctx' = [ctx EXCEPT !.threshold = t]
  /\ Ask(Ours, IF ctx.showIntro THEN "complete" ELSE "final")
  /\ UNCHANGED <<read, reviewed>>

(***************************************************************************)
(* The buttons.                                                            *)
(***************************************************************************)
\* "Review identity provider info" heads two flows and answers the command.
PressReview ==
  /\ screen \in {"review", "complete"}
  /\ PressContinue
  /\ reviewed' = TRUE
  /\ UNCHANGED <<hash, ctx, read>>

\* "Continue reviewing info"
PressContinueKey ==
  /\ screen \in {"review", "publicKey"}
  /\ PressContinue
  /\ read' = Append(read, ctx.key)
  /\ UNCHANGED <<hash, ctx, reviewed>>

Signing == {"final", "complete"}

Signature ==
  [kind |-> "signature", over |-> hash, read |-> Append(read, ctx.key),
   threshold |-> ctx.threshold, reviewed |-> reviewed]

PressSign ==
  /\ screen \in Signing
  /\ PressAnswer(Signature)
  /\ hash' = NoTransaction
  /\ UNCHANGED <<ctx, read, reviewed>>

PressSignFails ==
  /\ screen \in Signing
  /\ PressThrow
  /\ hash' = NoTransaction
  /\ UNCHANGED <<ctx, read, reviewed>>

PressDecline ==
  /\ screen \in Signing
  /\ PressAnswer(Rejection)
  /\ UNCHANGED <<hash, ctx, read, reviewed>>

\* A step left alive answers again, when nothing is owed any more.
PressStray ==
  /\ screen \in Signing \cup {"review", "publicKey"} /\ ~owed
  /\ Restart

PressQuit == screen = "idle" /\ Restart

PowerLost == Restart

Dispatch ==
  /\ BadCommand \/ SwitchInstruction(Ours)
  /\ UNCHANGED <<hash, ctx, read, reviewed>>

\* Any other instruction: its context lies over ours and its transaction takes
\* the hash. It runs to its end, or waits for its next command.
OtherInstruction ==
  /\ Accepts(Other)
  /\ hash' = NoTransaction
  /\ ctx' \in {[ctx EXCEPT !.key = Garbage, !.threshold = Garbage, !.showIntro = b] : b \in BOOLEAN}
  /\ \/ uiIdle /\ owed' = FALSE /\ reply' = Success
     \/ AnswerNow(Other)
  /\ UNCHANGED <<read, reviewed>>

Command ==
  \/ Dispatch
  \/ \E n \in 0..MaxKeys : Initial(n)
  \/ InitialRefused \/ OutOfTurn
  \/ \E k \in Keys : VerificationKey(k)
  \/ \E t \in Thresholds : Threshold(t)
  \/ OtherInstruction

Button ==
  \/ PressReview \/ PressContinueKey
  \/ PressSign \/ PressSignFails \/ PressDecline
  \/ PressStray \/ PressQuit

Next == Command \/ Button \/ PowerLost

Spec == Init /\ [][Next]_vars
-----------------------------------------------------------------------------
\* Every variable keeps to the values its C type and the handler allow.
TypeOK ==
  /\ currentInstruction \in {Ours, Other, None}
  /\ owed \in BOOLEAN
  /\ screen \in Signing \cup {"idle", "frozen", "review", "publicKey"}
  /\ hash \in [declared : 0..MaxKeys, keys : Seq(Keys), thresholds : Seq(Thresholds)]
  /\ ctx \in [state : {"none", "INITIAL", "VERIFICATION_KEY", "THRESHOLD"},
              keysLeft : 0..MaxKeys, showIntro : BOOLEAN,
              key : Keys \cup {Garbage}, threshold : Thresholds \cup {Garbage}]
  /\ read \in Seq(Keys)
  /\ reviewed \in BOOLEAN

\* There is a signature, and not of a hash that a failed attempt has spent.
Signed == reply.kind = "signature" /\ reply.over # NoTransaction

\* A signature covers as many keys as the count under it says, and at least one:
\* the head, the keys and the threshold cannot be reordered or cut short.
SignedKeysAreDeclared ==
  Signed =>
    /\ Len(reply.over.keys) = reply.over.declared /\ reply.over.declared > 0
    /\ reply.over.thresholds # <<>>

\* The key and the threshold of the signing dialog are the last ones hashed,
\* although they arrive in two commands and share memory with other contexts.
SigningDialogIsCurrent ==
  Signed =>
    /\ reply.read[Len(reply.read)] = reply.over.keys[Len(reply.over.keys)]
    /\ reply.threshold = reply.over.thresholds[Len(reply.over.thresholds)]

\* A user who never presses the review step, but pages past it, has every key
\* under the signature on display, in order, and exactly one threshold.
PagedThroughIsComplete ==
  Signed /\ ~reply.reviewed =>
    reply.read = reply.over.keys /\ Len(reply.over.thresholds) = 1
=============================================================================
