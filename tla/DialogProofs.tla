---------------------------- MODULE DialogProofs ----------------------------
(***************************************************************************)
(* Two kinds of dialogs: the public information for an identity provider,  *)
(* and the instructions of one command.                                    *)
(*                                                                         *)
(* For every number of keys and thresholds, and whether or not the UX      *)
(* engine keeps a pressed step alive: the public information for an        *)
(* identity provider keeps its types, and a signature covers as many keys  *)
(* as announced, under a dialog of the last key and threshold, all of them *)
(* shown to a user who pages through.  The argument is InfoInv.            *)
(*                                                                         *)
(* For every number and address: an instruction of one command shows what  *)
(* it hashes, in texts that read as the values and fit their buffers, and  *)
(* hands out the keys on display.  What a dialog finds in memory is        *)
(* SingleInv; that a text reads as its value is a chain of lemmas, from    *)
(* the reader and the zeroes of a number to each conversion.               *)
(***************************************************************************)
EXTENDS PublicInfoForIp, SingleCommand, SequenceTheorems, TLAPS

InProgress == currentInstruction = Ours

LastOf(s) == s[Len(s)]

Hashes == [declared : 0..MaxKeys, keys : Seq(Keys), thresholds : Seq(Thresholds)]

Contexts ==
  [state : {"none", "INITIAL", "VERIFICATION_KEY", "THRESHOLD"},
   keysLeft : 0..MaxKeys, showIntro : BOOLEAN,
   key : Keys \cup {Garbage}, threshold : Thresholds \cup {Garbage}]

\* A command still owed is ours, or ended in an error that left the hash blank.
DialogInv ==
  owed =>
    \/ currentInstruction = None /\ hash = NoTransaction /\ screen \notin {"review", "publicKey"}
    \/ /\ InProgress
       /\ screen \in Signing \cup {"review", "publicKey"}
       /\ screen \in Signing => ctx.state = "THRESHOLD"
       /\ screen \notin Signing => ctx.state = "VERIFICATION_KEY"

\* Keys hashed and keys to come add up to the announcement, and the context
\* holds what was hashed last.
CountInv ==
  InProgress =>
    /\ ctx.state \in {"VERIFICATION_KEY", "THRESHOLD"}
    /\ Len(hash.keys) + ctx.keysLeft = hash.declared
    /\ hash.keys # <<>> => ctx.key = LastOf(hash.keys)
    /\ hash.thresholds # <<>> => ctx.threshold = LastOf(hash.thresholds)
    /\ ctx.state = "THRESHOLD" => ctx.keysLeft = 0 /\ hash.keys # <<>>
    /\ owed => IF ctx.state = "THRESHOLD" THEN hash.thresholds # <<>> ELSE hash.keys # <<>>

\* Without the review step, what is hashed is what was read and what is on display.
ReadInv ==
  InProgress /\ ~reviewed =>
    /\ hash.keys = IF ctx.state = "THRESHOLD" \/ owed THEN Append(read, ctx.key) ELSE read
    /\ Len(hash.thresholds) = IF ctx.state = "THRESHOLD" /\ owed THEN 1 ELSE 0

SignedInv == SignedKeysAreDeclared /\ SigningDialogIsCurrent /\ PagedThroughIsComplete

InfoInv == DialogInv /\ CountInv /\ ReadInv /\ SignedInv
-----------------------------------------------------------------------------
LEMMA Names == None \notin {Ours, Other} /\ Ours # Other
  BY NoneIsNoInstruction DEF Ours, Other

LEMMA EmptyType == ASSUME NEW S PROVE <<>> \in Seq(S) /\ Len(<<>>) = 0
  OBVIOUS

LEMMA BlankType == NoTransaction \in Hashes
  <1>1. 0 \in 0..MaxKeys
    BY PublicInfoAssumption
  <1>2. QED
    BY <1>1, EmptyType DEF NoTransaction, Hashes

LEMMA BlankContext == NoContext \in Contexts
  <1>1. 0 \in 0..MaxKeys
    BY PublicInfoAssumption
  <1>2. QED
    BY <1>1 DEF NoContext, Contexts

TypeParts ==
  /\ currentInstruction \in {Ours, Other, None} /\ owed \in BOOLEAN
  /\ screen \in {"final", "complete", "idle", "frozen", "review", "publicKey"}
  /\ hash \in Hashes /\ ctx \in Contexts /\ read \in Seq(Keys) /\ reviewed \in BOOLEAN

LEMMA TypeIs == TypeOK <=> TypeParts
  BY DEF TypeOK, TypeParts, Hashes, Contexts, Signing

\* A sequence keeps what it held when an element is added, which is then its last.
LEMMA Appended ==
  ASSUME NEW S, NEW s \in Seq(S), NEW x \in S
  PROVE  /\ Append(s, x) \in Seq(S) /\ Append(s, x) # <<>>
         /\ Len(Append(s, x)) = Len(s) + 1 /\ LastOf(Append(s, x)) = x
  BY DEF LastOf

LEMMA LastType ==
  ASSUME NEW S, NEW s \in Seq(S), s # <<>>
  PROVE  LastOf(s) \in S
  BY DEF LastOf

(***************************************************************************)
(* The types.                                                              *)
(***************************************************************************)
LEMMA TypeInit == Init => TypeOK
  BY BlankContext, BlankType, EmptyType, TypeIs DEF Init, DeviceInit, TypeParts

LEMMA TypeRestart == Restart => TypeParts'
  BY BlankContext, BlankType, EmptyType DEF Restart, DeviceRestart, uiIdle, TypeParts

\* The screen after a callback that starts no flow.
LEMMA ScreenLeft == LeaveScreen => screen' \in {screen, "frozen"}
  BY DEF LeaveScreen

LEMMA KeyHashed ==
  ASSUME TypeOK, NEW k \in Keys, VerificationKey(k)
  PROVE  /\ hash' \in Hashes /\ ctx' \in Contexts
         /\ hash'.keys = Append(hash.keys, k) /\ hash'.declared = hash.declared
         /\ hash'.thresholds = hash.thresholds
         /\ ctx.keysLeft > 0 /\ ctx'.keysLeft = ctx.keysLeft - 1
         /\ ctx'.key = k /\ ctx'.threshold = ctx.threshold
         /\ ctx'.state = IF ctx.keysLeft = 1 THEN "THRESHOLD" ELSE ctx.state
  <1>1. hash \in Hashes /\ ctx \in Contexts
    BY TypeIs DEF TypeParts
  <1>2. Append(hash.keys, k) \in Seq(Keys)
    BY <1>1, Appended DEF Hashes
  <1>3. hash' = [hash EXCEPT !.keys = Append(hash.keys, k)]
    BY DEF VerificationKey
  <1>4. /\ hash' \in Hashes
        /\ hash'.keys = Append(hash.keys, k) /\ hash'.declared = hash.declared
        /\ hash'.thresholds = hash.thresholds
    BY <1>1, <1>2, <1>3 DEF Hashes
  <1>5. ctx.keysLeft > 0 /\ ctx.keysLeft - 1 \in 0..MaxKeys
    BY <1>1, PublicInfoAssumption DEF VerificationKey, Contexts
  <1>6. /\ ctx' \in Contexts
        /\ ctx'.keysLeft = ctx.keysLeft - 1
        /\ ctx'.key = k /\ ctx'.threshold = ctx.threshold
        /\ ctx'.state = IF ctx.keysLeft = 1 THEN "THRESHOLD" ELSE ctx.state
    <2> DEFINE left == ctx.keysLeft - 1
    <2>0. left \in 0..MaxKeys /\ ctx.keysLeft \in Nat /\ (left = 0 <=> ctx.keysLeft = 1)
      BY <1>1, <1>5, PublicInfoAssumption DEF Contexts
    <2>1. \/ ctx' = [ctx EXCEPT !.key = k, !.keysLeft = left, !.showIntro = FALSE] /\ left # 0
          \/ ctx' = [ctx EXCEPT !.key = k, !.keysLeft = left] /\ left # 0
          \/ ctx' = [ctx EXCEPT !.key = k, !.keysLeft = 0, !.state = "THRESHOLD"] /\ left = 0
      BY <2>0 DEF VerificationKey
    <2>2. ctx.keysLeft = 1 <=> left = 0
      BY <2>0
    <2> HIDE DEF left
    <2>3. /\ ctx' \in Contexts
          /\ ctx'.keysLeft = left
          /\ ctx'.key = k /\ ctx'.threshold = ctx.threshold
          /\ ctx'.state = IF left = 0 THEN "THRESHOLD" ELSE ctx.state
      <3>1. left \in 0..MaxKeys
        BY <2>0
      <3>2. CASE ctx' = [ctx EXCEPT !.key = k, !.keysLeft = left, !.showIntro = FALSE] /\ left # 0
        BY <1>1, <3>1, <3>2 DEF Contexts
      <3>3. CASE ctx' = [ctx EXCEPT !.key = k, !.keysLeft = left] /\ left # 0
        BY <1>1, <3>1, <3>3 DEF Contexts
      <3>4. CASE ctx' = [ctx EXCEPT !.key = k, !.keysLeft = 0, !.state = "THRESHOLD"] /\ left = 0
        BY <1>1, <3>1, <3>4 DEF Contexts
      <3>5. QED
        BY <2>1, <3>2, <3>3, <3>4
    <2>4. QED
      BY <2>2, <2>3 DEF left
  <1>7. QED
    BY <1>4, <1>5, <1>6

LEMMA ThresholdHashed ==
  ASSUME TypeOK, NEW t \in Thresholds, Threshold(t)
  PROVE  /\ hash' \in Hashes /\ ctx' \in Contexts
         /\ hash'.thresholds = Append(hash.thresholds, t)
         /\ hash'.keys = hash.keys /\ hash'.declared = hash.declared
         /\ ctx'.threshold = t /\ ctx'.key = ctx.key
         /\ ctx'.state = ctx.state /\ ctx'.keysLeft = ctx.keysLeft
  <1>1. hash \in Hashes /\ ctx \in Contexts
    BY TypeIs DEF TypeParts
  <1>2. Append(hash.thresholds, t) \in Seq(Thresholds)
    BY <1>1, Appended DEF Hashes
  <1>3. hash' = [hash EXCEPT !.thresholds = Append(hash.thresholds, t)]
    BY DEF Threshold
  <1>4. ctx' = [ctx EXCEPT !.threshold = t]
    BY DEF Threshold
  <1>5. /\ hash' \in Hashes
        /\ hash'.thresholds = Append(hash.thresholds, t)
        /\ hash'.keys = hash.keys /\ hash'.declared = hash.declared
    BY <1>1, <1>2, <1>3 DEF Hashes
  <1>6. QED
    BY <1>1, <1>4, <1>5 DEF Contexts

LEMMA HeadHashed ==
  ASSUME TypeOK, NEW n \in 0..MaxKeys, Initial(n)
  PROVE  /\ hash' \in Hashes /\ ctx' \in Contexts
         /\ hash'.declared = n /\ hash'.keys = <<>> /\ hash'.thresholds = <<>>
         /\ ctx'.state = "VERIFICATION_KEY" /\ ctx'.keysLeft = n
  <1>1. ctx \in Contexts
    BY TypeIs DEF TypeParts
  <1>2. hash' = [declared |-> n, keys |-> <<>>, thresholds |-> <<>>]
    BY DEF Initial, NoTransaction
  <1>3. ctx' = [ctx EXCEPT !.state = "VERIFICATION_KEY", !.keysLeft = n, !.showIntro = TRUE]
    BY DEF Initial
  <1>4. /\ hash' \in Hashes
        /\ hash'.declared = n /\ hash'.keys = <<>> /\ hash'.thresholds = <<>>
    BY <1>2, EmptyType DEF Hashes
  <1>5. ctx' \in Contexts /\ ctx'.state = "VERIFICATION_KEY" /\ ctx'.keysLeft = n
    BY <1>1, <1>3 DEF Contexts
  <1>6. QED
    BY <1>4, <1>5

LEMMA TypeNext == TypeOK /\ InfoInv /\ [Next]_vars => TypeOK'
  <1> SUFFICES ASSUME TypeOK, InfoInv, [Next]_vars PROVE TypeParts'
    BY DEF TypeOK, TypeParts, Hashes, Contexts, Signing
  <1>0. TypeParts
    BY TypeIs
  <1> USE DEF TypeParts
  <1>1. CASE Dispatch
    BY <1>0, <1>1 DEF Dispatch, BadCommand, SwitchInstruction, Refuse
  <1>2. ASSUME NEW n \in 0..MaxKeys, Initial(n) PROVE TypeParts'
    <2>1. hash' \in Hashes /\ ctx' \in Contexts
      BY <1>2, HeadHashed
    <2>2. QED
      BY <1>0, <1>2, <2>1, EmptyType DEF Initial, AnswerNow
  <1>3. CASE InitialRefused
    BY <1>0, <1>3 DEF InitialRefused, Refuse, Contexts
  <1>4. CASE OutOfTurn
    BY <1>0, <1>4 DEF OutOfTurn, foundState, Refuse, Contexts
  <1>5. ASSUME NEW k \in Keys, VerificationKey(k) PROVE TypeParts'
    <2>1. hash' \in Hashes /\ ctx' \in Contexts
      BY <1>5, KeyHashed
    <2>2. QED
      BY <1>0, <1>5, <2>1 DEF VerificationKey, Ask, AnswerNow
  <1>6. ASSUME NEW t \in Thresholds, Threshold(t) PROVE TypeParts'
    <2>1. hash' \in Hashes /\ ctx' \in Contexts
      BY <1>6, ThresholdHashed
    <2>2. QED
      BY <1>0, <1>6, <2>1 DEF Threshold, Ask
  <1>7. CASE OtherInstruction
    <2>1. ctx' \in Contexts
      BY <1>0, <1>7, ZenonT(60) DEF OtherInstruction, Contexts
    <2>2. QED
      BY <1>0, <1>7, <2>1, BlankType DEF OtherInstruction, uiIdle, AnswerNow
  <1>8. CASE PressReview
    BY <1>0, <1>8, ScreenLeft DEF PressReview, PressContinue
  <1>9. CASE PressContinueKey
    <2>1. /\ currentInstruction' = currentInstruction /\ owed' = FALSE
          /\ hash' = hash /\ ctx' = ctx /\ reviewed' = reviewed
          /\ screen' \in {screen, "frozen"} /\ read' = Append(read, ctx.key)
      BY <1>9, ScreenLeft DEF PressContinueKey, PressContinue
    <2>2. InProgress /\ hash.keys # <<>> /\ ctx.key = LastOf(hash.keys)
      BY <1>9 DEF PressContinueKey, PressContinue, InfoInv, DialogInv, CountInv, Signing
    <2>3. ctx.key \in Keys
      BY <1>0, <2>2, LastType DEF Hashes
    <2>4. read' \in Seq(Keys)
      BY <1>0, <2>1, <2>3, Appended
    <2>5. QED
      BY <1>0, <2>1, <2>4
  <1>10. CASE PressSign
    BY <1>0, <1>10, BlankType DEF PressSign, PressAnswer, uiIdle
  <1>11. CASE PressSignFails
    BY <1>0, <1>11, BlankType, ScreenLeft DEF PressSignFails, PressThrow
  <1>12. CASE PressDecline
    BY <1>0, <1>12 DEF PressDecline, PressAnswer, uiIdle
  <1>13. CASE Restart
    BY <1>13, TypeRestart
  <1>14. CASE PowerLost
    BY <1>14, TypeRestart DEF PowerLost
  <1>15. CASE UNCHANGED vars
    BY <1>0, <1>15 DEF vars, deviceVars
  <1>16. QED
    BY <1>1, <1>2, <1>3, <1>4, <1>5, <1>6, <1>7, <1>8, <1>9, <1>10, <1>11, <1>12,
       <1>13, <1>14, <1>15
    DEF Next, Command, Button, PressStray, PressQuit

(***************************************************************************)
(* InfoInv.  First what it asks when the instruction is over, or when a    *)
(* step brings no signature.                                               *)
(***************************************************************************)
LEMMA AwayInv ==
  ASSUME currentInstruction' # Ours, DialogInv', SignedInv'
  PROVE  InfoInv'
  BY DEF InfoInv, CountInv, ReadInv, InProgress

LEMMA NoNewSignature ==
  ASSUME SignedInv, reply' = reply \/ reply'.kind # "signature"
  PROVE  SignedInv'
  BY DEF SignedInv, SignedKeysAreDeclared, SigningDialogIsCurrent, PagedThroughIsComplete, Signed

LEMMA AnswersAreNoSignature ==
  \A r \in {Success, Refusal, Rejection, NoReply} : r.kind # "signature"
  BY DEF Success, Refusal, Rejection, NoReply

LEMMA IdleInv ==
  ASSUME SignedInv', uiIdle, owed' = FALSE
  PROVE  InfoInv'
  BY AwayInv, Names DEF uiIdle, DialogInv

LEMMA RefuseInv ==
  ASSUME InfoInv, Refuse
  PROVE  InfoInv'
  <1>1. SignedInv'
    BY NoNewSignature, AnswersAreNoSignature DEF InfoInv, Refuse
  <1>2. QED
    BY <1>1, AwayInv, Names DEF Refuse, DialogInv

LEMMA RestartInv ==
  ASSUME InfoInv, Restart
  PROVE  InfoInv'
  <1>1. SignedInv'
    BY NoNewSignature, AnswersAreNoSignature DEF InfoInv, Restart, DeviceRestart
  <1>2. QED
    BY <1>1, IdleInv DEF Restart, DeviceRestart

\* What a signature is asked for: the head, the keys and the threshold are whole,
\* and the signing dialog is that of the last key.
LEMMA SignInv ==
  ASSUME TypeOK, InfoInv, PressSign
  PROVE  InfoInv'
  <1>0. /\ hash \in Hashes /\ ctx \in Contexts /\ read \in Seq(Keys)
        /\ DialogInv /\ CountInv /\ ReadInv
    BY TypeIs DEF TypeParts, InfoInv
  <1>1. owed /\ screen \in Signing /\ reply' = Signature
    BY DEF PressSign, PressAnswer
  <1>2. CASE hash = NoTransaction
    <2>1. SignedInv'
      BY <1>1, <1>2
      DEF Signature, SignedInv, SignedKeysAreDeclared, SigningDialogIsCurrent,
          PagedThroughIsComplete, Signed
    <2>2. QED
      BY <2>1, IdleInv DEF PressSign, PressAnswer
  <1>3. CASE hash # NoTransaction
    <2>1. InProgress /\ ctx.state = "THRESHOLD"
      BY <1>0, <1>1, <1>3 DEF DialogInv
    <2>2. /\ Len(hash.keys) + ctx.keysLeft = hash.declared /\ ctx.keysLeft = 0
          /\ hash.keys # <<>> /\ ctx.key = LastOf(hash.keys)
          /\ hash.thresholds # <<>> /\ ctx.threshold = LastOf(hash.thresholds)
      BY <1>0, <1>1, <2>1 DEF CountInv
    <2>3. hash.keys \in Seq(Keys)
      BY <1>0 DEF Hashes
    <2>4. Len(hash.keys) = hash.declared /\ hash.declared > 0
      BY <2>2, <2>3
    <2>5. ctx.key \in Keys
      BY <2>2, <2>3, LastType
    <2>6. LastOf(Append(read, ctx.key)) = ctx.key
      BY <1>0, <2>5, Appended
    <2>7. ~reviewed => hash.keys = Append(read, ctx.key) /\ Len(hash.thresholds) = 1
      BY <1>0, <1>1, <2>1 DEF ReadInv
    <2>8. /\ reply'.over = hash /\ reply'.read = Append(read, ctx.key)
          /\ reply'.threshold = ctx.threshold /\ reply'.reviewed = reviewed
      BY <1>1 DEF Signature
    <2>9. SignedKeysAreDeclared'
      BY <2>2, <2>4, <2>8 DEF SignedKeysAreDeclared
    <2>10. SigningDialogIsCurrent'
      BY <2>2, <2>6, <2>8 DEF SigningDialogIsCurrent, LastOf
    <2>11. PagedThroughIsComplete'
      BY <2>7, <2>8 DEF PagedThroughIsComplete
    <2>12. QED
      BY <2>9, <2>10, <2>11, IdleInv DEF SignedInv, PressSign, PressAnswer
  <1>4. QED
    BY <1>2, <1>3

LEMMA SignFailsInv ==
  ASSUME InfoInv, PressSignFails
  PROVE  InfoInv'
  <1>1. SignedInv'
    BY NoNewSignature, AnswersAreNoSignature DEF InfoInv, PressSignFails, PressThrow
  <1>2. DialogInv' /\ currentInstruction' = None
    BY ScreenLeft DEF PressSignFails, PressThrow, DialogInv, Signing
  <1>3. QED
    BY <1>1, <1>2, AwayInv, Names

(***************************************************************************)
(* The commands of the instruction.                                        *)
(***************************************************************************)
LEMMA InitialInv ==
  ASSUME TypeOK, InfoInv, NEW n \in 0..MaxKeys, Initial(n)
  PROVE  InfoInv'
  <1>1. /\ hash'.declared = n /\ hash'.keys = <<>> /\ hash'.thresholds = <<>>
        /\ ctx'.state = "VERIFICATION_KEY" /\ ctx'.keysLeft = n /\ read' = <<>>
    BY HeadHashed DEF Initial
  <1>2. ~owed' /\ reply' = Success
    BY DEF Initial, AnswerNow
  <1>3. SignedInv'
    BY <1>2, NoNewSignature, AnswersAreNoSignature DEF InfoInv
  <1>4. Len(hash'.keys) + ctx'.keysLeft = hash'.declared
    BY <1>1, PublicInfoAssumption
  <1>5. QED
    BY <1>1, <1>2, <1>3, <1>4 DEF InfoInv, DialogInv, CountInv, ReadInv

LEMMA KeyInv ==
  ASSUME TypeOK, InfoInv, NEW k \in Keys, VerificationKey(k)
  PROVE  InfoInv'
  <1>0. /\ hash \in Hashes /\ ctx \in Contexts /\ read \in Seq(Keys)
        /\ CountInv /\ ReadInv
    BY TypeIs DEF TypeParts, InfoInv
  <1>1. InProgress /\ ctx.state = "VERIFICATION_KEY" /\ ~owed
    BY NoneIsNoInstruction DEF VerificationKey, Accepts, foundState, isInitialCall, InProgress
  <1>2. /\ hash'.keys = Append(hash.keys, k) /\ hash'.declared = hash.declared
        /\ hash'.thresholds = hash.thresholds
        /\ ctx.keysLeft > 0 /\ ctx'.keysLeft = ctx.keysLeft - 1
        /\ ctx'.key = k /\ ctx'.threshold = ctx.threshold
        /\ ctx'.state = IF ctx.keysLeft = 1 THEN "THRESHOLD" ELSE "VERIFICATION_KEY"
    BY <1>1, KeyHashed
  <1>3. read' = read /\ reviewed' = reviewed /\ currentInstruction' = Ours
    BY DEF VerificationKey, Ask, AnswerNow
  <1>4. \/ owed' /\ screen' \in {"review", "publicKey"} /\ ctx.keysLeft # 1 /\ reply' = reply
        \/ ~owed' /\ ctx.keysLeft = 1 /\ reply' = Success
    BY <1>0 DEF VerificationKey, Ask, AnswerNow, Contexts
  <1>5. SignedInv'
    BY <1>4, NoNewSignature, AnswersAreNoSignature DEF InfoInv
  <1>6. hash.keys \in Seq(Keys) /\ ctx.keysLeft \in Nat
    BY <1>0, PublicInfoAssumption DEF Hashes, Contexts
  <1>7. /\ hash'.keys # <<>> /\ LastOf(hash'.keys) = k
        /\ Len(hash'.keys) = Len(hash.keys) + 1 /\ Len(hash.keys) \in Nat
    BY <1>2, <1>6, Appended
  <1>8. Len(hash.keys) + ctx.keysLeft = hash.declared
    BY <1>0, <1>1 DEF CountInv
  <1>9. Len(hash'.keys) + ctx'.keysLeft = hash'.declared
    BY <1>2, <1>6, <1>7, <1>8
  <1>10. ctx'.keysLeft = 0 <=> ctx.keysLeft = 1
    BY <1>2, <1>6
  <1>11. DialogInv'
    BY <1>2, <1>3, <1>4 DEF DialogInv, InProgress, Signing
  <1>12. CountInv'
    BY <1>0, <1>1, <1>2, <1>3, <1>4, <1>7, <1>9, <1>10 DEF CountInv
  <1>13. ReadInv'
    BY <1>0, <1>1, <1>2, <1>3, <1>4 DEF ReadInv
  <1>14. QED
    BY <1>5, <1>11, <1>12, <1>13 DEF InfoInv

LEMMA ThresholdInv ==
  ASSUME TypeOK, InfoInv, NEW t \in Thresholds, Threshold(t)
  PROVE  InfoInv'
  <1>0. /\ hash \in Hashes /\ CountInv /\ ReadInv
    BY TypeIs DEF TypeParts, InfoInv
  <1>1. InProgress /\ ctx.state = "THRESHOLD" /\ ~owed
    BY NoneIsNoInstruction DEF Threshold, Accepts, foundState, isInitialCall, InProgress
  <1>2. /\ hash'.thresholds = Append(hash.thresholds, t)
        /\ hash'.keys = hash.keys /\ hash'.declared = hash.declared
        /\ ctx'.threshold = t /\ ctx'.key = ctx.key
        /\ ctx'.state = "THRESHOLD" /\ ctx'.keysLeft = ctx.keysLeft
    BY <1>1, ThresholdHashed
  <1>3. /\ read' = read /\ reviewed' = reviewed /\ currentInstruction' = Ours
        /\ owed' /\ screen' \in Signing /\ reply' = reply
    BY DEF Threshold, Ask, Signing
  <1>4. hash.thresholds \in Seq(Thresholds)
    BY <1>0 DEF Hashes
  <1>5. /\ hash'.thresholds # <<>> /\ LastOf(hash'.thresholds) = t
        /\ Len(hash'.thresholds) = Len(hash.thresholds) + 1
    BY <1>2, <1>4, Appended
  <1>6. SignedInv'
    BY <1>3, NoNewSignature DEF InfoInv
  <1>7. DialogInv'
    BY <1>2, <1>3 DEF DialogInv, InProgress
  <1>8. CountInv'
    BY <1>0, <1>1, <1>2, <1>5 DEF CountInv
  <1>9. ReadInv'
    BY <1>0, <1>1, <1>2, <1>3, <1>5 DEF ReadInv
  <1>10. QED
    BY <1>6, <1>7, <1>8, <1>9 DEF InfoInv

(***************************************************************************)
(* The steps that answer and wait for the next command.                    *)
(***************************************************************************)
LEMMA ReviewInv ==
  ASSUME InfoInv, PressReview
  PROVE  InfoInv'
  <1>1. /\ ~owed' /\ reply' = Success /\ reviewed'
        /\ UNCHANGED <<currentInstruction, hash, ctx>>
    BY DEF PressReview, PressContinue
  <1>2. SignedInv'
    BY <1>1, NoNewSignature, AnswersAreNoSignature DEF InfoInv
  <1>3. CountInv'
    BY <1>1 DEF InfoInv, CountInv, InProgress
  <1>4. QED
    BY <1>1, <1>2, <1>3 DEF InfoInv, DialogInv, ReadInv

LEMMA ContinueKeyInv ==
  ASSUME InfoInv, PressContinueKey
  PROVE  InfoInv'
  <1>1. /\ owed /\ screen \in {"review", "publicKey"}
        /\ ~owed' /\ reply' = Success /\ read' = Append(read, ctx.key)
        /\ UNCHANGED <<currentInstruction, hash, ctx, reviewed>>
    BY DEF PressContinueKey, PressContinue
  <1>2. InProgress /\ ctx.state = "VERIFICATION_KEY"
    BY <1>1 DEF InfoInv, DialogInv, Signing
  <1>3. SignedInv'
    BY <1>1, NoNewSignature, AnswersAreNoSignature DEF InfoInv
  <1>4. CountInv'
    BY <1>1 DEF InfoInv, CountInv, InProgress
  <1>5. ReadInv'
    BY <1>1, <1>2 DEF InfoInv, ReadInv
  <1>6. QED
    BY <1>1, <1>3, <1>4, <1>5 DEF InfoInv, DialogInv

LEMMA InvInit == Init => InfoInv
  <1> SUFFICES ASSUME Init PROVE InfoInv
    OBVIOUS
  <1>1. currentInstruction = None /\ ~owed /\ reply.kind # "signature"
    BY AnswersAreNoSignature DEF Init, DeviceInit
  <1>2. SignedInv
    BY <1>1
    DEF SignedInv, SignedKeysAreDeclared, SigningDialogIsCurrent, PagedThroughIsComplete, Signed
  <1>3. QED
    BY <1>1, <1>2, Names DEF InfoInv, DialogInv, CountInv, ReadInv, InProgress

LEMMA InvNext == TypeOK /\ InfoInv /\ [Next]_vars => InfoInv'
  <1> SUFFICES ASSUME TypeOK, InfoInv, [Next]_vars PROVE InfoInv'
    OBVIOUS
  <1>1. CASE Dispatch
    BY <1>1, RefuseInv DEF Dispatch, BadCommand, SwitchInstruction
  <1>2. ASSUME NEW n \in 0..MaxKeys, Initial(n) PROVE InfoInv'
    BY <1>2, InitialInv
  <1>3. CASE InitialRefused \/ OutOfTurn
    BY <1>3, RefuseInv DEF InitialRefused, OutOfTurn
  <1>4. ASSUME NEW k \in Keys, VerificationKey(k) PROVE InfoInv'
    BY <1>4, KeyInv
  <1>5. ASSUME NEW t \in Thresholds, Threshold(t) PROVE InfoInv'
    BY <1>5, ThresholdInv
  <1>6. CASE OtherInstruction
    <2>1. reply' = Success /\ ~owed' /\ currentInstruction' # Ours
      BY <1>6, Names DEF OtherInstruction, AnswerNow, uiIdle
    <2>2. SignedInv'
      BY <2>1, NoNewSignature, AnswersAreNoSignature DEF InfoInv
    <2>3. QED
      BY <2>1, <2>2, AwayInv DEF DialogInv
  <1>7. CASE PressReview
    BY <1>7, ReviewInv
  <1>8. CASE PressContinueKey
    BY <1>8, ContinueKeyInv
  <1>9. CASE PressSign
    BY <1>9, SignInv
  <1>10. CASE PressSignFails
    BY <1>10, SignFailsInv
  <1>11. CASE PressDecline
    <2>1. SignedInv'
      BY <1>11, NoNewSignature, AnswersAreNoSignature DEF InfoInv, PressDecline, PressAnswer
    <2>2. QED
      BY <1>11, <2>1, IdleInv DEF PressDecline, PressAnswer
  <1>12. CASE Restart
    BY <1>12, RestartInv
  <1>13. CASE PowerLost
    BY <1>13, RestartInv DEF PowerLost
  <1>14. CASE UNCHANGED vars
    <2>1. SignedInv'
      BY <1>14, NoNewSignature DEF InfoInv, vars, deviceVars
    <2>2. QED
      BY <1>14, <2>1 DEF vars, deviceVars, InfoInv, DialogInv, CountInv, ReadInv, InProgress
  <1>15. QED
    BY <1>1, <1>2, <1>3, <1>4, <1>5, <1>6, <1>7, <1>8, <1>9, <1>10, <1>11, <1>12,
       <1>13, <1>14
    DEF Next, Command, Button, PressStray, PressQuit

LEMMA InfoCorrect == Spec => [](TypeOK /\ InfoInv)
  <1>1. Init => TypeOK /\ InfoInv
    BY TypeInit, InvInit
  <1>2. TypeOK /\ InfoInv /\ [Next]_vars => (TypeOK /\ InfoInv)'
    BY TypeNext, InvNext
  <1>3. QED
    BY <1>1, <1>2, PTL DEF Spec

(***************************************************************************)
(* The theorems.                                                           *)
(***************************************************************************)
\* Every variable keeps to the values its C type and the handler allow; above all,
\* no text of another instruction's context is ever paged through as a key.
THEOREM InfoTypeCorrect == Spec => []TypeOK
  BY InfoCorrect, PTL

\* A signature covers as many keys as the count under it says, and a threshold.
THEOREM KeysAreDeclared == Spec => []SignedKeysAreDeclared
  <1>1. InfoInv => SignedKeysAreDeclared
    BY DEF InfoInv, SignedInv
  <1>2. QED
    BY <1>1, InfoCorrect, PTL

\* The signing dialog shows the key and the threshold hashed last.
THEOREM DialogIsCurrent == Spec => []SigningDialogIsCurrent
  <1>1. InfoInv => SigningDialogIsCurrent
    BY DEF InfoInv, SignedInv
  <1>2. QED
    BY <1>1, InfoCorrect, PTL

\* Who pages past the review step has had every key and the one threshold on display.
THEOREM PagingShowsAll == Spec => []PagedThroughIsComplete
  <1>1. InfoInv => PagedThroughIsComplete
    BY DEF InfoInv, SignedInv
  <1>2. QED
    BY <1>1, InfoCorrect, PTL
-----------------------------------------------------------------------------
(***************************************************************************)
(* The instructions of one command.  What a dialog finds in memory is what *)
(* its command has put there: SingleInv.                                   *)
(***************************************************************************)
TextsOf(i, parts, values) ==
  [k \in DOMAIN FieldsOf(i, parts) |->
     TextOf(FieldsOf(i, parts)[k].kind, FieldsOf(i, parts)[k].size, values[k])]

DialogOf(i, parts, values, stale) ==
  [of |-> i, parts |-> parts,
   texts |-> [k \in DOMAIN TextsOf(i, parts, values) |->
                Displayed(FieldsOf(i, parts)[k].kind, TextsOf(i, parts, values)[k], stale)]]

\* A transaction to be signed is on display, text by text.
Offers(i, parts, values, stale) ==
  /\ values \in Transactions(FieldsOf(i, parts))
  /\ Thrown \notin ToSet(TextsOf(i, parts, values))
  /\ txHash = Transaction(i, parts, values)
  /\ dialog = DialogOf(i, parts, values, stale)

OfferInv ==
  owed /\ screen = "sign" =>
    \/ txHash = Finalised
    \/ \E i \in Instructions, parts \in SUBSET DelegationParts, stale \in BOOLEAN :
         \E values : Offers(i, parts, values, stale)

\* The title, the identity and the keys of an export go together.
Exports(p1, p2, identity) ==
  dialog = [of |-> ExportKey, header |-> Header(p1), identity |-> bin2dec(identity, 11),
            exportBoth |-> p1 = P1_BOTH, exportSeed |-> p2 = 1, path |-> PathIndex[identity]]

ExportInv ==
  owed /\ screen = "export" => \E p1 \in 0..2, p2 \in 1..2, identity \in Identities : Exports(p1, p2, identity)

\* The account on display is that of the address.
Verifies(identity, counter) ==
  /\ AccountText(identity, counter) # Thrown
  /\ dialog = [of |-> VerifyAddress, account |-> AccountText(identity, counter),
               address |-> <<PathIndex[identity], counter>>]

VerifyInv ==
  owed /\ screen = "verify" => \E identity \in Identities, counter \in Counters : Verifies(identity, counter)

SingleInv == SingleTypeOK /\ OfferInv /\ ExportInv /\ VerifyInv
-----------------------------------------------------------------------------
\* Nothing is owed, so no dialog waits for an answer.
LEMMA NothingOwed ==
  ASSUME ~owed', app' \in {"account", "governance"}, clean' \in BOOLEAN, owed' \in BOOLEAN,
         screen' \in {"idle", "frozen", "sign", "export", "verify"},
         currentInstruction' \in Instructions' \cup {ExportKey, VerifyAddress, Longer, None}
  PROVE  SingleInv'
  BY DEF SingleInv, SingleTypeOK, OfferInv, ExportInv, VerifyInv

LEMMA SameInstructions == app' = app => Instructions' = Instructions
  BY DEF Instructions

LEMMA SingleRefuse ==
  ASSUME SingleInv, Refuse, app' = app, clean' \in BOOLEAN
  PROVE  SingleInv'
  BY NothingOwed DEF Refuse, SingleInv, SingleTypeOK

LEMMA SingleRestarts ==
  ASSUME SingleInv, DeviceRestart, app' = app, clean' \in BOOLEAN
  PROVE  SingleInv'
  BY NothingOwed DEF DeviceRestart, uiIdle, SingleInv, SingleTypeOK

LEMMA SingleAnswers ==
  ASSUME SingleInv, NEW r, PressAnswer(r), app' = app, clean' \in BOOLEAN
  PROVE  SingleInv'
  BY NothingOwed DEF PressAnswer, uiIdle, SingleInv, SingleTypeOK

LEMMA HandleInv ==
  ASSUME SingleInv, app' = app,
         NEW i \in Instructions, NEW parts \in SUBSET DelegationParts,
         NEW values \in Transactions(FieldsOf(i, parts)), Handle(i, parts, values)
  PROVE  SingleInv'
  <1> DEFINE whole == Transaction(i, parts, values)
  <1>1. CASE HandleRefused(whole)
    BY <1>1, SingleRefuse DEF HandleRefused
  <1>2. CASE ~HandleRefused(whole)
    <2>1. /\ Thrown \notin ToSet(TextsOf(i, parts, values))
          /\ Ask(i, "sign") /\ clean' = FALSE /\ txHash' = Transaction(i, parts, values)
          /\ \E stale \in {FALSE, ~clean} : dialog' = DialogOf(i, parts, values, stale)
      BY <1>2, Zenon DEF Handle, TextsOf, DialogOf
    <2>2. PICK stale \in {FALSE, ~clean} : dialog' = DialogOf(i, parts, values, stale)
      BY <2>1
    <2>3. dialog'.of = i /\ stale \in BOOLEAN
      BY <2>2 DEF DialogOf, SingleInv, SingleTypeOK
    <2>4. Offers(i, parts, values, stale)'
      BY <2>1, <2>2 DEF Offers
    <2>5. /\ currentInstruction' = i /\ owed' = TRUE /\ screen' = "sign"
          /\ Instructions' = Instructions
      BY <2>1, SameInstructions DEF Ask
    <2>6. OfferInv'
      BY <2>3, <2>4, <2>5 DEF OfferInv
    <2>7. SingleTypeOK'
      BY <2>1, <2>3, <2>5 DEF SingleTypeOK, SingleInv
    <2>8. ExportInv' /\ VerifyInv'
      BY <2>5 DEF ExportInv, VerifyInv
    <2>9. QED
      BY <2>6, <2>7, <2>8 DEF SingleInv
  <1>3. QED
    BY <1>1, <1>2

LEMMA ExportPrivateKeyInv ==
  ASSUME SingleInv, NEW p1 \in 0..3, NEW p2 \in 0..3, NEW identity \in Identities,
         ExportPrivateKey(p1, p2, identity)
  PROVE  SingleInv'
  <1>1. CASE p1 \notin 0..2 \/ p2 \notin 1..2
    BY <1>1, SingleRefuse DEF ExportPrivateKey, SingleInv, SingleTypeOK
  <1>2. CASE p1 \in 0..2 /\ p2 \in 1..2
    <2>1. /\ Exports(p1, p2, identity)' /\ Ask(ExportKey, "export") /\ clean' = FALSE /\ app' = app
      BY <1>2 DEF ExportPrivateKey, Exports
    <2>2. /\ currentInstruction' = ExportKey /\ owed' = TRUE /\ screen' = "export"
          /\ dialog'.of = ExportKey
      BY <2>1 DEF Ask, Exports
    <2>3. ExportInv'
      BY <1>2, <2>1, <2>2 DEF ExportInv
    <2>4. SingleTypeOK'
      BY <2>1, <2>2 DEF SingleTypeOK, SingleInv
    <2>5. OfferInv' /\ VerifyInv'
      BY <2>2 DEF OfferInv, VerifyInv
    <2>6. QED
      BY <2>3, <2>4, <2>5 DEF SingleInv
  <1>3. QED
    BY <1>1, <1>2

LEMMA HandleVerifyAddressInv ==
  ASSUME SingleInv, NEW identity \in Identities, NEW counter \in Counters,
         HandleVerifyAddress(identity, counter)
  PROVE  SingleInv'
  <1> DEFINE text == AccountText(identity, counter)
  <1>1. CASE text = Thrown
    BY <1>1, SingleRestarts DEF HandleVerifyAddress, SingleRestart
  <1>2. CASE text # Thrown /\ Refuse
    BY <1>2, SingleRefuse DEF HandleVerifyAddress
  <1>3. CASE text # Thrown /\ ~Refuse
    <2>1. Verifies(identity, counter)' /\ Ask(VerifyAddress, "verify") /\ clean' = FALSE /\ app' = app
      BY <1>3 DEF HandleVerifyAddress, Verifies
    <2>2. /\ currentInstruction' = VerifyAddress /\ owed' = TRUE /\ screen' = "verify"
          /\ dialog'.of = VerifyAddress
      BY <2>1 DEF Ask, Verifies
    <2>3. VerifyInv'
      BY <2>1, <2>2 DEF VerifyInv
    <2>4. SingleTypeOK'
      BY <2>1, <2>2 DEF SingleTypeOK, SingleInv
    <2>5. OfferInv' /\ ExportInv'
      BY <2>2 DEF OfferInv, ExportInv
    <2>6. QED
      BY <2>3, <2>4, <2>5 DEF SingleInv
  <1>4. QED
    BY <1>1, <1>2, <1>3

LEMMA AcceptFailsInv == ASSUME SingleInv, AcceptFails PROVE SingleInv'
  <1>1. /\ currentInstruction' = None /\ app' = app /\ clean' = clean /\ dialog' = dialog
        /\ screen' \in {screen, "frozen"} /\ owed' \in {owed, FALSE}
        /\ screen = "sign" => txHash' = Finalised
        /\ screen = "export"  => txHash' = txHash
        /\ screen \in {"sign", "export"}
    BY DEF AcceptFails, PressThrow, LeaveScreen
  <1>2. SingleTypeOK'
    <2>1. owed /\ screen = "sign" => dialog.of \in Instructions
      BY DEF SingleTypeOK, SingleInv
    <2>2. owed /\ screen = "export" => dialog.of = ExportKey
      BY DEF SingleTypeOK, SingleInv
    <2>3. Instructions' = Instructions
      BY <1>1, SameInstructions
    <2>4. owed' \in BOOLEAN
      BY <1>1 DEF SingleTypeOK, SingleInv
    <2>5. CASE ~owed'
      BY <1>1, <2>3, <2>4, <2>5, NothingOwed DEF SingleTypeOK, SingleInv
    <2>6. CASE owed'
      <3>1. owed
        BY <1>1, <2>6
      <3>2. CASE screen' = "frozen"
        BY <1>1, <2>3, <2>4, <3>2 DEF SingleTypeOK, SingleInv
      <3>3. CASE screen' = screen
        BY <1>1, <2>1, <2>2, <2>3, <2>4, <3>1, <3>3 DEF SingleTypeOK, SingleInv
      <3>4. QED
        BY <1>1, <3>2, <3>3
    <2>7. QED
      BY <2>4, <2>5, <2>6
  <1>3. OfferInv'
    BY <1>1 DEF OfferInv
  <1>4. ExportInv'
    BY <1>1 DEF ExportInv, SingleInv, Exports
  <1>5. VerifyInv'
    BY <1>1 DEF VerifyInv
  <1>6. QED
    BY <1>2, <1>3, <1>4, <1>5 DEF SingleInv

LEMMA SingleInvInit == SingleInit => SingleInv
  BY DEF SingleInit, DeviceInit, SingleInv, SingleTypeOK, OfferInv, ExportInv, VerifyInv

LEMMA SingleInvNext == SingleInv /\ [SingleNext]_singleVars => SingleInv'
  <1> SUFFICES ASSUME SingleInv, [SingleNext]_singleVars PROVE SingleInv'
    OBVIOUS
  <1>0. clean \in BOOLEAN
    BY DEF SingleInv, SingleTypeOK
  <1>1. ASSUME HandleSingle PROVE SingleInv'
    <2>1. PICK i \in Instructions \ {Delegation} :
            \E values \in Transactions(FieldsOf(i, {})) : Handle(i, {}, values)
      BY <1>1 DEF HandleSingle
    <2>2. QED
      BY <1>1, <2>1, HandleInv DEF HandleSingle
  <1>2. ASSUME ConfigureDelegation PROVE SingleInv'
    <2>0. PICK parts \in SUBSET DelegationParts :
            \E values \in Transactions(DelegationFields(parts)) :
              \/ parts # {} /\ Handle(Delegation, parts, values)
              \/ Accepts(Delegation) /\ HandleRefused(Transaction(Delegation, parts, values))
      BY <1>2 DEF ConfigureDelegation
    <2>1. PICK values \in Transactions(DelegationFields(parts)) :
            \/ parts # {} /\ Handle(Delegation, parts, values)
            \/ Accepts(Delegation) /\ HandleRefused(Transaction(Delegation, parts, values))
      BY <2>0
    <2>2. Delegation \in Instructions /\ app' = app
      BY <1>2 DEF ConfigureDelegation, Instructions
    <2>3. FieldsOf(Delegation, parts) = DelegationFields(parts)
      BY DEF FieldsOf, Delegation, ToEncrypted, ExchangeRate, Fixed
    <2>4. CASE Handle(Delegation, parts, values)
      BY <2>2, <2>3, <2>4, HandleInv
    <2>5. CASE HandleRefused(Transaction(Delegation, parts, values))
      BY <2>2, <2>5, SingleRefuse DEF HandleRefused
    <2>6. QED
      BY <2>1, <2>4, <2>5
  <1>3. ASSUME Refused PROVE SingleInv'
    BY <1>0, <1>3, SingleRefuse DEF Refused
  <1>4. ASSUME NEW p1 \in 0..3, NEW p2 \in 0..3, NEW identity \in Identities,
               ExportPrivateKey(p1, p2, identity)
        PROVE SingleInv'
    BY <1>4, ExportPrivateKeyInv
  <1>5. ASSUME NEW identity \in Identities, NEW counter \in Counters,
               HandleVerifyAddress(identity, counter)
        PROVE SingleInv'
    BY <1>5, HandleVerifyAddressInv
  <1>6. ASSUME AcceptSign \/ AcceptExport \/ AcceptAddress \/ Decline PROVE SingleInv'
    <2>1. app' = app /\ clean' = clean /\ \E r : PressAnswer(r)
      BY <1>6 DEF AcceptSign, AcceptExport, AcceptAddress, Decline
    <2>2. QED
      BY <1>0, <2>1, SingleAnswers
  <1>7. ASSUME AcceptFails PROVE SingleInv'
    BY <1>7, AcceptFailsInv
  <1>8. ASSUME StrayPress \/ Quit \/ PowerGone PROVE SingleInv'
    BY <1>0, <1>8, SingleRestarts DEF StrayPress, Quit, PowerGone, SingleRestart
  <1>9. ASSUME SingleDispatch PROVE SingleInv'
    BY <1>0, <1>9, SingleRefuse DEF SingleDispatch, BadCommand, SwitchInstruction
  <1>10. ASSUME LongerInstruction PROVE SingleInv'
    BY <1>10, NothingOwed
       DEF LongerInstruction, AnswerNow, uiIdle, SingleInv, SingleTypeOK
  <1>11. ASSUME UNCHANGED singleVars PROVE SingleInv'
    <2>1. Instructions' = Instructions
      BY <1>11, SameInstructions DEF singleVars
    <2>2. SingleTypeOK'
      BY <1>11, <2>1 DEF singleVars, deviceVars, SingleInv, SingleTypeOK
    <2>3. OfferInv'
      BY <1>11, <2>1 DEF singleVars, deviceVars, SingleInv, OfferInv, Offers
    <2>4. ExportInv' /\ VerifyInv'
      BY <1>11 DEF singleVars, deviceVars, SingleInv, ExportInv, Exports, VerifyInv, Verifies
    <2>5. QED
      BY <2>2, <2>3, <2>4 DEF SingleInv
  <1>12. QED
    BY <1>1, <1>2, <1>3, <1>4, <1>5, <1>6, <1>7, <1>8, <1>9, <1>10, <1>11 DEF SingleNext

LEMMA SingleCorrect == SingleSpec => []SingleInv
  BY SingleInvInit, SingleInvNext, PTL DEF SingleSpec

\* For every address, number and path, and whether or not a pressed step stays alive:
\* what a flow of one command reads in the context is that instruction's own.
THEOREM SingleTypeCorrect == SingleSpec => []SingleTypeOK
  <1>1. SingleInv => SingleTypeOK
    BY DEF SingleInv
  <1>2. QED
    BY <1>1, SingleCorrect, PTL
-----------------------------------------------------------------------------
(***************************************************************************)
(* What a reader takes a text for.                                         *)
(***************************************************************************)
TextProofs == INSTANCE ReadingProofs WITH Nothing <- Between(<<>>), Read <- ReadCharacter

ReadOf(text) == Text!After(text)

\* The reader has seen these numbers, and is in the middle of another.
Reader(numbers, digits, dot, decimals) ==
  [numbers |-> numbers, digits |-> digits, dot |-> dot, decimals |-> decimals]

NumberRead(digits, decimals) == [digits |-> digits, decimals |-> decimals]
NumbersRead == [digits : Seq(Nat), decimals : Nat]

LEMMA ReadOfIs == \A t : ReadOf(t) = TextProofs!After(t)
  BY DEF ReadOf, Text!After, Text!Readings, TextProofs!After, TextProofs!Readings

LEMMA EmptyRead == ReadOf(<<>>) = Between(<<>>)
  BY ReadOfIs, TextProofs!AfterEmpty

LEMMA CharacterRead ==
  ASSUME NEW s \in Seq(Int), NEW c \in Int
  PROVE  ReadOf(Append(s, c)) = ReadCharacter(ReadOf(s), c)
  BY ReadOfIs, TextProofs!AfterAppend

\* Each kind of character.
LEMMA DigitStep ==
  ASSUME NEW c \in Nat, NEW numbers, NEW digits, NEW dot, NEW decimals
  PROVE  ReadCharacter(Reader(numbers, digits, dot, decimals), c)
           = Reader(numbers, Append(digits, c), dot, IF dot THEN decimals + 1 ELSE decimals)
  <1> DEFINE r == Reader(numbers, digits, dot, decimals)
  <1>1. r.numbers = numbers /\ r.digits = digits /\ r.dot = dot /\ r.decimals = decimals
    BY DEF Reader
  <1>2. c >= 0
    OBVIOUS
  <1> HIDE DEF r
  <1>3. ReadCharacter(r, c)
          = Reader(r.numbers, Append(r.digits, c), r.dot, IF r.dot THEN r.decimals + 1 ELSE r.decimals)
    BY <1>2, Zenon DEF ReadCharacter, Reader
  <1>4. QED
    BY <1>1, <1>3 DEF r

LEMMA DotStep ==
  ASSUME NEW numbers, NEW digits, NEW dot, NEW decimals
  PROVE  ReadCharacter(Reader(numbers, digits, dot, decimals), Dot)
           = Reader(numbers, digits, TRUE, decimals)
  <1> DEFINE r == Reader(numbers, digits, dot, decimals)
  <1>1. ~(Dot >= 0) /\ Dot = Dot
    BY DEF Dot
  <1>2. ReadCharacter(r, Dot) = [r EXCEPT !.dot = TRUE]
    BY <1>1, Zenon DEF ReadCharacter
  <1>3. QED
    BY <1>2 DEF Reader

LEMMA MarkStep ==
  ASSUME NEW numbers, NEW digits, NEW dot, NEW decimals, digits # <<>>
  PROVE  ReadCharacter(Reader(numbers, digits, dot, decimals), Mark)
           = Between(Append(numbers, NumberRead(digits, decimals)))
  <1> DEFINE r == Reader(numbers, digits, dot, decimals)
  <1>1. r.digits = digits /\ r.numbers = numbers /\ r.decimals = decimals
    BY DEF Reader
  <1>2. ~(Mark >= 0) /\ Mark # Dot
    BY DEF Mark, Dot
  <1>3. ReadCharacter(r, Mark)
          = Between(Append(r.numbers, [digits |-> r.digits, decimals |-> r.decimals]))
    BY <1>1, <1>2, Zenon DEF ReadCharacter
  <1>4. QED
    BY <1>1, <1>3, Zenon DEF NumberRead

LEMMA MarkAgain == \A numbers : ReadCharacter(Between(numbers), Mark) = Between(numbers)
  BY DEF ReadCharacter, Between, Dot, Mark

LEMMA CommaStep == \A r : ReadCharacter(r, Comma) = r
  BY DEF ReadCharacter, Dot, Mark, Comma

LEMMA ConcatAppendOf ==
  ASSUME NEW S, NEW s \in Seq(S), NEW t \in Seq(S), NEW x \in S
  PROVE  s \o Append(t, x) = Append(s \o t, x)
  OBVIOUS

LEMMA AppendedPair ==
  ASSUME NEW S, NEW x \in S, NEW y \in S
  PROVE  Append(<<x>>, y) = <<x, y>>
  <1>1. /\ <<x>> \in Seq(S) /\ <<y>> \in Seq(S)
        /\ Len(<<x>>) = 1 /\ Len(<<y>>) = 1 /\ <<x>>[1] = x /\ <<y>>[1] = y
    OBVIOUS
  <1>2. /\ <<x, y>> \in Seq(S) /\ Len(<<x, y>>) = 2
        /\ <<x, y>>[1] = x /\ <<x, y>>[2] = y
    OBVIOUS
  <1> DEFINE s == <<x>>  t == <<y>>  p == <<x, y>>
  <1>3. Append(s, y) = s \o t
    BY <1>1, AppendIsConcat
  <1>4. /\ s \in Seq(S) /\ t \in Seq(S) /\ p \in Seq(S) /\ Len(s) = 1 /\ Len(t) = 1 /\ Len(p) = 2
        /\ s[1] = x /\ t[1] = y /\ p[1] = x /\ p[2] = y
    BY <1>1, <1>2
  <1> HIDE DEF s, t, p
  <1>5. s \o t \in Seq(S) /\ Len(s \o t) = 2 /\ (s \o t)[1] = x /\ (s \o t)[2] = y
    BY <1>4, ConcatProperties
  <1>6. s \o t = p
    BY <1>4, <1>5, SeqEqual
  <1>7. QED
    BY <1>3, <1>6 DEF s, p

LEMMA ConcatAppend ==
  ASSUME NEW s \in Seq(Int), NEW t \in Seq(Int), NEW x \in Int
  PROVE  Append(s \o t, x) = s \o Append(t, x)
  <1> DEFINE S == Int
  <1>1. s \in Seq(S) /\ t \in Seq(S) /\ x \in S
    OBVIOUS
  <1> HIDE DEF S
  <1>2. s \o Append(t, x) = Append(s \o t, x)
    BY <1>1, ConcatAppendOf
  <1>3. QED
    BY <1>2

\* Digits are read one by one.
LEMMA DigitsRead ==
  ASSUME NEW s \in Seq(Int), NEW t \in Seq(Nat),
         NEW numbers, NEW digits \in Seq(Nat), NEW dot \in BOOLEAN, NEW decimals \in Nat,
         ReadOf(s) = Reader(numbers, digits, dot, decimals)
  PROVE  ReadOf(s \o t)
           = Reader(numbers, digits \o t, dot, IF dot THEN decimals + Len(t) ELSE decimals)
  <1> DEFINE behind(k) ==
               Reader(numbers, digits \o SubSeq(t, 1, k), dot, IF dot THEN decimals + k ELSE decimals)
             V == {<<k, behind(k)>> : k \in 0..Len(t)}
  <1>1. t \in Seq(Int) /\ Len(t) \in Nat /\ \A k \in 1..Len(t) : t[k] \in Nat
    BY SeqMonotonic, LenProperties, ElementOfSeq
  <1>2. <<0, TextProofs!After(s)>> \in V
    <2>1. SubSeq(t, 1, 0) = <<>> /\ digits \o <<>> = digits
      BY SubSeqEmpty, ConcatEmptySeq
    <2>2. behind(0) = ReadOf(s)
      <3>1. (IF dot THEN decimals + 0 ELSE decimals) = decimals
        OBVIOUS
      <3>2. QED
        BY <2>1, <3>1, Zenon
    <2>3. QED
      BY <1>1, <2>2, ReadOfIs
  <1>3. ASSUME NEW k \in 0..(Len(t) - 1), NEW r, <<k, r>> \in V
        PROVE  <<k + 1, ReadCharacter(r, t[k + 1])>> \in V
    <2>1. r = behind(k)
      BY <1>3
    <2>2. k + 1 \in 1..Len(t) /\ k + 1 \in 0..Len(t) /\ 1 \in 1..Len(t) /\ k + 1 >= 1 /\ (k + 1) - 1 = k
      BY <1>1
    <2>3. SubSeq(t, 1, k + 1) = SubSeq(t, 1, k) \o <<t[k + 1]>>
      BY <2>2, SubSeqRecursiveSecond
    <2>4. SubSeq(t, 1, k) \in Seq(Nat) /\ t[k + 1] \in Nat /\ <<t[k + 1]>> \in Seq(Nat)
      <3>1. \A j \in 1..k : t[j] \in Nat
        BY <1>1
      <3>2. 1 \in Int /\ k \in Int
        OBVIOUS
      <3>3. SubSeq(t, 1, k) \in Seq(Nat)
        BY <3>1, <3>2, SubSeqProperties
      <3>4. QED
        BY <1>1, <2>2, <3>3
    <2>5. digits \o SubSeq(t, 1, k + 1) = Append(digits \o SubSeq(t, 1, k), t[k + 1])
      <3>1. SubSeq(t, 1, k + 1) = Append(SubSeq(t, 1, k), t[k + 1])
        BY <2>3, <2>4, AppendIsConcat
      <3> DEFINE u == SubSeq(t, 1, k)
                 x == t[k + 1]
      <3>2. digits \in Seq(Nat) /\ u \in Seq(Nat) /\ x \in Nat
        BY <2>4
      <3> HIDE DEF u, x, behind, V
      <3>3. digits \o Append(u, x) = Append(digits \o u, x)
        BY <3>2
      <3>4. QED
        BY <3>1, <3>3 DEF u, x
    <2>6. ReadCharacter(behind(k), t[k + 1])
            = Reader(numbers, Append(digits \o SubSeq(t, 1, k), t[k + 1]), dot,
                     IF dot THEN (IF dot THEN decimals + k ELSE decimals) + 1
                     ELSE (IF dot THEN decimals + k ELSE decimals))
      <3> DEFINE u == digits \o SubSeq(t, 1, k)  c == t[k + 1]
                 d == IF dot THEN decimals + k ELSE decimals
      <3>1. c \in Nat /\ behind(k) = Reader(numbers, u, dot, d)
        BY <2>4
      <3> HIDE DEF u, c, d, behind
      <3>2. ReadCharacter(Reader(numbers, u, dot, d), c)
              = Reader(numbers, Append(u, c), dot, IF dot THEN d + 1 ELSE d)
        BY <3>1, DigitStep
      <3>3. QED
        BY <3>1, <3>2 DEF u, c, d
    <2>7. (IF dot THEN (IF dot THEN decimals + k ELSE decimals) + 1
           ELSE (IF dot THEN decimals + k ELSE decimals))
          = (IF dot THEN decimals + (k + 1) ELSE decimals)
      OBVIOUS
    <2>8. ReadCharacter(r, t[k + 1]) = behind(k + 1)
      BY <2>1, <2>5, <2>6, <2>7, Zenon
    <2> HIDE DEF behind
    <2>9. QED
      BY <2>2, <2>8
  <1> HIDE DEF V
  <1>4. <<Len(t), ReadOf(s \o t)>> \in V
    BY <1>1, <1>2, <1>3, ReadOfIs, TextProofs!AfterConcat
  <1>5. ReadOf(s \o t) = behind(Len(t))
    BY <1>4 DEF V
  <1>6. QED
    BY <1>5, SubSeqFull

LEMMA MarksType ==
  ASSUME NEW c \in Int, NEW n \in Nat
  PROVE  /\ Repeat(c, n) \in Seq(Int) /\ Len(Repeat(c, n)) = n
         /\ \A k \in 1..n : Repeat(c, n)[k] = c
         /\ Append(Repeat(c, n), c) = Repeat(c, n + 1)
         /\ Repeat(c, 0) = <<>>
         /\ Repeat(c, 1) = <<c>>
  BY DEF Repeat

\* Marks end a number, or do nothing.
LEMMA MarksRead ==
  ASSUME NEW s \in Seq(Int), NEW n \in Nat,
         NEW numbers, NEW digits, NEW dot, NEW decimals, digits # <<>>, n # 0,
         ReadOf(s) = Reader(numbers, digits, dot, decimals)
  PROVE  ReadOf(s \o Repeat(Mark, n)) = Between(Append(numbers, NumberRead(digits, decimals)))
  <1> DEFINE t == Repeat(Mark, n)
             closed == Between(Append(numbers, NumberRead(digits, decimals)))
             V == {<<0, ReadOf(s)>>} \cup {<<k, closed>> : k \in 1..n}
  <1>0. Mark \in Int
    BY DEF Mark
  <1>1. t \in Seq(Int) /\ Len(t) = n /\ \A k \in 1..n : t[k] = Mark
    BY <1>0, MarksType
  <1> HIDE DEF t
  <1>2. <<0, TextProofs!After(s)>> \in V
    BY ReadOfIs
  <1>3. ASSUME NEW k \in 0..(n - 1), NEW r, <<k, r>> \in V
        PROVE  <<k + 1, ReadCharacter(r, t[k + 1])>> \in V
    <2>1. t[k + 1] = Mark /\ k + 1 \in 1..n
      BY <1>1
    <2>2. CASE k = 0
      <3>1. r = Reader(numbers, digits, dot, decimals)
        BY <1>3, <2>2
      <3>2. ReadCharacter(r, Mark) = closed
        BY <3>1, MarkStep
      <3> HIDE DEF closed
      <3>3. QED
        BY <2>1, <3>2
    <2>3. CASE k # 0
      <3>1. r = closed
        BY <1>3, <2>3
      <3>2. ReadCharacter(r, Mark) = closed
        BY <3>1, MarkAgain
      <3> HIDE DEF closed
      <3>3. QED
        BY <2>1, <3>2
    <2>4. QED
      BY <2>2, <2>3
  <1> HIDE DEF V, closed
  <1>4. <<Len(t), TextProofs!After(s \o t)>> \in V
    BY <1>1, <1>2, <1>3, TextProofs!AfterConcat
  <1>5. ReadOf(s \o t) = closed
    BY <1>1, <1>4, ReadOfIs DEF V
  <1>6. QED
    BY <1>5 DEF t, closed

LEMMA MarksBetween ==
  ASSUME NEW s \in Seq(Int), NEW n \in Nat, NEW numbers, ReadOf(s) = Between(numbers)
  PROVE  ReadOf(s \o Repeat(Mark, n)) = Between(numbers)
  <1> DEFINE t == Repeat(Mark, n)
             V == {<<k, Between(numbers)>> : k \in 0..n}
  <1>0. Mark \in Int
    BY DEF Mark
  <1>1. t \in Seq(Int) /\ Len(t) = n /\ \A k \in 1..n : t[k] = Mark
    BY <1>0, MarksType
  <1> HIDE DEF t
  <1>2. <<0, TextProofs!After(s)>> \in V
    BY ReadOfIs
  <1>3. ASSUME NEW k \in 0..(n - 1), NEW r, <<k, r>> \in V
        PROVE  <<k + 1, ReadCharacter(r, t[k + 1])>> \in V
    <2>1. t[k + 1] = Mark /\ k + 1 \in 0..n /\ r = Between(numbers)
      BY <1>1, <1>3
    <2>2. QED
      BY <2>1, MarkAgain
  <1> HIDE DEF V
  <1>4. <<Len(t), TextProofs!After(s \o t)>> \in V
    BY <1>1, <1>2, <1>3, TextProofs!AfterConcat
  <1>5. QED
    BY <1>1, <1>4, ReadOfIs DEF V, t
-----------------------------------------------------------------------------
(***************************************************************************)
(* Zeroes before and behind a number.                                      *)
(***************************************************************************)
LEMMA SmallestAndLargest ==
  ASSUME NEW n \in Nat, NEW S \in SUBSET (1..n), S # {}
  PROVE  /\ Min(S) \in S /\ \A k \in S : Min(S) <= k
         /\ Max(S) \in S /\ \A k \in S : k <= Max(S)
  <1> DEFINE Least(R) == \E x \in R : \A y \in R : x <= y
             Largest(R) == \E x \in R : \A y \in R : x >= y
             T == {k \in Nat : \A R \in SUBSET (1..k) : R # {} => Least(R) /\ Largest(R)}
  <1>1. 0 \in T
    <2>1. 1..0 = {}
      OBVIOUS
    <2>2. \A R \in SUBSET (1..0) : R = {}
      BY <2>1, Zenon
    <2> HIDE DEF Least, Largest
    <2>3. QED
      BY <2>2
  <1>2. ASSUME NEW k \in T PROVE k + 1 \in T
    <2> SUFFICES ASSUME NEW R \in SUBSET (1..(k + 1)), R # {} PROVE Least(R) /\ Largest(R)
      OBVIOUS
    <2> DEFINE Q == R \ {k + 1}
    <2>1. Q \in SUBSET (1..k) /\ k \in Nat
      OBVIOUS
    <2>2. CASE Q = {}
      <3> DEFINE m == k + 1
      <3>1. \A x \in R : x = m
        BY <2>2
      <3>a. R = {k + 1}
        <4> HIDE DEF m, T, Least, Largest
        <4>1. R = {m}
          BY <3>1, Zenon
        <4>2. QED
          BY <4>1 DEF m
      <3>2. k + 1 <= k + 1 /\ k + 1 >= k + 1
        BY <2>1
      <3>3. QED
        BY <3>a, <3>2
    <2>3. CASE Q # {}
      <3>1. Least(Q) /\ Largest(Q)
        BY <2>1, <2>3
      <3>2. PICK x \in Q : \A y \in Q : x <= y
        BY <3>1
      <3>3. PICK z \in Q : \A y \in Q : z >= y
        BY <3>1
      <3>4. Least(R)
        BY <2>1, <3>2
      <3>5. Largest(R)
        <4>1. CASE k + 1 \in R
          BY <2>1, <4>1
        <4>2. CASE k + 1 \notin R
          BY <3>3, <4>2
        <4>3. QED
          BY <4>1, <4>2
      <3>6. QED
        BY <3>4, <3>5
    <2>4. QED
      BY <2>2, <2>3
  <1>3. T = Nat
    <2> HIDE DEF T
    <2>1. T \in SUBSET Nat
      BY DEF T
    <2>2. QED
      BY <1>1, <1>2, <2>1, TextProofs!SetInduction
  <1>4. Least(S) /\ Largest(S)
    <2>1. n \in T
      BY <1>3
    <2>2. QED
      BY <2>1
  <1>5. QED
    BY <1>4 DEF Min, Max

LEMMA ZeroesType ==
  ASSUME NEW n \in Nat
  PROVE  /\ Repeat(0, n) \in Seq(Nat) /\ Len(Repeat(0, n)) = n
         /\ \A k \in 1..n : Repeat(0, n)[k] = 0
  BY DEF Repeat

LEMMA ZeroesAhead ==
  ASSUME NEW z \in Nat, NEW w \in Seq(Nat)
  PROVE  /\ Repeat(0, z) \o w \in Seq(Nat) /\ Len(Repeat(0, z) \o w) = z + Len(w)
         /\ Len(w) \in Nat
         /\ \A k \in 1..(z + Len(w)) : (Repeat(0, z) \o w)[k] = IF k <= z THEN 0 ELSE w[k - z]
  <1> DEFINE r == Repeat(0, z)
  <1>1. r \in Seq(Nat) /\ Len(r) = z /\ \A k \in 1..z : r[k] = 0
    BY ZeroesType
  <1> HIDE DEF r
  <1>2. Len(w) \in Nat
    BY LenProperties
  <1>3. /\ r \o w \in Seq(Nat) /\ Len(r \o w) = z + Len(w)
        /\ \A k \in 1..(z + Len(w)) : (r \o w)[k] = IF k <= z THEN r[k] ELSE w[k - z]
    BY <1>1, ConcatProperties
  <1>4. QED
    BY <1>1, <1>2, <1>3 DEF r

LEMMA ZeroesBehind ==
  ASSUME NEW z \in Nat, NEW w \in Seq(Nat)
  PROVE  /\ w \o Repeat(0, z) \in Seq(Nat) /\ Len(w \o Repeat(0, z)) = Len(w) + z
         /\ Len(w) \in Nat
         /\ \A k \in 1..(Len(w) + z) :
               (w \o Repeat(0, z))[k] = IF k <= Len(w) THEN w[k] ELSE 0
  <1> DEFINE r == Repeat(0, z)
  <1>1. r \in Seq(Nat) /\ Len(r) = z /\ \A k \in 1..z : r[k] = 0
    BY ZeroesType
  <1> HIDE DEF r
  <1>2. Len(w) \in Nat
    BY LenProperties
  <1>3. /\ w \o r \in Seq(Nat) /\ Len(w \o r) = Len(w) + z
        /\ \A k \in 1..(Len(w) + z) : (w \o r)[k] = IF k <= Len(w) THEN w[k] ELSE r[k - Len(w)]
    BY <1>1, ConcatProperties
  <1>4. \A k \in 1..(Len(w) + z) : k > Len(w) => k - Len(w) \in 1..z
    BY <1>2
  <1>5. QED
    BY <1>1, <1>2, <1>3, <1>4 DEF r

LEMMA FirstAndLast ==
  ASSUME NEW p \in Seq(Nat), Nonzero(p) # {}
  PROVE  /\ Len(p) \in Nat /\ \A k \in 1..Len(p) : p[k] \in Nat
         /\ Min(Nonzero(p)) \in 1..Len(p) /\ p[Min(Nonzero(p))] # 0
         /\ \A k \in 1..Len(p) : k < Min(Nonzero(p)) => p[k] = 0
         /\ \A k \in 1..Len(p) : p[k] # 0 => Min(Nonzero(p)) <= k
         /\ Max(Nonzero(p)) \in 1..Len(p) /\ p[Max(Nonzero(p))] # 0
         /\ \A k \in 1..Len(p) : k > Max(Nonzero(p)) => p[k] = 0
  <1> DEFINE S == Nonzero(p)
  <1>1. Len(p) \in Nat /\ \A k \in 1..Len(p) : p[k] \in Nat
    BY LenProperties, ElementOfSeq
  <1>2. S \in SUBSET (1..Len(p)) /\ S # {}
    BY DEF Nonzero
  <1>3. \A k \in 1..Len(p) : k \in S <=> p[k] # 0
    BY DEF Nonzero
  <1> HIDE DEF S
  <1>4. /\ Min(S) \in S /\ \A k \in S : Min(S) <= k
        /\ Max(S) \in S /\ \A k \in S : k <= Max(S)
    BY <1>1, <1>2, SmallestAndLargest
  <1> DEFINE low == Min(S)  high == Max(S)
  <1> HIDE DEF low, high
  <1>5. /\ low \in 1..Len(p) /\ p[low] # 0 /\ \A k \in S : low <= k
        /\ high \in 1..Len(p) /\ p[high] # 0 /\ \A k \in S : k <= high
    BY <1>2, <1>3, <1>4 DEF low, high
  <1>6. \A k \in 1..Len(p) : (k < low => p[k] = 0) /\ (p[k] # 0 => low <= k) /\ (k > high => p[k] = 0)
    BY <1>1, <1>3, <1>5
  <1>7. QED
    BY <1>1, <1>5, <1>6 DEF S, low, high

\* The zeroes ahead of a number can be taken away,
LEMMA HeadZeroes ==
  ASSUME NEW z \in Nat, NEW w \in Seq(Nat), Len(w) >= 1, w[1] # 0
  PROVE  WithoutHead(Repeat(0, z) \o w) = w
  <1> DEFINE p == Repeat(0, z) \o w
  <1>1. /\ p \in Seq(Nat) /\ Len(p) = z + Len(w) /\ Len(w) \in Nat
        /\ \A k \in 1..Len(p) : p[k] = IF k <= z THEN 0 ELSE w[k - z]
    BY ZeroesAhead, ZenonT(60)
  <1> HIDE DEF p
  <1>2. z + 1 \in 1..Len(p) /\ p[z + 1] # 0 /\ Nonzero(p) # {}
    <2>1. z + 1 \in 1..Len(p) /\ ~(z + 1 <= z) /\ (z + 1) - z = 1
      BY <1>1
    <2>2. p[z + 1] # 0
      BY <1>1, <2>1
    <2>3. QED
      BY <2>1, <2>2 DEF Nonzero
  <1>3. Min(Nonzero(p)) = z + 1
    <2> DEFINE m == Min(Nonzero(p))
    <2>1. m \in 1..Len(p) /\ p[m] # 0 /\ m <= z + 1
      BY <1>1, <1>2, FirstAndLast
    <2> HIDE DEF m
    <2>2. m = z + 1
      BY <1>1, <2>1
    <2>3. QED
      BY <2>2 DEF m
  <1>4. WithoutHead(p) = SubSeq(p, z + 1, Len(p))
    BY <1>2, <1>3 DEF WithoutHead
  <1>5. /\ SubSeq(p, z + 1, Len(p)) \in Seq(Nat)
        /\ Len(SubSeq(p, z + 1, Len(p))) = Len(w)
        /\ \A k \in 1..Len(w) : SubSeq(p, z + 1, Len(p))[k] = w[k]
    <2> DEFINE m == z + 1  n == Len(p)  u == SubSeq(p, m, n)
    <2>1. \A k \in 1..n : p[k] \in Nat
      BY ElementOfSeq, <1>1
    <2>2. /\ m \in Int /\ n \in Int /\ m <= n + 1 /\ \A k \in m..n : p[k] \in Nat
          /\ n - m + 1 = Len(w) /\ m = z + 1 /\ n = z + Len(w)
      BY <1>1, <2>1
    <2> HIDE DEF m, n
    <2>3. /\ u \in Seq(Nat) /\ Len(u) = n - m + 1
          /\ \A k \in 1..(n - m + 1) : u[k] = p[m + k - 1]
      BY <2>2, SubSeqProperties
    <2> HIDE DEF u
    <2>4. \A k \in 1..Len(w) : u[k] = w[k]
      <3> SUFFICES ASSUME NEW k \in 1..Len(w) PROVE u[k] = w[k]
        OBVIOUS
      <3>1. m + k - 1 = z + k /\ z + k \in 1..n /\ ~(z + k <= z) /\ (z + k) - z = k
        BY <1>1, <2>2
      <3>2. u[k] = p[z + k]
        BY <2>2, <2>3, <3>1
      <3>3. p[z + k] = w[k]
        BY <1>1, <2>2, <3>1
      <3>4. QED
        BY <3>2, <3>3
    <2>5. QED
      BY <2>2, <2>3, <2>4 DEF u, m, n
  <1>6. SubSeq(p, z + 1, Len(p)) = w
    BY <1>5, SeqEqual
  <1>7. QED
    BY <1>4, <1>6 DEF p

LEMMA OnlyZeroes == ASSUME NEW z \in Nat PROVE WithoutHead(Repeat(0, z)) = Zero
  BY ZeroesType DEF WithoutHead, Nonzero

\* and put back.
LEMMA WithoutHeadIs ==
  ASSUME NEW p \in Seq(Nat), Nonzero(p) # {}
  PROVE  \E z \in Nat : \E w \in Seq(Nat) :
           /\ WithoutHead(p) = w /\ p = Repeat(0, z) \o w /\ Len(w) >= 1 /\ w[1] # 0
           /\ Len(p) = z + Len(w)
  <1>1. Len(p) \in Nat /\ \A k \in 1..Len(p) : p[k] \in Nat
    BY LenProperties, ElementOfSeq
  <1>2. Nonzero(p) \in SUBSET (1..Len(p))
    BY DEF Nonzero
  <1> DEFINE m == Min(Nonzero(p))
             w == SubSeq(p, m, Len(p))
             z == m - 1
  <1>3. m \in 1..Len(p) /\ p[m] # 0 /\ \A k \in 1..Len(p) : k < m => p[k] = 0
    BY FirstAndLast
  <1>4. WithoutHead(p) = w
    BY DEF WithoutHead
  <1> HIDE DEF m
  <1>5. /\ w \in Seq(Nat) /\ Len(w) = Len(p) - m + 1
        /\ \A k \in 1..(Len(p) - m + 1) : w[k] = p[m + k - 1]
    <2>1. m \in Int /\ Len(p) \in Int /\ \A k \in m..Len(p) : p[k] \in Nat
      BY <1>1, <1>3
    <2>2. QED
      BY <1>1, <1>3, <2>1, SubSeqProperties
  <1> HIDE DEF w
  <1>6. z \in Nat /\ Len(w) >= 1 /\ w[1] # 0 /\ Len(p) = z + Len(w)
    BY <1>1, <1>3, <1>5, SMTT(40)
  <1>7. Repeat(0, z) \o w = p
    <2>0. z = m - 1
      OBVIOUS
    <2> HIDE DEF z
    <2> DEFINE q == Repeat(0, z) \o w
    <2>1. /\ q \in Seq(Nat) /\ Len(q) = Len(p)
          /\ \A k \in 1..Len(p) : q[k] = IF k <= z THEN 0 ELSE w[k - z]
      BY <1>5, <1>6, ZeroesAhead, ZenonT(60)
    <2> HIDE DEF q
    <2>2. \A k \in 1..Len(p) : q[k] = p[k]
      <3> SUFFICES ASSUME NEW k \in 1..Len(p) PROVE q[k] = p[k]
        OBVIOUS
      <3>1. CASE k < m
        BY <1>1, <1>3, <2>0, <2>1, <3>1
      <3>2. CASE k >= m
        <4>1. k - z \in 1..(Len(p) - m + 1) /\ m + (k - z) - 1 = k /\ ~(k <= z)
          BY <1>1, <1>3, <2>0, <3>2
        <4>2. QED
          BY <1>5, <2>1, <4>1
      <3>3. QED
        BY <1>1, <1>3, <3>1, <3>2
    <2>3. q = p
      BY <2>1, <2>2, SeqEqual
    <2>4. QED
      BY <2>3 DEF q
  <1>8. QED
    BY <1>4, <1>5, <1>6, <1>7

LEMMA WithoutTailIs ==
  ASSUME NEW p \in Seq(Nat), Nonzero(p) # {}
  PROVE  \E z \in Nat : \E w \in Seq(Nat) :
           WithoutTail(p) = w /\ p = w \o Repeat(0, z) /\ Len(w) >= 1 /\ Len(p) = Len(w) + z
  <1>1. Len(p) \in Nat /\ \A k \in 1..Len(p) : p[k] \in Nat
    BY LenProperties, ElementOfSeq
  <1>2. Nonzero(p) \in SUBSET (1..Len(p))
    BY DEF Nonzero
  <1> DEFINE m == Max(Nonzero(p))
             w == SubSeq(p, 1, m)
             z == Len(p) - m
  <1>3. m \in 1..Len(p) /\ \A k \in 1..Len(p) : k > m => p[k] = 0
    BY FirstAndLast
  <1>4. WithoutTail(p) = w
    BY DEF WithoutTail
  <1> HIDE DEF m
  <1>5. w \in Seq(Nat) /\ Len(w) = m /\ \A k \in 1..m : w[k] = p[k]
    <2>1. 1 \in Int /\ m \in Int /\ \A k \in 1..m : p[k] \in Nat
      BY <1>1, <1>3
    <2>2. QED
      BY <1>1, <1>3, <2>1, SubSeqProperties
  <1> HIDE DEF w
  <1>6. z \in Nat /\ Len(w) >= 1 /\ Len(p) = Len(w) + z
    BY <1>1, <1>3, <1>5
  <1>7. w \o Repeat(0, z) = p
    <2> HIDE DEF z
    <2> DEFINE q == w \o Repeat(0, z)
    <2>1. /\ q \in Seq(Nat) /\ Len(q) = Len(p)
          /\ \A k \in 1..Len(p) : q[k] = IF k <= m THEN w[k] ELSE 0
      BY <1>5, <1>6, ZeroesBehind
    <2> HIDE DEF q
    <2>2. \A k \in 1..Len(p) : q[k] = p[k]
      BY <1>1, <1>3, <1>5, <2>1
    <2>3. q = p
      BY <2>1, <2>2, SeqEqual
    <2>4. QED
      BY <2>3 DEF q
  <1>8. QED
    BY <1>4, <1>5, <1>6, <1>7

LEMMA NumberIs ==
  ASSUME NEW n, NEW size, IsNumber(n, size)
  PROVE  n \in Seq(Nat) /\ n # <<>> /\ Len(n) >= 1 /\ (n = Zero \/ n[1] # 0)
  <1>1. n \in Seq(Nat) /\ Len(n) >= 1 /\ (Len(n) > 1 => n[1] # 0)
    <2>1. 0..9 \subseteq Nat
      OBVIOUS
    <2>2. QED
      BY <2>1, SeqMonotonic DEF IsNumber
  <1>2. CASE Len(n) = 1 /\ n[1] = 0
    <2>1. n = <<0>>
      BY <1>1, <1>2
    <2>2. QED
      BY <1>1, <2>1 DEF Zero
  <1>3. CASE n[1] # 0
    <2>1. n # <<>>
      BY <1>1
    <2>2. QED
      BY <1>1, <1>3, <2>1
  <1>4. n[1] # 0 \/ Len(n) = 1
    <2>1. Len(n) \in Nat
      BY <1>1, LenProperties
    <2>2. CASE Len(n) > 1
      BY <1>1, <2>2, Zenon
    <2>3. CASE ~(Len(n) > 1)
      <3>1. \A m \in Nat : m >= 1 /\ ~(m > 1) => m = 1
        OBVIOUS
      <3>2. QED
        BY <1>1, <2>1, <2>3, <3>1, Zenon
    <2>4. QED
      BY <2>2, <2>3
  <1>5. QED
    BY <1>2, <1>3, <1>4
-----------------------------------------------------------------------------
(***************************************************************************)
(* A text of a number: read between two marks, it is that number in units  *)
(* of 10^k.                                                                *)
(***************************************************************************)
Shows(text, k, n) ==
  /\ text \in Seq(Int)
  /\ \A s \in Seq(Int), numbers \in Seq(NumbersRead) :
       ReadOf(s) = Between(numbers) =>
         \E digits \in Seq(Nat), dot \in BOOLEAN, decimals \in Nat :
           /\ digits # <<>> /\ InUnits(NumberRead(digits, decimals), k) = n
           /\ ReadOf(s \o text) = Reader(numbers, digits, dot, decimals)

\* A number and the marks behind it.
LEMMA NumberRecognised ==
  ASSUME NEW s \in Seq(Int), NEW numbers \in Seq(NumbersRead), ReadOf(s) = Between(numbers),
         NEW text, NEW k, NEW n, Shows(text, k, n), NEW marks \in Nat, marks # 0
  PROVE  \E x \in NumbersRead :
           /\ InUnits(x, k) = n
           /\ ReadOf((s \o text) \o Repeat(Mark, marks)) = Between(Append(numbers, x))
  <1>1. PICK digits \in Seq(Nat), dot \in BOOLEAN, decimals \in Nat :
          /\ digits # <<>> /\ InUnits(NumberRead(digits, decimals), k) = n
          /\ ReadOf(s \o text) = Reader(numbers, digits, dot, decimals)
    BY DEF Shows
  <1>2. s \o text \in Seq(Int)
    BY ConcatProperties DEF Shows
  <1>3. ReadOf((s \o text) \o Repeat(Mark, marks)) = Between(Append(numbers, NumberRead(digits, decimals)))
    <2> DEFINE u == s \o text
    <2>1. u \in Seq(Int) /\ digits # <<>> /\ ReadOf(u) = Reader(numbers, digits, dot, decimals)
      BY <1>1, <1>2
    <2> HIDE DEF u
    <2>2. ReadOf(u \o Repeat(Mark, marks)) = Between(Append(numbers, NumberRead(digits, decimals)))
      BY <2>1, MarksRead
    <2>3. QED
      BY <2>2 DEF u
  <1>4. NumberRead(digits, decimals) \in NumbersRead
    BY DEF NumberRead, NumbersRead
  <1>5. QED
    BY <1>1, <1>3, <1>4

LEMMA MarkBehind ==
  ASSUME NEW s \in Seq(Int), NEW marks \in Nat
  PROVE  Append(s \o Repeat(Mark, marks), Mark) = s \o Repeat(Mark, marks + 1)
  <1>1. Mark \in Int
    BY DEF Mark
  <1> DEFINE t == Repeat(Mark, marks)
  <1>2. t \in Seq(Int) /\ Append(t, Mark) = Repeat(Mark, marks + 1)
    BY <1>1, MarksType
  <1> HIDE DEF t
  <1> DEFINE m == Mark
  <1>3. m \in Int
    BY <1>1
  <1> HIDE DEF m
  <1>4. Append(s \o t, m) = s \o Append(t, m)
    BY <1>2, <1>3, ConcatAppend
  <1>5. QED
    BY <1>2, <1>4 DEF t, m

\* One number among marks.
LEMMA OneNumber ==
  ASSUME NEW text, NEW k, NEW n, Shows(text, k, n), NEW before \in Nat, NEW behind \in Nat
  PROVE  NumbersIn((Repeat(Mark, before) \o text) \o Repeat(Mark, behind), k) = <<n>>
  <1> DEFINE head == Repeat(Mark, before)
  <1>1. head \in Seq(Int) /\ head = <<>> \o head /\ Mark \in Int
    <2>1. Mark \in Int
      BY DEF Mark
    <2>2. head \in Seq(Int)
      BY <2>1, MarksType
    <2>3. QED
      BY <2>1, <2>2, ConcatEmptySeq
  <1>2. <<>> \in Seq(Int) /\ <<>> \in Seq(NumbersRead)
    BY EmptySeq
  <1>3. ReadOf(head) = Between(<<>>)
    <2>1. ReadOf(<<>> \o head) = Between(<<>>)
      BY <1>2, EmptyRead, MarksBetween
    <2>2. QED
      BY <1>1, <2>1
  <1> HIDE DEF head
  <1>4. PICK x \in NumbersRead :
          InUnits(x, k) = n /\ ReadOf((head \o text) \o Repeat(Mark, behind + 1)) = Between(Append(<<>>, x))
    <2>1. behind + 1 \in Nat /\ behind + 1 # 0
      OBVIOUS
    <2> DEFINE e == <<>>  marks == behind + 1
    <2>2. e \in Seq(NumbersRead) /\ marks \in Nat /\ marks # 0 /\ ReadOf(head) = Between(e)
      BY <1>2, <1>3, <2>1
    <2> HIDE DEF e, marks
    <2>3. \E x \in NumbersRead :
            InUnits(x, k) = n /\ ReadOf((head \o text) \o Repeat(Mark, marks)) = Between(Append(e, x))
      BY <1>1, <2>2, NumberRecognised
    <2>4. QED
      BY <2>3 DEF e, marks
  <1>5. head \o text \in Seq(Int)
    BY <1>1, ConcatProperties DEF Shows
  <1>6. ReadOf(Append((head \o text) \o Repeat(Mark, behind), Mark)) = Between(Append(<<>>, x))
    BY <1>4, <1>5, MarkBehind
  <1>7. Append(<<>>, x) = <<x>>
    BY <1>2, AppendIsConcat, ConcatEmptySeq
  <1>8. Text!After(Append((head \o text) \o Repeat(Mark, behind), Mark)).numbers = <<x>>
    BY <1>6, <1>7 DEF ReadOf, Between
  <1>9. NumbersIn((head \o text) \o Repeat(Mark, behind), k) = [j \in DOMAIN <<x>> |-> InUnits(<<x>>[j], k)]
    BY <1>8, Zenon DEF NumbersIn
  <1>10. QED
    BY <1>4, <1>9 DEF head

\* Two numbers, with marks between them.
LEMMA TwoNumbers ==
  ASSUME NEW text1, NEW text2, NEW n1, NEW n2, Shows(text1, 0, n1), Shows(text2, 0, n2),
         NEW between \in Nat, between # 0, NEW behind \in Nat
  PROVE  NumbersIn(((text1 \o Repeat(Mark, between)) \o text2) \o Repeat(Mark, behind), 0) = <<n1, n2>>
  <1>1. <<>> \in Seq(Int) /\ <<>> \in Seq(NumbersRead) /\ ReadOf(<<>>) = Between(<<>>)
    BY EmptySeq, EmptyRead
  <1>2. text1 \in Seq(Int) /\ <<>> \o text1 = text1
    BY ConcatEmptySeq DEF Shows
  <1> DEFINE head == text1 \o Repeat(Mark, between)
  <1>3. PICK x \in NumbersRead : InUnits(x, 0) = n1 /\ ReadOf(head) = Between(Append(<<>>, x))
    <2>1. \E x \in NumbersRead :
            /\ InUnits(x, 0) = n1
            /\ ReadOf((<<>> \o text1) \o Repeat(Mark, between)) = Between(Append(<<>>, x))
      <3> DEFINE e == <<>>  f == <<>>  u == 0
      <3>1. f \in Seq(Int) /\ e \in Seq(NumbersRead) /\ ReadOf(f) = Between(e) /\ Shows(text1, u, n1)
        BY <1>1
      <3> HIDE DEF e, f, u
      <3>2. \E x \in NumbersRead :
              /\ InUnits(x, u) = n1
              /\ ReadOf((f \o text1) \o Repeat(Mark, between)) = Between(Append(e, x))
        BY <3>1, NumberRecognised
      <3>3. QED
        BY <3>2 DEF e, f, u
    <2>2. QED
      BY <1>2, <2>1
  <1>4. head \in Seq(Int)
    <2>1. Mark \in Int
      BY DEF Mark
    <2>2. Repeat(Mark, between) \in Seq(Int)
      BY <2>1, MarksType
    <2>3. QED
      BY <1>2, <2>2, ConcatProperties
  <1>5. Append(<<>>, x) = <<x>> /\ <<x>> \in Seq(NumbersRead)
    OBVIOUS
  <1> HIDE DEF head
  <1>6. PICK y \in NumbersRead :
          InUnits(y, 0) = n2 /\ ReadOf((head \o text2) \o Repeat(Mark, behind + 1)) = Between(Append(<<x>>, y))
    <2>1. behind + 1 \in Nat /\ behind + 1 # 0 /\ ReadOf(head) = Between(<<x>>)
      BY <1>3, <1>5
    <2> DEFINE e == <<x>>  marks == behind + 1  u == 0
    <2>2. /\ e \in Seq(NumbersRead) /\ marks \in Nat /\ marks # 0 /\ ReadOf(head) = Between(e)
          /\ Shows(text2, u, n2)
      BY <1>5, <2>1
    <2> HIDE DEF e, marks, u
    <2>3. \E y \in NumbersRead :
            InUnits(y, u) = n2 /\ ReadOf((head \o text2) \o Repeat(Mark, marks)) = Between(Append(e, y))
      BY <1>4, <2>2, NumberRecognised
    <2>4. QED
      BY <2>3 DEF e, marks, u
  <1>7. head \o text2 \in Seq(Int)
    BY <1>4, ConcatProperties DEF Shows
  <1>8. ReadOf(Append((head \o text2) \o Repeat(Mark, behind), Mark)) = Between(Append(<<x>>, y))
    <2> DEFINE u == head \o text2
    <2>1. u \in Seq(Int) /\ ReadOf(u \o Repeat(Mark, behind + 1)) = Between(Append(<<x>>, y))
      BY <1>6, <1>7
    <2> HIDE DEF u
    <2>2. Append(u \o Repeat(Mark, behind), Mark) = u \o Repeat(Mark, behind + 1)
      BY <2>1, MarkBehind
    <2>3. QED
      BY <2>1, <2>2 DEF u
  <1>9. Append(<<x>>, y) = <<x, y>>
    BY AppendedPair
  <1>10. Text!After(Append((head \o text2) \o Repeat(Mark, behind), Mark)).numbers = <<x, y>>
    BY <1>8, <1>9 DEF ReadOf, Between
  <1>11. NumbersIn((head \o text2) \o Repeat(Mark, behind), 0)
           = [j \in DOMAIN <<x, y>> |-> InUnits(<<x, y>>[j], 0)]
    BY <1>10, Zenon DEF NumbersIn
  <1>12. QED
    BY <1>3, <1>6, <1>11 DEF head

\* A number is shown by its digits.
LEMMA DigitsShow ==
  ASSUME NEW n, NEW size, IsNumber(n, size)
  PROVE  Shows(n, 0, n)
  <1>1. n \in Seq(Nat) /\ n # <<>> /\ Len(n) >= 1 /\ (n = Zero \/ n[1] # 0)
    BY NumberIs
  <1>2. n \in Seq(Int)
    BY <1>1, SeqMonotonic
  <1>3. InUnits(NumberRead(n, 0), 0) = n
    <2>1. Repeat(0, 0 - 0) = <<>> /\ n \o <<>> = n
      BY <1>1, ConcatEmptySeq DEF Repeat
    <2>2. InUnits(NumberRead(n, 0), 0) = WithoutHead(n)
      BY <2>1 DEF InUnits, NumberRead
    <2>3. CASE n = Zero
      <3>1. Nonzero(Zero) = {}
        BY DEF Nonzero, Zero
      <3>2. QED
        BY <2>2, <2>3, <3>1 DEF WithoutHead
    <2>4. CASE n[1] # 0
      <3>1. Repeat(0, 0) = <<>> /\ <<>> \o n = n
        BY <1>1, ConcatEmptySeq DEF Repeat
      <3>2. WithoutHead(Repeat(0, 0) \o n) = n
        BY <1>1, <2>4, HeadZeroes
      <3>3. QED
        BY <2>2, <3>1, <3>2
    <2>5. QED
      BY <1>1, <2>3, <2>4
  <1>4. ASSUME NEW s \in Seq(Int), NEW numbers \in Seq(NumbersRead), ReadOf(s) = Between(numbers)
        PROVE  ReadOf(s \o n) = Reader(numbers, n, FALSE, 0)
    <2>1. ReadOf(s) = Reader(numbers, <<>>, FALSE, 0) /\ <<>> \in Seq(Nat) /\ FALSE \in BOOLEAN /\ 0 \in Nat
      BY <1>4 DEF Between, Reader
    <2> DEFINE e == <<>>  f == FALSE  z == 0
    <2>2. ReadOf(s) = Reader(numbers, e, f, z) /\ e \in Seq(Nat) /\ f \in BOOLEAN /\ z \in Nat
      BY <2>1
    <2> HIDE DEF e, f, z
    <2>3. ReadOf(s \o n) = Reader(numbers, e \o n, f, IF f THEN z + Len(n) ELSE z)
      BY <1>1, <2>2, DigitsRead
    <2>4. e \o n = n /\ ~f /\ z = 0
      BY <1>1, ConcatEmptySeq DEF e, f, z
    <2>5. QED
      BY <2>3, <2>4 DEF f
  <1>5. QED
    BY <1>1, <1>2, <1>3, <1>4 DEF Shows
-----------------------------------------------------------------------------
(***************************************************************************)
(* The keys exported and the addresses approved.                           *)
(***************************************************************************)
LEMMA Written ==
  ASSUME NEW n, NEW size \in Nat, IsNumber(n, size), NEW length \in Nat, size < length
  PROVE  bin2dec(n, length) = n /\ numberToText(n, length) = n
  <1>1. Len(n) \in Nat /\ Len(n) <= size
    BY DEF IsNumber
  <1>2. ~(length < Len(n)) /\ ~(length < Len(n) + 1)
    BY <1>1
  <1>3. QED
    BY <1>2 DEF bin2dec, numberToText

LEMMA IdentityWritten ==
  ASSUME NEW identity \in Identities
  PROVE  /\ IsNumber(identity, 10)
         /\ bin2dec(identity, 11) = identity /\ numberToText(identity, 14) = identity
  <1> DEFINE size == 10
  <1>1. IsNumber(identity, size) /\ size \in Nat /\ size < 11 /\ size < 14
    BY NumbersAssumption
  <1> HIDE DEF size
  <1>2. bin2dec(identity, 11) = identity
    BY <1>1, Written
  <1>3. numberToText(identity, 14) = identity
    BY <1>1, Written
  <1>4. QED
    BY <1>1, <1>2, <1>3 DEF size

\* An export of both keys is the one its title calls so.
LEMMA ExportedIs ==
  ASSUME NEW p1 \in 0..2, NEW p2 \in 1..2, NEW identity \in Identities, Exports(p1, p2, identity)
  PROVE  /\ Exported.identity = identity /\ Exported.path = PathIndex[identity]
         /\ ID_CRED_SEC \in ToSet(Exported.keys) <=> Exported.header = "Create credential"
         /\ Exported.kind = "keys"
  <1>1. /\ dialog.header = Header(p1) /\ dialog.identity = identity
        /\ dialog.exportBoth <=> p1 = P1_BOTH
        /\ dialog.path = PathIndex[identity]
    BY IdentityWritten DEF Exports
  <1>2. /\ Exported.identity = identity /\ Exported.path = PathIndex[identity]
        /\ Exported.header = Header(p1) /\ Exported.kind = "keys"
        /\ Exported.keys = <<PRF_KEY>> \o (IF dialog.exportBoth THEN <<ID_CRED_SEC>> ELSE <<>>)
    BY <1>1 DEF Exported
  <1>3. Header(p1) = "Create credential" <=> p1 = P1_BOTH
    <2>1. p1 = 0 \/ p1 = 1 \/ p1 = 2
      OBVIOUS
    <2>2. CASE p1 = 0
      BY <2>2 DEF Header, P1_BOTH
    <2>3. CASE p1 = 1
      BY <2>3 DEF Header, P1_BOTH
    <2>4. CASE p1 = 2
      BY <2>4 DEF Header, P1_BOTH
    <2>5. QED
      BY <2>1, <2>2, <2>3, <2>4
  <1>4. ID_CRED_SEC \in ToSet(Exported.keys) <=> dialog.exportBoth
    <2>1. CASE dialog.exportBoth
      <3>1. Exported.keys = <<PRF_KEY>> \o <<ID_CRED_SEC>>
        BY <1>2, <2>1
      <3>2. (<<PRF_KEY>> \o <<ID_CRED_SEC>>)[2] = ID_CRED_SEC /\ Len(<<PRF_KEY>> \o <<ID_CRED_SEC>>) = 2
        BY DEF PRF_KEY, ID_CRED_SEC
      <3>3. QED
        BY <2>1, <3>1, <3>2 DEF ToSet
    <2>2. CASE ~dialog.exportBoth
      <3>1. Exported.keys = <<PRF_KEY>>
        BY <1>2, <2>2, ConcatEmptySeq
      <3>2. QED
        BY <2>2, <3>1 DEF ToSet, PRF_KEY, ID_CRED_SEC
    <2>3. QED
      BY <2>1, <2>2
  <1>5. QED
    BY <1>1, <1>2, <1>3, <1>4

\* identity/counter reads as these two numbers.
LEMMA AccountIs ==
  ASSUME NEW identity \in Identities, NEW counter \in Counters, AccountText(identity, counter) # Thrown
  PROVE  NumbersIn(AccountText(identity, counter), 0) = <<identity, counter>>
  <1> DEFINE room == 14 - Len(identity) - 1
             digits == bin2dec(counter, room)
  <1>1. IsNumber(counter, 10) /\ IsNumber(identity, 10)
    BY NumbersAssumption
  <1>2. digits # Thrown
    BY DEF AccountText, Behind
  <1>3. digits = counter
    BY <1>2 DEF bin2dec, numberToText
  <1>4. AccountText(identity, counter) = Append(identity, Mark) \o counter
    BY <1>2, <1>3, IdentityWritten DEF AccountText, Behind
  <1>5. identity \in Seq(Int) /\ counter \in Seq(Int) /\ Mark \in Int
    <2>1. 0..9 \subseteq Int
      OBVIOUS
    <2>2. QED
      BY <1>1, <2>1, SeqMonotonic DEF IsNumber, Mark
  <1> DEFINE m == Mark
  <1>6. Append(identity, Mark) = identity \o Repeat(Mark, 1)
    <2>1. Repeat(m, 1) = <<m>> /\ m \in Int
      BY <1>5, MarksType
    <2> HIDE DEF m
    <2>2. Append(identity, m) = identity \o <<m>>
      BY <1>5, <2>1, AppendIsConcat
    <2>3. QED
      BY <2>1, <2>2 DEF m
  <1> DEFINE text == (identity \o Repeat(Mark, 1)) \o counter
  <1>7. text \o Repeat(Mark, 0) = text
    <2>1. Repeat(m, 1) \in Seq(Int) /\ Repeat(m, 0) = <<>>
      BY <1>5, MarksType
    <2>2. text \in Seq(Int)
      BY <1>5, <2>1, ConcatProperties
    <2> HIDE DEF text
    <2>3. QED
      BY <2>1, <2>2, ConcatEmptySeq
  <1>8. NumbersIn(text \o Repeat(Mark, 0), 0) = <<identity, counter>>
    <2> DEFINE size == 10  one == 1  none == 0
    <2>1. IsNumber(identity, size) /\ IsNumber(counter, size) /\ one \in Nat /\ one # 0 /\ none \in Nat
      BY <1>1
    <2> HIDE DEF size, one, none
    <2>2. Shows(identity, 0, identity) /\ Shows(counter, 0, counter)
      BY <2>1, DigitsShow
    <2>3. NumbersIn(((identity \o Repeat(Mark, one)) \o counter) \o Repeat(Mark, none), 0)
            = <<identity, counter>>
      BY <2>1, <2>2, TwoNumbers
    <2>4. QED
      BY <2>3 DEF one, none
  <1>9. QED
    BY <1>4, <1>6, <1>7, <1>8

\* What is sent that is neither keys nor an address.
LEMMA OtherReply ==
  ASSUME KeysAreThoseShown, reply' = reply \/ reply'.kind \notin {"keys", "approved"}
  PROVE  KeysAreThoseShown'
  BY DEF KeysAreThoseShown

LEMMA RepliesKinds ==
  /\ Success.kind = "success" /\ Refusal.kind = "error" /\ Rejection.kind = "rejected"
  /\ NoReply.kind = "none"
  BY DEF Success, Refusal, Rejection, NoReply

LEMMA AcceptExportKeys == ASSUME SingleInv, AcceptExport PROVE KeysAreThoseShown'
  <1>1. owed /\ screen = "export" /\ reply' = Exported
    BY DEF AcceptExport, PressAnswer
  <1>2. PICK p1 \in 0..2 : \E p2 \in 1..2, identity \in Identities : Exports(p1, p2, identity)
    BY <1>1 DEF SingleInv, ExportInv
  <1>3. PICK p2 \in 1..2 : \E identity \in Identities : Exports(p1, p2, identity)
    BY <1>2
  <1>4. PICK identity \in Identities : Exports(p1, p2, identity)
    BY <1>3
  <1>5. /\ reply'.identity = identity /\ reply'.path = PathIndex[identity]
        /\ ID_CRED_SEC \in ToSet(reply'.keys) <=> reply'.header = "Create credential"
        /\ reply'.kind = "keys"
    BY <1>1, <1>4, ExportedIs
  <1>6. QED
    BY <1>5 DEF KeysAreThoseShown, Ordinary

LEMMA AcceptAddressKeys == ASSUME SingleInv, AcceptAddress PROVE KeysAreThoseShown'
  <1>1. owed /\ screen = "verify" /\ reply' = [kind |-> "approved", dialog |-> dialog]
    BY DEF AcceptAddress, PressAnswer
  <1>2. PICK identity \in Identities : \E counter \in Counters : Verifies(identity, counter)
    BY <1>1 DEF SingleInv, VerifyInv
  <1>3. PICK counter \in Counters : Verifies(identity, counter)
    BY <1>2
  <1>4. NumbersIn(reply'.dialog.account, 0) = <<identity, counter>>
    BY <1>1, <1>3, AccountIs DEF Verifies
  <1>5. reply'.dialog.address = <<PathIndex[identity], counter>> /\ reply'.kind = "approved"
    BY <1>1, <1>3 DEF Verifies
  <1>6. QED
    BY <1>4, <1>5 DEF KeysAreThoseShown, Ordinary

LEMMA KeysAreThoseShownNext ==
  ASSUME SingleInv, KeysAreThoseShown, [SingleNext]_singleVars
  PROVE  KeysAreThoseShown'
  <1>1. ASSUME HandleSingle PROVE KeysAreThoseShown'
    <2>1. PICK i \in Instructions \ {Delegation} :
            \E values \in Transactions(FieldsOf(i, {})) : Handle(i, {}, values)
      BY <1>1 DEF HandleSingle
    <2>2. reply' \in {reply, Refusal}
      BY <2>1 DEF Handle, HandleRefused, Refuse, Ask
    <2>3. QED
      BY <2>2, OtherReply, RepliesKinds
  <1>2. ASSUME ConfigureDelegation PROVE KeysAreThoseShown'
    <2>1. reply' \in {reply, Refusal}
      BY <1>2 DEF ConfigureDelegation, Handle, HandleRefused, Refuse, Ask
    <2>2. QED
      BY <2>1, OtherReply, RepliesKinds
  <1>3. ASSUME NEW p1 \in 0..3, NEW p2 \in 0..3, NEW identity \in Identities,
               ExportPrivateKey(p1, p2, identity)
        PROVE KeysAreThoseShown'
    BY <1>3, OtherReply, RepliesKinds DEF ExportPrivateKey, Refuse, Ask
  <1>4. ASSUME NEW identity \in Identities, NEW counter \in Counters,
               HandleVerifyAddress(identity, counter)
        PROVE KeysAreThoseShown'
    <2>1. reply' \in {reply, Refusal, NoReply}
      BY <1>4 DEF HandleVerifyAddress, SingleRestart, DeviceRestart, Refuse, Ask
    <2>2. QED
      BY <2>1, OtherReply, RepliesKinds
  <1>5. CASE AcceptExport
    BY <1>5, AcceptExportKeys
  <1>6. CASE AcceptAddress
    BY <1>6, AcceptAddressKeys
  <1>7. CASE AcceptSign \/ Decline
    <2>1. reply'.kind \in {"signature", "rejected"}
      BY <1>7, RepliesKinds DEF AcceptSign, Decline, PressAnswer
    <2>2. QED
      BY <2>1, OtherReply
  <1>8. CASE Refused \/ SingleDispatch \/ AcceptFails
    <2>1. reply' \in {reply, Refusal}
      BY <1>8 DEF Refused, SingleDispatch, BadCommand, SwitchInstruction, Refuse, AcceptFails, PressThrow
    <2>2. QED
      BY <2>1, OtherReply, RepliesKinds
  <1>9. CASE StrayPress \/ Quit \/ PowerGone
    <2>1. reply' = NoReply
      BY <1>9 DEF StrayPress, Quit, PowerGone, SingleRestart, DeviceRestart
    <2>2. QED
      BY <2>1, OtherReply, RepliesKinds
  <1>10. CASE LongerInstruction
    <2>1. reply' \in {Success, Rejection}
      BY <1>10 DEF LongerInstruction, AnswerNow
    <2>2. QED
      BY <2>1, OtherReply, RepliesKinds
  <1>11. CASE UNCHANGED singleVars
    BY <1>11, OtherReply DEF singleVars, deviceVars
  <1>12. QED
    BY <1>1, <1>2, <1>3, <1>4, <1>5, <1>6, <1>7, <1>8, <1>9, <1>10, <1>11 DEF SingleNext

\* For every identity and counter: an export sends the keys its title names, of the
\* identity on display, and an approved address is that of the account on display.
THEOREM SingleKeysAreThoseShown == SingleSpec => []KeysAreThoseShown
  <1>1. SingleInit => KeysAreThoseShown
    BY RepliesKinds DEF SingleInit, DeviceInit, KeysAreThoseShown
  <1>2. SingleInv /\ KeysAreThoseShown /\ [SingleNext]_singleVars => KeysAreThoseShown'
    BY KeysAreThoseShownNext
  <1>3. QED
    BY <1>1, <1>2, SingleCorrect, PTL DEF SingleSpec
-----------------------------------------------------------------------------
(***************************************************************************)
(* Amounts and fractions: thousands are separated, and decimals.           *)
(***************************************************************************)
\* Of a text the reader has these digits, and no dot.
ReadsDigits(text, digits) ==
  /\ text \in Seq(Int) /\ digits \in Seq(Nat)
  /\ \A s \in Seq(Int), numbers \in Seq(NumbersRead) :
       ReadOf(s) = Between(numbers) => ReadOf(s \o text) = Reader(numbers, digits, FALSE, 0)

LEMMA ConcatInt ==
  ASSUME NEW s \in Seq(Int), NEW t \in Seq(Int), NEW u \in Seq(Int)
  PROVE  s \o (t \o u) = (s \o t) \o u
  <1> DEFINE S == Int
  <1>1. s \in Seq(S) /\ t \in Seq(S) /\ u \in Seq(S)
    OBVIOUS
  <1> HIDE DEF S
  <1>2. (s \o t) \o u = s \o (t \o u)
    BY <1>1, ConcatAssociative, SMTT(40)
  <1>3. QED
    BY <1>2

LEMMA ConcatNat ==
  ASSUME NEW s \in Seq(Nat), NEW t \in Seq(Nat), NEW u \in Seq(Nat)
  PROVE  s \o (t \o u) = (s \o t) \o u
  <1> DEFINE S == Int
  <1>1. s \in Seq(S) /\ t \in Seq(S) /\ u \in Seq(S)
    OBVIOUS
  <1> HIDE DEF S
  <1>2. (s \o t) \o u = s \o (t \o u)
    BY <1>1, ConcatAssociative, SMTT(40)
  <1>3. QED
    BY <1>2

LEMMA JoinedNat ==
  ASSUME NEW s \in Seq(Nat), NEW t \in Seq(Nat)
  PROVE  /\ s \o t \in Seq(Nat) /\ Len(s \o t) = Len(s) + Len(t) /\ Len(s) \in Nat /\ Len(t) \in Nat
         /\ \A k \in 1..(Len(s) + Len(t)) : (s \o t)[k] = IF k <= Len(s) THEN s[k] ELSE t[k - Len(s)]
  BY ConcatProperties, LenProperties

LEMMA JoinedInt ==
  ASSUME NEW s \in Seq(Int), NEW t \in Seq(Int)
  PROVE  /\ s \o t \in Seq(Int) /\ Len(s \o t) = Len(s) + Len(t) /\ Len(s) \in Nat /\ Len(t) \in Nat
         /\ \A k \in 1..(Len(s) + Len(t)) : (s \o t)[k] = IF k <= Len(s) THEN s[k] ELSE t[k - Len(s)]
  BY ConcatProperties, LenProperties

LEMMA SameNat ==
  ASSUME NEW s \in Seq(Nat), NEW t \in Seq(Nat), Len(s) = Len(t), \A k \in 1..Len(s) : s[k] = t[k]
  PROVE  s = t
  BY SeqEqual

LEMMA OneMoreZero == ASSUME NEW n \in Nat PROVE <<0>> \o Repeat(0, n) = Repeat(0, 1 + n)
  <1> DEFINE a == <<0>>  fill == Repeat(0, n)  all == Repeat(0, 1 + n)
  <1>1. /\ fill \in Seq(Nat) /\ Len(fill) = n /\ \A j \in 1..n : fill[j] = 0
        /\ all \in Seq(Nat) /\ Len(all) = 1 + n /\ \A j \in 1..(1 + n) : all[j] = 0
    BY ZeroesType
  <1>2. a \in Seq(Nat) /\ Len(a) = 1 /\ a[1] = 0
    OBVIOUS
  <1> DEFINE both == a \o fill
  <1> HIDE DEF a, fill, all
  <1>3. /\ both \in Seq(Nat) /\ Len(both) = 1 + n
        /\ \A j \in 1..(1 + n) : both[j] = IF j <= 1 THEN a[j] ELSE fill[j - 1]
    <2>1. /\ both \in Seq(Nat) /\ Len(both) = Len(a) + Len(fill)
          /\ \A j \in 1..(Len(a) + Len(fill)) : both[j] = IF j <= Len(a) THEN a[j] ELSE fill[j - Len(a)]
      BY <1>1, <1>2, JoinedNat
    <2> HIDE DEF both
    <2>2. QED
      BY <1>1, <1>2, <2>1
  <1> HIDE DEF both
  <1>4. \A j \in 1..(1 + n) : both[j] = all[j]
    <2> SUFFICES ASSUME NEW j \in 1..(1 + n) PROVE both[j] = 0
      BY <1>1
    <2>1. CASE j = 1
      BY <1>2, <1>3, <2>1
    <2>2. CASE j # 1
      <3>1. ~(j <= 1) /\ j - 1 \in 1..n
        BY <2>2
      <3>2. QED
        BY <1>1, <1>3, <3>1
    <2>3. QED
      BY <2>1, <2>2
  <1>5. both = all
    BY <1>1, <1>3, <1>4, SameNat
  <1>6. QED
    BY <1>5 DEF both, all, a, fill

LEMMA ZeroAndDot == <<0>> \o <<Dot>> = <<0, Dot>>
  <1>1. 0 \in Int /\ Dot \in Int
    BY DEF Dot
  <1> DEFINE d == Dot  a == <<0>>
  <1>2. a \in Seq(Int) /\ d \in Int
    BY <1>1
  <1>3. Append(<<0>>, d) = <<0, d>>
    <2> DEFINE z == 0  S == Int
    <2>1. z \in S /\ d \in S
      BY <1>1
    <2> HIDE DEF z, d, S
    <2>2. Append(<<z>>, d) = <<z, d>>
      BY <2>1, AppendedPair
    <2>3. QED
      BY <2>2 DEF z
  <1> HIDE DEF a, d
  <1>4. Append(a, d) = a \o <<d>>
    BY <1>2, AppendIsConcat
  <1>5. QED
    BY <1>3, <1>4 DEF a, d

LEMMA PlainDigits == ASSUME NEW n \in Seq(Nat) PROVE ReadsDigits(n, n)
  <1>1. n \in Seq(Int)
    BY SeqMonotonic
  <1>2. ASSUME NEW s \in Seq(Int), NEW numbers \in Seq(NumbersRead), ReadOf(s) = Between(numbers)
        PROVE  ReadOf(s \o n) = Reader(numbers, n, FALSE, 0)
    <2>1. ReadOf(s) = Reader(numbers, <<>>, FALSE, 0) /\ <<>> \in Seq(Nat)
      BY <1>2 DEF Between, Reader
    <2> DEFINE e == <<>>  f == FALSE  z == 0
    <2>2. ReadOf(s) = Reader(numbers, e, f, z) /\ e \in Seq(Nat) /\ f \in BOOLEAN /\ z \in Nat
      BY <2>1
    <2> HIDE DEF e, f, z
    <2>3. ReadOf(s \o n) = Reader(numbers, e \o n, f, IF f THEN z + Len(n) ELSE z)
      BY <2>2, DigitsRead
    <2>4. e \o n = n /\ ~f /\ z = 0
      BY ConcatEmptySeq DEF e, f, z
    <2>5. QED
      BY <2>3, <2>4 DEF f
  <1>3. QED
    BY <1>1, <1>2 DEF ReadsDigits

LEMMA WholeShows ==
  ASSUME NEW text, NEW digits, ReadsDigits(text, digits), digits # <<>>, NEW k \in Nat,
         NEW n, n = WithoutHead(digits \o Repeat(0, k))
  PROVE  Shows(text, k, n)
  <1>1. text \in Seq(Int) /\ digits \in Seq(Nat)
    BY DEF ReadsDigits
  <1>2. InUnits(NumberRead(digits, 0), k) = n
    <2>1. k - 0 = k
      OBVIOUS
    <2>2. QED
      BY <2>1 DEF InUnits, NumberRead
  <1>3. ASSUME NEW s \in Seq(Int), NEW numbers \in Seq(NumbersRead), ReadOf(s) = Between(numbers)
        PROVE  ReadOf(s \o text) = Reader(numbers, digits, FALSE, 0)
    BY <1>3 DEF ReadsDigits
  <1>4. QED
    BY <1>1, <1>2, <1>3 DEF Shows

\* Decimals behind a dot.
LEMMA DottedShows ==
  ASSUME NEW text, NEW digits, ReadsDigits(text, digits), digits # <<>>,
         NEW k \in Nat, NEW t \in Seq(Nat), Len(t) <= k,
         NEW n, n = WithoutHead((digits \o t) \o Repeat(0, k - Len(t)))
  PROVE  Shows((text \o <<Dot>>) \o t, k, n)
  <1>1. text \in Seq(Int) /\ digits \in Seq(Nat) /\ Dot \in Int /\ t \in Seq(Int) /\ Len(t) \in Nat
    BY SeqMonotonic, LenProperties DEF ReadsDigits, Dot
  <1> DEFINE d == Dot
             u == text \o <<d>>
  <1>2. <<d>> \in Seq(Int) /\ u \in Seq(Int) /\ u \o t \in Seq(Int)
    <2>1. <<d>> \in Seq(Int)
      BY <1>1
    <2>2. u \in Seq(Int)
      BY <1>1, <2>1, ConcatProperties
    <2> HIDE DEF u
    <2>3. QED
      BY <1>1, <2>1, <2>2, ConcatProperties
  <1>3. digits \o t \in Seq(Nat) /\ digits \o t # <<>>
    <2>1. Len(digits) \in Nat /\ Len(digits) # 0
      BY <1>1, LenProperties, EmptySeq
    <2>2. digits \o t \in Seq(Nat) /\ Len(digits \o t) = Len(digits) + Len(t)
      BY <1>1, ConcatProperties
    <2>3. Len(digits \o t) # 0
      BY <1>1, <2>1, <2>2
    <2>4. QED
      BY <2>2, <2>3, EmptySeq
  <1>4. InUnits(NumberRead(digits \o t, Len(t)), k) = n
    BY DEF InUnits, NumberRead
  <1>5. ASSUME NEW s \in Seq(Int), NEW numbers \in Seq(NumbersRead), ReadOf(s) = Between(numbers)
        PROVE  ReadOf(s \o (u \o t)) = Reader(numbers, digits \o t, TRUE, Len(t))
    <2>1. ReadOf(s \o text) = Reader(numbers, digits, FALSE, 0)
      BY <1>5 DEF ReadsDigits
    <2> DEFINE v == s \o text
    <2>2. v \in Seq(Int) /\ s \o u = v \o <<d>> /\ s \o (u \o t) = (s \o u) \o t /\ v \o <<d>> = Append(v, d)
      <3>1. v \in Seq(Int)
        BY <1>1, ConcatProperties
      <3>2. s \o u = v \o <<d>>
        BY <1>1, <1>2, ConcatAssociative, SMTT(40)
      <3>3. s \o (u \o t) = (s \o u) \o t
        BY <1>1, <1>2, ConcatInt, ZenonT(60)
      <3> HIDE DEF v, d
      <3>4. v \o <<d>> = Append(v, d)
        BY <1>1, <3>1, AppendIsConcat DEF d
      <3>5. QED
        BY <3>1, <3>2, <3>3, <3>4
    <2>3. ReadOf(v) = Reader(numbers, digits, FALSE, 0)
      BY <2>1
    <2> HIDE DEF v, u
    <2>4. ReadOf(Append(v, d)) = ReadCharacter(ReadOf(v), d)
      BY <1>1, <2>2, CharacterRead
    <2>5. ReadOf(Append(v, d)) = Reader(numbers, digits, TRUE, 0)
      BY <2>3, <2>4, DotStep
    <2> DEFINE w == Append(v, d)  f == TRUE  z == 0
    <2>6. w \in Seq(Int) /\ ReadOf(w) = Reader(numbers, digits, f, z) /\ f \in BOOLEAN /\ z \in Nat
      BY <1>1, <2>2, <2>5, AppendProperties
    <2>7. s \o (u \o t) = w \o t
      BY <2>2
    <2> HIDE DEF w, f, z
    <2>8. ReadOf(w \o t) = Reader(numbers, digits \o t, f, IF f THEN z + Len(t) ELSE z)
      BY <1>1, <2>6, DigitsRead
    <2>9. (IF f THEN z + Len(t) ELSE z) = Len(t)
      BY <1>1 DEF f, z
    <2>10. QED
      BY <2>7, <2>8, <2>9 DEF f
  <1>6. QED
    <2> HIDE DEF u
    <2>1. Shows(u \o t, k, n)
      BY <1>1, <1>2, <1>3, <1>4, <1>5 DEF Shows
    <2>2. QED
      BY <2>1 DEF u

\* Commas are read over.
LEMMA GroupedIs ==
  ASSUME NEW w \in Seq(Nat), Len(w) >= 1
  PROVE  /\ Grouped(w) \in Seq(Int) /\ Len(Grouped(w)) = Len(w) + (Len(w) - 1) \div 3
         /\ Len(w) \in Nat
         /\ \A i \in 1..Len(Grouped(w)) :
              LET m == Len(Grouped(w)) + 1 - i IN
              Grouped(w)[i] = IF m % 4 = 0 THEN Comma ELSE w[Len(w) + 1 - (m - m \div 4)]
  <1> DEFINE n == Len(w)
             L == n + (n - 1) \div 3
             char(i) == IF (L + 1 - i) % 4 = 0 THEN Comma
                        ELSE w[n + 1 - ((L + 1 - i) - (L + 1 - i) \div 4)]
  <1>1. n \in Nat /\ \A i \in 1..n : w[i] \in Nat
    BY LenProperties, ElementOfSeq
  <1>2. L \in Nat
    BY <1>1
  <1>3. Grouped(w) = [i \in 1..L |-> char(i)]
    BY DEF Grouped
  <1>4. ASSUME NEW i \in 1..L PROVE char(i) \in Int
    <2>1. CASE (L + 1 - i) % 4 = 0
      BY <2>1 DEF Comma
    <2>2. CASE (L + 1 - i) % 4 # 0
      <3> DEFINE m == L + 1 - i
                 d == n + 1 - (m - m \div 4)
      <3>1. m \in 1..L
        BY <1>2
      <3>2. d \in 1..n
        BY <1>1, <1>2, <2>2, <3>1
      <3> HIDE DEF d
      <3>3. w[d] \in Nat
        BY <1>1, <3>2
      <3>4. QED
        BY <2>2, <3>3 DEF d
    <2>3. QED
      BY <2>1, <2>2
  <1> HIDE DEF char
  <1>5. /\ [i \in 1..L |-> char(i)] \in Seq(Int) /\ Len([i \in 1..L |-> char(i)]) = L
        /\ \A i \in 1..L : [j \in 1..L |-> char(j)][i] = char(i)
    BY <1>2, <1>4
  <1> HIDE DEF L
  <1>6. QED
    BY <1>1, <1>3, <1>5, ZenonT(60) DEF char, L

LEMMA GroupedRead ==
  ASSUME NEW w \in Seq(Nat), Len(w) >= 1
  PROVE  ReadsDigits(Grouped(w), w)
  <1> DEFINE t == Grouped(w)
             n == Len(w)
             L == Len(t)
             upTo(j) == n - ((L - j) - (L - j) \div 4)
  <1>1. /\ t \in Seq(Int) /\ L = n + (n - 1) \div 3 /\ n \in Nat /\ n >= 1
        /\ \A i \in 1..L : t[i] = IF (L + 1 - i) % 4 = 0 THEN Comma
                                  ELSE w[n + 1 - ((L + 1 - i) - (L + 1 - i) \div 4)]
    BY GroupedIs
  <1> HIDE DEF t
  <1>2. L \in Nat /\ \A i \in 1..n : w[i] \in Nat
    BY <1>1, ElementOfSeq
  <1> HIDE DEF L, n
  <1>3. ASSUME NEW s \in Seq(Int), NEW numbers \in Seq(NumbersRead), ReadOf(s) = Between(numbers)
        PROVE  ReadOf(s \o t) = Reader(numbers, w, FALSE, 0)
    <2> DEFINE behind(j) == Reader(numbers, SubSeq(w, 1, upTo(j)), FALSE, 0)
               V == {<<j, behind(j)>> : j \in 0..L}
    <2>1. upTo(0) = 0 /\ upTo(L) = n
      BY <1>1, <1>2
    <2>2. <<0, TextProofs!After(s)>> \in V
      <3>1. SubSeq(w, 1, 0) = <<>>
        BY SubSeqEmpty
      <3>2. behind(0) = ReadOf(s)
        BY <1>3, <2>1, <3>1 DEF Between, Reader
      <3> HIDE DEF behind
      <3>3. QED
        BY <1>2, <3>2, ReadOfIs
    <2>3. ASSUME NEW j \in 0..(L - 1), NEW r, <<j, r>> \in V
          PROVE  <<j + 1, ReadCharacter(r, t[j + 1])>> \in V
      <3>1. r = behind(j)
        BY <2>3
      <3>2. j + 1 \in 1..L /\ j + 1 \in 0..L /\ L + 1 - (j + 1) = L - j /\ L - j \in 1..L
        BY <1>2
      <3>3. t[j + 1] = IF (L - j) % 4 = 0 THEN Comma ELSE w[n + 1 - ((L - j) - (L - j) \div 4)]
        BY <1>1, <3>2
      <3>4. CASE (L - j) % 4 = 0
        <4>1. upTo(j + 1) = upTo(j)
          BY <1>1, <1>2, <3>2, <3>4
        <4>2. ReadCharacter(r, t[j + 1]) = r
          BY <3>3, <3>4, CommaStep
        <4>3. behind(j + 1) = behind(j)
          BY <4>1, Zenon
        <4> HIDE DEF behind
        <4>4. QED
          BY <3>1, <3>2, <4>2, <4>3
      <3>5. CASE (L - j) % 4 # 0
        <4> DEFINE d == upTo(j)
        <4>1. d \in 0..(n - 1) /\ upTo(j + 1) = d + 1 /\ n + 1 - ((L - j) - (L - j) \div 4) = d + 1
          BY <1>1, <1>2, <3>2, <3>5
        <4>2. behind(j) = Reader(numbers, SubSeq(w, 1, d), FALSE, 0)
          OBVIOUS
        <4>3. behind(j + 1) = Reader(numbers, SubSeq(w, 1, d + 1), FALSE, 0)
          BY <4>1
        <4> HIDE DEF d, behind
        <4>4. t[j + 1] = w[d + 1] /\ w[d + 1] \in Nat
          BY <1>1, <1>2, <3>3, <3>5, <4>1
        <4>5. SubSeq(w, 1, d + 1) = Append(SubSeq(w, 1, d), w[d + 1])
          <5> DEFINE m == n
          <5>a. m \in Nat /\ m >= 1 /\ d \in 0..(m - 1)
            BY <1>1, <4>1
          <5>b. m = Len(w)
            BY DEF n
          <5> HIDE DEF m
          <5>c. d + 1 \in 1..m /\ 1 \in 1..m /\ d + 1 >= 1 /\ (d + 1) - 1 = d
            BY <5>a
          <5>1. d + 1 \in 1..Len(w) /\ 1 \in 1..Len(w) /\ d + 1 >= 1 /\ (d + 1) - 1 = d
            BY <5>b, <5>c, Zenon
          <5>2. SubSeq(w, 1, d + 1) = SubSeq(w, 1, d) \o <<w[d + 1]>>
            BY <5>1, SubSeqRecursiveSecond
          <5>3. \A i \in 1..d : w[i] \in Nat
            BY <1>1, <1>2, <4>1
          <5>4. SubSeq(w, 1, d) \in Seq(Nat)
            BY <4>1, <5>3, SubSeqProperties
          <5>5. QED
            BY <4>4, <5>2, <5>4, AppendIsConcat
        <4> DEFINE f == FALSE
        <4>6. ReadCharacter(Reader(numbers, SubSeq(w, 1, d), f, 0), w[d + 1])
                = Reader(numbers, Append(SubSeq(w, 1, d), w[d + 1]), f, IF f THEN 0 + 1 ELSE 0)
          <5> DEFINE c == w[d + 1]  u == SubSeq(w, 1, d)  z == 0
          <5>1. c \in Nat
            BY <4>4
          <5> HIDE DEF f, c, u, z
          <5>2. ReadCharacter(Reader(numbers, u, f, z), c)
                  = Reader(numbers, Append(u, c), f, IF f THEN z + 1 ELSE z)
            BY <5>1, DigitStep
          <5>3. QED
            BY <5>2 DEF c, u, z
        <4>7. ReadCharacter(r, t[j + 1]) = behind(j + 1)
          BY <3>1, <4>2, <4>3, <4>4, <4>5, <4>6
        <4>8. QED
          BY <3>2, <4>7
      <3>6. QED
        BY <3>4, <3>5
    <2> HIDE DEF V
    <2>4. <<Len(t), TextProofs!After(s \o t)>> \in V
      BY <1>1, <2>2, <2>3, TextProofs!AfterConcat DEF L
    <2>5. ReadOf(s \o t) = behind(L)
      BY <2>4, ReadOfIs DEF V, L
    <2>6. SubSeq(w, 1, n) = w
      BY SubSeqFull DEF n
    <2>7. QED
      BY <2>1, <2>5, <2>6
  <1>4. QED
    BY <1>1, <1>3 DEF ReadsDigits, t

\* The decimals of a number, with the zeroes ahead of them: t shows p, and of it no
\* more than is needed.
Decimals(t, p, k) ==
  \E w \in Seq(Nat), z \in Nat :
    /\ t = Repeat(0, k - Len(p)) \o w /\ t \in Seq(Nat) /\ Len(t) + z = k
    /\ t \o Repeat(0, z) = Repeat(0, k - Len(p)) \o p

LEMMA DecimalsOf ==
  ASSUME NEW p \in Seq(Nat), Nonzero(p) # {}, NEW k \in Nat, Len(p) <= k, NEW dst,
         NEW t, t = decimalDigitsDisplay(p, dst, k), t # Thrown
  PROVE  Decimals(t, p, k)
  <1>0. t = Repeat(0, k - Len(p)) \o WithoutTail(p)
    <2> DEFINE digits == numberToText(WithoutTail(p), Room(dst - (k - Len(p))))
    <2>1. t = Behind(Repeat(0, k - Len(p)), digits)
      BY DEF decimalDigitsDisplay
    <2>2. digits # Thrown /\ t = Repeat(0, k - Len(p)) \o digits
      BY <2>1 DEF Behind
    <2>3. digits = WithoutTail(p)
      BY <2>2 DEF numberToText
    <2>4. QED
      BY <2>2, <2>3
  <1>1. PICK z \in Nat : \E w \in Seq(Nat) :
          WithoutTail(p) = w /\ p = w \o Repeat(0, z) /\ Len(w) >= 1 /\ Len(p) = Len(w) + z
    BY WithoutTailIs
  <1>2. PICK w \in Seq(Nat) :
           /\ t = Repeat(0, k - Len(p)) \o w
           /\ p = w \o Repeat(0, z) /\ Len(w) >= 1 /\ Len(p) = Len(w) + z
    <2>1. PICK w \in Seq(Nat) :
            WithoutTail(p) = w /\ p = w \o Repeat(0, z) /\ Len(w) >= 1 /\ Len(p) = Len(w) + z
      BY <1>1
    <2>2. t = Repeat(0, k - Len(p)) \o w
      BY <1>0, <2>1
    <2>3. QED
      BY <2>1, <2>2
  <1>3. Len(p) \in Nat /\ Len(w) \in Nat
    BY LenProperties
  <1> DEFINE f == k - Len(p)
             fill == Repeat(0, f)
             tail == Repeat(0, z)
  <1>4. f \in Nat
    BY <1>3
  <1>5. fill \in Seq(Nat) /\ Len(fill) = f /\ tail \in Seq(Nat)
    <2> HIDE DEF f
    <2>1. QED
      BY <1>4, ZeroesType
  <1>6. t \in Seq(Nat) /\ Len(t) = f + Len(w)
    <2>1. t = fill \o w
      BY <1>2
    <2> HIDE DEF fill
    <2>2. QED
      BY <1>5, <2>1, JoinedNat, ZenonT(60)
  <1>7. Len(t) + z = k
    <2>1. Len(t) = (k - Len(p)) + Len(w)
      BY <1>6
    <2>2. Len(p) = Len(w) + z
      BY <1>2
    <2>3. \A a, b, c, d \in Nat : a = (k - b) + c /\ b = c + d => a + d = k
      OBVIOUS
    <2>4. Len(t) \in Nat
      BY <1>6, LenProperties
    <2>5. QED
      BY <1>3, <2>1, <2>2, <2>3, <2>4
  <1>8. t \o tail = fill \o p
    <2>1. t = fill \o w /\ p = w \o tail
      BY <1>2
    <2> HIDE DEF fill, tail, f
    <2>2. fill \o (w \o tail) = (fill \o w) \o tail
      BY <1>5, ConcatNat, ZenonT(60)
    <2>3. QED
      BY <2>1, <2>2
  <1>9. QED
    BY <1>2, <1>6, <1>7, <1>8 DEF Decimals

\* So many digits ahead of the dot take so many characters.
Characters(n) == n + (n - 1) \div 3

LEMMA LessThanOne ==
  ASSUME NEW n \in Seq(Nat), n # <<>>, n[1] # 0, NEW k \in Nat, Len(n) <= k, NEW dst,
         NEW text, text = Behind(<<0, Dot>>, decimalDigitsDisplay(n, dst, k)), text # Thrown
  PROVE  Shows(text, k, n) /\ Len(text) <= k + 2
  <1>1. Len(n) \in Nat /\ Len(n) >= 1 /\ 1 \in 1..Len(n)
    <2>1. Len(n) \in Nat /\ Len(n) # 0
      BY LenProperties, EmptySeq
    <2>2. QED
      BY <2>1
  <1>2. Nonzero(n) # {}
    BY <1>1 DEF Nonzero
  <1> DEFINE t == decimalDigitsDisplay(n, dst, k)
  <1>3. t # Thrown /\ text = <<0, Dot>> \o t
    BY DEF Behind
  <1>4. Decimals(t, n, k)
    <2>1. t = decimalDigitsDisplay(n, dst, k)
      OBVIOUS
    <2> HIDE DEF t
    <2>2. QED
      BY <1>2, <1>3, <2>1, DecimalsOf
  <1> HIDE DEF t
  <1>5. PICK z \in Nat :
          /\ t \in Seq(Nat) /\ Len(t) + z = k
          /\ t \o Repeat(0, z) = Repeat(0, k - Len(n)) \o n
    BY <1>4 DEF Decimals
  <1>6. Len(t) \in Nat /\ Len(t) <= k /\ k - Len(t) = z
    <2>1. Len(t) \in Nat
      BY <1>5, LenProperties
    <2>2. QED
      BY <1>5, <2>1
  <1> DEFINE a == <<0>>  d == <<Dot>>
  <1>7. a \in Seq(Nat) /\ a # <<>> /\ a = Repeat(0, 1) /\ a \in Seq(Int) /\ d \in Seq(Int) /\ t \in Seq(Int)
    <2>1. a = Repeat(0, 1)
      BY DEF Repeat
    <2>2. t \in Seq(Int)
      BY <1>5, SeqMonotonic
    <2>3. QED
      BY <2>1, <2>2 DEF Dot
  <1>8. text = (a \o d) \o t
    <2>1. a \o d = <<0, Dot>>
      BY ZeroAndDot
    <2>2. QED
      BY <1>3, <2>1
  <1>9. WithoutHead((a \o t) \o Repeat(0, z)) = n
    <2> DEFINE tail == Repeat(0, z)
               f == k - Len(n)
               fill == Repeat(0, f)
    <2>1. f \in Nat /\ 1 + f \in Nat
      BY <1>1
    <2> HIDE DEF f
    <2>2. fill \in Seq(Nat) /\ tail \in Seq(Nat) /\ a \o fill = Repeat(0, 1 + f)
      <3>1. fill \in Seq(Nat) /\ tail \in Seq(Nat)
        BY <2>1, ZeroesType
      <3>2. a \o fill = Repeat(0, 1 + f)
        BY <2>1, OneMoreZero
      <3>3. QED
        BY <3>1, <3>2
    <2>3. t \o tail = fill \o n
      BY <1>5 DEF f
    <2> HIDE DEF fill, tail, a
    <2>4. (a \o t) \o tail = a \o (t \o tail) /\ a \o (fill \o n) = (a \o fill) \o n
      BY <1>5, <1>7, <2>2, ConcatNat, ZenonT(60)
    <2>5. (a \o t) \o tail = Repeat(0, 1 + f) \o n
      BY <2>2, <2>3, <2>4
    <2> DEFINE g == 1 + f
    <2>6. g \in Nat
      BY <2>1
    <2> HIDE DEF g
    <2>7. WithoutHead(Repeat(0, g) \o n) = n
      BY <1>1, <2>6, HeadZeroes
    <2>8. QED
      BY <2>5, <2>7 DEF g, tail
  <1>10. Len(text) = 2 + Len(t)
    <2>1. Len(a) = 1 /\ Len(d) = 1
      OBVIOUS
    <2> HIDE DEF a, d
    <2>2. a \o d \in Seq(Int) /\ Len(a \o d) = 2
      <3>1. a \o d \in Seq(Int) /\ Len(a \o d) = Len(a) + Len(d)
        BY <1>7, JoinedInt
      <3>2. QED
        BY <2>1, <3>1
    <2> DEFINE u == a \o d
    <2>5. u \in Seq(Int) /\ Len(u) = 2
      BY <2>2
    <2> HIDE DEF u
    <2>3. Len(u \o t) = 2 + Len(t)
      BY <1>7, <2>5, JoinedInt, ZenonT(60)
    <2>4. QED
      BY <1>8, <2>3 DEF u
  <1>11. ReadsDigits(a, a)
    <2> HIDE DEF a
    <2>1. QED
      BY <1>7, PlainDigits
  <1>12. Shows((a \o d) \o t, k, n)
    <2>1. n = WithoutHead((a \o t) \o Repeat(0, k - Len(t)))
      BY <1>6, <1>9
    <2>2. t \in Seq(Nat) /\ Len(t) <= k /\ a # <<>> /\ ReadsDigits(a, a)
      BY <1>5, <1>6, <1>7, <1>11
    <2> HIDE DEF a, d
    <2>3. Shows((a \o <<Dot>>) \o t, k, n)
      BY <2>1, <2>2, DottedShows
    <2>4. QED
      BY <2>3 DEF d
  <1>13. Shows(text, k, n)
    BY <1>8, <1>12
  <1>14. Len(text) <= k + 2
    BY <1>6, <1>10
  <1>15. QED
    BY <1>13, <1>14

LEMMA Unheaded == ASSUME NEW n \in Seq(Nat), Len(n) >= 1, n[1] # 0 PROVE WithoutHead(n) = n
  <1> DEFINE z == 0
  <1>1. WithoutHead(Repeat(0, z) \o n) = n
    <2>1. z \in Nat
      OBVIOUS
    <2> HIDE DEF z
    <2>2. QED
      BY <2>1, HeadZeroes
  <1>2. Repeat(0, z) = <<>>
    BY DEF Repeat
  <1>3. QED
    BY <1>1, <1>2, ConcatEmptySeq

\* A number in two, the second part of k digits.
LEMMA InTwo ==
  ASSUME NEW n \in Seq(Nat), NEW k \in Nat, k < Len(n)
  PROVE  /\ Len(n) \in Nat
         /\ SubSeq(n, 1, Len(n) - k) \in Seq(Nat) /\ Len(SubSeq(n, 1, Len(n) - k)) = Len(n) - k
         /\ SubSeq(n, Len(n) - k + 1, Len(n)) \in Seq(Nat) /\ Len(SubSeq(n, Len(n) - k + 1, Len(n))) = k
         /\ SubSeq(n, 1, Len(n) - k) \o SubSeq(n, Len(n) - k + 1, Len(n)) = n
  <1>1. Len(n) \in Nat /\ \A i \in 1..Len(n) : n[i] \in Nat
    BY LenProperties, ElementOfSeq
  <1> DEFINE m == Len(n) - k
             a == SubSeq(n, 1, m)
             b == SubSeq(n, m + 1, Len(n))
  <1>2. m \in Nat /\ m <= Len(n)
    BY <1>1
  <1>3. a \in Seq(Nat) /\ Len(a) = m /\ \A i \in 1..m : a[i] = n[i]
    <2>1. 1 \in Int /\ m \in Int /\ \A i \in 1..m : n[i] \in Nat
      BY <1>1, <1>2
    <2> HIDE DEF m
    <2>2. QED
      BY <1>1, <1>2, <2>1, SubSeqProperties
  <1>4. b \in Seq(Nat) /\ Len(b) = k /\ \A i \in 1..k : b[i] = n[m + i]
    <2>1. m + 1 \in Int /\ Len(n) \in Int /\ \A i \in (m + 1)..Len(n) : n[i] \in Nat
      BY <1>1, <1>2
    <2>2. Len(n) - (m + 1) + 1 = k
      BY <1>1
    <2> HIDE DEF m
    <2>3. /\ b \in Seq(Nat) /\ Len(b) = IF m + 1 <= Len(n) THEN Len(n) - (m + 1) + 1 ELSE 0
          /\ \A i \in 1..(Len(n) - (m + 1) + 1) : b[i] = n[(m + 1) + i - 1]
      BY <1>1, <2>1, SubSeqProperties
    <2>4. \A i \in 1..k : (m + 1) + i - 1 = m + i
      BY <1>2
    <2> HIDE DEF b
    <2>5. Len(b) = k
      BY <1>1, <1>2, <2>2, <2>3
    <2>6. \A i \in 1..k : b[i] = n[(m + 1) + i - 1]
      BY <2>2, <2>3
    <2>7. QED
      BY <2>3, <2>4, <2>5, <2>6
  <1> HIDE DEF a, b
  <1>5. a \o b = n
    <2> DEFINE c == a \o b
    <2>1. /\ c \in Seq(Nat) /\ Len(c) = Len(a) + Len(b)
          /\ \A i \in 1..(Len(a) + Len(b)) : c[i] = IF i <= Len(a) THEN a[i] ELSE b[i - Len(a)]
      BY <1>3, <1>4, JoinedNat
    <2> HIDE DEF c
    <2>2. m + k = Len(n)
      BY <1>1
    <2> HIDE DEF m
    <2>3. ASSUME NEW i \in 1..Len(n) PROVE c[i] = n[i]
      <3>1. CASE i <= m
        BY <1>2, <1>3, <1>4, <2>1, <2>2, <2>3, <3>1
      <3>2. CASE ~(i <= m)
        <4>1. i - m \in 1..k /\ m + (i - m) = i
          BY <1>1, <1>2, <2>2, <2>3, <3>2
        <4>2. c[i] = b[i - m]
          BY <1>2, <1>3, <1>4, <2>1, <2>2, <2>3, <3>2
        <4>3. QED
          BY <1>4, <4>1, <4>2
      <3>3. QED
        BY <3>1, <3>2
    <2>4. Len(c) = Len(n)
      BY <1>3, <1>4, <2>1, <2>2
    <2>5. c = n
      BY <2>1, <2>3, <2>4, SameNat
    <2>6. QED
      BY <2>5 DEF c
  <1>6. QED
    BY <1>1, <1>3, <1>4, <1>5 DEF a, b

LEMMA AllZeroes ==
  ASSUME NEW s \in Seq(Nat), NEW k \in Nat, Len(s) = k, Nonzero(s) = {}
  PROVE  s = Repeat(0, k)
  <1>1. Repeat(0, k) \in Seq(Nat) /\ Len(Repeat(0, k)) = k /\ \A i \in 1..k : Repeat(0, k)[i] = 0
    BY ZeroesType
  <1>2. \A i \in 1..k : s[i] = 0
    BY DEF Nonzero
  <1>3. QED
    BY <1>1, <1>2, SeqEqual

LEMMA AboveOne ==
  ASSUME NEW n \in Seq(Nat), Len(n) >= 1, n[1] # 0, NEW k \in Nat, k < Len(n), NEW room,
         NEW text, text = decimalNumberToDisplay(n, room, k), text # Thrown
  PROVE  /\ Shows(text, k, n)
         /\ IF WithoutHead(SubSeq(n, Len(n) - k + 1, Len(n))) = Zero
              THEN Len(text) <= Characters(Len(n) - k)
              ELSE Len(text) <= Characters(Len(n) - k) + 1 + k
  <1> DEFINE whole == Grouped(SubSeq(n, 1, Len(n) - k))
             p == WithoutHead(SubSeq(n, Len(n) - k + 1, Len(n)))
             dst == room - Len(whole) - 1
  <1>0. text = IF p = Zero THEN whole ELSE Behind(whole \o <<Dot>>, decimalDigitsDisplay(p, dst, k))
    <2>1. Len(n) \in Nat
      BY LenProperties
    <2>2. n # Zero /\ ~(Len(n) <= k)
      BY <2>1 DEF Zero
    <2>3. QED
      BY <2>2, Zenon DEF decimalNumberToDisplay
  <1> DEFINE a == SubSeq(n, 1, Len(n) - k)
             b == SubSeq(n, Len(n) - k + 1, Len(n))
  <1>1. /\ Len(n) \in Nat
        /\ a \in Seq(Nat) /\ Len(a) = Len(n) - k /\ b \in Seq(Nat) /\ Len(b) = k /\ a \o b = n
    BY InTwo
  <1>2. whole = Grouped(a) /\ p = WithoutHead(b)
    OBVIOUS
  <1> HIDE DEF a, b, whole, p, dst
  <1>3. Len(a) >= 1 /\ a # <<>>
    <2>1. Len(a) >= 1
      BY <1>1
    <2>2. QED
      BY <2>1
  <1>4. ReadsDigits(whole, a) /\ whole \in Seq(Int) /\ Len(whole) = Characters(Len(n) - k)
    <2>1. Len(Grouped(a)) = Len(a) + (Len(a) - 1) \div 3 /\ Grouped(a) \in Seq(Int)
      BY <1>1, <1>3, GroupedIs
    <2>2. QED
      BY <1>1, <1>2, <1>3, <2>1, GroupedRead DEF Characters
  <1>5. CASE p = Zero
    <2>1. text = whole
      BY <1>0, <1>5
    <2>2. Nonzero(b) = {}
      <3> SUFFICES ASSUME Nonzero(b) # {} PROVE FALSE
        OBVIOUS
      <3>1. PICK z \in Nat : \E w \in Seq(Nat) :
              /\ WithoutHead(b) = w /\ b = Repeat(0, z) \o w /\ Len(w) >= 1 /\ w[1] # 0
              /\ Len(b) = z + Len(w)
        BY <1>1, WithoutHeadIs
      <3>2. p[1] # 0
        BY <1>2, <3>1
      <3>3. QED
        BY <1>5, <3>2 DEF Zero
    <2>3. b = Repeat(0, k)
      BY <1>1, <2>2, AllZeroes
    <2>4. n = WithoutHead(a \o Repeat(0, k))
      BY <1>1, <2>3, Unheaded
    <2>5. Shows(whole, k, n)
      BY <1>3, <1>4, <2>4, WholeShows
    <2>6. Len(text) <= Characters(Len(n) - k)
      <3>1. Len(whole) \in Nat
        BY <1>4, LenProperties
      <3>2. QED
        BY <1>4, <2>1, <3>1
    <2>7. QED
      BY <1>5, <2>1, <2>5, <2>6 DEF p
  <1>6. CASE p # Zero
    <2> DEFINE t == decimalDigitsDisplay(p, dst, k)
    <2>1. t # Thrown /\ text = (whole \o <<Dot>>) \o t
      BY <1>0, <1>6 DEF Behind
    <2>2. Nonzero(b) # {}
      BY <1>2, <1>6 DEF WithoutHead
    <2>3. PICK z \in Nat : \E w \in Seq(Nat) :
            /\ WithoutHead(b) = w /\ b = Repeat(0, z) \o w /\ Len(w) >= 1 /\ w[1] # 0
            /\ Len(b) = z + Len(w)
      BY <1>1, <2>2, WithoutHeadIs
    <2>4. /\ p \in Seq(Nat) /\ b = Repeat(0, z) \o p /\ Len(p) >= 1 /\ p[1] # 0 /\ k = z + Len(p)
          /\ Len(p) \in Nat
      BY <1>1, <1>2, <2>3, LenProperties
    <2>5. Nonzero(p) # {} /\ Len(p) <= k /\ k - Len(p) = z
      <3>1. 1 \in 1..Len(p)
        BY <2>4
      <3>2. Nonzero(p) # {}
        BY <2>4, <3>1 DEF Nonzero
      <3>3. QED
        BY <2>4, <3>2
    <2>6. Decimals(t, p, k)
      <3>1. t = decimalDigitsDisplay(p, dst, k)
        OBVIOUS
      <3> HIDE DEF t
      <3>2. QED
        BY <2>1, <2>4, <2>5, <3>1, DecimalsOf
    <2> HIDE DEF t
    <2>7. PICK y \in Nat :
            /\ t \in Seq(Nat) /\ Len(t) + y = k
            /\ t \o Repeat(0, y) = Repeat(0, k - Len(p)) \o p
      BY <2>6 DEF Decimals
    <2>8. Len(t) \in Nat /\ Len(t) <= k /\ k - Len(t) = y
      <3>1. Len(t) \in Nat
        BY <2>7, LenProperties
      <3>2. QED
        BY <2>7, <3>1
    <2>9. n = WithoutHead((a \o t) \o Repeat(0, k - Len(t)))
      <3> DEFINE tail == Repeat(0, y)
      <3>1. tail \in Seq(Nat)
        BY ZeroesType
      <3>2. t \o tail = b
        BY <2>4, <2>5, <2>7
      <3> HIDE DEF tail
      <3>3. (a \o t) \o tail = a \o (t \o tail)
        BY <1>1, <2>7, <3>1, ConcatNat, ZenonT(60)
      <3>4. (a \o t) \o tail = n
        BY <1>1, <3>2, <3>3
      <3>5. WithoutHead(n) = n
        BY Unheaded
      <3>6. QED
        BY <2>8, <3>4, <3>5 DEF tail
    <2>10. Shows((whole \o <<Dot>>) \o t, k, n)
      BY <1>3, <1>4, <2>7, <2>8, <2>9, DottedShows
    <2>11. Len(text) = Len(whole) + 1 + Len(t)
      <3> DEFINE d == <<Dot>>
                 u == whole \o d
      <3>1. d \in Seq(Int) /\ Len(d) = 1 /\ t \in Seq(Int)
        <4>1. t \in Seq(Int)
          BY <2>7, SeqMonotonic
        <4>2. QED
          BY <4>1 DEF Dot
      <3> HIDE DEF d
      <3>2. u \in Seq(Int) /\ Len(u) = Len(whole) + Len(d)
        BY <1>4, <3>1, JoinedInt
      <3> HIDE DEF u
      <3>3. Len(u \o t) = Len(u) + Len(t)
        BY <3>1, <3>2, JoinedInt
      <3>4. QED
        BY <2>1, <3>1, <3>2, <3>3 DEF u, d
    <2>12. Len(text) <= Len(whole) + 1 + k
      <3>1. Len(whole) \in Nat
        BY <1>4, LenProperties
      <3>2. QED
        BY <2>8, <2>11, <3>1
    <2>13. Len(text) <= Characters(Len(n) - k) + 1 + k
      BY <1>4, <2>12
    <2>14. QED
      BY <1>6, <2>1, <2>10, <2>13 DEF p
  <1>7. QED
    BY <1>5, <1>6

\* What decimalNumberToDisplay writes is the number, and how long it is.
LEMMA DecimalShows ==
  ASSUME NEW n, NEW size, IsNumber(n, size), NEW k \in Nat, NEW dst,
         NEW text, text = decimalNumberToDisplay(n, dst, k), text # Thrown
  PROVE  /\ Shows(text, k, n) /\ Len(n) \in Nat
         /\ Len(n) <= k => Len(text) <= k + 2
         /\ Len(n) > k  =>
              IF WithoutHead(SubSeq(n, Len(n) - k + 1, Len(n))) = Zero
                THEN Len(text) <= Characters(Len(n) - k)
                ELSE Len(text) <= Characters(Len(n) - k) + 1 + k
  <1>1. n \in Seq(Nat) /\ n # <<>> /\ Len(n) >= 1 /\ (n = Zero \/ n[1] # 0) /\ Len(n) \in Nat
    BY NumberIs, LenProperties
  <1>2. CASE n = Zero
    <2>1. text = Zero /\ Len(Zero) = 1 /\ Zero \in Seq(Nat) /\ Zero # <<>> /\ Len(n) = 1
      BY <1>2 DEF decimalNumberToDisplay, Zero
    <2>2. WithoutHead(Zero \o Repeat(0, k)) = Zero
      <3>1. Zero \o Repeat(0, k) = Repeat(0, 1 + k)
        BY OneMoreZero DEF Zero
      <3> DEFINE m == 1 + k
      <3>2. m \in Nat
        OBVIOUS
      <3> HIDE DEF m
      <3>3. WithoutHead(Repeat(0, m)) = Zero
        BY <3>2, OnlyZeroes
      <3>4. QED
        BY <3>1, <3>3 DEF m
    <2>3. ReadsDigits(text, n)
      BY <1>1, <1>2, <2>1, PlainDigits
    <2>4. Shows(text, k, n)
      BY <1>1, <1>2, <2>2, <2>3, WholeShows
    <2>5. Len(n) > k => k = 0
      BY <2>1
    <2>6. Characters(1) = 1
      BY DEF Characters
    <2>7. Len(n) > k => Characters(Len(n) - k) = 1
      BY <2>1, <2>5, <2>6
    <2>8. Len(text) = 1
      BY <2>1
    <2>9. 1 <= k + 2 /\ 1 <= 1 + 1 + k
      OBVIOUS
    <2>10. QED
      BY <1>1, <2>4, <2>7, <2>8, <2>9
  <1>3. CASE n # Zero /\ Len(n) <= k
    <2>1. text = Behind(<<0, Dot>>, decimalDigitsDisplay(n, dst - 3, k))
      BY <1>3 DEF decimalNumberToDisplay
    <2> DEFINE room == dst - 3
    <2>2. text = Behind(<<0, Dot>>, decimalDigitsDisplay(n, room, k))
      BY <2>1
    <2> HIDE DEF room
    <2>3. Shows(text, k, n) /\ Len(text) <= k + 2
      BY <1>1, <1>3, <2>2, LessThanOne
    <2>4. QED
      BY <1>1, <1>3, <2>3
  <1>4. CASE n # Zero /\ ~(Len(n) <= k)
    <2>1. n \in Seq(Nat) /\ Len(n) >= 1 /\ n[1] # 0 /\ k < Len(n)
      BY <1>1, <1>4
    <2>2. /\ Shows(text, k, n)
          /\ IF WithoutHead(SubSeq(n, Len(n) - k + 1, Len(n))) = Zero
               THEN Len(text) <= Characters(Len(n) - k)
               ELSE Len(text) <= Characters(Len(n) - k) + 1 + k
      BY <2>1, AboveOne
    <2>3. QED
      BY <1>1, <2>1, <2>2
  <1>5. QED
    BY <1>2, <1>3, <1>4
-----------------------------------------------------------------------------
(***************************************************************************)
(* Each kind of field: its text reads as the value, and how long it is.    *)
(***************************************************************************)
Marks(n) == Repeat(Mark, n)

LEMMA MarksAre ==
  ASSUME NEW n \in Nat
  PROVE  Marks(n) \in Seq(Int) /\ Len(Marks(n)) = n /\ Marks(0) = <<>>
  <1> DEFINE m == Mark
  <1>1. m \in Int
    BY DEF Mark
  <1> HIDE DEF m
  <1>2. Repeat(m, n) \in Seq(Int) /\ Len(Repeat(m, n)) = n /\ Repeat(m, 0) = <<>>
    BY <1>1, MarksType
  <1>3. QED
    BY <1>2 DEF Marks, m

LEMMA NoMarks ==
  ASSUME NEW text \in Seq(Int)
  PROVE  Marks(0) \o text = text /\ text \o Marks(0) = text
  <1>1. Marks(0) = <<>>
    BY MarksAre
  <1>2. QED
    BY <1>1, ConcatEmptySeq

\* A number with marks ahead of it and behind.
LEMMA Framed ==
  ASSUME NEW text, NEW k, NEW n, Shows(text, k, n), NEW m \in Nat
  PROVE  /\ NumbersIn(text, k) = <<n>>
         /\ NumbersIn(Marks(m) \o text, k) = <<n>>
         /\ NumbersIn(text \o Marks(m), k) = <<n>>
         /\ Marks(m) \o text \in Seq(Int) /\ Len(Marks(m) \o text) = m + Len(text)
         /\ text \o Marks(m) \in Seq(Int) /\ Len(text \o Marks(m)) = Len(text) + m
         /\ text \in Seq(Int) /\ Len(text) \in Nat
  <1> DEFINE z == 0
  <1>1. z \in Nat /\ text \in Seq(Int)
    BY DEF Shows
  <1>2. Marks(m) \in Seq(Int) /\ Len(Marks(m)) = m
    BY MarksAre
  <1>3. Marks(z) \o text = text /\ text \o Marks(z) = text
    BY <1>1, NoMarks
  <1> HIDE DEF z
  <1>4. NumbersIn((Marks(z) \o text) \o Marks(z), k) = <<n>>
    BY <1>1, OneNumber DEF Marks
  <1>5. NumbersIn((Marks(m) \o text) \o Marks(z), k) = <<n>>
    BY <1>1, OneNumber DEF Marks
  <1>6. NumbersIn((Marks(z) \o text) \o Marks(m), k) = <<n>>
    BY <1>1, OneNumber DEF Marks
  <1>7. /\ Marks(m) \o text \in Seq(Int) /\ Len(Marks(m) \o text) = m + Len(text)
        /\ text \o Marks(m) \in Seq(Int) /\ Len(text \o Marks(m)) = Len(text) + m
    BY <1>1, <1>2, JoinedInt
  <1>8. (Marks(m) \o text) \o Marks(z) = Marks(m) \o text
    <2> DEFINE u == Marks(m) \o text
    <2>1. u \in Seq(Int)
      BY <1>7
    <2> HIDE DEF u
    <2>2. u \o Marks(z) = u
      BY <2>1, NoMarks DEF z
    <2>3. QED
      BY <2>2 DEF u
  <1>9. Len(text) \in Nat
    BY <1>1, LenProperties
  <1>10. NumbersIn(text, k) = <<n>>
    BY <1>3, <1>4
  <1>11. NumbersIn(Marks(m) \o text, k) = <<n>>
    BY <1>5, <1>8
  <1>12. NumbersIn(text \o Marks(m), k) = <<n>>
    BY <1>3, <1>6
  <1>13. QED
    BY <1>1, <1>7, <1>9, <1>10, <1>11, <1>12

\* Marks are no number.
LEMMA OnlyMarks == ASSUME NEW m \in Nat, NEW k PROVE NumbersIn(Marks(m), k) = <<>>
  <1>1. Marks(m) \in Seq(Int) /\ Mark \in Int
    BY MarksAre DEF Mark
  <1> DEFINE e == <<>>  f == <<>>  j == m + 1
  <1>2. e \in Seq(Int) /\ ReadOf(e) = Between(f) /\ j \in Nat
    BY EmptyRead
  <1>3. Append(e \o Marks(m), Mark) = e \o Repeat(Mark, j)
    <2> HIDE DEF e, f, j
    <2>1. QED
      BY <1>2, MarkBehind DEF Marks, j
  <1> HIDE DEF e, f, j
  <1>4. ReadOf(e \o Repeat(Mark, j)) = Between(f)
    BY <1>2, MarksBetween
  <1>5. e \o Marks(m) = Marks(m)
    BY <1>1, ConcatEmptySeq DEF e
  <1>6. Text!After(Append(Marks(m), Mark)).numbers = <<>>
    <2>1. ReadOf(Append(Marks(m), Mark)) = Between(f)
      BY <1>3, <1>4, <1>5
    <2>2. Between(f).numbers = <<>>
      BY DEF Between, f
    <2>3. QED
      BY <2>1, <2>2 DEF ReadOf
  <1>7. NumbersIn(Marks(m), k) = [n \in DOMAIN <<>> |-> InUnits(<<>>[n], k)]
    BY <1>6, Zenon DEF NumbersIn
  <1>8. QED
    BY <1>7

\* Two numbers of these widths, with marks between them and behind.
LEMMA FramedPair ==
  ASSUME NEW n1, NEW n2, Shows(n1, 0, n1), Shows(n2, 0, n2), NEW m \in Nat, m # 0, NEW b \in Nat
  PROVE  /\ NumbersIn(((n1 \o Marks(m)) \o n2) \o Marks(b), 0) = <<n1, n2>>
         /\ ((n1 \o Marks(m)) \o n2) \o Marks(b) \in Seq(Int)
         /\ Len(((n1 \o Marks(m)) \o n2) \o Marks(b)) = Len(n1) + m + Len(n2) + b
         /\ (n1 \o Marks(m)) \o n2 \in Seq(Int)
  <1>2. NumbersIn(((n1 \o Marks(m)) \o n2) \o Marks(b), 0) = <<n1, n2>>
    BY TwoNumbers DEF Marks
  <1>3. n1 \in Seq(Int) /\ n2 \in Seq(Int)
    BY DEF Shows
  <1>4. Marks(m) \in Seq(Int) /\ Len(Marks(m)) = m /\ Marks(b) \in Seq(Int) /\ Len(Marks(b)) = b
    BY MarksAre
  <1> DEFINE u == n1 \o Marks(m)
             v == u \o n2
  <1>5. u \in Seq(Int) /\ Len(u) = Len(n1) + m /\ Len(n1) \in Nat
    BY <1>3, <1>4, JoinedInt, ZenonT(60)
  <1> HIDE DEF u
  <1>6. v \in Seq(Int) /\ Len(v) = Len(u) + Len(n2) /\ Len(n2) \in Nat
    BY <1>3, <1>5, JoinedInt
  <1> HIDE DEF v
  <1>7. v \o Marks(b) \in Seq(Int) /\ Len(v \o Marks(b)) = Len(v) + b
    BY <1>4, <1>6, JoinedInt, ZenonT(60)
  <1>8. v \o Marks(b) = ((n1 \o Marks(m)) \o n2) \o Marks(b)
    BY DEF u, v
  <1>9. Len(v \o Marks(b)) = Len(n1) + m + Len(n2) + b
    BY <1>5, <1>6, <1>7
  <1>10. (n1 \o Marks(m)) \o n2 \in Seq(Int)
    BY <1>6 DEF u, v
  <1>11. QED
    BY <1>2, <1>7, <1>8, <1>9, <1>10

LEMMA Width ==
  ASSUME NEW n, NEW size \in Nat, IsNumber(n, size)
  PROVE  Len(n) \in 1..size /\ Len(n) \in Nat /\ Len(n) <= size /\ n # Thrown /\ Shows(n, 0, n)
  <1>1. Len(n) \in 1..size
    BY DEF IsNumber
  <1>2. n # Thrown
    BY NumberIs DEF Thrown
  <1>3. QED
    BY <1>1, <1>2, DigitsShow

\* A text that reads as the value, and takes so many characters.
Good(kind, text, v, length) ==
  ReadsAs(kind, text, v) /\ text \in Seq(Int) /\ Len(text) \in Nat /\ Len(text) <= length

LEMMA NumberText ==
  ASSUME NEW v, NEW size \in Nat, IsNumber(v, size), NEW dst, NEW text, text # Thrown,
         text = numberToText(v, dst) \/ text = bin2dec(v, dst)
  PROVE  Good("number", text, v, size) /\ Good("bin2dec", text, v, size) /\ Len(v) \in Nat /\ Len(v) <= size
  <1>1. text = v
    BY DEF numberToText, bin2dec
  <1>2. Len(v) \in Nat /\ Len(v) <= size
    BY DEF IsNumber
  <1>3. Shows(v, 0, v)
    BY DigitsShow
  <1>4. NumbersIn(v, 0) = <<v>> /\ v \in Seq(Int)
    <2> DEFINE z == 0
    <2>1. Shows(v, z, v) /\ z \in Nat
      BY <1>3
    <2> HIDE DEF z
    <2>2. NumbersIn(v, z) = <<v>> /\ v \in Seq(Int)
      BY <2>1, Framed
    <2>3. QED
      BY <2>2 DEF z
  <1>5. QED
    BY <1>1, <1>2, <1>4 DEF Good, ReadsAs

LEMMA UnitText ==
  ASSUME NEW v, NEW size \in Nat, IsNumber(v, size), NEW dst \in Nat, NEW text, text # Thrown,
         text = numberToTextWithUnit(v, dst, 2)
  PROVE  Good("unit", text, v, size + 3)
  <1>1. Len(v) \in Nat /\ Len(v) <= size
    BY DEF IsNumber
  <1>2. ~(dst - Len(v) < 4) /\ text = numberToText(v, dst) \o Repeat(Mark, 3)
    BY DEF numberToTextWithUnit
  <1>3. numberToText(v, dst) = v
    BY <1>1, <1>2 DEF numberToText
  <1>4. text = v \o Marks(3)
    BY <1>2, <1>3 DEF Marks
  <1>5. Shows(v, 0, v)
    BY DigitsShow
  <1> DEFINE z == 0  m == 3
  <1>6. NumbersIn(text, 0) = <<v>> /\ text \in Seq(Int) /\ Len(text) = Len(v) + 3
    <2>1. Shows(v, z, v) /\ m \in Nat
      BY <1>5
    <2> HIDE DEF z, m
    <2>2. NumbersIn(v \o Marks(m), z) = <<v>> /\ v \o Marks(m) \in Seq(Int) /\ Len(v \o Marks(m)) = Len(v) + m
      BY <2>1, Framed
    <2>3. QED
      BY <1>4, <2>2 DEF z, m
  <1>7. QED
    BY <1>1, <1>6 DEF Good, ReadsAs

LEMMA OneMark == <<Mark>> = Marks(1)
  <1> DEFINE c == Mark
  <1>1. c \in Int
    BY DEF Mark
  <1> HIDE DEF c
  <1>2. Repeat(c, 1) = <<c>>
    BY <1>1, MarksType
  <1>3. QED
    BY <1>2 DEF Marks, c

LEMMA FractionText ==
  ASSUME NEW v, NEW size, IsNumber(v, size), NEW dst, NEW text, text # Thrown,
         text = fractionToPercentageDisplay(v, dst)
  PROVE  Good("fraction", text, v, 7)
  <1> DEFINE k == 3
             t == decimalNumberToDisplay(v, dst, k)
  <1>1. ~AboveHundredPercent(v) /\ t # Thrown /\ text = t \o <<Mark>>
    BY DEF fractionToPercentageDisplay
  <1>2. t = decimalNumberToDisplay(v, dst, k) /\ k \in Nat /\ k = 3
    OBVIOUS
  <1> HIDE DEF t, k
  <1>3. /\ Shows(t, k, v) /\ Len(v) \in Nat
        /\ Len(v) <= k => Len(t) <= k + 2
        /\ Len(v) > k  =>
             IF WithoutHead(SubSeq(v, Len(v) - k + 1, Len(v))) = Zero
               THEN Len(t) <= Characters(Len(v) - k)
               ELSE Len(t) <= Characters(Len(v) - k) + 1 + k
    BY <1>1, <1>2, DecimalShows
  <1> DEFINE m == 1
  <1>4. <<Mark>> = Marks(m) /\ m \in Nat
    BY OneMark
  <1> HIDE DEF m
  <1>5. /\ NumbersIn(t \o Marks(m), k) = <<v>>
        /\ t \o Marks(m) \in Seq(Int) /\ Len(t \o Marks(m)) = Len(t) + m /\ Len(t) \in Nat
    BY <1>3, <1>4, Framed
  <1>6. NumbersIn(text, 3) = <<v>> /\ text \in Seq(Int) /\ Len(text) = Len(t) + 1
    BY <1>1, <1>2, <1>4, <1>5 DEF m
  <1>7. Len(t) <= 6
    <2>1. Len(v) <= 6 /\ (Len(v) = 6 => v = <<1, 0, 0, 0, 0, 0>>)
      BY <1>1, <1>3 DEF AboveHundredPercent
    <2>2. CASE Len(v) <= 3
      BY <1>2, <1>3, <1>5, <2>2
    <2>3. CASE Len(v) = 4 \/ Len(v) = 5
      <3>1. Characters(1) = 1 /\ Characters(2) = 2
        BY DEF Characters
      <3>2. Len(v) - k = 1 \/ Len(v) - k = 2
        BY <1>2, <2>3
      <3>3. Len(v) > k
        BY <1>2, <2>3, SMTT(40)
      <3>4. Len(t) <= Characters(Len(v) - k) \/ Len(t) <= Characters(Len(v) - k) + 1 + k
        BY <1>3, <3>3
      <3>5. Characters(Len(v) - k) = 1 \/ Characters(Len(v) - k) = 2
        BY <3>1, <3>2
      <3>6. QED
        BY <1>2, <1>5, <3>4, <3>5
    <2>4. CASE Len(v) = 6
      <3>1. v = <<1, 0, 0, 0, 0, 0>>
        BY <2>1, <2>4
      <3>2. v[4] = 0 /\ v[5] = 0 /\ v[6] = 0
        BY <3>1
      <3> DEFINE b == SubSeq(v, Len(v) - k + 1, Len(v))
      <3>3. v \in Seq(Nat)
        BY NumberIs
      <3>4. b = SubSeq(v, 4, 6)
        BY <1>2, <2>4
      <3>5. Len(SubSeq(v, 4, 6)) = 3 /\ \A i \in 1..3 : SubSeq(v, 4, 6)[i] = v[3 + i]
        <4>1. 4 \in Int /\ 6 \in Int /\ \A i \in 4..6 : v[i] \in Nat
          <5>1. \A i \in 4..6 : i = 4 \/ i = 5 \/ i = 6
            OBVIOUS
          <5>2. v[4] \in Nat /\ v[5] \in Nat /\ v[6] \in Nat
            BY <3>2
          <5>3. QED
            BY <5>1, <5>2
        <4>2. /\ Len(SubSeq(v, 4, 6)) = 3 /\ \A i \in 1..(6 - 4 + 1) : SubSeq(v, 4, 6)[i] = v[4 + i - 1]
          BY <4>1, SubSeqProperties
        <4>3. \A i \in 1..3 : 4 + i - 1 = 3 + i
          OBVIOUS
        <4>4. QED
          BY <4>2, <4>3
      <3>6. Nonzero(b) = {}
        <4>1. \A i \in 1..3 : v[3 + i] = 0
          <5>1. \A i \in 1..3 : i = 1 \/ i = 2 \/ i = 3
            OBVIOUS
          <5>2. QED
            BY <3>2, <5>1
        <4>2. Len(b) = 3 /\ \A i \in 1..3 : b[i] = 0
          BY <3>4, <3>5, <4>1
        <4>3. QED
          BY <4>2 DEF Nonzero
      <3>7. WithoutHead(b) = Zero
        BY <3>6 DEF WithoutHead
      <3>8. Characters(3) = 3 /\ Len(v) - k = 3 /\ Len(v) > k
        BY <1>2, <2>4 DEF Characters
      <3>9. Len(t) <= Characters(Len(v) - k)
        BY <1>3, <3>7, <3>8
      <3>10. QED
        BY <1>5, <3>8, <3>9
    <2>5. Len(v) \in Nat /\ Len(v) <= 6
      BY <1>3, <2>1
    <2>6. Len(v) <= 3 \/ Len(v) = 4 \/ Len(v) = 5 \/ Len(v) = 6
      <3>1. \A a \in Nat : a <= 6 => a <= 3 \/ a = 4 \/ a = 5 \/ a = 6
        OBVIOUS
      <3>2. QED
        BY <2>5, <3>1
    <2>7. QED
      BY <2>2, <2>3, <2>4, <2>6
  <1>8. QED
    BY <1>5, <1>6, <1>7 DEF Good, ReadsAs

LEMMA AmountText ==
  ASSUME NEW v, IsNumber(v, 20), NEW dst, NEW text, text # Thrown, text = amountToGtuDisplay(v, dst)
  PROVE  Good("amount", text, v, 29)
  <1> DEFINE k == 6
             t == decimalNumberToDisplay(v, dst, k)
             size == 20
  <1>0. IsNumber(v, size) /\ size \in Nat
    OBVIOUS
  <1>1. t # Thrown /\ text = Repeat(Mark, 4) \o t
    BY DEF amountToGtuDisplay, Behind
  <1>2. t = decimalNumberToDisplay(v, dst, k) /\ k \in Nat /\ k = 6
    OBVIOUS
  <1>3. Len(v) \in Nat /\ Len(v) <= 20
    <2>1. size <= 20
      OBVIOUS
    <2> HIDE DEF size
    <2>2. Len(v) \in Nat /\ Len(v) <= size
      BY <1>0, Width
    <2>3. QED
      BY <1>0, <2>1, <2>2
  <1> HIDE DEF t, k, size
  <1>4. /\ Shows(t, k, v) /\ Len(v) \in Nat
        /\ Len(v) <= k => Len(t) <= k + 2
        /\ Len(v) > k  =>
             IF WithoutHead(SubSeq(v, Len(v) - k + 1, Len(v))) = Zero
               THEN Len(t) <= Characters(Len(v) - k)
               ELSE Len(t) <= Characters(Len(v) - k) + 1 + k
    BY <1>0, <1>1, <1>2, DecimalShows
  <1> DEFINE m == 4
  <1>5. m \in Nat /\ m = 4
    OBVIOUS
  <1> HIDE DEF m
  <1>6. /\ NumbersIn(Marks(m) \o t, k) = <<v>>
        /\ Marks(m) \o t \in Seq(Int) /\ Len(Marks(m) \o t) = m + Len(t) /\ Len(t) \in Nat
    BY <1>4, <1>5, Framed
  <1>7. NumbersIn(text, 6) = <<v>> /\ text \in Seq(Int) /\ Len(text) = Len(t) + 4
    BY <1>1, <1>2, <1>5, <1>6 DEF Marks
  <1>8. Len(t) <= 25
    <2>1. CASE Len(v) <= k
      BY <1>2, <1>4, <1>6, <2>1
    <2>2. CASE Len(v) > k
      <3> DEFINE w == Len(v) - k
      <3>1. w \in 1..14
        <4>1. \A a, c \in Nat : a <= 20 /\ c = 6 /\ a > c => a - c \in 1..14
          OBVIOUS
        <4>2. QED
          BY <1>2, <1>3, <2>2, <4>1
      <3>2. Characters(w) \in Nat /\ Characters(w) <= 18
        <4> HIDE DEF w
        <4>1. QED
          BY <3>1 DEF Characters
      <3>3. Len(t) <= Characters(w) \/ Len(t) <= Characters(w) + 1 + k
        BY <1>4, <2>2
      <3> HIDE DEF w
      <3>4. QED
        BY <1>2, <1>6, <3>2, <3>3, SMTT(40)
    <2>3. QED
      BY <1>2, <1>4, <2>1, <2>2
  <1>9. QED
    BY <1>6, <1>7, <1>8 DEF Good, ReadsAs

LEMMA CapitalIs ==
  ASSUME NEW v, IsNumber(v, 20), NEW dst, NEW text, text # Thrown, text = CapitalText(v, dst)
  PROVE  Good("capital", text, v, 29)
  <1>1. CASE v = Zero
    <2>1. text = Marks(15)
      BY <1>1 DEF CapitalText, Stop, Marks
    <2>2. text \in Seq(Int) /\ Len(text) = 15
      BY <2>1, MarksAre
    <2>3. ReadsAs("capital", text, v)
      BY <1>1, <2>1 DEF ReadsAs, Stop, Marks
    <2>4. QED
      BY <2>2, <2>3 DEF Good
  <1>2. CASE v # Zero
    <2>1. text = amountToGtuDisplay(v, dst)
      BY <1>2 DEF CapitalText
    <2>2. Good("amount", text, v, 29)
      BY <2>1, AmountText
    <2>3. NumbersIn(text, 6) = <<v>>
      BY <2>2 DEF Good, ReadsAs
    <2>4. text # Stop
      <3>1. Stop = Marks(15) /\ 15 \in Nat
        BY DEF Stop, Marks
      <3>2. NumbersIn(Stop, 6) = <<>>
        BY <3>1, OnlyMarks
      <3>3. <<v>> # <<>>
        OBVIOUS
      <3>4. QED
        BY <2>3, <3>2, <3>3
    <2>5. QED
      BY <2>2, <2>3, <2>4 DEF Good, ReadsAs
  <1>3. QED
    BY <1>1, <1>2

LEMMA RatioOf ==
  ASSUME NEW n1, NEW n2, NEW size \in Nat, IsNumber(n1, size), IsNumber(n2, size),
         NEW dst, NEW text, text # Thrown, text = RatioText(<<n1, n2>>, dst)
  PROVE  /\ NumbersIn(text, 0) = <<n1, n2>>
         /\ text \in Seq(Int) /\ Len(text) \in Nat /\ Len(text) <= size + 3 + size
  <1> DEFINE digits == numberToText(n2, Room(dst - Len(n1) - 3))
  <1>1. /\ Len(n1) \in Nat /\ Len(n1) <= size /\ n1 # Thrown /\ Shows(n1, 0, n1)
        /\ Len(n2) \in Nat /\ Len(n2) <= size /\ n2 # Thrown /\ Shows(n2, 0, n2)
    BY Width
  <1>2. <<n1, n2>>[1] = n1 /\ <<n1, n2>>[2] = n2
    OBVIOUS
  <1>3. numberToText(n1, dst) = n1
    BY <1>2 DEF RatioText, numberToText
  <1>4. text = Behind(n1 \o Repeat(Mark, 3), digits)
    BY <1>1, <1>2, <1>3 DEF RatioText
  <1>5. digits # Thrown /\ text = (n1 \o Repeat(Mark, 3)) \o digits
    BY <1>4 DEF Behind
  <1>6. digits = n2
    BY <1>5 DEF numberToText
  <1> DEFINE m == 3  b == 0
  <1>7. text = (n1 \o Marks(m)) \o n2 /\ m = 3 /\ b = 0 /\ m \in Nat /\ m # 0 /\ b \in Nat
    <2>1. text = (n1 \o Marks(m)) \o n2
      BY <1>5, <1>6 DEF Marks
    <2>2. m = 3 /\ b = 0 /\ m \in Nat /\ m # 0 /\ b \in Nat
      OBVIOUS
    <2> HIDE DEF m, b
    <2>3. QED
      BY <2>1, <2>2
  <1> HIDE DEF m, b
  <1>8. /\ NumbersIn(((n1 \o Marks(m)) \o n2) \o Marks(b), 0) = <<n1, n2>>
        /\ Len(((n1 \o Marks(m)) \o n2) \o Marks(b)) = Len(n1) + m + Len(n2) + b
        /\ (n1 \o Marks(m)) \o n2 \in Seq(Int)
    BY <1>1, <1>7, FramedPair
  <1>9. text \in Seq(Int) /\ text \o Marks(b) = text
    BY <1>7, <1>8, NoMarks
  <1>10. NumbersIn(text, 0) = <<n1, n2>> /\ Len(text) = Len(n1) + m + Len(n2) + b
    <2>1. ((n1 \o Marks(m)) \o n2) \o Marks(b) = text
      BY <1>7, <1>9
    <2>2. QED
      BY <1>8, <2>1
  <1>11. Len(text) = Len(n1) + 3 + Len(n2)
    <2>1. \A x, y \in Nat : x + 3 + y + 0 = x + 3 + y
      OBVIOUS
    <2>2. Len(text) = Len(n1) + 3 + Len(n2) + 0
      BY <1>7, <1>10, Zenon
    <2>3. QED
      BY <1>1, <2>1, <2>2, Zenon
  <1>12. QED
    BY <1>1, <1>9, <1>10, <1>11

LEMMA RatioIs ==
  ASSUME NEW v \in Ratios, NEW dst, NEW text, text # Thrown, text = RatioText(v, dst)
  PROVE  Good("ratio", text, v, 43)
  <1> DEFINE size == 20  n1 == v[1]  n2 == v[2]
  <1>1. v = <<n1, n2>> /\ IsNumber(n1, size) /\ IsNumber(n2, size) /\ size \in Nat /\ size = 20
    BY NumbersAssumption
  <1> HIDE DEF size, n1, n2
  <1>2. text = RatioText(<<n1, n2>>, dst)
    BY <1>1
  <1>3. /\ NumbersIn(text, 0) = <<n1, n2>>
        /\ text \in Seq(Int) /\ Len(text) \in Nat /\ Len(text) <= size + 3 + size
    BY <1>1, <1>2, RatioOf
  <1>4. QED
    BY <1>1, <1>3 DEF Good, ReadsAs

LEMMA MintRateOf ==
  ASSUME NEW n1, NEW n2, NEW size1 \in Nat, NEW size2 \in Nat, IsNumber(n1, size1), IsNumber(n2, size2),
         NEW dst \in Nat, size1 + 6 + size2 <= dst, NEW text, text = MintRateText(<<n1, n2>>, dst)
  PROVE  /\ NumbersIn(text, 0) = <<n1, n2>>
         /\ text \in Seq(Int) /\ Len(text) \in Nat /\ Len(text) <= size1 + 7 + size2
  <1>1. /\ Len(n1) \in Nat /\ Len(n1) <= size1 /\ n1 # Thrown /\ Shows(n1, 0, n1)
        /\ Len(n2) \in Nat /\ Len(n2) <= size2 /\ n2 # Thrown /\ Shows(n2, 0, n2)
    BY Width
  <1>2. <<n1, n2>>[1] = n1 /\ <<n1, n2>>[2] = n2
    OBVIOUS
  <1>3. ~(dst < Len(n1)) /\ ~(dst - Len(n1) - 6 < Len(n2))
    BY <1>1
  <1>4. numberToText(n1, dst) = n1 /\ numberToText(n2, dst - Len(n1) - 6) = n2
    BY <1>3 DEF numberToText
  <1>5. text = Behind(n1 \o Repeat(Mark, 6), n2) \o <<Mark>>
    BY <1>2, <1>4 DEF MintRateText
  <1>6. text = ((n1 \o Repeat(Mark, 6)) \o n2) \o <<Mark>>
    BY <1>1, <1>5 DEF Behind
  <1> DEFINE m == 6  b == 1
  <1>7. <<Mark>> = Marks(b)
    BY OneMark
  <1>8. /\ text = ((n1 \o Marks(m)) \o n2) \o Marks(b) /\ m = 6 /\ b = 1
        /\ m \in Nat /\ m # 0 /\ b \in Nat
    <2>1. text = ((n1 \o Marks(m)) \o n2) \o Marks(b)
      BY <1>6, <1>7 DEF Marks
    <2>2. m = 6 /\ b = 1 /\ m \in Nat /\ m # 0 /\ b \in Nat
      OBVIOUS
    <2> HIDE DEF m, b
    <2>3. QED
      BY <2>1, <2>2
  <1> HIDE DEF m, b
  <1>9. /\ NumbersIn(((n1 \o Marks(m)) \o n2) \o Marks(b), 0) = <<n1, n2>>
        /\ ((n1 \o Marks(m)) \o n2) \o Marks(b) \in Seq(Int)
        /\ Len(((n1 \o Marks(m)) \o n2) \o Marks(b)) = Len(n1) + m + Len(n2) + b
    BY <1>1, <1>8, FramedPair
  <1>10. NumbersIn(text, 0) = <<n1, n2>> /\ text \in Seq(Int) /\ Len(text) = Len(n1) + 6 + Len(n2) + 1
    BY <1>1, <1>8, <1>9
  <1>11. QED
    BY <1>1, <1>10

LEMMA MintRateIs ==
  ASSUME NEW v \in Numbers32 \X Numbers8, NEW text, text = MintRateText(v, 35)
  PROVE  Good("mintRate", text, v, 20)
  <1> DEFINE n1 == v[1]  n2 == v[2]  size1 == 10  size2 == 3  dst == 35
  <1>1. /\ v = <<n1, n2>> /\ IsNumber(n1, size1) /\ IsNumber(n2, size2)
        /\ size1 = 10 /\ size2 = 3 /\ dst \in Nat /\ size1 + 6 + size2 <= dst
        /\ text = MintRateText(v, dst)
    BY NumbersAssumption
  <1> HIDE DEF n1, n2, size1, size2, dst
  <1>2. text = MintRateText(<<n1, n2>>, dst) /\ size1 \in Nat /\ size2 \in Nat
    BY <1>1
  <1>3. /\ NumbersIn(text, 0) = <<n1, n2>>
        /\ text \in Seq(Int) /\ Len(text) \in Nat /\ Len(text) <= size1 + 7 + size2
    BY <1>1, <1>2, MintRateOf
  <1>4. QED
    BY <1>1, <1>3 DEF Good, ReadsAs

LEMMA TargetOf ==
  ASSUME NEW n, NEW size \in Nat, IsNumber(n, size), NEW text, text = Repeat(Mark, 9) \o n
  PROVE  /\ NumbersIn(text, 0) = <<n>> /\ text # Passive
         /\ text \in Seq(Int) /\ Len(text) \in Nat /\ Len(text) <= 9 + size
  <1> DEFINE m == 9  z == 0
  <1>1. /\ text = Marks(m) \o n /\ m = 9 /\ m \in Nat /\ z = 0
        /\ Shows(n, z, n) /\ Len(n) \in Nat /\ Len(n) <= size
    BY Width DEF Marks
  <1> HIDE DEF m, z
  <1>2. NumbersIn(Marks(m) \o n, z) = <<n>> /\ Marks(m) \o n \in Seq(Int) /\ Len(Marks(m) \o n) = m + Len(n)
    BY <1>1, Framed
  <1>3. text # Passive
    <2>1. Passive = Marks(18) /\ 18 \in Nat
      BY DEF Passive, Marks
    <2>2. NumbersIn(Passive, z) = <<>>
      BY <2>1, OnlyMarks
    <2>3. <<n>> # <<>>
      OBVIOUS
    <2>4. QED
      BY <1>1, <1>2, <2>2, <2>3
  <1>4. Len(text) = 9 + Len(n) /\ text \in Seq(Int)
    BY <1>1, <1>2
  <1>5. NumbersIn(text, 0) = <<n>>
    BY <1>1, <1>2
  <1>6. QED
    BY <1>1, <1>3, <1>4, <1>5

LEMMA TargetIs ==
  ASSUME NEW v \in ValuesOf("target"), NEW text, text # Thrown, text = TargetText(v)
  PROVE  Good("target", text, v, 29)
  <1>1. v \in {<<0, Zero>>, <<2, Zero>>} \cup ({1} \X Numbers64)
    BY DEF ValuesOf
  <1>2. CASE v = <<0, Zero>>
    <2>1. text = Passive /\ Passive = Marks(18) /\ v[1] = 0
      BY <1>2 DEF TargetText, Passive, Marks
    <2>2. text \in Seq(Int) /\ Len(text) = 18
      BY <2>1, MarksAre
    <2>3. ReadsAs("target", text, v)
      BY <2>1 DEF ReadsAs
    <2>4. QED
      BY <2>2, <2>3 DEF Good
  <1>3. CASE v = <<2, Zero>>
    BY <1>3 DEF TargetText
  <1>4. CASE v \in {1} \X Numbers64
    <2> DEFINE n == v[2]  size == 20  room == 21
    <2>1. v[1] = 1 /\ IsNumber(n, size) /\ size \in Nat /\ size = 20 /\ room \in Nat /\ size < room
      BY <1>4, NumbersAssumption
    <2>2. text = Repeat(Mark, 9) \o bin2dec(n, room)
      BY <2>1 DEF TargetText
    <2>3. v[2] = n
      OBVIOUS
    <2> HIDE DEF n, size, room
    <2>4. text = Repeat(Mark, 9) \o n
      BY <2>1, <2>2, Written
    <2>5. /\ NumbersIn(text, 0) = <<n>> /\ text # Passive
          /\ text \in Seq(Int) /\ Len(text) \in Nat /\ Len(text) <= 9 + size
      BY <2>1, <2>4, TargetOf
    <2>6. ReadsAs("target", text, v)
      BY <2>1, <2>3, <2>5 DEF ReadsAs
    <2>7. QED
      BY <2>1, <2>5, <2>6 DEF Good
  <1>5. QED
    BY <1>1, <1>2, <1>3, <1>4
-----------------------------------------------------------------------------
(***************************************************************************)
(* Quotients and products.                                                 *)
(***************************************************************************)
LEMMA Division ==
  ASSUME NEW a \in Nat, NEW b \in Nat \ {0}
  PROVE  /\ a \div b \in Nat /\ a % b \in Nat /\ a % b < b
         /\ a = b * (a \div b) + (a % b)
  <1>1. a = b * (a \div b) + (a % b)
    OBVIOUS
  <1>2. a % b \in Int /\ 0 <= a % b
    OBVIOUS
  <1>3. a % b < b
    OBVIOUS
  <1>4. a \div b \in Int
    OBVIOUS
  <1>5. 0 <= a \div b
    OBVIOUS
  <1>6. QED
    BY <1>1, <1>2, <1>3, <1>4, <1>5

LEMMA DivisionIs ==
  ASSUME NEW a \in Nat, NEW b \in Nat \ {0}, NEW q \in Nat, NEW r \in 0..(b - 1), a = b * q + r
  PROVE  a \div b = q /\ a % b = r
  OBVIOUS

LEMMA TimesNat == \A a, b \in Nat : a * b \in Nat
  OBVIOUS

LEMMA TimesMore ==
  ASSUME NEW a \in Nat, NEW b \in Nat, NEW c \in Nat
  PROVE  /\ a <= b => a * c <= b * c /\ c * a <= c * b
         /\ a < b /\ c # 0 => a * c < b * c
         /\ a * c < b * c => a < b
  <1>1. a <= b => a * c <= b * c /\ c * a <= c * b
    OBVIOUS
  <1>2. a < b /\ c # 0 => a * c < b * c
    OBVIOUS
  <1>3. a * c < b * c => a < b
    OBVIOUS
  <1>4. QED
    BY <1>1, <1>2, <1>3

-----------------------------------------------------------------------------
(***************************************************************************)
(* Values of texts and of bytes.                                           *)
(***************************************************************************)
ShownProofs == INSTANCE ReadingProofs WITH Nothing <- 0, Read <- ShownDigit
GivenProofs == INSTANCE ReadingProofs WITH Nothing <- 0, Read <- GivenByte

Shown(text)  == ShownValue!After(text)
Given(bytes) == GivenValue!After(bytes)

LEMMA ShownIs == \A t : Shown(t) = ShownProofs!After(t)
  BY DEF Shown, ShownValue!After, ShownValue!Readings, ShownProofs!After, ShownProofs!Readings

LEMMA GivenIs == \A t : Given(t) = GivenProofs!After(t)
  BY DEF Given, GivenValue!After, GivenValue!Readings, GivenProofs!After, GivenProofs!Readings

LEMMA ShownEmpty == Shown(<<>>) = 0
  BY ShownIs, ShownProofs!AfterEmpty

LEMMA GivenEmpty == Given(<<>>) = 0
  BY GivenIs, GivenProofs!AfterEmpty

LEMMA ShownAppend ==
  ASSUME NEW s \in Seq(Int), NEW c \in Int
  PROVE  Shown(Append(s, c)) = IF c >= 0 THEN Shown(s) * OutBase + c ELSE Shown(s)
  <1>1. Shown(Append(s, c)) = ShownDigit(Shown(s), c)
    BY ShownIs, ShownProofs!AfterAppend
  <1>2. QED
    BY <1>1 DEF ShownDigit

LEMMA GivenAppend ==
  ASSUME NEW s \in Seq(Nat), NEW c \in Nat
  PROVE  Given(Append(s, c)) = Given(s) * InBase + c
  <1>1. Given(Append(s, c)) = GivenByte(Given(s), c)
    BY GivenIs, GivenProofs!AfterAppend
  <1>2. QED
    BY <1>1 DEF GivenByte

LEMMA ShownNat == ASSUME NEW s \in Seq(Int) PROVE Shown(s) \in Nat
  <1>1. 0 \in Nat /\ \A r \in Nat : \A x \in Int : ShownDigit(r, x) \in Nat
    <2> SUFFICES ASSUME NEW r \in Nat, NEW x \in Int PROVE ShownDigit(r, x) \in Nat
      OBVIOUS
    <2>1. r * OutBase \in Nat
      BY TimesNat, ConversionAssumption
    <2>2. QED
      BY <2>1 DEF ShownDigit
  <1>2. ShownProofs!After(s) \in Nat
    BY <1>1, ShownProofs!AfterIn
  <1>3. QED
    BY <1>2, ShownIs

LEMMA GivenNat == ASSUME NEW s \in Seq(Nat) PROVE Given(s) \in Nat
  <1>1. 0 \in Nat /\ \A r \in Nat : \A x \in Nat : GivenByte(r, x) \in Nat
    <2> SUFFICES ASSUME NEW r \in Nat, NEW x \in Nat PROVE GivenByte(r, x) \in Nat
      OBVIOUS
    <2>1. r * InBase \in Nat
      BY TimesNat, ConversionAssumption
    <2>2. QED
      BY <2>1 DEF GivenByte
  <1>2. GivenProofs!After(s) \in Nat
    BY <1>1, GivenProofs!AfterIn
  <1>3. QED
    BY <1>2, GivenIs

\* OutBase to the power of n: one, with n zeroes behind it.
Power(n) == Shown(<<1>> \o Repeat(0, n))

LEMMA ZeroPast == ASSUME NEW n \in Nat
  PROVE  /\ Repeat(0, n) \in Seq(Int) /\ <<1>> \o Repeat(0, n) \in Seq(Int)
         /\ <<1>> \o Repeat(0, n + 1) = Append(<<1>> \o Repeat(0, n), 0)
  <1> DEFINE z == 0  s == Repeat(z, n)  t == Repeat(z, n + 1)  e == <<1>>
  <1>1. s \in Seq(Int) /\ Len(s) = n /\ e \in Seq(Int) /\ z \in Int
    BY DEF Repeat
  <1>2. t = Append(s, z)
    <2>1. t \in Seq(Int) /\ Len(t) = n + 1 /\ \A k \in 1..(n + 1) : t[k] = z
      BY DEF Repeat
    <2>2. Append(s, z) \in Seq(Int) /\ Len(Append(s, z)) = n + 1
          /\ \A k \in 1..(n + 1) : Append(s, z)[k] = z
      BY <1>1 DEF Repeat
    <2>3. QED
      BY <2>1, <2>2, SeqEqual
  <1> HIDE DEF z, s, t, e
  <1>3. e \o Append(s, z) = Append(e \o s, z)
    BY <1>1, ConcatAppendOf
  <1>4. e \o s \in Seq(Int)
    BY <1>1, ConcatProperties
  <1>5. QED
    BY <1>1, <1>2, <1>3, <1>4 DEF z, s, t, e

LEMMA PowerIs ==
  /\ Power(0) = 1
  /\ \A n \in Nat : Power(n) \in Nat /\ Power(n + 1) = Power(n) * OutBase
  <1>1. Power(0) = 1
    <2> DEFINE e == <<>>  one == 1
    <2>1. e \in Seq(Int) /\ one \in Int /\ one >= 0 /\ Append(e, one) = <<1>>
      OBVIOUS
    <2>2. <<1>> \o Repeat(0, 0) = <<1>>
      <3>1. Repeat(0, 0) = <<>> /\ <<1>> \in Seq(Int)
        BY DEF Repeat
      <3>2. QED
        BY <3>1, ConcatEmptySeq
    <2>3. Shown(e) = 0
      BY ShownEmpty
    <2> HIDE DEF e, one
    <2>4. Shown(Append(e, one)) = 0 * OutBase + one
      BY <2>1, <2>3, ShownAppend
    <2>5. 0 * OutBase + one = 1
      BY ConversionAssumption DEF one
    <2>6. QED
      BY <2>1, <2>2, <2>4, <2>5 DEF Power
  <1>2. ASSUME NEW n \in Nat PROVE Power(n) \in Nat /\ Power(n + 1) = Power(n) * OutBase
    <2> DEFINE s == <<1>> \o Repeat(0, n)  z == 0
    <2>0. s \in Seq(Int) /\ <<1>> \o Repeat(0, n + 1) = Append(s, 0)
      BY ZeroPast, Zenon
    <2>1. s \in Seq(Int) /\ <<1>> \o Repeat(0, n + 1) = Append(s, z) /\ z \in Int /\ z >= 0
      BY <2>0
    <2> HIDE DEF s, z
    <2>2. Shown(s) \in Nat /\ Shown(Append(s, z)) = Shown(s) * OutBase + z
      BY <2>1, ShownNat, ShownAppend
    <2>3. Shown(s) * OutBase + z = Shown(s) * OutBase
      <3>1. Shown(s) * OutBase \in Nat
        BY <2>2, TimesNat, ConversionAssumption
      <3>2. QED
        BY <3>1 DEF z
    <2>4. Power(n) = Shown(s) /\ Power(n + 1) = Shown(Append(s, z))
      BY <2>1 DEF Power, s
    <2>5. QED
      BY <2>2, <2>3, <2>4
  <1>3. QED
    BY <1>1, <1>2

\* The values of a number's first digits.
Growing(f, s) ==
  /\ \A k \in 0..Len(s) : f[k] \in Nat
  /\ \A k \in 1..Len(s) : f[k] = f[k - 1] * OutBase + s[k]
ValuesOfDigits(f, s) == f[0] = 0 /\ Growing(f, s)

LEMMA ValuesOfDigitsExist ==
  ASSUME NEW s \in Seq(Nat)
  PROVE  \E f : ValuesOfDigits(f, s) /\ Shown(s) = f[Len(s)]
  <1> DEFINE n == Len(s)
  <1>1. n \in Nat /\ \A k \in 1..n : s[k] \in Nat
    BY LenProperties, ElementOfSeq
  <1>2. PICK f : /\ f[0] = 0 /\ \A k \in 1..Len(s) : f[k] = ShownDigit(f[k - 1], s[k])
                 /\ ShownProofs!After(s) = f[Len(s)]
    BY ShownProofs!ReadingsAre
  <1> HIDE DEF n
  <1>3. \A k \in 1..n : f[k] = f[k - 1] * OutBase + s[k]
    BY <1>1, <1>2 DEF ShownDigit, n
  <1> DEFINE T == {k \in Nat : k <= n => f[k] \in Nat}
  <1>4. T = Nat
    <2>1. 0 \in T
      BY <1>2
    <2>2. ASSUME NEW k \in T PROVE k + 1 \in T
      <3> SUFFICES ASSUME k + 1 <= n PROVE f[k + 1] \in Nat
        OBVIOUS
      <3>1. k + 1 \in 1..n /\ (k + 1) - 1 = k /\ f[k] \in Nat
        BY <1>1
      <3>2. f[k + 1] = f[k] * OutBase + s[k + 1] /\ s[k + 1] \in Nat
        BY <1>1, <1>3, <3>1
      <3>3. f[k] * OutBase \in Nat
        BY <3>1, TimesNat, ConversionAssumption
      <3>4. QED
        BY <3>2, <3>3
    <2>3. QED
      <3> HIDE DEF T
      <3>1. T \in SUBSET Nat
        BY DEF T
      <3>2. QED
        BY <2>1, <2>2, <3>1, ShownProofs!SetInduction
  <1>5. \A k \in 0..n : f[k] \in Nat
    BY <1>1, <1>4
  <1>6. Shown(s) = f[n]
    BY <1>2, ShownIs DEF n
  <1>7. QED
    BY <1>2, <1>3, <1>5, <1>6 DEF ValuesOfDigits, Growing, n

\* They grow with the powers of the base.
LEMMA ValuesGrow ==
  ASSUME NEW s \in Seq(Nat), NEW f, Growing(f, s), NEW j \in 0..Len(s), f[j] # 0
  PROVE  f[Len(s)] >= Power(Len(s) - j)
  <1> DEFINE n == Len(s)
             T == {k \in Nat : j + k <= n => f[j + k] >= Power(k)}
  <1>1. n \in Nat /\ j \in 0..n /\ \A k \in 1..n : s[k] \in Nat
    BY LenProperties, ElementOfSeq
  <1>2. (\A k \in 0..n : f[k] \in Nat) /\ \A k \in 1..n : f[k] = f[k - 1] * OutBase + s[k]
    BY DEF Growing
  <1> HIDE DEF n
  <1>3. T = Nat
    <2>1. 0 \in T
      <3>1. j + 0 = j
        BY <1>1
      <3>2. f[j] \in Nat /\ f[j] # 0
        BY <1>1, <1>2
      <3>3. f[j] >= 1
        BY <3>2
      <3>4. f[j + 0] >= Power(0)
        BY <3>1, <3>3, PowerIs, Zenon
      <3>5. QED
        BY <3>4
    <2>2. ASSUME NEW k \in T PROVE k + 1 \in T
      <3> SUFFICES ASSUME j + (k + 1) <= n PROVE f[j + (k + 1)] >= Power(k + 1)
        OBVIOUS
      <3> DEFINE i == j + (k + 1)  a == f[j + k]  p == Power(k)  b == OutBase
      <3>1. i \in 1..n /\ i - 1 = j + k /\ j + k \in 0..n /\ k \in Nat
        BY <1>1
      <3>2. f[i] = a * b + s[i] /\ s[i] \in Nat /\ a \in Nat /\ a >= p
        BY <1>1, <1>2, <3>1
      <3>3. p \in Nat /\ Power(k + 1) = p * b /\ b \in Nat
        BY <3>1, PowerIs, ConversionAssumption
      <3> HIDE DEF i, a, p, b
      <3> DEFINE x == a * b  y == p * b
      <3>4. y <= x /\ x \in Nat /\ y \in Nat
        BY <3>2, <3>3, TimesMore, TimesNat
      <3>a. f[i] = x + s[i] /\ Power(k + 1) = y
        BY <3>2, <3>3
      <3> HIDE DEF x, y
      <3>5. f[i] >= Power(k + 1)
        BY <3>2, <3>4, <3>a
      <3>6. QED
        BY <3>5 DEF i
    <2>3. QED
      <3> HIDE DEF T
      <3>1. T \in SUBSET Nat
        BY DEF T
      <3>2. QED
        BY <2>1, <2>2, <3>1, ShownProofs!SetInduction
  <1>4. n - j \in Nat /\ j + (n - j) = n
    BY <1>1
  <1>5. f[j + (n - j)] >= Power(n - j)
    BY <1>1, <1>3, <1>4, SMTT(40)
  <1>6. QED
    BY <1>4, <1>5 DEF n

\* and no faster.
LEMMA ValuesEnd ==
  ASSUME NEW s \in Seq(0..(OutBase - 1)), NEW f, Growing(f, s), NEW j \in 0..Len(s), f[j] = 0
  PROVE  f[Len(s)] < Power(Len(s) - j)
  <1> DEFINE n == Len(s)  b == OutBase
             T == {k \in Nat : j + k <= n => f[j + k] < Power(k)}
  <1>1. n \in Nat /\ j \in 0..n /\ b \in Nat /\ \A k \in 1..n : s[k] \in 0..(b - 1)
    BY LenProperties, ElementOfSeq, ConversionAssumption
  <1>2. (\A k \in 0..n : f[k] \in Nat) /\ \A k \in 1..n : f[k] = f[k - 1] * b + s[k]
    BY DEF Growing
  <1>p. \A k \in Nat : Power(k) \in Nat /\ Power(k + 1) = Power(k) * b
    BY PowerIs
  <1> HIDE DEF n, b
  <1>3. T = Nat
    <2>1. 0 \in T
      <3>1. f[j + 0] = 0 /\ Power(0) = 1
        BY <1>1, <1>2, PowerIs
      <3>2. QED
        BY <3>1
    <2>2. ASSUME NEW k \in T PROVE k + 1 \in T
      <3> SUFFICES ASSUME j + (k + 1) <= n PROVE f[j + (k + 1)] < Power(k + 1)
        OBVIOUS
      <3> DEFINE i == j + (k + 1)  a == f[j + k]  p == Power(k)
      <3>1. i \in 1..n /\ i - 1 = j + k /\ j + k \in 0..n /\ k \in Nat
        BY <1>1
      <3>2. f[i] = a * b + s[i] /\ s[i] \in 0..(b - 1) /\ a \in Nat /\ a < p
        BY <1>1, <1>2, <3>1
      <3>3. p \in Nat /\ Power(k + 1) = p * b
        BY <3>1, <1>p
      <3> HIDE DEF i, a, p
      <3> DEFINE x == a * b  y == p * b  z == (a + 1) * b
      <3>4. z <= y /\ x \in Nat /\ y \in Nat
        BY <1>1, <3>2, <3>3, TimesMore, TimesNat
      <3>5. z = x + b
        BY <1>1, <3>2
      <3>a. f[i] = x + s[i] /\ Power(k + 1) = y
        BY <3>2, <3>3
      <3> HIDE DEF x, y, z
      <3>6. f[i] < Power(k + 1)
        BY <1>1, <3>2, <3>4, <3>5, <3>a
      <3>7. QED
        BY <3>6 DEF i
    <2>3. QED
      <3> HIDE DEF T
      <3>1. T \in SUBSET Nat
        BY DEF T
      <3>2. QED
        BY <2>1, <2>2, <3>1, ShownProofs!SetInduction
  <1>4. n - j \in Nat /\ j + (n - j) = n
    BY <1>1
  <1>5. f[j + (n - j)] < Power(n - j)
    BY <1>1, <1>3, <1>4
  <1>6. QED
    BY <1>4, <1>5 DEF n
-----------------------------------------------------------------------------
(***************************************************************************)
(* One byte goes into the number.                                          *)
(***************************************************************************)
LEMMA SizesAre == digitCount \in Nat /\ spaces \in Nat /\ outputSize \in Nat /\ outputSize = digitCount + spaces
  <1>1. AddressBytes * 138 \in Nat
    BY ConversionAssumption
  <1>2. digitCount \in Nat
    BY <1>1 DEF digitCount
  <1>3. spaces \in Nat
    BY <1>2, Division, ConversionAssumption DEF spaces
  <1>4. QED
    BY <1>2, <1>3 DEF outputSize

Digits(out) == out \in Seq(0..(OutBase - 1)) /\ Len(out) = outputSize

\* carry is what the last cells of out hand on to those before them.
Carries(carry, out, byte, n) ==
  carry = [k \in 0..n |->
             IF k = 0 THEN byte
             ELSE (carry[k - 1] + InBase * out[outputSize + 1 - k]) \div OutBase]

LEMMA CarriesExist == ASSUME NEW out, NEW byte, NEW n \in Nat PROVE \E f : Carries(f, out, byte, n)
  <1> DEFINE T == {k \in Nat : \E f : Carries(f, out, byte, k)}
             next(c, k) == (c + InBase * out[outputSize + 1 - k]) \div OutBase
  <1>1. 0 \in T
    <2> DEFINE f == [k \in 0..0 |-> byte]
    <2>1. Carries(f, out, byte, 0)
      BY DEF Carries
    <2>2. QED
      BY <2>1
  <1>2. ASSUME NEW m \in T PROVE m + 1 \in T
    <2>1. PICK f : Carries(f, out, byte, m)
      OBVIOUS
    <2>2. \A k \in 0..m : f[k] = IF k = 0 THEN byte ELSE next(f[k - 1], k)
      BY <2>1 DEF Carries
    <2> HIDE DEF next
    <2> DEFINE g == [k \in 0..(m + 1) |-> IF k = m + 1 THEN next(f[m], m + 1) ELSE f[k]]
    <2>3. \A k \in 0..(m + 1) : g[k] = IF k = 0 THEN byte ELSE next(g[k - 1], k)
      <3> SUFFICES ASSUME NEW k \in 0..(m + 1)
                   PROVE  g[k] = IF k = 0 THEN byte ELSE next(g[k - 1], k)
        OBVIOUS
      <3>1. CASE k = m + 1
        <4>1. g[m] = f[m] /\ k # 0 /\ k - 1 = m
          BY <3>1
        <4>2. QED
          BY <3>1, <4>1
      <3>2. CASE k \in 0..m
        <4>1. g[k] = f[k] /\ (k # 0 => g[k - 1] = f[k - 1])
          BY <3>2
        <4>2. QED
          BY <2>2, <3>2, <4>1
      <3>3. QED
        BY <3>1, <3>2
    <2>4. Carries(g, out, byte, m + 1)
      <3>1. g = [k \in 0..(m + 1) |-> g[k]]
        OBVIOUS
      <3> HIDE DEF g
      <3>2. QED
        BY <2>3, <3>1 DEF Carries, next
    <2>5. QED
      BY <2>4
  <1>3. T = Nat
    <2> HIDE DEF T
    <2>1. T \in SUBSET Nat
      BY DEF T
    <2>2. QED
      BY <1>1, <1>2, <2>1, ShownProofs!SetInduction
  <1>4. QED
    BY <1>3

\* A cell: what comes in is what stays and what goes on.
LEMMA Cell ==
  ASSUME NEW out, Digits(out), NEW byte \in Nat
  PROVE  /\ Carry(out, byte)[0] = byte /\ \A k \in 0..outputSize : Carry(out, byte)[k] \in Nat
         /\ \A k \in 1..outputSize :
              LET x == Carry(out, byte)[k - 1] + InBase * out[outputSize + 1 - k] IN
              /\ x \in Nat /\ Carry(out, byte)[k] = x \div OutBase
              /\ x % OutBase \in 0..(OutBase - 1)
              /\ x = OutBase * Carry(out, byte)[k] + (x % OutBase)
  <1> DEFINE S == outputSize  c == Carry(out, byte)
             x(k) == c[k - 1] + InBase * out[S + 1 - k]
  <1>0. S \in Nat /\ InBase \in Nat /\ OutBase \in Nat \ {0}
    BY SizesAre, ConversionAssumption
  <1>1. \A k \in 1..S : out[k] \in Nat
    <2>1. 0..(OutBase - 1) \subseteq Nat /\ Len(out) = S
      BY <1>0 DEF Digits
    <2>2. \A k \in 1..Len(out) : out[k] \in 0..(OutBase - 1)
      BY ElementOfSeq DEF Digits
    <2>3. QED
      BY <2>1, <2>2
  <1>2. Carries(c, out, byte, S)
    <2>1. \E f : Carries(f, out, byte, outputSize)
      BY <1>0, CarriesExist
    <2>2. Carries(Carry(out, byte), out, byte, outputSize)
      BY <2>1, Zenon DEF Carry, Carries
    <2>3. QED
      BY <2>2
  <1>3. \A k \in 0..S : c[k] = IF k = 0 THEN byte ELSE x(k) \div OutBase
    BY <1>2 DEF Carries
  <1> HIDE DEF S, c
  <1>4. c[0] = byte /\ \A k \in 1..S : c[k] = x(k) \div OutBase
    BY <1>0, <1>3
  <1>5. ASSUME NEW k \in 1..S, c[k - 1] \in Nat
        PROVE  /\ x(k) \in Nat /\ c[k] \in Nat /\ x(k) % OutBase \in 0..(OutBase - 1)
               /\ x(k) = OutBase * c[k] + (x(k) % OutBase)
    <2> DEFINE a == x(k)  b == OutBase
    <2>1. S + 1 - k \in 1..S
      BY <1>0
    <2>2. InBase * out[S + 1 - k] \in Nat
      BY <1>0, <1>1, <2>1, TimesNat
    <2>3. a \in Nat /\ b \in Nat \ {0} /\ c[k] = a \div b
      BY <1>0, <1>4, <1>5, <2>2
    <2> HIDE DEF a, b
    <2>4. a \div b \in Nat /\ a % b \in Nat /\ a % b < b /\ a = b * (a \div b) + (a % b)
      BY <2>3, Division
    <2>5. a % b \in 0..(b - 1)
      BY <2>3, <2>4
    <2>6. QED
      BY <2>3, <2>4, <2>5 DEF a, b
  <1> DEFINE T == {k \in Nat : k <= S => c[k] \in Nat}
  <1>6. T = Nat
    <2>1. 0 \in T
      BY <1>4
    <2>2. ASSUME NEW k \in T PROVE k + 1 \in T
      <3> SUFFICES ASSUME k + 1 <= S PROVE c[k + 1] \in Nat
        OBVIOUS
      <3>1. k + 1 \in 1..S /\ (k + 1) - 1 = k /\ c[k] \in Nat
        BY <1>0
      <3> HIDE DEF x
      <3>2. QED
        BY <1>5, <3>1
    <2>3. QED
      <3> HIDE DEF T
      <3>1. T \in SUBSET Nat
        BY DEF T
      <3>2. QED
        BY <2>1, <2>2, <3>1, ShownProofs!SetInduction
  <1>7. \A k \in 0..S : c[k] \in Nat
    BY <1>0, <1>6
  <1>8. \A k \in 1..S : /\ x(k) \in Nat /\ x(k) % OutBase \in 0..(OutBase - 1)
                        /\ x(k) = OutBase * c[k] + (x(k) % OutBase)
    <2> SUFFICES ASSUME NEW k \in 1..S
                 PROVE  /\ x(k) \in Nat /\ x(k) % OutBase \in 0..(OutBase - 1)
                        /\ x(k) = OutBase * c[k] + (x(k) % OutBase)
      OBVIOUS
    <2>1. k - 1 \in 0..S
      BY <1>0
    <2>2. c[k - 1] \in Nat
      BY <1>7, <2>1
    <2> HIDE DEF x
    <2>3. QED
      BY <1>5, <2>2
  <1>9. QED
    BY <1>4, <1>7, <1>8 DEF S, c

\* The digits left behind.
Raised(out, byte) ==
  [j \in 1..outputSize |-> (Carry(out, byte)[outputSize - j] + InBase * out[j]) % OutBase]

LEMMA Raising ==
  ASSUME NEW out, Digits(out), NEW byte \in Nat
  PROVE  /\ Digits(Raised(out, byte))
         /\ \E h : /\ Growing(h, Raised(out, byte)) /\ h[0] = Carry(out, byte)[outputSize]
                   /\ h[outputSize] = InBase * Shown(out) + byte
                   /\ \A m \in 0..outputSize : h[outputSize - m] >= Carry(out, byte)[m]
  <1> DEFINE S == outputSize  c == Carry(out, byte)  r == Raised(out, byte)
             B == InBase  O == OutBase
  <1>0. S \in Nat /\ B \in Nat /\ O \in Nat \ {0} /\ out \in Seq(Nat) /\ Len(out) = S
    <2>1. 0..(OutBase - 1) \subseteq Nat
      BY ConversionAssumption
    <2>2. out \in Seq(Nat) /\ Len(out) = S
      BY <2>1, SeqMonotonic DEF Digits
    <2>3. QED
      BY <2>2, SizesAre, ConversionAssumption
  <1>1. PICK f : ValuesOfDigits(f, out) /\ Shown(out) = f[Len(out)]
    BY <1>0, ValuesOfDigitsExist
  <1>2. /\ c[0] = byte /\ \A k \in 0..S : c[k] \in Nat
        /\ \A k \in 1..S :
             /\ c[k - 1] + B * out[S + 1 - k] \in Nat
             /\ (c[k - 1] + B * out[S + 1 - k]) % O \in 0..(O - 1)
             /\ c[k - 1] + B * out[S + 1 - k] = O * c[k] + ((c[k - 1] + B * out[S + 1 - k]) % O)
    BY Cell
  <1>3. r = [j \in 1..S |-> (c[S - j] + B * out[j]) % O]
    BY DEF Raised
  <1>4. \A k \in 1..S : out[k] \in Nat
    BY <1>0, ElementOfSeq
  <1>5. /\ f[0] = 0 /\ Shown(out) = f[S] /\ \A k \in 0..S : f[k] \in Nat
        /\ \A k \in 1..S : f[k] = f[k - 1] * O + out[k]
    BY <1>0, <1>1 DEF ValuesOfDigits, Growing
  <1> HIDE DEF S, c, r, B, O
  <1>6. \A j \in 1..S : /\ c[S - j] + B * out[j] = O * c[S + 1 - j] + r[j]
                        /\ r[j] \in 0..(O - 1)
    <2> SUFFICES ASSUME NEW j \in 1..S
                 PROVE  c[S - j] + B * out[j] = O * c[S + 1 - j] + r[j] /\ r[j] \in 0..(O - 1)
      OBVIOUS
    <2> DEFINE k == S + 1 - j
    <2>1. k \in 1..S /\ k - 1 = S - j /\ S + 1 - k = j
      BY <1>0
    <2>2. r[j] = (c[S - j] + B * out[j]) % O
      BY <1>3
    <2> HIDE DEF k
    <2>3. /\ (c[S - j] + B * out[j]) % O \in 0..(O - 1)
          /\ c[S - j] + B * out[j] = O * c[k] + ((c[S - j] + B * out[j]) % O)
      <3>1. /\ (c[k - 1] + B * out[S + 1 - k]) % O \in 0..(O - 1)
            /\ c[k - 1] + B * out[S + 1 - k] = O * c[k] + ((c[k - 1] + B * out[S + 1 - k]) % O)
        BY <1>2, <2>1
      <3>2. QED
        BY <2>1, <3>1, Zenon
    <2>4. QED
      BY <2>2, <2>3 DEF k
  <1>7. r \in Seq(0..(O - 1)) /\ Len(r) = S
    <2>1. r = [j \in 1..S |-> r[j]]
      BY <1>3
    <2>2. \A j \in 1..S : r[j] \in 0..(O - 1)
      BY <1>6
    <2>3. r \in [1..S -> 0..(O - 1)]
      BY <2>1, <2>2
    <2>4. QED
      BY <1>0, <2>3
  <1>8. Digits(r)
    BY <1>7 DEF Digits, O, S
  <1> DEFINE h == [j \in 0..S |-> B * f[j] + c[S - j]]
  <1>9. \A j \in 0..S : h[j] = B * f[j] + c[S - j] /\ h[j] \in Nat /\ h[j] >= c[S - j]
    <2> SUFFICES ASSUME NEW j \in 0..S PROVE h[j] = B * f[j] + c[S - j] /\ h[j] \in Nat /\ h[j] >= c[S - j]
      OBVIOUS
    <2>1. h[j] = B * f[j] + c[S - j]
      OBVIOUS
    <2> HIDE DEF h
    <2>2. S - j \in 0..S
      BY <1>0
    <2>3. c[S - j] \in Nat /\ B * f[j] \in Nat
      BY <1>0, <1>2, <1>5, <2>2, TimesNat
    <2>4. QED
      BY <2>1, <2>3
  <1> HIDE DEF h
  <1>10. \A j \in 1..S : h[j] = h[j - 1] * O + r[j]
    <2> SUFFICES ASSUME NEW j \in 1..S PROVE h[j] = h[j - 1] * O + r[j]
      OBVIOUS
    <2>1. j \in 0..S /\ j - 1 \in 0..S /\ S - (j - 1) = S + 1 - j /\ S - j \in 0..S /\ S + 1 - j \in 0..S
      BY <1>0
    <2> DEFINE g == f[j - 1]  d == out[j]  in == c[S - j]  on == c[S + 1 - j]  e == r[j]
    <2>2. h[j] = B * f[j] + in /\ h[j - 1] = B * g + on /\ f[j] = g * O + d /\ in + B * d = O * on + e
      BY <1>5, <1>6, <1>9, <2>1
    <2>3. g \in Nat /\ d \in Nat /\ in \in Nat /\ on \in Nat /\ e \in Nat /\ f[j] \in Nat
      <3>1. g \in Nat /\ f[j] \in Nat
        BY <1>5, <2>1
      <3>2. d \in Nat
        BY <1>4
      <3>3. in \in Nat /\ on \in Nat
        BY <1>2, <2>1
      <3>4. r[j] \in 0..(O - 1)
        BY <1>6
      <3>5. e \in Nat
        BY <1>0, <3>4
      <3>6. QED
        BY <3>1, <3>2, <3>3, <3>5
    <2> DEFINE x == h[j]  y == h[j - 1]
    <2>4. x = B * (g * O + d) + in /\ y = B * g + on
      BY <2>2
    <2> HIDE DEF g, d, in, on, e, x, y
    <2>5. x = (B * g) * O + (B * d + in)
      BY <1>0, <2>3, <2>4
    <2>6. y * O = (B * g) * O + O * on
      BY <1>0, <2>3, <2>4
    <2>7. in + B * d = O * on + e
      BY <2>2
    <2>8. x = y * O + e
      <3> DEFINE t == (B * g) * O  u == B * d  v == O * on  w == y * O
      <3>1. t \in Nat /\ u \in Nat /\ v \in Nat /\ y \in Nat
        <4>1. B * g \in Nat /\ u \in Nat /\ v \in Nat
          BY <1>0, <2>3, TimesNat
        <4>2. t \in Nat
          BY <1>0, <4>1, TimesNat
        <4>3. y \in Nat
          BY <2>3, <2>4, <4>1
        <4>4. QED
          BY <4>1, <4>2, <4>3
      <3>2. x = t + (u + in) /\ w = t + v /\ in + u = v + e
        BY <2>5, <2>6, <2>7
      <3> HIDE DEF t, u, v, w
      <3>3. x = w + e
        BY <2>3, <3>1, <3>2
      <3>4. QED
        BY <3>3 DEF w
    <2>9. QED
      BY <2>8 DEF x, y, e
  <1>11. Growing(h, r)
    BY <1>7, <1>9, <1>10 DEF Growing, O
  <1>12. h[0] = c[S] /\ h[S] = B * Shown(out) + byte
    <2>1. 0 \in 0..S /\ S \in 0..S /\ S - 0 = S /\ S - S = 0
      BY <1>0
    <2>2. h[0] = B * 0 + c[S] /\ h[S] = B * f[S] + c[0]
      BY <1>5, <1>9, <2>1
    <2>3. B * 0 + c[S] = c[S]
      BY <1>0, <1>2
    <2>4. QED
      BY <1>2, <1>5, <2>2, <2>3
  <1>13. \A m \in 0..S : h[S - m] >= c[m]
    <2> SUFFICES ASSUME NEW m \in 0..S PROVE h[S - m] >= c[m]
      OBVIOUS
    <2>1. S - m \in 0..S /\ S - (S - m) = m
      BY <1>0
    <2>2. QED
      BY <1>9, <2>1
  <1>14. QED
    BY <1>8, <1>11, <1>12, <1>13 DEF S, c, r, B

\* A number of so many digits carries nothing past them.
LEMMA NoCarry ==
  ASSUME NEW out, Digits(out), NEW byte \in Nat, NEW m \in 0..outputSize,
         InBase * Shown(out) + byte < Power(m)
  PROVE  Carry(out, byte)[m] = 0
  <1> DEFINE S == outputSize  c == Carry(out, byte)[m]  r == Raised(out, byte)
  <1>0. S \in Nat
    BY SizesAre
  <1>1. PICK h : /\ Growing(h, r) /\ h[S] = InBase * Shown(out) + byte /\ h[S - m] >= c
    BY Raising
  <1>2. c \in Nat /\ Digits(r)
    BY Cell, Raising
  <1>3. r \in Seq(Nat) /\ Len(r) = S
    <2>1. 0..(OutBase - 1) \subseteq Nat
      BY ConversionAssumption
    <2>2. QED
      BY <1>2, <2>1, SeqMonotonic DEF Digits
  <1> HIDE DEF S, c, r
  <1>4. SUFFICES ASSUME c # 0 PROVE FALSE
    BY DEF c
  <1>5. S - m \in 0..S /\ S - (S - m) = m /\ m \in Nat
    BY <1>0 DEF S
  <1>6. h[S - m] \in Nat /\ h[S] \in Nat
    BY <1>0, <1>1, <1>3, <1>5 DEF Growing
  <1>7. h[S - m] # 0
    BY <1>1, <1>2, <1>4, <1>6
  <1>8. h[S] >= Power(m)
    <2> DEFINE j == S - m
    <2>1. j \in 0..Len(r) /\ h[j] # 0 /\ Len(r) - j = m
      BY <1>3, <1>5, <1>7
    <2> HIDE DEF j
    <2>2. h[Len(r)] >= Power(Len(r) - j)
      BY <1>1, <1>3, <2>1, ValuesGrow
    <2>3. QED
      BY <1>3, <2>1, <2>2
  <1>9. Power(m) \in Nat
    BY <1>5, PowerIs
  <1>10. QED
    BY <1>1, <1>6, <1>8, <1>9

\* Without a carry at its end the number is multiplied, and the byte added.
LEMMA RaisedShows ==
  ASSUME NEW out, Digits(out), NEW byte \in Nat, Carry(out, byte)[outputSize] = 0
  PROVE  Digits(Raised(out, byte)) /\ Shown(Raised(out, byte)) = InBase * Shown(out) + byte
  <1> DEFINE r == Raised(out, byte)
  <1>1. Digits(r)
    BY Raising
  <1>2. PICK h : /\ Growing(h, r) /\ h[0] = 0 /\ h[outputSize] = InBase * Shown(out) + byte
    BY Raising
  <1> HIDE DEF r
  <1>3. r \in Seq(Nat) /\ Len(r) = outputSize
    <2>1. 0..(OutBase - 1) \subseteq Nat
      BY ConversionAssumption
    <2>2. QED
      BY <1>1, <2>1, SeqMonotonic DEF Digits
  <1>4. \A k \in 1..Len(r) : h[k] = ShownDigit(h[k - 1], r[k])
    <2> SUFFICES ASSUME NEW k \in 1..Len(r) PROVE h[k] = ShownDigit(h[k - 1], r[k])
      OBVIOUS
    <2>1. r[k] \in Nat /\ h[k] = h[k - 1] * OutBase + r[k]
      BY <1>2, <1>3, ElementOfSeq DEF Growing
    <2>2. r[k] >= 0
      BY <2>1
    <2>3. QED
      BY <2>1, <2>2, Zenon DEF ShownDigit
  <1>5. ShownProofs!After(r) = h[Len(r)]
    BY <1>2, <1>3, <1>4, ShownProofs!AfterIs
  <1>6. QED
    BY <1>1, <1>2, <1>3, <1>5, ShownIs DEF r

\* The number holds this value, in the digits from stopAt on.
Holds(number, v) ==
  /\ Digits(number.out) /\ Shown(number.out) = v /\ number.stopAt \in 1..outputSize
  /\ \A j \in 1..outputSize : j < number.stopAt => number.out[j] = 0

\* Past the digits in use there is nothing to carry.
LEMMA NothingCarried ==
  ASSUME NEW out, Digits(out), NEW byte \in Nat, NEW end \in 1..outputSize,
         Carry(out, byte)[outputSize + 1 - end] = 0, \A j \in 1..outputSize : j < end => out[j] = 0
  PROVE  \A j \in 1..end : Carry(out, byte)[outputSize + 1 - j] = 0
  <1> DEFINE S == outputSize  c == Carry(out, byte)  B == InBase  O == OutBase
             T == {i \in Nat : i < end => c[S + 1 - (end - i)] = 0}
  <1>0. S \in Nat /\ B \in Nat /\ O \in Nat \ {0}
    BY SizesAre, ConversionAssumption
  <1>1. /\ \A k \in 0..S : c[k] \in Nat
        /\ \A k \in 1..S : c[k] = (c[k - 1] + B * out[S + 1 - k]) \div O
    BY Cell
  <1>2. end \in 1..S /\ c[S + 1 - end] = 0 /\ \A j \in 1..S : j < end => out[j] = 0
    OBVIOUS
  <1> HIDE DEF S, c, B, O
  <1>3. T = Nat
    <2>1. 0 \in T
      <3>1. S + 1 - (end - 0) = S + 1 - end
        BY <1>0, <1>2
      <3>2. QED
        BY <1>2, <3>1
    <2>2. ASSUME NEW i \in T PROVE i + 1 \in T
      <3> SUFFICES ASSUME i + 1 < end PROVE c[S + 1 - (end - (i + 1))] = 0
        OBVIOUS
      <3> DEFINE k == S + 1 - (end - (i + 1))  j == end - (i + 1)
      <3>1. /\ i \in Nat /\ i < end /\ k - 1 = S + 1 - (end - i) /\ k \in 1..S
            /\ S + 1 - k = j /\ j \in 1..S /\ j < end
        BY <1>0, <1>2
      <3>2. c[k - 1] = 0 /\ out[S + 1 - k] = 0
        BY <1>2, <3>1
      <3> HIDE DEF k, j
      <3>3. c[k] = (0 + B * 0) \div O
        BY <1>1, <3>1, <3>2
      <3>4. (0 + B * 0) \div O = 0
        <4>1. 0 + B * 0 = 0 /\ 0 = O * 0 + 0 /\ 0 \in 0..(O - 1)
          BY <1>0
        <4>2. QED
          BY <1>0, <4>1, DivisionIs
      <3>5. QED
        BY <3>3, <3>4 DEF k
    <2>3. QED
      <3> HIDE DEF T
      <3>1. T \in SUBSET Nat
        BY DEF T
      <3>2. QED
        BY <2>1, <2>2, <3>1, ShownProofs!SetInduction
  <1>4. ASSUME NEW j \in 1..end PROVE c[S + 1 - j] = 0
    <2>1. end - j \in Nat /\ end - j < end /\ end - (end - j) = j
      BY <1>2
    <2>2. QED
      BY <1>3, <2>1
  <1>5. QED
    BY <1>4 DEF S, c

LEMMA AddByteIs ==
  ASSUME NEW number, NEW v, Holds(number, v), NEW byte \in Nat, NEW e \in 1..outputSize,
         e <= number.stopAt - 1, InBase * v + byte < Power(outputSize + 1 - e)
  PROVE  /\ Holds(AddByte(number, byte), InBase * v + byte)
         /\ AddByte(number, byte).stopAt >= e
  <1> DEFINE S == outputSize  out == number.out  stopAt == number.stopAt
             c == Carry(out, byte)  r == Raised(out, byte)
             ends == {j \in 1..S : j <= stopAt - 1 /\ c[S + 1 - j] = 0}
             end == Max(ends)
  <1>0. S \in Nat /\ InBase \in Nat /\ OutBase \in Nat \ {0} /\ e \in 1..S
    BY SizesAre, ConversionAssumption
  <1>1. /\ Digits(out) /\ Shown(out) = v /\ stopAt \in 1..S
        /\ \A j \in 1..S : j < stopAt => out[j] = 0
    BY DEF Holds
  <1>2. e \in ends
    <2> DEFINE m == S + 1 - e
    <2>1. m \in 0..S /\ S + 1 - e = m
      BY <1>0
    <2>2. InBase * Shown(out) + byte < Power(m)
      BY <1>1
    <2> HIDE DEF m
    <2>3. Carry(out, byte)[m] = 0
      BY <1>1, <2>1, <2>2, NoCarry
    <2>4. c[S + 1 - e] = 0
      BY <2>1, <2>3
    <2>5. QED
      BY <2>4
  <1>3. end \in 1..S /\ end <= stopAt - 1 /\ c[S + 1 - end] = 0 /\ e <= end
    <2>1. ends \in SUBSET (1..S) /\ ends # {}
      BY <1>2
    <2>2. \A j \in ends : j \in 1..S /\ j <= stopAt - 1 /\ c[S + 1 - j] = 0
      OBVIOUS
    <2> HIDE DEF ends
    <2>3. Max(ends) \in ends /\ \A k \in ends : k <= Max(ends)
      BY <1>0, <2>1, SmallestAndLargest
    <2>4. QED
      BY <1>2, <2>2, <2>3
  <1>4. AddByte(number, byte) =
          [out |-> [j \in 1..S |-> IF j < end THEN out[j] ELSE (c[S - j] + InBase * out[j]) % OutBase],
           stopAt |-> end]
    <2>1. ends # {}
      BY <1>2
    <2>2. QED
      BY <2>1, Zenon DEF AddByte
  <1> HIDE DEF S, out, stopAt, c, ends, end
  <1>5. \A j \in 1..S : j < end => out[j] = 0
    BY <1>1, <1>3
  <1>6. \A j \in 1..end : c[S + 1 - j] = 0
    BY <1>1, <1>3, <1>5, NothingCarried DEF S, c
  <1>7. \A j \in 1..S : j < end => r[j] = 0
    <2> SUFFICES ASSUME NEW j \in 1..S, j < end PROVE r[j] = 0
      OBVIOUS
    <2>1. j + 1 \in 1..end /\ S + 1 - (j + 1) = S - j
      BY <1>0, <1>3
    <2>2. c[S - j] = 0 /\ out[j] = 0
      BY <1>5, <1>6, <2>1
    <2>3. r[j] = (0 + InBase * 0) % OutBase
      BY <2>2 DEF Raised, S, c
    <2>4. 0 + InBase * 0 = 0 /\ 0 = OutBase * 0 + 0 /\ 0 \in 0..(OutBase - 1)
      BY <1>0
    <2>5. QED
      BY <1>0, <2>3, <2>4, DivisionIs
  <1>8. \A j \in 1..S : r[j] = (c[S - j] + InBase * out[j]) % OutBase
    BY DEF Raised, S, c
  <1>9. r = [j \in 1..S |-> r[j]]
    BY DEF Raised, S
  <1>10. [j \in 1..S |-> IF j < end THEN out[j] ELSE (c[S - j] + InBase * out[j]) % OutBase] = r
    <2>1. \A j \in 1..S : (IF j < end THEN out[j] ELSE (c[S - j] + InBase * out[j]) % OutBase) = r[j]
      BY <1>5, <1>7, <1>8
    <2> HIDE DEF r
    <2>2. QED
      BY <1>9, <2>1
  <1> HIDE DEF r
  <1>11. AddByte(number, byte).out = r /\ AddByte(number, byte).stopAt = end
    BY <1>4, <1>10
  <1>12. c[S] = 0
    <2>1. 1 \in 1..end /\ S + 1 - 1 = S
      BY <1>0, <1>3
    <2>2. QED
      BY <1>6, <2>1
  <1>13. Digits(r) /\ Shown(r) = InBase * v + byte
    BY <1>1, <1>12, RaisedShows DEF S, c, r
  <1>14. end \in 1..S /\ end >= e
    BY <1>0, <1>3
  <1>15. QED
    BY <1>7, <1>11, <1>13, <1>14 DEF Holds, S
-----------------------------------------------------------------------------
(***************************************************************************)
(* The bytes of an address, one after the other.                           *)
(***************************************************************************)
ConvertedProofs == INSTANCE ReadingProofs WITH Nothing <- NoDigits, Read <- AddByte

ValuesOfBytes(g, s) ==
  /\ g[0] = 0 /\ \A k \in 0..Len(s) : g[k] \in Nat
  /\ \A k \in 1..Len(s) : g[k] = g[k - 1] * InBase + s[k]

LEMMA ValuesOfBytesExist ==
  ASSUME NEW s \in Seq(Nat)
  PROVE  \E g : ValuesOfBytes(g, s) /\ Given(s) = g[Len(s)]
  <1> DEFINE n == Len(s)
  <1>1. n \in Nat /\ \A k \in 1..n : s[k] \in Nat
    BY LenProperties, ElementOfSeq
  <1>2. PICK g : /\ g[0] = 0 /\ \A k \in 1..Len(s) : g[k] = GivenByte(g[k - 1], s[k])
                 /\ GivenProofs!After(s) = g[Len(s)]
    BY GivenProofs!ReadingsAre
  <1> HIDE DEF n
  <1>3. \A k \in 1..n : g[k] = g[k - 1] * InBase + s[k]
    BY <1>1, <1>2 DEF GivenByte, n
  <1> DEFINE T == {k \in Nat : k <= n => g[k] \in Nat}
  <1>4. T = Nat
    <2>1. 0 \in T
      BY <1>2
    <2>2. ASSUME NEW k \in T PROVE k + 1 \in T
      <3> SUFFICES ASSUME k + 1 <= n PROVE g[k + 1] \in Nat
        OBVIOUS
      <3>1. k + 1 \in 1..n /\ (k + 1) - 1 = k /\ g[k] \in Nat
        BY <1>1
      <3>2. g[k + 1] = g[k] * InBase + s[k + 1] /\ s[k + 1] \in Nat
        BY <1>1, <1>3, <3>1
      <3>3. g[k] * InBase \in Nat
        BY <3>1, TimesNat, ConversionAssumption
      <3>4. QED
        BY <3>2, <3>3
    <2>3. QED
      <3> HIDE DEF T
      <3>1. T \in SUBSET Nat
        BY DEF T
      <3>2. QED
        BY <2>1, <2>2, <3>1, ShownProofs!SetInduction
  <1>5. \A k \in 0..n : g[k] \in Nat
    BY <1>1, <1>4
  <1>6. Given(s) = g[n]
    BY <1>2, GivenIs DEF n
  <1>7. QED
    BY <1>2, <1>3, <1>5, <1>6 DEF ValuesOfBytes, n

\* Byte by byte, what is less stays less.
LEMMA FewerBytes ==
  ASSUME NEW s \in Seq(0..(InBase - 1)), NEW t \in Seq(Nat),
         NEW g, ValuesOfBytes(g, s), NEW h, ValuesOfBytes(h, t), NEW n \in Nat, Len(s) = n, Len(t) = n,
         NEW d \in {0, 1}, 1 <= n, g[1] + d <= h[1],
         \A k \in 2..n : d = 0 => s[k] <= t[k]
  PROVE  g[n] + d <= h[n]
  <1> DEFINE B == InBase
             T == {k \in Nat : k + 1 <= n => g[k + 1] + d <= h[k + 1]}
  <1>1. B \in Nat /\ (\A k \in 1..n : s[k] \in 0..(B - 1) /\ t[k] \in Nat)
    BY ElementOfSeq, ConversionAssumption
  <1>2. /\ \A k \in 0..n : g[k] \in Nat /\ h[k] \in Nat
        /\ \A k \in 1..n : g[k] = g[k - 1] * B + s[k] /\ h[k] = h[k - 1] * B + t[k]
    BY DEF ValuesOfBytes
  <1> HIDE DEF B
  <1>3. T = Nat
    <2>1. 0 \in T
      BY <1>1
    <2>2. ASSUME NEW k \in T PROVE k + 1 \in T
      <3> SUFFICES ASSUME (k + 1) + 1 <= n PROVE g[(k + 1) + 1] + d <= h[(k + 1) + 1]
        OBVIOUS
      <3> DEFINE i == (k + 1) + 1  j == k + 1  a == g[j]  b == h[j]
      <3>1. i \in 1..n /\ i \in 2..n /\ i - 1 = j /\ j \in 0..n /\ j <= n /\ k \in Nat
        OBVIOUS
      <3>2. g[i] = a * B + s[i] /\ h[i] = b * B + t[i]
        BY <1>2, <3>1
      <3>3. a \in Nat /\ b \in Nat /\ a + d <= b /\ s[i] \in 0..(B - 1) /\ t[i] \in Nat
        BY <1>1, <1>2, <3>1
      <3>4. (d = 0 /\ s[i] <= t[i]) \/ d = 1
        BY <3>1
      <3> HIDE DEF i, j, a, b
      <3>5. (a + d) * B <= b * B /\ a * B \in Nat /\ b * B \in Nat
        BY <1>1, <3>3, TimesMore, TimesNat
      <3>6. g[i] + d <= h[i]
        <4> DEFINE x == a * B  y == b * B  z == (a + d) * B
        <4>1. z = x + d * B /\ z <= y /\ x \in Nat /\ y \in Nat /\ g[i] = x + s[i] /\ h[i] = y + t[i]
          BY <1>1, <3>2, <3>3, <3>5
        <4> HIDE DEF x, y, z
        <4>2. CASE d = 0 /\ s[i] <= t[i]
          BY <1>1, <3>3, <4>1, <4>2, SMTT(40)
        <4>3. CASE d = 1
          BY <1>1, <3>3, <4>1, <4>3, SMTT(40)
        <4>4. QED
          BY <3>4, <4>2, <4>3
      <3>7. QED
        BY <3>6 DEF i
    <2>3. QED
      <3> HIDE DEF T
      <3>1. T \in SUBSET Nat
        BY DEF T
      <3>2. QED
        BY <2>1, <2>2, <3>1, ShownProofs!SetInduction
  <1>4. n - 1 \in Nat /\ (n - 1) + 1 = n
    OBVIOUS
  <1>5. n - 1 \in T
    BY <1>3, <1>4
  <1>6. QED
    BY <1>4, <1>5

LEMMA WithZeroesIs ==
  ASSUME NEW c \in Nat, NEW n \in Nat
  PROVE  /\ WithZeroes(c, n) \in Seq(Nat) /\ Len(WithZeroes(c, n)) = n + 1
         /\ WithZeroes(c, n)[1] = c /\ \A k \in 2..(n + 1) : WithZeroes(c, n)[k] = 0
  <1> DEFINE e == <<c>>  z == Repeat(0, n)
  <1>1. e \in Seq(Nat) /\ Len(e) = 1 /\ e[1] = c
    OBVIOUS
  <1>2. z \in Seq(Nat) /\ Len(z) = n /\ \A k \in 1..n : z[k] = 0
    BY ZeroesType
  <1> HIDE DEF e, z
  <1>3. /\ e \o z \in Seq(Nat) /\ Len(e \o z) = Len(e) + Len(z)
        /\ \A k \in 1..(Len(e) + Len(z)) : (e \o z)[k] = IF k <= Len(e) THEN e[k] ELSE z[k - Len(e)]
    BY <1>1, <1>2, ConcatProperties
  <1>4. Len(e) + Len(z) = n + 1 /\ 1 \in 1..(n + 1)
    BY <1>1, <1>2
  <1>5. (e \o z)[1] = c
    BY <1>1, <1>3, <1>4
  <1>6. ASSUME NEW k \in 2..(n + 1) PROVE (e \o z)[k] = 0
    <2>1. k \in 1..(n + 1) /\ ~(k <= 1) /\ k - 1 \in 1..n
      OBVIOUS
    <2>2. QED
      BY <1>1, <1>2, <1>3, <1>4, <2>1
  <1>7. QED
    BY <1>3, <1>4, <1>5, <1>6 DEF WithZeroes, e, z

LEMMA DigitsOfAddress ==
  /\ addressDigits \in Nat /\ addressDigits > AddressBytes /\ addressDigits <= outputSize
  /\ addressDigits + spaces = AddressEnd /\ outputSize - addressDigits >= spaces
  /\ AddressBytes \in Nat \ {0} /\ OutBase <= InBase /\ 1 <= InBase - 1
  /\ Power(addressDigits - 1) <= Given(WithZeroes(1, AddressBytes - 1))
  /\ Given(WithZeroes(2, AddressBytes - 1)) <= Power(addressDigits)
  <1>1. AddressBytes \in Nat \ {0} /\ InBase \in Nat \ {0, 1} /\ AddressEnd \in Int
    BY ConversionAssumption, AddressAssumption
  <1>2. spaces \in Nat /\ digitCount \in Nat /\ outputSize = digitCount + spaces
    BY SizesAre
  <1>3. AddressBytes < addressDigits /\ addressDigits <= digitCount /\ OutBase <= InBase
    BY AddressAssumption
  <1>4. addressDigits = AddressEnd - spaces
    BY DEF addressDigits
  <1>5. /\ Power(addressDigits - 1) <= Given(WithZeroes(1, AddressBytes - 1))
        /\ Given(WithZeroes(2, AddressBytes - 1)) <= Power(addressDigits)
    BY AddressAssumption, Zenon DEF Power, Given, Shown, WithZeroes
  <1> HIDE DEF addressDigits
  <1>6. QED
    BY <1>1, <1>2, <1>3, <1>4, <1>5

\* What goes in is the version, and the address behind it.
LEMMA VersionAhead ==
  ASSUME NEW a \in Addresses
  PROVE  /\ <<1>> \o a \in Seq(0..(InBase - 1)) /\ Len(<<1>> \o a) = AddressBytes
         /\ (<<1>> \o a)[1] = 1
  <1> DEFINE e == <<1>>  S == 0..(InBase - 1)  n == AddressBytes
  <1>1. e \in Seq(S) /\ Len(e) = 1 /\ e[1] = 1
    <2>1. 1 \in S
      BY ConversionAssumption
    <2>2. QED
      BY <2>1
  <1>2. a \in Seq(S) /\ Len(a) = n - 1 /\ n \in Nat \ {0}
    BY AddressAssumption, ConversionAssumption
  <1> HIDE DEF e, S, n
  <1>3. /\ e \o a \in Seq(S) /\ Len(e \o a) = Len(e) + Len(a)
        /\ \A k \in 1..(Len(e) + Len(a)) : (e \o a)[k] = IF k <= Len(e) THEN e[k] ELSE a[k - Len(e)]
    BY <1>1, <1>2, ConcatProperties
  <1>4. Len(e) + Len(a) = n
    BY <1>1, <1>2
  <1>5. (e \o a)[1] = e[1]
    BY <1>1, <1>2, <1>3, <1>4
  <1>6. QED
    BY <1>1, <1>3, <1>4, <1>5 DEF e, S, n

LEMMA AddressBetween ==
  ASSUME NEW a \in Addresses
  PROVE  /\ Power(addressDigits - 1) <= Given(<<1>> \o a)
         /\ Given(<<1>> \o a) < Power(addressDigits)
  <1> DEFINE s == <<1>> \o a  n == AddressBytes  B == InBase
             one == WithZeroes(1, n - 1)  two == WithZeroes(2, n - 1)
  <1>1. n \in Nat /\ 1 <= n /\ n - 1 \in Nat /\ (n - 1) + 1 = n /\ B \in Nat /\ 1 <= B - 1
    BY DigitsOfAddress, ConversionAssumption
  <1>2. s \in Seq(0..(B - 1)) /\ Len(s) = n /\ s[1] = 1
    BY VersionAhead
  <1>3. /\ one \in Seq(Nat) /\ Len(one) = n /\ one[1] = 1 /\ \A k \in 2..n : one[k] = 0
        /\ two \in Seq(Nat) /\ Len(two) = n /\ two[1] = 2 /\ \A k \in 2..n : two[k] = 0
    BY <1>1, WithZeroesIs
  <1> HIDE DEF s, n, B, one, two
  <1>4. s \in Seq(Nat) /\ \A k \in 1..n : s[k] \in 0..(B - 1)
    <2>1. 0..(B - 1) \subseteq Nat
      BY <1>1
    <2>2. s \in Seq(Nat)
      BY <1>2, <2>1, SeqMonotonic
    <2>3. QED
      BY <1>2, <2>2, ElementOfSeq
  <1>5. one \in Seq(0..(B - 1))
    <2>1. \A k \in 1..n : one[k] \in 0..(B - 1)
      BY <1>1, <1>3
    <2>2. one \in [1..n -> 0..(B - 1)]
      BY <1>3, <2>1
    <2>3. QED
      BY <1>1, <2>2
  <1>6. PICK g : ValuesOfBytes(g, s) /\ Given(s) = g[n]
    BY <1>2, <1>4, ValuesOfBytesExist
  <1>7. PICK f : ValuesOfBytes(f, one) /\ Given(one) = f[n]
    BY <1>3, ValuesOfBytesExist
  <1>8. PICK h : ValuesOfBytes(h, two) /\ Given(two) = h[n]
    BY <1>3, ValuesOfBytesExist
  <1>9. g[1] = 1 /\ f[1] = 1 /\ h[1] = 2
    <2>1. 1 \in 1..n /\ 1 - 1 = 0 /\ 0 * B = 0
      BY <1>1
    <2>2. g[1] = g[0] * B + s[1] /\ g[0] = 0
      BY <1>2, <1>6, <2>1 DEF ValuesOfBytes, B
    <2>3. f[1] = f[0] * B + one[1] /\ f[0] = 0
      BY <1>3, <1>7, <2>1 DEF ValuesOfBytes, B
    <2>4. h[1] = h[0] * B + two[1] /\ h[0] = 0
      BY <1>3, <1>8, <2>1 DEF ValuesOfBytes, B
    <2>5. QED
      BY <1>2, <1>3, <2>1, <2>2, <2>3, <2>4
  <1>10. f[n] <= g[n]
    <2> DEFINE d == 0
    <2>1. d \in {0, 1} /\ f[1] + d <= g[1] /\ \A k \in 2..n : d = 0 => one[k] <= s[k]
      <3>1. \A k \in 2..n : one[k] = 0 /\ s[k] \in 0..(B - 1)
        BY <1>3, <1>4
      <3>2. QED
        BY <1>9, <3>1
    <2> HIDE DEF d
    <2>2. f[n] + d <= g[n]
      BY <1>1, <1>2, <1>3, <1>4, <1>5, <1>6, <1>7, <2>1, FewerBytes, SMTT(40) DEF B
    <2>3. f[n] \in Nat
      BY <1>1, <1>3, <1>7 DEF ValuesOfBytes
    <2>4. QED
      BY <2>2, <2>3 DEF d
  <1>11. g[n] + 1 <= h[n]
    <2> DEFINE d == 1
    <2>1. d \in {0, 1} /\ g[1] + d <= h[1] /\ \A k \in 2..n : d = 0 => s[k] <= two[k]
      BY <1>9
    <2> HIDE DEF d
    <2>2. g[n] + d <= h[n]
      BY <1>1, <1>2, <1>3, <1>6, <1>8, <2>1, FewerBytes, SMTT(40) DEF B
    <2>3. QED
      BY <2>2 DEF d
  <1>12. g[n] \in Nat /\ f[n] \in Nat /\ h[n] \in Nat
    BY <1>1, <1>2, <1>3, <1>6, <1>7, <1>8 DEF ValuesOfBytes
  <1>13. Power(addressDigits - 1) <= f[n] /\ h[n] <= Power(addressDigits)
    BY <1>7, <1>8, DigitsOfAddress DEF one, two, n
  <1>14. Power(addressDigits - 1) \in Nat /\ Power(addressDigits) \in Nat
    <2>1. addressDigits \in Nat /\ addressDigits - 1 \in Nat
      BY DigitsOfAddress
    <2>2. QED
      BY <2>1, PowerIs
  <1>15. QED
    BY <1>6, <1>10, <1>11, <1>12, <1>13, <1>14 DEF s

LEMMA NoDigitsHold == Holds(NoDigits, 0) /\ NoDigits.stopAt = outputSize
  <1> DEFINE z == Repeat(0, outputSize)  h == [k \in 0..outputSize |-> 0]
  <1>1. outputSize \in Nat \ {0} /\ OutBase \in Nat \ {0}
    BY DigitsOfAddress, SizesAre, ConversionAssumption
  <1>2. z \in Seq(Nat) /\ Len(z) = outputSize /\ \A k \in 1..outputSize : z[k] = 0
    BY <1>1, ZeroesType
  <1>3. z \in Seq(0..(OutBase - 1))
    <2>1. \A k \in 1..outputSize : z[k] \in 0..(OutBase - 1)
      BY <1>1, <1>2
    <2>2. z \in [1..outputSize -> 0..(OutBase - 1)]
      BY <2>1 DEF Repeat
    <2>3. QED
      BY <1>1, <2>2
  <1>4. \A k \in 1..Len(z) : h[k] = ShownDigit(h[k - 1], z[k])
    <2> SUFFICES ASSUME NEW k \in 1..Len(z) PROVE h[k] = ShownDigit(h[k - 1], z[k])
      OBVIOUS
    <2>1. k \in 1..outputSize
      BY <1>2
    <2>2. k \in 0..outputSize /\ k - 1 \in 0..outputSize
      BY <1>1, <2>1
    <2>3. h[k] = 0 /\ h[k - 1] = 0
      BY <2>2
    <2>4. z[k] = 0
      BY <1>2, <2>1
    <2>5. ShownDigit(0, 0) = 0
      BY <1>1 DEF ShownDigit
    <2>6. QED
      BY <2>3, <2>4, <2>5
  <1>5. Shown(z) = 0
    <2>1. h[0] = 0 /\ h[Len(z)] = 0
      BY <1>1, <1>2
    <2> HIDE DEF z, h
    <2>2. ShownProofs!After(z) = h[Len(z)]
      BY <1>2, <1>4, <2>1, ShownProofs!AfterIs
    <2>3. QED
      BY <2>1, <2>2, ShownIs
  <1>6. NoDigits.out = z /\ NoDigits.stopAt = outputSize
    BY DEF NoDigits
  <1> HIDE DEF z
  <1>7. QED
    BY <1>1, <1>2, <1>3, <1>5, <1>6 DEF Holds, Digits

\* The digits the address has, at the end of the cells, hold its value.
LEMMA ConvertedIs ==
  ASSUME NEW a \in Addresses
  PROVE  Holds(Converted!After(<<1>> \o a), Given(<<1>> \o a))
  <1> DEFINE s == <<1>> \o a  n == AddressBytes  B == InBase  O == OutBase
             D == addressDigits  S == outputSize
  <1>1. /\ n \in Nat /\ B \in Nat \ {0} /\ O \in Nat /\ D \in Nat /\ S \in Nat
        /\ n < D /\ D <= S /\ O <= B
    BY DigitsOfAddress, SizesAre, ConversionAssumption
  <1>2. s \in Seq(0..(B - 1)) /\ Len(s) = n
    BY VersionAhead
  <1>3. Given(s) < Power(D)
    BY AddressBetween
  <1>p. \A k \in Nat : Power(k) \in Nat /\ Power(k + 1) = Power(k) * O
    BY PowerIs
  <1> HIDE DEF s, n, B, O, D, S
  <1>4. s \in Seq(Nat) /\ \A k \in 1..n : s[k] \in Nat
    <2>1. 0..(B - 1) \subseteq Nat
      BY <1>1
    <2>2. s \in Seq(Nat)
      BY <1>2, <2>1, SeqMonotonic
    <2>3. QED
      BY <1>2, <2>2, ElementOfSeq
  <1>5. PICK g : ValuesOfBytes(g, s) /\ Given(s) = g[n]
    BY <1>2, <1>4, ValuesOfBytesExist
  <1>6. /\ g[0] = 0 /\ \A k \in 0..n : g[k] \in Nat
        /\ \A k \in 1..n : g[k] = g[k - 1] * B + s[k]
    BY <1>2, <1>5 DEF ValuesOfBytes, B
  \* A byte fewer, a digit fewer at least.
  <1>7. \A i \in 0..n : g[n - i] < Power(D - i)
    <2> DEFINE T == {i \in Nat : i <= n => g[n - i] < Power(D - i)}
    <2>1. 0 \in T
      <3>1. n - 0 = n /\ D - 0 = D
        BY <1>1
      <3>2. g[n - 0] < Power(D - 0)
        BY <1>3, <1>5, <3>1
      <3>3. QED
        BY <3>2
    <2>2. ASSUME NEW i \in T PROVE i + 1 \in T
      <3> SUFFICES ASSUME i + 1 <= n PROVE g[n - (i + 1)] < Power(D - (i + 1))
        OBVIOUS
      <3> DEFINE k == n - i  j == n - (i + 1)  m == D - (i + 1)
                 p == Power(m)  x == g[j]
      <3>1. k \in 1..n /\ k \in 0..n /\ k - 1 = j /\ j \in 0..n /\ m \in Nat /\ m + 1 = D - i /\ i \in Nat /\ i <= n
        BY <1>1
      <3>2. g[k] < Power(m + 1)
        BY <3>1
      <3>3. g[k] = x * B + s[k] /\ s[k] \in Nat /\ x \in Nat /\ g[k] \in Nat
        BY <1>4, <1>6, <3>1
      <3>4. Power(m + 1) = p * O /\ p \in Nat
        BY <1>p, <3>1
      <3> HIDE DEF k, j, m, p, x
      <3>5. p * O <= p * B /\ p * O \in Nat /\ p * B \in Nat /\ x * B \in Nat
        <4>1. O \in Nat /\ B \in Nat /\ O <= B
          BY <1>1
        <4>2. QED
          BY <3>3, <3>4, <4>1, TimesMore, TimesNat
      <3>6. x * B < p * B
        <4> DEFINE u == x * B  v == p * B  w == p * O  y == g[k]
        <4>1. y < w /\ y = u + s[k] /\ s[k] \in Nat /\ w <= v /\ u \in Nat /\ v \in Nat /\ w \in Nat /\ y \in Nat
          BY <3>2, <3>3, <3>4, <3>5
        <4> HIDE DEF u, v, w, y
        <4>2. u < v
          BY <4>1
        <4>3. QED
          BY <4>2 DEF u, v
      <3>7. x < p
        BY <1>1, <3>3, <3>4, <3>6, TimesMore
      <3>8. QED
        BY <3>7 DEF x, p, j, m
    <2>3. T = Nat
      <3> HIDE DEF T
      <3>1. T \in SUBSET Nat
        BY DEF T
      <3>2. QED
        BY <2>1, <2>2, <3>1, ShownProofs!SetInduction
    <2>4. ASSUME NEW i \in 0..n PROVE g[n - i] < Power(D - i)
      <3>1. i \in Nat /\ i <= n
        BY <1>1
      <3>2. i \in T
        BY <2>3, <3>1
      <3>3. QED
        BY <3>1, <3>2
    <2>5. QED
      BY <2>4
  <1>8. PICK f : /\ f[0] = NoDigits /\ \A k \in 1..Len(s) : f[k] = AddByte(f[k - 1], s[k])
                 /\ ConvertedProofs!After(s) = f[Len(s)]
    BY <1>4, ConvertedProofs!ReadingsAre
  <1>9. /\ f[0] = NoDigits /\ \A k \in 1..n : f[k] = AddByte(f[k - 1], s[k])
        /\ Converted!After(s) = f[n]
    <2>1. Converted!After(s) = ConvertedProofs!After(s)
      BY DEF Converted!After, Converted!Readings, ConvertedProofs!After, ConvertedProofs!Readings
    <2>2. QED
      BY <1>2, <1>8, <2>1
  <1> DEFINE room(k) == S + 1 - D + n - k
             T == {k \in Nat : k <= n => Holds(f[k], g[k]) /\ f[k].stopAt >= room(k)}
  <1>10. T = Nat
    <2>1. 0 \in T
      <3>1. Holds(f[0], g[0]) /\ f[0].stopAt = S
        BY <1>6, <1>9, NoDigitsHold DEF S
      <3>2. S >= room(0)
        BY <1>1
      <3>3. QED
        BY <3>1, <3>2
    <2>2. ASSUME NEW k \in T PROVE k + 1 \in T
      <3> SUFFICES ASSUME k + 1 <= n
                   PROVE  Holds(f[k + 1], g[k + 1]) /\ f[k + 1].stopAt >= room(k + 1)
        OBVIOUS
      <3> DEFINE j == k + 1  e == room(k + 1)  number == f[k]  v == g[k]  byte == s[j]  i == n - j
      <3>1. /\ j \in 1..n /\ j \in 0..n /\ j - 1 = k /\ k \in 0..n /\ k <= n /\ i \in 0..n /\ n - i = j
            /\ S + 1 - e = D - i /\ e \in 1..S /\ e = room(k) - 1
        BY <1>1
      <3>2. Holds(number, v) /\ number.stopAt >= room(k)
        BY <3>1
      <3>3. f[j] = AddByte(number, byte) /\ g[j] = v * B + byte /\ byte \in Nat /\ v \in Nat
        BY <1>4, <1>6, <1>9, <3>1
      <3>4. g[j] < Power(S + 1 - e)
        BY <1>7, <3>1
      <3>5. number.stopAt \in 1..S
        BY <3>2 DEF Holds, S
      <3>6. room(k) \in Int
        BY <1>1, <3>1
      <3>7. e <= number.stopAt - 1
        <4> DEFINE x == number.stopAt  y == room(k)
        <4>1. x \in Int /\ y \in Int /\ x >= y /\ e = y - 1
          BY <1>1, <3>1, <3>2, <3>5, <3>6
        <4> HIDE DEF x, y, e
        <4>2. e <= x - 1
          BY <4>1
        <4>3. QED
          BY <4>2 DEF x
      <3> HIDE DEF j, e, number, v, byte, i, room
      <3>8. B * v + byte = g[j]
        <4>1. B * v = v * B
          BY <1>1, <3>3
        <4>2. QED
          BY <3>3, <4>1
      <3>9. Holds(AddByte(number, byte), B * v + byte) /\ AddByte(number, byte).stopAt >= e
        BY <3>1, <3>2, <3>3, <3>4, <3>7, <3>8, AddByteIs DEF S, B
      <3>10. Holds(f[j], g[j]) /\ f[j].stopAt >= e
        BY <3>3, <3>8, <3>9
      <3>11. QED
        BY <3>10 DEF j, e
    <2>3. QED
      <3> HIDE DEF T
      <3>1. T \in SUBSET Nat
        BY DEF T
      <3>2. QED
        BY <2>1, <2>2, <3>1, ShownProofs!SetInduction
  <1>11. Holds(f[n], g[n])
    BY <1>1, <1>10
  <1>12. QED
    BY <1>5, <1>9, <1>11 DEF s
-----------------------------------------------------------------------------
(***************************************************************************)
(* The text of an address.                                                 *)
(***************************************************************************)
\* Ahead of its digits all cells are empty.
LEMMA EmptyAhead ==
  ASSUME NEW out, Digits(out), NEW f, ValuesOfDigits(f, out), NEW D \in 1..outputSize,
         Power(D - 1) <= f[outputSize], f[outputSize] < Power(D)
  PROVE  /\ \A j \in 0..(outputSize - D) : f[j] = 0
         /\ Min(Nonzero(out)) = outputSize - D + 1
  <1> DEFINE S == outputSize  e == S - D + 1
  <1>1. S \in Nat /\ D \in 1..S /\ OutBase \in Nat \ {0} /\ Len(out) = S /\ out \in Seq(0..(OutBase - 1))
    BY SizesAre, ConversionAssumption DEF Digits
  <1>2. out \in Seq(Nat) /\ \A k \in 1..S : out[k] \in Nat
    <2>1. 0..(OutBase - 1) \subseteq Nat
      BY <1>1
    <2>2. out \in Seq(Nat)
      BY <1>1, <2>1, SeqMonotonic
    <2>3. QED
      BY <1>1, <2>2, ElementOfSeq
  <1>3. /\ f[0] = 0 /\ Growing(f, out) /\ \A k \in 0..S : f[k] \in Nat
        /\ \A k \in 1..S : f[k] = f[k - 1] * OutBase + out[k]
    BY <1>1 DEF ValuesOfDigits, Growing
  <1>p. Power(D) \in Nat /\ Power(D - 1) \in Nat
    <2>1. D \in Nat /\ D - 1 \in Nat
      BY <1>1
    <2>2. QED
      BY <2>1, PowerIs
  <1>q. Power(D - 1) <= f[S] /\ f[S] < Power(D)
    OBVIOUS
  <1> HIDE DEF S
  <1>4. f[S - D] = 0
    <2> DEFINE j == S - D
    <2>1. j \in 0..Len(out) /\ Len(out) - j = D
      BY <1>1
    <2> HIDE DEF j
    <2>2. f[j] # 0 => f[Len(out)] >= Power(Len(out) - j)
      BY <1>2, <1>3, <2>1, ValuesGrow
    <2>3. f[S] \in Nat
      BY <1>1, <1>3
    <2>4. f[j] = 0
      BY <1>1, <1>p, <1>q, <2>1, <2>2, <2>3
    <2>5. QED
      BY <2>4 DEF j
  <1>5. \A i \in 1..S : f[i] = 0 => f[i - 1] = 0 /\ out[i] = 0
    <2> SUFFICES ASSUME NEW i \in 1..S, f[i] = 0 PROVE f[i - 1] = 0 /\ out[i] = 0
      OBVIOUS
    <2> DEFINE a == f[i - 1]  b == OutBase
    <2>1. f[i] = a * b + out[i] /\ out[i] \in Nat
      BY <1>2, <1>3
    <2>2. a \in Nat /\ b \in Nat \ {0}
      <3>1. i - 1 \in 0..S
        BY <1>1
      <3>2. QED
        BY <1>1, <1>3, <3>1
    <2> HIDE DEF a, b
    <2> DEFINE x == a * b
    <2>a. x \in Nat /\ 0 = x + out[i]
      BY <2>1, <2>2, TimesNat
    <2> HIDE DEF x
    <2>b. x = 0 /\ out[i] = 0
      BY <2>1, <2>a
    <2>3. a * b = 0 /\ out[i] = 0
      BY <2>b DEF x
    <2>4. a = 0
      BY <2>2, <2>3
    <2>5. QED
      BY <2>3, <2>4 DEF a
  <1> DEFINE T == {i \in Nat : i <= S - D => f[(S - D) - i] = 0}
  <1>6. T = Nat
    <2>1. 0 \in T
      <3>1. (S - D) - 0 = S - D
        BY <1>1
      <3>2. QED
        BY <1>4, <3>1
    <2>2. ASSUME NEW i \in T PROVE i + 1 \in T
      <3> SUFFICES ASSUME i + 1 <= S - D PROVE f[(S - D) - (i + 1)] = 0
        OBVIOUS
      <3>1. (S - D) - i \in 1..S /\ ((S - D) - i) - 1 = (S - D) - (i + 1) /\ i <= S - D
        BY <1>1
      <3>2. f[(S - D) - i] = 0
        BY <3>1
      <3>3. QED
        BY <1>5, <3>1, <3>2
    <2>3. QED
      <3> HIDE DEF T
      <3>1. T \in SUBSET Nat
        BY DEF T
      <3>2. QED
        BY <2>1, <2>2, <3>1, ShownProofs!SetInduction
  <1>7. ASSUME NEW j \in 0..(S - D) PROVE f[j] = 0
    <2>1. (S - D) - j \in Nat /\ (S - D) - j <= S - D /\ (S - D) - ((S - D) - j) = j
      BY <1>1
    <2>2. (S - D) - j \in T
      BY <1>6, <2>1
    <2>3. QED
      BY <2>1, <2>2
  <1>8. \A j \in 1..S : j < e => out[j] = 0
    <2> SUFFICES ASSUME NEW j \in 1..S, j < e PROVE out[j] = 0
      OBVIOUS
    <2>1. j \in 0..(S - D)
      BY <1>1
    <2>2. QED
      BY <1>5, <1>7, <2>1
  <1>9. out[e] # 0
    <2> SUFFICES ASSUME out[e] = 0 PROVE FALSE
      OBVIOUS
    <2>1. e \in 1..S /\ e - 1 = S - D /\ e \in 0..S /\ S - e = D - 1
      BY <1>1
    <2>2. f[e] = f[S - D] * OutBase + out[e]
      BY <1>3, <2>1
    <2>3. f[e] = 0 * OutBase + 0 /\ 0 * OutBase + 0 = 0
      BY <1>1, <1>4, <2>2
    <2> HIDE DEF e
    <2>4. e \in 0..Len(out) /\ f[e] = 0 /\ Len(out) - e = D - 1
      BY <1>1, <2>1, <2>3
    <2>5. f[Len(out)] < Power(Len(out) - e)
      BY <1>1, <1>3, <2>4, ValuesEnd
    <2>6. f[S] < Power(D - 1)
      BY <1>1, <2>4, <2>5
    <2>7. f[S] \in Nat
      BY <1>1, <1>3
    <2>8. QED
      BY <1>p, <1>q, <2>6, <2>7
  <1>10. Min(Nonzero(out)) = e
    <2>1. e \in 1..Len(out) /\ e \in Int
      BY <1>1
    <2> HIDE DEF e
    <2>2. e \in Nonzero(out)
      BY <1>9, <2>1 DEF Nonzero
    <2> DEFINE m == Min(Nonzero(out))
    <2>3. m \in 1..Len(out) /\ out[m] # 0 /\ m <= e
      BY <1>2, <2>1, <2>2, <1>9, FirstAndLast
    <2> HIDE DEF m
    <2>4. m = e
      BY <1>1, <1>8, <2>1, <2>3
    <2>5. QED
      BY <2>4 DEF m
  <1>11. QED
    BY <1>7, <1>10 DEF S, e

\* From one character to the next.
LEMMA NextSpace ==
  ASSUME NEW i \in Nat, NEW p \in Nat \ {0}
  PROVE  (i + 1) \div p = IF (i + 1) % p = 0 THEN i \div p + 1 ELSE i \div p
  <1> DEFINE q == i \div p  r == i % p
  <1>1. q \in Nat /\ r \in Nat /\ r < p /\ i = p * q + r
    BY Division
  <1> HIDE DEF q, r
  <1>2. p * q \in Nat
    BY <1>1, TimesNat
  <1>3. CASE r + 1 = p
    <2>1. i + 1 = p * (q + 1) + 0 /\ q + 1 \in Nat /\ 0 \in 0..(p - 1)
      BY <1>1, <1>3
    <2>2. (i + 1) \div p = q + 1 /\ (i + 1) % p = 0
      <3> DEFINE a == i + 1  b == q + 1  z == 0
      <3>1. a \in Nat /\ b \in Nat /\ z \in 0..(p - 1) /\ a = p * b + z
        BY <2>1
      <3> HIDE DEF a, b, z
      <3>2. a \div p = b /\ a % p = z
        BY <3>1, DivisionIs
      <3>3. QED
        BY <3>2 DEF a, b, z
    <2>3. QED
      BY <2>2 DEF q
  <1>4. CASE r + 1 < p
    <2> DEFINE a == i + 1  z == r + 1
    <2>1. a \in Nat /\ z \in 0..(p - 1) /\ a = p * q + z /\ z # 0
      BY <1>1, <1>2, <1>4
    <2> HIDE DEF a, z
    <2>2. a \div p = q /\ a % p = z
      BY <1>1, <2>1, DivisionIs
    <2>3. QED
      BY <2>1, <2>2 DEF a, q
  <1>5. QED
    BY <1>1, <1>3, <1>4

\* Spaces never run ahead.
LEMMA SpacesUpTo ==
  ASSUME NEW i \in Nat, NEW n \in Nat, i <= n, NEW p \in Nat \ {0}
  PROVE  i \div p \in Nat /\ i \div p <= n \div p /\ i \div p <= i
  <1> DEFINE a == i \div p  b == n \div p  r == i % p  q == n % p
  <1>1. a \in Nat /\ r \in Nat /\ r < p /\ i = p * a + r
    BY Division
  <1>2. b \in Nat /\ q \in Nat /\ q < p /\ n = p * b + q
    BY Division
  <1> HIDE DEF a, b, r, q
  <1>3. a <= b
    <2> SUFFICES ASSUME b + 1 <= a PROVE FALSE
      BY <1>1, <1>2
    <2>1. (b + 1) * p <= a * p
      BY <1>1, <1>2, TimesMore
    <2> DEFINE x == a * p  y == b * p
    <2>2. (b + 1) * p = y + p /\ p * a = x /\ p * b = y /\ x \in Nat /\ y \in Nat
      BY <1>1, <1>2
    <2> HIDE DEF x, y
    <2>3. y + p <= x /\ i = x + r /\ n = y + q
      BY <1>1, <1>2, <2>1, <2>2 DEF x
    <2>4. QED
      BY <1>1, <1>2, <2>2, <2>3
  <1>4. a <= i
    <2>1. 1 * a <= p * a
      BY <1>1, TimesMore
    <2> DEFINE x == p * a
    <2>2. a <= x /\ x \in Nat /\ i = x + r
      BY <1>1, <2>1, TimesNat
    <2> HIDE DEF x
    <2>3. QED
      BY <1>1, <2>2
  <1>5. QED
    BY <1>1, <1>3, <1>4 DEF a, b

LEMMA DigitsUpTo ==
  ASSUME NEW i \in Nat, NEW n \in Nat, i <= n, NEW p \in Nat \ {0}
  PROVE  i - i \div p <= n - n \div p
  <1> DEFINE a == i \div p  b == n \div p  r == i % p  q == n % p
  <1>1. a \in Nat /\ r \in Nat /\ r < p /\ i = p * a + r
    BY Division
  <1>2. b \in Nat /\ q \in Nat /\ q < p /\ n = p * b + q
    BY Division
  <1>3. a <= b
    BY SpacesUpTo
  <1> HIDE DEF a, b, r, q
  <1>4. CASE a = b
    BY <1>1, <1>2, <1>4 DEF a, b
  <1>5. CASE a < b
    <2> DEFINE d == b - a  e == d - 1
    <2>1. d \in Nat /\ e \in Nat /\ b = a + d /\ d = e + 1
      BY <1>1, <1>2, <1>5
    <2> HIDE DEF d, e
    <2>2. p * b = p * a + p * e + p
      BY <1>1, <2>1
    <2>3. e <= p * e
      <3>1. 1 * e <= p * e
        BY <2>1, TimesMore
      <3>2. QED
        BY <2>1, <3>1
    <2> DEFINE x == p * a  y == p * b  z == p * e
    <2>4. y = x + z + p /\ e <= z /\ i = x + r /\ n = y + q /\ x \in Nat /\ y \in Nat /\ z \in Nat
      BY <1>1, <1>2, <2>1, <2>2, <2>3, TimesNat
    <2> HIDE DEF x, y, z
    <2>5. i - a <= n - b
      BY <1>1, <1>2, <2>1, <2>4
    <2>6. QED
      BY <2>5 DEF a, b
  <1>6. QED
    BY <1>1, <1>2, <1>3, <1>4, <1>5

\* A digit in each place but those of the spaces.
LEMMA AddressTextIs ==
  ASSUME NEW a \in Addresses, NEW text, text = TextOf("address", AddressText, a)
  PROVE  \E out, f :
           /\ Digits(out) /\ ValuesOfDigits(f, out) /\ f[outputSize] = Given(<<1>> \o a)
           /\ \A j \in 0..(outputSize - addressDigits) : f[j] = 0
           /\ text \in Seq(Int) /\ Len(text) = AddressEnd
           /\ \A i \in 1..AddressEnd :
                IF i % (PageSize + 1) = 0 THEN text[i] = Space
                ELSE /\ i + (outputSize - addressDigits) - i \div (PageSize + 1) \in 1..outputSize
                     /\ text[i] = out[i + (outputSize - addressDigits) - i \div (PageSize + 1)]
  <1> DEFINE S == outputSize  D == addressDigits  E == AddressEnd  p == PageSize + 1
             in == <<1>> \o a
             out == Converted!After(in).out
             zeroes == Min(Nonzero(out)) - 1
             from(i) == i + zeroes - i \div p
             char(i) == IF i % p = 0 THEN Space ELSE IF from(i) \in i..S THEN out[from(i)] ELSE Mark
             enc == [i \in 1..(S - zeroes + spaces) |-> char(i)]
  <1>1. /\ S \in Nat /\ D \in 1..S /\ D + spaces = E /\ S - D >= spaces /\ p \in Nat \ {0}
        /\ E \in Nat /\ E \div p = spaces /\ S <= AddressText /\ AddressText \in Nat /\ spaces \in Nat
    <2>1. AddressEnd \in Nat /\ AddressText \in Nat
      BY DigitsOfAddress, SizesAre, AddressAssumption
    <2>2. outputSize <= AddressText /\ AddressEnd \div (PageSize + 1) = spaces /\ PageSize \in Nat \ {0}
      BY AddressAssumption, ConversionAssumption
    <2>3. QED
      BY <2>1, <2>2, DigitsOfAddress, SizesAre
  <1>2. Digits(out) /\ Shown(out) = Given(in)
    BY ConvertedIs DEF Holds
  <1>3. Power(D - 1) <= Given(in) /\ Given(in) < Power(D)
    BY AddressBetween
  <1>4. text = SubSeq(enc, 1, E)
    <2>1. text = SubSeq(base58check_encode(a, AddressText), 1, E)
      BY DEF TextOf
    <2>2. base58check_encode(a, AddressText) = enc
      <3>1. ~(AddressText < S)
        BY <1>1
      <3>2. QED
        BY <3>1, Zenon DEF base58check_encode, base58_encode
    <2>3. QED
      BY <2>1, <2>2
  <1> HIDE DEF out, in, S, D, E, p
  <1>5. out \in Seq(Nat) /\ Len(out) = S /\ \A k \in 1..S : out[k] \in Nat
    <2>1. 0..(OutBase - 1) \subseteq Nat
      BY ConversionAssumption
    <2>2. out \in Seq(Nat) /\ Len(out) = S
      BY <1>2, <2>1, SeqMonotonic DEF Digits, S
    <2>3. QED
      BY <2>2, ElementOfSeq
  <1>6. PICK f : ValuesOfDigits(f, out) /\ Shown(out) = f[S]
    BY <1>5, ValuesOfDigitsExist
  <1>7. (\A j \in 0..(S - D) : f[j] = 0) /\ zeroes = S - D
    <2>1. Power(D - 1) <= f[S] /\ f[S] < Power(D)
      BY <1>2, <1>3, <1>6
    <2>2. (\A j \in 0..(S - D) : f[j] = 0) /\ Min(Nonzero(out)) = S - D + 1
      BY <1>1, <1>2, <1>6, <2>1, EmptyAhead DEF S
    <2>3. QED
      BY <1>1, <2>2
  <1> HIDE DEF zeroes
  <1>8. S - zeroes + spaces = E
    BY <1>1, <1>7
  <1>9. \A i \in 1..E : from(i) = i + (S - D) - i \div p /\ from(i) \in i..S
    <2> SUFFICES ASSUME NEW i \in 1..E PROVE from(i) = i + (S - D) - i \div p /\ from(i) \in i..S
      OBVIOUS
    <2> DEFINE b == i \div p
    <2>1. i \in Nat /\ i <= E
      BY <1>1
    <2>2. b \in Nat /\ b <= spaces /\ i - b <= E - spaces
      BY <1>1, <2>1, SpacesUpTo, DigitsUpTo
    <2>3. from(i) = i + (S - D) - b
      BY <1>7
    <2> HIDE DEF b
    <2>4. i + (S - D) - b \in i..S
      BY <1>1, <2>1, <2>2
    <2>5. QED
      BY <2>3, <2>4 DEF b
  <1>10. text = [i \in 1..E |-> char(i)]
    <2>1. enc = [i \in 1..E |-> char(i)]
      BY <1>8
    <2> DEFINE e == [i \in 1..E |-> char(i)]
    <2>2. SubSeq(e, 1, E) = e
      <3> HIDE DEF char
      <3>1. Len(e) = E /\ e \in Seq({char(i) : i \in 1..E})
        BY <1>1
      <3> HIDE DEF e
      <3>2. QED
        BY <3>1, SubSeqFull
    <2>3. QED
      BY <1>4, <2>1, <2>2
  <1>11. \A i \in 1..E : text[i] = IF i % p = 0 THEN Space ELSE out[from(i)]
    <2> HIDE DEF from
    <2>1. \A i \in 1..E : text[i] = IF i % p = 0 THEN Space ELSE IF from(i) \in i..S THEN out[from(i)] ELSE Mark
      BY <1>10
    <2>2. QED
      BY <1>9, <2>1
  <1>12. \A i \in 1..E : from(i) \in 1..S
    <2> HIDE DEF from
    <2>1. \A i \in 1..E : i..S \subseteq 1..S
      OBVIOUS
    <2>2. QED
      BY <1>9, <2>1
  <1>13. text \in Seq(Int) /\ Len(text) = E
    <2>1. \A i \in 1..E : text[i] \in Int
      <3> HIDE DEF from
      <3>1. Space \in Int
        BY DEF Space
      <3>2. QED
        BY <1>5, <1>11, <1>12, <3>1
    <2>2. text = [i \in 1..E |-> text[i]]
      BY <1>10
    <2>3. text \in [1..E -> Int]
      BY <2>1, <2>2
    <2>4. QED
      BY <1>1, <2>3
  <1>14. \A i \in 1..E :
            IF i % p = 0 THEN text[i] = Space
            ELSE i + (S - D) - i \div p \in 1..S /\ text[i] = out[i + (S - D) - i \div p]
    BY <1>9, <1>11, <1>12
  <1>15. Digits(out) /\ f[S] = Given(in)
    BY <1>2, <1>6
  <1> HIDE DEF from
  <1>16. QED
    BY <1>6, <1>7, <1>13, <1>14, <1>15 DEF S, D, E, p, in

\* An address is what its text reads as, for every address.
LEMMA AddressReads ==
  ASSUME NEW a \in Addresses, NEW text, text = TextOf("address", AddressText, a)
  PROVE  ReadsAs("address", text, a) /\ text \in Seq(Int) /\ Len(text) = AddressEnd
  <1> DEFINE S == outputSize  z == outputSize - addressDigits  E == AddressEnd  p == PageSize + 1
  <1>1. PICK out : \E f :
           /\ Digits(out) /\ ValuesOfDigits(f, out) /\ f[S] = Given(<<1>> \o a)
           /\ \A j \in 0..z : f[j] = 0
           /\ text \in Seq(Int) /\ Len(text) = E
           /\ \A i \in 1..E :
                IF i % p = 0 THEN text[i] = Space
                ELSE i + z - i \div p \in 1..S /\ text[i] = out[i + z - i \div p]
    BY AddressTextIs
  <1>2. PICK f :
           /\ Digits(out) /\ ValuesOfDigits(f, out) /\ f[S] = Given(<<1>> \o a)
           /\ \A j \in 0..z : f[j] = 0
           /\ text \in Seq(Int) /\ Len(text) = E
           /\ \A i \in 1..E :
                IF i % p = 0 THEN text[i] = Space
                ELSE i + z - i \div p \in 1..S /\ text[i] = out[i + z - i \div p]
    BY <1>1
  <1>3. S \in Nat /\ z \in Nat /\ E \in Nat /\ p \in Nat \ {0} /\ E + z - E \div p = S
    <2>1. AddressEnd \div (PageSize + 1) = spaces /\ PageSize \in Nat \ {0}
      BY AddressAssumption, ConversionAssumption
    <2>2. /\ outputSize \in Nat /\ addressDigits \in Nat /\ spaces \in Nat
          /\ addressDigits <= outputSize /\ addressDigits + spaces = AddressEnd
      BY DigitsOfAddress, SizesAre
    <2>3. z \in Nat /\ E \in Nat /\ p \in Nat \ {0}
      BY <2>1, <2>2
    <2>4. E + z - spaces = S
      BY <2>2
    <2>5. QED
      BY <2>1, <2>2, <2>3, <2>4
  <1>4. out \in Seq(Nat) /\ Len(out) = S /\ \A k \in 1..S : out[k] \in Nat
    <2>1. 0..(OutBase - 1) \subseteq Nat
      BY ConversionAssumption
    <2>2. out \in Seq(Nat) /\ Len(out) = S
      BY <1>2, <2>1, SeqMonotonic DEF Digits
    <2>3. QED
      BY <2>2, ElementOfSeq
  <1> HIDE DEF S, z, E, p
  <1>5. \A k \in 1..S : f[k] = f[k - 1] * OutBase + out[k]
    BY <1>2, <1>4 DEF ValuesOfDigits, Growing
  <1> DEFINE at(i) == i + z - i \div p
             h == [i \in 0..E |-> f[at(i)]]
  <1>6. \A i \in 1..E : h[i] = ShownDigit(h[i - 1], text[i])
    <2> SUFFICES ASSUME NEW i \in 1..E PROVE h[i] = ShownDigit(h[i - 1], text[i])
      OBVIOUS
    <2> DEFINE j == i - 1  b == j \div p
    <2>1. j \in Nat /\ i = j + 1 /\ i \in 0..E /\ j \in 0..E
      BY <1>3
    <2>2. i \div p = IF i % p = 0 THEN b + 1 ELSE b
      <3> HIDE DEF j
      <3>1. (j + 1) \div p = IF (j + 1) % p = 0 THEN j \div p + 1 ELSE j \div p
        BY <1>3, <2>1, NextSpace
      <3>2. QED
        BY <2>1, <3>1
    <2>3. b \in Nat
      BY <1>3, <2>1, Division
    <2>4. h[i] = f[at(i)] /\ h[i - 1] = f[at(j)]
      BY <2>1
    <2>5. at(j) = j + z - b
      OBVIOUS
    <2> HIDE DEF h, j, b
    <2>6. CASE i % p = 0
      <3>1. text[i] = Space /\ ~(Space >= 0)
        BY <1>2, <2>6 DEF Space
      <3>2. at(i) = at(j)
        <4>1. at(i) = i + z - (b + 1)
          BY <2>2, <2>6
        <4>2. i + z - (b + 1) = j + z - b
          BY <1>3, <2>1, <2>3
        <4>3. QED
          BY <2>5, <4>1, <4>2
      <3> HIDE DEF at
      <3>3. ShownDigit(h[i - 1], text[i]) = h[i - 1]
        BY <3>1, Zenon DEF ShownDigit
      <3>4. QED
        BY <2>4, <3>2, <3>3
    <2>7. CASE i % p # 0
      <3>1. at(i) \in 1..S /\ text[i] = out[at(i)]
        BY <1>2, <2>7
      <3>2. at(i) - 1 = at(j)
        <4>1. at(i) = i + z - b
          BY <2>2, <2>7
        <4>2. (i + z - b) - 1 = j + z - b
          BY <1>3, <2>1, <2>3
        <4>3. QED
          BY <2>5, <4>1, <4>2
      <3> HIDE DEF at
      <3>3. out[at(i)] \in Nat /\ f[at(i)] = f[at(j)] * OutBase + out[at(i)]
        BY <1>4, <1>5, <3>1, <3>2
      <3>4. text[i] >= 0
        BY <3>1, <3>3
      <3>5. ShownDigit(h[i - 1], text[i]) = h[i - 1] * OutBase + text[i]
        BY <3>4, Zenon DEF ShownDigit
      <3>6. QED
        BY <2>4, <3>1, <3>3, <3>5
    <2>8. QED
      BY <2>6, <2>7
  <1>7. h[0] = 0 /\ h[E] = Given(<<1>> \o a)
    <2>1. h[0] = f[at(0)] /\ h[E] = f[at(E)]
      BY <1>3
    <2>2. 0 \div p = 0
      <3>1. 0 = p * 0 + 0 /\ 0 \in 0..(p - 1) /\ 0 \in Nat
        BY <1>3
      <3>2. QED
        BY <1>3, <3>1, DivisionIs
    <2>3. at(0) = z
      <3>1. at(0) = 0 + z - 0
        BY <2>2
      <3>2. QED
        BY <1>3, <3>1
    <2>4. at(E) = S
      BY <1>3
    <2>5. f[z] = 0
      BY <1>2, <1>3
    <2>6. QED
      BY <1>2, <2>1, <2>3, <2>4, <2>5
  <1> HIDE DEF h
  <1>8. Shown(text) = Given(<<1>> \o a)
    <2>1. \A i \in 1..Len(text) : h[i] = ShownDigit(h[i - 1], text[i])
      BY <1>2, <1>6
    <2>2. ShownProofs!After(text) = h[Len(text)]
      BY <1>2, <1>7, <2>1, ShownProofs!AfterIs
    <2>3. QED
      BY <1>2, <1>7, <2>2, ShownIs
  <1>9. ReadsAs("address", text, a)
    BY <1>8 DEF ReadsAs, Shown, Given
  <1>10. QED
    BY <1>2, <1>9 DEF E
-----------------------------------------------------------------------------
(***************************************************************************)
(* The fields of an instruction, and the texts of a dialog.                *)
(***************************************************************************)
DecimalFields ==
  {Field("fraction", 8), Field("number", 21), Field("number", 22), Field("amount", 26),
   Field("amount", 30), Field("unit", 25), Field("mintRate", 35), Field("ratio", 44),
   Field("bin2dec", 11), Field("capital", 30), Field("target", 30)}
NamedFields == {Field("rateType", 16), Field("restake", 4)}
KnownFields == DecimalFields \cup NamedFields \cup {Field("address", AddressText)}

LEMMA WidthsOf ==
  /\ \A v \in Numbers64 : IsNumber(v, 20)
  /\ \A v \in Numbers32 : IsNumber(v, 10)
  BY NumbersAssumption

LEMMA FieldIs ==
  \A kind, size : Field(kind, size).kind = kind /\ Field(kind, size).size = size
  BY DEF Field

LEMMA RateTypeGood ==
  ASSUME NEW v, NEW text, text # Thrown, text = RateTypeText(v)
  PROVE  Good("rateType", text, v, 15)
  <1>1. ReadsAs("rateType", text, v)
    BY DEF ReadsAs
  <1>2. text = Marks(15) \/ text = Marks(13)
    BY DEF RateTypeText, Marks
  <1>3. text \in Seq(Int) /\ Len(text) \in {15, 13}
    BY <1>2, MarksAre
  <1>4. \A n \in {15, 13} : n \in Nat /\ n <= 15
    OBVIOUS
  <1>5. Len(text) \in Nat /\ Len(text) <= 15
    BY <1>3, <1>4, Zenon
  <1>6. QED
    BY <1>1, <1>3, <1>5, Zenon DEF Good

LEMMA RestakeGood ==
  ASSUME NEW v, NEW text, text # Thrown, text = RestakeText(v)
  PROVE  Good("restake", text, v, 3)
  <1>1. text = IF v = 1 THEN Yes ELSE No
    BY DEF RestakeText
  <1>2. ReadsAs("restake", text, v)
    BY <1>1 DEF ReadsAs
  <1>3. text = Marks(3) \/ text = Marks(2)
    BY <1>1 DEF Yes, No, Marks
  <1>4. text \in Seq(Int) /\ Len(text) \in {3, 2}
    BY <1>3, MarksAre
  <1>5. \A n \in {3, 2} : n \in Nat /\ n <= 3
    OBVIOUS
  <1>6. Len(text) \in Nat /\ Len(text) <= 3
    BY <1>4, <1>5, Zenon
  <1>7. QED
    BY <1>2, <1>4, <1>6, Zenon DEF Good

\* A text reads as its value and leaves a byte for the terminator.
LEMMA FieldGood ==
  ASSUME NEW f \in DecimalFields \cup NamedFields, NEW v \in ValuesOf(f.kind),
         NEW text, text = TextOf(f.kind, f.size, v), text # Thrown
  PROVE  /\ ReadsAs(f.kind, text, v) /\ text \in Seq(Int) /\ Len(text) \in Nat
         /\ Len(text) < f.size \/ f = Field("amount", 26)
  <1>1. CASE f \in {Field("number", 21), Field("number", 22)}
    <2> DEFINE size == 20  dst == f.size
    <2>1. f.kind = "number" /\ f.size \in {21, 22} /\ v \in Numbers64
      BY <1>1, FieldIs DEF ValuesOf
    <2>2. text = numberToText(v, dst)
      BY <2>1 DEF TextOf
    <2>3. IsNumber(v, size) /\ size \in Nat /\ size < dst
      BY <2>1, WidthsOf
    <2> HIDE DEF size, dst
    <2>4. Good("number", text, v, size)
      BY <2>2, <2>3, NumberText
    <2>5. ReadsAs("number", text, v) /\ text \in Seq(Int) /\ Len(text) \in Nat /\ Len(text) <= size
      BY <2>4 DEF Good
    <2>6. Len(text) < f.size
      BY <2>1, <2>3, <2>5 DEF dst
    <2>7. QED
      BY <2>1, <2>5, <2>6
  <1>2. CASE f = Field("bin2dec", 11)
    <2> DEFINE size == 10  dst == f.size
    <2>1. f.kind = "bin2dec" /\ f.size = 11 /\ v \in Numbers32
      BY <1>2, FieldIs DEF ValuesOf
    <2>2. text = bin2dec(v, dst)
      BY <2>1 DEF TextOf
    <2>3. IsNumber(v, size) /\ size \in Nat /\ size < dst
      BY <2>1, WidthsOf
    <2> HIDE DEF size, dst
    <2>4. Good("bin2dec", text, v, size)
      BY <2>2, <2>3, NumberText
    <2>5. ReadsAs("bin2dec", text, v) /\ text \in Seq(Int) /\ Len(text) \in Nat /\ Len(text) <= size
      BY <2>4 DEF Good
    <2>6. Len(text) < f.size
      BY <2>1, <2>3, <2>5 DEF dst
    <2>7. QED
      BY <2>1, <2>5, <2>6
  <1>3. CASE f = Field("unit", 25)
    <2> DEFINE size == 20  dst == f.size
    <2>1. f.kind = "unit" /\ f.size = 25 /\ v \in Numbers64
      BY <1>3, FieldIs DEF ValuesOf
    <2>2. text = numberToTextWithUnit(v, dst, 2)
      BY <2>1 DEF TextOf
    <2>3. IsNumber(v, size) /\ size \in Nat /\ size + 3 < dst /\ dst \in Nat
      BY <2>1, WidthsOf
    <2> HIDE DEF size, dst
    <2>4. Good("unit", text, v, size + 3)
      BY <2>2, <2>3, UnitText
    <2>5. ReadsAs("unit", text, v) /\ text \in Seq(Int) /\ Len(text) \in Nat /\ Len(text) <= size + 3
      BY <2>4 DEF Good
    <2>6. Len(text) < f.size
      BY <2>1, <2>3, <2>5 DEF dst
    <2>7. QED
      BY <2>1, <2>5, <2>6
  <1>4. CASE f = Field("fraction", 8)
    <2> DEFINE size == 10  dst == f.size
    <2>1. f.kind = "fraction" /\ f.size = 8 /\ v \in Numbers32
      BY <1>4, FieldIs DEF ValuesOf
    <2>2. text = fractionToPercentageDisplay(v, dst)
      BY <2>1 DEF TextOf
    <2>3. IsNumber(v, size)
      BY <2>1, WidthsOf
    <2> HIDE DEF size, dst
    <2>4. Good("fraction", text, v, 7)
      BY <2>2, <2>3, FractionText
    <2>5. QED
      BY <2>1, <2>4 DEF Good
  <1>5. CASE f \in {Field("amount", 26), Field("amount", 30)}
    <2> DEFINE dst == f.size
    <2>1. f.kind = "amount" /\ v \in Numbers64 /\ (f.size = 30 \/ f = Field("amount", 26))
      BY <1>5, FieldIs DEF ValuesOf
    <2>2. text = amountToGtuDisplay(v, dst)
      BY <2>1 DEF TextOf
    <2>3. IsNumber(v, 20)
      BY <2>1, WidthsOf
    <2> HIDE DEF dst
    <2>4. Good("amount", text, v, 29)
      BY <2>2, <2>3, AmountText
    <2>5. QED
      BY <2>1, <2>4 DEF Good
  <1>6. CASE f = Field("capital", 30)
    <2> DEFINE dst == f.size
    <2>1. f.kind = "capital" /\ v \in Numbers64 /\ f.size = 30
      BY <1>6, FieldIs DEF ValuesOf
    <2>2. text = CapitalText(v, dst)
      BY <2>1 DEF TextOf
    <2>3. IsNumber(v, 20)
      BY <2>1, WidthsOf
    <2> HIDE DEF dst
    <2>4. Good("capital", text, v, 29)
      BY <2>2, <2>3, CapitalIs
    <2>5. QED
      BY <2>1, <2>4 DEF Good
  <1>7. CASE f = Field("ratio", 44)
    <2> DEFINE dst == f.size
    <2>1. f.kind = "ratio" /\ v \in Ratios /\ f.size = 44
      BY <1>7, FieldIs DEF ValuesOf
    <2>2. text = RatioText(v, dst)
      BY <2>1 DEF TextOf
    <2> HIDE DEF dst
    <2>4. Good("ratio", text, v, 43)
      BY <2>1, <2>2, RatioIs
    <2>5. QED
      BY <2>1, <2>4 DEF Good
  <1>8. CASE f = Field("mintRate", 35)
    <2>1. f.kind = "mintRate" /\ v \in Numbers32 \X Numbers8 /\ f.size = 35
      BY <1>8, FieldIs DEF ValuesOf
    <2>2. text = MintRateText(v, 35)
      BY <2>1 DEF TextOf
    <2>4. Good("mintRate", text, v, 20)
      BY <2>1, <2>2, MintRateIs
    <2>5. QED
      BY <2>1, <2>4 DEF Good
  <1>9. CASE f = Field("target", 30)
    <2>1. f.kind = "target" /\ v \in ValuesOf("target") /\ f.size = 30
      BY <1>9, FieldIs
    <2>2. text = TargetText(v)
      BY <2>1 DEF TextOf
    <2>4. Good("target", text, v, 29)
      BY <2>1, <2>2, TargetIs
    <2>5. QED
      BY <2>1, <2>4 DEF Good
  <1>10. CASE f = Field("rateType", 16)
    <2>1. f.kind = "rateType" /\ f.size = 16
      BY <1>10, FieldIs
    <2>2. text = RateTypeText(v)
      BY <2>1 DEF TextOf
    <2>4. Good("rateType", text, v, 15)
      BY <2>2, RateTypeGood
    <2>5. QED
      BY <2>1, <2>4 DEF Good
  <1>11. CASE f = Field("restake", 4)
    <2>1. f.kind = "restake" /\ f.size = 4
      BY <1>11, FieldIs
    <2>2. text = RestakeText(v)
      BY <2>1 DEF TextOf
    <2>4. Good("restake", text, v, 3)
      BY <2>2, RestakeGood
    <2>5. QED
      BY <2>1, <2>4 DEF Good
  <1>12. QED
    BY <1>1, <1>2, <1>3, <1>4, <1>5, <1>6, <1>7, <1>8, <1>9, <1>10, <1>11, Zenon
       DEF DecimalFields, NamedFields

\* What fields the handlers read: three at most, and the stake threshold in one of them.
KnownOf(fields, i) ==
  /\ Len(fields) \in 0..3 /\ fields \in Seq(KnownFields)
  /\ \A k \in 1..Len(fields) : fields[k] = Field("amount", 26) => i = "UPDATE_BAKER_STAKE_THRESHOLD"

LEMMA ShortLists ==
  ASSUME NEW S, NEW a \in S, NEW b \in S, NEW c \in S
  PROVE  /\ <<a>> \in Seq(S) /\ Len(<<a>>) = 1 /\ <<a>>[1] = a
         /\ <<a, b>> \in Seq(S) /\ Len(<<a, b>>) = 2 /\ <<a, b>>[1] = a /\ <<a, b>>[2] = b
         /\ <<a, b, c>> \in Seq(S) /\ Len(<<a, b, c>>) = 3
         /\ <<a, b, c>>[1] = a /\ <<a, b, c>>[2] = b /\ <<a, b, c>>[3] = c
  OBVIOUS

LEMMA KnownLists ==
  ASSUME NEW a \in KnownFields \ {Field("amount", 26)}, NEW b \in KnownFields \ {Field("amount", 26)},
         NEW c \in KnownFields \ {Field("amount", 26)}, NEW i
  PROVE  KnownOf(<<a>>, i) /\ KnownOf(<<a, b>>, i) /\ KnownOf(<<a, b, c>>, i)
  <1> DEFINE S == KnownFields  x == Field("amount", 26)
  <1>1. a \in S /\ b \in S /\ c \in S /\ a # x /\ b # x /\ c # x
    OBVIOUS
  <1> HIDE DEF S, x
  <1>2. /\ <<a>> \in Seq(S) /\ Len(<<a>>) = 1 /\ <<a>>[1] = a
        /\ <<a, b>> \in Seq(S) /\ Len(<<a, b>>) = 2 /\ <<a, b>>[1] = a /\ <<a, b>>[2] = b
        /\ <<a, b, c>> \in Seq(S) /\ Len(<<a, b, c>>) = 3
        /\ <<a, b, c>>[1] = a /\ <<a, b, c>>[2] = b /\ <<a, b, c>>[3] = c
    BY <1>1, ShortLists
  <1> DEFINE p == <<a>>  q == <<a, b>>  r == <<a, b, c>>
  <1>3. /\ p \in Seq(S) /\ Len(p) = 1 /\ p[1] # x
        /\ q \in Seq(S) /\ Len(q) = 2 /\ q[1] # x /\ q[2] # x
        /\ r \in Seq(S) /\ Len(r) = 3 /\ r[1] # x /\ r[2] # x /\ r[3] # x
    BY <1>1, <1>2
  <1> HIDE DEF p, q, r
  <1>4. /\ \A k \in 1..Len(p) : p[k] # x
        /\ \A k \in 1..Len(q) : q[k] # x
        /\ \A k \in 1..Len(r) : r[k] # x
    <2>1. (\A k \in 1..1 : k = 1) /\ (\A k \in 1..2 : k = 1 \/ k = 2)
          /\ (\A k \in 1..3 : k = 1 \/ k = 2 \/ k = 3)
      OBVIOUS
    <2>2. QED
      BY <1>3, <2>1
  <1>5. Len(p) \in 0..3 /\ Len(q) \in 0..3 /\ Len(r) \in 0..3
    BY <1>3
  <1>6. QED
    BY <1>3, <1>4, <1>5 DEF KnownOf, S, x, p, q, r

LEMMA JoinedLists ==
  ASSUME NEW a, NEW b, NEW c
  PROVE  /\ <<>> \o <<>> = <<>> /\ <<a>> \o <<>> = <<a>> /\ <<>> \o <<b>> = <<b>>
         /\ <<a>> \o <<b>> = <<a, b>>
         /\ <<a, b>> \o <<>> = <<a, b>> /\ <<a, b>> \o <<c>> = <<a, b, c>>
  <1> DEFINE S == {a, b, c}
             q == <<a, b>>  t == <<c>>  r == <<a, b, c>>
  <1>1. a \in S /\ b \in S /\ c \in S
    OBVIOUS
  <1> HIDE DEF S
  <1>2. <<a>> \in Seq(S) /\ <<b>> \in Seq(S) /\ <<c>> \in Seq(S) /\ q \in Seq(S) /\ <<>> \in Seq(S)
    BY <1>1
  <1>3. /\ <<>> \o <<>> = <<>> /\ <<a>> \o <<>> = <<a>> /\ <<>> \o <<b>> = <<b>>
        /\ <<a, b>> \o <<>> = <<a, b>>
    BY <1>2, ConcatEmptySeq
  <1>4. <<a>> \o <<b>> = <<a, b>>
    <2>1. Append(<<a>>, b) = <<a, b>>
      BY <1>1, AppendedPair
    <2>2. QED
      BY <1>1, <1>2, <2>1, AppendIsConcat
  <1>5. /\ q \in Seq(S) /\ Len(q) = 2 /\ q[1] = a /\ q[2] = b
        /\ t \in Seq(S) /\ Len(t) = 1 /\ t[1] = c
        /\ r \in Seq(S) /\ Len(r) = 3 /\ r[1] = a /\ r[2] = b /\ r[3] = c
    BY <1>1
  <1>6. q \o t = r
    <2> HIDE DEF q, t, r
    <2>1. /\ q \o t \in Seq(S) /\ Len(q \o t) = Len(q) + Len(t)
          /\ \A k \in 1..(Len(q) + Len(t)) : (q \o t)[k] = IF k <= Len(q) THEN q[k] ELSE t[k - Len(q)]
      BY <1>5, ConcatProperties
    <2>2. Len(q \o t) = 3
      BY <1>5, <2>1
    <2>3. \A k \in 1..3 : (q \o t)[k] = IF k <= 2 THEN q[k] ELSE t[k - 2]
      BY <1>5, <2>1
    <2>4. (q \o t)[1] = a /\ (q \o t)[2] = b
      BY <1>5, <2>3
    <2>5. (q \o t)[3] = c
      <3>1. 3 \in 1..3 /\ ~(3 <= 2) /\ 3 - 2 = 1
        OBVIOUS
      <3>2. (q \o t)[3] = t[1]
        BY <2>3, <3>1
      <3>3. QED
        BY <1>5, <3>2
    <2>6. \A k \in 1..3 : k = 1 \/ k = 2 \/ k = 3
      OBVIOUS
    <2>7. \A k \in 1..3 : (q \o t)[k] = r[k]
      BY <1>5, <2>4, <2>5, <2>6
    <2>8. QED
      BY <1>5, <2>1, <2>2, <2>7, SeqEqual
  <1>7. QED
    BY <1>3, <1>4, <1>6

\* Fields other than the threshold.
PlainFields == KnownFields \ {Field("amount", 26)}

LEMMA PlainOnes ==
  /\ {Field("fraction", 8), Field("number", 21), Field("number", 22), Field("amount", 30),
      Field("unit", 25), Field("mintRate", 35), Field("ratio", 44), Field("bin2dec", 11),
      Field("capital", 30), Field("target", 30), Field("rateType", 16), Field("restake", 4),
      Field("address", AddressText)} \subseteq PlainFields
  BY DEF PlainFields, KnownFields, DecimalFields, NamedFields, Field

LEMMA FixedKnown == ASSUME NEW i \in DOMAIN Fixed PROVE KnownOf(Fixed[i], i)
  <1>0. \A a, b, c \in PlainFields : KnownOf(<<a>>, i) /\ KnownOf(<<a, b>>, i) /\ KnownOf(<<a, b, c>>, i)
    BY KnownLists DEF PlainFields
  <1>1. CASE i = "UPDATE_GAS_REWARDS"
    BY <1>0, <1>1, PlainOnes DEF Fixed, GasRewards
  <1>2. CASE i = "UPDATE_MINT_DISTRIBUTION"
    BY <1>0, <1>2, PlainOnes DEF Fixed, MintDistribution
  <1>3. CASE i = "UPDATE_FOUNDATION_ACCOUNT"
    BY <1>0, <1>3, PlainOnes DEF Fixed, FoundationAccount
  <1>4. CASE i = "UPDATE_COOLDOWN_PARAMETERS"
    BY <1>0, <1>4, PlainOnes DEF Fixed, CooldownParameters
  <1>5. CASE i = "UPDATE_BAKER_STAKE_THRESHOLD"
    <2> DEFINE x == Field("amount", 26)  S == KnownFields
    <2>1. x \in S /\ Fixed[i] = <<x>>
      BY <1>5 DEF Fixed, BakerStakeThreshold, KnownFields, DecimalFields
    <2> HIDE DEF x, S
    <2>2. <<x>> \in Seq(S) /\ Len(<<x>>) = 1
      BY <2>1
    <2>3. QED
      BY <1>5, <2>1, <2>2 DEF KnownOf, S
  <1>6. CASE i = "UPDATE_BLOCK_ENERGY_LIMIT"
    BY <1>0, <1>6, PlainOnes DEF Fixed, BlockEnergyLimit
  <1>7. CASE i = "UPDATE_MIN_BLOCK_TIME"
    BY <1>0, <1>7, PlainOnes DEF Fixed, MinBlockTime
  <1>8. CASE i = "UPDATE_TIME_PARAMETERS"
    BY <1>0, <1>8, PlainOnes DEF Fixed, TimeParameters
  <1>9. CASE i = "UPDATE_TIMEOUT_PARAMETERS"
    BY <1>0, <1>9, PlainOnes DEF Fixed, TimeoutParameters
  <1>10. CASE i = "UPDATE_TRANSACTION_FEE_DIST"
    BY <1>0, <1>10, PlainOnes DEF Fixed, TransactionFeeDistribution
  <1>11. CASE i = "UPDATE_FINALIZATION_COMMITTEE_PARAMETERS"
    BY <1>0, <1>11, PlainOnes DEF Fixed, FinalizationCommittee
  <1>12. CASE i = "UPDATE_VALIDATOR_SCORE_PARAMETERS"
    BY <1>0, <1>12, PlainOnes DEF Fixed, ValidatorScore
  <1>13. QED
    BY <1>1, <1>2, <1>3, <1>4, <1>5, <1>6, <1>7, <1>8, <1>9, <1>10, <1>11, <1>12 DEF Fixed

LEMMA DelegationKnown == ASSUME NEW parts PROVE KnownOf(DelegationFields(parts), Delegation)
  <1> DEFINE a == Field("capital", 30)  b == Field("restake", 4)  c == Field("target", 30)
  <1>0. \A x, y, z \in PlainFields :
          /\ KnownOf(<<x>>, Delegation) /\ KnownOf(<<x, y>>, Delegation) /\ KnownOf(<<x, y, z>>, Delegation)
    BY KnownLists DEF PlainFields
  <1>1. a \in PlainFields /\ b \in PlainFields /\ c \in PlainFields
    BY PlainOnes
  <1>2. DelegationFields(parts) = Announced(parts, a) \o Announced(parts, b) \o Announced(parts, c)
    BY DEF DelegationFields
  <1> HIDE DEF a, b, c
  <1>3. \A x : Announced(parts, x) \in {<<>>, <<x>>}
    BY DEF Announced
  <1>4. DelegationFields(parts) \in {<<>>, <<a>>, <<b>>, <<c>>, <<a, b>>, <<a, c>>, <<b, c>>, <<a, b, c>>}
    <2> DEFINE u == Announced(parts, a)  v == Announced(parts, b)  w == Announced(parts, c)
    <2>1. u \in {<<>>, <<a>>} /\ v \in {<<>>, <<b>>} /\ w \in {<<>>, <<c>>}
      BY <1>3
    <2>2. DelegationFields(parts) = (u \o v) \o w
      BY <1>2
    <2> HIDE DEF u, v, w
    <2>3. u \o v \in {<<>>, <<a>>, <<b>>, <<a, b>>}
      BY <2>1, JoinedLists, ZenonT(60)
    <2> DEFINE x == u \o v
    <2>4. x \in {<<>>, <<a>>, <<b>>, <<a, b>>} /\ DelegationFields(parts) = x \o w
      BY <2>2, <2>3
    <2> HIDE DEF x
    <2>5. CASE w = <<>>
      BY <2>4, <2>5, JoinedLists
    <2>6. CASE w = <<c>>
      <3>1. <<>> \o <<c>> = <<c>> /\ <<a>> \o <<c>> = <<a, c>> /\ <<b>> \o <<c>> = <<b, c>>
            /\ <<a, b>> \o <<c>> = <<a, b, c>>
        BY JoinedLists, ZenonT(60)
      <3>2. QED
        BY <2>4, <2>6, <3>1
    <2>7. QED
      BY <2>1, <2>5, <2>6
  <1>5. KnownOf(<<>>, Delegation)
    BY DEF KnownOf
  <1>6. QED
    BY <1>0, <1>1, <1>4, <1>5

LEMMA FieldsKnown ==
  ASSUME NEW i \in Instructions, NEW parts
  PROVE  KnownOf(FieldsOf(i, parts), i)
  <1>0. \A x, y \in PlainFields : KnownOf(<<x>>, i) /\ KnownOf(<<x, y>>, i)
    BY KnownLists DEF PlainFields
  <1>1. i \in {Delegation, ToEncrypted, ExchangeRate} \cup DOMAIN Fixed
    <2>1. CASE app = "account"
      BY <2>1, Zenon DEF Instructions
    <2>2. CASE app # "account"
      BY <2>2, Zenon DEF Instructions
    <2>3. QED
      BY <2>1, <2>2
  <1>2. CASE i = Delegation
    <2>1. FieldsOf(i, parts) = DelegationFields(parts)
      BY <1>2 DEF FieldsOf, Delegation, ToEncrypted, ExchangeRate, Fixed
    <2>2. QED
      BY <1>2, <2>1, DelegationKnown
  <1>3. CASE i = ToEncrypted
    <2>1. FieldsOf(i, parts) = ToEncryptedFields
      BY <1>3 DEF FieldsOf, Delegation, ToEncrypted, ExchangeRate, Fixed
    <2>2. QED
      BY <1>0, <2>1, PlainOnes DEF ToEncryptedFields
  <1>4. CASE i = ExchangeRate
    <2>1. FieldsOf(i, parts) = ExchangeRateFields
      BY <1>4 DEF FieldsOf, Delegation, ToEncrypted, ExchangeRate, Fixed
    <2>2. QED
      BY <1>0, <2>1, PlainOnes DEF ExchangeRateFields
  <1>5. CASE i \in DOMAIN Fixed /\ i \notin {Delegation, ToEncrypted, ExchangeRate}
    <2>1. FieldsOf(i, parts) = Fixed[i]
      BY <1>5 DEF FieldsOf
    <2>2. QED
      BY <1>5, <2>1, FixedKnown
  <1>6. QED
    BY <1>1, <1>2, <1>3, <1>4, <1>5
-----------------------------------------------------------------------------
(***************************************************************************)
(* A dialog, field by field.                                               *)
(***************************************************************************)
LEMMA KnownField ==
  ASSUME NEW f \in KnownFields, NEW v \in ValuesOf(f.kind), NEW text,
         text = TextOf(f.kind, f.size, v), text # Thrown
  PROVE  /\ ReadsAs(f.kind, text, v) /\ text \in Seq(Int) /\ Len(text) \in Nat
         /\ Len(text) < f.size \/ f = Field("amount", 26)
  <1>1. CASE f \in DecimalFields \cup NamedFields
    BY <1>1, FieldGood
  <1>2. CASE f = Field("address", AddressText)
    <2>1. f.kind = "address" /\ f.size = AddressText
      BY <1>2, FieldIs
    <2>2. v \in Addresses
      BY <2>1 DEF ValuesOf
    <2>3. text = TextOf("address", AddressText, v)
      BY <2>1
    <2>4. ReadsAs("address", text, v) /\ text \in Seq(Int) /\ Len(text) = AddressEnd
      BY <2>2, <2>3, AddressReads
    <2>5. AddressEnd \in Nat /\ AddressEnd < AddressText
      BY AddressAssumption
    <2>6. QED
      BY <2>1, <2>4, <2>5
  <1>3. QED
    BY <1>1, <1>2 DEF KnownFields

\* A digit behind a text can be taken away again.
LEMMA DigitBehind ==
  ASSUME NEW text \in Seq(Int), NEW c \in Int
  PROVE  Front(Append(text, c)) = text /\ Len(Append(text, c)) = Len(text) + 1
  BY AppendProperties, LenProperties DEF Front

Readable(kind, text, v) ==
  \E t \in {text} \cup (IF Terminated(kind) THEN {} ELSE {Front(text)}) : ReadsAs(kind, t, v)

LEMMA FieldShown ==
  ASSUME NEW f \in KnownFields, NEW v \in ValuesOf(f.kind), NEW stale \in BOOLEAN,
         NEW text, text = TextOf(f.kind, f.size, v), text # Thrown,
         NEW shown, shown = Displayed(f.kind, text, stale)
  PROVE  /\ Readable(f.kind, shown, v)
         /\ \/ Len(shown) < f.size
            \/ ~Terminated(f.kind) /\ Len(shown) = f.size
            \/ f = Field("amount", 26)
  <1> DEFINE kind == f.kind  size == f.size
  <1>1. /\ ReadsAs(kind, text, v) /\ text \in Seq(Int) /\ Len(text) \in Nat
        /\ Len(text) < size \/ f = Field("amount", 26)
    BY KnownField
  <1>2. CASE ~(stale /\ ~Terminated(kind))
    <2>1. shown = text
      BY <1>2 DEF Displayed
    <2>2. QED
      BY <1>1, <2>1, Zenon DEF Readable
  <1>3. CASE stale /\ ~Terminated(kind)
    <2> DEFINE c == 9
    <2>1. shown = Append(text, c) /\ c \in Int
      BY <1>3 DEF Displayed
    <2> HIDE DEF c
    <2>2. Front(shown) = text /\ Len(shown) = Len(text) + 1
      BY <1>1, <2>1, DigitBehind
    <2>3. Readable(kind, shown, v)
      BY <1>1, <1>3, <2>2, Zenon DEF Readable
    <2>4. f # Field("amount", 26)
      BY <1>3, FieldIs DEF Terminated
    <2>5. size \in Nat
      <3>1. f \in DecimalFields \cup NamedFields \/ f = Field("address", AddressText)
        BY DEF KnownFields
      <3>2. QED
        BY <3>1, FieldIs, AddressAssumption DEF DecimalFields, NamedFields
    <2>6. Len(shown) < size \/ Len(shown) = size
      BY <1>1, <2>2, <2>4, <2>5
    <2>7. QED
      BY <1>3, <2>3, <2>6
  <1>4. QED
    BY <1>2, <1>3

LEMMA ValuesAre ==
  ASSUME NEW fields, Len(fields) \in 0..3, NEW values \in Transactions(fields)
  PROVE  /\ Len(values) = Len(fields) /\ \E S : values \in Seq(S)
         /\ \A k \in 1..Len(fields) : values[k] \in ValuesOf(fields[k].kind)
  <1> DEFINE of(k) == ValuesOf(fields[k].kind)  n == Len(fields)
  <1>0. n \in 0..3
    OBVIOUS
  <1>1. CASE n = 0
    <2>1. values = <<>>
      BY <1>1 DEF Transactions
    <2>2. Len(values) = 0 /\ values \in Seq({})
      BY <2>1
    <2>3. QED
      BY <1>1, <2>2
  <1>2. CASE n = 1
    <2>1. PICK v \in of(1) : values = <<v>>
      BY <1>2 DEF Transactions
    <2>2. values \in Seq({v}) /\ Len(values) = 1 /\ values[1] = v
      BY <2>1
    <2>3. \A k \in 1..1 : k = 1
      OBVIOUS
    <2> HIDE DEF of
    <2>4. \A k \in 1..n : values[k] \in of(k)
      BY <1>2, <2>1, <2>2, <2>3
    <2>5. QED
      BY <1>2, <2>2, <2>4 DEF of
  <1>3. CASE n = 3
    <2>1. values \in of(1) \X of(2) \X of(3)
      BY <1>3 DEF Transactions
    <2> HIDE DEF of
    <2>2. \E u \in of(1), v \in of(2), w \in of(3) : values = <<u, v, w>>
      BY <2>1
    <2>3. PICK u \in of(1), v \in of(2), w \in of(3) : values = <<u, v, w>>
      BY <2>2
    <2>4. values \in Seq({u, v, w}) /\ Len(values) = 3 /\ values[1] = u /\ values[2] = v /\ values[3] = w
      BY <2>3
    <2>5. \A k \in 1..3 : k = 1 \/ k = 2 \/ k = 3
      OBVIOUS
    <2>6. \A k \in 1..n : values[k] \in of(k)
      BY <1>3, <2>3, <2>4, <2>5
    <2>7. QED
      BY <1>3, <2>4, <2>6 DEF of
  <1>4. CASE n = 2
    <2>1. values \in of(1) \X of(2)
      BY <1>4 DEF Transactions
    <2> HIDE DEF of
    <2>2. \E u \in of(1), v \in of(2) : values = <<u, v>>
      BY <2>1
    <2>3. PICK u \in of(1), v \in of(2) : values = <<u, v>>
      BY <2>2
    <2>4. values \in Seq({u, v}) /\ Len(values) = 2 /\ values[1] = u /\ values[2] = v
      BY <2>3
    <2>5. \A k \in 1..2 : k = 1 \/ k = 2
      OBVIOUS
    <2>6. \A k \in 1..n : values[k] \in of(k)
      BY <1>4, <2>3, <2>4, <2>5
    <2>7. QED
      BY <1>4, <2>4, <2>6 DEF of
  <1>5. QED
    BY <1>0, <1>1, <1>2, <1>3, <1>4

LEMMA TransactionIs ==
  ASSUME NEW i, NEW parts, NEW S, NEW values \in Seq(S)
  PROVE  /\ Len(Transaction(i, parts, values)) = Len(values) + 1
         /\ Transaction(i, parts, values)[1] = [of |-> i, parts |-> parts]
         /\ \A k \in 1..Len(values) : Transaction(i, parts, values)[k + 1] = values[k]
  <1> DEFINE x == [of |-> i, parts |-> parts]  e == <<x>>  R == S \cup {x}
  <1>1. e \in Seq(R) /\ Len(e) = 1 /\ e[1] = x
    OBVIOUS
  <1>2. values \in Seq(R) /\ Len(values) \in Nat
    BY SeqMonotonic, LenProperties
  <1>3. Transaction(i, parts, values) = e \o values
    BY DEF Transaction
  <1> HIDE DEF x, e, R
  <1>4. /\ Len(e \o values) = Len(e) + Len(values)
        /\ \A k \in 1..(Len(e) + Len(values)) :
             (e \o values)[k] = IF k <= Len(e) THEN e[k] ELSE values[k - Len(e)]
    BY <1>1, <1>2, ConcatProperties
  <1>5. (e \o values)[1] = x
    BY <1>1, <1>2, <1>4
  <1>6. ASSUME NEW k \in 1..Len(values) PROVE (e \o values)[k + 1] = values[k]
    <2>1. k + 1 \in 1..(Len(e) + Len(values)) /\ ~(k + 1 <= 1) /\ (k + 1) - 1 = k
      BY <1>1, <1>2
    <2>2. QED
      BY <1>1, <1>4, <2>1
  <1>7. Len(e \o values) = Len(values) + 1
    BY <1>1, <1>2, <1>4
  <1>8. QED
    BY <1>3, <1>5, <1>6, <1>7 DEF x

\* A dialog that offers to sign has a text for each field, and what is hashed is
\* behind it.
LEMMA DialogIs ==
  ASSUME SingleInv, Asked
  PROVE  /\ Len(txHash) = Len(Fields) + 1 /\ txHash[1] = [of |-> dialog.of, parts |-> dialog.parts]
         /\ DOMAIN Fields = 1..Len(Fields)
         /\ \A k \in DOMAIN Fields :
              /\ Readable(Fields[k].kind, dialog.texts[k], txHash[k + 1])
              /\ \/ Len(dialog.texts[k]) < Fields[k].size
                 \/ ~Terminated(Fields[k].kind) /\ Len(dialog.texts[k]) = Fields[k].size
                 \/ dialog.of = "UPDATE_BAKER_STAKE_THRESHOLD"
  <1>1. PICK i \in Instructions, parts \in SUBSET DelegationParts, stale \in BOOLEAN :
          \E values : Offers(i, parts, values, stale)
    BY DEF SingleInv, OfferInv, Asked
  <1>2. PICK values : Offers(i, parts, values, stale)
    BY <1>1
  <1> DEFINE fields == FieldsOf(i, parts)  texts == TextsOf(i, parts, values)
  <1>3. /\ values \in Transactions(fields) /\ Thrown \notin ToSet(texts)
        /\ txHash = Transaction(i, parts, values) /\ dialog = DialogOf(i, parts, values, stale)
    BY <1>2 DEF Offers
  <1>4. KnownOf(fields, i)
    BY FieldsKnown
  <1>5. /\ Len(fields) \in 0..3 /\ fields \in Seq(KnownFields) /\ DOMAIN fields = 1..Len(fields)
        /\ \A k \in 1..Len(fields) : fields[k] = Field("amount", 26) => i = "UPDATE_BAKER_STAKE_THRESHOLD"
    BY <1>4, LenProperties DEF KnownOf
  <1>6. texts = [k \in DOMAIN fields |-> TextOf(fields[k].kind, fields[k].size, values[k])]
    BY DEF TextsOf
  <1>7. /\ dialog.of = i /\ dialog.parts = parts
        /\ dialog.texts = [k \in DOMAIN texts |-> Displayed(fields[k].kind, texts[k], stale)]
    BY <1>3 DEF DialogOf
  <1>8. Fields = fields
    BY <1>7 DEF Fields
  <1> HIDE DEF fields, texts
  <1>9. /\ Len(values) = Len(fields) /\ \E S : values \in Seq(S)
        /\ \A k \in 1..Len(fields) : values[k] \in ValuesOf(fields[k].kind)
    BY <1>3, <1>5, ValuesAre
  <1>10. /\ Len(txHash) = Len(values) + 1 /\ txHash[1] = [of |-> i, parts |-> parts]
         /\ \A k \in 1..Len(values) : txHash[k + 1] = values[k]
    BY <1>3, <1>9, TransactionIs
  <1>11. ASSUME NEW k \in 1..Len(fields)
         PROVE  /\ Readable(fields[k].kind, dialog.texts[k], txHash[k + 1])
                /\ \/ Len(dialog.texts[k]) < fields[k].size
                   \/ ~Terminated(fields[k].kind) /\ Len(dialog.texts[k]) = fields[k].size
                   \/ i = "UPDATE_BAKER_STAKE_THRESHOLD"
    <2> DEFINE f == fields[k]  v == values[k]  text == texts[k]  shown == dialog.texts[k]
    <2>1. f \in KnownFields /\ v \in ValuesOf(f.kind) /\ txHash[k + 1] = v
      BY <1>5, <1>9, <1>10, ElementOfSeq
    <2>2. DOMAIN texts = 1..Len(fields) /\ text = TextOf(f.kind, f.size, v)
      BY <1>5, <1>6
    <2>3. text # Thrown
      BY <1>3, <2>2 DEF ToSet
    <2>4. shown = Displayed(f.kind, text, stale)
      BY <1>7, <2>2
    <2>5. f = Field("amount", 26) => i = "UPDATE_BAKER_STAKE_THRESHOLD"
      BY <1>5
    <2>6. stale \in BOOLEAN
      OBVIOUS
    <2> HIDE DEF f, v, text, shown
    <2>7. /\ Readable(f.kind, shown, v)
          /\ \/ Len(shown) < f.size
             \/ ~Terminated(f.kind) /\ Len(shown) = f.size
             \/ f = Field("amount", 26)
      BY <2>1, <2>2, <2>3, <2>4, <2>6, FieldShown
    <2>8. QED
      BY <2>1, <2>5, <2>7 DEF f, v, shown
  <1>12. QED
    BY <1>5, <1>7, <1>8, <1>9, <1>10, <1>11

\* For every number and address: a dialog that offers to sign shows all that has been
\* hashed, field by field, as texts that read as the values hashed.
THEOREM SingleShownIsHashed == SingleSpec => []ShownIsHashed
  <1>1. SingleInv => ShownIsHashed
    <2> SUFFICES ASSUME SingleInv, Asked PROVE ShownIsHashed
      BY DEF ShownIsHashed
    <2>1. QED
      BY DialogIs, Zenon DEF ShownIsHashed, Readable
  <1>2. QED
    BY <1>1, SingleCorrect, PTL

\* For every number and address no text of a dialog overflows, but for those of the
\* baker stake threshold.
THEOREM SingleTextsFit == SingleSpec => []TextsFit
  <1>1. SingleInv => TextsFit
    <2> SUFFICES ASSUME SingleInv, Asked PROVE TextsFit
      BY DEF TextsFit
    <2>1. QED
      BY DialogIs, Zenon DEF TextsFit
  <1>2. QED
    BY <1>1, SingleCorrect, PTL
=============================================================================
