-------------------------- MODULE ReviewedSigning ---------------------------
(***************************************************************************)
(* What a signing device promises of a transaction in parts, whatever the  *)
(* commands, packets and dialogs that bring it: the user goes through the  *)
(* announced parts one by one, and only from the last of them does a       *)
(* signature come, which covers exactly these parts and ends the review.   *)
(***************************************************************************)
EXTENDS Naturals

CONSTANTS NoReview,    \* there is no transaction under review
          MaxParts     \* most parts a transaction announces

VARIABLES announced,   \* how many parts the transaction under review has
          reviewed,    \* how many of them the user has gone on from
          signed       \* the signature last handed out, if it is the last answer

vars == <<announced, reviewed, signed>>

NoSignature == [parts |-> 0, count |-> 0, read |-> 0]
Signature(n) == [parts |-> n, count |-> n, read |-> n]

UnderReview == announced # NoReview

Init == announced = NoReview /\ reviewed = 0 /\ signed = NoSignature

\* The answer to the command before may be replaced by one without a signature.
Answered == signed' \in {signed, NoSignature}

Begin(n) ==
  /\ ~UnderReview
  /\ announced' = n /\ reviewed' = 0
  /\ Answered

Review ==
  /\ UnderReview /\ reviewed + 1 < announced
  /\ reviewed' = reviewed + 1
  /\ Answered
  /\ UNCHANGED announced

Answer ==
  /\ Answered
  /\ UNCHANGED <<announced, reviewed>>

\* Declined, refused, overtaken, or cut off.
End ==
  /\ announced' = NoReview /\ reviewed' = 0
  /\ Answered

Sign ==
  /\ UnderReview /\ reviewed + 1 = announced
  /\ signed' = Signature(announced)
  /\ announced' = NoReview /\ reviewed' = 0

Next == (\E n \in 0..MaxParts : Begin(n)) \/ Review \/ Answer \/ End \/ Sign

Spec == Init /\ [][Next]_vars
=============================================================================
