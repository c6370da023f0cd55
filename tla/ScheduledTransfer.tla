------------------------- MODULE ScheduledTransfer -------------------------
(***************************************************************************)
(* The transfer with schedule, with and without a memo                     *)
(* (src/src/signTransferWithSchedule.c).  The first command says how many  *)
(* release pairs there are; they arrive in packets of up to PacketPairs,   *)
(* and each is hashed and put on display when the user asks for it.        *)
(*                                                                         *)
(* The hash is abstracted to what it covers: how many bytes of memo, which *)
(* count, how many pairs.  Whether the device can format a pair's date is  *)
(* the environment's choice.  The memo reader is that of Transfers, cut    *)
(* down to the length it keeps.                                            *)
(***************************************************************************)
EXTENDS Device

CONSTANTS
  PacketPairs,   \* pairs in a full packet: 15
  MaxCount,      \* largest number of pairs: 255
  Wrap,          \* values of the byte ctx->pos, in steps of 8: 32
  MaxMemo,       \* MAX_MEMO_SIZE
  MaxChunk,      \* most data bytes in one command
  Word           \* 2^32

ASSUME ScheduleAssumption ==
  /\ PacketPairs \in Nat \ {0} /\ MaxCount \in Nat /\ PacketPairs <= MaxCount
  /\ Wrap \in Nat /\ 2 * PacketPairs < Wrap
  /\ MaxMemo \in Nat /\ MaxChunk \in Nat \ {0}
  /\ Word \in Nat /\ Word > MaxMemo + MaxChunk

ASSUME NoneIsNoInstruction ==
  None \notin {"SIGN_TRANSFER_WITH_SCHEDULE", "SIGN_TRANSFER_WITH_SCHEDULE_AND_MEMO",
               "another instruction"}

\* currentInstruction = -1 is no byte either.
ASSUME NoneIsNoCount == None \notin 0..MaxCount

\* The safety of this instruction rests on the UX engine retiring a pressed step.
ASSUME StepsRetire == KeepsStep = {FALSE}

VARIABLES
  hash,        \* what tx_state->hash covers
  state,       \* ctx->state
  remaining,   \* ctx->remainingNumberOfScheduledAmounts
  inPacket,    \* ctx->scheduledAmountsInCurrentPacket
  pos,         \* ctx->pos, in steps of 8
  left,        \* memo_ctx->cborLength
  read         \* history: pairs the user has paged through

ctxVars == <<state, remaining, inPacket, pos, left>>
vars == <<deviceVars, hash, ctxVars, read>>

Plain == "SIGN_TRANSFER_WITH_SCHEDULE"
Memo  == "SIGN_TRANSFER_WITH_SCHEDULE_AND_MEMO"
Other == "another instruction"
Ours  == {Plain, Memo}
Bytes == 0..MaxCount

\* declared: the count byte of the first command; count: the one hashed.
NoTransaction ==
  [kind |-> None, declared |-> 0, memoSize |-> 0, memoBytes |-> 0,
   counted |-> FALSE, count |-> 0, pairs |-> 0, half |-> FALSE]

Header(kind, n, size) ==
  [NoTransaction EXCEPT !.kind = kind, !.declared = n, !.memoSize = size]

Init ==
  /\ DeviceInit
  /\ hash = NoTransaction
  /\ state = "none" /\ remaining = 0 /\ inPacket = 0 /\ pos = 0 /\ left = 0
  /\ read = 0

Restart ==
  /\ DeviceRestart
  /\ hash' = NoTransaction
  /\ state' = "none" /\ remaining' = 0 /\ inPacket' = 0 /\ pos' = 0 /\ left' = 0
  /\ read' = 0

\* ctx->state as the handlers find it.
foundState == IF isInitialCall THEN "INITIAL" ELSE state

(***************************************************************************)
(* First commands.                                                         *)
(***************************************************************************)
\* Mutant of Initial: ctx->state is not looked at.
InitialAnyState(n) ==
  /\ Accepts(Plain)
  /\ hash' = [Header(Plain, n, 0) EXCEPT !.counted = TRUE, !.count = n]
  /\ remaining' = n
  /\ state' = "PAIRS"
  /\ read' = 0
  /\ Ask(Plain, "initial")
  /\ UNCHANGED <<inPacket, pos, left>>

Initial(n) ==
  /\ Accepts(Plain)
  /\ foundState = "INITIAL"
  /\ hash' = [Header(Plain, n, 0) EXCEPT !.counted = TRUE, !.count = n]
  /\ remaining' = n
  /\ state' = "PAIRS"
  /\ read' = 0
  /\ Ask(Plain, "initial")
  /\ UNCHANGED <<inPacket, pos, left>>

InitialMemo(n, size) ==
  /\ Accepts(Memo)
  /\ foundState = "INITIAL"
  /\ hash' = Header(Memo, n, size)
  /\ remaining' = n
  /\ left' = size
  /\ read' = 0
  /\ IF size <= MaxMemo THEN AnswerNow(Memo) /\ state' = "MEMO_START"
                        ELSE Refuse /\ state' = "INITIAL"
  /\ UNCHANGED <<inPacket, pos>>

\* A path too long or another transaction kind.
InitialRefused(i) ==
  /\ Accepts(i)
  /\ foundState = "INITIAL"
  /\ hash' \in {hash, NoTransaction}
  /\ state' = "INITIAL"
  /\ Refuse
  /\ UNCHANGED <<remaining, inPacket, pos, left, read>>

\* P1 does not fit ctx->state.
OutOfTurn(i) ==
  /\ Accepts(i)
  /\ state' = foundState
  /\ Refuse
  /\ UNCHANGED <<hash, remaining, inPacket, pos, left, read>>

(***************************************************************************)
(* The memo.                                                               *)
(***************************************************************************)
\* Mutant of Less: no wrap at 2^32.
LessUnbounded(n) == left - n

Less(n) == IF n <= left THEN left - n ELSE left - n + Word

HashMemo(n) == [hash EXCEPT !.memoBytes = @ + n]

\* Mutant of FinishMemo: the wrong context field is hashed as the count.
FinishMemoWrongCount(n) ==
  /\ hash' = [HashMemo(n) EXCEPT !.counted = TRUE, !.count = inPacket]
  /\ state' = "PAIRS"
  /\ Ask(Memo, "initial")

\* finishMemoScheduled: the count goes into the hash, from the context, only now.
FinishMemo(n) ==
  /\ hash' = [HashMemo(n) EXCEPT !.counted = TRUE, !.count = remaining]
  /\ state' = "PAIRS"
  /\ Ask(Memo, "initial")

\* A text memo: all n bytes count against cborLength.
MemoText(n) ==
  /\ left' = Less(n)
  /\ IF Less(n) = 0 THEN FinishMemo(n)
     ELSE state' = "MEMO" /\ hash' = HashMemo(n) /\ AnswerNow(Memo)

\* An integer memo: only the head's bytes count, and they must use up cborLength.
MemoNumber(size, n) ==
  /\ left' = Less(size)
  /\ IF Less(size) = 0 THEN FinishMemo(n)
     ELSE Refuse /\ hash' = HashMemo(n) /\ UNCHANGED state

\* Reserved length codes, and text whose argument is not what is left.
MemoRefused(size, n) ==
  /\ left' = Less(size)
  /\ hash' = HashMemo(n)
  /\ Refuse
  /\ UNCHANGED state

MemoFirst(size, n) ==
  /\ Accepts(Memo)
  /\ foundState = "MEMO_START"
  /\ MemoText(n) \/ MemoNumber(size, n) \/ MemoRefused(size, n)
  /\ UNCHANGED <<remaining, inPacket, pos, read>>

\* A CBOR type the reader does not know: the dispatcher resets the device.
MemoUnsupported ==
  /\ Accepts(Memo)
  /\ foundState = "MEMO_START"
  /\ Restart

MemoRest(n) ==
  /\ Accepts(Memo)
  /\ foundState = "MEMO"
  /\ left' = Less(n)
  /\ IF Less(n) = 0 THEN FinishMemo(n)
     ELSE Refuse /\ hash' = HashMemo(n) /\ UNCHANGED state
  /\ UNCHANGED <<remaining, inPacket, pos, read>>

(***************************************************************************)
(* The pairs.                                                              *)
(***************************************************************************)
Advance(p, n) == IF p + n < Wrap THEN p + n ELSE p + n - Wrap

\* The body of processNextScheduledAmount for a pair it can show.
HashPair(from, at) ==
  /\ hash' = [hash EXCEPT !.pairs = @ + 1]
  /\ pos' = Advance(at, 2)
  /\ inPacket' = from - 1

\* ... and for one whose date it refuses, after hashing it.
HashHalf(from, at) ==
  /\ hash' = [hash EXCEPT !.half = TRUE]
  /\ pos' = Advance(at, 1)
  /\ inPacket' = from

\* Mutants of PairFlow: every packet offers to sign; no packet does.
PairFlowEachPacket(rest, from) == IF from = 1 THEN "pairSign" ELSE "pair"
PairFlowBeforeCounting(rest, from) == IF rest = 0 /\ from = 0 THEN "pairSign" ELSE "pair"

\* The flow for a pair, with `rest` pairs to come in packets and `from` still here.
PairFlow(rest, from) == IF rest = 0 /\ from = 1 THEN "pairSign" ELSE "pair"

\* Mutant of Pairs: ctx->pos is not reset for the packet.
PairsKeepPos(i) ==
  LET size == IF remaining <= PacketPairs THEN remaining ELSE PacketPairs IN
  /\ Accepts(i)
  /\ foundState = "PAIRS"
  /\ remaining' = remaining - size
  /\ \/ size = 0 /\ inPacket' = 0 /\ pos' = 0 /\ UNCHANGED hash /\ AnswerNow(i)
     \/ size > 0 /\ HashPair(size, pos) /\ Ask(i, PairFlow(remaining - size, size))
     \/ size > 0 /\ HashHalf(size, pos) /\ Refuse
  /\ UNCHANGED <<state, left, read>>

\* handleTransferPairs
Pairs(i) ==
  LET size == IF remaining <= PacketPairs THEN remaining ELSE PacketPairs IN
  /\ Accepts(i)
  /\ foundState = "PAIRS"
  /\ remaining' = remaining - size
  /\ \/ size = 0 /\ inPacket' = 0 /\ pos' = 0 /\ UNCHANGED hash /\ AnswerNow(i)
     \/ size > 0 /\ HashPair(size, 0) /\ Ask(i, PairFlow(remaining - size, size))
     \/ size > 0 /\ HashHalf(size, 0) /\ Refuse
  /\ UNCHANGED <<state, left, read>>

\* "Continue with transaction"
PressContinueInitial ==
  /\ screen = "initial"
  /\ PressContinue
  /\ UNCHANGED <<hash, ctxVars, read>>

\* "Show next release"
PressNext ==
  /\ screen = "pair"
  /\ read' = read + 1
  /\ \/ inPacket = 0 /\ PressContinue /\ UNCHANGED <<hash, pos, inPacket>>
     \/ inPacket > 0 /\ HashPair(inPacket, pos) /\ screen' = PairFlow(remaining, inPacket)
        /\ UNCHANGED <<currentInstruction, owed, reply>>
     \/ inPacket > 0 /\ HashHalf(inPacket, pos) /\ PressThrow
  /\ UNCHANGED <<state, remaining, left>>

(***************************************************************************)
(* Signing, and everything else.                                           *)
(***************************************************************************)
Signature == [kind |-> "signature", over |-> hash, read |-> read + 1]

PressSign ==
  /\ screen = "pairSign"
  /\ PressAnswer(Signature)
  /\ hash' = NoTransaction
  /\ UNCHANGED <<ctxVars, read>>

PressSignFails ==
  /\ screen = "pairSign"
  /\ PressThrow
  /\ hash' = NoTransaction
  /\ UNCHANGED <<ctxVars, read>>

PressDecline ==
  /\ screen = "pairSign"
  /\ PressAnswer(Rejection)
  /\ UNCHANGED <<hash, ctxVars, read>>

PressQuit == screen = "idle" /\ Restart

PowerLost == Restart

Dispatch ==
  /\ BadCommand \/ \E i \in Ours : SwitchInstruction(i)
  /\ UNCHANGED <<hash, ctxVars, read>>

\* Any other instruction: its context lies over ours and its transaction takes
\* the hash. It runs to its end, or waits for its next command.
OtherInstruction(junk) ==
  /\ Accepts(Other)
  /\ hash' = NoTransaction
  /\ remaining' = junk /\ inPacket' = junk /\ pos' = junk
  /\ \/ uiIdle /\ owed' = FALSE /\ reply' = Success
     \/ AnswerNow(Other)
  /\ UNCHANGED <<state, left, read>>

Junk == 0..PacketPairs

Command ==
  \/ Dispatch
  \/ \E n \in Bytes : Initial(n)
  \/ \E n \in Bytes, size \in 0..(MaxMemo + 1) : InitialMemo(n, size)
  \/ \E i \in Ours : InitialRefused(i) \/ OutOfTurn(i) \/ Pairs(i)
  \/ \E n \in 1..MaxChunk : MemoRest(n) \/ \E size \in 1..n : MemoFirst(size, n)
  \/ MemoUnsupported
  \/ \E junk \in Junk : OtherInstruction(junk)

Button ==
  \/ PressContinueInitial \/ PressNext
  \/ PressSign \/ PressSignFails \/ PressDecline \/ PressQuit

Next == Command \/ Button \/ PowerLost

Spec == Init /\ [][Next]_vars

\* A host that goes on with what it started, and a user who reads on to the end.
FairSpec ==
  /\ Spec
  /\ WF_vars(\E i \in Ours : Pairs(i))
  /\ WF_vars(\E n \in 1..MaxChunk : MemoRest(n) \/ \E size \in 1..n : MemoFirst(size, n))
  /\ WF_vars(PressContinueInitial)
  /\ WF_vars(PressNext)
  /\ WF_vars(PressSign \/ PressDecline)
-----------------------------------------------------------------------------
Transactions ==
  [kind : {Plain, Memo, None}, declared : Bytes, memoSize : Nat, memoBytes : Nat,
   counted : BOOLEAN, count : Bytes, pairs : Nat, half : BOOLEAN]

ControlOK ==
  /\ currentInstruction \in {Plain, Memo, Other, None}
  /\ owed \in BOOLEAN
  /\ screen \in {"idle", "frozen", "initial", "pair", "pairSign"}
  /\ state \in {"none", "INITIAL", "MEMO_START", "MEMO", "PAIRS"}

CountersOK ==
  /\ remaining \in Bytes
  /\ inPacket \in 0..PacketPairs
  /\ pos \in 0..(Wrap - 1)
  /\ left \in 0..(Word - 1)
  /\ read \in Nat

\* Every variable keeps to the values its C type and the handlers allow.
TypeOK == ControlOK /\ CountersOK /\ hash \in Transactions

\* What a signature covers is one schedule: the head says as many pairs as were
\* announced, and exactly so many whole pairs follow it, however they were cut
\* into packets and whatever was aborted before.
WholeSchedule(h) ==
  /\ h.kind \in Ours /\ h.counted /\ ~h.half
  /\ h.count = h.declared /\ h.pairs = h.count /\ h.pairs > 0

SignedIsWholeSchedule == reply.kind = "signature" => WholeSchedule(reply.over)

\* Every pair under a signature was on display, and paged through, before the
\* next one was hashed; part of SignsWhatIsReviewed.
EveryPairWasRead == reply.kind = "signature" => reply.read = reply.over.pairs

\* While a pair is on display, ctx->pos stands behind that pair in the packet:
\* the byte never wraps, and no packet is read past the pairs it brought.
PairsAreReadInPlace ==
  screen \in {"pair", "pairSign"} =>
    pos = 2 * (((hash.pairs - 1) % PacketPairs) + 1)

(***************************************************************************)
(* Why the signature is whole: what each point of the dialogue leaves to   *)
(* be hashed and to be read.                                               *)
(***************************************************************************)
InProgress == currentInstruction \in Ours

\* Between commands nothing is on display; a dialog belongs to the command owed.
DialogInv ==
  /\ ~owed => screen \in {"idle", "frozen"}
  /\ owed /\ ~InProgress => currentInstruction = None /\ screen = "frozen"
  /\ owed /\ InProgress => state = "PAIRS" /\ screen \in {"initial", "pair", "pairSign"}

\* Host, user and device wait for each other: a command unanswered, no instruction
\* in progress that could answer it, and no button on display.
Stuck == owed /\ currentInstruction = None /\ screen = "frozen"

\* What a button that threw leaves: half a pair, whose date it refused, or the hash
\* of a signature that failed.
ButtonFailed == hash.half \/ hash = NoTransaction

\* The wait of a listed error under io_exchange, and of nothing else.
StuckInv == Stuck => ButtonFailed

\* Until the count is hashed, it waits in remaining.
MemoInv ==
  InProgress /\ state \in {"MEMO_START", "MEMO"} =>
    hash.pairs = 0 /\ ~hash.half /\ remaining = hash.declared /\ read = 0

\* From then on, hashed pairs and pairs to come add up to it.
PairsInv ==
  InProgress /\ state = "PAIRS" =>
    /\ hash.counted /\ hash.count = hash.declared /\ ~hash.half
    /\ IF hash.pairs = 0 THEN remaining = hash.count
       ELSE hash.pairs + remaining + inPacket = hash.count
    /\ read = IF screen \in {"pair", "pairSign"} THEN hash.pairs - 1 ELSE hash.pairs
    /\ screen = "initial" => hash.pairs = 0
    /\ screen \in {"pair", "pairSign"} => hash.pairs > 0
    /\ screen = "pair" => remaining + inPacket > 0
    /\ screen = "pairSign" => remaining = 0 /\ inPacket = 0
    /\ ~owed /\ hash.pairs > 0 => inPacket = 0

ScheduleInv ==
  /\ InProgress => hash.kind = currentInstruction
  /\ InProgress => state \in {"MEMO_START", "MEMO", "PAIRS"}
  /\ DialogInv
  /\ StuckInv
  /\ MemoInv
  /\ PairsInv

\* A schedule of at least one pair ends: with a host that sends the packets and
\* a user who reads on, it cannot go round in circles.
ScheduleEnds ==
  currentInstruction \in Ours /\ hash.declared > 0 ~> currentInstruction = None

\* With a user who presses on, every command is answered, or a button has failed
\* under it: then, and only then, the status word PressThrow keeps back leaves
\* host, user and device waiting for each other.
CommandsAreAnswered == owed ~> ~owed \/ (Stuck /\ ButtonFailed)

(***************************************************************************)
(* The instruction is a device that signs what has been reviewed. The      *)
(* review is of the pairs announced, and lasts while the instruction does. *)
(***************************************************************************)
announced == IF InProgress THEN hash.declared ELSE None
reviewed  == IF InProgress THEN read ELSE 0
signed ==
  IF reply.kind = "signature"
    THEN [parts |-> reply.over.pairs, count |-> reply.over.count, read |-> reply.read]
    ELSE [parts |-> 0, count |-> 0, read |-> 0]

Reviewed == INSTANCE ReviewedSigning WITH NoReview <- None, MaxParts <- MaxCount

\* Whatever the packets, the aborts and the instructions in between, each signature
\* ends a review of its own, of all the pairs announced, one after the other.
SignsWhatIsReviewed == Reviewed!Spec
=============================================================================
