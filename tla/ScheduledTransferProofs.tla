----------------------- MODULE ScheduledTransferProofs ----------------------
(***************************************************************************)
(* For every packet size, number of pairs and memo: the transfer with      *)
(* schedule keeps its types, signs one whole schedule, and only pairs the  *)
(* user has read, each in its place of its packet; and it implements       *)
(* ReviewedSigning.  The argument is ScheduleInv.  For every year from 1970 *)
(* on, the release date on display is the date of the time hashed, or the  *)
(* pair is refused.                                                        *)
(***************************************************************************)
EXTENDS Integers, ScheduledTransfer, Calendar, SequenceTheorems, TLAPS

\* A callback that starts no flow takes its step off the display.
LEMMA StepRetires == LeaveScreen => screen' = "frozen"
  BY StepsRetire DEF LeaveScreen

\* cborLength counts down within its 32 bits.
LEMMA LessType ==
  ASSUME CountersOK, NEW n \in 1..MaxChunk
  PROVE  Less(n) \in 0..(Word - 1)
  BY ScheduleAssumption DEF CountersOK, Less

\* ctx->pos stays a byte when it moves over a pair, or half of one.
LEMMA AdvanceType ==
  ASSUME NEW p \in 0..(Wrap - 1), NEW n \in 1..2
  PROVE  Advance(p, n) \in 0..(Wrap - 1)
  BY ScheduleAssumption DEF Advance

(***************************************************************************)
(* The variables that say who is doing what.                               *)
(***************************************************************************)
LEMMA ControlInit == Init => ControlOK
  BY DEF Init, DeviceInit, ControlOK

LEMMA ControlRestart == Restart => ControlOK'
  BY DEF Restart, DeviceRestart, uiIdle, ControlOK

LEMMA ControlNext == ControlOK /\ [Next]_vars => ControlOK'
  <1> SUFFICES ASSUME ControlOK, [Next]_vars PROVE ControlOK'
    OBVIOUS
  <1> USE DEF ControlOK, Ours
  <1>1. CASE Dispatch
    BY <1>1 DEF Dispatch, BadCommand, SwitchInstruction, Refuse, ctxVars
  <1>2. ASSUME NEW n \in Bytes, Initial(n) PROVE ControlOK'
    BY <1>2 DEF Initial, Ask
  <1>3. ASSUME NEW n \in Bytes, NEW size \in 0..(MaxMemo + 1), InitialMemo(n, size)
        PROVE  ControlOK'
    BY <1>3 DEF InitialMemo, AnswerNow, Refuse
  <1>4. ASSUME NEW i \in Ours, InitialRefused(i) PROVE ControlOK'
    BY <1>4 DEF InitialRefused, Refuse
  <1>5. ASSUME NEW i \in Ours, OutOfTurn(i) PROVE ControlOK'
    BY <1>5 DEF OutOfTurn, foundState, Refuse
  <1>6. ASSUME NEW i \in Ours, Pairs(i) PROVE ControlOK'
    BY <1>6 DEF Pairs, AnswerNow, Ask, Refuse, PairFlow
  <1>7. ASSUME NEW n \in 1..MaxChunk, MemoRest(n) PROVE ControlOK'
    BY <1>7 DEF MemoRest, FinishMemo, Ask, Refuse
  <1>8. ASSUME NEW n \in 1..MaxChunk, NEW size \in 1..n, MemoFirst(size, n) PROVE ControlOK'
    BY <1>8 DEF MemoFirst, MemoText, MemoNumber, MemoRefused, FinishMemo, AnswerNow, Ask, Refuse
  <1>9. CASE MemoUnsupported
    BY <1>9, ControlRestart DEF MemoUnsupported
  <1>10. ASSUME NEW junk \in Junk, OtherInstruction(junk) PROVE ControlOK'
    BY <1>10 DEF OtherInstruction, uiIdle, AnswerNow
  <1>11. CASE PressContinueInitial
    BY <1>11, StepRetires DEF PressContinueInitial, PressContinue, ctxVars
  <1>12. CASE PressNext
    BY <1>12, StepRetires DEF PressNext, PressContinue, PressThrow, PairFlow
  <1>13. CASE PressSign
    BY <1>13 DEF PressSign, PressAnswer, uiIdle, ctxVars
  <1>14. CASE PressSignFails
    BY <1>14, StepRetires DEF PressSignFails, PressThrow, ctxVars
  <1>15. CASE PressDecline
    BY <1>15 DEF PressDecline, PressAnswer, uiIdle, ctxVars
  <1>16. CASE PressQuit
    BY <1>16, ControlRestart DEF PressQuit
  <1>17. CASE PowerLost
    BY <1>17, ControlRestart DEF PowerLost
  <1>18. CASE UNCHANGED vars
    BY <1>18 DEF vars, deviceVars, ctxVars
  <1>19. QED
    BY <1>1, <1>2, <1>3, <1>4, <1>5, <1>6, <1>7, <1>8, <1>9, <1>10, <1>11, <1>12,
       <1>13, <1>14, <1>15, <1>16, <1>17, <1>18
    DEF Next, Command, Button

(***************************************************************************)
(* The counters, and what the hash covers.                                 *)
(***************************************************************************)
LEMMA CountersInit == Init => CountersOK
  BY ScheduleAssumption DEF Init, CountersOK, Bytes

LEMMA CountersRestart == Restart => CountersOK'
  BY ScheduleAssumption DEF Restart, CountersOK, Bytes

\* The pairs of one packet: how many handleTransferPairs takes, and where they end.
LEMMA PacketType ==
  ASSUME CountersOK
  PROVE  LET size == IF remaining <= PacketPairs THEN remaining ELSE PacketPairs
         IN  size \in 0..PacketPairs /\ remaining - size \in Bytes
  BY ScheduleAssumption DEF CountersOK, Bytes

LEMMA HashPairType ==
  ASSUME NEW from \in 1..PacketPairs, NEW at \in 0..(Wrap - 1), HashPair(from, at)
  PROVE  inPacket' \in 0..PacketPairs /\ pos' \in 0..(Wrap - 1)
  BY AdvanceType, ScheduleAssumption DEF HashPair

LEMMA HashHalfType ==
  ASSUME NEW from \in 1..PacketPairs, NEW at \in 0..(Wrap - 1), HashHalf(from, at)
  PROVE  inPacket' \in 0..PacketPairs /\ pos' \in 0..(Wrap - 1)
  BY AdvanceType, ScheduleAssumption DEF HashHalf

LEMMA CountersNext == CountersOK /\ [Next]_vars => CountersOK'
  <1> SUFFICES ASSUME CountersOK, [Next]_vars PROVE CountersOK'
    OBVIOUS
  <1>1. CASE Dispatch
    BY <1>1 DEF Dispatch, ctxVars, CountersOK
  <1>2. ASSUME NEW n \in Bytes, Initial(n) PROVE CountersOK'
    BY <1>2 DEF Initial, CountersOK
  <1>3. ASSUME NEW n \in Bytes, NEW size \in 0..(MaxMemo + 1), InitialMemo(n, size)
        PROVE  CountersOK'
    BY <1>3, ScheduleAssumption DEF InitialMemo, CountersOK
  <1>4. ASSUME NEW i \in Ours, InitialRefused(i) PROVE CountersOK'
    BY <1>4 DEF InitialRefused, CountersOK
  <1>5. ASSUME NEW i \in Ours, OutOfTurn(i) PROVE CountersOK'
    BY <1>5 DEF OutOfTurn, CountersOK
  <1>6. ASSUME NEW i \in Ours, Pairs(i) PROVE CountersOK'
    <2> DEFINE size == IF remaining <= PacketPairs THEN remaining ELSE PacketPairs
    <2>1. size \in 0..PacketPairs /\ remaining - size \in Bytes
      BY PacketType
    <2>2. 0 \in 0..(Wrap - 1) /\ 0 \in 0..PacketPairs
      BY ScheduleAssumption
    <2>3. remaining' = remaining - size /\ UNCHANGED <<left, read>>
      BY <1>6 DEF Pairs
    <2>4. inPacket' \in 0..PacketPairs /\ pos' \in 0..(Wrap - 1)
      <3> HIDE DEF size
      <3>1. CASE size = 0 /\ inPacket' = 0 /\ pos' = 0
        BY <2>2, <3>1
      <3>2. CASE size > 0 /\ HashPair(size, 0)
        BY <2>1, <2>2, <3>2, HashPairType, ScheduleAssumption
      <3>3. CASE size > 0 /\ HashHalf(size, 0)
        BY <2>1, <2>2, <3>3, HashHalfType, ScheduleAssumption
      <3>4. QED
        BY <1>6, <3>1, <3>2, <3>3 DEF Pairs, size
    <2>5. QED
      BY <2>1, <2>3, <2>4 DEF CountersOK
  <1>7. ASSUME NEW n \in 1..MaxChunk, MemoRest(n) PROVE CountersOK'
    BY <1>7, LessType DEF MemoRest, CountersOK
  <1>8. ASSUME NEW n \in 1..MaxChunk, NEW size \in 1..n, MemoFirst(size, n) PROVE CountersOK'
    <2>1. size \in 1..MaxChunk
      BY ScheduleAssumption
    <2>2. left' \in 0..(Word - 1)
      BY <1>8, <2>1, LessType DEF MemoFirst, MemoText, MemoNumber, MemoRefused
    <2>3. QED
      BY <1>8, <2>2 DEF MemoFirst, CountersOK
  <1>9. CASE MemoUnsupported
    BY <1>9, CountersRestart DEF MemoUnsupported
  <1>10. ASSUME NEW junk \in Junk, OtherInstruction(junk) PROVE CountersOK'
    BY <1>10, ScheduleAssumption DEF OtherInstruction, Junk, CountersOK, Bytes
  <1>11. CASE PressContinueInitial
    BY <1>11 DEF PressContinueInitial, ctxVars, CountersOK
  <1>12. CASE PressNext
    <2>1. read' \in Nat /\ UNCHANGED <<remaining, left>>
      BY <1>12 DEF PressNext, CountersOK
    <2>2. inPacket' \in 0..PacketPairs /\ pos' \in 0..(Wrap - 1)
      BY <1>12, HashPairType, HashHalfType, ScheduleAssumption DEF PressNext, CountersOK
    <2>3. QED
      BY <2>1, <2>2 DEF CountersOK
  <1>13. CASE PressSign
    BY <1>13 DEF PressSign, ctxVars, CountersOK
  <1>14. CASE PressSignFails
    BY <1>14 DEF PressSignFails, ctxVars, CountersOK
  <1>15. CASE PressDecline
    BY <1>15 DEF PressDecline, ctxVars, CountersOK
  <1>16. CASE PressQuit
    BY <1>16, CountersRestart DEF PressQuit
  <1>17. CASE PowerLost
    BY <1>17, CountersRestart DEF PowerLost
  <1>18. CASE UNCHANGED vars
    BY <1>18 DEF vars, ctxVars, CountersOK
  <1>19. QED
    BY <1>1, <1>2, <1>3, <1>4, <1>5, <1>6, <1>7, <1>8, <1>9, <1>10, <1>11, <1>12,
       <1>13, <1>14, <1>15, <1>16, <1>17, <1>18
    DEF Next, Command, Button

LEMMA HashInit == Init => hash \in Transactions
  BY ScheduleAssumption DEF Init, Transactions, NoTransaction, Bytes

LEMMA HashRestart == Restart => hash' \in Transactions
  BY ScheduleAssumption DEF Restart, Transactions, NoTransaction, Bytes

(***************************************************************************)
(* What feeding the hash does to what it covers.                           *)
(***************************************************************************)
LEMMA NothingType == NoTransaction \in Transactions
  BY ScheduleAssumption DEF Transactions, NoTransaction, Bytes

LEMMA HeaderMade ==
  ASSUME NEW i \in {Plain, Memo}, NEW n \in Bytes, NEW size \in Nat
  PROVE  LET h == Header(i, n, size) IN
         /\ h \in Transactions
         /\ h.kind = i /\ h.declared = n /\ h.pairs = 0 /\ ~h.half /\ ~h.counted
  <1>1. [NoTransaction EXCEPT !.kind = i, !.declared = n, !.memoSize = size] \in Transactions
    BY NothingType DEF Transactions
  <1>2. QED
    BY <1>1 DEF Header, NoTransaction

LEMMA CountFed ==
  ASSUME NEW h \in Transactions, NEW n \in Bytes
  PROVE  LET g == [h EXCEPT !.counted = TRUE, !.count = n] IN
         /\ g \in Transactions
         /\ g.counted /\ g.count = n
         /\ g.kind = h.kind /\ g.declared = h.declared /\ g.pairs = h.pairs /\ g.half = h.half
  BY DEF Transactions

LEMMA MemoFed ==
  ASSUME hash \in Transactions, NEW n \in Nat
  PROVE  LET g == HashMemo(n) IN
         /\ g \in Transactions
         /\ g.kind = hash.kind /\ g.declared = hash.declared
         /\ g.pairs = hash.pairs /\ g.half = hash.half
  BY DEF HashMemo, Transactions

LEMMA PairFed ==
  ASSUME hash \in Transactions
  PROVE  LET g == [hash EXCEPT !.pairs = @ + 1] IN
         /\ g \in Transactions
         /\ g.pairs = hash.pairs + 1
         /\ g.kind = hash.kind /\ g.declared = hash.declared
         /\ g.counted = hash.counted /\ g.count = hash.count /\ g.half = hash.half
  BY DEF Transactions

LEMMA HalfFed ==
  ASSUME hash \in Transactions
  PROVE  [hash EXCEPT !.half = TRUE] \in Transactions
  BY DEF Transactions

LEMMA FinishMemoHashes ==
  ASSUME hash \in Transactions, CountersOK, NEW n \in Nat, FinishMemo(n)
  PROVE  /\ hash' \in Transactions
         /\ hash'.counted /\ hash'.count = remaining
         /\ hash'.kind = hash.kind /\ hash'.declared = hash.declared
         /\ hash'.pairs = hash.pairs /\ hash'.half = hash.half
  <1> DEFINE g == HashMemo(n)
  <1>1. remaining \in Bytes
    BY DEF CountersOK
  <1>2. /\ g \in Transactions
        /\ g.kind = hash.kind /\ g.declared = hash.declared
        /\ g.pairs = hash.pairs /\ g.half = hash.half
    BY MemoFed
  <1>3. hash' = [g EXCEPT !.counted = TRUE, !.count = remaining]
    BY DEF FinishMemo
  <1> HIDE DEF g
  <1>4. /\ hash' \in Transactions
        /\ hash'.counted /\ hash'.count = remaining
        /\ hash'.kind = g.kind /\ hash'.declared = g.declared
        /\ hash'.pairs = g.pairs /\ hash'.half = g.half
    BY <1>1, <1>2, <1>3, CountFed
  <1>5. QED
    BY <1>2, <1>4

LEMMA HashNext == TypeOK /\ [Next]_vars => hash' \in Transactions
  <1> SUFFICES ASSUME TypeOK, [Next]_vars PROVE hash' \in Transactions
    OBVIOUS
  <1>0. hash \in Transactions /\ CountersOK
    BY DEF TypeOK
  <1>1. CASE hash' \in {hash, NoTransaction}
    BY <1>0, <1>1, NothingType
  <1>2. ASSUME NEW n \in Bytes, Initial(n) PROVE hash' \in Transactions
    BY <1>2, HeaderMade, CountFed DEF Initial, Bytes
  <1>3. ASSUME NEW n \in Bytes, NEW size \in 0..(MaxMemo + 1), InitialMemo(n, size)
        PROVE  hash' \in Transactions
    BY <1>3, HeaderMade, ScheduleAssumption DEF InitialMemo
  <1>4. ASSUME NEW i \in Ours, Pairs(i) PROVE hash' \in Transactions
    BY <1>0, <1>4, PairFed, HalfFed DEF Pairs, HashPair, HashHalf
  <1>5. ASSUME NEW n \in 1..MaxChunk, MemoRest(n) PROVE hash' \in Transactions
    BY <1>0, <1>5, FinishMemoHashes, MemoFed DEF MemoRest
  <1>6. ASSUME NEW n \in 1..MaxChunk, NEW size \in 1..n, MemoFirst(size, n)
        PROVE  hash' \in Transactions
    BY <1>0, <1>6, FinishMemoHashes, MemoFed DEF MemoFirst, MemoText, MemoNumber, MemoRefused
  <1>7. CASE PressNext
    BY <1>0, <1>7, PairFed, HalfFed DEF PressNext, HashPair, HashHalf
  <1>8. CASE Restart
    BY <1>8, HashRestart
  <1>9. ASSUME NEW n \in 1..MaxChunk PROVE n \in Nat
    BY ScheduleAssumption
  <1>10. QED
    <2>1. CASE Button
      BY <2>1, <1>1, <1>7, <1>8
      DEF Button, PressContinueInitial, PressSign, PressSignFails, PressDecline, PressQuit
    <2>2. CASE Command
      BY <2>2, <1>1, <1>2, <1>3, <1>4, <1>5, <1>6, <1>8
      DEF Command, Dispatch, InitialRefused, OutOfTurn, MemoUnsupported, OtherInstruction
    <2>3. CASE PowerLost \/ UNCHANGED vars
      BY <2>3, <1>1, HashRestart DEF PowerLost, vars
    <2>4. QED
      BY <2>1, <2>2, <2>3 DEF Next

LEMMA TypeInit == Init => TypeOK
  BY ControlInit, CountersInit, HashInit DEF TypeOK

LEMMA TypeNext == TypeOK /\ [Next]_vars => TypeOK'
  BY ControlNext, CountersNext, HashNext DEF TypeOK

\* Every variable keeps to the values its C type and the handlers allow: no
\* counter underflows, and ctx->pos stays a byte inside the packet.
THEOREM TypeCorrect == Spec => []TypeOK
  BY TypeInit, TypeNext, PTL DEF Spec

(***************************************************************************)
(* ScheduleInv.  First the steps that end the instruction.                 *)
(***************************************************************************)
LEMMA NotOurs == None \notin Ours /\ Other \notin Ours
  BY NoneIsNoInstruction DEF Ours, Plain, Memo, Other

\* An answered command, or an instruction in progress, is no deadlock.
LEMMA NotStuck ==
  ASSUME ~owed' \/ InProgress'
  PROVE  StuckInv'
  BY NotOurs DEF StuckInv, Stuck, InProgress

LEMMA AwayInv ==
  ASSUME currentInstruction' \notin Ours, DialogInv', StuckInv'
  PROVE  ScheduleInv'
  BY DEF ScheduleInv, MemoInv, PairsInv, InProgress

LEMMA RefuseInv ==
  ASSUME ScheduleInv, ~owed, Refuse
  PROVE  ScheduleInv'
  BY AwayInv, NotOurs, NotStuck DEF Refuse, ScheduleInv, DialogInv

LEMMA IdleInv ==
  ASSUME uiIdle, owed' = FALSE
  PROVE  ScheduleInv'
  BY AwayInv, NotOurs, NotStuck DEF uiIdle, DialogInv

LEMMA ThrowInv ==
  ASSUME PressThrow, owed \in BOOLEAN, ButtonFailed'
  PROVE  ScheduleInv'
  <1>1. StuckInv'
    BY DEF StuckInv
  <1>2. QED
    BY <1>1, AwayInv, NotOurs, StepRetires DEF PressThrow, DialogInv, InProgress

LEMMA InvInit == Init => ScheduleInv
  BY NotOurs
  DEF Init, DeviceInit, ScheduleInv, DialogInv, StuckInv, Stuck, MemoInv, PairsInv, InProgress

LEMMA InvRestart == Restart => ScheduleInv'
  BY IdleInv DEF Restart, DeviceRestart

(***************************************************************************)
(* The memo's steps.                                                       *)
(***************************************************************************)
LEMMA InvInitial ==
  ASSUME TypeOK, ScheduleInv, NEW n \in Bytes, Initial(n)
  PROVE  ScheduleInv'
  <1>1. /\ hash'.kind = Plain /\ hash'.declared = n /\ hash'.pairs = 0 /\ ~hash'.half
        /\ hash'.counted /\ hash'.count = n
    <2> DEFINE h == Header(Plain, n, 0)
    <2>1. /\ h \in Transactions
          /\ h.kind = Plain /\ h.declared = n /\ h.pairs = 0 /\ ~h.half
      BY HeaderMade
    <2>2. hash' = [h EXCEPT !.counted = TRUE, !.count = n]
      BY DEF Initial
    <2> HIDE DEF h
    <2>3. QED
      BY <2>1, <2>2, CountFed
  <1>2. /\ currentInstruction' = Plain /\ owed' = TRUE /\ screen' = "initial"
        /\ state' = "PAIRS" /\ remaining' = n /\ read' = 0
    BY DEF Initial, Ask
  <1>3. QED
    BY <1>1, <1>2, NotStuck DEF ScheduleInv, DialogInv, MemoInv, PairsInv, InProgress, Ours

LEMMA InvInitialMemo ==
  ASSUME TypeOK, ScheduleInv, NEW n \in Bytes, NEW size \in 0..(MaxMemo + 1),
         InitialMemo(n, size)
  PROVE  ScheduleInv'
  <1>1. CASE size > MaxMemo
    BY <1>1, RefuseInv, ScheduleAssumption DEF InitialMemo, Accepts
  <1>2. CASE size <= MaxMemo
    <2>1. hash'.kind = Memo /\ hash'.declared = n /\ hash'.pairs = 0 /\ ~hash'.half
      BY HeaderMade, ScheduleAssumption DEF InitialMemo
    <2>2. /\ currentInstruction' = Memo /\ owed' = FALSE /\ state' = "MEMO_START"
          /\ remaining' = n /\ read' = 0 /\ screen' = screen /\ ~owed
      BY <1>2 DEF InitialMemo, AnswerNow, Accepts
    <2>3. QED
      BY <2>1, <2>2, NotStuck DEF ScheduleInv, DialogInv, MemoInv, PairsInv, InProgress, Ours
  <1>3. QED
    BY <1>1, <1>2, ScheduleAssumption

\* While a memo is awaited the instruction is ours, and nothing but it is hashed.
LEMMA MemoAwaited ==
  ASSUME ScheduleInv, Accepts(Memo), foundState \in {"MEMO_START", "MEMO"}
  PROVE  /\ currentInstruction = Memo /\ hash.kind = Memo
         /\ hash.pairs = 0 /\ ~hash.half /\ remaining = hash.declared /\ read = 0
         /\ ~owed /\ screen \in {"idle", "frozen"} /\ state = foundState
  BY NotOurs
  DEF Accepts, foundState, isInitialCall, ScheduleInv, DialogInv, MemoInv, InProgress, Ours

LEMMA InvFinishMemo ==
  ASSUME TypeOK, ScheduleInv, Accepts(Memo), foundState \in {"MEMO_START", "MEMO"},
         NEW n \in Nat, FinishMemo(n), UNCHANGED <<remaining, read>>
  PROVE  ScheduleInv'
  <1>1. /\ hash'.kind = Memo /\ hash'.pairs = 0 /\ ~hash'.half
        /\ hash'.counted /\ hash'.count = remaining /\ hash'.declared = remaining
    BY FinishMemoHashes, MemoAwaited DEF TypeOK
  <1>2. /\ currentInstruction' = Memo /\ owed' = TRUE /\ screen' = "initial"
        /\ state' = "PAIRS" /\ remaining' = remaining /\ read' = 0
    BY MemoAwaited DEF FinishMemo, Ask
  <1>3. QED
    BY <1>1, <1>2, NotStuck DEF ScheduleInv, DialogInv, MemoInv, PairsInv, InProgress, Ours

LEMMA InvMemoFirst ==
  ASSUME TypeOK, ScheduleInv, NEW n \in 1..MaxChunk, NEW size \in 1..n, MemoFirst(size, n)
  PROVE  ScheduleInv'
  <1>0. Accepts(Memo) /\ ~owed /\ foundState = "MEMO_START" /\ UNCHANGED <<remaining, read>>
    BY DEF MemoFirst, Accepts
  <1>1. n \in Nat
    BY ScheduleAssumption
  <1>2. CASE FinishMemo(n)
    BY <1>0, <1>1, <1>2, InvFinishMemo
  <1>3. CASE Refuse
    BY <1>0, <1>3, RefuseInv
  <1>4. CASE state' = "MEMO" /\ hash' = HashMemo(n) /\ AnswerNow(Memo)
    <2>1. hash'.kind = Memo /\ hash'.pairs = 0 /\ ~hash'.half /\ hash'.declared = hash.declared
      BY <1>0, <1>1, <1>4, MemoFed, MemoAwaited DEF TypeOK
    <2>2. /\ currentInstruction' = Memo /\ owed' = FALSE /\ screen' \in {"idle", "frozen"}
          /\ state' = "MEMO" /\ remaining' = hash.declared /\ read' = 0
      BY <1>0, <1>4, MemoAwaited DEF AnswerNow
    <2>3. QED
      BY <2>1, <2>2, NotStuck DEF ScheduleInv, DialogInv, MemoInv, PairsInv, InProgress, Ours
  <1>5. QED
    BY <1>2, <1>3, <1>4 DEF MemoFirst, MemoText, MemoNumber, MemoRefused

LEMMA InvMemoRest ==
  ASSUME TypeOK, ScheduleInv, NEW n \in 1..MaxChunk, MemoRest(n)
  PROVE  ScheduleInv'
  <1>0. Accepts(Memo) /\ ~owed /\ foundState = "MEMO" /\ UNCHANGED <<remaining, read>>
    BY DEF MemoRest, Accepts
  <1>1. n \in Nat
    BY ScheduleAssumption
  <1>2. CASE FinishMemo(n)
    BY <1>0, <1>1, <1>2, InvFinishMemo
  <1>3. CASE Refuse
    BY <1>0, <1>3, RefuseInv
  <1>4. QED
    BY <1>2, <1>3 DEF MemoRest

(***************************************************************************)
(* The pairs' steps.                                                       *)
(***************************************************************************)
\* A pair is hashed and shown: `rest` pairs are in later packets, `from` in this
\* one, this pair included, and all those hashed before have been read.
LEMMA InvHashPair ==
  ASSUME TypeOK, NEW rest \in Nat, NEW from \in 1..PacketPairs, NEW at,
         hash.kind \in Ours, hash.counted, ~hash.half, hash.count = hash.declared,
         hash.pairs + rest + from = hash.count,
         read' = hash.pairs,
         HashPair(from, at),
         currentInstruction' = hash.kind, owed' = TRUE, state' = "PAIRS",
         remaining' = rest, screen' = PairFlow(rest, from)
  PROVE  ScheduleInv'
  <1>1. /\ hash'.pairs = hash.pairs + 1 /\ hash'.pairs \in Nat /\ hash.pairs \in Nat
        /\ hash'.kind = hash.kind /\ hash'.counted /\ ~hash'.half
        /\ hash'.count = hash.count /\ hash'.declared = hash.count
    <2>1. hash' = [hash EXCEPT !.pairs = @ + 1] /\ hash \in Transactions
      BY DEF HashPair, TypeOK
    <2>2. hash.pairs \in Nat
      BY <2>1 DEF Transactions
    <2>3. QED
      BY <2>1, <2>2, PairFed
  <1>2. inPacket' = from - 1 /\ hash.count \in Nat /\ from \in Nat
    BY ScheduleAssumption DEF HashPair, TypeOK, Transactions, Bytes
  <1>3. hash'.pairs > 0 /\ hash'.pairs + remaining' + inPacket' = hash'.count
    BY <1>1, <1>2
  <1>4. read' = hash'.pairs - 1
    BY <1>1
  <1>5. /\ screen' = "pair" => remaining' + inPacket' > 0
        /\ screen' = "pairSign" => remaining' = 0 /\ inPacket' = 0
    BY <1>2 DEF PairFlow
  <1>6. screen' \in {"pair", "pairSign"}
    BY DEF PairFlow
  <1>7. InProgress' /\ DialogInv' /\ MemoInv'
    BY <1>6 DEF InProgress, DialogInv, MemoInv
  <1>8. PairsInv'
    BY <1>1, <1>3, <1>4, <1>5, <1>6 DEF PairsInv
  <1>9. QED
    BY <1>1, <1>7, <1>8, NotStuck DEF ScheduleInv

\* Between packets, everything hashed has been read and nothing is left over.
LEMMA PacketAwaited ==
  ASSUME TypeOK, ScheduleInv, NEW i \in Ours, Accepts(i), foundState = "PAIRS"
  PROVE  /\ currentInstruction = i /\ hash.kind = i /\ state = "PAIRS"
         /\ hash.counted /\ ~hash.half /\ hash.count = hash.declared
         /\ hash.pairs + remaining = hash.count /\ read = hash.pairs
         /\ ~owed /\ screen \in {"idle", "frozen"}
  <1>1. /\ currentInstruction = i /\ state = "PAIRS" /\ ~owed /\ InProgress
    BY NotOurs DEF Accepts, foundState, isInitialCall, InProgress
  <1>2. screen \in {"idle", "frozen"} /\ hash.kind = i
    BY <1>1 DEF ScheduleInv, DialogInv
  <1>3. /\ hash.counted /\ ~hash.half /\ hash.count = hash.declared /\ read = hash.pairs
        /\ IF hash.pairs = 0 THEN remaining = hash.count
           ELSE hash.pairs + remaining + inPacket = hash.count
        /\ hash.pairs > 0 => inPacket = 0
    BY <1>1, <1>2 DEF ScheduleInv, PairsInv
  <1>4. hash.pairs \in Nat /\ remaining \in Nat /\ inPacket \in Nat /\ hash.count \in Nat
    BY ScheduleAssumption DEF TypeOK, CountersOK, Transactions, Bytes
  <1>5. hash.pairs + remaining = hash.count
    BY <1>3, <1>4
  <1>6. QED
    BY <1>1, <1>2, <1>3, <1>5

LEMMA InvPairs ==
  ASSUME TypeOK, ScheduleInv, NEW i \in Ours, Pairs(i)
  PROVE  ScheduleInv'
  <1> DEFINE size == IF remaining <= PacketPairs THEN remaining ELSE PacketPairs
  <1>1. Accepts(i) /\ ~owed /\ foundState = "PAIRS"
    BY DEF Pairs, Accepts
  <1>2. size \in 0..PacketPairs /\ remaining - size \in Nat /\ remaining \in Nat
    BY PacketType DEF TypeOK, CountersOK, Bytes
  <1>3. remaining' = remaining - size /\ UNCHANGED <<state, left, read>>
    BY DEF Pairs
  <1>4. CASE size = 0 /\ inPacket' = 0 /\ pos' = 0 /\ UNCHANGED hash /\ AnswerNow(i)
    <2>1. /\ currentInstruction' = i /\ hash' = hash /\ owed' = FALSE /\ screen' = screen
          /\ state' = "PAIRS" /\ remaining' = remaining /\ read' = read /\ inPacket' = 0
      BY <1>1, <1>2, <1>3, <1>4, PacketAwaited DEF AnswerNow
    <2>2. InProgress' /\ DialogInv' /\ MemoInv'
      BY <1>1, <2>1, PacketAwaited DEF InProgress, DialogInv, MemoInv
    <2>3. hash.pairs \in Nat
      BY DEF TypeOK, Transactions
    <2>4. PairsInv'
      BY <1>1, <1>2, <2>1, <2>3, PacketAwaited DEF PairsInv
    <2>5. QED
      BY <1>1, <2>1, <2>2, <2>4, PacketAwaited, NotStuck DEF ScheduleInv
  <1>5. CASE size > 0 /\ HashPair(size, 0) /\ Ask(i, PairFlow(remaining - size, size))
    <2> HIDE DEF size
    <2>1. /\ currentInstruction' = i /\ owed' = TRUE /\ state' = "PAIRS"
          /\ screen' = PairFlow(remaining - size, size)
      BY <1>1, <1>3, <1>5, PacketAwaited DEF Ask
    <2>2. size \in 1..PacketPairs
      BY <1>2, <1>5, ScheduleAssumption
    <2>3. hash.pairs \in Nat /\ hash.pairs + remaining = hash.count
      BY <1>1, PacketAwaited DEF TypeOK, Transactions
    <2>4. hash.pairs + (remaining - size) + size = hash.count
      BY <1>2, <2>2, <2>3, ScheduleAssumption
    <2>5. read' = hash.pairs /\ hash.kind = i
      BY <1>1, <1>3, PacketAwaited
    <2>6. hash.counted /\ ~hash.half /\ hash.count = hash.declared
      BY <1>1, PacketAwaited
    <2>7. QED
      BY <1>2, <1>3, <1>5, <2>1, <2>2, <2>4, <2>5, <2>6, InvHashPair
  <1>6. CASE size > 0 /\ HashHalf(size, 0) /\ Refuse
    BY <1>1, <1>6, RefuseInv
  <1>7. QED
    BY <1>4, <1>5, <1>6 DEF Pairs

(***************************************************************************)
(* The buttons' steps.                                                     *)
(***************************************************************************)
LEMMA InvContinueInitial ==
  ASSUME TypeOK, ScheduleInv, PressContinueInitial
  PROVE  ScheduleInv'
  <1>1. /\ currentInstruction' = currentInstruction /\ owed' = FALSE /\ screen' = "frozen"
        /\ UNCHANGED <<hash, state, remaining, inPacket, read>>
    BY StepRetires DEF PressContinueInitial, PressContinue, ctxVars
  <1>2. CASE ~InProgress
    BY <1>1, <1>2, AwayInv, NotStuck DEF InProgress, DialogInv
  <1>3. CASE InProgress
    <2>1. state = "PAIRS" /\ screen = "initial"
      BY <1>3 DEF PressContinueInitial, PressContinue, ScheduleInv, DialogInv
    <2>2. hash.pairs = 0 /\ read = hash.pairs
      BY <1>3, <2>1 DEF ScheduleInv, PairsInv
    <2>3. InProgress' /\ DialogInv' /\ MemoInv'
      BY <1>1, <1>3, <2>1 DEF InProgress, DialogInv, MemoInv
    <2>4. PairsInv'
      BY <1>1, <1>3, <2>1, <2>2 DEF ScheduleInv, PairsInv
    <2>5. QED
      BY <1>1, <1>3, <2>1, <2>3, <2>4, NotStuck DEF ScheduleInv
  <1>4. QED
    BY <1>2, <1>3

\* While a pair can be paged on, the schedule is whole up to it.
LEMMA PairOnDisplay ==
  ASSUME TypeOK, ScheduleInv, screen \in {"pair", "pairSign"}
  PROVE  /\ owed /\ InProgress /\ state = "PAIRS"
         /\ hash.kind = currentInstruction
         /\ hash.counted /\ ~hash.half /\ hash.count = hash.declared
         /\ hash.pairs > 0 /\ hash.pairs + remaining + inPacket = hash.count
         /\ hash.pairs \in Nat /\ remaining \in Nat /\ inPacket \in 0..PacketPairs
         /\ read + 1 = hash.pairs
         /\ screen = "pair" => remaining + inPacket > 0
         /\ screen = "pairSign" => remaining = 0 /\ inPacket = 0
  <1>1. owed /\ InProgress /\ state = "PAIRS"
    BY DEF ScheduleInv, DialogInv
  <1>2. /\ hash.pairs > 0 /\ read = hash.pairs - 1
        /\ IF hash.pairs = 0 THEN remaining = hash.count
           ELSE hash.pairs + remaining + inPacket = hash.count
        /\ screen = "pair" => remaining + inPacket > 0
        /\ screen = "pairSign" => remaining = 0 /\ inPacket = 0
    BY <1>1 DEF ScheduleInv, PairsInv
  <1>3. hash.kind = currentInstruction
    BY <1>1 DEF ScheduleInv
  <1>4. hash.counted /\ ~hash.half /\ hash.count = hash.declared
    BY <1>1 DEF ScheduleInv, PairsInv
  <1>5. hash.pairs \in Nat /\ remaining \in Nat /\ inPacket \in 0..PacketPairs
    BY ScheduleAssumption DEF TypeOK, CountersOK, Transactions, Bytes
  <1>6. read + 1 = hash.pairs /\ hash.pairs + remaining + inPacket = hash.count
    BY <1>2, <1>5
  <1>7. QED
    BY <1>1, <1>2, <1>3, <1>4, <1>5, <1>6

LEMMA InvNextPair ==
  ASSUME TypeOK, ScheduleInv, PressNext
  PROVE  ScheduleInv'
  <1>1. screen = "pair" /\ read' = read + 1 /\ UNCHANGED <<state, remaining, left>>
    BY DEF PressNext
  <1>2. CASE inPacket = 0 /\ PressContinue /\ UNCHANGED <<hash, pos, inPacket>>
    <2>1. /\ currentInstruction' = currentInstruction /\ owed' = FALSE
          /\ screen' = "frozen"
      BY <1>2, StepRetires DEF PressContinue
    <2>2. InProgress' /\ DialogInv' /\ MemoInv'
      BY <1>1, <2>1, PairOnDisplay DEF InProgress, DialogInv, MemoInv
    <2>3. read' = hash.pairs
      BY <1>1, PairOnDisplay
    <2>4. PairsInv'
      BY <1>1, <1>2, <2>1, <2>3, PairOnDisplay DEF PairsInv
    <2>5. QED
      BY <1>1, <1>2, <2>1, <2>2, <2>4, PairOnDisplay, NotStuck DEF ScheduleInv
  <1>3. CASE /\ inPacket > 0 /\ HashPair(inPacket, pos)
             /\ screen' = PairFlow(remaining, inPacket)
             /\ UNCHANGED <<currentInstruction, owed, reply>>
    <2>1. inPacket \in 1..PacketPairs /\ hash.kind \in Ours /\ read' = hash.pairs
      BY <1>1, <1>3, PairOnDisplay, ScheduleAssumption DEF InProgress
    <2>2. owed' = TRUE /\ currentInstruction' = hash.kind /\ state' = "PAIRS"
      BY <1>1, <1>3, PairOnDisplay DEF TypeOK, ControlOK
    <2>3. QED
      BY <1>1, <1>3, <2>1, <2>2, PairOnDisplay, InvHashPair
  <1>4. CASE inPacket > 0 /\ HashHalf(inPacket, pos) /\ PressThrow
    <2>1. hash'.half
      BY <1>4, HalfFed DEF TypeOK, HashHalf
    <2>2. QED
      BY <1>4, <2>1, ThrowInv DEF TypeOK, ControlOK, ButtonFailed
  <1>5. QED
    BY <1>2, <1>3, <1>4 DEF PressNext

LEMMA InvNext == TypeOK /\ ScheduleInv /\ [Next]_vars => ScheduleInv'
  <1> SUFFICES ASSUME TypeOK, ScheduleInv, [Next]_vars PROVE ScheduleInv'
    OBVIOUS
  <1>1. CASE Dispatch
    BY <1>1, RefuseInv DEF Dispatch, BadCommand, SwitchInstruction
  <1>2. ASSUME NEW i \in Ours, InitialRefused(i) \/ OutOfTurn(i) PROVE ScheduleInv'
    BY <1>2, RefuseInv DEF InitialRefused, OutOfTurn, Accepts
  <1>3. ASSUME NEW junk \in Junk, OtherInstruction(junk) PROVE ScheduleInv'
    <2>1. CASE uiIdle /\ owed' = FALSE
      BY <2>1, IdleInv
    <2>2. CASE AnswerNow(Other)
      BY <1>3, <2>2, AwayInv, NotOurs, NotStuck
      DEF OtherInstruction, AnswerNow, Accepts, ScheduleInv, DialogInv
    <2>3. QED
      BY <1>3, <2>1, <2>2 DEF OtherInstruction
  <1>4. CASE Command
    BY <1>4, <1>1, <1>2, <1>3, InvInitial, InvInitialMemo, InvPairs, InvMemoFirst, InvMemoRest,
       InvRestart
    DEF Command, MemoUnsupported
  <1>5. CASE PressSign \/ PressDecline \/ PressQuit \/ PowerLost
    BY <1>5, IdleInv, InvRestart DEF PressSign, PressDecline, PressQuit, PowerLost, PressAnswer
  <1>6. CASE PressSignFails
    BY <1>6, ThrowInv DEF PressSignFails, TypeOK, ControlOK, ButtonFailed
  <1>7. CASE UNCHANGED vars
    BY <1>7
    DEF vars, deviceVars, ctxVars, ScheduleInv, DialogInv, StuckInv, Stuck, ButtonFailed, MemoInv,
        PairsInv, InProgress
  <1>8. QED
    BY <1>4, <1>5, <1>6, <1>7, InvContinueInitial, InvNextPair DEF Next, Button

(***************************************************************************)
(* What a signature is worth.                                              *)
(***************************************************************************)
\* The signature made now covers a whole schedule that has been read.
LEMMA SignatureMade ==
  ASSUME TypeOK, ScheduleInv, screen = "pairSign"
  PROVE  WholeSchedule(Signature.over) /\ Signature.read = Signature.over.pairs
  <1>1. Signature.over = hash /\ Signature.read = read + 1
    BY DEF Signature
  <1>2. hash.pairs = hash.count
    BY PairOnDisplay
  <1>3. QED
    BY <1>1, <1>2, PairOnDisplay DEF WholeSchedule, InProgress

\* Any other step leaves the last reply or replaces it by one without signature.
LEMMA ReplyNext ==
  ASSUME [Next]_vars
  PROVE  \/ reply' = reply
         \/ reply' \in {Success, Refusal, Rejection, NoReply}
         \/ screen = "pairSign" /\ reply' = Signature
  <1> USE DEF AnswerNow, Ask, Refuse
  <1>1. CASE Command
    BY <1>1 DEF Command, Dispatch, BadCommand, SwitchInstruction, Initial, InitialMemo,
       InitialRefused, OutOfTurn, MemoFirst, MemoText, MemoNumber, MemoRefused, MemoRest,
       FinishMemo, MemoUnsupported, Restart, DeviceRestart, Pairs, OtherInstruction
  <1>2. CASE Button
    BY <1>2 DEF Button, PressContinueInitial, PressNext, PressSign, PressSignFails, PressDecline,
       PressQuit, PressContinue, PressThrow, PressAnswer, Restart, DeviceRestart
  <1>3. CASE PowerLost \/ UNCHANGED vars
    BY <1>3 DEF PowerLost, Restart, DeviceRestart, vars, deviceVars
  <1>4. QED
    BY <1>1, <1>2, <1>3 DEF Next

SignatureInv == SignedIsWholeSchedule /\ EveryPairWasRead

LEMMA SignatureNext ==
  ASSUME TypeOK, ScheduleInv, SignatureInv, [Next]_vars
  PROVE  SignatureInv'
  <1>1. CASE reply' = reply
    BY <1>1 DEF SignatureInv, SignedIsWholeSchedule, EveryPairWasRead, WholeSchedule
  <1>2. CASE reply' \in {Success, Refusal, Rejection, NoReply}
    BY <1>2
    DEF SignatureInv, SignedIsWholeSchedule, EveryPairWasRead, Success, Refusal, Rejection, NoReply
  <1>3. CASE screen = "pairSign" /\ reply' = Signature
    BY <1>3, SignatureMade
    DEF SignatureInv, SignedIsWholeSchedule, EveryPairWasRead, WholeSchedule
  <1>4. QED
    BY <1>1, <1>2, <1>3, ReplyNext

LEMMA SignatureInit == Init => SignatureInv
  BY DEF Init, DeviceInit, NoReply, SignatureInv, SignedIsWholeSchedule, EveryPairWasRead

\* At every point of the dialogue, what is hashed, what is still to come and what
\* the user has read add up to the schedule that was announced.
THEOREM ScheduleAddsUp == Spec => []ScheduleInv
  <1>1. Init => TypeOK /\ ScheduleInv
    BY TypeInit, InvInit
  <1>2. TypeOK /\ ScheduleInv /\ [Next]_vars => (TypeOK /\ ScheduleInv)'
    BY TypeNext, InvNext
  <1>3. QED
    BY <1>1, <1>2, PTL DEF Spec

LEMMA SignatureAlways == Spec => []SignatureInv
  <1>1. TypeOK /\ ScheduleInv /\ SignatureInv /\ [Next]_vars => SignatureInv'
    BY SignatureNext
  <1>2. QED
    BY <1>1, SignatureInit, TypeCorrect, ScheduleAddsUp, PTL DEF Spec

\* The device signs only whole schedules: as many whole pairs as the hashed count
\* says, and the count that was announced.
THEOREM SignsWholeSchedules == Spec => []SignedIsWholeSchedule
  BY SignatureAlways, PTL DEF SignatureInv

\* The device signs only what the user has paged through, pair by pair.
THEOREM SignsWhatWasRead == Spec => []EveryPairWasRead
  BY SignatureAlways, PTL DEF SignatureInv

-----------------------------------------------------------------------------
(***************************************************************************)
(* The place of a pair.  For every packet size and number of pairs the     *)
(* byte ctx->pos of the transfer with schedule stands behind the pair on   *)
(* display, whichever packet brought it.  ScheduleInv does not know where  *)
(* packets begin; PlaceInv adds it.                                        *)
(***************************************************************************)
\* Which pair of its packet was hashed last.
Place == ((hash.pairs - 1) % PacketPairs) + 1

\* Every packet but the last is full, and pos follows the pairs.
PlaceInv ==
  InProgress /\ state = "PAIRS" /\ hash.pairs > 0 =>
    /\ screen \in {"pair", "pairSign"} => pos = 2 * Place
    /\ Place + inPacket <= PacketPairs
    /\ remaining > 0 => Place + inPacket = PacketPairs
-----------------------------------------------------------------------------
(***************************************************************************)
(* Counting modulo the size of a packet.                                   *)
(***************************************************************************)
LEMMA Divided ==
  ASSUME NEW n \in Nat
  PROVE  /\ n \div PacketPairs \in Int /\ n % PacketPairs \in 0..(PacketPairs - 1)
         /\ n = PacketPairs * (n \div PacketPairs) + (n % PacketPairs)
  BY ScheduleAssumption

LEMMA NoneOrOnePacket ==
  ASSUME NEW k \in Int, PacketPairs * k > -PacketPairs, PacketPairs * k <= PacketPairs
  PROVE  k \in {0, 1}
  <1>1. PacketPairs \in Nat \ {0} /\ PacketPairs * k \in Int
    BY ScheduleAssumption
  <1>2. \A m \in Nat : PacketPairs * m >= 0
    BY <1>1
  <1>3. k < 0 => PacketPairs * k <= -PacketPairs
    <2>1. PacketPairs * (-k - 1) = -(PacketPairs * k) - PacketPairs
      BY <1>1
    <2>2. QED
      BY <1>1, <1>2, <2>1
  <1>4. k > 1 => PacketPairs * k > PacketPairs
    <2>1. PacketPairs * (k - 2) = (PacketPairs * k) - 2 * PacketPairs
      BY <1>1
    <2>2. QED
      BY <1>1, <1>2, <2>1
  <1>5. QED
    BY <1>1, <1>3, <1>4

LEMMA NextPlace ==
  ASSUME NEW n \in Nat
  PROVE  (n + 1) % PacketPairs =
           IF n % PacketPairs = PacketPairs - 1 THEN 0 ELSE (n % PacketPairs) + 1
  <1> DEFINE d == n \div PacketPairs         r == n % PacketPairs
             e == (n + 1) \div PacketPairs   s == (n + 1) % PacketPairs
  <1>1. /\ d \in Int /\ r \in 0..(PacketPairs - 1) /\ n = PacketPairs * d + r
        /\ e \in Int /\ s \in 0..(PacketPairs - 1) /\ n + 1 = PacketPairs * e + s
    BY Divided
  <1> HIDE DEF d, r, e, s
  <1>2. PacketPairs * e \in Int /\ PacketPairs * d \in Int /\ PacketPairs \in Nat \ {0}
    BY <1>1, ScheduleAssumption
  <1>3. PacketPairs * (e - d) = PacketPairs * e - PacketPairs * d
    BY <1>1, <1>2
  <1>4. PacketPairs * (e - d) = r + 1 - s
    BY <1>1, <1>2, <1>3
  <1>5. e - d \in {0, 1}
    BY <1>1, <1>2, <1>4, NoneOrOnePacket
  <1>6. PacketPairs * 0 = 0 /\ PacketPairs * 1 = PacketPairs
    BY <1>2
  <1>7. r + 1 - s \in {0, PacketPairs}
    BY <1>4, <1>5, <1>6
  <1>8. s = IF r = PacketPairs - 1 THEN 0 ELSE r + 1
    BY <1>1, <1>2, <1>7
  <1>9. QED
    BY <1>8 DEF r, s

LEMMA NoneHashed == 0 % PacketPairs = 0
  BY ScheduleAssumption
-----------------------------------------------------------------------------
(***************************************************************************)
(* The steps.                                                              *)
(***************************************************************************)
LEMMA AwayPlace == ASSUME currentInstruction' \notin Ours PROVE PlaceInv'
  BY DEF PlaceInv, InProgress

LEMMA RefusePlace == ASSUME Refuse PROVE PlaceInv'
  BY AwayPlace, NotOurs DEF Refuse

LEMMA BeforePairs ==
  ASSUME hash'.pairs = 0 \/ state' # "PAIRS"
  PROVE  PlaceInv'
  BY DEF PlaceInv

\* Nothing moves, and no pair comes on display.
LEMMA StandsStill ==
  ASSUME PlaceInv, InProgress' => InProgress, UNCHANGED <<hash, state, inPacket, remaining>>,
         screen' \notin {"pair", "pairSign"}
  PROVE  PlaceInv'
  BY DEF PlaceInv, Place

\* A pair is hashed behind the k of this packet.
LEMMA PairPlaced ==
  ASSUME TypeOK, NEW k \in 0..(PacketPairs - 1), NEW from \in 1..PacketPairs, NEW rest \in Nat,
         hash.pairs % PacketPairs = k, k + from <= PacketPairs,
         rest > 0 => k + from = PacketPairs,
         HashPair(from, 2 * k), remaining' = rest
  PROVE  PlaceInv'
  <1>1. /\ hash \in Transactions /\ hash.pairs \in Nat
        /\ PacketPairs \in Nat \ {0} /\ Wrap \in Nat /\ 2 * PacketPairs < Wrap
    BY ScheduleAssumption DEF TypeOK, Transactions
  <1>2. hash'.pairs = hash.pairs + 1 /\ inPacket' = from - 1 /\ pos' = Advance(2 * k, 2)
    BY <1>1, PairFed DEF HashPair
  <1>3. Place' = k + 1
    <2>1. hash'.pairs - 1 = hash.pairs
      BY <1>1, <1>2
    <2>2. QED
      BY <2>1 DEF Place
  <1>4. pos' = 2 * (k + 1)
    BY <1>1, <1>2 DEF Advance
  <1>5. QED
    BY <1>1, <1>2, <1>3, <1>4 DEF PlaceInv

\* Where a packet begins, all packets before it have been full.
LEMMA PacketBegins ==
  ASSUME TypeOK, ScheduleInv, PlaceInv, NEW i \in Ours, Accepts(i), foundState = "PAIRS",
         remaining > 0
  PROVE  hash.pairs % PacketPairs = 0
  <1>1. InProgress /\ state = "PAIRS" /\ ~owed /\ hash.pairs \in Nat
    BY PacketAwaited DEF InProgress, TypeOK, Transactions
  <1>2. CASE hash.pairs = 0
    BY <1>2, NoneHashed
  <1>3. CASE hash.pairs > 0
    <2>1. inPacket = 0
      BY <1>1, <1>3 DEF ScheduleInv, PairsInv
    <2>2. Place = PacketPairs
      <3>1. Place + 0 = PacketPairs
        BY <1>1, <1>3, <2>1 DEF PlaceInv
      <3>2. Place \in Int
        BY <1>1, <1>3, Divided DEF Place
      <3>3. QED
        BY <3>1, <3>2
    <2> DEFINE n == hash.pairs - 1
    <2>3. n \in Nat /\ n + 1 = hash.pairs
      BY <1>1, <1>3
    <2>4. n % PacketPairs = PacketPairs - 1
      <3>1. (n % PacketPairs) + 1 = PacketPairs
        BY <2>2 DEF Place
      <3>2. QED
        BY <2>3, <3>1, Divided, ScheduleAssumption
    <2> HIDE DEF n
    <2>5. (n + 1) % PacketPairs = 0
      BY <2>3, <2>4, NextPlace
    <2>6. QED
      BY <2>3, <2>5
  <1>4. QED
    BY <1>1, <1>2, <1>3

LEMMA PlacePairs ==
  ASSUME TypeOK, ScheduleInv, PlaceInv, NEW i \in Ours, Pairs(i)
  PROVE  PlaceInv'
  <1> DEFINE size == IF remaining <= PacketPairs THEN remaining ELSE PacketPairs
  <1>1. /\ Accepts(i) /\ foundState = "PAIRS" /\ remaining' = remaining - size
        /\ UNCHANGED <<state, left, read>>
    BY DEF Pairs
  <1>2. size \in 0..PacketPairs /\ remaining - size \in Nat /\ remaining \in Nat
    BY PacketType, ScheduleAssumption DEF TypeOK, CountersOK, Bytes
  <1>3. CASE size > 0 /\ HashPair(size, 0)
    <2>1. remaining > 0 /\ size \in 1..PacketPairs
      BY <1>2, <1>3, ScheduleAssumption
    <2>2. remaining - size > 0 => size = PacketPairs
      BY <1>2, ScheduleAssumption
    <2>3. hash.pairs % PacketPairs = 0
      BY <1>1, <2>1, PacketBegins
    <2>4. HashPair(size, 2 * 0) /\ 0 \in 0..(PacketPairs - 1) /\ 0 + size = size
      BY <1>2, <1>3, ScheduleAssumption
    <2> HIDE DEF size
    <2>5. QED
      BY <1>1, <1>2, <2>1, <2>2, <2>3, <2>4, PairPlaced
  <1>4. CASE size > 0 /\ HashHalf(size, 0) /\ Refuse
    BY <1>4, RefusePlace
  <1>5. CASE size = 0 /\ inPacket' = 0 /\ pos' = 0 /\ UNCHANGED hash /\ AnswerNow(i)
    <2>1. remaining = 0 /\ remaining' = 0
      BY <1>1, <1>2, <1>5, ScheduleAssumption
    <2>2. /\ InProgress /\ state = "PAIRS" /\ ~owed /\ hash.pairs \in Nat
          /\ screen \in {"idle", "frozen"}
      BY <1>1, PacketAwaited DEF InProgress, TypeOK, Transactions
    <2>3. hash.pairs > 0 => inPacket = 0
      BY <2>2 DEF ScheduleInv, PairsInv
    <2>4. screen' = screen
      BY <1>5 DEF AnswerNow
    <2>5. hash.pairs > 0 => Place' + inPacket' <= PacketPairs
      BY <1>5, <2>2, <2>3 DEF PlaceInv, Place
    <2>6. QED
      BY <1>5, <2>1, <2>2, <2>4, <2>5 DEF PlaceInv
  <1>6. QED
    BY <1>2, <1>3, <1>4, <1>5 DEF Pairs

LEMMA PlaceNextPair ==
  ASSUME TypeOK, ScheduleInv, PlaceInv, PressNext
  PROVE  PlaceInv'
  <1>1. screen = "pair" /\ UNCHANGED <<state, remaining, left>>
    BY DEF PressNext
  <1>2. /\ InProgress /\ state = "PAIRS" /\ hash.pairs > 0 /\ hash.pairs \in Nat
        /\ remaining \in Nat /\ inPacket \in 0..PacketPairs
    BY <1>1, PairOnDisplay
  <1>3. CASE inPacket = 0 /\ PressContinue /\ UNCHANGED <<hash, pos, inPacket>>
    BY <1>1, <1>2, <1>3, StepRetires, StandsStill DEF PressContinue
  <1>4. CASE inPacket > 0 /\ HashPair(inPacket, pos)
    <2> DEFINE n == hash.pairs - 1
    <2>1. n \in Nat /\ n + 1 = hash.pairs
      BY <1>2
    <2>2. /\ pos = 2 * Place /\ Place + inPacket <= PacketPairs
          /\ remaining > 0 => Place + inPacket = PacketPairs
      BY <1>1, <1>2 DEF PlaceInv
    <2>3. Place = (n % PacketPairs) + 1 /\ n % PacketPairs \in 0..(PacketPairs - 1)
      BY <2>1, Divided DEF Place
    <2> HIDE DEF n
    <2>4. Place \in 1..(PacketPairs - 1) /\ inPacket \in 1..PacketPairs
      BY <1>2, <1>4, <2>2, <2>3, ScheduleAssumption
    <2>5. hash.pairs % PacketPairs = Place
      <3>1. n % PacketPairs # PacketPairs - 1
        BY <2>3, <2>4, ScheduleAssumption
      <3>2. QED
        BY <2>1, <2>3, <3>1, NextPlace
    <2>6. Place \in 0..(PacketPairs - 1) /\ HashPair(inPacket, 2 * Place) /\ remaining' = remaining
      BY <1>1, <1>4, <2>2, <2>4, ScheduleAssumption
    <2>7. QED
      BY <1>2, <2>2, <2>4, <2>5, <2>6, PairPlaced
  <1>5. CASE inPacket > 0 /\ HashHalf(inPacket, pos) /\ PressThrow
    BY <1>5, AwayPlace, NotOurs DEF PressThrow
  <1>6. QED
    BY <1>3, <1>4, <1>5 DEF PressNext

LEMMA PlaceFinishMemo ==
  ASSUME TypeOK, hash.pairs = 0, NEW n \in 1..MaxChunk, FinishMemo(n)
  PROVE  PlaceInv'
  <1>1. hash'.pairs = 0
    BY FinishMemoHashes DEF TypeOK
  <1>2. QED
    BY <1>1, BeforePairs

LEMMA PlaceMemo ==
  ASSUME TypeOK, ScheduleInv, NEW n \in 1..MaxChunk,
         MemoRest(n) \/ \E size \in 1..n : MemoFirst(size, n)
  PROVE  PlaceInv'
  <1>1. Accepts(Memo) /\ foundState \in {"MEMO_START", "MEMO"}
    BY DEF MemoRest, MemoFirst
  <1>2. hash.pairs = 0
    BY <1>1, MemoAwaited
  <1>3. FinishMemo(n) \/ Refuse \/ state' = "MEMO"
    BY DEF MemoRest, MemoFirst, MemoText, MemoNumber, MemoRefused
  <1>4. QED
    BY <1>2, <1>3, PlaceFinishMemo, RefusePlace, BeforePairs

LEMMA PlaceFirst ==
  ASSUME TypeOK, NEW n \in Bytes,
         Initial(n) \/ \E size \in 0..(MaxMemo + 1) : InitialMemo(n, size)
  PROVE  PlaceInv'
  <1>1. CASE Initial(n)
    <2>1. hash'.pairs = 0
      <3> DEFINE h == Header(Plain, n, 0)
      <3>1. h \in Transactions /\ h.pairs = 0
        BY HeaderMade
      <3>2. hash' = [h EXCEPT !.counted = TRUE, !.count = n]
        BY <1>1 DEF Initial
      <3> HIDE DEF h
      <3>3. QED
        BY <3>1, <3>2, CountFed
    <2>2. QED
      BY <2>1, BeforePairs
  <1>2. CASE \E size \in 0..(MaxMemo + 1) : InitialMemo(n, size)
    <2>1. state' # "PAIRS"
      BY <1>2 DEF InitialMemo
    <2>2. QED
      BY <2>1, BeforePairs
  <1>3. QED
    BY <1>1, <1>2

LEMMA PlaceRestart == Restart => PlaceInv'
  BY AwayPlace, NotOurs DEF Restart, DeviceRestart, uiIdle

LEMMA PlaceNext == TypeOK /\ ScheduleInv /\ PlaceInv /\ [Next]_vars => PlaceInv'
  <1> SUFFICES ASSUME TypeOK, ScheduleInv, PlaceInv, [Next]_vars PROVE PlaceInv'
    OBVIOUS
  <1>1. CASE Dispatch \/ \E i \in Ours : InitialRefused(i) \/ OutOfTurn(i)
    BY <1>1, RefusePlace DEF Dispatch, BadCommand, SwitchInstruction, InitialRefused, OutOfTurn
  <1>2. CASE \E junk \in Junk : OtherInstruction(junk)
    BY <1>2, AwayPlace, NotOurs DEF OtherInstruction, uiIdle, AnswerNow
  <1>3. CASE Command
    BY <1>1, <1>2, <1>3, PlaceFirst, PlaceMemo, PlacePairs, PlaceRestart
    DEF Command, MemoUnsupported
  <1>4. CASE PressSign \/ PressSignFails \/ PressDecline \/ PressQuit \/ PowerLost
    BY <1>4, AwayPlace, NotOurs, PlaceRestart
    DEF PressSign, PressSignFails, PressDecline, PressQuit, PowerLost, PressAnswer, PressThrow,
        uiIdle
  <1>5. CASE PressContinueInitial
    BY <1>5, StepRetires, StandsStill DEF PressContinueInitial, PressContinue, ctxVars, InProgress
  <1>6. CASE UNCHANGED vars
    BY <1>6 DEF vars, deviceVars, ctxVars, PlaceInv, Place, InProgress
  <1>7. QED
    BY <1>3, <1>4, <1>5, <1>6, PlaceNextPair DEF Next, Button

LEMMA PlaceInit == Init => PlaceInv
  BY NotOurs DEF Init, DeviceInit, PlaceInv, InProgress

LEMMA PlaceAlways == Spec => [](ScheduleInv /\ PlaceInv)
  <1>1. Init => TypeOK /\ ScheduleInv /\ PlaceInv
    BY TypeInit, InvInit, PlaceInit
  <1>2. TypeOK /\ ScheduleInv /\ PlaceInv /\ [Next]_vars => (TypeOK /\ ScheduleInv /\ PlaceInv)'
    BY TypeNext, InvNext, PlaceNext
  <1>3. QED
    BY <1>1, <1>2, PTL DEF Spec

\* The pair on display is the one ctx->pos has just passed: the byte never wraps, and
\* no pair is read behind the end of the packet that brought it.
THEOREM ReadsPairsInPlace == Spec => []PairsAreReadInPlace
  <1>1. ScheduleInv /\ PlaceInv => PairsAreReadInPlace
    <2> SUFFICES ASSUME ScheduleInv, PlaceInv, screen \in {"pair", "pairSign"}
                 PROVE  pos = 2 * Place
      BY DEF PairsAreReadInPlace, Place
    <2>1. InProgress /\ state = "PAIRS" /\ hash.pairs > 0
      BY DEF ScheduleInv, DialogInv, PairsInv
    <2>2. QED
      BY <2>1 DEF PlaceInv
  <1>2. QED
    BY <1>1, PlaceAlways, PTL

-----------------------------------------------------------------------------
(***************************************************************************)
(* The refinement.  The transfer with schedule implements ReviewedSigning, *)
(* for every packet size, number of pairs and memo: its steps are the      *)
(* steps of a review, as long as what ScheduleInv says holds.              *)
(***************************************************************************)
\* A reply that is no signature is none of the abstract device's either.
LEMMA ReplyAnswers ==
  ASSUME reply' = reply \/ reply' \in {Success, Refusal, Rejection, NoReply}
  PROVE  Reviewed!Answered
  BY DEF Reviewed!Answered, Reviewed!NoSignature, signed, Success, Refusal, Rejection, NoReply

LEMMA EndsReview ==
  ASSUME currentInstruction' \notin Ours, Reviewed!Answered
  PROVE  Reviewed!End
  BY DEF Reviewed!End, announced, reviewed, InProgress

LEMMA RefuseEnds == ASSUME Refuse PROVE Reviewed!End
  BY ReplyAnswers, EndsReview, NotOurs DEF Refuse

LEMMA IdleEnds ==
  ASSUME uiIdle, reply' \in {Success, Refusal, Rejection, NoReply}
  PROVE  Reviewed!End
  BY ReplyAnswers, EndsReview, NotOurs DEF uiIdle

LEMMA ThrowEnds == ASSUME PressThrow PROVE Reviewed!End
  BY ReplyAnswers, EndsReview, NotOurs DEF PressThrow

LEMMA RestartEnds == ASSUME Restart PROVE Reviewed!End
  BY IdleEnds DEF Restart, DeviceRestart

\* The instruction goes on, with what was announced and what has been reviewed.
LEMMA AnswersInReview ==
  ASSUME currentInstruction \in Ours, currentInstruction' = currentInstruction,
         hash'.declared = hash.declared, read' = read, Reviewed!Answered
  PROVE  Reviewed!Answer
  BY DEF Reviewed!Answer, announced, reviewed, InProgress

(***************************************************************************)
(* First commands.                                                         *)
(***************************************************************************)
\* They find no review going on.
LEMMA NothingUnderReview ==
  ASSUME ScheduleInv, NEW i \in Ours, Accepts(i), foundState = "INITIAL"
  PROVE  announced = None
  <1>1. InProgress => foundState = state
    BY NotOurs DEF foundState, isInitialCall, InProgress
  <1>2. InProgress => state # "INITIAL"
    BY DEF ScheduleInv
  <1>3. QED
    BY <1>1, <1>2 DEF announced

LEMMA BeginsReview ==
  ASSUME announced = None, NEW n \in Bytes, currentInstruction' \in Ours,
         hash'.declared = n, read' = 0, Reviewed!Answered
  PROVE  \E m \in 0..MaxCount : Reviewed!Begin(m)
  <1>1. Reviewed!Begin(n)
    BY DEF Reviewed!Begin, Reviewed!UnderReview, announced, reviewed, InProgress
  <1>2. QED
    BY <1>1 DEF Bytes

LEMMA InitialBegins ==
  ASSUME ScheduleInv, NEW n \in Bytes, Initial(n)
  PROVE  \E m \in 0..MaxCount : Reviewed!Begin(m)
  <1>1. announced = None
    BY NothingUnderReview DEF Initial, Ours
  <1>2. hash'.declared = n
    <2>1. Header(Plain, n, 0) \in Transactions /\ Header(Plain, n, 0).declared = n
      BY HeaderMade
    <2>2. hash' = [Header(Plain, n, 0) EXCEPT !.counted = TRUE, !.count = n]
      BY DEF Initial
    <2>3. QED
      BY <2>1, <2>2, CountFed
  <1>3. currentInstruction' \in Ours /\ read' = 0 /\ Reviewed!Answered
    BY ReplyAnswers DEF Initial, Ask, Ours
  <1>4. QED
    BY <1>1, <1>2, <1>3, BeginsReview

LEMMA InitialMemoBegins ==
  ASSUME ScheduleInv, NEW n \in Bytes, NEW size \in 0..(MaxMemo + 1), InitialMemo(n, size)
  PROVE  (\E m \in 0..MaxCount : Reviewed!Begin(m)) \/ Reviewed!End
  <1>1. announced = None
    BY NothingUnderReview DEF InitialMemo, Ours
  <1>2. hash'.declared = n
    BY HeaderMade, ScheduleAssumption DEF InitialMemo
  <1>3. CASE AnswerNow(Memo)
    <2>1. currentInstruction' \in Ours /\ read' = 0 /\ Reviewed!Answered
      BY <1>3, ReplyAnswers DEF InitialMemo, AnswerNow, Ours
    <2>2. QED
      BY <1>1, <1>2, <2>1, BeginsReview
  <1>4. CASE Refuse
    BY <1>4, RefuseEnds
  <1>5. QED
    BY <1>3, <1>4 DEF InitialMemo

(***************************************************************************)
(* The memo and the pairs.                                                 *)
(***************************************************************************)
\* A memo's command that is not refused belongs to the instruction in progress.
LEMMA MemoInProgress ==
  ASSUME Accepts(Memo), foundState \in {"MEMO_START", "MEMO"}
  PROVE  currentInstruction = Memo /\ currentInstruction \in Ours
  BY DEF Accepts, foundState, isInitialCall, Ours

LEMMA FinishMemoAnswers ==
  ASSUME TypeOK, currentInstruction = Memo, NEW n \in Nat, FinishMemo(n), read' = read
  PROVE  Reviewed!Answer
  <1>1. hash'.declared = hash.declared
    BY FinishMemoHashes DEF TypeOK
  <1>2. currentInstruction' = currentInstruction /\ Reviewed!Answered
    BY ReplyAnswers DEF FinishMemo, Ask
  <1>3. QED
    BY <1>1, <1>2, AnswersInReview DEF Ours

LEMMA MemoFirstAnswers ==
  ASSUME TypeOK, NEW n \in 1..MaxChunk, NEW size \in 1..n, MemoFirst(size, n)
  PROVE  Reviewed!Answer \/ Reviewed!End
  <1>1. n \in Nat
    BY ScheduleAssumption
  <1>2. currentInstruction = Memo /\ read' = read
    BY MemoInProgress DEF MemoFirst
  <1>3. CASE FinishMemo(n)
    BY <1>1, <1>2, <1>3, FinishMemoAnswers
  <1>4. CASE Refuse
    BY <1>4, RefuseEnds
  <1>5. CASE hash' = HashMemo(n) /\ AnswerNow(Memo)
    <2>1. hash'.declared = hash.declared
      BY <1>1, <1>5, MemoFed DEF TypeOK
    <2>2. currentInstruction' = currentInstruction /\ Reviewed!Answered
      BY <1>2, <1>5, ReplyAnswers DEF AnswerNow
    <2>3. QED
      BY <1>2, <2>1, <2>2, AnswersInReview DEF Ours
  <1>6. QED
    BY <1>3, <1>4, <1>5 DEF MemoFirst, MemoText, MemoNumber, MemoRefused

LEMMA MemoRestAnswers ==
  ASSUME TypeOK, NEW n \in 1..MaxChunk, MemoRest(n)
  PROVE  Reviewed!Answer \/ Reviewed!End
  <1>1. n \in Nat
    BY ScheduleAssumption
  <1>2. currentInstruction = Memo /\ read' = read
    BY MemoInProgress DEF MemoRest
  <1>3. CASE FinishMemo(n)
    BY <1>1, <1>2, <1>3, FinishMemoAnswers
  <1>4. CASE Refuse
    BY <1>4, RefuseEnds
  <1>5. QED
    BY <1>3, <1>4 DEF MemoRest

LEMMA PairsAnswer ==
  ASSUME TypeOK, ScheduleInv, NEW i \in Ours, Pairs(i)
  PROVE  Reviewed!Answer \/ Reviewed!End
  <1>1. currentInstruction = i /\ read' = read
    BY PacketAwaited DEF Pairs
  <1>2. CASE UNCHANGED hash /\ AnswerNow(i)
    BY <1>1, <1>2, ReplyAnswers, AnswersInReview DEF AnswerNow
  <1>3. ASSUME NEW from, HashPair(from, 0), NEW flow, Ask(i, flow)
        PROVE  Reviewed!Answer
    <2>1. hash'.declared = hash.declared
      BY <1>3, PairFed DEF HashPair, TypeOK
    <2>2. currentInstruction' = currentInstruction /\ Reviewed!Answered
      BY <1>1, <1>3, ReplyAnswers DEF Ask
    <2>3. QED
      BY <1>1, <2>1, <2>2, AnswersInReview
  <1>4. CASE Refuse
    BY <1>4, RefuseEnds
  <1>5. QED
    BY <1>2, <1>3, <1>4 DEF Pairs

(***************************************************************************)
(* Buttons.                                                                *)
(***************************************************************************)
LEMMA ContinueAnswers ==
  ASSUME ScheduleInv, PressContinueInitial
  PROVE  Reviewed!Answer
  <1>1. /\ currentInstruction' = currentInstruction /\ UNCHANGED <<hash, read>>
        /\ reply' = Success
    BY DEF PressContinueInitial, PressContinue
  <1>2. Reviewed!Answered
    BY <1>1, ReplyAnswers
  <1>3. QED
    BY <1>1, <1>2 DEF Reviewed!Answer, announced, reviewed, InProgress

\* To go on from a pair that is not the last is to review it.
LEMMA NextReviews ==
  ASSUME TypeOK, ScheduleInv, PressNext
  PROVE  Reviewed!Review \/ Reviewed!End
  <1>1. screen = "pair" /\ read' = read + 1
    BY DEF PressNext
  <1>2. /\ InProgress /\ hash.pairs \in Nat /\ remaining \in Nat /\ inPacket \in Nat
        /\ read + 1 = hash.pairs /\ hash.pairs + remaining + inPacket = hash.declared
        /\ remaining + inPacket > 0
    BY <1>1, PairOnDisplay, ScheduleAssumption
  <1>3. read \in Nat /\ hash.declared \in Nat /\ hash.declared # None
    BY NoneIsNoCount DEF TypeOK, CountersOK, Transactions, Bytes
  <1>4. announced = hash.declared /\ reviewed = read /\ Reviewed!UnderReview
    BY <1>2, <1>3 DEF announced, reviewed, Reviewed!UnderReview
  <1>5. read + 1 < hash.declared
    BY <1>2, <1>3
  <1>6. ASSUME currentInstruction' = currentInstruction, hash'.declared = hash.declared,
               Reviewed!Answered
        PROVE  Reviewed!Review
    <2>1. announced' = hash.declared /\ reviewed' = read + 1
      BY <1>1, <1>2, <1>6 DEF announced, reviewed, InProgress
    <2>2. QED
      BY <1>4, <1>5, <1>6, <2>1 DEF Reviewed!Review
  <1>7. CASE PressContinue /\ UNCHANGED <<hash, pos, inPacket>>
    BY <1>6, <1>7, ReplyAnswers DEF PressContinue
  <1>8. CASE HashPair(inPacket, pos) /\ UNCHANGED <<currentInstruction, owed, reply>>
    <2>1. hash'.declared = hash.declared
      BY <1>8, PairFed DEF HashPair, TypeOK
    <2>2. Reviewed!Answered
      BY <1>8, ReplyAnswers
    <2>3. QED
      BY <1>6, <1>8, <2>1, <2>2
  <1>9. CASE PressThrow
    BY <1>9, ThrowEnds
  <1>10. QED
    BY <1>7, <1>8, <1>9 DEF PressNext

\* The last pair is on display: the signature is of the review that ends with it.
LEMMA SignSigns ==
  ASSUME TypeOK, ScheduleInv, PressSign
  PROVE  Reviewed!Sign
  <1>1. screen = "pairSign" /\ reply' = Signature /\ currentInstruction' = None
    BY DEF PressSign, PressAnswer, uiIdle
  <1>2. /\ InProgress /\ hash.pairs \in Nat /\ read + 1 = hash.pairs
        /\ hash.count = hash.declared /\ hash.pairs = hash.count
    BY <1>1, PairOnDisplay
  <1>3. hash.declared # None
    BY NoneIsNoCount DEF TypeOK, Transactions, Bytes
  <1>4. announced = hash.declared /\ reviewed = read
    BY <1>2 DEF announced, reviewed
  <1>5. announced' = None /\ reviewed' = 0
    BY <1>1, NotOurs DEF announced, reviewed, InProgress
  <1>6. signed' = [parts |-> hash.declared, count |-> hash.declared, read |-> hash.declared]
    BY <1>1, <1>2 DEF signed, Signature
  <1>7. QED
    BY <1>2, <1>3, <1>4, <1>5, <1>6
    DEF Reviewed!Sign, Reviewed!UnderReview, Reviewed!Signature

(***************************************************************************)
(* The simulation.                                                         *)
(***************************************************************************)
LEMMA ReviewInit == Init => Reviewed!Init
  BY NotOurs
  DEF Init, DeviceInit, NoReply, Reviewed!Init, Reviewed!NoSignature, announced, reviewed, signed,
      InProgress

LEMMA ReviewNext ==
  TypeOK /\ ScheduleInv /\ [Next]_vars => [Reviewed!Next]_(Reviewed!vars)
  <1> SUFFICES ASSUME TypeOK, ScheduleInv, [Next]_vars PROVE [Reviewed!Next]_(Reviewed!vars)
    OBVIOUS
  <1>1. CASE Command
    <2>1. ASSUME NEW i \in Ours, InitialRefused(i) \/ OutOfTurn(i) PROVE Reviewed!End
      BY <2>1, RefuseEnds DEF InitialRefused, OutOfTurn
    <2>2. CASE Dispatch
      BY <2>2, RefuseEnds DEF Dispatch, BadCommand, SwitchInstruction, Reviewed!Next
    <2>3. ASSUME NEW junk \in Junk, OtherInstruction(junk) PROVE Reviewed!End
      <3>1. currentInstruction' \notin Ours
        BY <2>3, NotOurs DEF OtherInstruction, uiIdle, AnswerNow
      <3>2. reply' = Success
        BY <2>3 DEF OtherInstruction, AnswerNow
      <3>3. QED
        BY <3>1, <3>2, ReplyAnswers, EndsReview
    <2>4. QED
      BY <1>1, <2>1, <2>2, <2>3, InitialBegins, InitialMemoBegins, PairsAnswer, MemoFirstAnswers,
         MemoRestAnswers, RestartEnds
      DEF Command, MemoUnsupported, Reviewed!Next
  <1>2. CASE Button
    <2>1. ASSUME PressDecline PROVE Reviewed!End
      BY <2>1, IdleEnds DEF PressDecline, PressAnswer
    <2>2. QED
      BY <1>2, <2>1, ContinueAnswers, NextReviews, SignSigns, ThrowEnds, RestartEnds
      DEF Button, PressSignFails, PressQuit, Reviewed!Next
  <1>3. CASE PowerLost
    BY <1>3, RestartEnds DEF PowerLost, Reviewed!Next
  <1>4. CASE UNCHANGED vars
    BY <1>4
    DEF vars, deviceVars, Reviewed!vars, announced, reviewed, signed, InProgress
  <1>5. QED
    BY <1>1, <1>2, <1>3, <1>4 DEF Next

\* The transfer with schedule is a device that signs what has been reviewed: each
\* signature covers the pairs announced, all of them, each gone on from once since
\* the first command, and none is left to sign again.
THEOREM ImplementsReviewedSigning == Spec => SignsWhatIsReviewed
  <1>1. Spec => Reviewed!Spec
    BY ReviewInit, ReviewNext, TypeCorrect, ScheduleAddsUp, PTL DEF Spec, Reviewed!Spec
  <1>2. QED
    BY <1>1 DEF SignsWhatIsReviewed

-----------------------------------------------------------------------------
(***************************************************************************)
(* The dates at which the pairs are released, which the dialog of a pair   *)
(* shows next to its amount.  CalendarInv is the calendar in closed form.  *)
(***************************************************************************)
\* Days before a month, in a year that begins in March and in one of January.
FromMarch == <<0, 31, 61, 92, 122, 153, 184, 214, 245, 275, 306, 337>>
DaysBefore(y, m) ==
  IF m > 2 THEN FromMarch[m - 2] + 59 + (IF IsLeapYear(y) THEN 1 ELSE 0)
  ELSE IF m = 2 THEN 31 ELSE 0

CalendarInv ==
  /\ date \in [year : Nat, month : 1..12, day : 1..31]
  /\ date.year >= 1970
  /\ date.day <= DaysIn(date.year)[date.month]
  /\ day = 365 * (date.year - 1970) + LeapYears(date.year - 1) - LeapYears(1969)
             + DaysBefore(date.year, date.month) + date.day - 1

LEMMA LeapYearsGrow ==
  ASSUME NEW y \in Nat
  PROVE  LeapYears(y) = LeapYears(y - 1) + (IF IsLeapYear(y) THEN 1 ELSE 0)
  <1>1. y \div 4 = (y - 1) \div 4 + (IF y % 4 = 0 THEN 1 ELSE 0)
    OBVIOUS
  <1>2. y \div 100 = (y - 1) \div 100 + (IF y % 100 = 0 THEN 1 ELSE 0)
    OBVIOUS
  <1>3. y \div 400 = (y - 1) \div 400 + (IF y % 400 = 0 THEN 1 ELSE 0)
    OBVIOUS
  <1>4. (y % 100 = 0 => y % 4 = 0) /\ (y % 400 = 0 => y % 100 = 0)
    OBVIOUS
  <1>5. QED
    BY <1>1, <1>2, <1>3, <1>4 DEF LeapYears, IsLeapYear

\* The months of a year, with their days and the days before them.
LEMMA MonthTable ==
  ASSUME NEW y \in Nat, NEW m \in 1..12
  PROVE  /\ DaysIn(y)[m] \in 28..31
         /\ m < 12 => DaysBefore(y, m + 1) = DaysBefore(y, m) + DaysIn(y)[m]
         /\ m = 12 => DaysIn(y)[m] = 31
         /\ DaysBefore(y, 1) = 0
         /\ DaysBefore(y, 12) = 334 + (IF IsLeapYear(y) THEN 1 ELSE 0)
  BY DEF DaysIn, DaysBefore, FromMarch, IsLeapYear

LEMMA CalendarStarts == NewYear => CalendarInv
  <1> SUFFICES ASSUME NewYear PROVE CalendarInv
    OBVIOUS
  <1>1. PICK y \in Years :
          /\ date = [year |-> y, month |-> 1, day |-> 1]
          /\ day = 365 * (y - 1970) + LeapYears(y - 1) - LeapYears(1969)
    BY DEF NewYear
  <1>2. y \in Nat /\ y >= 1970
    BY CalendarAssumption
  <1>3. DaysIn(y)[1] \in 28..31 /\ DaysBefore(y, 1) = 0
    BY <1>2, MonthTable
  <1>4. LeapYears(y - 1) \in Int /\ LeapYears(1969) \in Int
    BY <1>2 DEF LeapYears
  <1>5. QED
    BY <1>1, <1>2, <1>3, <1>4 DEF CalendarInv

LEMMA CalendarGoesOn == CalendarInv /\ [Tomorrow]_calendarVars => CalendarInv'
  <1> SUFFICES ASSUME CalendarInv, [Tomorrow]_calendarVars PROVE CalendarInv'
    OBVIOUS
  <1> DEFINE y == date.year  m == date.month  d == date.day
             first == 365 * (y - 1970) + LeapYears(y - 1) - LeapYears(1969)
  <1>1. /\ y \in Nat /\ m \in 1..12 /\ d \in 1..31 /\ y >= 1970
        /\ d <= DaysIn(y)[m] /\ day = first + DaysBefore(y, m) + d - 1
        /\ date = [year |-> y, month |-> m, day |-> d]
    BY DEF CalendarInv
  <1>2. LeapYears(y - 1) \in Int /\ LeapYears(y) \in Int /\ LeapYears(1969) \in Int /\ first \in Int
    BY <1>1 DEF LeapYears
  <1>3. DaysBefore(y, m) \in Int /\ DaysIn(y)[m] \in 28..31
    BY <1>1, MonthTable DEF DaysBefore, FromMarch
  <1>4. CASE NextDay
    <2>1. date' = [year |-> y, month |-> m, day |-> d + 1] /\ day' = day + 1 /\ d < DaysIn(y)[m]
      BY <1>1, <1>4 DEF NextDay
    <2> HIDE DEF y, m, d, first
    <2>2. d + 1 \in 1..31 /\ d + 1 <= DaysIn(y)[m] /\ day' = first + DaysBefore(y, m) + (d + 1) - 1
      BY <1>1, <1>2, <1>3, <2>1
    <2>3. QED
      BY <1>1, <2>1, <2>2 DEF CalendarInv, first
  <1>5. CASE NextMonth
    <2>1. date' = [year |-> y, month |-> m + 1, day |-> 1]
      <3>1. date' = [date EXCEPT !.month = @ + 1, !.day = 1]
        BY <1>5 DEF NextMonth
      <3>2. date \in [year : Nat, month : 1..12, day : 1..31]
        BY DEF CalendarInv
      <3>3. QED
        BY <3>1, <3>2
    <2>4. day' = day + 1 /\ m < 12 /\ d = DaysIn(y)[m]
      BY <1>5 DEF NextMonth
    <2> HIDE DEF y, m, d, first
    <2>2. m + 1 \in 1..12 /\ DaysBefore(y, m + 1) = DaysBefore(y, m) + DaysIn(y)[m]
          /\ DaysIn(y)[m + 1] \in 28..31
      BY <1>1, <2>4, MonthTable
    <2>3. day' = first + DaysBefore(y, m + 1) + 1 - 1
      BY <1>1, <1>2, <1>3, <2>4, <2>2
    <2>5. QED
      BY <1>1, <2>1, <2>2, <2>3 DEF CalendarInv, first
  <1>6. CASE NextYear
    <2>1. date' = [year |-> y + 1, month |-> 1, day |-> 1] /\ day' = day + 1 /\ m = 12 /\ d = 31
      BY <1>1, <1>6 DEF NextYear
    <2> HIDE DEF y, m, d, first
    <2>2. DaysBefore(y, 12) = 334 + (IF IsLeapYear(y) THEN 1 ELSE 0) /\ DaysBefore(y + 1, 1) = 0
          /\ DaysIn(y + 1)[1] \in 28..31
      BY <1>1, MonthTable
    <2>3. LeapYears(y) = LeapYears(y - 1) + (IF IsLeapYear(y) THEN 1 ELSE 0)
      BY <1>1, LeapYearsGrow
    <2>4. (y + 1) - 1 = y /\ y + 1 \in Nat /\ y + 1 >= 1970
      BY <1>1
    <2>5. day' = 365 * ((y + 1) - 1970) + LeapYears((y + 1) - 1) - LeapYears(1969)
                   + DaysBefore(y + 1, 1) + 1 - 1
      BY <1>1, <1>2, <2>1, <2>2, <2>3, <2>4 DEF first
    <2>6. QED
      BY <2>1, <2>2, <2>4, <2>5 DEF CalendarInv
  <1>7. CASE UNCHANGED calendarVars
    BY <1>7 DEF calendarVars, CalendarInv
  <1>8. QED
    BY <1>4, <1>5, <1>6, <1>7 DEF Tomorrow

(***************************************************************************)
(* What secondsToTm computes.                                              *)
(***************************************************************************)
LEMMA MonthsBegin == MonthBegins = [m \in 0..11 |-> FromMarch[m + 1]]
  <1> DEFINE Follows(f) ==
               f = [m \in 0..11 |-> IF m = 0 THEN 0 ELSE f[m - 1] + daysInMonth[m]]
             f0 == [m \in 0..11 |-> FromMarch[m + 1]]
  <1>1. \A m \in 0..11 : f0[m] = IF m = 0 THEN 0 ELSE f0[m - 1] + daysInMonth[m]
    BY DEF FromMarch, daysInMonth
  <1>2. Follows(f0)
    BY <1>1
  <1>3. MonthBegins = CHOOSE f : Follows(f)
    BY SMTT(40) DEF MonthBegins
  <1>4. Follows(MonthBegins)
    BY <1>2, <1>3
  <1> DEFINE g == MonthBegins
  <1>5. \A m \in 0..11 : g[m] = IF m = 0 THEN 0 ELSE g[m - 1] + daysInMonth[m]
    BY <1>4
  <1>6. DOMAIN g = 0..11 /\ g = [m \in 0..11 |-> g[m]]
    BY <1>4
  <1> HIDE DEF g, f0
  <1>7. g[0] = 0 /\ g[1] = 31 /\ g[2] = 61 /\ g[3] = 92
    BY <1>5 DEF daysInMonth
  <1>8. g[4] = 122 /\ g[5] = 153 /\ g[6] = 184 /\ g[7] = 214
    BY <1>5, <1>7 DEF daysInMonth
  <1>9. g[8] = 245 /\ g[9] = 275 /\ g[10] = 306 /\ g[11] = 337
    BY <1>5, <1>8 DEF daysInMonth
  <1>10. \A m \in 0..11 : g[m] = FromMarch[m + 1]
    BY <1>7, <1>8, <1>9 DEF FromMarch
  <1>11. QED
    BY <1>6, <1>10 DEF g

\* The days of a year, counted from March, belong to one month each.
InMonth(d, m) == FromMarch[m + 1] <= d /\ d < FromMarch[m + 1] + daysInMonth[m + 1]

LEMMA MonthIs ==
  ASSUME NEW m \in 0..11, NEW d \in 0..365, InMonth(d, m) PROVE MonthOf(d) = m
  <1>1. \A k \in 0..11 : FromMarch[k + 1] <= d /\ d < FromMarch[k + 1] + daysInMonth[k + 1] => k = m
    BY DEF FromMarch, daysInMonth, InMonth
  <1>2. \A k \in 0..11 : MonthBegins[k] = FromMarch[k + 1]
    BY MonthsBegin
  <1>3. QED
    BY <1>1, <1>2 DEF MonthOf, InMonth

LEMMA SplitIs ==
  ASSUME NEW n \in Int, NEW s \in Nat, s < 86400
  PROVE  DaysAndSeconds(n, s) = <<n - LeapDay, s>>
  BY DEF DaysAndSeconds, LeapDay

\* Cycles of 400 years, from the midnight LEAPOCH on and before it.
InFullCycles(n, a, r) ==
  LET rem == Remainder(n, DaysPer400Y) IN
  /\ Quotient(n, DaysPer400Y) - (IF rem < 0 THEN 1 ELSE 0) = a
  /\ (IF rem < 0 THEN rem + DaysPer400Y ELSE rem) = r

LEMMA Cycles400 ==
  ASSUME NEW a \in Int, NEW r \in Nat, r < DaysPer400Y, NEW n, n = DaysPer400Y * a + r
  PROVE  InFullCycles(n, a, r)
  BY DEF InFullCycles, Remainder, Quotient, DaysPer400Y

\* The last cycle of a longer one is a day longer, and not taken for one more.
LastIsLonger(b, c, e, d) == d = 365 => e = 3 /\ (c = 24 => b = 3)
CyclesAre(b, c, e, d) ==
  /\ Cycles(DaysPer100Y * b + DaysPer4Y * c + 365 * e + d, DaysPer100Y, 3) = b
  /\ Cycles(DaysPer4Y * c + 365 * e + d, DaysPer4Y, 24) = c
  /\ Cycles(365 * e + d, 365, 3) = e

LEMMA CyclesIs ==
  ASSUME NEW b \in 0..3, NEW c \in 0..24, NEW e \in 0..3, NEW d \in Nat, d < 366,
         LastIsLonger(b, c, e, d)
  PROVE  CyclesAre(b, c, e, d)
  <1> USE DEF LastIsLonger
  <1>1. Cycles(365 * e + d, 365, 3) = e
    BY DEF Cycles
  <1>2. Cycles(DaysPer4Y * c + 365 * e + d, DaysPer4Y, 24) = c
    BY DEF Cycles, DaysPer4Y
  <1>3. Cycles(DaysPer100Y * b + DaysPer4Y * c + 365 * e + d, DaysPer100Y, 3) = b
    BY DEF Cycles, DaysPer4Y, DaysPer100Y
  <1>4. QED
    BY <1>1, <1>2, <1>3 DEF CyclesAre

\* A time in its cycles, its year from March on, and its month.
TmOf(a, b, c, e, d, m, s) ==
  [tm_year |-> e + 4 * c + 100 * b + 400 * a + 100 + (IF m + 2 >= 12 THEN 1 ELSE 0),
   tm_mon  |-> IF m + 2 >= 12 THEN m - 10 ELSE m + 2,
   tm_mday |-> d - FromMarch[m + 1] + 1,
   tm_hour |-> s \div 3600, tm_min |-> (s \div 60) % 60, tm_sec |-> s % 60]

DaysOf(a, b, c, e, d) == DaysPer400Y * a + (DaysPer100Y * b + DaysPer4Y * c + 365 * e + d)

AtTime(n, a, b, c, e, d, m) ==
  /\ a \in Int /\ b \in 0..3 /\ c \in 0..24 /\ e \in 0..3 /\ d \in 0..365 /\ m \in 0..11
  /\ LastIsLonger(b, c, e, d) /\ InMonth(d, m) /\ n - LeapDay = DaysOf(a, b, c, e, d)

LEMMA TmIs ==
  ASSUME NEW n \in Int, NEW s \in Nat, s < 86400, NEW a, NEW b, NEW c, NEW e, NEW d, NEW m,
         AtTime(n, a, b, c, e, d, m)
  PROVE  secondsToTm(n, s) = TmOf(a, b, c, e, d, m, s)
  <1> USE DEF AtTime
  <1> DEFINE split   == DaysAndSeconds(n, s)
             rem400  == Remainder(split[1], DaysPer400Y)
             qc      == Quotient(split[1], DaysPer400Y) - (IF rem400 < 0 THEN 1 ELSE 0)
             inCycle == IF rem400 < 0 THEN rem400 + DaysPer400Y ELSE rem400
             cc      == Cycles(inCycle, DaysPer100Y, 3)
             in100   == inCycle - cc * DaysPer100Y
             q       == Cycles(in100, DaysPer4Y, 24)
             in4     == in100 - q * DaysPer4Y
             y       == Cycles(in4, 365, 3)
             inYear  == in4 - y * 365
             months  == MonthOf(inYear)
             r       == DaysPer100Y * b + DaysPer4Y * c + 365 * e + d
  <1>1. split[1] = n - LeapDay /\ split[2] = s
    BY SplitIs
  <1>2. r \in Nat /\ r < DaysPer400Y
    BY DEF DaysPer100Y, DaysPer4Y, DaysPer400Y
  <1>3. qc = a /\ inCycle = r
    <2>1. n - LeapDay = DaysPer400Y * a + r
      BY DEF DaysOf
    <2> HIDE DEF r
    <2>2. InFullCycles(n - LeapDay, a, r)
      BY <1>2, <2>1, Cycles400
    <2>3. rem400 = Remainder(n - LeapDay, DaysPer400Y)
          /\ Quotient(split[1], DaysPer400Y) = Quotient(n - LeapDay, DaysPer400Y)
      BY <1>1
    <2> HIDE DEF split, rem400, r
    <2>4. qc = a
      BY <2>2, <2>3 DEF InFullCycles
    <2>5. inCycle = r
      BY <2>2, <2>3 DEF InFullCycles
    <2> HIDE DEF qc, inCycle
    <2>6. QED
      BY <2>4, <2>5
  <1> HIDE DEF r
  <1>4. CyclesAre(b, c, e, d)
    <2>1. d \in Nat /\ d < 366 /\ b \in 0..3 /\ c \in 0..24 /\ e \in 0..3 /\ LastIsLonger(b, c, e, d)
      OBVIOUS
    <2>2. QED
      BY <2>1, CyclesIs, SMTT(40)
  <1>5. cc = b /\ in100 = DaysPer4Y * c + 365 * e + d
    <2>1. cc = b
      BY <1>3, <1>4 DEF CyclesAre, r
    <2>2. QED
      BY <1>3, <2>1 DEF DaysPer100Y, DaysPer4Y, r
  <1> HIDE DEF cc, in100
  <1>6. q = c /\ in4 = 365 * e + d
    <2>1. q = c
      BY <1>5, <1>4 DEF CyclesAre
    <2>2. QED
      BY <1>5, <2>1 DEF DaysPer4Y
  <1> HIDE DEF q, in4
  <1>7. y = e /\ inYear = d
    <2>1. y = e
      BY <1>6, <1>4 DEF CyclesAre
    <2>2. QED
      BY <1>6, <2>1
  <1>8. months = m
    <2>1. MonthOf(d) = m
      BY MonthIs, SMTT(40)
    <2>2. QED
      BY <1>7, <2>1
  <1>9. MonthBegins[m] = FromMarch[m + 1]
    BY MonthsBegin
  <1>10. secondsToTm(n, s) = tmInCycle(qc, inCycle, split[2])
    BY DEF secondsToTm
  <1> HIDE DEF split, rem400, qc, inCycle
  <1>11. tmInCycle(qc, inCycle, split[2]) =
          [tm_year |-> y + 4 * q + 100 * cc + 400 * qc + 100 + (IF months + 2 >= 12 THEN 1 ELSE 0),
           tm_mon  |-> IF months + 2 >= 12 THEN months - 10 ELSE months + 2,
           tm_mday |-> inYear - MonthBegins[months] + 1,
           tm_hour |-> split[2] \div 3600, tm_min |-> (split[2] \div 60) % 60,
           tm_sec  |-> split[2] % 60]
    BY DEF tmInCycle, cc, in100, q, in4
  <1> HIDE DEF cc, in100, q, in4, y, inYear, months, r
  <1>12. QED
    BY <1>1, <1>3, <1>5, <1>6, <1>7, <1>8, <1>9, <1>10, <1>11 DEF TmOf

\* A date in a year from March on, the months numbered from 0.
MarchYear(Y, mo) == IF mo > 2 THEN Y - 2000 ELSE Y - 2001
MarchMonth(mo)   == IF mo > 2 THEN mo - 3 ELSE mo + 9
MarchDay(mo, da) == FromMarch[MarchMonth(mo) + 1] + da - 1

IsDate(Y, mo, da, y, m, d) ==
  /\ y \in Int /\ m \in 0..11 /\ d \in 0..365 /\ InMonth(d, m)
  /\ Y = y + 2000 + (IF m + 2 >= 12 THEN 1 ELSE 0)
  /\ mo = (IF m + 2 >= 12 THEN m - 10 ELSE m + 2) + 1
  /\ da = d - FromMarch[m + 1] + 1
  /\ d = 365 => Y = y + 2001 /\ IsLeapYear(Y)

LEMMA FromMarchOn ==
  ASSUME NEW Y \in Nat, NEW mo \in 1..12, NEW da \in 1..31, da <= DaysIn(Y)[mo]
  PROVE  IsDate(Y, mo, da, MarchYear(Y, mo), MarchMonth(mo), MarchDay(mo, da))
  <1> DEFINE m == MarchMonth(mo)   f == FromMarch[m + 1]   l == daysInMonth[m + 1]
  <1>1. CASE mo > 2
    <2>1. m = mo - 3 /\ MarchYear(Y, mo) = Y - 2000 /\ m + 1 = mo - 2 /\ m \in 0..9
      BY <1>1 DEF MarchMonth, MarchYear
    <2>2. /\ f \in Nat /\ f <= 275 /\ l \in Nat /\ l <= 31 /\ DaysIn(Y)[mo] = l
      BY <1>1, <2>1 DEF FromMarch, daysInMonth, DaysIn
    <2>3. MarchDay(mo, da) = f + da - 1
      BY DEF MarchDay
    <2> HIDE DEF m, f, l
    <2>4. MarchDay(mo, da) \in 0..365 /\ MarchDay(mo, da) # 365
          /\ f <= MarchDay(mo, da) /\ MarchDay(mo, da) < f + l /\ da = MarchDay(mo, da) - f + 1
      BY <2>2, <2>3
    <2>5. Y = MarchYear(Y, mo) + 2000 /\ ~(m + 2 >= 12) /\ mo = m + 2 + 1
          /\ MarchYear(Y, mo) \in Int /\ m \in 0..11
      BY <2>1
    <2>6. QED
      BY <2>4, <2>5 DEF IsDate, InMonth, m, f, l
  <1>2. CASE mo = 1
    <2>1. m = 10 /\ f = 306 /\ l = 31 /\ MarchYear(Y, mo) = Y - 2001 /\ MarchDay(mo, da) = 306 + da - 1
      BY <1>2 DEF MarchMonth, MarchYear, MarchDay, FromMarch, daysInMonth
    <2>2. QED
      BY <1>2, <2>1 DEF IsDate, InMonth
  <1>3. CASE mo = 2
    <2>1. m = 11 /\ f = 337 /\ l = 29 /\ MarchYear(Y, mo) = Y - 2001 /\ MarchDay(mo, da) = 337 + da - 1
      BY <1>3 DEF MarchMonth, MarchYear, MarchDay, FromMarch, daysInMonth
    <2>2. DaysIn(Y)[mo] = IF IsLeapYear(Y) THEN 29 ELSE 28
      BY <1>3 DEF DaysIn
    <2>3. da <= 29 /\ (da = 29 => IsLeapYear(Y))
      BY <2>2
    <2>4. QED
      BY <1>3, <2>1, <2>3 DEF IsDate, InMonth
  <1>4. QED
    BY <1>1, <1>2, <1>3

\* The leap days before it: 485 before 2000-03-01.
LeapDays(y) == y \div 4 - y \div 100 + y \div 400

LEMMA LeapDaysAre ==
  ASSUME NEW Y \in Nat, NEW mo \in 1..12
  PROVE  LeapYears(Y - 1) + DaysBefore(Y, mo) =
           485 + LeapDays(MarchYear(Y, mo)) + FromMarch[MarchMonth(mo) + 1]
             + (IF mo > 2 THEN 59 ELSE -306)
  <1> DEFINE y == MarchYear(Y, mo)   m == MarchMonth(mo)
  <1>1. CASE mo > 2
    <2>1. m + 1 = mo - 2 /\ m + 1 \in 1..10 /\ y = Y - 2000
      BY <1>1 DEF MarchYear, MarchMonth
    <2>2. DaysBefore(Y, mo) = FromMarch[m + 1] + 59 + (IF IsLeapYear(Y) THEN 1 ELSE 0)
      BY <1>1, <2>1 DEF DaysBefore
    <2>3. LeapYears(Y) = LeapYears(Y - 1) + (IF IsLeapYear(Y) THEN 1 ELSE 0)
      BY LeapYearsGrow
    <2> HIDE DEF y, m
    <2>4. y \in Int /\ Y = y + 2000
      BY <2>1
    <2>5. /\ (y + 2000) \div 4 = y \div 4 + 500 /\ (y + 2000) \div 100 = y \div 100 + 20
          /\ (y + 2000) \div 400 = y \div 400 + 5
      BY <2>4
    <2>6. y \div 4 \in Int /\ y \div 100 \in Int /\ y \div 400 \in Int
      BY <2>4
    <2>7. LeapYears(Y) = 485 + LeapDays(y)
      BY <2>4, <2>5, <2>6 DEF LeapYears, LeapDays
    <2>8. FromMarch[m + 1] \in Int /\ LeapYears(Y - 1) \in Int /\ LeapDays(y) \in Int
      BY <2>1, <2>4 DEF FromMarch, LeapYears, LeapDays
    <2>9. QED
      BY <1>1, <2>2, <2>3, <2>7, <2>8 DEF y, m
  <1>2. CASE ~(mo > 2)
    <2>1. y = Y - 2001
      BY <1>2 DEF MarchYear
    <2>2. DaysBefore(Y, mo) = FromMarch[m + 1] - 306 /\ FromMarch[m + 1] \in Int
      BY <1>2 DEF DaysBefore, FromMarch, MarchMonth
    <2> HIDE DEF y, m
    <2>3. y \in Int /\ Y - 1 = y + 2000
      BY <2>1
    <2>4. /\ (y + 2000) \div 4 = y \div 4 + 500 /\ (y + 2000) \div 100 = y \div 100 + 20
          /\ (y + 2000) \div 400 = y \div 400 + 5
      BY <2>3
    <2>5. y \div 4 \in Int /\ y \div 100 \in Int /\ y \div 400 \in Int
      BY <2>3
    <2>6. LeapYears(Y - 1) = 485 + LeapDays(y) /\ LeapDays(y) \in Int
      BY <2>3, <2>4, <2>5 DEF LeapYears, LeapDays
    <2>7. QED
      BY <1>2, <2>2, <2>6 DEF y, m
  <1>3. QED
    BY <1>1, <1>2

\* The year y in its cycles of 400, 100 and 4 years, which end with a leap day.
InYears(y, a, b, c, e) ==
  /\ a \in Int /\ b \in 0..3 /\ c \in 0..24 /\ e \in 0..3
  /\ y = 400 * a + 100 * b + 4 * c + e
  /\ LeapDays(y) = 97 * a + 24 * b + c
  /\ IsLeapYear(y + 2001) => e = 3 /\ (c = 24 => b = 3)

LEMMA YearsInCycles ==
  ASSUME NEW y \in Int
  PROVE  InYears(y, y \div 400, (y \div 100) % 4, (y \div 4) % 25, y % 4)
  <1> DEFINE a == y \div 400  b == (y \div 100) % 4  c == (y \div 4) % 25  e == y % 4
  <1>1. a \in Int /\ b \in 0..3 /\ c \in 0..24 /\ e \in 0..3
    OBVIOUS
  <1>2. y = 4 * (y \div 4) + e
    OBVIOUS
  <1>3. y \div 4 = 25 * (y \div 100) + c
    OBVIOUS
  <1>4. y \div 100 = 4 * a + b
    OBVIOUS
  <1>5. (y + 2001) % 4 = (y + 1) % 4 /\ (y + 2001) % 100 = (y + 1) % 100
        /\ (y + 2001) % 400 = (y + 1) % 400
    OBVIOUS
  <1>6. IsLeapYear(y + 2001) => e = 3 /\ (c = 24 => b = 3)
    BY <1>5 DEF IsLeapYear
  <1>7. LeapDays(y) = y \div 4 - y \div 100 + a
    BY DEF LeapDays
  <1> HIDE DEF a, b, c, e
  <1>8. y = 400 * a + 100 * b + 4 * c + e /\ y \div 4 = 100 * a + 25 * b + c
    BY <1>1, <1>2, <1>3, <1>4
  <1>9. LeapDays(y) = 97 * a + 24 * b + c
    BY <1>1, <1>4, <1>7, <1>8
  <1>10. InYears(y, a, b, c, e)
    BY <1>1, <1>6, <1>8, <1>9 DEF InYears
  <1>11. QED
    BY <1>10 DEF a, b, c, e

\* The date of a day in the calendar, in its cycles.
InCycles(a, b, c, e, d, m) ==
  /\ AtTime(day, a, b, c, e, d, m)
  /\ date.year = e + 4 * c + 100 * b + 400 * a + 2000 + (IF m + 2 >= 12 THEN 1 ELSE 0)
  /\ date.month = (IF m + 2 >= 12 THEN m - 10 ELSE m + 2) + 1
  /\ date.day = d - FromMarch[m + 1] + 1

LEMMA DateInCycles ==
  ASSUME CalendarInv
  PROVE  \E a, b, c, e, d, m : InCycles(a, b, c, e, d, m)
  <1> DEFINE Y == date.year  mo == date.month  da == date.day
             y == MarchYear(Y, mo)  m == MarchMonth(mo)  d == MarchDay(mo, da)
             a == y \div 400  b == (y \div 100) % 4  c == (y \div 4) % 25  e == y % 4
  <1>1. Y \in Nat /\ mo \in 1..12 /\ da \in 1..31 /\ da <= DaysIn(Y)[mo]
    BY DEF CalendarInv
  <1>2. day = 365 * (Y - 1970) + LeapYears(Y - 1) - LeapYears(1969) + DaysBefore(Y, mo) + da - 1
    BY DEF CalendarInv
  <1> HIDE DEF Y, mo, da
  <1>3. IsDate(Y, mo, da, y, m, d)
    BY <1>1, FromMarchOn
  <1>4. LeapYears(Y - 1) + DaysBefore(Y, mo) =
          485 + LeapDays(y) + FromMarch[m + 1] + (IF mo > 2 THEN 59 ELSE -306)
    BY <1>1, LeapDaysAre
  <1>5. y \in Int
    BY <1>3 DEF IsDate
  <1>6. InYears(y, a, b, c, e)
    BY <1>5, YearsInCycles
  <1>7. y = IF mo > 2 THEN Y - 2000 ELSE Y - 2001
    BY DEF MarchYear
  <1> HIDE DEF y, m, d, a, b, c, e
  <1>8. day - LeapDay = 365 * y + LeapDays(y) + d
    <2>1. LeapYears(1969) = 477
      BY DEF LeapYears
    <2>2. LeapYears(Y - 1) \in Int
      BY <1>1 DEF LeapYears
    <2>3. DaysBefore(Y, mo) \in Int
      BY <1>1 DEF DaysBefore, FromMarch
    <2>4. LeapDays(y) \in Int
      BY <1>5 DEF LeapDays
    <2>5. d = FromMarch[m + 1] + da - 1 /\ FromMarch[m + 1] \in Int
      <3>1. m \in 0..11 /\ da = d - FromMarch[m + 1] + 1 /\ d \in 0..365
        BY <1>3 DEF IsDate
      <3>2. FromMarch[m + 1] \in Int
        BY <3>1 DEF FromMarch
      <3>3. QED
        BY <3>1, <3>2
    <2>6. CASE mo > 2
      BY <1>1, <1>2, <1>4, <1>7, <2>1, <2>2, <2>3, <2>4, <2>5, <2>6 DEF LeapDay
    <2>7. CASE ~(mo > 2)
      BY <1>1, <1>2, <1>4, <1>7, <2>1, <2>2, <2>3, <2>4, <2>5, <2>7 DEF LeapDay
    <2>8. QED
      BY <2>6, <2>7
  <1>9. a \in Int /\ b \in 0..3 /\ c \in 0..24 /\ e \in 0..3 /\ d \in 0..365 /\ m \in 0..11
    BY <1>3, <1>6 DEF InYears, IsDate
  <1>10. day - LeapDay = DaysOf(a, b, c, e, d)
    BY <1>6, <1>8, <1>9 DEF DaysOf, InYears, DaysPer400Y, DaysPer100Y, DaysPer4Y
  <1>11. LastIsLonger(b, c, e, d)
    BY <1>3, <1>6 DEF InYears, IsDate, LastIsLonger
  <1>12. Y = e + 4 * c + 100 * b + 400 * a + 2000 + (IF m + 2 >= 12 THEN 1 ELSE 0)
    BY <1>3, <1>6, <1>9 DEF InYears, IsDate
  <1>13. InCycles(a, b, c, e, d, m)
    <2>1. InMonth(d, m) /\ mo = (IF m + 2 >= 12 THEN m - 10 ELSE m + 2) + 1
          /\ da = d - FromMarch[m + 1] + 1
      BY <1>3 DEF IsDate
    <2>2. QED
      BY <1>9, <1>10, <1>11, <1>12, <2>1 DEF InCycles, AtTime, Y, mo, da
  <1>14. QED
    BY <1>13

(***************************************************************************)
(* Texts.                                                                  *)
(***************************************************************************)
LEMMA LengthIs ==
  ASSUME NEW n \in Nat, NEW k \in 1..8, k = 1 \/ Tens[k] <= n, n < Tens[k + 1]
  PROVE  lengthOfNumber(n) = k
  <1>1. ASSUME NEW j \in 1..9, j = 1 \/ Tens[j] <= n, j < 9 => n < Tens[j + 1] PROVE j = k
    BY <1>1 DEF Tens
  <1>2. QED
    BY <1>1 DEF lengthOfNumber

LEMMA Numbers ==
  ASSUME NEW n \in Nat
  PROVE  /\ n < 10 => numberToText(n) = <<n>>
         /\ 10 <= n /\ n < 100 => numberToText(n) = <<n \div 10, n % 10>>
         /\ 1000 <= n /\ n < 100000 => numberToText(n) = YearDigits(n)
  <1>1. ASSUME n < 10 PROVE numberToText(n) = <<n>>
    <2>1. lengthOfNumber(n) = 1
      BY <1>1, LengthIs DEF Tens
    <2>2. numberToText(n) = [k \in 1..1 |-> (n \div Tens[1 - k + 1]) % 10]
      BY <2>1 DEF numberToText
    <2>3. (n \div Tens[1]) % 10 = n
      BY <1>1 DEF Tens
    <2>4. QED
      BY <2>2, <2>3
  <1>2. ASSUME 10 <= n, n < 100 PROVE numberToText(n) = <<n \div 10, n % 10>>
    <2>1. lengthOfNumber(n) = 2
      BY <1>2, LengthIs DEF Tens
    <2>2. numberToText(n) = [k \in 1..2 |-> (n \div Tens[2 - k + 1]) % 10]
      BY <2>1 DEF numberToText
    <2>3. (n \div Tens[2]) % 10 = n \div 10 /\ (n \div Tens[1]) % 10 = n % 10
      BY <1>2 DEF Tens
    <2>4. QED
      BY <2>2, <2>3
  <1>3. ASSUME 1000 <= n, n < 10000 PROVE numberToText(n) = YearDigits(n)
    <2>1. lengthOfNumber(n) = 4
      BY <1>3, LengthIs DEF Tens
    <2>2. numberToText(n) = [k \in 1..4 |-> (n \div Tens[4 - k + 1]) % 10]
      BY <2>1 DEF numberToText
    <2>3. /\ (n \div Tens[4]) % 10 = n \div 1000 /\ (n \div Tens[3]) % 10 = (n \div 100) % 10
          /\ (n \div Tens[2]) % 10 = (n \div 10) % 10 /\ (n \div Tens[1]) % 10 = n % 10
      BY <1>3 DEF Tens
    <2>4. QED
      BY <1>3, <2>2, <2>3 DEF YearDigits
  <1>4. ASSUME 10000 <= n, n < 100000 PROVE numberToText(n) = YearDigits(n)
    <2>1. lengthOfNumber(n) = 5
      BY <1>4, LengthIs DEF Tens
    <2>2. numberToText(n) = [k \in 1..5 |-> (n \div Tens[5 - k + 1]) % 10]
      BY <2>1 DEF numberToText
    <2>3. /\ (n \div Tens[5]) % 10 = n \div 10000 /\ (n \div Tens[4]) % 10 = (n \div 1000) % 10
          /\ (n \div Tens[3]) % 10 = (n \div 100) % 10
          /\ (n \div Tens[2]) % 10 = (n \div 10) % 10 /\ (n \div Tens[1]) % 10 = n % 10
      BY <1>4 DEF Tens
    <2>4. QED
      BY <1>4, <2>2, <2>3 DEF YearDigits
  <1>5. QED
    BY <1>1, <1>2, <1>3, <1>4

LEMMA TwoInARow == ASSUME NEW x \in Int, NEW y \in Int PROVE <<x>> \o <<y>> = <<x, y>>
  <1> DEFINE s == <<x>>  t == <<y>>  u == <<x, y>>
  <1>1. /\ s \in Seq(Int) /\ Len(s) = 1 /\ s[1] = x
        /\ t \in Seq(Int) /\ Len(t) = 1 /\ t[1] = y
        /\ u \in Seq(Int) /\ Len(u) = 2 /\ u[1] = x /\ u[2] = y
    OBVIOUS
  <1> HIDE DEF s, t, u
  <1>2. s \o t \in Seq(Int) /\ Len(s \o t) = 2 /\ (s \o t)[1] = x /\ (s \o t)[2] = y
    <2>1. /\ s \o t \in Seq(Int) /\ Len(s \o t) = Len(s) + Len(t)
          /\ \A i \in 1..Len(s) + Len(t) :
               (s \o t)[i] = IF i <= Len(s) THEN s[i] ELSE t[i - Len(s)]
      BY <1>1, ConcatProperties
    <2>2. Len(s) + Len(t) = 2
      BY <1>1
    <2>3. \A i \in 1..2 : (s \o t)[i] = IF i <= 1 THEN s[i] ELSE t[i - 1]
      BY <1>1, <2>1, <2>2
    <2>4. (s \o t)[1] = s[1] /\ (s \o t)[2] = t[1]
      <3> DEFINE st == s \o t
      <3> HIDE DEF st
      <3>1. \A i \in 1..2 : st[i] = IF i <= 1 THEN s[i] ELSE t[i - 1]
        BY <2>3 DEF st
      <3>2. st[1] = s[1] /\ st[2] = t[1]
        BY <3>1
      <3>3. QED
        BY <3>2 DEF st
    <2>5. QED
      BY <1>1, <2>1, <2>2, <2>4
  <1>3. \A i \in 1..Len(u) : (s \o t)[i] = u[i]
    BY <1>1, <1>2
  <1>4. s \o t = u
    BY <1>1, <1>2, <1>3, SeqEqual
  <1>5. QED
    BY <1>4 DEF s, t, u

LEMMA TwoDigitsText ==
  ASSUME NEW n \in Nat, n < 100 PROVE prefixWithZero(n) = TwoDigits(n)
  <1>1. CASE n < 10
    <2>1. prefixWithZero(n) = <<0>> \o <<n>>
      BY <1>1, Numbers, SMTT(40) DEF prefixWithZero
    <2>2. n \div 10 = 0 /\ n % 10 = n
      BY <1>1
    <2>3. <<0>> \o <<n>> = <<0, n>>
      BY TwoInARow
    <2>4. QED
      BY <2>1, <2>2, <2>3 DEF TwoDigits
  <1>2. CASE ~(n < 10)
    <2>1. prefixWithZero(n) = <<>> \o <<n \div 10, n % 10>>
      BY <1>2, Numbers DEF prefixWithZero
    <2>2. QED
      BY <2>1 DEF TwoDigits
  <1>3. QED
    BY <1>1, <1>2

\* The text of a date has at most twenty characters.
LEMMA ShownFits ==
  ASSUME date \in [year : Nat, month : 1..12, day : 1..31], NEW s \in Nat, s < 86400
  PROVE  Len(Shown(s)) < DisplayLength
  <1> DEFINE Y == YearDigits(date.year)
  <1>1. Y \in Seq(Int) /\ Len(Y) <= 5
    BY DEF YearDigits
  <1>2. QED
    BY <1>1 DEF Shown, TwoDigits, Mark, DisplayLength

Joined(y, mo, d, h, mi, sec) ==
  y \o <<Mark>> \o mo \o <<Mark>> \o d \o <<Mark>> \o h \o <<Mark>> \o mi \o <<Mark>> \o sec

LEMMA TextIsShown ==
  ASSUME CalendarInv, NEW s \in Nat, s < 86400
  PROVE  LET tm == secondsToTm(day, s) IN
         /\ TooFar(tm) <=> date.year > 11899
         /\ ~TooFar(tm) => timeToDisplayText(tm) = Shown(s)
  <1> DEFINE tm == secondsToTm(day, s)
  <1>1. PICK a, b, c, e, d, m : InCycles(a, b, c, e, d, m)
    BY DateInCycles
  <1>2. day \in Int
    <2>1. LeapDay \in Int /\ DaysPer400Y \in Int /\ DaysPer100Y \in Int /\ DaysPer4Y \in Int
      BY DEF LeapDay, DaysPer400Y, DaysPer100Y, DaysPer4Y
    <2>2. QED
      BY DEF CalendarInv, LeapYears, DaysBefore, FromMarch
  <1>3. tm = TmOf(a, b, c, e, d, m, s)
    <2>1. AtTime(day, a, b, c, e, d, m)
      BY <1>1 DEF InCycles
    <2>2. QED
      BY <1>2, <2>1, TmIs
  <1>4. /\ tm.tm_year + 1900 = date.year /\ tm.tm_mon + 1 = date.month /\ tm.tm_mday = date.day
        /\ tm.tm_hour = s \div 3600 /\ tm.tm_min = (s \div 60) % 60 /\ tm.tm_sec = s % 60
        /\ tm.tm_year = date.year - 1900
    BY <1>1, <1>3 DEF InCycles, AtTime, TmOf
  <1> HIDE DEF tm
  <1>5. date.year \in Nat /\ date.year >= 1970 /\ date.month \in 1..12 /\ date.day \in 1..31
    BY DEF CalendarInv
  <1>6. TooFar(tm) <=> date.year > 11899
    BY <1>4, <1>5 DEF TooFar
  <1>7. ASSUME ~TooFar(tm) PROVE timeToDisplayText(tm) = Shown(s)
    <2>1. numberToText(date.year) = YearDigits(date.year)
      BY <1>5, <1>6, <1>7, Numbers
    <2>2. prefixWithZero(date.month) = TwoDigits(date.month)
          /\ prefixWithZero(date.day) = TwoDigits(date.day)
      BY <1>5, TwoDigitsText
    <2>3. prefixWithZero(s \div 3600) = TwoDigits(s \div 3600)
      BY TwoDigitsText
    <2>4. prefixWithZero((s \div 60) % 60) = TwoDigits((s \div 60) % 60)
      BY TwoDigitsText
    <2>5. prefixWithZero(s % 60) = TwoDigits(s % 60)
      BY TwoDigitsText
    <2>6. timeToDisplayText(tm) =
            Joined(numberToText(tm.tm_year + 1900), prefixWithZero(tm.tm_mon + 1),
                   prefixWithZero(tm.tm_mday), prefixWithZero(tm.tm_hour),
                   prefixWithZero(tm.tm_min), prefixWithZero(tm.tm_sec))
      BY DEF timeToDisplayText, Joined
    <2>7. Shown(s) =
            Joined(YearDigits(date.year), TwoDigits(date.month), TwoDigits(date.day),
                   TwoDigits(s \div 3600), TwoDigits((s \div 60) % 60), TwoDigits(s % 60))
      BY DEF Shown, Joined
    <2>8. QED
      BY <1>4, <2>1, <2>2, <2>3, <2>4, <2>5, <2>6, <2>7
  <1>8. QED
    BY <1>6, <1>7 DEF tm

LEMMA InvShowsDates == CalendarInv => DateIsShown
  <1> SUFFICES ASSUME CalendarInv, NEW s \in Seconds
               PROVE  LET tm == secondsToTm(day, s) IN
                      /\ TooFar(tm) <=> date.year > 11899
                      /\ ~TooFar(tm) =>
                           /\ timeToDisplayText(tm) = Shown(s)
                           /\ Len(timeToDisplayText(tm)) < DisplayLength
    BY DEF DateIsShown
  <1>1. s \in Nat /\ s < 86400
    BY CalendarAssumption
  <1>2. Len(Shown(s)) < DisplayLength
    BY <1>1, ShownFits DEF CalendarInv
  <1>3. QED
    BY <1>1, <1>2, TextIsShown

\* For every year the calendar may begin with, however far it goes on, and at each
\* second of a day: the text is the date (secondsToTm, timeToDisplayText).
THEOREM DatesAreShown == DayByDay => []DateIsShown
  <1>1. DayByDay => []CalendarInv
    BY CalendarStarts, CalendarGoesOn, PTL DEF DayByDay
  <1>2. QED
    BY <1>1, InvShowsDates, PTL
=============================================================================
