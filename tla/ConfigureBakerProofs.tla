------------------------ MODULE ConfigureBakerProofs ------------------------
(***************************************************************************)
(* For every URL length, page size and set of paths, and whether or not    *)
(* the UX engine keeps a pressed step alive: the baker configuration keeps *)
(* its types, and what began with a first command of its own is signed     *)
(* under the path of that command, whole, and after all of it was shown,   *)
(* although any command but that one is accepted whenever ctx->state fits. *)
(* The argument is HeadInv for the path and PlaceInv for the parts.        *)
(***************************************************************************)
EXTENDS ConfigureBaker, SequenceTheorems, TLAPS

Items ==
  [item : {"head"}, key : Paths, value : Values, parts : SUBSET Parts]
    \cup [item : {"stake", "rates"}, value : Values]
    \cup [item : {"keys", "aggregationKey", "foreign", "final"}]
    \cup [item : {"urlLength", "url"}, size : Nat]

\* What began in this instruction is hashed behind its own head.
HeadInv ==
  begun => hash # <<>> /\ hash[1].item = "head" /\ hash[1].key = path

SignedInv == SignedUnderItsOwnPath /\ SignedIsOneTransaction /\ SignedWasShown

ControlOK ==
  /\ currentInstruction \in {Ours, Other, None} /\ owed \in BOOLEAN
  /\ screen \in {"idle", "frozen", "continue", "sign"}
  /\ path \in Paths \cup {Garbage} /\ sender \in Values \cup {Garbage}
  /\ begun \in BOOLEAN

HashOK == hash \in Seq(Items) /\ Len(hash) <= MaxItems + 1

Contexts ==
  [state : States, parts : SUBSET Parts, firstDisplay : BOOLEAN,
   text : Values \cup {Garbage}, urlLength : 0..(MaxUrl + 1)]

ContextOK == ctx \in Contexts

LEMMA TypeIs == ControlOK /\ HashOK /\ ContextOK => TypeOK
  BY DEF TypeOK, ControlOK, HashOK, ContextOK, Contexts
-----------------------------------------------------------------------------
(***************************************************************************)
(* What is fed to the hash.                                                *)
(***************************************************************************)
LEMMA ItemTypes ==
  /\ \A p \in Paths, v \in Values, parts \in SUBSET Parts : BakerHead(p, v, parts) \in Items
  /\ \A v \in Values : Stake(v) \in Items /\ RatesItem(v) \in Items
  /\ KeysItem \in Items /\ Aggregation \in Items /\ Foreign \in Items /\ Finalised \in Items
  /\ \A n \in Nat : UrlSize(n) \in Items /\ UrlBytes(n) \in Items
  BY DEF Items, BakerHead, Stake, RatesItem, KeysItem, Aggregation, Foreign, Finalised, UrlSize,
     UrlBytes

LEMMA Single ==
  ASSUME NEW x \in Items PROVE <<x>> \in Seq(Items) /\ Len(<<x>>) = 1 /\ <<x>>[1] = x
  OBVIOUS

LEMMA OnlyItem ==
  ASSUME NEW x \in Items, hash' = <<x>> PROVE HashOK'
  <1>1. <<x>> \in Seq(Items) /\ Len(<<x>>) = 1
    BY Single
  <1>2. MaxItems \in Nat
    BY BakerAssumption
  <1>3. QED
    BY <1>1, <1>2 DEF HashOK

LEMMA Optional ==
  ASSUME NEW part, NEW x \in Items
  PROVE  /\ If(part, <<x>>) \in Seq(Items)
         /\ \/ Len(If(part, <<x>>)) = 0
            \/ Len(If(part, <<x>>)) = 1
  <1>1. <<x>> \in Seq(Items) /\ Len(<<x>>) = 1
    BY Single
  <1>2. <<>> \in Seq(Items) /\ Len(<<>>) = 0
    OBVIOUS
  <1>3. QED
    BY <1>1, <1>2 DEF If

\* A few items more, as a command of the instruction feeds them: the head stays.
Extends(n) ==
  \E s \in Seq(Items) : Len(s) \in Nat /\ Len(s) <= n /\ hash' = hash \o s

LEMMA OneMore ==
  ASSUME hash \in Seq(Items), NEW x \in Items, hash' = Append(hash, x) PROVE Extends(2)
  <1> DEFINE s == <<x>>
  <1>1. s \in Seq(Items) /\ Len(s) = 1
    BY Single
  <1>2. hash' = hash \o s
    BY AppendIsConcat
  <1> HIDE DEF s
  <1>3. Len(s) \in Nat /\ Len(s) <= 2
    BY <1>1
  <1>4. QED
    BY <1>1, <1>2, <1>3 DEF Extends

LEMMA OptionalMore ==
  ASSUME hash \in Seq(Items), NEW part, NEW x \in Items, hash' = hash \o If(part, <<x>>)
  PROVE  Extends(2)
  <1> DEFINE s == If(part, <<x>>)
  <1>1. s \in Seq(Items) /\ (Len(s) = 0 \/ Len(s) = 1) /\ hash' = hash \o s
    BY Optional
  <1> HIDE DEF s
  <1>2. Len(s) \in Nat /\ Len(s) <= 2
    BY <1>1, SMTT(40)
  <1>3. QED
    BY <1>1, <1>2 DEF Extends

LEMMA TwoOptionalMore ==
  ASSUME hash \in Seq(Items), NEW part, NEW x \in Items, NEW other, NEW y \in Items,
         hash' = hash \o If(part, <<x>>) \o If(other, <<y>>)
  PROVE  Extends(2)
  <1> DEFINE s == If(part, <<x>>)   t == If(other, <<y>>)
  <1>1. /\ s \in Seq(Items) /\ (Len(s) = 0 \/ Len(s) = 1)
        /\ t \in Seq(Items) /\ (Len(t) = 0 \/ Len(t) = 1)
        /\ hash' = (hash \o s) \o t
    BY Optional
  <1> HIDE DEF s, t
  <1>2. (hash \o s) \o t = hash \o (s \o t)
    BY <1>1, ConcatAssociative, SMTT(40)
  <1>3. s \o t \in Seq(Items) /\ Len(s \o t) = Len(s) + Len(t)
    BY <1>1, ConcatProperties
  <1>4. ASSUME NEW l, NEW m, l = 0 \/ l = 1, m = 0 \/ m = 1
        PROVE  l + m \in Nat /\ l + m <= 2
    BY <1>4
  <1>5. QED
    BY <1>1, <1>2, <1>3, <1>4 DEF Extends

LEMMA ExtendedHash ==
  ASSUME HashOK, Len(hash) < MaxItems, Extends(2)
  PROVE  HashOK' /\ (hash # <<>> => hash' # <<>> /\ hash'[1] = hash[1])
  <1>1. PICK s \in Seq(Items) : Len(s) \in Nat /\ Len(s) <= 2 /\ hash' = hash \o s
    BY DEF Extends
  <1>2. hash \in Seq(Items) /\ Len(hash) \in Nat /\ Len(s) \in Nat /\ Len(s) <= 2
    BY <1>1, LenProperties DEF HashOK
  <1>3. /\ hash \o s \in Seq(Items) /\ Len(hash \o s) = Len(hash) + Len(s)
        /\ \A i \in 1..Len(hash) : (hash \o s)[i] = hash[i]
    BY <1>2, ConcatProperties
  <1>4. Len(hash) + Len(s) <= MaxItems + 1
    BY <1>2, BakerAssumption
  <1>5. HashOK'
    BY <1>1, <1>3, <1>4 DEF HashOK
  <1>6. ASSUME hash # <<>> PROVE hash' # <<>> /\ hash'[1] = hash[1]
    <2>1. Len(hash) # 0
      BY <1>2, <1>6, EmptySeq
    <2>2. 1 \in 1..Len(hash) /\ Len(hash) + Len(s) # 0
      BY <1>2, <2>1
    <2>3. Len(<<>>) = 0
      OBVIOUS
    <2>4. QED
      BY <1>1, <1>3, <2>2, <2>3
  <1>7. QED
    BY <1>5, <1>6

(***************************************************************************)
(* The actions fall into those that begin a hash, extend it, and leave it. *)
(***************************************************************************)
More ==
  Len(hash) < MaxItems /\ Extends(2) /\ path' = path /\ begun' \in {begun, FALSE}
Begins ==
  \E p \in Paths, v \in Values, parts \in SUBSET Parts :
    hash' = <<BakerHead(p, v, parts)>> /\ path' = p
Same == hash' = hash /\ ((path' = path /\ begun' = begun) \/ begun' = FALSE)
Gone == hash' \in {<<>>, <<Foreign>>, <<Finalised>>} /\ begun' = FALSE

LEMMA HashSteps ==
  ASSUME HashOK, [Next]_vars
  PROVE  More \/ Begins \/ Same \/ Gone
  <1> USE DEF Over
  <1>0. hash \in Seq(Items)
    BY DEF HashOK
  <1>1. ASSUME NEW p \in Paths, NEW v \in Values,
               InitialRefused(p, v) \/ \E parts \in SUBSET Parts : Initial(p, v, parts)
        PROVE  Begins
    <2>1. CASE InitialRefused(p, v)
      BY <2>1 DEF InitialRefused, InitialHead, Begins
    <2>2. ASSUME NEW parts \in SUBSET Parts, Initial(p, v, parts) PROVE Begins
      BY <2>2 DEF Initial, InitialHead, Begins
    <2>3. QED
      BY <1>1, <2>1, <2>2
  <1>2. ASSUME NEW v \in Values, Batch(v) \/ BatchRefused(v) PROVE More
    <2>1. /\ Len(hash) < MaxItems /\ UNCHANGED path /\ begun' \in {begun, FALSE}
          /\ \/ hash' = hash \o If("stake", <<Stake(v)>>) \o If("keys", <<KeysItem>>)
             \/ hash' = hash \o If("stake", <<Stake(v)>>)
      BY <1>2 DEF Batch, BatchRefused, Continue, InTurn
    <2>2. Stake(v) \in Items /\ KeysItem \in Items
      BY ItemTypes
    <2>3. QED
      BY <1>0, <2>1, <2>2, OptionalMore, TwoOptionalMore DEF More
  <1>3. ASSUME NEW v \in Values, CommissionRates(v) \/ CommissionRatesRefused(v) PROVE More
    <2>1. /\ Len(hash) < MaxItems /\ UNCHANGED path /\ begun' \in {begun, FALSE}
          /\ hash' = hash \o If("rates", <<RatesItem(v)>>)
      BY <1>3 DEF CommissionRates, CommissionRatesRefused, Continue, InTurn
    <2>2. RatesItem(v) \in Items
      BY ItemTypes
    <2>3. QED
      BY <1>0, <2>1, <2>2, OptionalMore DEF More
  <1>4. CASE AggregationKey
    <2>1. /\ Len(hash) < MaxItems /\ UNCHANGED path /\ begun' \in {begun, FALSE}
          /\ hash' = Append(hash, Aggregation) /\ Aggregation \in Items
      BY <1>4, ItemTypes DEF AggregationKey, Continue, InTurn
    <2>2. More
      BY <1>0, <2>1, OneMore DEF More
    <2>3. QED
      BY <2>2
  <1>5. ASSUME NEW n \in Nat, UrlLength(n) \/ Url(n) PROVE More
    <2>1. /\ Len(hash) < MaxItems /\ UNCHANGED path /\ begun' \in {begun, FALSE}
          /\ hash' = Append(hash, UrlSize(n)) \/ hash' = Append(hash, UrlBytes(n))
      BY <1>5 DEF UrlLength, Url, Continue, InTurn
    <2>2. UrlSize(n) \in Items /\ UrlBytes(n) \in Items
      BY ItemTypes
    <2>3. QED
      BY <1>0, <2>1, <2>2, OneMore DEF More
  <1>6. ASSUME NEW n, UrlLengthRefused(n) \/ UrlRefused(n) PROVE Same
    BY <1>6 DEF UrlLengthRefused, UrlRefused, InTurn, Same
  <1>7. ASSUME Dispatch \/ OutOfTurn \/ \E p \in Paths : ExportKey(p) PROVE Same
    BY <1>7 DEF Dispatch, OutOfTurn, ExportKey, Same
  <1>8. ASSUME NEW p, NEW state, NEW parts, OtherInstruction(p, state, parts) PROVE Gone
    BY <1>8 DEF OtherInstruction, Gone
  <1>9. CASE Command
    <2>1. MaxUrl \in Nat /\ MaxChunk \in Nat
      BY BakerAssumption
    <2>2. \A n : n \in 0..(MaxUrl + 1) \/ n \in 0..MaxChunk => n \in Nat
      BY <2>1
    <2>3. CASE \E p \in Paths, v \in Values :
                 InitialRefused(p, v) \/ \E parts \in SUBSET Parts : Initial(p, v, parts)
      BY <1>1, <2>3
    <2>4. CASE \E v \in Values :
                 Batch(v) \/ BatchRefused(v) \/ CommissionRates(v) \/ CommissionRatesRefused(v)
      BY <1>2, <1>3, <2>4
    <2>5. CASE \/ \E n \in 0..(MaxUrl + 1) : UrlLength(n) \/ UrlLengthRefused(n)
               \/ \E n \in 0..MaxChunk : Url(n) \/ UrlRefused(n)
      BY <1>5, <1>6, <2>2, <2>5
    <2>6. CASE \E p, state, parts : OtherInstruction(p, state, parts)
      BY <1>8, <2>6
    <2>7. QED
      BY <1>4, <1>7, <1>9, <2>3, <2>4, <2>5, <2>6 DEF Command
  <1>10. CASE Button
    <2>1. CASE PressContinueFlow
      BY <2>1 DEF PressContinueFlow, Same
    <2>2. CASE PressSign \/ PressSignFails \/ PressDecline
      BY <2>2 DEF PressSign, PressSignFails, PressDecline, Same, Gone
    <2>3. CASE PressStray \/ PressQuit
      BY <2>3 DEF PressStray, PressQuit, Restart, Gone
    <2>4. QED
      BY <1>10, <2>1, <2>2, <2>3 DEF Button
  <1>11. CASE PowerLost \/ UNCHANGED vars
    BY <1>11 DEF PowerLost, Restart, vars, Same, Gone
  <1>12. QED
    BY <1>9, <1>10, <1>11 DEF Next

LEMMA HashNext == ASSUME HashOK, [Next]_vars PROVE HashOK'
  <1>1. CASE More
    BY <1>1, ExtendedHash DEF More
  <1>2. CASE Begins
    BY <1>2, ItemTypes, OnlyItem DEF Begins
  <1>3. CASE Same
    BY <1>3 DEF Same, HashOK
  <1>4. CASE Gone
    <2>1. CASE hash' = <<>>
      <3>1. <<>> \in Seq(Items) /\ Len(<<>>) = 0 /\ 0 <= MaxItems + 1
        BY BakerAssumption
      <3>2. QED
        BY <2>1, <3>1 DEF HashOK
    <2>2. CASE hash' = <<Foreign>> \/ hash' = <<Finalised>>
      BY <2>2, ItemTypes, OnlyItem
    <2>3. QED
      BY <1>4, <2>1, <2>2 DEF Gone
  <1>5. QED
    BY <1>1, <1>2, <1>3, <1>4, HashSteps

LEMMA HeadNext == ASSUME HashOK, HeadInv, begun \in BOOLEAN, [Next]_vars PROVE HeadInv'
  <1>1. CASE More
    <2>1. hash # <<>> => hash' # <<>> /\ hash'[1] = hash[1]
      BY <1>1, ExtendedHash DEF More
    <2>2. QED
      BY <1>1, <2>1 DEF More, HeadInv
  <1>2. CASE Begins
    <2>1. PICK p \in Paths, v \in Values, parts \in SUBSET Parts :
            hash' = <<BakerHead(p, v, parts)>> /\ path' = p
      BY <1>2 DEF Begins
    <2>2. <<BakerHead(p, v, parts)>>[1] = BakerHead(p, v, parts)
          /\ <<BakerHead(p, v, parts)>> # <<>>
      OBVIOUS
    <2>3. BakerHead(p, v, parts).item = "head" /\ BakerHead(p, v, parts).key = p
      BY DEF BakerHead
    <2>4. QED
      BY <2>1, <2>2, <2>3 DEF HeadInv
  <1>3. CASE Same \/ Gone
    BY <1>3 DEF Same, Gone, HeadInv
  <1>4. QED
    BY <1>1, <1>2, <1>3, HashSteps

(***************************************************************************)
(* The types.                                                              *)
(***************************************************************************)
LEMMA ControlNext == ASSUME ControlOK, [Next]_vars PROVE ControlOK'
  <1> USE DEF ControlOK, Over, AnswerNow, Ask, Refuse
  <1>1. ASSUME NEW p \in Paths, NEW v \in Values,
               InitialRefused(p, v) \/ \E parts \in SUBSET Parts : Initial(p, v, parts)
        PROVE  ControlOK'
    BY <1>1 DEF InitialRefused, Initial, InitialHead
  <1>2. ASSUME NEW v, Batch(v) \/ BatchRefused(v) PROVE ControlOK'
    BY <1>2 DEF Batch, BatchRefused, Continue, InTurn, BakerDisplay, Flow
  <1>3. ASSUME NEW v, CommissionRates(v) \/ CommissionRatesRefused(v) PROVE ControlOK'
    BY <1>3 DEF CommissionRates, CommissionRatesRefused, Continue, InTurn, Flow
  <1>4. ASSUME AggregationKey PROVE ControlOK'
    BY <1>4 DEF AggregationKey, Continue, InTurn, BakerDisplay, Flow
  <1>5. ASSUME NEW n, UrlLength(n) \/ UrlLengthRefused(n) PROVE ControlOK'
    BY <1>5 DEF UrlLength, UrlLengthRefused, Continue, InTurn, Flow
  <1>6. ASSUME NEW n, Url(n) \/ UrlRefused(n) PROVE ControlOK'
    BY <1>6 DEF Url, UrlRefused, Continue, InTurn, Flow
  <1>7. ASSUME Dispatch \/ OutOfTurn PROVE ControlOK'
    BY <1>7 DEF Dispatch, BadCommand, SwitchInstruction, OutOfTurn
  <1>8. ASSUME NEW p \in Paths, NEW state, NEW parts,
               ExportKey(p) \/ OtherInstruction(p, state, parts)
        PROVE  ControlOK'
    BY <1>8 DEF ExportKey, OtherInstruction, uiIdle
  <1>9. CASE Command
    BY <1>1, <1>2, <1>3, <1>4, <1>5, <1>6, <1>7, <1>8, <1>9 DEF Command
  <1>10. CASE Button
    <2>1. CASE PressContinueFlow
      BY <2>1 DEF PressContinueFlow, PressContinue, LeaveScreen
    <2>2. CASE PressSign \/ PressSignFails \/ PressDecline
      BY <2>2 DEF PressSign, PressSignFails, PressDecline, PressAnswer, PressThrow, LeaveScreen,
                  uiIdle
    <2>3. CASE PressStray \/ PressQuit
      BY <2>3 DEF PressStray, PressQuit, Restart, DeviceRestart, uiIdle
    <2>4. QED
      BY <1>10, <2>1, <2>2, <2>3 DEF Button
  <1>11. CASE PowerLost \/ UNCHANGED vars
    BY <1>11 DEF PowerLost, Restart, DeviceRestart, uiIdle, vars, deviceVars
  <1>12. QED
    BY <1>9, <1>10, <1>11 DEF Next

LEMMA StatesReached ==
  ASSUME NEW parts
  PROVE  AfterUrl(parts) \in States /\ AfterStake(parts) \in States /\ "FIRST" \in States
  BY DEF AfterUrl, AfterStake, States

LEMMA ContextNext == ASSUME ContextOK, [Next]_vars PROVE ContextOK'
  <1> USE DEF ContextOK, Contexts
  <1>1. ASSUME NEW p, NEW v, InitialRefused(p, v) PROVE ContextOK'
    BY <1>1 DEF InitialRefused
  <1>2. ASSUME NEW p, NEW v, NEW parts \in SUBSET Parts, Initial(p, v, parts) PROVE ContextOK'
    <2>1. \E state \in States :
            ctx' = [ctx EXCEPT !.firstDisplay = TRUE, !.parts = parts, !.state = state]
      BY <1>2, StatesReached DEF Initial
    <2>2. QED
      BY <2>1
  <1>3. ASSUME NEW v \in Values, Batch(v) \/ BatchRefused(v) PROVE ContextOK'
    <2>1. AfterStake(ctx.parts) \in States /\ "AGGREGATION_KEY" \in States
      BY StatesReached DEF States
    <2>2. QED
      BY <1>3, <2>1 DEF Batch, BatchRefused
  <1>4. ASSUME NEW v \in Values, CommissionRates(v) \/ CommissionRatesRefused(v) PROVE ContextOK'
    BY <1>4 DEF CommissionRates, CommissionRatesRefused
  <1>5. ASSUME AggregationKey PROVE ContextOK'
    BY <1>5, StatesReached DEF AggregationKey
  <1>6. ASSUME NEW n \in 0..(MaxUrl + 1), UrlLength(n) \/ UrlLengthRefused(n) PROVE ContextOK'
    <2>1. AfterUrl(ctx.parts) \in States /\ "URL" \in States
      BY StatesReached DEF States
    <2>2. QED
      BY <1>6, <2>1 DEF UrlLength, UrlLengthRefused
  <1>7. ASSUME NEW n \in 0..MaxChunk, Url(n) \/ UrlRefused(n) PROVE ContextOK'
    <2>1. AfterUrl(ctx.parts) \in States
      BY StatesReached
    <2>2. n < ctx.urlLength => ctx.urlLength - n \in 0..(MaxUrl + 1)
      BY BakerAssumption
    <2>3. QED
      BY <1>7, <2>1, <2>2 DEF Url, UrlRefused
  <1>8. ASSUME NEW p, NEW state \in {ctx.state, "none"}, NEW parts \in {ctx.parts, Parts},
               OtherInstruction(p, state, parts)
        PROVE  ContextOK'
    <2>1. state \in States /\ parts \in SUBSET Parts
      BY DEF States
    <2>2. QED
      BY <1>8, <2>1 DEF OtherInstruction
  <1>9. ASSUME Dispatch \/ OutOfTurn \/ \E p \in Paths : ExportKey(p) PROVE ContextOK'
    BY <1>9 DEF Dispatch, OutOfTurn, ExportKey
  <1>10. ASSUME Restart PROVE ContextOK'
    BY <1>10, BakerAssumption DEF Restart, NoContext, States
  <1>11. CASE Command
    BY <1>1, <1>2, <1>3, <1>4, <1>5, <1>6, <1>7, <1>8, <1>9, <1>11 DEF Command
  <1>12. CASE Button
    BY <1>10, <1>12
    DEF Button, PressContinueFlow, PressSign, PressSignFails, PressDecline, PressStray, PressQuit
  <1>13. CASE PowerLost \/ UNCHANGED vars
    BY <1>10, <1>13 DEF PowerLost, vars
  <1>14. QED
    BY <1>11, <1>12, <1>13 DEF Next

(***************************************************************************)
(* The transaction as it is read, and one piece more of it.                *)
(***************************************************************************)
TransactionProofs == INSTANCE ReadingProofs WITH Nothing <- Unread, Read <- ReadPiece

PieceNames ==
  {"head", "stake", "rates", "keys", "aggregationKey", "foreign", "final", "urlLength", "url"}

\* What a flow can show: the pieces that are not hidden, and the review.
Displayed == Items \cup [item : {"review", "stake", "rates"}, value : Values \cup {Garbage}]

Knowledge ==
  [names : Seq(PieceNames), left : Int, inUrl : BOOLEAN, whole : BOOLEAN, display : Seq(Displayed)]

\* A part of the transaction, where its bitmap has one.
Maybe(part, parts, x) == IF part \in parts THEN <<x>> ELSE <<>>

LEMMA NoPart ==
  ASSUME NEW S, NEW s \in Seq(S), NEW part, NEW parts, part \notin parts, NEW x
  PROVE  s \o Maybe(part, parts, x) = s
  BY ConcatEmptySeq DEF Maybe

LEMMA OnePart ==
  ASSUME NEW S, NEW s \in Seq(S), NEW part, NEW parts, part \in parts, NEW x \in S
  PROVE  s \o Maybe(part, parts, x) = Append(s, x)
  BY AppendIsConcat DEF Maybe

LEMMA PartType ==
  ASSUME NEW S, NEW s \in Seq(S), NEW part, NEW parts, NEW x \in S
  PROVE  s \o Maybe(part, parts, x) \in Seq(S)
  <1>1. CASE part \in parts
    <2>1. s \o Maybe(part, parts, x) = Append(s, x)
      BY <1>1, OnePart
    <2>2. QED
      BY <2>1, AppendProperties
  <1>2. CASE part \notin parts
    BY <1>2, NoPart
  <1>3. QED
    BY <1>1, <1>2

LEMMA IfIsMaybe == \A part, x : If(part, <<x>>) = Maybe(part, ctx.parts, x)
  BY DEF If, Maybe

LEMMA PieceFields ==
  ASSUME NEW x \in Items
  PROVE  /\ x.item \in PieceNames
         /\ x.item = "head" => x.value \in Values
         /\ x.item \in {"urlLength", "url"} => x.size \in Nat
  BY DEF Items, PieceNames

LEMMA PieceRead == ASSUME NEW k \in Knowledge, NEW x \in Items PROVE ReadPiece(k, x) \in Knowledge
  <1> DEFINE q == ReadPiece(k, x)
  <1>1. /\ k.names \in Seq(PieceNames) /\ k.left \in Int /\ k.inUrl \in BOOLEAN
        /\ k.whole \in BOOLEAN /\ k.display \in Seq(Displayed)
    BY DEF Knowledge
  <1>2. q.names \in Seq(PieceNames)
    BY <1>1, PieceFields, AppendProperties DEF ReadPiece
  <1>3. q.left \in Int
    BY <1>1, PieceFields DEF ReadPiece
  <1>4. q.inUrl \in BOOLEAN /\ q.whole \in BOOLEAN
    BY <1>1 DEF ReadPiece
  <1>5. q.display \in Seq(Displayed)
    <2>1. x \in Displayed /\ (x.item = "head" => Review(x.value) \in Displayed)
      BY PieceFields DEF Displayed, Review
    <2>2. \A d \in Displayed : Append(k.display, d) \in Seq(Displayed)
      BY <1>1, AppendProperties
    <2>3. QED
      BY <1>1, <2>1, <2>2 DEF ReadPiece
  <1>6. q = [names |-> q.names, left |-> q.left, inUrl |-> q.inUrl, whole |-> q.whole,
             display |-> q.display]
    BY DEF ReadPiece
  <1> HIDE DEF q
  <1>7. q \in Knowledge
    BY <1>2, <1>3, <1>4, <1>5, <1>6 DEF Knowledge
  <1>8. QED
    BY <1>7 DEF q

LEMMA NothingRead == Unread \in Knowledge
  <1>1. <<>> \in Seq(PieceNames) /\ <<>> \in Seq(Displayed)
    BY EmptySeq
  <1>2. QED
    BY <1>1 DEF Unread, Knowledge

LEMMA KnownIs == \A h : Known(h) = TransactionProofs!After(h)
  BY DEF Known, Transaction!After, Transaction!Readings, TransactionProofs!After,
         TransactionProofs!Readings

LEMMA KnownType == ASSUME NEW h \in Seq(Items) PROVE Known(h) \in Knowledge
  BY KnownIs, NothingRead, PieceRead, TransactionProofs!AfterIn

LEMMA KnownAppend ==
  ASSUME NEW h \in Seq(Items), NEW x \in Items PROVE Known(Append(h, x)) = ReadPiece(Known(h), x)
  BY KnownIs, TransactionProofs!AfterAppend

LEMMA UrlRead ==
  ASSUME NEW k, NEW x, NEW q, q = ReadPiece(k, x)
  PROVE  /\ x.item = "urlLength" => q.inUrl
         /\ x.item = "url" => (q.inUrl <=> k.inUrl) /\ (q.whole <=> k.whole /\ k.inUrl)
         /\ x.item # "url" => (q.whole <=> k.whole)
  <1>1. q.inUrl = (x.item = "urlLength" \/ (x.item = "url" /\ k.inUrl))
    BY DEF ReadPiece
  <1>2. q.whole = (k.whole /\ (x.item = "url" => k.inUrl))
    BY DEF ReadPiece
  <1>3. "urlLength" # "url"
    OBVIOUS
  <1>4. QED
    BY <1>1, <1>2, <1>3

\* A part shown as it is hashed.
PartRead(k, q, part, parts, x) ==
  /\ q \in Knowledge
  /\ q.names = k.names \o Maybe(part, parts, x.item)
  /\ q.display = k.display \o Maybe(part, parts, x)
  /\ q.left = k.left /\ (q.whole <=> k.whole)

LEMMA KnownPart ==
  ASSUME NEW h \in Seq(Items), NEW part, NEW parts, NEW x \in Items,
         x.item \in {"stake", "keys", "rates"},
         NEW g, g = h \o Maybe(part, parts, x), NEW k, k = Known(h), NEW q, q = Known(g)
  PROVE  g \in Seq(Items) /\ PartRead(k, q, part, parts, x)
  <1>1. g \in Seq(Items) /\ q \in Knowledge /\ k \in Knowledge
    BY PartType, KnownType
  <1>2. k.names \in Seq(PieceNames) /\ k.display \in Seq(Displayed)
    BY <1>1 DEF Knowledge
  <1>3. x.item \in PieceNames /\ x \in Displayed
    BY PieceFields DEF Displayed
  <1>4. CASE part \in parts
    <2>1. q = ReadPiece(k, x)
      <3>1. g = Append(h, x)
        BY <1>4, OnePart
      <3>2. QED
        BY <3>1, KnownAppend
    <2>2. /\ q.names = Append(k.names, x.item) /\ q.display = Append(k.display, x)
          /\ q.left = k.left
      BY <2>1 DEF ReadPiece, Hidden
    <2>3. q.whole <=> k.whole
      BY <2>1, UrlRead
    <2>4. k.names \o Maybe(part, parts, x.item) = Append(k.names, x.item)
      <3>1. \A s \in Seq(PieceNames) : \A y \in PieceNames : s \o Maybe(part, parts, y) = Append(s, y)
        BY <1>4, OnePart
      <3>2. QED
        BY <1>2, <1>3, <3>1
    <2>5. k.display \o Maybe(part, parts, x) = Append(k.display, x)
      BY <1>2, <1>3, <1>4, OnePart, SMTT(40)
    <2>6. QED
      BY <1>1, <2>2, <2>3, <2>4, <2>5 DEF PartRead
  <1>5. CASE part \notin parts
    <2>1. g = h
      BY <1>5, NoPart
    <2>2. k.names \o Maybe(part, parts, x.item) = k.names
      <3>1. \A s \in Seq(PieceNames) : \A y : s \o Maybe(part, parts, y) = s
        BY <1>5, NoPart
      <3>2. QED
        BY <1>2, <3>1
    <2>3. k.display \o Maybe(part, parts, x) = k.display
      BY <1>2, <1>5, NoPart
    <2>4. QED
      BY <1>1, <2>1, <2>2, <2>3 DEF PartRead
  <1>6. QED
    BY <1>1, <1>4, <1>5

(***************************************************************************)
(* How far a transaction has come.                                         *)
(***************************************************************************)
Batched(parts) ==
  (<<"head">> \o Maybe("stake", parts, "stake")) \o Maybe("keys", parts, "keys")
Keyed(parts) == Batched(parts) \o Maybe("keys", parts, "aggregationKey")
Sized(parts) == Keyed(parts) \o Maybe("url", parts, "urlLength")
Rated(parts) == Sized(parts) \o Maybe("rates", parts, "rates")

\* The names hashed when the handler waits in a state.
NamesAt(state, parts) ==
  CASE state = "FIRST" -> <<"head">>
    [] state = "AGGREGATION_KEY" -> Batched(parts)
    [] state = "URL_LENGTH" -> Keyed(parts)
    [] state \in {"URL", "COMMISSION_RATES"} -> Sized(parts)

\* What the first flow shows, the keys left out until all of them have come.
BatchDisplay(v, text, parts) ==
  (<<Review(v)>> \o Maybe("stake", parts, Stake(text))) \o Maybe("keys", parts, KeysItem)

\* Before the first flow nothing has been shown; behind it, all that has been hashed.
DisplayDue(k) ==
  IF ctx.firstDisplay
  THEN /\ shown = <<>> /\ page = <<>>
       /\ k.display = IF ctx.state = "AGGREGATION_KEY" THEN BatchDisplay(sender, ctx.text, ctx.parts)
                      ELSE <<Review(sender)>>
  ELSE /\ ctx.state \notin {"FIRST", "AGGREGATION_KEY"}
       /\ shown \in Seq(Displayed) /\ shown \o page = k.display

Waiting(k) ==
  /\ ctx.state \in {"FIRST", "AGGREGATION_KEY", "URL_LENGTH", "URL", "COMMISSION_RATES"}
  /\ k.names = NamesAt(ctx.state, ctx.parts)
  /\ IF ctx.state = "URL" THEN k.inUrl /\ k.left = ctx.urlLength ELSE k.left = 0
  /\ DisplayDue(k)

Complete(k) == k.names = Rated(ctx.parts) /\ k.left = 0 /\ shown \o page = k.display

\* A transaction begun in this instruction, with a part the code knows, is at the
\* place ctx says, or whole when the user is asked to sign.
PlaceInv ==
  begun /\ hash[1].parts # {} =>
    /\ ctx.parts = hash[1].parts
    /\ Known(hash).whole
    /\ IF owed /\ screen = "sign" THEN Complete(Known(hash)) ELSE Waiting(Known(hash))

PageInv == ~owed => page = <<>>

LEMMA NamesTyped ==
  ASSUME NEW parts
  PROVE  /\ <<"head">> \in Seq(PieceNames) /\ Batched(parts) \in Seq(PieceNames)
         /\ Keyed(parts) \in Seq(PieceNames) /\ Sized(parts) \in Seq(PieceNames)
  <1>1. <<"head">> \in Seq(PieceNames)
    BY DEF PieceNames
  <1>2. /\ "stake" \in PieceNames /\ "keys" \in PieceNames /\ "aggregationKey" \in PieceNames
        /\ "urlLength" \in PieceNames
    BY DEF PieceNames
  <1>3. <<"head">> \o Maybe("stake", parts, "stake") \in Seq(PieceNames)
    BY <1>1, <1>2, PartType
  <1>4. Batched(parts) \in Seq(PieceNames)
    BY <1>2, <1>3, PartType DEF Batched
  <1>5. Keyed(parts) \in Seq(PieceNames)
    BY <1>2, <1>4, PartType DEF Keyed
  <1>6. Sized(parts) \in Seq(PieceNames)
    BY <1>2, <1>5, PartType DEF Sized
  <1>7. QED
    BY <1>1, <1>4, <1>5, <1>6

LEMMA StatesAre ==
  /\ \A parts : NamesAt("FIRST", parts) = <<"head">>
  /\ \A parts : NamesAt("AGGREGATION_KEY", parts) = Batched(parts)
  /\ \A parts : NamesAt("URL_LENGTH", parts) = Keyed(parts)
  /\ \A parts : NamesAt("URL", parts) = Sized(parts)
  /\ \A parts : NamesAt("COMMISSION_RATES", parts) = Sized(parts)
  BY Zenon DEF NamesAt

LEMMA RatedIs == \A parts : NamesOf(parts) = Rated(parts)
  BY DEF NamesOf, Rated, Sized, Keyed, Batched, Maybe

\* The place behind the URL, and behind the first batch, where some part follows
\* and where none does.
LEMMA PlaceAfterUrl ==
  ASSUME NEW parts
  PROVE  /\ "rates" \in parts => /\ AfterUrl(parts) = "COMMISSION_RATES"
                                 /\ NamesAt(AfterUrl(parts), parts) = Sized(parts)
         /\ "rates" \notin parts => Rated(parts) = Sized(parts)
  <1>1. "rates" \in parts => AfterUrl(parts) = "COMMISSION_RATES"
    BY DEF AfterUrl
  <1>2. ASSUME "rates" \notin parts PROVE Rated(parts) = Sized(parts)
    BY <1>2, NoPart, NamesTyped DEF Rated
  <1>3. QED
    BY <1>1, <1>2, StatesAre

LEMMA PlaceAfterStake ==
  ASSUME NEW parts
  PROVE  /\ "url" \in parts => /\ AfterStake(parts) = "URL_LENGTH"
                               /\ NamesAt(AfterStake(parts), parts) = Keyed(parts)
         /\ "url" \notin parts /\ "rates" \in parts =>
              /\ AfterStake(parts) = "COMMISSION_RATES"
              /\ NamesAt(AfterStake(parts), parts) = Keyed(parts)
         /\ "url" \notin parts /\ "rates" \notin parts => Rated(parts) = Keyed(parts)
  <1>1. "url" \in parts => AfterStake(parts) = "URL_LENGTH"
    BY DEF AfterStake
  <1>2. ASSUME "url" \notin parts
        PROVE  AfterStake(parts) = AfterUrl(parts) /\ Sized(parts) = Keyed(parts)
    BY <1>2, NoPart, NamesTyped DEF Sized, AfterStake
  <1>3. QED
    BY <1>1, <1>2, StatesAre, PlaceAfterUrl

(***************************************************************************)
(* One step of a transaction.                                              *)
(***************************************************************************)
LEMMA Placed ==
  ASSUME HashOK, PlaceInv, PageInv, NEW state, InTurn(state), begun, hash[1].parts # {},
         NEW k, k = Known(hash)
  PROVE  /\ hash \in Seq(Items) /\ k \in Knowledge /\ ctx.parts = hash[1].parts /\ k.whole
         /\ ctx.state = state /\ page = <<>> /\ k.names = NamesAt(state, ctx.parts)
         /\ IF state = "URL" THEN k.inUrl /\ k.left = ctx.urlLength ELSE k.left = 0
         /\ DisplayDue(k)
  <1>1. ~owed /\ ctx.state = state
    BY DEF InTurn, Accepts
  <1>2. hash \in Seq(Items) /\ k \in Knowledge
    BY KnownType DEF HashOK
  <1>3. ctx.parts = hash[1].parts /\ k.whole /\ Waiting(k) /\ page = <<>>
    BY <1>1 DEF PlaceInv, PageInv
  <1>4. QED
    BY <1>1, <1>2, <1>3 DEF Waiting

\* The head stays in front of what a command adds.
LEMMA HeadStays ==
  ASSUME HashOK, HeadInv, begun, Len(hash) < MaxItems, Extends(2) PROVE hash'[1] = hash[1]
  BY ExtendedHash DEF HeadInv

LEMMA DisplayType ==
  ASSUME ControlOK, ContextOK
  PROVE  /\ <<Review(sender)>> \in Seq(Displayed)
         /\ \A v \in Values \cup {Garbage} : Stake(v) \in Displayed /\ RatesItem(v) \in Displayed
         /\ KeysItem \in Displayed /\ \A n \in Nat : UrlSize(n) \in Displayed /\ UrlBytes(n) \in Displayed
  <1>1. Review(sender) \in Displayed
    BY DEF ControlOK, Review, Displayed
  <1>2. \A v \in Values \cup {Garbage} : Stake(v) \in Displayed /\ RatesItem(v) \in Displayed
    BY DEF Stake, RatesItem, Displayed
  <1>3. KeysItem \in Displayed /\ \A n \in Nat : UrlSize(n) \in Displayed /\ UrlBytes(n) \in Displayed
    BY ItemTypes DEF Displayed
  <1>4. QED
    BY <1>1, <1>2, <1>3

\* A flow that shows what has not been shown leaves the transaction at its place.
LEMMA FlowSettles ==
  ASSUME NEW items, NEW rest, Flow(items, rest), UNCHANGED shown, shown \in Seq(Displayed),
         NEW parts, ctx.parts = parts, ctx'.parts = parts, ctx'.firstDisplay = FALSE,
         Known(hash').left = 0, shown \o items = Known(hash').display,
         parts \cap rest # {} => /\ ctx'.state \in {"URL_LENGTH", "COMMISSION_RATES"}
                                 /\ Known(hash').names = NamesAt(ctx'.state, parts),
         parts \cap rest = {} => Known(hash').names = Rated(parts)
  PROVE  IF owed' /\ screen' = "sign" THEN Complete(Known(hash))' ELSE Waiting(Known(hash))'
  <1>1. /\ owed' = TRUE /\ page' = items
        /\ screen' = IF parts \cap rest # {} THEN "continue" ELSE "sign"
    BY DEF Flow, Ask
  <1>2. CASE parts \cap rest # {}
    <2>1. ~(screen' = "sign")
      BY <1>1, <1>2
    <2>2. DisplayDue(Known(hash))'
      BY <1>1, <1>2 DEF DisplayDue
    <2>3. QED
      BY <1>1, <1>2, <2>1, <2>2 DEF Waiting
  <1>3. CASE parts \cap rest = {}
    BY <1>1, <1>3 DEF Complete
  <1>4. QED
    BY <1>2, <1>3

\* Before the first flow nothing has been shown, and the next one opens with the
\* review; later flows go on.
LEMMA OpeningShows ==
  ASSUME ControlOK, ContextOK, NEW k \in Knowledge, DisplayDue(k), page = <<>>,
         ctx.state \notin {"FIRST", "AGGREGATION_KEY"}, NEW s \in Seq(Displayed)
  PROVE  shown \in Seq(Displayed) /\ shown \o (Opening \o s) = k.display \o s
  <1>1. k.display \in Seq(Displayed) /\ ctx.firstDisplay \in BOOLEAN
    BY DEF Knowledge, ContextOK, Contexts
  <1>2. CASE ctx.firstDisplay
    <2>1. shown = <<>> /\ k.display = <<Review(sender)>> /\ Opening = k.display
      BY <1>2 DEF DisplayDue, Opening
    <2>2. <<>> \in Seq(Displayed)
      BY EmptySeq
    <2>3. Opening \o s \in Seq(Displayed)
      BY <1>1, <2>1, ConcatProperties
    <2>4. <<>> \o (Opening \o s) = Opening \o s
      BY <2>3, ConcatEmptySeq
    <2>5. QED
      BY <2>1, <2>2, <2>4
  <1>3. CASE ~ctx.firstDisplay
    <2>1. shown \in Seq(Displayed) /\ shown \o page = k.display /\ Opening = <<>>
      BY <1>3 DEF DisplayDue, Opening
    <2>2. shown \o <<>> = shown
      BY <2>1, ConcatEmptySeq
    <2>3. <<>> \o s = s
      BY ConcatEmptySeq
    <2>4. QED
      BY <2>1, <2>2, <2>3
  <1>4. QED
    BY <1>1, <1>2, <1>3

\* The same for one step more of the display.
LEMMA OpeningShowsOne ==
  ASSUME ControlOK, ContextOK, NEW k \in Knowledge, DisplayDue(k), page = <<>>,
         ctx.state \notin {"FIRST", "AGGREGATION_KEY"}, NEW x \in Displayed
  PROVE  shown \in Seq(Displayed) /\ shown \o Append(Opening, x) = Append(k.display, x)
  <1>1. <<x>> \in Seq(Displayed)
    OBVIOUS
  <1>2. Opening \in Seq(Displayed)
    <2>1. <<>> \in Seq(Displayed) /\ <<Review(sender)>> \in Seq(Displayed)
      BY DisplayType, EmptySeq
    <2>2. QED
      BY <2>1 DEF Opening
  <1>3. Append(Opening, x) = Opening \o <<x>>
    BY <1>2, AppendIsConcat
  <1>4. k.display \in Seq(Displayed)
    BY DEF Knowledge
  <1>5. Append(k.display, x) = k.display \o <<x>>
    BY <1>4, AppendIsConcat
  <1>6. QED
    BY <1>1, <1>3, <1>5, OpeningShows

\* What a step has to show for the transaction to stay at its place.
LEMMA PlaceKept ==
  ASSUME begun' = begun,
         begun /\ hash[1].parts # {} =>
           /\ hash'[1] = hash[1] /\ ctx'.parts = hash[1].parts /\ Known(hash').whole
           /\ IF owed' /\ screen' = "sign" THEN Complete(Known(hash))' ELSE Waiting(Known(hash))',
         begun => hash'[1] = hash[1]
  PROVE  PlaceInv'
  BY DEF PlaceInv

LEMMA KnownHead ==
  ASSUME NEW p \in Paths, NEW v \in Values, NEW parts \in SUBSET Parts,
         NEW q, q = Known(<<BakerHead(p, v, parts)>>)
  PROVE  q.names = <<"head">> /\ q.left = 0 /\ q.whole /\ q.display = <<Review(v)>>
  <1> DEFINE x == BakerHead(p, v, parts)
  <1>1. x \in Items /\ x.item = "head" /\ x.value = v
    BY ItemTypes DEF BakerHead
  <1> HIDE DEF x
  <1>2. <<>> \in Seq(Items) /\ Append(<<>>, x) = <<x>>
    OBVIOUS
  <1>3. Known(<<>>) = Unread
    BY KnownIs, TransactionProofs!AfterEmpty
  <1>4. Known(<<x>>) = ReadPiece(Unread, x)
    BY <1>1, <1>2, <1>3, KnownAppend
  <1>5. q = ReadPiece(Unread, x)
    BY <1>4 DEF x
  <1>6. /\ q.names = Append(Unread.names, x.item) /\ q.left = Unread.left /\ (Unread.whole => q.whole)
        /\ q.display = Append(Unread.display, Review(x.value))
    <2>1. q.names = Append(Unread.names, x.item) /\ q.left = Unread.left
      BY <1>1, <1>5 DEF ReadPiece
    <2>2. Unread.whole => q.whole
      BY <1>1, <1>5, UrlRead
    <2>3. ~Hidden(x)
      BY <1>1 DEF Hidden
    <2>4. q.display = Append(Unread.display, Review(x.value))
      BY <1>1, <1>5, <2>3 DEF ReadPiece
    <2>5. QED
      BY <2>1, <2>2, <2>4
  <1>7. Unread.names = <<>> /\ Unread.left = 0 /\ Unread.whole /\ Unread.display = <<>>
    BY DEF Unread
  <1>8. \A y : Append(<<>>, y) = <<y>>
    OBVIOUS
  <1>9. QED
    BY <1>1, <1>6, <1>7, <1>8

LEMMA InitialPlace ==
  ASSUME PageInv, NEW p \in Paths, NEW v \in Values, NEW parts \in SUBSET Parts, ctx \in Contexts,
         Initial(p, v, parts)
  PROVE  PlaceInv'
  <1> SUFFICES ASSUME hash'[1].parts # {} PROVE PlaceInv'
    BY DEF PlaceInv
  <1> DEFINE q == Known(hash')
  <1>1. /\ hash' = <<BakerHead(p, v, parts)>> /\ sender' = v /\ ~owed /\ owed' = FALSE
        /\ shown' = <<>> /\ page' = page
        /\ ctx' = [ctx EXCEPT !.firstDisplay = TRUE, !.parts = parts,
             !.state = IF parts \cap FirstBatch # {} THEN "FIRST"
                       ELSE IF parts = {} THEN @ ELSE AfterStake(parts)]
    BY DEF Initial, InitialHead, AnswerNow, Accepts
  <1>2. hash'[1] = BakerHead(p, v, parts)
    BY <1>1
  <1>3. hash'[1].parts = parts /\ parts # {}
    BY <1>2 DEF BakerHead
  <1>4. /\ ctx'.parts = parts /\ ctx'.firstDisplay = TRUE
        /\ ctx'.state = IF parts \cap FirstBatch # {} THEN "FIRST" ELSE AfterStake(parts)
    BY <1>1, <1>3 DEF Contexts
  <1>5. q.names = <<"head">> /\ q.left = 0 /\ q.whole /\ q.display = <<Review(v)>>
    BY <1>1, KnownHead
  <1>6. page' = <<>>
    BY <1>1 DEF PageInv
  <1> HIDE DEF q
  <1>7. CASE parts \cap FirstBatch # {}
    <2>1. ctx'.state = "FIRST"
      BY <1>4, <1>7
    <2>2. NamesAt("FIRST", parts) = <<"head">>
      BY StatesAre
    <2>3. Waiting(Known(hash))'
      BY <1>1, <1>4, <1>5, <1>6, <2>1, <2>2 DEF Waiting, DisplayDue, q
    <2>4. QED
      BY <1>1, <1>3, <1>4, <1>5, <2>3 DEF PlaceInv, q
  <1>8. CASE parts \cap FirstBatch = {}
    <2>1. "stake" \notin parts /\ "keys" \notin parts /\ ("url" \in parts \/ "rates" \in parts)
      BY <1>3, <1>8 DEF FirstBatch, Parts
    <2>2. Keyed(parts) = <<"head">>
      <3>1. <<"head">> \in Seq(PieceNames)
        BY NamesTyped
      <3>2. <<"head">> \o Maybe("stake", parts, "stake") = <<"head">>
        BY <2>1, <3>1, NoPart
      <3>3. <<"head">> \o Maybe("keys", parts, "keys") = <<"head">>
        BY <2>1, <3>1, NoPart
      <3>4. <<"head">> \o Maybe("keys", parts, "aggregationKey") = <<"head">>
        BY <2>1, <3>1, NoPart
      <3>5. QED
        BY <3>2, <3>3, <3>4 DEF Keyed, Batched
    <2>3. ctx'.state \in {"URL_LENGTH", "COMMISSION_RATES"} /\ NamesAt(ctx'.state, parts) = <<"head">>
      BY <1>4, <1>8, <2>1, <2>2, PlaceAfterStake
    <2>4. Waiting(Known(hash))'
      BY <1>1, <1>4, <1>5, <1>6, <2>3 DEF Waiting, DisplayDue, q
    <2>5. QED
      BY <1>1, <1>3, <1>4, <1>5, <2>4 DEF PlaceInv, q
  <1>9. QED
    BY <1>7, <1>8

LEMMA BatchPlace ==
  ASSUME ControlOK, HashOK, ContextOK, HeadInv, PlaceInv, PageInv, NEW v \in Values, Batch(v)
  PROVE  PlaceInv'
  <1> DEFINE k == Known(hash)   q == Known(hash')   parts == ctx.parts
             text == IF "stake" \in ctx.parts THEN v ELSE ctx.text
             middle == hash \o Maybe("stake", parts, Stake(v))   m == Known(middle)
  <1>1. /\ InTurn("FIRST") /\ shown' = shown /\ begun' = begun /\ sender' = sender /\ path' = path
        /\ hash' = middle \o Maybe("keys", parts, KeysItem) /\ Len(hash) < MaxItems
    BY IfIsMaybe DEF Batch, Continue, InTurn
  <1>2. begun => hash'[1] = hash[1]
    <2>1. Stake(v) \in Items /\ KeysItem \in Items
      BY ItemTypes
    <2>2. hash \in Seq(Items) /\ hash' = hash \o If("stake", <<Stake(v)>>) \o If("keys", <<KeysItem>>)
      BY DEF HashOK, Batch
    <2>3. Extends(2)
      BY <2>1, <2>2, TwoOptionalMore
    <2>4. QED
      BY <1>1, <2>3, HeadStays
  <1> SUFFICES ASSUME begun, hash[1].parts # {}
               PROVE  /\ ctx'.parts = hash[1].parts /\ q.whole
                      /\ IF owed' /\ screen' = "sign" THEN Complete(Known(hash))'
                         ELSE Waiting(Known(hash))'
    BY <1>1, <1>2, PlaceKept
  <1>3. /\ hash \in Seq(Items) /\ k \in Knowledge /\ parts = hash[1].parts /\ k.whole
        /\ ctx.state = "FIRST" /\ page = <<>> /\ k.names = <<"head">> /\ k.left = 0
        /\ DisplayDue(k)
    BY <1>1, Placed, StatesAre
  <1>4. /\ ctx.firstDisplay /\ shown = <<>> /\ k.display = <<Review(sender)>>
    BY <1>3 DEF DisplayDue
  <1>5. /\ middle \in Seq(Items) /\ m.names = <<"head">> \o Maybe("stake", parts, "stake")
        /\ m.display = <<Review(sender)>> \o Maybe("stake", parts, Stake(v))
        /\ m.left = 0 /\ m.whole
    <2>1. PICK x \in Items : x = Stake(v) /\ x.item = "stake"
      BY ItemTypes DEF Stake
    <2>2. middle = hash \o Maybe("stake", parts, x) /\ k = Known(hash) /\ m = Known(middle)
      BY <2>1
    <2> HIDE DEF m, k, middle
    <2>3. x \in Items /\ hash \in Seq(Items) /\ x.item \in {"stake", "keys", "rates"}
      BY <1>3, <2>1
    <2>4. middle \in Seq(Items) /\ PartRead(k, m, "stake", parts, x)
      BY <2>2, <2>3, KnownPart
    <2>5. QED
      BY <1>3, <1>4, <2>1, <2>4 DEF PartRead
  <1>6. /\ q.names = Batched(parts) /\ q.left = 0 /\ q.whole
        /\ q.display = BatchDisplay(sender, v, parts)
    <2>1. PICK x \in Items : x = KeysItem /\ x.item = "keys"
      BY ItemTypes DEF KeysItem
    <2>2. hash' = middle \o Maybe("keys", parts, x) /\ m = Known(middle) /\ q = Known(hash')
      BY <1>1, <2>1
    <2> HIDE DEF m, q, middle
    <2>3. x \in Items /\ middle \in Seq(Items) /\ x.item \in {"stake", "keys", "rates"}
      BY <1>5, <2>1
    <2>4. hash' \in Seq(Items) /\ PartRead(m, q, "keys", parts, x)
      BY <2>2, <2>3, KnownPart
    <2>5. QED
      BY <1>5, <2>1, <2>4 DEF Batched, BatchDisplay, PartRead
  <1>7. BatchDisplay(sender, text, parts) = BatchDisplay(sender, v, parts)
    BY DEF BatchDisplay, Maybe
  <1>8. ctx \in Contexts
    BY DEF ContextOK
  <1> HIDE DEF k, q, m, middle
  <1>9. CASE "keys" \in parts
    <2>1. ctx' = [ctx EXCEPT !.text = text, !.state = "AGGREGATION_KEY"] /\ owed' = FALSE /\ page' = page
      BY <1>9 DEF Batch, AnswerNow
    <2>2. /\ ctx'.parts = parts /\ ctx'.firstDisplay = ctx.firstDisplay /\ ctx'.text = text
          /\ ctx'.state = "AGGREGATION_KEY"
      BY <1>8, <2>1 DEF Contexts
    <2>3. NamesAt("AGGREGATION_KEY", parts) = Batched(parts)
      BY StatesAre
    <2>4. DisplayDue(Known(hash))'
      BY <1>1, <1>3, <1>4, <1>6, <1>7, <2>1, <2>2 DEF DisplayDue, q
    <2>5. Waiting(Known(hash))'
      BY <1>6, <2>2, <2>3, <2>4 DEF Waiting, q
    <2>6. QED
      BY <1>3, <1>6, <2>1, <2>2, <2>5
  <1>10. CASE "keys" \notin parts
    <2>1. /\ ctx' = [ctx EXCEPT !.text = text, !.state = AfterStake(ctx.parts), !.firstDisplay = FALSE]
          /\ Flow(<<Review(sender)>> \o If("stake", <<Stake(text)>>) \o If("keys", <<KeysItem>>),
                  {"url", "rates"})
      BY <1>10 DEF Batch, BakerDisplay
    <2>2. Flow(BatchDisplay(sender, text, parts), {"url", "rates"})
      BY <2>1, IfIsMaybe DEF BatchDisplay
    <2>3. ctx'.parts = parts /\ ctx'.firstDisplay = FALSE /\ ctx'.state = AfterStake(parts)
      BY <1>8, <2>1 DEF Contexts
    <2>4. Keyed(parts) = Batched(parts)
      BY <1>10, NamesTyped, NoPart DEF Keyed
    <2>5. shown \in Seq(Displayed) /\ shown \o BatchDisplay(sender, text, parts) = q.display
      <3>1. q.display \in Seq(Displayed)
        <4>1. q \in Knowledge
          BY KnownType, HashNext, KnownPart, <1>1, <1>5, ItemTypes DEF q, KeysItem
        <4>2. QED
          BY <4>1 DEF Knowledge
      <3>2. <<>> \o q.display = q.display /\ <<>> \in Seq(Displayed)
        BY <3>1, ConcatEmptySeq, EmptySeq
      <3>3. QED
        BY <1>4, <1>6, <1>7, <3>2
    <2>6. parts \cap {"url", "rates"} # {} =>
            ctx'.state \in {"URL_LENGTH", "COMMISSION_RATES"} /\ q.names = NamesAt(ctx'.state, parts)
      BY <1>6, <2>3, <2>4, PlaceAfterStake
    <2>7. parts \cap {"url", "rates"} = {} => q.names = Rated(parts)
      BY <1>6, <2>4, PlaceAfterStake
    <2>8. IF owed' /\ screen' = "sign" THEN Complete(Known(hash))' ELSE Waiting(Known(hash))'
      BY <1>1, <1>6, <2>2, <2>3, <2>5, <2>6, <2>7, FlowSettles DEF q
    <2>9. QED
      BY <1>3, <1>6, <2>3, <2>8
  <1>11. QED
    BY <1>9, <1>10

\* A piece behind others, of the URL or with the keys.
LEMMA OnePiece ==
  ASSUME HashOK, HeadInv, Len(hash) < MaxItems, NEW x \in Items, hash' = Append(hash, x),
         NEW k, k = Known(hash), NEW q, q = Known(hash')
  PROVE  q = ReadPiece(k, x) /\ q \in Knowledge /\ (begun => hash'[1] = hash[1])
  <1>1. hash \in Seq(Items)
    BY DEF HashOK
  <1>2. q = ReadPiece(k, x) /\ q \in Knowledge
    <2>1. q = ReadPiece(k, x)
      BY <1>1, KnownAppend
    <2>2. QED
      BY <1>1, <2>1, KnownType, PieceRead
  <1>3. begun => hash'[1] = hash[1]
    BY <1>1, OneMore, HeadStays
  <1>4. QED
    BY <1>2, <1>3

LEMMA AggregationKeyPlace ==
  ASSUME ControlOK, HashOK, ContextOK, HeadInv, PlaceInv, PageInv, AggregationKey
  PROVE  PlaceInv'
  <1> DEFINE k == Known(hash)   q == Known(hash')   parts == ctx.parts
  <1>1. /\ InTurn("AGGREGATION_KEY") /\ shown' = shown /\ begun' = begun /\ "keys" \in parts
        /\ hash' = Append(hash, Aggregation) /\ Len(hash) < MaxItems
        /\ ctx' = [ctx EXCEPT !.state = AfterStake(ctx.parts), !.firstDisplay = FALSE]
        /\ Flow(<<Review(sender)>> \o If("stake", <<Stake(ctx.text)>>) \o If("keys", <<KeysItem>>),
                {"url", "rates"})
    BY DEF AggregationKey, Continue, InTurn, BakerDisplay
  <1>2. Aggregation \in Items /\ Aggregation.item = "aggregationKey"
    BY ItemTypes DEF Aggregation
  <1>3. q = ReadPiece(k, Aggregation) /\ q \in Knowledge /\ (begun => hash'[1] = hash[1])
    BY <1>1, <1>2, OnePiece
  <1> SUFFICES ASSUME begun, hash[1].parts # {}
               PROVE  /\ ctx'.parts = hash[1].parts /\ q.whole
                      /\ IF owed' /\ screen' = "sign" THEN Complete(Known(hash))'
                         ELSE Waiting(Known(hash))'
    BY <1>1, <1>3, PlaceKept
  <1>4. /\ k \in Knowledge /\ parts = hash[1].parts /\ k.whole
        /\ ctx.state = "AGGREGATION_KEY" /\ page = <<>> /\ k.names = Batched(parts) /\ k.left = 0
        /\ DisplayDue(k)
    BY <1>1, Placed, StatesAre
  <1>5. shown = <<>> /\ k.display = BatchDisplay(sender, ctx.text, parts)
    BY <1>4 DEF DisplayDue
  <1>6. ctx'.parts = parts /\ ctx'.firstDisplay = FALSE /\ ctx'.state = AfterStake(parts)
    BY <1>1 DEF ContextOK, Contexts
  <1>7. Flow(BatchDisplay(sender, ctx.text, parts), {"url", "rates"})
    BY <1>1, IfIsMaybe DEF BatchDisplay
  <1> HIDE DEF k, q
  <1>8. q.names = Keyed(parts)
    <2>1. q.names = Append(k.names, "aggregationKey")
      BY <1>2, <1>3 DEF ReadPiece
    <2>2. Keyed(parts) = Append(Batched(parts), "aggregationKey")
      <3>1. Batched(parts) \in Seq(PieceNames) /\ "aggregationKey" \in PieceNames
        BY NamesTyped DEF PieceNames
      <3>2. QED
        BY <1>1, <3>1, OnePart DEF Keyed
    <2>3. QED
      BY <1>4, <2>1, <2>2
  <1>9. q.left = 0 /\ q.display = k.display /\ q.whole
    <2>1. q.left = k.left
      BY <1>2, <1>3 DEF ReadPiece
    <2>2. q.display = k.display
      BY <1>2, <1>3 DEF ReadPiece, Hidden
    <2>3. q.whole <=> k.whole
      BY <1>2, <1>3, UrlRead
    <2>4. QED
      BY <1>4, <2>1, <2>2, <2>3
  <1>10. shown \in Seq(Displayed) /\ shown \o BatchDisplay(sender, ctx.text, parts) = q.display
    <2>1. q.display \in Seq(Displayed)
      BY <1>3 DEF Knowledge
    <2>2. <<>> \o q.display = q.display /\ <<>> \in Seq(Displayed)
      BY <2>1, ConcatEmptySeq, EmptySeq
    <2>3. QED
      BY <1>5, <1>9, <2>2
  <1>11. parts \cap {"url", "rates"} # {} =>
           ctx'.state \in {"URL_LENGTH", "COMMISSION_RATES"} /\ q.names = NamesAt(ctx'.state, parts)
    BY <1>6, <1>8, PlaceAfterStake
  <1>12. parts \cap {"url", "rates"} = {} => q.names = Rated(parts)
    BY <1>8, PlaceAfterStake
  <1>13. IF owed' /\ screen' = "sign" THEN Complete(Known(hash))' ELSE Waiting(Known(hash))'
    BY <1>1, <1>6, <1>7, <1>9, <1>10, <1>11, <1>12, FlowSettles DEF q
  <1>14. QED
    BY <1>4, <1>6, <1>9, <1>13

LEMMA UrlLengthPlace ==
  ASSUME ControlOK, HashOK, ContextOK, HeadInv, PlaceInv, PageInv, NEW n \in Nat, UrlLength(n)
  PROVE  PlaceInv'
  <1> DEFINE k == Known(hash)   q == Known(hash')   parts == ctx.parts
  <1>1. /\ InTurn("URL_LENGTH") /\ shown' = shown /\ begun' = begun /\ "url" \in parts
        /\ hash' = Append(hash, UrlSize(n)) /\ Len(hash) < MaxItems /\ sender' = sender
    BY DEF UrlLength, Continue, InTurn
  <1>2. UrlSize(n) \in Items /\ UrlSize(n).item = "urlLength" /\ UrlSize(n).size = n
    BY ItemTypes DEF UrlSize
  <1>3. q = ReadPiece(k, UrlSize(n)) /\ q \in Knowledge /\ (begun => hash'[1] = hash[1])
    BY <1>1, <1>2, OnePiece
  <1> SUFFICES ASSUME begun, hash[1].parts # {}
               PROVE  /\ ctx'.parts = hash[1].parts /\ q.whole
                      /\ IF owed' /\ screen' = "sign" THEN Complete(Known(hash))'
                         ELSE Waiting(Known(hash))'
    BY <1>1, <1>3, PlaceKept
  <1>4. /\ k \in Knowledge /\ parts = hash[1].parts /\ k.whole
        /\ ctx.state = "URL_LENGTH" /\ page = <<>> /\ k.names = Keyed(parts)
        /\ DisplayDue(k)
    BY <1>1, Placed, StatesAre
  <1> HIDE DEF k, q
  <1>5. q.names = Sized(parts)
    <2>1. q.names = Append(k.names, "urlLength")
      BY <1>2, <1>3 DEF ReadPiece
    <2>2. Sized(parts) = Append(Keyed(parts), "urlLength")
      <3>1. Keyed(parts) \in Seq(PieceNames) /\ "urlLength" \in PieceNames
        BY NamesTyped DEF PieceNames
      <3>2. QED
        BY <1>1, <3>1, OnePart DEF Sized
    <2>3. QED
      BY <1>4, <2>1, <2>2
  <1>6. q.left = n /\ q.inUrl /\ q.whole
    <2>1. q.left = n
      BY <1>2, <1>3 DEF ReadPiece
    <2>2. q.inUrl /\ (q.whole <=> k.whole)
      BY <1>2, <1>3, UrlRead
    <2>3. QED
      BY <1>4, <2>1, <2>2
  <1>7. CASE n = 0
    <2>1. /\ ctx' = [ctx EXCEPT !.urlLength = n, !.text = Garbage, !.state = AfterUrl(ctx.parts),
                                !.firstDisplay = FALSE]
          /\ Flow(Append(Opening, UrlSize(n)), {"rates"})
      BY <1>7 DEF UrlLength
    <2>2. ctx'.parts = parts /\ ctx'.firstDisplay = FALSE /\ ctx'.state = AfterUrl(parts)
      BY <2>1 DEF ContextOK, Contexts
    <2>3. q.display = Append(k.display, UrlSize(n))
      <3>1. ~Hidden(UrlSize(n))
        BY <1>2, <1>7 DEF Hidden
      <3>2. QED
        BY <1>2, <1>3, <3>1 DEF ReadPiece
    <2>4. shown \in Seq(Displayed) /\ shown \o Append(Opening, UrlSize(n)) = q.display
      <3>1. UrlSize(n) \in Displayed
        BY <1>2 DEF Displayed
      <3>2. QED
        BY <1>4, <2>3, <3>1, OpeningShowsOne
    <2>5. parts \cap {"rates"} # {} =>
            ctx'.state \in {"URL_LENGTH", "COMMISSION_RATES"} /\ q.names = NamesAt(ctx'.state, parts)
      BY <1>5, <2>2, PlaceAfterUrl
    <2>6. parts \cap {"rates"} = {} => q.names = Rated(parts)
      BY <1>5, PlaceAfterUrl
    <2>7. IF owed' /\ screen' = "sign" THEN Complete(Known(hash))' ELSE Waiting(Known(hash))'
      BY <1>1, <1>6, <1>7, <2>1, <2>2, <2>4, <2>5, <2>6, FlowSettles DEF q
    <2>8. QED
      BY <1>4, <1>6, <2>2, <2>7
  <1>8. CASE n > 0
    <2>1. /\ ctx' = [ctx EXCEPT !.urlLength = n, !.text = Garbage, !.state = "URL"]
          /\ owed' = FALSE /\ page' = page
      BY <1>8 DEF UrlLength, AnswerNow
    <2>2. /\ ctx'.parts = parts /\ ctx'.firstDisplay = ctx.firstDisplay /\ ctx'.state = "URL"
          /\ ctx'.urlLength = n
      BY <2>1 DEF ContextOK, Contexts
    <2>3. q.display = k.display
      <3>1. Hidden(UrlSize(n))
        BY <1>2, <1>8 DEF Hidden
      <3>2. QED
        BY <1>3, <3>1 DEF ReadPiece
    <2>4. DisplayDue(Known(hash))'
      BY <1>1, <1>4, <2>1, <2>2, <2>3 DEF DisplayDue, q
    <2>5. NamesAt("URL", parts) = Sized(parts)
      BY StatesAre
    <2>6. Waiting(Known(hash))'
      BY <1>5, <1>6, <2>2, <2>4, <2>5 DEF Waiting, q
    <2>7. QED
      BY <1>4, <1>6, <2>1, <2>2, <2>6
  <1>9. QED
    BY <1>7, <1>8

LEMMA UrlPlace ==
  ASSUME ControlOK, HashOK, ContextOK, HeadInv, PlaceInv, PageInv, NEW n \in Nat, Url(n)
  PROVE  PlaceInv'
  <1> DEFINE k == Known(hash)   q == Known(hash')   parts == ctx.parts
  <1>1. /\ InTurn("URL") /\ shown' = shown /\ begun' = begun
        /\ hash' = Append(hash, UrlBytes(n)) /\ Len(hash) < MaxItems
    BY DEF Url, Continue, InTurn
  <1>2. UrlBytes(n) \in Items /\ UrlBytes(n).item = "url" /\ UrlBytes(n).size = n
    BY ItemTypes DEF UrlBytes
  <1>3. q = ReadPiece(k, UrlBytes(n)) /\ q \in Knowledge /\ (begun => hash'[1] = hash[1])
    BY <1>1, <1>2, OnePiece
  <1> SUFFICES ASSUME begun, hash[1].parts # {}
               PROVE  /\ ctx'.parts = hash[1].parts /\ q.whole
                      /\ IF owed' /\ screen' = "sign" THEN Complete(Known(hash))'
                         ELSE Waiting(Known(hash))'
    BY <1>1, <1>3, PlaceKept
  <1>4. /\ k \in Knowledge /\ parts = hash[1].parts /\ k.whole
        /\ ctx.state = "URL" /\ page = <<>> /\ k.names = Sized(parts)
        /\ k.inUrl /\ k.left = ctx.urlLength /\ DisplayDue(k)
    BY <1>1, Placed, StatesAre
  <1> HIDE DEF k, q
  <1>5. q.names = Sized(parts) /\ q.left = ctx.urlLength - n
    BY <1>2, <1>3, <1>4 DEF ReadPiece
  <1>6. q.inUrl /\ q.whole
    BY <1>2, <1>3, <1>4, UrlRead
  <1>7. q.display = Append(k.display, UrlBytes(n))
    <2>1. ~Hidden(UrlBytes(n))
      BY <1>2 DEF Hidden
    <2>2. QED
      BY <1>2, <1>3, <2>1 DEF ReadPiece
  <1>8. shown \in Seq(Displayed) /\ shown \o Append(Opening, UrlBytes(n)) = q.display
    <2>1. UrlBytes(n) \in Displayed
      BY <1>2 DEF Displayed
    <2>2. QED
      BY <1>4, <1>7, <2>1, OpeningShowsOne
  <1>9. CASE n < ctx.urlLength
    <2>1. /\ ctx' = [ctx EXCEPT !.urlLength = @ - n, !.text = Garbage, !.firstDisplay = FALSE]
          /\ page' = Append(Opening, UrlBytes(n)) /\ owed' = TRUE /\ screen' = "continue"
      BY <1>9 DEF Url, Ask
    <2>2. /\ ctx'.parts = parts /\ ctx'.firstDisplay = FALSE /\ ctx'.state = "URL"
          /\ ctx'.urlLength = ctx.urlLength - n
      BY <1>4, <2>1 DEF ContextOK, Contexts
    <2>3. DisplayDue(Known(hash))'
      BY <1>1, <1>8, <2>1, <2>2 DEF DisplayDue, q
    <2>4. NamesAt("URL", parts) = Sized(parts)
      BY StatesAre
    <2>5. Waiting(Known(hash))'
      BY <1>5, <1>6, <2>2, <2>3, <2>4 DEF Waiting, q
    <2>6. ~(screen' = "sign")
      BY <2>1
    <2>7. QED
      BY <1>4, <1>6, <2>2, <2>5, <2>6
  <1>10. CASE n = ctx.urlLength
    <2>1. /\ ctx' = [ctx EXCEPT !.text = Garbage, !.firstDisplay = FALSE, !.state = AfterUrl(ctx.parts)]
          /\ Flow(Append(Opening, UrlBytes(n)), {"rates"})
      BY <1>10 DEF Url
    <2>2. ctx'.parts = parts /\ ctx'.firstDisplay = FALSE /\ ctx'.state = AfterUrl(parts)
      BY <2>1 DEF ContextOK, Contexts
    <2>3. q.left = 0
      BY <1>5, <1>10
    <2>4. parts \cap {"rates"} # {} =>
            ctx'.state \in {"URL_LENGTH", "COMMISSION_RATES"} /\ q.names = NamesAt(ctx'.state, parts)
      BY <1>5, <2>2, PlaceAfterUrl
    <2>5. parts \cap {"rates"} = {} => q.names = Rated(parts)
      BY <1>5, PlaceAfterUrl
    <2>6. IF owed' /\ screen' = "sign" THEN Complete(Known(hash))' ELSE Waiting(Known(hash))'
      BY <1>1, <1>8, <2>1, <2>2, <2>3, <2>4, <2>5, FlowSettles DEF q
    <2>7. QED
      BY <1>4, <1>6, <2>2, <2>6
  <1>11. QED
    BY <1>9, <1>10 DEF Url

LEMMA CommissionRatesPlace ==
  ASSUME ControlOK, HashOK, ContextOK, HeadInv, PlaceInv, PageInv, NEW v \in Values, CommissionRates(v)
  PROVE  PlaceInv'
  <1> DEFINE k == Known(hash)   q == Known(hash')   parts == ctx.parts
             items == Opening \o Maybe("rates", parts, RatesItem(v))
  <1>1. /\ InTurn("COMMISSION_RATES") /\ shown' = shown /\ begun' = begun
        /\ hash' = hash \o If("rates", <<RatesItem(v)>>) /\ Len(hash) < MaxItems
        /\ ctx' = [ctx EXCEPT !.text = IF "rates" \in parts THEN v ELSE @, !.firstDisplay = FALSE]
        /\ Flow(Opening \o If("rates", <<RatesItem(v)>>), {})
    BY DEF CommissionRates, Continue, InTurn
  <1>2. hash' = hash \o Maybe("rates", parts, RatesItem(v)) /\ Flow(items, {})
    BY <1>1, IfIsMaybe
  <1>3. begun => hash'[1] = hash[1]
    <2>1. RatesItem(v) \in Items /\ hash \in Seq(Items)
      BY ItemTypes DEF HashOK
    <2>2. QED
      BY <1>1, <2>1, OptionalMore, HeadStays
  <1> SUFFICES ASSUME begun, hash[1].parts # {}
               PROVE  /\ ctx'.parts = hash[1].parts /\ q.whole
                      /\ IF owed' /\ screen' = "sign" THEN Complete(Known(hash))'
                         ELSE Waiting(Known(hash))'
    BY <1>1, <1>3, PlaceKept
  <1>4. /\ hash \in Seq(Items) /\ k \in Knowledge /\ parts = hash[1].parts /\ k.whole
        /\ ctx.state = "COMMISSION_RATES" /\ page = <<>> /\ k.names = Sized(parts) /\ k.left = 0
        /\ DisplayDue(k)
    BY <1>1, Placed, StatesAre
  <1>5. PICK x \in Items : x = RatesItem(v) /\ x.item = "rates"
    BY ItemTypes DEF RatesItem
  <1>6. hash' = hash \o Maybe("rates", parts, x) /\ k = Known(hash) /\ q = Known(hash')
    BY <1>2, <1>5
  <1> HIDE DEF k, q
  <1>7. x \in Items /\ hash \in Seq(Items) /\ x.item \in {"stake", "keys", "rates"}
    BY <1>4, <1>5
  <1>8. PartRead(k, q, "rates", parts, x)
    BY <1>6, <1>7, KnownPart
  <1>9. q.names = Rated(parts) /\ q.left = 0 /\ q.whole
    BY <1>4, <1>5, <1>8 DEF PartRead, Rated
  <1>10. shown \in Seq(Displayed) /\ shown \o items = q.display
    <2>1. x \in Displayed /\ <<>> \in Seq(Displayed) /\ <<x>> \in Seq(Displayed)
      BY EmptySeq DEF Displayed
    <2>2. Maybe("rates", parts, x) \in Seq(Displayed)
      BY <2>1 DEF Maybe
    <2>3. q.display = k.display \o Maybe("rates", parts, x)
      BY <1>8 DEF PartRead
    <2>4. items = Opening \o Maybe("rates", parts, x)
      BY <1>5
    <2> HIDE DEF items
    <2>5. ctx.state \notin {"FIRST", "AGGREGATION_KEY"}
      BY <1>4
    <2>6. QED
      BY <1>4, <2>2, <2>3, <2>4, <2>5, OpeningShows
  <1>11. ctx'.parts = parts /\ ctx'.firstDisplay = FALSE
    BY <1>1 DEF ContextOK, Contexts
  <1> HIDE DEF items
  <1>12. parts \cap {} = {}
    OBVIOUS
  <1>13. IF owed' /\ screen' = "sign" THEN Complete(Known(hash))' ELSE Waiting(Known(hash))'
    BY <1>1, <1>2, <1>9, <1>10, <1>11, <1>12, FlowSettles DEF q
  <1>14. QED
    BY <1>4, <1>9, <1>11, <1>13

\* What has been read through is shown, with the page of the flow that ends.
LEMMA ContinuePlace ==
  ASSUME HashOK, PlaceInv, PressContinueFlow PROVE PlaceInv'
  <1>1. /\ screen = "continue" /\ shown' = shown \o page /\ page' = <<>> /\ owed' = FALSE
        /\ UNCHANGED <<hash, sender, ctx, begun>>
    BY DEF PressContinueFlow, PressContinue
  <1> SUFFICES ASSUME begun, hash[1].parts # {} PROVE PlaceInv'
    BY <1>1 DEF PlaceInv
  <1>2. ctx.parts = hash[1].parts /\ Known(hash).whole /\ Waiting(Known(hash))
    BY <1>1 DEF PlaceInv
  <1>3. Known(hash).display \in Seq(Displayed)
    BY KnownType DEF HashOK, Knowledge
  <1>4. DisplayDue(Known(hash)) => DisplayDue(Known(hash))'
    <2>1. CASE ctx.firstDisplay
      <3>1. <<>> \o <<>> = <<>>
        OBVIOUS
      <3>2. QED
        BY <1>1, <2>1, <3>1 DEF DisplayDue
    <2>2. CASE ~ctx.firstDisplay
      <3>1. Known(hash).display \o <<>> = Known(hash).display
        BY <1>3, ConcatEmptySeq
      <3>2. QED
        BY <1>1, <1>3, <2>2, <3>1 DEF DisplayDue
    <2>3. QED
      BY <2>1, <2>2
  <1>5. Waiting(Known(hash))'
    BY <1>1, <1>2, <1>4 DEF Waiting
  <1>6. QED
    BY <1>1, <1>2, <1>5 DEF PlaceInv

LEMMA PageNext == ASSUME PageInv, [Next]_vars PROVE PageInv'
  <1> USE DEF PageInv, Over, AnswerNow, Ask, Refuse, Accepts
  <1>1. CASE Command
    BY <1>1
    DEF Command, Dispatch, BadCommand, SwitchInstruction, OutOfTurn, InitialRefused, Initial, InitialHead,
        Batch, BatchRefused, BakerDisplay, Flow, InTurn, Continue, CommissionRates,
        CommissionRatesRefused, AggregationKey, UrlLength, UrlLengthRefused, Url, UrlRefused, ExportKey,
        OtherInstruction
  <1>2. CASE Button
    BY <1>2
    DEF Button, PressContinueFlow, PressSign, PressSignFails, PressDecline, PressStray, PressQuit,
        Restart
  <1>3. CASE PowerLost \/ UNCHANGED vars
    BY <1>3 DEF PowerLost, Restart, vars, deviceVars
  <1>4. QED
    BY <1>1, <1>2, <1>3 DEF Next

LEMMA PlaceNext ==
  ASSUME ControlOK, HashOK, ContextOK, HeadInv, PlaceInv, PageInv, [Next]_vars
  PROVE  PlaceInv'
  <1>1. ASSUME begun' = FALSE PROVE PlaceInv'
    BY <1>1 DEF PlaceInv
  <1>2. CASE Command
    <2>1. ctx \in Contexts /\ MaxUrl \in Nat /\ MaxChunk \in Nat
      BY BakerAssumption DEF ContextOK
    <2>2. \A n : n \in 0..(MaxUrl + 1) \/ n \in 0..MaxChunk => n \in Nat
      BY <2>1
    <2>3. CASE \E p \in Paths, v \in Values :
                 InitialRefused(p, v) \/ \E parts \in SUBSET Parts : Initial(p, v, parts)
      <3>1. ASSUME NEW p, NEW v, InitialRefused(p, v) PROVE begun' = FALSE
        BY <3>1 DEF InitialRefused, Over
      <3>2. QED
        BY <1>1, <2>1, <2>3, <3>1, InitialPlace
    <2>4. CASE \E v \in Values :
                 Batch(v) \/ BatchRefused(v) \/ CommissionRates(v) \/ CommissionRatesRefused(v)
      <3>1. ASSUME NEW v, BatchRefused(v) \/ CommissionRatesRefused(v) PROVE begun' = FALSE
        BY <3>1 DEF BatchRefused, CommissionRatesRefused, Over
      <3>2. QED
        BY <1>1, <2>4, <3>1, BatchPlace, CommissionRatesPlace
    <2>5. CASE AggregationKey
      BY <2>5, AggregationKeyPlace
    <2>6. CASE \/ \E n \in 0..(MaxUrl + 1) : UrlLength(n) \/ UrlLengthRefused(n)
               \/ \E n \in 0..MaxChunk : Url(n) \/ UrlRefused(n)
      <3>1. ASSUME NEW n, UrlLengthRefused(n) \/ UrlRefused(n) PROVE begun' = FALSE
        BY <3>1 DEF UrlLengthRefused, UrlRefused, Over
      <3>2. QED
        BY <1>1, <2>2, <2>6, <3>1, UrlLengthPlace, UrlPlace
    <2>7. CASE \/ Dispatch \/ OutOfTurn
               \/ \E p \in Paths : \/ ExportKey(p)
                                   \/ \E state, parts : OtherInstruction(p, state, parts)
      <3>1. begun' = FALSE
        BY <2>7 DEF Dispatch, OutOfTurn, ExportKey, OtherInstruction, Over
      <3>2. QED
        BY <1>1, <3>1
    <2>8. QED
      BY <1>2, <2>3, <2>4, <2>5, <2>6, <2>7 DEF Command
  <1>3. CASE Button
    <2>1. ASSUME PressSign \/ PressSignFails \/ PressDecline \/ PressStray \/ PressQuit
          PROVE  begun' = FALSE
      BY <2>1 DEF PressSign, PressSignFails, PressDecline, PressStray, PressQuit, Restart, Over
    <2>2. QED
      BY <1>1, <1>3, <2>1, ContinuePlace DEF Button
  <1>4. CASE PowerLost
    BY <1>1, <1>4 DEF PowerLost, Restart
  <1>5. CASE UNCHANGED vars
    BY <1>5 DEF vars, deviceVars, PlaceInv, Waiting, Complete, DisplayDue
  <1>6. QED
    BY <1>2, <1>3, <1>4, <1>5 DEF Next

(***************************************************************************)
(* What a signature is worth.                                              *)
(***************************************************************************)
LEMMA SignedNext ==
  ASSUME HeadInv, PlaceInv, SignedInv, [Next]_vars PROVE SignedInv'
  <1> USE DEF SignedInv, SignedUnderItsOwnPath, SignedIsOneTransaction, SignedWasShown,
              SignedFromTheStart, Signed
  <1>1. CASE PressSign
    <2>1. /\ reply'.over = hash /\ reply'.key = path /\ reply'.begun = begun
          /\ reply'.shown = shown \o page /\ screen = "sign" /\ owed
      BY <1>1 DEF PressSign, PressAnswer, Signature
    <2>2. ASSUME begun, hash[1].parts # {}
          PROVE  /\ hash[1].item = "head" /\ hash[1].key = path
                 /\ OneTransaction(hash) /\ shown \o page = Known(hash).display
      <3>1. hash[1].item = "head" /\ hash[1].key = path
        BY <2>2 DEF HeadInv
      <3>2. ctx.parts = hash[1].parts /\ Known(hash).whole /\ Complete(Known(hash))
        BY <2>1, <2>2 DEF PlaceInv
      <3>3. OneTransaction(hash) /\ shown \o page = Known(hash).display
        BY <2>2, <3>1, <3>2, RatedIs DEF Complete, OneTransaction
      <3>4. QED
        BY <3>1, <3>3
    <2>3. QED
      BY <2>1, <2>2
  <1>2. CASE reply' = reply
    BY <1>2
  <1>3. CASE reply' \in {Success, Refusal, Rejection, NoReply}
    BY <1>3 DEF Success, Refusal, Rejection, NoReply
  <1>4. PressSign \/ reply' = reply \/ reply' \in {Success, Refusal, Rejection, NoReply}
    <2> USE DEF AnswerNow, Ask, Refuse
    <2>1. CASE Command
      BY <2>1
      DEF Command, Dispatch, BadCommand, SwitchInstruction, OutOfTurn, InitialRefused, Initial, Batch,
          BatchRefused, BakerDisplay, Flow, CommissionRates, CommissionRatesRefused, AggregationKey,
          UrlLength, UrlLengthRefused, Url, UrlRefused, ExportKey, OtherInstruction
    <2>2. CASE Button
      BY <2>2
      DEF Button, PressContinueFlow, PressSignFails, PressDecline, PressStray, PressQuit,
          PressContinue, PressThrow, PressAnswer, Restart, DeviceRestart
    <2>3. CASE PowerLost \/ UNCHANGED vars
      BY <2>3 DEF PowerLost, Restart, DeviceRestart, vars, deviceVars
    <2>4. QED
      BY <2>1, <2>2, <2>3, SMTT(40) DEF Next
  <1>5. QED
    BY <1>1, <1>2, <1>3, <1>4

BakerInv == ControlOK /\ HashOK /\ ContextOK /\ HeadInv /\ PageInv /\ PlaceInv /\ SignedInv

LEMMA BakerInit == Init => BakerInv
  <1> SUFFICES ASSUME Init PROVE BakerInv
    OBVIOUS
  <1>1. ControlOK /\ HeadInv /\ PageInv /\ PlaceInv
    BY DEF Init, DeviceInit, ControlOK, HeadInv, PageInv, PlaceInv
  <1>2. <<>> \in Seq(Items) /\ Len(<<>>) = 0 /\ 0 <= MaxItems + 1
    BY BakerAssumption
  <1>3. HashOK
    BY <1>2 DEF Init, HashOK
  <1>4. ContextOK
    BY BakerAssumption DEF Init, NoContext, States, ContextOK, Contexts
  <1>5. SignedInv
    BY DEF Init, DeviceInit, NoReply, SignedInv, SignedUnderItsOwnPath, SignedIsOneTransaction,
           SignedWasShown, SignedFromTheStart, Signed
  <1>6. QED
    BY <1>1, <1>3, <1>4, <1>5 DEF BakerInv

LEMMA BakerCorrect == Spec => []BakerInv
  <1>1. BakerInv /\ [Next]_vars => BakerInv'
    BY ControlNext, HashNext, ContextNext, HeadNext, PageNext, PlaceNext, SignedNext
    DEF BakerInv, ControlOK
  <1>2. QED
    BY <1>1, BakerInit, PTL DEF Spec

(***************************************************************************)
(* The theorems.                                                           *)
(***************************************************************************)
\* Every variable keeps to the values its C type and the handler allow, and no
\* command feeds the hash more than two pieces.
THEOREM BakerTypeCorrect == Spec => []TypeOK
  <1>1. BakerInv => TypeOK
    BY TypeIs DEF BakerInv
  <1>2. QED
    BY <1>1, BakerCorrect, PTL

\* A baker configuration that began with its own first command is signed under the
\* path that came with that command.
THEOREM BakerOwnPath == Spec => []SignedUnderItsOwnPath
  <1>1. BakerInv => SignedUnderItsOwnPath
    BY DEF BakerInv, SignedInv
  <1>2. QED
    BY <1>1, BakerCorrect, PTL

\* A signature on a configuration that its own first command began covers the parts
\* its bitmap announces, each once and in order, and as many bytes of URL as its
\* length says, in however many pages: handleSignConfigureBaker leaves no state but
\* through the parts that are due.
THEOREM BakerSignsOneTransaction == Spec => []SignedIsOneTransaction
  <1>1. BakerInv => SignedIsOneTransaction
    BY DEF BakerInv, SignedInv
  <1>2. QED
    BY <1>1, BakerCorrect, PTL

\* The flows shown before the signature - up to three, of which whichever comes first
\* opens with the review (firstDisplay) - have shown all of the transaction, in order.
THEOREM BakerShowsAll == Spec => []SignedWasShown
  <1>1. BakerInv => SignedWasShown
    BY DEF BakerInv, SignedInv
  <1>2. QED
    BY <1>1, BakerCorrect, PTL
=============================================================================
