-------------------------- MODULE TransfersProofs ---------------------------
(***************************************************************************)
(* For every memo length, command length and path, and whether or not the  *)
(* UX engine keeps a pressed step alive: a signature on a transfer, with   *)
(* or without memo, covers one whole transaction, under the path that came *)
(* with it, below a dialog that shows its sender, recipient and amount,    *)
(* and a text memo is whole and on display.  The argument is TransferInv:  *)
(* at each point of the dialogue it says what the hash covers, exactly.    *)
(***************************************************************************)
EXTENDS Transfers, SequenceTheorems, FiniteSetTheorems, TLAPS

Contexts == [state : States \cup {"none"}, to : Values \cup {Garbage}, amount : Values \cup {Garbage}]
Texts    == [Cells -> {"nul", "digit", "text"}]
Cbors    == [left : 0..(Word - 1), type : {0, 1, 3}, used : Nat, text : Texts]

TypeParts ==
  /\ currentInstruction \in {GetKey, Simple, WithMemo, None} /\ owed \in BOOLEAN
  /\ screen \in {"sign", "signMemo", "idle", "frozen", "generate", "compare"}
  /\ path \in Paths \cup {LongPath} /\ sender \in Values \cup {Garbage}
  /\ ctx \in Contexts /\ cbor \in Cbors

\* The head of the transaction in progress.
Head1(kind) == HeadItem(kind, path, sender)

\* What has been copied of a text memo ends behind no '\0'.
CopiedHasNoEnd == \A i \in Cells : i <= cbor.used => cbor.text[i] # "nul"
CopiedFits     == cbor.used < MaxMemo

\* What the hash covers of a memo in one command and in two.
One(size, n)    == <<Head1(WithMemo), MemoLength(size), MemoBytes(n)>>
Two(size, n, m) == <<Head1(WithMemo), MemoLength(size), MemoBytes(n), MemoBytes(m)>>

\* The memo has come. Of a number, the bytes are not counted.
MemoReady ==
  \/ \E size \in 0..MaxMemo, n \in 1..MaxChunk :
       hash = One(size, n) /\ (cbor.type = 3 => n = size /\ cbor.used < size)
  \/ \E size \in 0..MaxMemo, n, m \in 1..MaxChunk :
       hash = Two(size, n, m) /\ n + m = size /\ cbor.used < size

\* ... and the amount.
MemoComplete ==
  \/ \E size \in 0..MaxMemo, n \in 1..MaxChunk :
       /\ hash = <<Head1(WithMemo), MemoLength(size), MemoBytes(n), Amount(ctx.amount)>>
       /\ cbor.type = 3 => n = size /\ cbor.used < size
  \/ \E size \in 0..MaxMemo, n, m \in 1..MaxChunk :
       /\ hash = <<Head1(WithMemo), MemoLength(size), MemoBytes(n), MemoBytes(m),
                   Amount(ctx.amount)>>
       /\ n + m = size /\ cbor.used < size

\* Between commands, and while the last one waits for the user.
MemoInv ==
  currentInstruction = WithMemo =>
    /\ ctx.to = sender
    /\ ctx.state \in {"MEMO_INITIAL", "MEMO", "AMOUNT"}
    /\ ctx.state = "MEMO_INITIAL" =>
         cbor.left \in 0..MaxMemo /\ hash = <<Head1(WithMemo), MemoLength(cbor.left)>>
    /\ ctx.state = "MEMO" =>
         /\ cbor.type = 3
         /\ \E size \in 0..MaxMemo, n \in 1..MaxChunk :
              /\ hash = One(size, n)
              /\ cbor.left = Less(size, n) /\ cbor.used < n
    /\ ctx.state = "AMOUNT" => IF owed THEN MemoComplete ELSE MemoReady
    /\ ctx.state \in {"MEMO", "AMOUNT"} /\ cbor.type = 3 => CopiedHasNoEnd

\* A command is owed by the instruction whose dialog is on display, or by one that
\* has ended in an error: then there is no key to sign with, or the hash is spent.
DialogInv ==
  owed =>
    \/ currentInstruction = None /\ screen \in {"frozen", "generate"}
    \/ /\ currentInstruction = None /\ hash = <<Finalised>>
       /\ screen = "signMemo" /\ cbor.type = 3 => CopiedHasNoEnd /\ CopiedFits
    \/ currentInstruction = GetKey /\ screen = "generate"
    \/ /\ currentInstruction = Simple /\ screen = "sign" /\ ctx.to = sender
       /\ hash = <<Head1(Simple), Amount(ctx.amount)>>
    \/ currentInstruction = WithMemo /\ screen = "signMemo" /\ ctx.state = "AMOUNT"

SignedInv ==
  SignedIsOneTransaction /\ SignedUnderItsOwnPath /\ SignedWasShown /\ TextMemoIsWhole

TransferInv == TypeParts /\ MemoInv /\ DialogInv /\ SignedInv
-----------------------------------------------------------------------------
(***************************************************************************)
(* Sequences of a few items.                                               *)
(***************************************************************************)
LEMMA AppendedIs ==
  ASSUME NEW S, NEW s \in Seq(S), NEW x \in S, NEW t \in Seq(S), Len(t) = Len(s) + 1,
         \A i \in 1..Len(s) : t[i] = s[i], t[Len(t)] = x
  PROVE  Append(s, x) = t
  BY AppendProperties, LenProperties, SeqEqual

LEMMA AppendTwo == ASSUME NEW a, NEW b, NEW c PROVE Append(<<a, b>>, c) = <<a, b, c>>
  <1> DEFINE S == {a, b, c}  s == <<a, b>>  t == <<a, b, c>>
  <1>1. s \in Seq(S) /\ t \in Seq(S) /\ c \in S
    OBVIOUS
  <1>2. Len(s) = 2 /\ Len(t) = 3 /\ s[1] = a /\ s[2] = b /\ t[1] = a /\ t[2] = b /\ t[3] = c
    OBVIOUS
  <1>3. Len(t) = Len(s) + 1 /\ t[Len(t)] = c /\ \A i \in 1..Len(s) : t[i] = s[i]
    BY <1>2
  <1> HIDE DEF S, s, t
  <1>4. Append(s, c) = t
    BY <1>1, <1>3, AppendedIs
  <1> QED
    BY <1>4 DEF s, t

LEMMA AppendThree ==
  ASSUME NEW a, NEW b, NEW c, NEW d PROVE Append(<<a, b, c>>, d) = <<a, b, c, d>>
  <1> DEFINE S == {a, b, c, d}  s == <<a, b, c>>  t == <<a, b, c, d>>
  <1>1. s \in Seq(S) /\ t \in Seq(S) /\ d \in S
    OBVIOUS
  <1>2. /\ Len(s) = 3 /\ Len(t) = 4 /\ s[1] = a /\ s[2] = b /\ s[3] = c
        /\ t[1] = a /\ t[2] = b /\ t[3] = c /\ t[4] = d
    OBVIOUS
  <1>3. Len(t) = Len(s) + 1 /\ t[Len(t)] = d /\ \A i \in 1..Len(s) : t[i] = s[i]
    BY <1>2
  <1> HIDE DEF S, s, t
  <1>4. Append(s, d) = t
    BY <1>1, <1>3, AppendedIs
  <1> QED
    BY <1>4 DEF s, t

LEMMA AppendFour ==
  ASSUME NEW a, NEW b, NEW c, NEW d, NEW e
  PROVE  Append(<<a, b, c, d>>, e) = <<a, b, c, d, e>>
  <1> DEFINE S == {a, b, c, d, e}  s == <<a, b, c, d>>  t == <<a, b, c, d, e>>
  <1>1. s \in Seq(S) /\ t \in Seq(S) /\ e \in S
    OBVIOUS
  <1>2. /\ Len(s) = 4 /\ Len(t) = 5 /\ s[1] = a /\ s[2] = b /\ s[3] = c /\ s[4] = d
        /\ t[1] = a /\ t[2] = b /\ t[3] = c /\ t[4] = d /\ t[5] = e
    OBVIOUS
  <1>3. Len(t) = Len(s) + 1 /\ t[Len(t)] = e /\ \A i \in 1..Len(s) : t[i] = s[i]
    BY <1>2
  <1> HIDE DEF S, s, t
  <1>4. Append(s, e) = t
    BY <1>1, <1>3, AppendedIs
  <1> QED
    BY <1>4 DEF s, t

(***************************************************************************)
(* cborLength, modulo Word.                                                *)
(***************************************************************************)
LEMMA LessType ==
  ASSUME NEW left \in 0..(Word - 1), NEW n \in 0..MaxChunk
  PROVE  Less(left, n) \in 0..(Word - 1)
  BY TransfersAssumption DEF Less

\* It comes to 0 when as many bytes have come as were declared, and only then.
LEMMA LessOnce ==
  ASSUME NEW size \in 0..MaxMemo, NEW n \in 1..MaxChunk, Less(size, n) = 0
  PROVE  n = size
  BY TransfersAssumption DEF Less

LEMMA LessTwice ==
  ASSUME NEW size \in 0..MaxMemo, NEW n \in 1..MaxChunk, NEW m \in 1..MaxChunk,
         Less(Less(size, n), m) = 0
  PROVE  n + m = size
  <1>1. CASE n <= size
    BY <1>1, TransfersAssumption DEF Less
  <1>2. CASE n > size
    BY <1>2, TransfersAssumption DEF Less
  <1>3. QED
    BY <1>1, <1>2, TransfersAssumption

\* Head and content are taken off one after the other.
LEMMA LessHead ==
  ASSUME NEW size \in 0..MaxMemo, NEW n \in 1..MaxChunk, NEW head \in 1..n
  PROVE  Less(Less(size, head), n - head) = Less(size, n)
  <1>1. CASE head <= size
    BY <1>1, TransfersAssumption DEF Less
  <1>2. CASE head > size
    BY <1>2, TransfersAssumption DEF Less
  <1>3. QED
    BY <1>1, <1>2, TransfersAssumption

(***************************************************************************)
(* The text of the memo.                                                   *)
(***************************************************************************)
LEMMA TextType ==
  ASSUME NEW text \in Texts, NEW used \in Nat, NEW n \in Nat
  PROVE  PutText(text, used, n) \in Texts /\ Number(text) \in Texts
  BY DEF PutText, Number, Texts

\* bnnn_paging reads on to the first '\0', so at least what has been copied.
LEMMA VisibleIs ==
  ASSUME cbor \in Cbors, CopiedHasNoEnd, CopiedFits
  PROVE  visible >= cbor.used
  <1> DEFINE V == {i \in Cells : \A j \in 1..i : cbor.text[j] # "nul"}
             used == cbor.used
  <1>1. used \in Nat /\ used <= MaxMemo - 1 /\ MaxMemo \in Nat
    BY TransfersAssumption DEF Cbors, CopiedFits
  <1>2. 1..used \in SUBSET V
    BY <1>1 DEF CopiedHasNoEnd, Cells
  <1>3. IsFiniteSet(Cells)
    BY <1>1, FS_Interval DEF Cells
  <1>4. IsFiniteSet(V)
    BY <1>3, FS_Subset
  <1>5. Cardinality(1..used) = used
    BY <1>1, FS_Interval
  <1>6. Cardinality(1..used) <= Cardinality(V) /\ Cardinality(V) \in Nat
    BY <1>2, <1>4, FS_Subset, FS_CardinalityType
  <1>7. QED
    BY <1>1, <1>5, <1>6 DEF visible

(***************************************************************************)
(* The types.                                                              *)
(***************************************************************************)
LEMMA Names ==
  /\ None \notin {GetKey, Simple, WithMemo}
  /\ GetKey # Simple /\ GetKey # WithMemo /\ Simple # WithMemo
  BY NoneIsNoInstruction DEF GetKey, Simple, WithMemo

\* The display after a callback that starts no flow.
LEMMA ScreenLeft == LeaveScreen => screen' \in {screen, "frozen"}
  BY DEF LeaveScreen

LEMMA BlankText == [i \in Cells |-> "nul"] \in Texts
  BY DEF Texts

LEMMA TypeInit == Init => TypeParts
  <1> SUFFICES ASSUME Init PROVE TypeParts
    OBVIOUS
  <1>1. cbor \in Cbors
    BY BlankText, TransfersAssumption DEF Init, Cbors
  <1>2. QED
    BY <1>1 DEF Init, DeviceInit, TypeParts, Contexts, States

LEMMA TypeRestart == Restart => TypeParts'
  <1> SUFFICES ASSUME Restart PROVE TypeParts'
    OBVIOUS
  <1>1. cbor' \in Cbors
    BY BlankText, TransfersAssumption DEF Restart, Cbors
  <1>2. QED
    BY <1>1 DEF Restart, DeviceRestart, uiIdle, TypeParts, Contexts, States

\* What the steps of the memo leave in the context: s is the state.
LEMMA ContextType ==
  ASSUME ctx \in Contexts, NEW s \in States, NEW v \in Values
  PROVE  /\ [ctx EXCEPT !.state = s] \in Contexts
         /\ [ctx EXCEPT !.amount = v] \in Contexts
         /\ [ctx EXCEPT !.amount = Garbage] \in Contexts
         /\ [ctx EXCEPT !.to = Garbage, !.amount = Garbage] \in Contexts
         /\ [ctx EXCEPT !.state = s, !.to = v] \in Contexts
         /\ [ctx EXCEPT !.to = v, !.amount = v] \in Contexts
  BY DEF Contexts

LEMMA MemoFirstType ==
  ASSUME TypeParts, NEW n \in 1..MaxChunk, NEW type \in {0, 1, 3}, NEW extra \in 0..1,
         NEW argument \in Arguments, extra < n, MemoFirst(type, extra, argument, n)
  PROVE  cbor' \in Cbors
  <1> DEFINE head == 1 + extra
             afterHead == Less(cbor.left, head)
             content == n - 1 - extra
             afterText == Less(afterHead, content)
  <1>1. head \in 0..MaxChunk /\ content \in 0..MaxChunk /\ content \in Nat
    BY TransfersAssumption
  <1>2. cbor \in Cbors /\ cbor.left \in 0..(Word - 1) /\ cbor.text \in Texts
    BY DEF TypeParts, Cbors
  <1>3. afterHead \in 0..(Word - 1)
    BY <1>1, <1>2, LessType
  <1>4. afterText \in 0..(Word - 1)
    BY <1>1, <1>3, LessType
  <1>5. PutText(cbor.text, 0, content) \in Texts /\ Number(cbor.text) \in Texts
    BY <1>1, <1>2, TextType
  <1>6. \/ cbor' = [left |-> afterHead, type |-> type, used |-> 0, text |-> Number(cbor.text)]
        \/ cbor' = [cbor EXCEPT !.left = afterHead, !.type = type, !.used = 0]
        \/ cbor' = [left |-> afterText, type |-> type, used |-> content,
                    text |-> PutText(cbor.text, 0, content)]
    BY DEF MemoFirst
  <1> HIDE DEF afterHead, afterText, content, head
  <1>7. CASE cbor' = [left |-> afterHead, type |-> type, used |-> 0, text |-> Number(cbor.text)]
    BY <1>3, <1>5, <1>7 DEF Cbors
  <1>8. CASE cbor' = [cbor EXCEPT !.left = afterHead, !.type = type, !.used = 0]
    BY <1>2, <1>3, <1>8 DEF Cbors
  <1>9. CASE cbor' = [left |-> afterText, type |-> type, used |-> content,
                      text |-> PutText(cbor.text, 0, content)]
    BY <1>1, <1>4, <1>5, <1>9 DEF Cbors
  <1>10. QED
    BY <1>6, <1>7, <1>8, <1>9

LEMMA MemoRestType ==
  ASSUME TypeParts, NEW n \in 1..MaxChunk, MemoRest(n)
  PROVE  /\ cbor' \in Cbors
         /\ cbor'.left = Less(cbor.left, n) /\ cbor'.used = cbor.used + n
         /\ cbor'.type = cbor.type /\ cbor'.text = PutText(cbor.text, cbor.used, n)
  <1> DEFINE left == Less(cbor.left, n)
             used == cbor.used + n
             text == PutText(cbor.text, cbor.used, n)
  <1>1. /\ cbor \in Cbors /\ cbor.left \in 0..(Word - 1) /\ cbor.text \in Texts
        /\ cbor.used \in Nat
    BY DEF TypeParts, Cbors
  <1>2. n \in 0..MaxChunk /\ n \in Nat
    BY TransfersAssumption
  <1>3. left \in 0..(Word - 1) /\ used \in Nat /\ text \in Texts
    <2>1. left \in 0..(Word - 1)
      BY <1>1, <1>2, LessType
    <2>2. used \in Nat
      BY <1>1, <1>2
    <2>3. text \in Texts
      BY <1>1, <1>2, TextType
    <2>4. QED
      BY <2>1, <2>2, <2>3
  <1>4. cbor' = [cbor EXCEPT !.left = left, !.used = used, !.text = text]
    BY DEF MemoRest
  <1> HIDE DEF left, used, text
  <1>5. /\ cbor' \in Cbors
        /\ cbor'.left = left /\ cbor'.used = used /\ cbor'.type = cbor.type /\ cbor'.text = text
    BY <1>1, <1>3, <1>4 DEF Cbors
  <1>6. QED
    BY <1>5 DEF left, used, text

\* The length of the memo is within cborLength, whether it is refused or not.
LEMMA SizeType ==
  ASSUME cbor \in Cbors, NEW size \in 0..(MaxMemo + 1)
  PROVE  LET c == [cbor EXCEPT !.left = size] IN
         c \in Cbors /\ c.left = size /\ c.type = cbor.type /\ c.used = cbor.used
  <1>1. size \in 0..(Word - 1)
    BY TransfersAssumption
  <1>2. QED
    BY <1>1 DEF Cbors

LEMMA TypeNext == TypeParts /\ [Next]_vars => TypeParts'
  <1> SUFFICES ASSUME TypeParts, [Next]_vars PROVE TypeParts'
    OBVIOUS
  <1>0. ctx \in Contexts /\ cbor \in Cbors
    BY DEF TypeParts
  <1> USE DEF TypeParts
  <1>1. CASE Dispatch
    BY <1>1 DEF Dispatch, BadCommand, SwitchInstruction, Refuse
  <1>2. ASSUME NEW p \in Paths, GetPublicKeySilent(p) PROVE TypeParts'
    <2>1. ctx' \in Contexts
      BY <1>0, <1>2 DEF GetPublicKeySilent, Contexts
    <2>2. QED
      BY <1>2, <2>1 DEF GetPublicKeySilent, uiIdle
  <1>3. ASSUME NEW p \in Paths, GetPublicKeyAsk(p) PROVE TypeParts'
    <2>1. ctx' \in Contexts
      BY <1>0, <1>3 DEF GetPublicKeyAsk, Contexts
    <2>2. QED
      BY <1>3, <2>1 DEF GetPublicKeyAsk, Refuse, Ask
  <1>4. ASSUME NEW p \in Paths, GetPublicKeyRefused(p) PROVE TypeParts'
    <2>1. ctx' \in Contexts
      BY <1>0, <1>4 DEF GetPublicKeyRefused, Contexts
    <2>2. QED
      BY <1>4, <2>1 DEF GetPublicKeyRefused, Refuse
  <1>5. ASSUME NEW p \in Paths, NEW v \in Values, NEW a \in Values, SignTransfer(p, v, a)
        PROVE  TypeParts'
    <2>1. ctx' \in Contexts
      BY <1>0, <1>5 DEF SignTransfer, Contexts
    <2>2. QED
      BY <1>5, <2>1 DEF SignTransfer, HeaderAndToAddress, Ask
  <1>6. ASSUME NEW p \in Paths, NEW v \in Values, SignTransferRefused(p, v) PROVE TypeParts'
    BY <1>6 DEF SignTransferRefused, RefuseLongPath, RefuseKind, Refuse
  <1>7. ASSUME NEW p \in Paths, NEW v \in Values, NEW size \in 0..(MaxMemo + 1),
               MemoInitial(p, v, size)
        PROVE  TypeParts'
    <2>1. ctx' \in Contexts /\ cbor' \in Cbors
      BY <1>0, <1>7, ContextType, SizeType DEF MemoInitial, States
    <2>2. QED
      BY <1>7, <2>1 DEF MemoInitial, HeaderAndToAddress, AnswerNow
  <1>8. ASSUME NEW p \in Paths, NEW v \in Values, NEW size \in 0..(MaxMemo + 1),
               MemoInitialRefused(p, v, size)
        PROVE  TypeParts'
    <2>1. ctx' \in Contexts /\ cbor' \in Cbors
      BY <1>0, <1>8, ContextType, SizeType, ZenonT(60) DEF MemoInitialRefused, States
    <2>2. path' \in Paths \cup {LongPath} /\ sender' \in Values \cup {Garbage}
      BY <1>8 DEF MemoInitialRefused, RefuseLongPath, RefuseKind
    <2>3. QED
      BY <1>8, <2>1, <2>2 DEF MemoInitialRefused, Refuse
  <1>9. ASSUME NEW state \in States, MemoOutOfTurn(state) PROVE TypeParts'
    <2>1. ctx' \in Contexts
      BY <1>0, <1>9 DEF MemoOutOfTurn, memoState, Contexts, States
    <2>2. QED
      BY <1>9, <2>1 DEF MemoOutOfTurn, Refuse
  <1>10. ASSUME NEW n \in 1..MaxChunk, NEW type \in {0, 1, 3}, NEW extra \in 0..1,
                NEW argument \in Arguments, extra < n, MemoFirst(type, extra, argument, n)
         PROVE  TypeParts'
    <2>1. cbor' \in Cbors
      BY <1>10, MemoFirstType
    <2>2. ctx' \in Contexts
      BY <1>0, <1>10 DEF MemoFirst, MemoProgress, Contexts, States
    <2>3. currentInstruction' \in {WithMemo, None} /\ owed' = FALSE /\ screen' = screen
      BY <1>10 DEF MemoFirst, MemoProgress, AnswerNow, Refuse
    <2>4. QED
      BY <1>10, <2>1, <2>2, <2>3 DEF MemoFirst
  <1>11. ASSUME NEW n \in 1..MaxChunk, NEW type \in {0, 1, 3}, MemoReserved(type, n)
         PROVE  TypeParts'
    <2> DEFINE left == Less(cbor.left, 1)
    <2>1. left \in 0..(Word - 1)
      BY <1>0, LessType, TransfersAssumption DEF Cbors
    <2>2. cbor' = [cbor EXCEPT !.left = left, !.type = type, !.used = 0]
      BY <1>11 DEF MemoReserved
    <2> HIDE DEF left
    <2>3. cbor' \in Cbors
      BY <1>0, <2>1, <2>2 DEF Cbors
    <2>4. QED
      BY <1>11, <2>3 DEF MemoReserved, Refuse
  <1>12. ASSUME NEW n \in 1..MaxChunk, MemoRest(n) PROVE TypeParts'
    <2>1. cbor' \in Cbors
      BY <1>12, MemoRestType
    <2>2. ctx' \in Contexts
      BY <1>0, <1>12 DEF MemoRest, MemoProgress, Contexts, States
    <2>3. QED
      BY <1>12, <2>1, <2>2 DEF MemoRest, MemoProgress, AnswerNow, Refuse
  <1>13. ASSUME NEW a \in Values, MemoAmount(a) PROVE TypeParts'
    <2>1. ctx' \in Contexts
      BY <1>0, <1>13 DEF MemoAmount, Contexts
    <2>2. QED
      BY <1>13, <2>1 DEF MemoAmount, Ask
  <1>14. CASE Restart
    BY <1>14, TypeRestart
  <1>15. CASE PressGenerate
    <2>1. ctx' \in Contexts
      BY <1>0, <1>15 DEF PressGenerate, Contexts
    <2>2. QED
      BY <1>15, <2>1 DEF PressGenerate
  <1>16. CASE PressGenerateFails \/ PressSignFails
    BY <1>16, ScreenLeft DEF PressGenerateFails, PressSignFails, PressThrow
  <1>17. CASE PressSign \/ PressDecline
    BY <1>17 DEF PressSign, PressDecline, PressAnswer, uiIdle
  <1>18. CASE PressCompared \/ PowerLost
    BY <1>18, TypeRestart DEF PressCompared, PowerLost, uiIdle
  <1>19. CASE UNCHANGED vars
    BY <1>19 DEF vars, deviceVars
  <1>20. QED
    BY <1>1, <1>2, <1>3, <1>4, <1>5, <1>6, <1>7, <1>8, <1>9, <1>10, <1>11, <1>12,
       <1>13, <1>14, <1>15, <1>16, <1>17, <1>18, <1>19
    DEF Next, Command, Button, MemoUnsupported, PressStray, PressQuit

LEMMA TypeIs == TypeParts => TypeOK
  BY DEF TypeParts, TypeOK, Instructions, SignFlows, Contexts, Cbors, Texts

(***************************************************************************)
(* What a whole transaction looks like.                                    *)
(***************************************************************************)
LEMMA SimpleIs ==
  ASSUME NEW p, NEW v, NEW a
  PROVE  LET h == <<HeadItem(Simple, p, v), Amount(a)>> IN
         /\ SimpleTransaction(h)
         /\ h[1].key = p /\ h[1].value = v /\ h[Len(h)].value = a
  <1> DEFINE h == <<HeadItem(Simple, p, v), Amount(a)>>
  <1>1. Len(h) = 2 /\ h[1] = HeadItem(Simple, p, v) /\ h[2] = Amount(a)
    OBVIOUS
  <1>2. /\ h[1].item = "head" /\ h[1].kind = Simple /\ h[1].key = p /\ h[1].value = v
        /\ h[2].item = "amount" /\ h[2].value = a
    BY <1>1 DEF HeadItem, Amount
  <1> HIDE DEF h
  <1>3. SimpleTransaction(h) /\ h[1].key = p /\ h[1].value = v /\ h[Len(h)].value = a
    BY <1>1, <1>2 DEF SimpleTransaction
  <1>4. QED
    BY <1>3 DEF h

LEMMA OneIsMemo ==
  ASSUME NEW p, NEW v, NEW a, NEW size, NEW n
  PROVE  LET h == <<HeadItem(WithMemo, p, v), MemoLength(size), MemoBytes(n), Amount(a)>> IN
         /\ MemoTransaction(h) /\ memoSize(h) = n /\ h[2].size = size
         /\ h[1].key = p /\ h[1].value = v /\ h[Len(h)].value = a
  <1> DEFINE h == <<HeadItem(WithMemo, p, v), MemoLength(size), MemoBytes(n), Amount(a)>>
  <1>1. /\ Len(h) = 4 /\ h[1] = HeadItem(WithMemo, p, v) /\ h[2] = MemoLength(size)
        /\ h[3] = MemoBytes(n) /\ h[4] = Amount(a)
    OBVIOUS
  <1>2. /\ h[1].item = "head" /\ h[1].kind = WithMemo /\ h[1].key = p /\ h[1].value = v
        /\ h[2].item = "memoLength" /\ h[2].size = size
        /\ h[3].item = "memo" /\ h[3].size = n
        /\ h[4].item = "amount" /\ h[4].value = a
    BY <1>1 DEF HeadItem, MemoLength, MemoBytes, Amount
  <1> HIDE DEF h
  <1>3. \A i \in 3..(Len(h) - 1) : i = 3
    BY <1>1
  <1>4. MemoTransaction(h)
    BY <1>1, <1>2, <1>3 DEF MemoTransaction
  <1>5. memoSize(h) = n /\ h[Len(h)].value = a
    BY <1>1, <1>2 DEF memoSize
  <1>6. QED
    BY <1>2, <1>4, <1>5 DEF h

LEMMA TwoIsMemo ==
  ASSUME NEW p, NEW v, NEW a, NEW size, NEW n, NEW m
  PROVE  LET h == <<HeadItem(WithMemo, p, v), MemoLength(size), MemoBytes(n), MemoBytes(m),
                    Amount(a)>> IN
         /\ MemoTransaction(h) /\ memoSize(h) = n + m /\ h[2].size = size
         /\ h[1].key = p /\ h[1].value = v /\ h[Len(h)].value = a
  <1> DEFINE h == <<HeadItem(WithMemo, p, v), MemoLength(size), MemoBytes(n), MemoBytes(m),
                    Amount(a)>>
  <1>1. /\ Len(h) = 5 /\ h[1] = HeadItem(WithMemo, p, v) /\ h[2] = MemoLength(size)
        /\ h[3] = MemoBytes(n) /\ h[4] = MemoBytes(m) /\ h[5] = Amount(a)
    OBVIOUS
  <1>2. /\ h[1].item = "head" /\ h[1].kind = WithMemo /\ h[1].key = p /\ h[1].value = v
        /\ h[2].item = "memoLength" /\ h[2].size = size
        /\ h[3].item = "memo" /\ h[3].size = n /\ h[4].item = "memo" /\ h[4].size = m
        /\ h[5].item = "amount" /\ h[5].value = a
    BY <1>1 DEF HeadItem, MemoLength, MemoBytes, Amount
  <1> HIDE DEF h
  <1>3. \A i \in 3..(Len(h) - 1) : i = 3 \/ i = 4
    BY <1>1
  <1>4. MemoTransaction(h)
    BY <1>1, <1>2, <1>3 DEF MemoTransaction
  <1>5. memoSize(h) = n + m /\ h[Len(h)].value = a
    BY <1>1, <1>2 DEF memoSize
  <1>6. QED
    BY <1>2, <1>4, <1>5 DEF h

(***************************************************************************)
(* TransferInv.  First what a step needs that ends the instruction, or     *)
(* brings no signature.                                                    *)
(***************************************************************************)
StepInv == MemoInv /\ DialogInv /\ SignedInv

LEMMA AnswersAreNoSignature ==
  /\ \A r \in Replies : r.kind # "signature"
  /\ \A p : PublicKey(p).kind # "signature"
  BY DEF Replies, Success, Refusal, Rejection, NoReply, PublicKey

LEMMA NoNewSignature ==
  ASSUME SignedInv, reply' = reply \/ reply'.kind # "signature"
  PROVE  SignedInv'
  BY DEF SignedInv, SignedIsOneTransaction, SignedUnderItsOwnPath, SignedWasShown,
         TextMemoIsWhole, MemoIsWhole

LEMMA FreeInv ==
  ASSUME SignedInv', currentInstruction' # WithMemo, owed' = FALSE
  PROVE  StepInv'
  BY DEF StepInv, MemoInv, DialogInv

LEMMA RefuseInv ==
  ASSUME SignedInv, Refuse
  PROVE  StepInv'
  <1>1. SignedInv'
    BY NoNewSignature, AnswersAreNoSignature DEF Refuse, Replies
  <1>2. QED
    BY <1>1, FreeInv, Names DEF Refuse

LEMMA IdleInv ==
  ASSUME SignedInv, uiIdle, owed' = FALSE, reply'.kind # "signature"
  PROVE  StepInv'
  BY NoNewSignature, FreeInv, Names DEF uiIdle

LEMMA RestartInv ==
  ASSUME SignedInv, Restart
  PROVE  StepInv'
  BY IdleInv, AnswersAreNoSignature DEF Restart, DeviceRestart, Replies

\* A text memo on the signing dialog has its end behind all that was copied.
LEMMA SigningMemo ==
  ASSUME TypeParts, MemoInv, DialogInv, owed, screen = "signMemo", cbor.type = 3
  PROVE  CopiedHasNoEnd /\ CopiedFits
  <1>1. CASE currentInstruction = None
    BY <1>1, Names DEF DialogInv
  <1>2. CASE currentInstruction = WithMemo /\ ctx.state = "AMOUNT"
    <2>1. MemoComplete /\ CopiedHasNoEnd
      BY <1>2 DEF MemoInv
    <2>2. cbor.used \in Nat
      BY DEF TypeParts, Cbors
    <2>3. QED
      BY <2>1, <2>2, TransfersAssumption DEF MemoComplete, CopiedFits
  <1>3. QED
    BY <1>1, <1>2 DEF DialogInv

(***************************************************************************)
(* Signing.                                                                *)
(***************************************************************************)
LEMMA SignatureHas ==
  ASSUME PressSign
  PROVE  /\ reply'.over = hash /\ reply'.key = path
         /\ reply'.shown.sender = sender /\ reply'.shown.to = ctx.to
         /\ reply'.shown.amount = ctx.amount /\ reply'.shown.copied = cbor.used
         /\ reply'.shown.isText => screen = "signMemo" /\ cbor.type = 3
         /\ reply'.shown.isText => reply'.shown.memo = visible
  <1>1. reply' = Signature
    BY DEF PressSign, PressAnswer
  <1>2. reply'.over = hash /\ reply'.key = path /\ reply'.shown = shown
    BY <1>1 DEF Signature
  <1>3. /\ shown.sender = sender /\ shown.to = ctx.to /\ shown.amount = ctx.amount
        /\ shown.copied = cbor.used
        /\ screen = "signMemo" => shown.memo = visible
    BY Zenon DEF shown
  <1>4. shown.isText = (screen = "signMemo" /\ cbor.type = 3)
    BY Zenon DEF shown
  <1>5. QED
    BY <1>2, <1>3, <1>4

LEMMA SignInv ==
  ASSUME TypeParts, StepInv, PressSign
  PROVE  StepInv'
  <1> DEFINE h == hash
  <1>0. /\ MemoInv /\ DialogInv /\ owed /\ screen \in {"sign", "signMemo"}
        /\ reply'.over = h /\ reply'.key = path
        /\ reply'.shown.sender = sender /\ reply'.shown.to = ctx.to
        /\ reply'.shown.amount = ctx.amount
    BY SignatureHas DEF StepInv, PressSign, PressAnswer, SignFlows
  <1>1. reply'.shown.isText => reply'.shown.memo >= reply'.shown.copied
    <2>1. SUFFICES ASSUME reply'.shown.isText
                   PROVE  reply'.shown.memo >= reply'.shown.copied
      OBVIOUS
    <2>2. /\ screen = "signMemo" /\ cbor.type = 3
          /\ reply'.shown.memo = visible /\ reply'.shown.copied = cbor.used
      BY <2>1, SignatureHas
    <2>3. visible >= cbor.used
      BY <1>0, <2>2, SigningMemo, VisibleIs DEF TypeParts
    <2>4. QED
      BY <2>2, <2>3
  <1> DEFINE Whole ==
          /\ h = <<Finalised>> \/ SimpleTransaction(h) \/ MemoTransaction(h)
          /\ h # <<Finalised>> =>
               /\ path = h[1].key /\ sender = h[1].value /\ ctx.to = h[1].value
               /\ ctx.amount = h[Len(h)].value
          /\ h # <<Finalised>> /\ reply'.shown.isText /\ MemoTransaction(h) =>
               memoSize(h) = h[2].size
  <1>2. SUFFICES Whole
    <2> HIDE DEF h
    <2>1. SignedInv'
      BY <1>0, <1>1, <1>2
      DEF SignedInv, SignedIsOneTransaction, SignedUnderItsOwnPath, SignedWasShown,
          TextMemoIsWhole, MemoIsWhole
    <2>2. QED
      BY <2>1, FreeInv, Names DEF PressSign, PressAnswer, uiIdle
  <1>3. CASE currentInstruction = None
    BY <1>0, <1>3, Names DEF DialogInv
  <1>4. CASE currentInstruction = Simple
    <2>1. /\ h = <<HeadItem(Simple, path, sender), Amount(ctx.amount)>>
          /\ ctx.to = sender /\ screen = "sign"
      BY <1>0, <1>4, Names DEF DialogInv, Head1
    <2>2. ~reply'.shown.isText
      BY <2>1, SignatureHas
    <2>3. QED
      BY <2>1, <2>2, SimpleIs
  <1>5. CASE currentInstruction = WithMemo
    <2>1. ctx.to = sender /\ MemoComplete
      BY <1>0, <1>5, Names DEF DialogInv, MemoInv
    <2>2. reply'.shown.isText => cbor.type = 3
      BY SignatureHas
    <2>3. ASSUME NEW size \in 0..MaxMemo, NEW n \in 1..MaxChunk,
                 h = <<Head1(WithMemo), MemoLength(size), MemoBytes(n), Amount(ctx.amount)>>,
                 cbor.type = 3 => n = size
          PROVE  Whole
      BY <2>1, <2>2, <2>3, OneIsMemo DEF Head1
    <2>4. ASSUME NEW size \in 0..MaxMemo, NEW n \in 1..MaxChunk, NEW m \in 1..MaxChunk,
                 h = <<Head1(WithMemo), MemoLength(size), MemoBytes(n), MemoBytes(m),
                       Amount(ctx.amount)>>,
                 n + m = size
          PROVE  Whole
      BY <2>1, <2>4, TwoIsMemo DEF Head1
    <2>5. QED
      BY <2>1, <2>3, <2>4 DEF MemoComplete
  <1>6. QED
    BY <1>0, <1>3, <1>4, <1>5 DEF DialogInv

LEMMA SignFailsInv ==
  ASSUME TypeParts, StepInv, PressSignFails
  PROVE  StepInv'
  <1>1. /\ owed /\ screen \in {"sign", "signMemo"} /\ currentInstruction' = None
        /\ hash' = <<Finalised>> /\ cbor' = cbor /\ screen' \in {screen, "frozen"}
        /\ reply' \in {reply, Refusal}
    BY ScreenLeft DEF PressSignFails, PressThrow, SignFlows
  <1>2. SignedInv'
    BY <1>1, NoNewSignature, AnswersAreNoSignature DEF StepInv, Replies
  <1>3. screen' = "signMemo" /\ cbor'.type = 3 => (CopiedHasNoEnd /\ CopiedFits)'
    BY <1>1, SigningMemo DEF StepInv, CopiedHasNoEnd, CopiedFits
  <1>4. QED
    BY <1>1, <1>2, <1>3, Names DEF StepInv, MemoInv, DialogInv

(***************************************************************************)
(* The commands of the transfers.                                          *)
(***************************************************************************)
LEMMA SignTransferInv ==
  ASSUME TypeParts, StepInv, NEW p \in Paths, NEW v \in Values, NEW a \in Values,
         SignTransfer(p, v, a)
  PROVE  StepInv'
  <1>1. /\ currentInstruction' = Simple /\ screen' = "sign" /\ reply' = reply
        /\ path' = p /\ sender' = v /\ hash' = <<HeadItem(Simple, p, v), Amount(a)>>
    BY DEF SignTransfer, HeaderAndToAddress, Ask
  <1>2. ctx'.to = v /\ ctx'.amount = a
    BY DEF SignTransfer, TypeParts, Contexts
  <1>3. SignedInv'
    BY <1>1, NoNewSignature DEF StepInv
  <1>4. DialogInv'
    BY <1>1, <1>2 DEF DialogInv, Head1
  <1>5. QED
    BY <1>1, <1>3, <1>4, Names DEF StepInv, MemoInv

LEMMA MemoInitialInv ==
  ASSUME TypeParts, StepInv, NEW p \in Paths, NEW v \in Values,
         NEW size \in 0..(MaxMemo + 1), MemoInitial(p, v, size)
  PROVE  StepInv'
  <1>1. /\ owed' = FALSE /\ reply' = Success /\ size \in 0..MaxMemo
        /\ path' = p /\ sender' = v
        /\ hash' = <<HeadItem(WithMemo, p, v), MemoLength(size)>>
    BY TransfersAssumption DEF MemoInitial, HeaderAndToAddress, AnswerNow
  <1>2. ctx'.to = v /\ ctx'.state = "MEMO_INITIAL" /\ cbor'.left = size
    BY SizeType DEF MemoInitial, TypeParts, Contexts
  <1>3. SignedInv'
    BY <1>1, NoNewSignature, AnswersAreNoSignature DEF StepInv, Replies
  <1>4. MemoInv'
    BY <1>1, <1>2 DEF MemoInv, Head1
  <1>5. QED
    BY <1>1, <1>3, <1>4 DEF StepInv, DialogInv

LEMMA MemoFirstInv ==
  ASSUME TypeParts, StepInv, NEW n \in 1..MaxChunk, NEW type \in {0, 1, 3}, NEW extra \in 0..1,
         NEW argument \in Arguments, extra < n, MemoFirst(type, extra, argument, n)
  PROVE  StepInv'
  <1> DEFINE head == 1 + extra
             content == n - 1 - extra
  <1>1. /\ currentInstruction = WithMemo /\ ctx.state = "MEMO_INITIAL" /\ ctx.to = sender
        /\ path' = path /\ sender' = sender
        /\ hash' = Append(hash, MemoBytes(n))
    BY Names DEF MemoFirst, memoState, isInitialCall, Accepts, StepInv, MemoInv
  <1>2. PICK size \in 0..MaxMemo :
          size = cbor.left /\ hash = <<Head1(WithMemo), MemoLength(size)>>
    BY <1>1 DEF StepInv, MemoInv
  <1>3. hash' = One(size, n)'
    BY <1>1, <1>2, AppendTwo DEF One, Head1
  <1>4. CASE Refuse
    BY <1>4, RefuseInv DEF StepInv
  <1>5. CASE AnswerNow(WithMemo) /\ type \in {0, 1} /\ cbor'.type = type /\ ctx'.state = "AMOUNT"
             /\ ctx'.to = ctx.to
    <2>1. SignedInv' /\ owed' = FALSE
      BY <1>5, NoNewSignature, AnswersAreNoSignature DEF StepInv, AnswerNow, Replies
    <2>2. MemoReady'
      BY <1>2, <1>3, <1>5 DEF MemoReady
    <2>3. MemoInv'
      BY <1>1, <1>5, <2>1, <2>2 DEF MemoInv
    <2>4. QED
      BY <2>1, <2>3 DEF StepInv, DialogInv
  <1>6. CASE /\ type = 3 /\ cbor'.left = Less(Less(size, head), content) /\ cbor'.type = 3
             /\ cbor'.used = content /\ cbor'.text = PutText(cbor.text, 0, content)
             /\ MemoProgress(cbor'.left)
    <2>1. SignedInv' /\ owed' = FALSE /\ currentInstruction' = WithMemo
      BY <1>6, NoNewSignature, AnswersAreNoSignature
      DEF StepInv, MemoProgress, AnswerNow, Replies
    <2>2. head \in 1..n /\ content = n - head /\ content \in Nat /\ content < n
      BY TransfersAssumption
    <2>3. cbor'.left = Less(size, n)
      BY <1>2, <1>6, <2>2, LessHead
    <2>4. ctx'.state = (IF cbor'.left = 0 THEN "AMOUNT" ELSE "MEMO") /\ ctx'.to = ctx.to
      BY <1>6 DEF MemoProgress, TypeParts, Contexts
    <2>5. CopiedHasNoEnd'
      BY <1>6, <2>2 DEF CopiedHasNoEnd, PutText, Cells
    <2>6. CASE cbor'.left = 0
      <3>1. n = size
        BY <1>2, <2>3, <2>6, LessOnce
      <3>2. MemoReady'
        BY <1>2, <1>3, <1>6, <2>2, <3>1 DEF MemoReady
      <3>3. QED
        BY <1>1, <2>1, <2>4, <2>5, <2>6, <3>2 DEF MemoInv, StepInv, DialogInv
    <2>7. CASE cbor'.left # 0
      <3>1. /\ cbor'.left = Less(size, n) /\ cbor'.used < n /\ ctx'.state = "MEMO"
            /\ cbor'.type = 3 /\ ctx'.to = sender'
        BY <1>1, <1>6, <2>2, <2>3, <2>4, <2>7
      <3>2. MemoInv'
        BY <1>2, <1>3, <2>5, <3>1 DEF MemoInv
      <3>3. QED
        BY <2>1, <3>2 DEF StepInv, DialogInv
    <2>8. QED
      BY <2>6, <2>7
  <1>7. QED
    <2> HIDE DEF content
    <2>1. cbor.left = size /\ n - 1 - extra = content
      BY <1>2 DEF content
    <2>2. CASE Refuse
      BY <1>4, <2>2
    <2>3. CASE /\ type \in {0, 1}
               /\ cbor' = [left |-> Less(size, head), type |-> type, used |-> 0,
                           text |-> Number(cbor.text)]
               /\ MemoProgress(0)
      <3>1. AnswerNow(WithMemo) /\ ctx'.state = "AMOUNT" /\ ctx'.to = ctx.to
        BY <2>3 DEF MemoProgress, TypeParts, Contexts
      <3>2. cbor'.type = type
        BY <2>3
      <3>3. QED
        BY <1>5, <2>3, <3>1, <3>2
    <2>4. CASE /\ type = 3
               /\ cbor' = [left |-> Less(Less(size, head), content), type |-> type,
                           used |-> content, text |-> PutText(cbor.text, 0, content)]
               /\ MemoProgress(Less(Less(size, head), content))
      BY <1>6, <2>4
    <2>5. QED
      BY <2>1, <2>2, <2>3, <2>4 DEF MemoFirst

LEMMA MemoRestInv ==
  ASSUME TypeParts, StepInv, NEW m \in 1..MaxChunk, MemoRest(m)
  PROVE  StepInv'
  <1>1. /\ currentInstruction = WithMemo /\ ctx.state = "MEMO" /\ ctx.to = sender
        /\ cbor.type = 3 /\ CopiedHasNoEnd
        /\ path' = path /\ sender' = sender /\ hash' = Append(hash, MemoBytes(m))
    BY Names DEF MemoRest, memoState, isInitialCall, Accepts, StepInv, MemoInv
  <1>2. PICK size \in 0..MaxMemo, n \in 1..MaxChunk :
          hash = One(size, n) /\ cbor.left = Less(size, n) /\ cbor.used < n
    BY <1>1 DEF StepInv, MemoInv
  <1>3. /\ cbor'.left = Less(cbor.left, m) /\ cbor'.used = cbor.used + m
        /\ cbor'.type = 3 /\ cbor'.text = PutText(cbor.text, cbor.used, m)
        /\ cbor.used \in Nat
    BY <1>1, MemoRestType DEF TypeParts, Cbors
  <1>4. CASE Refuse
    BY <1>4, RefuseInv DEF StepInv
  <1>5. CASE cbor'.left = 0 /\ MemoProgress(0)
    <2>1. SignedInv' /\ owed' = FALSE /\ currentInstruction' = WithMemo
      BY <1>5, NoNewSignature, AnswersAreNoSignature
      DEF StepInv, MemoProgress, AnswerNow, Replies
    <2>2. ctx'.state = "AMOUNT" /\ ctx'.to = ctx.to
      BY <1>5 DEF MemoProgress, TypeParts, Contexts
    <2>3. n + m = size
      BY <1>2, <1>3, <1>5, LessTwice
    <2>4. hash' = Two(size, n, m)'
      BY <1>1, <1>2, AppendThree DEF One, Two, Head1
    <2>5. cbor'.used < size
      BY <1>2, <1>3, <2>3, TransfersAssumption
    <2>6. MemoReady'
      BY <2>3, <2>4, <2>5 DEF MemoReady
    <2>7. CopiedHasNoEnd'
      BY <1>1, <1>3 DEF CopiedHasNoEnd, PutText, Cells
    <2>8. QED
      BY <1>1, <2>1, <2>2, <2>6, <2>7 DEF MemoInv, StepInv, DialogInv
  <1>6. QED
    BY <1>3, <1>4, <1>5 DEF MemoRest

LEMMA MemoAmountInv ==
  ASSUME TypeParts, StepInv, NEW a \in Values, MemoAmount(a)
  PROVE  StepInv'
  <1>1. /\ currentInstruction = WithMemo /\ ctx.state = "AMOUNT" /\ ctx.to = sender /\ ~owed
        /\ path' = path /\ sender' = sender /\ cbor' = cbor
        /\ hash' = Append(hash, Amount(a))
        /\ currentInstruction' = WithMemo /\ owed' = TRUE /\ screen' = "signMemo"
        /\ reply' = reply
    BY Names DEF MemoAmount, memoState, isInitialCall, Accepts, Ask, StepInv, MemoInv
  <1>2. ctx'.amount = a /\ ctx'.state = ctx.state /\ ctx'.to = ctx.to
    BY DEF MemoAmount, TypeParts, Contexts
  <1>3. MemoReady /\ (cbor.type = 3 => CopiedHasNoEnd)
    BY <1>1 DEF StepInv, MemoInv
  <1>4. MemoComplete'
    <2>1. ASSUME NEW size \in 0..MaxMemo, NEW n \in 1..MaxChunk, hash = One(size, n),
                 cbor.type = 3 => n = size /\ cbor.used < size
          PROVE  MemoComplete'
      <3>1. hash' = <<Head1(WithMemo), MemoLength(size), MemoBytes(n), Amount(a)>>
        BY <1>1, <2>1, AppendThree DEF One
      <3>2. QED
        BY <1>1, <1>2, <2>1, <3>1 DEF MemoComplete, Head1
    <2>2. ASSUME NEW size \in 0..MaxMemo, NEW n \in 1..MaxChunk, NEW m \in 1..MaxChunk,
                 hash = Two(size, n, m), n + m = size, cbor.used < size
          PROVE  MemoComplete'
      <3>1. hash' = <<Head1(WithMemo), MemoLength(size), MemoBytes(n), MemoBytes(m), Amount(a)>>
        BY <1>1, <2>2, AppendFour DEF Two
      <3>2. QED
        BY <1>1, <1>2, <2>2, <3>1 DEF MemoComplete, Head1
    <2>3. QED
      BY <1>3, <2>1, <2>2 DEF MemoReady
  <1>5. SignedInv'
    BY <1>1, NoNewSignature DEF StepInv
  <1>6. DialogInv'
    BY <1>1, <1>2 DEF DialogInv
  <1>7. CopiedHasNoEnd => CopiedHasNoEnd'
    BY <1>1 DEF CopiedHasNoEnd
  <1>8. MemoInv'
    BY <1>1, <1>2, <1>3, <1>4, <1>7 DEF MemoInv
  <1>9. QED
    BY <1>5, <1>6, <1>8 DEF StepInv

(***************************************************************************)
(* All steps.                                                              *)
(***************************************************************************)
LEMMA StepInit == Init => StepInv
  <1> SUFFICES ASSUME Init PROVE StepInv
    OBVIOUS
  <1>1. currentInstruction = None /\ ~owed /\ reply.kind # "signature"
    BY AnswersAreNoSignature DEF Init, DeviceInit, Replies
  <1>2. SignedInv
    BY <1>1 DEF SignedInv, SignedIsOneTransaction, SignedUnderItsOwnPath, SignedWasShown,
                TextMemoIsWhole
  <1>3. QED
    BY <1>1, <1>2, Names DEF StepInv, MemoInv, DialogInv

LEMMA StepNext == TypeParts /\ StepInv /\ [Next]_vars => StepInv'
  <1> SUFFICES ASSUME TypeParts, StepInv, [Next]_vars PROVE StepInv'
    OBVIOUS
  <1>0. MemoInv /\ DialogInv /\ SignedInv
    BY DEF StepInv
  <1>1. CASE Dispatch
    BY <1>0, <1>1, RefuseInv DEF Dispatch, BadCommand, SwitchInstruction
  <1>2. ASSUME NEW p \in Paths, GetPublicKeySilent(p) PROVE StepInv'
    BY <1>0, <1>2, IdleInv, AnswersAreNoSignature DEF GetPublicKeySilent
  <1>3. ASSUME NEW p \in Paths, GetPublicKeyAsk(p) PROVE StepInv'
    <2>1. CASE Refuse
      BY <1>0, <2>1, RefuseInv
    <2>2. CASE Ask(GetKey, "generate")
      <3>1. SignedInv' /\ currentInstruction' = GetKey /\ screen' = "generate"
        BY <1>0, <2>2, NoNewSignature DEF Ask
      <3>2. QED
        BY <3>1, Names DEF StepInv, MemoInv, DialogInv
    <2>3. QED
      BY <1>3, <2>1, <2>2 DEF GetPublicKeyAsk
  <1>4. ASSUME NEW p \in Paths, GetPublicKeyRefused(p) PROVE StepInv'
    BY <1>0, <1>4, RefuseInv DEF GetPublicKeyRefused
  <1>5. ASSUME NEW p \in Paths, NEW v \in Values, NEW a \in Values, SignTransfer(p, v, a)
        PROVE  StepInv'
    BY <1>5, SignTransferInv
  <1>6. ASSUME NEW p \in Paths, NEW v \in Values, SignTransferRefused(p, v) PROVE StepInv'
    BY <1>0, <1>6, RefuseInv DEF SignTransferRefused
  <1>7. ASSUME NEW p \in Paths, NEW v \in Values, NEW size \in 0..(MaxMemo + 1)
        PROVE  /\ MemoInitial(p, v, size) => StepInv'
               /\ MemoInitialRefused(p, v, size) => StepInv'
    BY <1>0, <1>7, MemoInitialInv, RefuseInv DEF MemoInitialRefused
  <1>8. ASSUME NEW state \in States, MemoOutOfTurn(state) PROVE StepInv'
    BY <1>0, <1>8, RefuseInv DEF MemoOutOfTurn
  <1>9. ASSUME NEW n \in 1..MaxChunk, NEW type \in {0, 1, 3}, NEW extra \in 0..1,
               NEW argument \in Arguments, extra < n, MemoFirst(type, extra, argument, n)
        PROVE  StepInv'
    BY <1>9, MemoFirstInv
  <1>10. ASSUME NEW n \in 1..MaxChunk, NEW type \in {0, 1, 3}, MemoReserved(type, n)
         PROVE  StepInv'
    BY <1>0, <1>10, RefuseInv DEF MemoReserved
  <1>11. ASSUME NEW n \in 1..MaxChunk, MemoRest(n) PROVE StepInv'
    BY <1>11, MemoRestInv
  <1>12. ASSUME NEW a \in Values, MemoAmount(a) PROVE StepInv'
    BY <1>12, MemoAmountInv
  <1>13. CASE Restart
    BY <1>0, <1>13, RestartInv
  <1>14. CASE PressGenerate
    <2>1. reply'.kind # "signature" /\ currentInstruction' = None /\ owed' = FALSE
      BY <1>14, AnswersAreNoSignature DEF PressGenerate
    <2>2. QED
      BY <1>0, <2>1, NoNewSignature, FreeInv, Names
  <1>15. CASE PressGenerateFails
    <2>1. /\ currentInstruction' = None /\ screen' \in {"generate", "frozen"}
          /\ reply' \in {reply, Refusal}
      BY <1>15, ScreenLeft DEF PressGenerateFails, PressThrow
    <2>2. SignedInv'
      BY <1>0, <2>1, NoNewSignature, AnswersAreNoSignature DEF Replies
    <2>3. QED
      BY <2>1, <2>2, Names DEF StepInv, MemoInv, DialogInv
  <1>16. CASE PressSign
    BY <1>16, SignInv
  <1>17. CASE PressSignFails
    BY <1>17, SignFailsInv
  <1>18. CASE PressDecline
    BY <1>0, <1>18, IdleInv, AnswersAreNoSignature DEF PressDecline, PressAnswer, Replies
  <1>19. CASE PowerLost
    BY <1>0, <1>19, RestartInv DEF PowerLost
  <1>20. CASE PressCompared
    <2>1. /\ screen = "compare" /\ currentInstruction' = None /\ screen' = "idle"
          /\ UNCHANGED <<owed, reply, hash>>
      BY <1>20 DEF PressCompared, uiIdle
    <2>2. SignedInv'
      BY <1>0, <2>1, NoNewSignature
    <2>3. DialogInv'
      BY <1>0, <2>1 DEF DialogInv
    <2>4. QED
      BY <2>1, <2>2, <2>3, Names DEF StepInv, MemoInv
  <1>21. CASE UNCHANGED vars
    <2>1. SignedInv'
      BY <1>0, <1>21, NoNewSignature DEF vars, deviceVars
    <2>2. DialogInv'
      BY <1>0, <1>21 DEF vars, deviceVars, DialogInv, Head1, CopiedHasNoEnd, CopiedFits
    <2>3. MemoInv'
      BY <1>0, <1>21
      DEF vars, deviceVars, MemoInv, MemoReady, MemoComplete, One, Two, Head1, CopiedHasNoEnd
    <2>4. QED
      BY <2>1, <2>2, <2>3 DEF StepInv
  <1>22. QED
    BY <1>1, <1>2, <1>3, <1>4, <1>5, <1>6, <1>7, <1>8, <1>9, <1>10, <1>11, <1>12,
       <1>13, <1>14, <1>15, <1>16, <1>17, <1>18, <1>19, <1>20, <1>21
    DEF Next, Command, Button, MemoUnsupported, PressStray, PressQuit

LEMMA TransferCorrect == Spec => []TransferInv
  <1>1. Init => TransferInv
    BY TypeInit, StepInit DEF TransferInv, StepInv
  <1>2. TransferInv /\ [Next]_vars => TransferInv'
    BY TypeNext, StepNext DEF TransferInv, StepInv
  <1>3. QED
    BY <1>1, <1>2, PTL DEF Spec

(***************************************************************************)
(* The theorems.                                                           *)
(***************************************************************************)
\* Every variable keeps to the values its C type and the handlers allow.
THEOREM TransferTypeCorrect == Spec => []TypeOK
  <1>1. TransferInv => TypeOK
    BY TypeIs DEF TransferInv
  <1>2. QED
    BY <1>1, TransferCorrect, PTL

\* A signature covers one transaction, whole and in order, whatever was aborted,
\* refused or answered in between.
THEOREM OneTransaction == Spec => []SignedIsOneTransaction
  <1>1. TransferInv => SignedIsOneTransaction
    BY DEF TransferInv, SignedInv
  <1>2. QED
    BY <1>1, TransferCorrect, PTL

\* It is made with the key whose path came with the head it covers, although the
\* export of public keys writes the same path.
THEOREM OwnPath == Spec => []SignedUnderItsOwnPath
  <1>1. TransferInv => SignedUnderItsOwnPath
    BY DEF TransferInv, SignedInv
  <1>2. QED
    BY <1>1, TransferCorrect, PTL

\* Sender, recipient and amount on the dialog are those under the signature.
THEOREM WasShown == Spec => []SignedWasShown
  <1>1. TransferInv => SignedWasShown
    BY DEF TransferInv, SignedInv
  <1>2. QED
    BY <1>1, TransferCorrect, PTL

\* A text memo under a signature has the declared length, though cborLength wraps,
\* and the display has all of it.
THEOREM TextMemoWhole == Spec => []TextMemoIsWhole
  <1>1. TransferInv => TextMemoIsWhole
    BY DEF TransferInv, SignedInv
  <1>2. QED
    BY <1>1, TransferCorrect, PTL
=============================================================================
