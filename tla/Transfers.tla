----------------------------- MODULE Transfers -----------------------------
(***************************************************************************)
(* Public-key export, the simple transfer and the transfer with memo       *)
(* (src/src/common/getPublicKey.c, src/src/signTransfer.c and the memo     *)
(* reader src/src/displayCbor.c) behind one dispatcher.  They share the    *)
(* key path, the transaction hash, the sender text and the context union,  *)
(* none of which is cleared between instructions.                          *)
(*                                                                         *)
(* Addresses, amounts and paths are opaque values.  Hashing is injective:  *)
(* the hash is the sequence of what was fed to it since cx_sha256_init.    *)
(* The sender, nonce and recipient of one command are one value.           *)
(***************************************************************************)
EXTENDS Device, Sequences, FiniteSets

CONSTANTS
  Paths,        \* key derivation paths of legal length
  Unlisted,     \* those of five parts that name no governance key
  LongPath,     \* a path of more than 8 parts
  Values,       \* sender/recipient pairs, and amounts
  Garbage,      \* bytes of another instruction's context
  MaxMemo,      \* MAX_MEMO_SIZE
  MaxChunk,     \* most data bytes in one command
  Word          \* 2^32: cborLength is a uint32_t

ASSUME TransfersAssumption ==
  /\ Unlisted \subseteq Paths
  /\ LongPath \notin Paths
  /\ Garbage \notin Values
  /\ MaxMemo \in Nat /\ MaxChunk \in Nat \ {0}
  /\ Word \in Nat /\ Word > MaxMemo + MaxChunk /\ Word > 2 * MaxChunk

ASSUME NoneIsNoInstruction ==
  None \notin {"GET_PUBLIC_KEY", "SIGN_TRANSFER", "SIGN_TRANSFER_WITH_MEMO"}

VARIABLES
  path,         \* the global key derivation path
  hash,         \* what tx_state->hash covers
  sender,       \* global_account_sender
  ctx,          \* signTransferContext: state, displayStr (to), displayAmount
  cbor          \* cborContext: cborLength, majorType, displayUsed, display

vars == <<deviceVars, path, hash, sender, ctx, cbor>>

GetKey     == "GET_PUBLIC_KEY"
Simple     == "SIGN_TRANSFER"
WithMemo   == "SIGN_TRANSFER_WITH_MEMO"
Instructions == {GetKey, Simple, WithMemo}

SignFlows == {"sign", "signMemo"}
Cells     == 1..(MaxMemo - 1)   \* cborContext.display

HeadItem(kind, p, v) == [item |-> "head", kind |-> kind, key |-> p, value |-> v]
MemoLength(n)         == [item |-> "memoLength", size |-> n]
MemoBytes(n)          == [item |-> "memo", size |-> n]
Amount(a)             == [item |-> "amount", value |-> a]
Finalised             == [item |-> "final"]   \* CX_LAST has been taken

Init ==
  /\ DeviceInit
  /\ path = LongPath /\ hash = <<>> /\ sender = Garbage
  /\ ctx = [state |-> "none", to |-> Garbage, amount |-> Garbage]
  /\ cbor = [left |-> 0, type |-> 0, used |-> 0, text |-> [i \in Cells |-> "nul"]]

Restart ==
  /\ DeviceRestart
  /\ path' = LongPath /\ hash' = <<>> /\ sender' = Garbage
  /\ ctx' = [state |-> "none", to |-> Garbage, amount |-> Garbage]
  /\ cbor' = [left |-> 0, type |-> 0, used |-> 0, text |-> [i \in Cells |-> "nul"]]

(***************************************************************************)
(* Export of a public key.                                                 *)
(***************************************************************************)
PublicKey(p) == [kind |-> "publicKey", key |-> p]

\* Mutant of GetPublicKeySilent: a query that does not disturb what is in progress.
GetPublicKeyAside(p) ==
  /\ ~owed
  /\ path' = p
  /\ ctx' = [ctx EXCEPT !.amount = Garbage]
  /\ reply' = PublicKey(p)
  /\ UNCHANGED <<currentInstruction, owed, screen, hash, sender, cbor>>

\* P1 = 1: answered at once, by sendPublicKey(false).
GetPublicKeySilent(p) ==
  /\ Accepts(GetKey)
  /\ path' = p
  /\ ctx' = [ctx EXCEPT !.amount = Garbage]   \* signPublicKey lies in the union
  /\ uiIdle /\ owed' = FALSE /\ reply' = PublicKey(p)
  /\ UNCHANGED <<hash, sender, cbor>>

\* Any other P1 asks the user first, for a path it can name.
GetPublicKeyAsk(p) ==
  /\ Accepts(GetKey)
  /\ path' = p
  /\ IF p \in Unlisted
       THEN Refuse /\ ctx' = [ctx EXCEPT !.amount = Garbage]
       ELSE Ask(GetKey, "generate") /\ ctx' = [ctx EXCEPT !.to = Garbage, !.amount = Garbage]
  /\ UNCHANGED <<hash, sender, cbor>>

\* A path too long, or a key that cannot be derived.
GetPublicKeyRefused(p) ==
  /\ Accepts(GetKey)
  /\ \/ path' = LongPath /\ UNCHANGED ctx
     \/ path' = p /\ ctx' = [ctx EXCEPT !.amount = Garbage]
  /\ Refuse
  /\ UNCHANGED <<hash, sender, cbor>>

\* sendPublicKey(true): answer, free the dispatcher, show the key to compare.
PressGenerate ==
  /\ screen = "generate" /\ owed
  /\ owed' = FALSE
  /\ reply' = PublicKey(path)
  /\ ctx' = [ctx EXCEPT !.to = Garbage, !.amount = Garbage]
  /\ currentInstruction' = None
  /\ screen' = "compare"
  /\ UNCHANGED <<path, hash, sender, cbor>>

\* Accept and Decline of the comparison both call ui_idle() and nothing else.
PressCompared ==
  /\ screen = "compare"
  /\ uiIdle
  /\ UNCHANGED <<owed, reply, path, hash, sender, ctx, cbor>>

(***************************************************************************)
(* Transfers.                                                              *)
(***************************************************************************)
\* A path longer than 8 is refused before anything else is read.
RefuseLongPath ==
  /\ path' = LongPath
  /\ UNCHANGED <<hash, sender>>

\* The transaction kind is not the instruction's: by then the path, the sender
\* and the hash have been replaced, the recipient text has not.
RefuseKind(p, v) ==
  /\ path' = p
  /\ hash' = <<>>
  /\ sender' = v

\* Mutants of HeaderAndToAddress: the hash is not initialised, the sender text is
\* not replaced.
HeaderAppended(kind, p, v, next) ==
  /\ path' = p
  /\ hash' = hash \o <<HeadItem(kind, p, v), next>>
  /\ sender' = v

HeaderWithoutSender(kind, p, v, next) ==
  /\ path' = p
  /\ hash' = <<HeadItem(kind, p, v), next>>
  /\ UNCHANGED sender

\* handleHeaderAndToAddress with the right kind, and what the handler hashes next.
HeaderAndToAddress(kind, p, v, next) ==
  /\ path' = p
  /\ hash' = <<HeadItem(kind, p, v), next>>
  /\ sender' = v

SignTransfer(p, v, a) ==
  /\ Accepts(Simple)
  /\ HeaderAndToAddress(Simple, p, v, Amount(a))
  /\ ctx' = [ctx EXCEPT !.to = v, !.amount = a]
  /\ Ask(Simple, "sign")
  /\ UNCHANGED cbor

SignTransferRefused(p, v) ==
  /\ Accepts(Simple)
  /\ RefuseLongPath \/ RefuseKind(p, v)
  /\ Refuse
  /\ UNCHANGED <<ctx, cbor>>

\* ctx->state as the handler of a transfer with memo finds it.
memoState == IF isInitialCall THEN "INITIAL" ELSE ctx.state

MemoInitial(p, v, size) ==
  /\ Accepts(WithMemo)
  /\ memoState = "INITIAL"
  /\ HeaderAndToAddress(WithMemo, p, v, MemoLength(size))
  /\ cbor' = [cbor EXCEPT !.left = size]
  /\ size <= MaxMemo
  /\ ctx' = [ctx EXCEPT !.state = "MEMO_INITIAL", !.to = v]
  /\ AnswerNow(WithMemo)

MemoInitialRefused(p, v, size) ==
  /\ Accepts(WithMemo)
  /\ memoState = "INITIAL"
  /\ \/ (RefuseLongPath \/ RefuseKind(p, v)) /\ UNCHANGED cbor
        /\ ctx' = [ctx EXCEPT !.state = "INITIAL"]
     \/ /\ size > MaxMemo                       \* refused before it is hashed
        /\ path' = p /\ sender' = v /\ hash' = <<HeadItem(WithMemo, p, v)>>
        /\ cbor' = [cbor EXCEPT !.left = size]
        /\ ctx' = [ctx EXCEPT !.state = "INITIAL", !.to = v]
  /\ Refuse

\* P1 and state do not go together.
MemoOutOfTurn(state) ==
  /\ Accepts(WithMemo)
  /\ state # memoState
  /\ Refuse
  /\ ctx' = [ctx EXCEPT !.state = memoState]
  /\ UNCHANGED <<path, hash, sender, cbor>>

(***************************************************************************)
(* The memo.  A CBOR head says its major type, takes 1 + extra bytes and   *)
(* carries an argument; cborLength counts down modulo 2^32.                *)
(***************************************************************************)
\* (Mutants of Less: one that does not wrap, one that stops at 0.)
LessUnbounded(left, n) == left - n
LessSaturating(left, n) == IF n <= left THEN left - n ELSE 0

Less(left, n) == IF n <= left THEN left - n ELSE left - n + Word

\* n text cells copied behind the first `used`; nothing ends the text. What the bytes
\* of later commands write behind the last cell is outside the text and not modelled.
PutText(text, used, n) ==
  [i \in Cells |-> IF i > used /\ i <= used + n THEN "text" ELSE text[i]]

\* bin2dec of a number, one cell of digits, and the '\0' behind it.
Number(text) == [i \in Cells |-> CASE i = 1 -> "digit" [] i = 2 -> "nul" [] OTHER -> text[i]]

\* finishMemo() or the answer that asks for the rest.
MemoProgress(left) ==
  /\ ctx' = [ctx EXCEPT !.state = IF left = 0 THEN "AMOUNT" ELSE "MEMO"]
  /\ AnswerNow(WithMemo)

\* The first memo command: n data bytes, hashed before they are read.
MemoFirst(type, extra, argument, n) ==
  LET afterHead == Less(cbor.left, 1 + extra)
      content   == n - 1 - extra
      afterText == Less(afterHead, content)
  IN
  /\ Accepts(WithMemo)
  /\ memoState = "MEMO_INITIAL"
  /\ hash' = Append(hash, MemoBytes(n))
  /\ \/ /\ type \in {0, 1}
        /\ cbor' = [left |-> afterHead, type |-> type, used |-> 0,
                    text |-> Number(cbor.text)]
        /\ IF afterHead = 0 THEN MemoProgress(0) ELSE Refuse /\ UNCHANGED ctx
     \/ /\ type = 3
        /\ afterHead # argument
        /\ cbor' = [cbor EXCEPT !.left = afterHead, !.type = type, !.used = 0]
        /\ Refuse /\ UNCHANGED ctx
     \/ /\ type = 3
        /\ afterHead = argument
        /\ cbor' = [left |-> afterText, type |-> type, used |-> content,
                    text |-> PutText(cbor.text, 0, content)]
        /\ MemoProgress(afterText)
  /\ UNCHANGED <<path, sender>>

\* ERROR_INVALID_PARAM: a reserved length code, found once the type is known.
MemoReserved(type, n) ==
  /\ Accepts(WithMemo)
  /\ memoState = "MEMO_INITIAL"
  /\ hash' = Append(hash, MemoBytes(n))
  /\ cbor' = [cbor EXCEPT !.left = Less(cbor.left, 1), !.type = type, !.used = 0]
  /\ Refuse
  /\ UNCHANGED <<path, sender, ctx>>

\* ERROR_UNSUPPORTED_CBOR is not one of the listed errors: the dispatcher resets.
MemoUnsupported ==
  /\ Accepts(WithMemo)
  /\ memoState = "MEMO_INITIAL"
  /\ Restart

\* The second memo command must bring the rest.  Only text gets here.
MemoRest(n) ==
  LET left == Less(cbor.left, n) IN
  /\ Accepts(WithMemo)
  /\ memoState = "MEMO"
  /\ hash' = Append(hash, MemoBytes(n))
  /\ cbor' = [cbor EXCEPT !.left = left, !.used = cbor.used + n,
                          !.text = PutText(cbor.text, cbor.used, n)]
  /\ IF left = 0 THEN MemoProgress(0) ELSE Refuse /\ UNCHANGED ctx
  /\ UNCHANGED <<path, sender>>

MemoAmount(a) ==
  /\ Accepts(WithMemo)
  /\ memoState = "AMOUNT"
  /\ hash' = Append(hash, Amount(a))
  /\ ctx' = [ctx EXCEPT !.amount = a]
  /\ Ask(WithMemo, "signMemo")
  /\ UNCHANGED <<path, sender, cbor>>

(***************************************************************************)
(* The signing dialog.                                                     *)
(***************************************************************************)
\* What bnnn_paging reads of cborContext.display: up to the first '\0'.
visible == Cardinality({i \in Cells : \A j \in 1..i : cbor.text[j] # "nul"})

\* The data steps of startTransferDisplay(displayMemo).
shown ==
  [sender |-> sender, to |-> ctx.to, amount |-> ctx.amount,
   memo |-> IF screen = "signMemo" THEN visible ELSE 0,
   isText |-> screen = "signMemo" /\ cbor.type = 3,
   copied |-> cbor.used]

Signature == [kind |-> "signature", key |-> path, over |-> hash, shown |-> shown]

\* buildAndSignTransactionHash()
PressSign ==
  /\ screen \in SignFlows
  /\ hash' = <<Finalised>>
  /\ PressAnswer(Signature)
  /\ UNCHANGED <<path, sender, ctx, cbor>>

\* ensureNoError() throws in sign() or getPublicKey(), under a button.
PressSignFails ==
  /\ screen \in SignFlows
  /\ hash' = <<Finalised>>
  /\ PressThrow
  /\ UNCHANGED <<path, sender, ctx, cbor>>

PressGenerateFails ==
  /\ screen = "generate"
  /\ PressThrow
  /\ UNCHANGED <<path, hash, sender, ctx, cbor>>

PressDecline ==
  /\ screen \in SignFlows \cup {"generate"}
  /\ PressAnswer(Rejection)
  /\ UNCHANGED <<path, hash, sender, ctx, cbor>>

\* A step left alive by a callback that threw, when nothing is owed any more.
PressStray ==
  /\ screen \in SignFlows \cup {"generate"} /\ ~owed
  /\ Restart

PressQuit == screen = "idle" /\ Restart

PowerLost == Restart

Dispatch ==
  /\ BadCommand \/ \E i \in Instructions : SwitchInstruction(i)
  /\ UNCHANGED <<path, hash, sender, ctx, cbor>>

\* The lengths a CBOR head can announce in the commands enumerated here.
Arguments == 0..MaxMemo
States    == {"INITIAL", "MEMO_INITIAL", "MEMO", "AMOUNT"}

Command ==
  \/ Dispatch
  \/ \E p \in Paths :
       GetPublicKeySilent(p) \/ GetPublicKeyAsk(p) \/ GetPublicKeyRefused(p)
  \/ \E p \in Paths, v \in Values :
       \/ \E a \in Values : SignTransfer(p, v, a)
       \/ SignTransferRefused(p, v)
       \/ \E size \in 0..(MaxMemo + 1) :
            MemoInitial(p, v, size) \/ MemoInitialRefused(p, v, size)
  \/ \E state \in States : MemoOutOfTurn(state)
  \/ \E n \in 1..MaxChunk :
       \/ \E type \in {0, 1, 3}, extra \in 0..1, argument \in Arguments :
            extra < n /\ MemoFirst(type, extra, argument, n)
       \/ \E type \in {0, 1, 3} : MemoReserved(type, n)
       \/ MemoRest(n)
  \/ MemoUnsupported
  \/ \E a \in Values : MemoAmount(a)

Button ==
  \/ PressGenerate \/ PressGenerateFails \/ PressCompared
  \/ PressSign \/ PressSignFails \/ PressDecline
  \/ PressStray \/ PressQuit

Next == Command \/ Button \/ PowerLost

Spec == Init /\ [][Next]_vars
-----------------------------------------------------------------------------
Replies == {Success, Refusal, Rejection, NoReply}

Item(h, name) == {i \in 1..Len(h) : h[i].item = name}

\* Every variable keeps to the values its C type and the handlers allow.
TypeOK ==
  /\ currentInstruction \in Instructions \cup {None}
  /\ owed \in BOOLEAN
  /\ screen \in SignFlows \cup {"idle", "frozen", "generate", "compare"}
  /\ path \in Paths \cup {LongPath}
  /\ sender \in Values \cup {Garbage}
  /\ ctx \in [state : States \cup {"none"}, to : Values \cup {Garbage},
              amount : Values \cup {Garbage}]
  /\ cbor.left \in 0..(Word - 1) /\ cbor.type \in {0, 1, 3} /\ cbor.used \in Nat
  /\ cbor.text \in [Cells -> {"nul", "digit", "text"}]

\* A signature covers one transaction, whole and in order: the head the
\* instruction's first command brought, and exactly the items that follow it in
\* that transaction's serialisation. Nothing of an aborted instruction, a
\* refused command or an earlier memo is left in tx_state->hash. (After a
\* failed attempt to sign, the hash is spent and covers no transaction.)
memoSize(h) ==
  IF Len(h) = 4 THEN h[3].size ELSE h[3].size + h[4].size

SimpleTransaction(h) ==
  /\ Len(h) = 2
  /\ h[1].item = "head" /\ h[1].kind = Simple
  /\ h[2].item = "amount"

MemoTransaction(h) ==
  /\ Len(h) \in 4..5
  /\ h[1].item = "head" /\ h[1].kind = WithMemo
  /\ h[2].item = "memoLength"
  /\ \A i \in 3..(Len(h) - 1) : h[i].item = "memo"
  /\ h[Len(h)].item = "amount"

SignedIsOneTransaction ==
  reply.kind = "signature" =>
    reply.over = <<Finalised>> \/ SimpleTransaction(reply.over) \/ MemoTransaction(reply.over)

\* The key that signs is the one whose path came with the head that is signed,
\* although getPublicKey writes the same global path.
SignedUnderItsOwnPath ==
  reply.kind = "signature" /\ reply.over # <<Finalised>> => reply.key = reply.over[1].key

\* The sender, recipient and amount on the dialog are those the signature covers,
\* although public-key export writes over the union that holds their text.
SignedWasShown ==
  reply.kind = "signature" /\ reply.over # <<Finalised>> =>
    /\ reply.shown.sender = reply.over[1].value
    /\ reply.shown.to = reply.over[1].value
    /\ reply.shown.amount = reply.over[Len(reply.over)].value

\* The memo bytes under a signature are as many as the length under it says.
MemoIsWhole ==
  reply.kind = "signature" /\ reply.over # <<Finalised>> /\ MemoTransaction(reply.over) =>
    memoSize(reply.over) = reply.over[2].size

\* That holds of text memos, although cborLength counts down modulo 2^32 and the
\* declared length was checked only when it arrived; and the display has all of the
\* memo, whatever an earlier one may have left behind its end.
TextMemoIsWhole ==
  reply.kind = "signature" /\ reply.shown.isText =>
    MemoIsWhole /\ reply.shown.memo >= reply.shown.copied
=============================================================================
