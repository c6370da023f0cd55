--------------------------- MODULE ConfigureBaker ---------------------------
(***************************************************************************)
(* The transaction that configures a baker (src/src/signConfigureBaker.c). *)
(* Its bitmap says which optional parts follow; they arrive in up to six   *)
(* kinds of command, and are shown in up to three flows, of which the      *)
(* first opens with the review and the sender, and the last one signs.     *)
(*                                                                         *)
(* Only P1_INITIAL asks for isInitialCall. Every other command goes by     *)
(* ctx->state alone, also when it is the first one of its instruction.     *)
(*                                                                         *)
(* Capital, restake and pool status come and are shown together: one part, *)
(* "stake"; so do the three commission rates. Hashing is injective.        *)
(***************************************************************************)
EXTENDS Device, Integers, Sequences

CONSTANTS
  Paths,       \* key derivation paths
  Values,      \* senders, and stake and rate values
  Garbage,     \* bytes of another instruction's context
  MaxUrl,      \* largest URL length: 2048
  MaxChunk,    \* most data bytes in one command
  MaxItems     \* bound on what is fed to one hash

ASSUME BakerAssumption ==
  /\ Garbage \notin Paths \cup Values
  /\ MaxUrl \in Nat /\ MaxChunk \in Nat \ {0} /\ MaxItems \in Nat

VARIABLES
  path,        \* the global key derivation path
  hash,        \* what tx_state->hash covers
  sender,      \* global_account_sender
  ctx,         \* signConfigureBaker_t
  page,        \* the data steps of the flow that waits for an answer
  shown,       \* history: the data steps paged through in earlier flows
  begun        \* history: this transaction began in this instruction

vars == <<deviceVars, path, hash, sender, ctx, page, shown, begun>>

Ours  == "CONFIGURE_BAKER"
Other == "another instruction"
Parts == {"stake", "keys", "url", "rates"}
FirstBatch == {"stake", "keys"}

BakerHead(p, v, parts) == [item |-> "head", key |-> p, value |-> v, parts |-> parts]
Review(v)         == [item |-> "review", value |-> v]
Stake(v)          == [item |-> "stake", value |-> v]
KeysItem          == [item |-> "keys"]
Aggregation       == [item |-> "aggregationKey"]
UrlSize(n)        == [item |-> "urlLength", size |-> n]
UrlBytes(n)       == [item |-> "url", size |-> n]
RatesItem(v)      == [item |-> "rates", value |-> v]
Foreign           == [item |-> "foreign"]   \* another instruction's hash
Finalised         == [item |-> "final"]     \* CX_LAST has been taken

NoContext ==
  [state |-> "none", parts |-> {}, firstDisplay |-> FALSE, text |-> Garbage, urlLength |-> 0]

Init ==
  /\ DeviceInit
  /\ path = Garbage /\ hash = <<>> /\ sender = Garbage
  /\ ctx = NoContext /\ page = <<>> /\ shown = <<>> /\ begun = FALSE

Restart ==
  /\ DeviceRestart
  /\ path' = Garbage /\ hash' = <<>> /\ sender' = Garbage
  /\ ctx' = NoContext /\ page' = <<>> /\ shown' = <<>> /\ begun' = FALSE

(***************************************************************************)
(* P1_INITIAL.                                                             *)
(***************************************************************************)
\* The instruction is over, and the history with it.
Over == page' = <<>> /\ shown' = <<>> /\ begun' = FALSE

\* The state for the parts after the first batch, and after the URL.
AfterUrl(parts)   == IF "rates" \in parts THEN "COMMISSION_RATES" ELSE "END"
AfterStake(parts) == IF "url" \in parts THEN "URL_LENGTH" ELSE AfterUrl(parts)

\* Mutant of InitialHead: the path is read only for the first transaction.
InitialHeadKeepsPath(p, v, parts) ==
  /\ Accepts(Ours) /\ isInitialCall
  /\ path' = IF path = Garbage THEN p ELSE path
  /\ hash' = <<BakerHead(p, v, parts)>>
  /\ sender' = v

\* The path, header and bitmap, hashed before the bitmap is looked at.
InitialHead(p, v, parts) ==
  /\ Accepts(Ours) /\ isInitialCall
  /\ path' = p
  /\ hash' = <<BakerHead(p, v, parts)>>
  /\ sender' = v

\* parts = {} is a bitmap of unknown bits alone, 1 << 8 or 1 << 9: it is accepted,
\* and ctx->state stays what it was.
Initial(p, v, parts) ==
  /\ InitialHead(p, v, parts)
  /\ ctx' = [ctx EXCEPT !.firstDisplay = TRUE, !.parts = parts,
       !.state = IF parts \cap FirstBatch # {} THEN "FIRST"
                 ELSE IF parts = {} THEN @ ELSE AfterStake(parts)]
  /\ shown' = <<>> /\ begun' = TRUE
  /\ AnswerNow(Ours)
  /\ UNCHANGED page

\* An empty bitmap or one above 1023; or, earlier, another transaction kind.
InitialRefused(p, v) ==
  /\ InitialHead(p, v, {})
  /\ ctx' \in {ctx, [ctx EXCEPT !.firstDisplay = TRUE]}
  /\ Refuse /\ Over

\* P1 does not fit ctx->state, or P1_INITIAL inside the transaction.
OutOfTurn ==
  /\ Accepts(Ours)
  /\ Refuse /\ Over
  /\ UNCHANGED <<path, hash, sender, ctx>>

(***************************************************************************)
(* The other commands.                                                     *)
(***************************************************************************)
\* A command of this instruction other than P1_INITIAL finds its state.
InTurn(state) ==
  /\ Accepts(Ours)
  /\ ctx.state = state
  /\ Len(hash) < MaxItems
  /\ UNCHANGED <<path, sender>>

Continue(state) == InTurn(state) /\ UNCHANGED <<shown, begun>>

Opening == IF ctx.firstDisplay THEN <<Review(sender)>> ELSE <<>>

If(part, items) == IF part \in ctx.parts THEN items ELSE <<>>

\* A flow that shows `items`: the parts still to come decide how it ends.
Flow(items, rest) ==
  /\ page' = items
  /\ Ask(Ours, IF ctx.parts \cap rest # {} THEN "continue" ELSE "sign")

\* startConfigureBakerDisplay, with the text ctx' holds.
BakerDisplay(text) ==
  Flow(<<Review(sender)>> \o If("stake", <<Stake(text)>>) \o If("keys", <<KeysItem>>),
       {"url", "rates"})

\* P1_FIRST_BATCH: with keys, the display waits for the aggregation key.
Batch(v) ==
  LET text == IF "stake" \in ctx.parts THEN v ELSE ctx.text IN
  /\ Continue("FIRST")
  /\ hash' = hash \o If("stake", <<Stake(v)>>) \o If("keys", <<KeysItem>>)
  /\ \/ /\ "keys" \in ctx.parts
        /\ ctx' = [ctx EXCEPT !.text = text, !.state = "AGGREGATION_KEY"]
        /\ AnswerNow(Ours)
        /\ UNCHANGED page
     \/ /\ "keys" \notin ctx.parts
        /\ ctx' = [ctx EXCEPT !.text = text, !.state = AfterStake(ctx.parts),
                              !.firstDisplay = FALSE]
        /\ BakerDisplay(text)

\* A stake value out of range, or bytes left over: the stake has been hashed.
BatchRefused(v) ==
  /\ InTurn("FIRST")
  /\ hash' = hash \o If("stake", <<Stake(v)>>)
  /\ ctx' = [ctx EXCEPT !.text = IF "stake" \in ctx.parts THEN v ELSE @]
  /\ Refuse /\ Over

\* Mutant of AggregationKey: the flow does not clear firstDisplay.
AggregationKeyStillFirst ==
  /\ Continue("AGGREGATION_KEY")
  /\ "keys" \in ctx.parts
  /\ hash' = Append(hash, Aggregation)
  /\ ctx' = [ctx EXCEPT !.state = AfterStake(ctx.parts)]
  /\ BakerDisplay(ctx.text)

AggregationKey ==
  /\ Continue("AGGREGATION_KEY")
  /\ "keys" \in ctx.parts
  /\ hash' = Append(hash, Aggregation)
  /\ ctx' = [ctx EXCEPT !.state = AfterStake(ctx.parts), !.firstDisplay = FALSE]
  /\ BakerDisplay(ctx.text)

\* The URL lies in the union with the stake text.
UrlLength(n) ==
  /\ Continue("URL_LENGTH")
  /\ "url" \in ctx.parts
  /\ n <= MaxUrl
  /\ hash' = Append(hash, UrlSize(n))
  /\ \/ /\ n = 0
        /\ ctx' = [ctx EXCEPT !.urlLength = n, !.text = Garbage,
                              !.state = AfterUrl(ctx.parts), !.firstDisplay = FALSE]
        /\ Flow(Append(Opening, UrlSize(0)), {"rates"})
     \/ /\ n > 0
        /\ ctx' = [ctx EXCEPT !.urlLength = n, !.text = Garbage, !.state = "URL"]
        /\ AnswerNow(Ours)
        /\ UNCHANGED page

UrlLengthRefused(n) ==
  /\ InTurn("URL_LENGTH")
  /\ "url" \notin ctx.parts \/ n > MaxUrl
  /\ ctx' = IF "url" \in ctx.parts THEN [ctx EXCEPT !.urlLength = n, !.text = Garbage] ELSE ctx
  /\ Refuse /\ Over
  /\ UNCHANGED hash

\* Mutants of Url: a page that overruns the length is taken for the last one; the
\* overrun is not noticed.
UrlEndsOnOverrun(n) ==
  /\ Continue("URL")
  /\ hash' = Append(hash, UrlBytes(n))
  /\ \/ /\ n < ctx.urlLength
        /\ ctx' = [ctx EXCEPT !.urlLength = @ - n, !.text = Garbage, !.firstDisplay = FALSE]
        /\ page' = Append(Opening, UrlBytes(n))
        /\ Ask(Ours, "continue")
     \/ /\ n >= ctx.urlLength
        /\ ctx' = [ctx EXCEPT !.text = Garbage, !.firstDisplay = FALSE,
                              !.state = AfterUrl(ctx.parts)]
        /\ Flow(Append(Opening, UrlBytes(n)), {"rates"})

UrlUncompared(n) ==
  /\ Continue("URL")
  /\ hash' = Append(hash, UrlBytes(n))
  /\ n # ctx.urlLength
  /\ ctx' = [ctx EXCEPT !.urlLength = @ - n, !.text = Garbage, !.firstDisplay = FALSE]
  /\ page' = Append(Opening, UrlBytes(n))
  /\ Ask(Ours, "continue")

\* A page of the URL: all but the last one have a callback of their own, and
\* urlLength is not counted down for the last one.
Url(n) ==
  /\ Continue("URL")
  /\ hash' = Append(hash, UrlBytes(n))
  /\ \/ /\ n < ctx.urlLength
        /\ ctx' = [ctx EXCEPT !.urlLength = @ - n, !.text = Garbage, !.firstDisplay = FALSE]
        /\ page' = Append(Opening, UrlBytes(n))
        /\ Ask(Ours, "continue")
     \/ /\ n = ctx.urlLength
        /\ ctx' = [ctx EXCEPT !.text = Garbage, !.firstDisplay = FALSE,
                              !.state = AfterUrl(ctx.parts)]
        /\ Flow(Append(Opening, UrlBytes(n)), {"rates"})

UrlRefused(n) ==
  /\ InTurn("URL")
  /\ n > ctx.urlLength
  /\ Refuse /\ Over
  /\ UNCHANGED <<hash, ctx>>

\* ctx->state stays COMMISSION_RATES.
CommissionRates(v) ==
  /\ Continue("COMMISSION_RATES")
  /\ hash' = hash \o If("rates", <<RatesItem(v)>>)
  /\ ctx' = [ctx EXCEPT !.text = IF "rates" \in ctx.parts THEN v ELSE @, !.firstDisplay = FALSE]
  /\ Flow(Opening \o If("rates", <<RatesItem(v)>>), {})

CommissionRatesRefused(v) ==
  /\ InTurn("COMMISSION_RATES")
  /\ hash' = hash \o If("rates", <<RatesItem(v)>>)
  /\ ctx' = [ctx EXCEPT !.text = IF "rates" \in ctx.parts THEN v ELSE @]
  /\ Refuse /\ Over

(***************************************************************************)
(* The buttons, and everything else.                                       *)
(***************************************************************************)
PressContinueFlow ==
  /\ screen = "continue"
  /\ PressContinue
  /\ shown' = shown \o page /\ page' = <<>>
  /\ UNCHANGED <<path, hash, sender, ctx, begun>>

Signature ==
  [kind |-> "signature", key |-> path, over |-> hash, shown |-> shown \o page, begun |-> begun]

PressSign ==
  /\ screen = "sign"
  /\ PressAnswer(Signature)
  /\ hash' = <<Finalised>>
  /\ Over
  /\ UNCHANGED <<path, sender, ctx>>

PressSignFails ==
  /\ screen = "sign"
  /\ PressThrow
  /\ hash' = <<Finalised>>
  /\ Over
  /\ UNCHANGED <<path, sender, ctx>>

PressDecline ==
  /\ screen = "sign"
  /\ PressAnswer(Rejection)
  /\ Over
  /\ UNCHANGED <<path, hash, sender, ctx>>

\* A step left alive answers again, when nothing is owed any more.
PressStray ==
  /\ screen \in {"continue", "sign"} /\ ~owed
  /\ Restart

PressQuit == screen = "idle" /\ Restart

PowerLost == Restart

Dispatch ==
  /\ BadCommand \/ SwitchInstruction(Ours)
  /\ Over
  /\ UNCHANGED <<path, hash, sender, ctx>>

\* Silent export of a public key: it only writes the path.
ExportKey(p) ==
  /\ Accepts(Other)
  /\ path' = p
  /\ uiIdle /\ owed' = FALSE /\ reply' = Success
  /\ Over
  /\ UNCHANGED <<hash, sender, ctx>>

\* Any other instruction: its transaction takes path, hash and sender, its
\* context lies over ours. Short ones end before ctx->state.
OtherInstruction(p, state, parts) ==
  /\ Accepts(Other)
  /\ path' = p /\ hash' = <<Foreign>> /\ sender' = Garbage
  /\ ctx' = [ctx EXCEPT !.state = state, !.parts = parts, !.text = Garbage]
  /\ \/ uiIdle /\ owed' = FALSE /\ reply' = Success
     \/ AnswerNow(Other)
  /\ Over

States == {"none", "FIRST", "AGGREGATION_KEY", "URL_LENGTH", "URL", "COMMISSION_RATES", "END"}

Command ==
  \/ Dispatch \/ OutOfTurn
  \/ \E p \in Paths, v \in Values :
       \/ InitialRefused(p, v)
       \/ \E parts \in SUBSET Parts : Initial(p, v, parts)
  \/ \E v \in Values :
       Batch(v) \/ BatchRefused(v) \/ CommissionRates(v) \/ CommissionRatesRefused(v)
  \/ AggregationKey
  \/ \E n \in 0..(MaxUrl + 1) : UrlLength(n) \/ UrlLengthRefused(n)
  \/ \E n \in 0..MaxChunk : Url(n) \/ UrlRefused(n)
  \/ \E p \in Paths :
       \/ ExportKey(p)
       \/ \E state \in {ctx.state, "none"}, parts \in {ctx.parts, Parts} :
            OtherInstruction(p, state, parts)

Button ==
  \/ PressContinueFlow \/ PressSign \/ PressSignFails \/ PressDecline
  \/ PressStray \/ PressQuit

Next == Command \/ Button \/ PowerLost

Spec == Init /\ [][Next]_vars
-----------------------------------------------------------------------------
\* Every variable keeps to the values its C type and the handler allow.
TypeOK ==
  /\ currentInstruction \in {Ours, Other, None}
  /\ owed \in BOOLEAN
  /\ screen \in {"idle", "frozen", "continue", "sign"}
  /\ path \in Paths \cup {Garbage}
  /\ sender \in Values \cup {Garbage}
  /\ Len(hash) <= MaxItems + 1
  /\ ctx \in [state : States, parts : SUBSET Parts, firstDisplay : BOOLEAN,
              text : Values \cup {Garbage}, urlLength : 0..(MaxUrl + 1)]
  /\ begun \in BOOLEAN

\* There is a signature, and not of a hash that a failed attempt has spent.
Signed == reply.kind = "signature" /\ reply.over # <<Finalised>>

\* ... of a transaction whose own first command started the instruction, with a
\* part the code knows.
SignedFromTheStart == Signed /\ reply.begun /\ reply.over[1].parts # {}

(***************************************************************************)
(* The transaction as its reader knows it behind each piece:               *)
(*   names              the parts, in order, the pieces of the URL left    *)
(*                      out;                                               *)
(*   left, inUrl, whole the bytes of the URL to come, whether they may     *)
(*                      come next, and whether all have come in their      *)
(*                      place;                                             *)
(*   display            what a user is to see of it: the review with its   *)
(*                      sender first and only once, each part that is not  *)
(*                      a key in the clear, and every byte of the URL.     *)
(***************************************************************************)
Unread == [names |-> <<>>, left |-> 0, inUrl |-> FALSE, whole |-> TRUE, display |-> <<>>]

Hidden(i) == i.item = "aggregationKey" \/ (i.item = "urlLength" /\ i.size > 0)

ReadPiece(k, i) ==
  [names   |-> IF i.item = "url" THEN k.names ELSE Append(k.names, i.item),
   left    |-> IF i.item = "urlLength" THEN i.size
               ELSE IF i.item = "url" THEN k.left - i.size ELSE k.left,
   inUrl   |-> i.item = "urlLength" \/ (i.item = "url" /\ k.inUrl),
   whole   |-> k.whole /\ (i.item = "url" => k.inUrl),
   display |-> IF Hidden(i) THEN k.display
               ELSE Append(k.display, IF i.item = "head" THEN Review(i.value) ELSE i)]

Transaction == INSTANCE Reading WITH Nothing <- Unread, Read <- ReadPiece
Known(h) == Transaction!After(h)

\* The parts the bitmap announces, each once and in the order of the payload.
NamesOf(parts) ==
  LET the(part, name) == IF part \in parts THEN <<name>> ELSE <<>> IN
  <<"head">> \o the("stake", "stake") \o the("keys", "keys") \o the("keys", "aggregationKey")
    \o the("url", "urlLength") \o the("rates", "rates")

OneTransaction(h) ==
  /\ h[1].item = "head" /\ h[1].parts # {}
  /\ Known(h).names = NamesOf(h[1].parts)
  /\ Known(h).whole /\ Known(h).left = 0

\* A signature covers one transaction, whole: the parts its bitmap announces and
\* no other, and as many bytes of URL as its length says, in however many pages.
SignedIsOneTransaction == SignedFromTheStart => OneTransaction(reply.over)

\* It is made under the path that came with its head.
SignedUnderItsOwnPath == SignedFromTheStart => reply.key = reply.over[1].key

\* The flows the user paged through before signing have shown all of it, in order.
SignedWasShown == SignedFromTheStart => reply.shown = Known(reply.over).display

\* "Caller attempted to switch instruction in the middle of a multi command flow.
\* This is not allowed, as ... could trick a user to sign a mixed transaction"
\* (mainHelpers.c): no signature mixes commands of different instructions' runs.
SignsNoMixedTransaction == Signed => reply.over[1].item = "head" /\ reply.key = reply.over[1].key
=============================================================================
