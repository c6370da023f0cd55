--------------------------- MODULE PayloadUpdates ---------------------------
(***************************************************************************)
(* Three more updates of several commands: the protocol update             *)
(* (signUpdateProtocol.c), the creation of a token (signCreatePlt.c) and   *)
(* the pool parameters (signUpdatePoolParameters.c).                       *)
(*                                                                         *)
(* The length of a text (8 bytes) and the specification hash (32) are one  *)
(* Field of the protocol update's payload each.                            *)
(***************************************************************************)
EXTENDS UpdateInstruction, FiniteSets

CONSTANTS
  MaxTexts,    \* bound on the lengths of texts a protocol update announces
  MaxParams,   \* largest length of the initialization parameters announced
  Buffer       \* sizeof(ctx->initParams): 512

ASSUME PayloadAssumption == MaxParams \in Nat /\ MaxParams < Word /\ Buffer \in Nat \ {0}

(***************************************************************************)
(* Protocol update.                                                        *)
(***************************************************************************)
\* textState: MESSAGE, SPECIFICATION_URL, TEXT_STATE_END.
MESSAGE == 0
SPECIFICATION_URL == 1

ProtocolInitial(payload) ==
  /\ InTurn(Protocol, "INITIAL")
  /\ Begin(Protocol, <<Item("payloadLength", payload)>>)
  /\ ctx' = [of |-> Protocol, state |-> "TEXT_LENGTH", part |-> MESSAGE, text |-> 0,
             payload |-> payload]
  /\ seen' = <<>>
  /\ AnswerNow(Protocol)

TextLength(n) ==
  /\ InTurn(Protocol, "TEXT_LENGTH")
  /\ Cardinality({k \in DOMAIN hash : hash[k].item = "textLength"}) < MaxTexts
  /\ Absorb(<<Item("textLength", n)>>)
  /\ ctx' = [ctx EXCEPT !.text = n, !.payload = Minus(@, Field), !.state = "TEXT"]
  /\ AnswerNow(Protocol)
  /\ UNCHANGED seen

\* Whatever is left of the text, the next state is that of the next piece; only the
\* button looks at textLength, which wraps when the command is longer than it.
Text(n) ==
  /\ InTurn(Protocol, "TEXT") /\ ctx.text > 0
  /\ AbsorbBytes("text", n)
  /\ ctx' = [ctx EXCEPT !.text = Minus(@, n), !.payload = Minus(@, n),
                        !.state = IF ctx.part = MESSAGE THEN "TEXT_LENGTH" ELSE "SPECIFICATION_HASH"]
  /\ ShowText(Protocol, IF ctx.part = MESSAGE THEN "message" ELSE "url", ctx.part + 1, n)

\* handleText().
PressText ==
  /\ screen \in {"message", "url"}
  /\ ctx' = [ctx EXCEPT !.part = IF ctx.text = 0 THEN @ + 1 ELSE @]
  /\ PressContinue
  /\ UNCHANGED <<hash, seen>>

SpecificationHash ==
  /\ InTurn(Protocol, "SPECIFICATION_HASH")
  /\ Absorb(<<Named("specificationHash")>>)
  /\ ctx' = [ctx EXCEPT !.payload = Minus(@, Field), !.state = "AUXILIARY_DATA"]
  /\ Show(Protocol, "specificationHash", 0, Named("specificationHash"))

\* switchToLoading(): a flow without a way on, and then the answer.
PressSpecificationHash ==
  /\ screen = "specificationHash" /\ owed
  /\ screen' = "loading" /\ owed' = FALSE /\ reply' = Success
  /\ UNCHANGED currentInstruction
  /\ UNCHANGED updateVars

\* payloadLength is unsigned: the branch that refuses is never taken.
AuxiliaryData(n) ==
  /\ InTurn(Protocol, "AUXILIARY_DATA")
  /\ AbsorbBytes("auxiliary", n)
  /\ ctx' = [ctx EXCEPT !.payload = Minus(@, n)]
  /\ IF ctx'.payload = 0 THEN Ask(Protocol, "sign") ELSE AnswerNow(Protocol)
  /\ UNCHANGED seen

(***************************************************************************)
(* Creation of a token. A byte of the parameters is known by its position  *)
(* among those received; 0 is a byte left over from before.                *)
(***************************************************************************)
Stale == [k \in 1..Buffer |-> 0]

PltInitial ==
  /\ InTurn(CreatePlt, "INITIAL")
  /\ Begin(CreatePlt, <<>>)
  /\ ctx' = [of |-> CreatePlt, state |-> "PAYLOAD", length |-> 0, remaining |-> 0,
             initParams |-> Stale]
  /\ seen' = <<>>
  /\ AnswerNow(CreatePlt)

\* A token id of no character, or of more than 128, is refused with nothing hashed;
\* no initialization parameters, with everything hashed.
PltPayload(n) ==
  /\ InTurn(CreatePlt, "PAYLOAD")
  /\ Absorb(<<Named("token"), Item("paramsLength", n)>>)
  /\ IF n = 0
       THEN ctx' = [ctx EXCEPT !.length = 0] /\ Refuse
       ELSE /\ ctx' = [ctx EXCEPT !.length = n, !.remaining = n, !.state = "INIT_PARAMS"]
            /\ AnswerNow(CreatePlt)
  /\ UNCHANGED seen

\* The bytes of the parameters received: those hashed.
CountParams(sum, it) == IF it.item = "params" THEN sum + it.n ELSE sum
Params == INSTANCE Reading WITH Nothing <- 0, Read <- CountParams

\* The buffer with n more bytes, cut off at its end.
initParamsWith(n) ==
  LET currentOffset == ctx.length - ctx.remaining
      received == Params!After(hash)
  IN [k \in 1..Buffer |->
        IF k \in (currentOffset + 1)..(currentOffset + n) THEN received + (k - currentOffset)
        ELSE ctx.initParams[k]]

\* More bytes than are left are refused. After the last ones everything is shown,
\* of the parameters as much as the buffer holds.
InitParams(n) ==
  /\ InTurn(CreatePlt, "INIT_PARAMS") /\ n <= ctx.remaining
  /\ AbsorbBytes("params", n)
  /\ LET left == ctx.remaining - n
         params == initParamsWith(n)
         length == IF ctx.length < Buffer THEN ctx.length ELSE Buffer
     IN
     /\ ctx' = [ctx EXCEPT !.initParams = params, !.remaining = left]
     /\ IF left = 0
          THEN seen' = <<Shown(0, SubSeq(params, 1, length))>> /\ Ask(CreatePlt, "sign")
          ELSE UNCHANGED seen /\ AnswerNow(CreatePlt)

(***************************************************************************)
(* Pool parameters: rates in three commands. Passive rates lie in the      *)
(* memory of the maximal rates of the second command.                      *)
(***************************************************************************)
PoolInitial ==
  /\ InTurn(Pool, "INITIAL")
  /\ Begin(Pool, <<Named("passive")>>)
  /\ ctx' = [of |-> Pool, state |-> "RANGES", shared |-> "passive"]
  /\ seen' = <<Shown(0, Named("passive"))>>
  /\ Ask(Pool, "poolRates")

PoolRanges ==
  /\ InTurn(Pool, "RANGES")
  /\ Absorb(<<Named("minimal"), Named("maximal")>>)
  /\ ctx' = [ctx EXCEPT !.state = "EQUITY", !.shared = "maximal"]
  /\ seen' = seen \o <<Shown(0, Named("minimal")), Shown(0, Named(ctx'.shared))>>
  /\ Ask(Pool, "poolRates")

PoolEquity ==
  /\ InTurn(Pool, "EQUITY")
  /\ Absorb(<<Named("equity"), Named("capitalBound"), Named("leverageBound")>>)
  /\ seen' = seen \o <<Shown(0, Named("equity")), Shown(0, Named("capitalBound")),
                       Shown(0, Named("leverageBound"))>>
  /\ Ask(Pool, "sign")
  /\ UNCHANGED ctx

\* A rate above 100 percent: those before it have been hashed and stored.
PoolRateRefused ==
  /\ \E s \in {"RANGES", "EQUITY"} : InTurn(Pool, s)
  /\ Absorb(<<Named("part of a command")>>)
  /\ ctx' \in {ctx, [ctx EXCEPT !.shared = "maximal"]}
  /\ Refuse
  /\ UNCHANGED seen

PayloadCommand ==
  \/ \E n \in 0..MaxPayload : ProtocolInitial(n)
  \/ \E n \in 0..MaxText : TextLength(n)
  \/ \E n \in 0..MaxParams : PltPayload(n)
  \/ \E n \in 0..MaxChunk : Text(n) \/ InitParams(n) \/ AuxiliaryData(n)
  \/ SpecificationHash \/ PltInitial
  \/ PoolInitial \/ PoolRanges \/ PoolEquity
  \/ PoolRateRefused

PayloadButton == PressText \/ PressSpecificationHash
=============================================================================
