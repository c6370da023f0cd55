-------------------------- MODULE CountedPayloads ---------------------------
(***************************************************************************)
(* Transactions whose payload comes in pieces that are counted down:       *)
(* register data (src/src/signRegisterData.c), transfer to public          *)
(* (src/src/signTransferToPublic.c) and the encrypted transfer with and    *)
(* without a memo (src/src/signEncryptedAmountTransfer.c).                 *)
(*                                                                         *)
(* Three counters run here, each with a width of its own: dataLength and   *)
(* proofSize (16 bits), and the CBOR reader's cborLength (32 bits). Of the *)
(* payload only the order of its pieces is kept, and how many bytes there  *)
(* are of each kind of piece.                                              *)
(***************************************************************************)
EXTENDS Device, Sequences

CONSTANTS
  MaxData,     \* MAX_DATA_SIZE, and MAX_MEMO_SIZE
  MaxProof,    \* largest declared proof size
  MaxChunk,    \* most data bytes in one command
  Word16,      \* 2^16
  Word32,      \* 2^32
  MaxItems     \* bound on what is fed to one hash

ASSUME CountedAssumption ==
  /\ MaxData \in Nat /\ MaxProof \in Nat /\ MaxChunk \in Nat \ {0}
  /\ MaxItems \in Nat \ {0, 1}
  /\ Word16 \in Nat /\ MaxProof < Word16 /\ MaxData + 1 < Word16 /\ MaxChunk < Word16
  /\ Word32 \in Nat /\ Word32 > MaxData + MaxChunk

ASSUME NoneIsNoInstruction ==
  None \notin {"REGISTER_DATA", "TRANSFER_TO_PUBLIC", "ENCRYPTED_AMOUNT_TRANSFER",
               "ENCRYPTED_AMOUNT_TRANSFER_WITH_MEMO", "another instruction"}

VARIABLES
  hash,        \* what tx_state->hash covers
  state,       \* ctx->state
  size,        \* ctx->dataLength or ctx->proofSize, which lie in one union
  left,        \* cborContext.cborLength
  declared,    \* history: the proof size the host announced; it is not hashed
  viewed       \* history: bytes of data hashed when the user left the data step

vars == <<deviceVars, hash, state, size, left, declared, viewed>>

Register      == "REGISTER_DATA"
ToPublic      == "TRANSFER_TO_PUBLIC"
Encrypted     == "ENCRYPTED_AMOUNT_TRANSFER"
EncryptedMemo == "ENCRYPTED_AMOUNT_TRANSFER_WITH_MEMO"
Other         == "another instruction"
Proving == {ToPublic, Encrypted, EncryptedMemo}
Ours    == Proving \cup {Register}

\* The bytes that are counted; two of them are lengths, hashed before what they count.
NoBytes == [dataLength |-> 0, data |-> 0, proof |-> 0]

Hash(items)     == [items |-> items, bytes |-> NoBytes]
Hashed(name)    == [hash EXCEPT !.items = Append(@, name)]
Blank           == Hash(<<>>)
Finalised       == Hash(<<"final">>)

Init ==
  /\ DeviceInit
  /\ hash = Blank /\ state = "none" /\ size = 0 /\ left = 0 /\ declared = 0 /\ viewed = 0

Restart ==
  /\ DeviceRestart
  /\ hash' = Blank /\ state' = "none" /\ size' = 0 /\ left' = 0 /\ declared' = 0 /\ viewed' = 0

\* ctx->state as the handlers find it.
foundState == IF isInitialCall THEN "INITIAL" ELSE state

InTurn(i, s) ==
  /\ Accepts(i)
  /\ foundState = s
  /\ Len(hash.items) < MaxItems

\* P1 does not fit the state.
OutOfTurn(i) ==
  /\ Accepts(i)
  /\ state' = foundState
  /\ Refuse
  /\ UNCHANGED <<hash, size, left, declared, viewed>>

(***************************************************************************)
(* First commands: path, header and kind, and what else they bring.        *)
(***************************************************************************)
\* The path or the kind is refused, after the hash has been initialised or not.
InitialRefused(i) ==
  /\ InTurn(i, "INITIAL")
  /\ hash' \in {hash, Blank}
  /\ state' = "INITIAL"
  /\ Refuse
  /\ UNCHANGED <<size, left, declared, viewed>>

\* Mutant of InitialProving: the hash is not initialised.
InitialProvingAppends(i) ==
  /\ i \in {ToPublic, Encrypted}
  /\ InTurn(i, "INITIAL")
  /\ hash' = Hashed(i)
  /\ state' = "REMAINING_AMOUNT"
  /\ AnswerNow(i)
  /\ UNCHANGED <<size, left, declared, viewed>>

\* Transfer to public, encrypted transfer: the amount comes next.
InitialProving(i) ==
  /\ i \in {ToPublic, Encrypted}
  /\ InTurn(i, "INITIAL")
  /\ hash' = Hash(<<i>>)
  /\ state' = "REMAINING_AMOUNT"
  /\ AnswerNow(i)
  /\ UNCHANGED <<size, left, declared, viewed>>

\* The length of the memo is checked before it is hashed, that of data as well.
InitialMemo(n) ==
  /\ InTurn(EncryptedMemo, "INITIAL")
  /\ left' = n
  /\ IF n <= MaxData
       THEN hash' = Hash(<<EncryptedMemo, "memoLength">>)
            /\ state' = "MEMO_START" /\ AnswerNow(EncryptedMemo)
       ELSE hash' = Hash(<<EncryptedMemo>>) /\ state' = "INITIAL" /\ Refuse
  /\ UNCHANGED <<size, declared, viewed>>

InitialRegister(n) ==
  /\ InTurn(Register, "INITIAL")
  /\ size' = n
  /\ viewed' = 0
  /\ IF n <= MaxData
       THEN hash' = [Hash(<<Register, "dataLength">>) EXCEPT !.bytes.dataLength = n]
            /\ left' = n
            /\ state' = "PAYLOAD_START" /\ Ask(Register, "registerInitial")
       ELSE hash' = Hash(<<Register>>) /\ state' = "INITIAL" /\ Refuse /\ UNCHANGED left
  /\ UNCHANGED declared

(***************************************************************************)
(* The CBOR reader of Transfers, cut down to the length it keeps. A head   *)
(* of h bytes begins a command of n bytes, which brings it whole.          *)
(***************************************************************************)
Less(n) == IF n <= left THEN left - n ELSE left - n + Word32

\* Mutant of readCborInitial: a number need not be all of cborLength.
readCborInitialAnyNumber(h, n, ok) ==
  \/ left' = Less(n) /\ ok
  \/ left' = Less(h)

\* Text counts every byte of the command; a number must be all of cborLength; any
\* other head, or text of another length, is refused.
readCborInitial(h, n, ok) ==
  \/ left' = Less(n) /\ ok
  \/ left' = Less(h) /\ (Less(h) = 0 \/ ~ok)

\* Only text has a second command: a number has used up cborLength with its head,
\* so the branch that refuses to read on in a number is never taken.
readCborContent(n) == left' = Less(n)

\* A CBOR type the reader does not know: the dispatcher resets the device.
UnsupportedCbor ==
  /\ \/ InTurn(EncryptedMemo, "MEMO_START")
     \/ InTurn(Register, "PAYLOAD_START") /\ size > 0
  /\ Restart

(***************************************************************************)
(* Register data.                                                          *)
(***************************************************************************)
HashData(n)  == [Hashed("data") EXCEPT !.bytes.data = @ + n]
HashProof(n) == [Hashed("proof") EXCEPT !.bytes.proof = @ + n]

\* More bytes than are left, or data before there is a transaction: the second is
\* found out when dataLength and the hash have moved already.
DataRefused(n) ==
  \/ /\ Accepts(Register) /\ foundState # "INITIAL" /\ size < n
     /\ state' = state
     /\ Refuse
     /\ UNCHANGED <<hash, size, left, declared, viewed>>
  \/ /\ InTurn(Register, "INITIAL") /\ size >= n
     /\ state' = "INITIAL"
     /\ size' = size - n
     /\ hash' = HashData(n)
     /\ Refuse
     /\ UNCHANGED <<left, declared, viewed>>

Data(h, n) ==
  /\ foundState \in {"PAYLOAD_START", "PAYLOAD"}
  /\ InTurn(Register, foundState) /\ size >= n
  /\ size' = size - n
  /\ hash' = HashData(n)
  /\ state' = "PAYLOAD"
  /\ \E ok \in BOOLEAN :
       /\ IF foundState = "PAYLOAD_START"
            THEN readCborInitial(h, n, ok)
            ELSE /\ ok = (size = n)       \* the second command must bring the rest
                 /\ IF ok THEN readCborContent(n) ELSE UNCHANGED left
       /\ CASE ok /\ size = n  -> Ask(Register, "registerData")
            [] ok /\ size > n  -> AnswerNow(Register)
            [] ~ok             -> Refuse
  /\ UNCHANGED <<declared, viewed>>

PressContinueInitial ==
  /\ screen = "registerInitial"
  /\ PressContinue
  /\ UNCHANGED <<hash, state, size, left, declared, viewed>>

\* handleData(), from the step that shows the data.
PressData ==
  /\ screen = "registerData"
  /\ viewed' = hash.bytes.data
  /\ IF size > 0 THEN PressContinue
     ELSE screen' = "sign" /\ UNCHANGED <<currentInstruction, owed, reply>>
  /\ UNCHANGED <<hash, state, size, left, declared>>

(***************************************************************************)
(* Transfers with a proof.                                                 *)
(***************************************************************************)
\* The memo of an encrypted transfer.
Memo(h, n) ==
  /\ foundState \in {"MEMO_START", "MEMO"}
  /\ InTurn(EncryptedMemo, foundState)
  /\ hash' = Hashed("memo")
  /\ \E ok \in BOOLEAN :
       /\ IF foundState = "MEMO_START" THEN readCborInitial(h, n, ok)
          ELSE readCborContent(n) /\ ok = (left' = 0)
       /\ IF ok THEN /\ state' = IF left' = 0 THEN "REMAINING_AMOUNT" ELSE "MEMO"
                     /\ AnswerNow(EncryptedMemo)
                ELSE Refuse /\ UNCHANGED state
  /\ UNCHANGED <<size, declared, viewed>>

\* The transfer to public has both amounts and the proof size in one command.
AmountAndProofSize(n) ==
  /\ InTurn(ToPublic, "REMAINING_AMOUNT")
  /\ hash' = Hashed("amount")
  /\ size' = n /\ declared' = n
  /\ state' = "PROOF"
  /\ AnswerNow(ToPublic)
  /\ UNCHANGED <<left, viewed>>

handleRemainingAmount(i) ==
  /\ i \in {Encrypted, EncryptedMemo}
  /\ InTurn(i, "REMAINING_AMOUNT")
  /\ hash' = Hashed("remaining")
  /\ state' = "TRANSFER_AMOUNT"
  /\ AnswerNow(i)
  /\ UNCHANGED <<size, left, declared, viewed>>

handleTransferAmountAggIndexProofSize(i, n) ==
  /\ i \in {Encrypted, EncryptedMemo}
  /\ InTurn(i, "TRANSFER_AMOUNT")
  /\ hash' = Hashed("transfer")
  /\ size' = n /\ declared' = n
  /\ state' = "PROOF"
  /\ AnswerNow(i)
  /\ UNCHANGED <<left, viewed>>

\* Mutants of handleProofs: the size of the first piece ends it; the counter does
\* not wrap.
handleProofsFirstPiece(i, n) ==
  /\ i \in Proving
  /\ InTurn(i, "PROOF")
  /\ hash' = HashProof(n)
  /\ size' = 0
  /\ Ask(i, "sign")
  /\ UNCHANGED <<state, left, declared, viewed>>

handleProofsSigned(i, n) ==
  /\ i \in Proving
  /\ InTurn(i, "PROOF")
  /\ hash' = HashProof(n)
  /\ size' = size - n
  /\ IF size' = 0 THEN Ask(i, "sign") ELSE AnswerNow(i)
  /\ UNCHANGED <<state, left, declared, viewed>>

\* proofSize is a uint16_t: the branch for proofSize < 0 is never taken.
handleProofs(i, n) ==
  /\ i \in Proving
  /\ InTurn(i, "PROOF")
  /\ hash' = HashProof(n)
  /\ size' = (size + Word16 - n) % Word16
  /\ IF size' = 0 THEN Ask(i, "sign") ELSE AnswerNow(i)
  /\ UNCHANGED <<state, left, declared, viewed>>

(***************************************************************************)
(* Signing, and everything else.                                           *)
(***************************************************************************)
Signature ==
  [kind |-> "signature", over |-> hash, left |-> left, declared |-> declared, viewed |-> viewed]

PressSign ==
  /\ screen = "sign"
  /\ PressAnswer(Signature)
  /\ hash' = Finalised
  /\ UNCHANGED <<state, size, left, declared, viewed>>

PressSignFails ==
  /\ screen = "sign"
  /\ PressThrow
  /\ hash' = Finalised
  /\ UNCHANGED <<state, size, left, declared, viewed>>

PressDecline ==
  /\ screen = "sign"
  /\ PressAnswer(Rejection)
  /\ UNCHANGED <<hash, state, size, left, declared, viewed>>

\* A step left alive answers again, when nothing is owed any more.
PressStray ==
  /\ screen \in {"registerInitial", "sign"} /\ ~owed
  /\ Restart

PressQuit == screen = "idle" /\ Restart

PowerLost == Restart

Dispatch ==
  /\ BadCommand \/ \E i \in Ours : SwitchInstruction(i)
  /\ UNCHANGED <<hash, state, size, left, declared, viewed>>

\* Any other instruction: its context lies over ours and its transaction takes
\* the hash. It runs to its end, or waits for its next command.
OtherInstruction(junk) ==
  /\ Accepts(Other)
  /\ hash' = Blank /\ size' = junk
  /\ \/ uiIdle /\ owed' = FALSE /\ reply' = Success
     \/ AnswerNow(Other)
  /\ UNCHANGED <<state, left, declared, viewed>>

Command ==
  \/ Dispatch
  \/ \E i \in Ours :
       \/ OutOfTurn(i) \/ InitialRefused(i) \/ InitialProving(i) \/ handleRemainingAmount(i)
       \/ \E n \in 0..MaxProof : handleTransferAmountAggIndexProofSize(i, n)
       \/ \E n \in 0..MaxChunk : handleProofs(i, n)
  \/ \E n \in 0..(MaxData + 1) : InitialMemo(n) \/ InitialRegister(n)
  \/ \E n \in 0..MaxProof : AmountAndProofSize(n)
  \/ \E n \in 1..MaxChunk, h \in 1..MaxChunk : h <= n /\ (Data(h, n) \/ Memo(h, n))
  \/ \E n \in 1..MaxChunk : DataRefused(n)
  \/ UnsupportedCbor
  \/ \E junk \in 0..MaxChunk : OtherInstruction(junk)

Button ==
  \/ PressContinueInitial \/ PressData
  \/ PressSign \/ PressSignFails \/ PressDecline \/ PressStray \/ PressQuit

Next == Command \/ Button \/ PowerLost

Spec == Init /\ [][Next]_vars
-----------------------------------------------------------------------------
States ==
  {"none", "INITIAL", "PAYLOAD_START", "PAYLOAD", "MEMO_START", "MEMO",
   "REMAINING_AMOUNT", "TRANSFER_AMOUNT", "PROOF"}

Pieces ==
  Ours \cup {"memoLength", "memo", "dataLength", "data", "amount", "remaining", "transfer",
            "proof", "final"}

\* Every variable keeps to the values its C type and the handlers allow.
TypeOK ==
  /\ currentInstruction \in Ours \cup {Other, None}
  /\ owed \in BOOLEAN
  /\ screen \in {"idle", "frozen", "registerInitial", "registerData", "sign"}
  /\ hash \in [items : Seq(Pieces), bytes : [dataLength : Nat, data : Nat, proof : Nat]]
  /\ Len(hash.items) <= MaxItems
  /\ state \in States
  /\ size \in 0..(Word16 - 1) /\ left \in 0..(Word32 - 1)
  /\ declared \in 0..MaxProof /\ viewed \in Nat

\* There is a signature, and not of a hash that a failed attempt has spent.
Signed == reply.kind = "signature" /\ reply.over # Finalised

Copies(name, n) == [i \in 1..n |-> name]

\* The pieces of a transaction with n commands of data or proof, m of memo.
Opening(kind, m) ==
  IF kind = EncryptedMemo THEN <<kind, "memoLength">> \o Copies("memo", m) ELSE <<kind>>

Amounts(kind) == IF kind = ToPublic THEN <<"amount">> ELSE <<"remaining", "transfer">>

Payload(kind, m, n) ==
  IF kind = Register THEN <<kind, "dataLength">> \o Copies("data", n)
  ELSE Opening(kind, m) \o Amounts(kind) \o Copies("proof", n)

\* A signature covers one transaction of its kind: the head, then the pieces of
\* that kind's payload in their order, nothing of an aborted one or of another kind.
SignedIsOneTransaction ==
  Signed =>
    \E kind \in Ours, m, n \in 0..MaxItems : reply.over.items = Payload(kind, m, n)

\* Registered data has the length signed before it; the CBOR reader, which counts
\* text and numbers apart and in a variable of its own, has come to the same end,
\* and all of it had been received when the user left the data step.
DataIsWholeAndViewed ==
  Signed /\ reply.over.items[1] = Register =>
    /\ reply.over.bytes.data = reply.over.bytes.dataLength
    /\ reply.left = 0
    /\ reply.viewed = reply.over.bytes.data

\* The proof under a signature has the announced size, up to multiples of 2^16: the
\* size itself is not hashed, so nothing else tells a proof cut short.
ProofIsCounted ==
  Signed /\ reply.over.items[1] \in Proving =>
    reply.over.bytes.proof % Word16 = reply.declared % Word16
=============================================================================
