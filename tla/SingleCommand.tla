---------------------------- MODULE SingleCommand ----------------------------
(***************************************************************************)
(* The instructions of one command. Of the account app: configure          *)
(* delegation, transfer to encrypted, the export of private keys and the   *)
(* verification of an address; of the governance app: thirteen updates.    *)
(* Each reads a transaction, hashes it, turns its fields into text and     *)
(* asks; only what texts and callbacks find in the memory of the context   *)
(* outlives the command.                                                   *)
(***************************************************************************)
EXTENDS Device, Conversions

CONSTANTS
  Numbers64, Numbers32, Numbers8,  \* numbers of these widths, as digits
  Ratios,                          \* pairs of numbers of 64 bits
  Addresses,                       \* addresses with their checksum, in base InBase
  AddressText,                     \* sizeof(foundationAccountAddress): 57
  AddressEnd,                      \* where it is terminated: 55
  PathIndex,                       \* identity -> identity | HARDENED_OFFSET, as digits
  Counters                         \* credential counters, as digits

Identities == DOMAIN PathIndex

ASSUME NumbersAssumption ==
  /\ \A n \in Numbers64 : IsNumber(n, 20)
  /\ \A n \in Numbers32 \cup Counters \cup Identities : IsNumber(n, 10)
  /\ \A n \in Numbers8  : IsNumber(n, 3)
  /\ \A r \in Ratios : r = <<r[1], r[2]>> /\ IsNumber(r[1], 20) /\ IsNumber(r[2], 20)

\* How many digits an address has.
addressDigits == AddressEnd - spaces

\* Each address has that many: the first byte of all is the version 1. The conversion
\* takes a digit more for each byte, and the spaces come out as they were counted.
ASSUME AddressAssumption ==
  /\ \A a \in Addresses : a \in Seq(0..(InBase - 1)) /\ Len(a) = AddressBytes - 1
  /\ AddressText \in Nat /\ AddressEnd \in 1..(AddressText - 1) /\ outputSize <= AddressText
  /\ AddressEnd \div (PageSize + 1) = spaces
  /\ OutBase <= InBase /\ AddressBytes < addressDigits /\ addressDigits <= digitCount
  /\ ShownValue!After(WithZeroes(1, addressDigits - 1)) <= GivenValue!After(WithZeroes(1, AddressBytes - 1))
  /\ GivenValue!After(WithZeroes(2, AddressBytes - 1)) <= ShownValue!After(WithZeroes(1, addressDigits))

VARIABLES
  app,         \* which of the two apps runs
  txHash,      \* what tx_state->hash covers
  clean,       \* the union of contexts is as the app found it: zeroes
  dialog       \* what the callbacks and steps of the flow on display find there

singleVars == <<deviceVars, app, txHash, clean, dialog>>

Delegation    == "CONFIGURE_DELEGATION"
ToEncrypted   == "TRANSFER_TO_ENCRYPTED"
ExportKey     == "EXPORT_PRIVATE_KEY"
VerifyAddress == "VERIFY_ADDRESS"
ExchangeRate  == "UPDATE_EXCHANGE_RATE"
Longer        == "another instruction"

NoDialog  == [of |-> None]
Finalised == <<"final">>

SingleInit ==
  /\ DeviceInit
  /\ app \in {"account", "governance"} /\ txHash = <<>> /\ clean = TRUE /\ dialog = NoDialog

SingleRestart ==
  /\ DeviceRestart
  /\ UNCHANGED app /\ txHash' = <<>> /\ clean' = TRUE /\ dialog' = NoDialog

(***************************************************************************)
(* What the handlers read: fields of a kind, with the size of their text.  *)
(***************************************************************************)
Field(kind, size) == [kind |-> kind, size |-> size]

GasRewards       == <<Field("fraction", 8), Field("fraction", 8), Field("fraction", 8)>>
MintDistribution == <<Field("fraction", 8), Field("fraction", 8)>>
FoundationAccount == <<Field("address", AddressText)>>
CooldownParameters == <<Field("number", 21), Field("number", 21)>>
BakerStakeThreshold == <<Field("amount", 26)>>
BlockEnergyLimit == <<Field("number", 22)>>
MinBlockTime     == <<Field("unit", 25)>>
TimeParameters   == <<Field("number", 21), Field("mintRate", 35)>>
TimeoutParameters == <<Field("number", 21), Field("ratio", 44), Field("ratio", 44)>>
TransactionFeeDistribution == <<Field("fraction", 8), Field("fraction", 8)>>
FinalizationCommittee == <<Field("bin2dec", 11), Field("bin2dec", 11), Field("fraction", 8)>>
ValidatorScore   == <<Field("number", 21)>>

Fixed ==
  [UPDATE_GAS_REWARDS |-> GasRewards, UPDATE_MINT_DISTRIBUTION |-> MintDistribution,
   UPDATE_FOUNDATION_ACCOUNT |-> FoundationAccount,
   UPDATE_COOLDOWN_PARAMETERS |-> CooldownParameters,
   UPDATE_BAKER_STAKE_THRESHOLD |-> BakerStakeThreshold,
   UPDATE_BLOCK_ENERGY_LIMIT |-> BlockEnergyLimit, UPDATE_MIN_BLOCK_TIME |-> MinBlockTime,
   UPDATE_TIME_PARAMETERS |-> TimeParameters, UPDATE_TIMEOUT_PARAMETERS |-> TimeoutParameters,
   UPDATE_TRANSACTION_FEE_DIST |-> TransactionFeeDistribution,
   UPDATE_FINALIZATION_COMMITTEE_PARAMETERS |-> FinalizationCommittee,
   UPDATE_VALIDATOR_SCORE_PARAMETERS |-> ValidatorScore]

\* The type of update 3 or 4, any other being refused, comes first in the hash.
ExchangeRateFields == <<Field("rateType", 16), Field("ratio", 44)>>

ToEncryptedFields == <<Field("amount", 30)>>

\* The parts a delegation has are announced in a bitmap; capital, restaking and the
\* target come in this order.
Announced(parts, f) == IF f.kind \in parts THEN <<f>> ELSE <<>>
DelegationFields(parts) ==
  Announced(parts, Field("capital", 30)) \o Announced(parts, Field("restake", 4))
    \o Announced(parts, Field("target", 30))
DelegationParts == {"capital", "restake", "target"}

Instructions == IF app = "account" THEN {Delegation, ToEncrypted} ELSE DOMAIN Fixed \cup {ExchangeRate}

FieldsOf(i, parts) ==
  CASE i = Delegation   -> DelegationFields(parts)
    [] i = ToEncrypted  -> ToEncryptedFields
    [] i = ExchangeRate -> ExchangeRateFields
    [] i \in DOMAIN Fixed -> Fixed[i]

ValuesOf(kind) ==
  CASE kind \in {"number", "unit", "amount", "capital"} -> Numbers64
    [] kind \in {"fraction", "bin2dec"} -> Numbers32
    [] kind = "ratio"    -> Ratios
    [] kind = "mintRate" -> Numbers32 \X Numbers8
    [] kind = "address"  -> Addresses
    [] kind \in {"rateType", "restake"} -> 0..4
    [] kind = "target"   -> {<<0, Zero>>, <<2, Zero>>} \cup ({1} \X Numbers64)

\* No instruction has more than three.
Transactions(fields) ==
  LET values(k) == ValuesOf(fields[k].kind) IN
  CASE Len(fields) = 0 -> {<<>>}
    [] Len(fields) = 1 -> {<<v>> : v \in values(1)}
    [] Len(fields) = 2 -> values(1) \X values(2)
    [] Len(fields) = 3 -> values(1) \X values(2) \X values(3)

(***************************************************************************)
(* What they show.                                                         *)
(***************************************************************************)
Yes == Repeat(Mark, 3)
No  == Repeat(Mark, 2)
Stop == Repeat(Mark, 15)
Passive == Repeat(Mark, 18)

RateTypeText(updateType) ==
  CASE updateType = 3 -> Repeat(Mark, 15) [] updateType = 4 -> Repeat(Mark, 13) [] OTHER -> Thrown

\* mantissa*10^(-exponent).
MintRateText(rate, size) ==
  Behind(numberToText(rate[1], size) \o Repeat(Mark, 6),
         numberToText(rate[2], size - Len(rate[1]) - 6)) \o <<Mark>>

CapitalText(capital, size) ==
  IF capital = Zero THEN Stop ELSE amountToGtuDisplay(capital, size)

RestakeText(restake) == CASE restake = 0 -> No [] restake = 1 -> Yes [] OTHER -> Thrown

TargetText(target) ==
  CASE target[1] = 0 -> Passive
    [] target[1] = 1 -> Repeat(Mark, 9) \o bin2dec(target[2], 21)
    [] OTHER -> Thrown

TextOf(kind, size, v) ==
  CASE kind = "number"   -> numberToText(v, size)
    [] kind = "unit"     -> numberToTextWithUnit(v, size, 2)
    [] kind = "bin2dec"  -> bin2dec(v, size)
    [] kind = "fraction" -> fractionToPercentageDisplay(v, size)
    [] kind = "amount"   -> amountToGtuDisplay(v, size)
    [] kind = "ratio"    -> RatioText(v, size)
    [] kind = "mintRate" -> MintRateText(v, size)
    [] kind = "address"  -> SubSeq(base58check_encode(v, size), 1, AddressEnd)
    [] kind = "rateType" -> RateTypeText(v)
    [] kind = "capital"  -> CapitalText(v, size)
    [] kind = "restake"  -> RestakeText(v)
    [] kind = "target"   -> TargetText(v)

\* numberToText leaves the terminator to its caller, and these leave it out.
Terminated(kind) == kind \notin {"number", "ratio"}

\* The display shows a text up to the next zero byte: behind an unterminated one, if
\* stale, what an earlier text of the union left, of which one digit stands for all.
Displayed(kind, text, stale) == IF stale /\ ~Terminated(kind) THEN Append(text, 9) ELSE text

(***************************************************************************)
(* The handlers.                                                           *)
(***************************************************************************)
Transaction(i, parts, values) == <<[of |-> i, parts |-> parts]>> \o values

\* What these conversions throw is an invalid transaction: no text of theirs overflows.
\* Some has been hashed by then, and some texts have been written.
HandleRefused(whole) ==
  /\ Refuse
  /\ txHash' \in {SubSeq(whole, 1, k) : k \in 0..Len(whole)}
  /\ clean' = FALSE /\ dialog' = NoDialog

Handle(i, parts, values) ==
  LET fields == FieldsOf(i, parts)
      texts == [k \in DOMAIN fields |-> TextOf(fields[k].kind, fields[k].size, values[k])]
      whole == Transaction(i, parts, values)
  IN
  /\ Accepts(i)
  /\ IF Thrown \in ToSet(texts) THEN HandleRefused(whole)
     ELSE
       /\ \E stale \in {FALSE, ~clean} :
            dialog' = [of |-> i, parts |-> parts,
                       texts |-> [k \in DOMAIN texts |-> Displayed(fields[k].kind, texts[k], stale)]]
       /\ txHash' = whole
       /\ clean' = FALSE
       /\ Ask(i, "sign")

HandleSingle ==
  /\ \E i \in Instructions \ {Delegation} :
       \E values \in Transactions(FieldsOf(i, {})) : Handle(i, {}, values)
  /\ UNCHANGED app

\* A key path or a P2 that does not fit, before anything is hashed, or an update type
\* that is not the handler's, behind the header it came with.
Refused ==
  /\ \E i \in Instructions : Accepts(i)
  /\ UNCHANGED txHash \/ txHash' = <<"header">>
  /\ Refuse
  /\ UNCHANGED <<app, clean, dialog>>

\* Without a part, or with bytes left over or missing, a delegation is refused.
ConfigureDelegation ==
  /\ app = "account"
  /\ \E parts \in SUBSET DelegationParts : \E values \in Transactions(DelegationFields(parts)) :
       \/ parts # {} /\ Handle(Delegation, parts, values)
       \/ Accepts(Delegation) /\ HandleRefused(Transaction(Delegation, parts, values))
  /\ UNCHANGED app

(***************************************************************************)
(* Keys that leave the device, and the address made from one.              *)
(***************************************************************************)
PRF_KEY == 1
ID_CRED_SEC == 0
P1_BOTH == 2

Header(p1) == <<"Decrypt", "Recover credentials", "Create credential">>[p1 + 1]

\* Mutant of ExportPrivateKey: what to export is only ever switched on.
ExportPrivateKeySticky(p1, p2, identity) ==
  /\ app = "account" /\ Accepts(ExportKey)
  /\ IF p1 \notin 0..2 \/ p2 \notin 1..2
       THEN Refuse /\ UNCHANGED <<clean, dialog>>
       ELSE /\ dialog' \in
                 [of : {ExportKey}, header : {Header(p1)}, identity : {bin2dec(identity, 11)},
                  exportBoth : {p1 = P1_BOTH, ~clean}, exportSeed : {p2 = 1}, path : {PathIndex[identity]}]
            /\ clean' = FALSE
            /\ Ask(ExportKey, "export")
  /\ UNCHANGED <<app, txHash>>

ExportPrivateKey(p1, p2, identity) ==
  /\ app = "account" /\ Accepts(ExportKey)
  /\ IF p1 \notin 0..2 \/ p2 \notin 1..2
       THEN Refuse /\ UNCHANGED <<clean, dialog>>
       ELSE /\ dialog' =
                 [of |-> ExportKey, header |-> Header(p1), identity |-> bin2dec(identity, 11),
                  exportBoth |-> p1 = P1_BOTH, exportSeed |-> p2 = 1, path |-> PathIndex[identity]]
            /\ clean' = FALSE
            /\ Ask(ExportKey, "export")
  /\ UNCHANGED <<app, txHash>>

\* exportPrivateKeySeed and exportPrivateKeyBls.
Exported ==
  [kind |-> "keys", seed |-> dialog.exportSeed, path |-> dialog.path,
   keys |-> <<PRF_KEY>> \o (IF dialog.exportBoth THEN <<ID_CRED_SEC>> ELSE <<>>),
   header |-> dialog.header, identity |-> dialog.identity]

\* getIdentityAccountDisplay: identity/counter, in 14 bytes.
AccountText(identity, counter) ==
  Behind(Append(numberToText(identity, 14), Mark), bin2dec(counter, 14 - Len(identity) - 1))

\* The key or the point may fail; an account too long for its text raises an error the
\* dispatcher does not know.
HandleVerifyAddress(identity, counter) ==
  LET text == AccountText(identity, counter) IN
  /\ app = "account" /\ Accepts(VerifyAddress)
  /\ IF text = Thrown THEN SingleRestart
     ELSE
       /\ clean' = FALSE
       /\ \/ /\ dialog' = [of |-> VerifyAddress, account |-> text,
                           address |-> <<PathIndex[identity], counter>>]
             /\ Ask(VerifyAddress, "verify")
          \/ Refuse /\ dialog' = NoDialog
       /\ UNCHANGED <<app, txHash>>

(***************************************************************************)
(* Buttons.                                                                *)
(***************************************************************************)
AcceptSign ==
  /\ screen = "sign"
  /\ PressAnswer([kind |-> "signature", over |-> txHash])
  /\ txHash' = Finalised /\ dialog' = NoDialog
  /\ UNCHANGED <<app, clean>>

AcceptExport ==
  /\ screen = "export"
  /\ PressAnswer(Exported)
  /\ dialog' = NoDialog
  /\ UNCHANGED <<app, txHash, clean>>

AcceptAddress ==
  /\ screen = "verify"
  /\ PressAnswer([kind |-> "approved", dialog |-> dialog])
  /\ dialog' = NoDialog
  /\ UNCHANGED <<app, txHash, clean>>

\* A key that cannot be derived, a signature that cannot be made.
AcceptFails ==
  /\ screen \in {"sign", "export"}
  /\ PressThrow
  /\ txHash' = IF screen = "sign" THEN Finalised ELSE txHash
  /\ UNCHANGED <<app, clean, dialog>>

Decline ==
  /\ screen \in {"sign", "export", "verify"}
  /\ PressAnswer(Rejection)
  /\ dialog' = NoDialog
  /\ UNCHANGED <<app, txHash, clean>>

StrayPress == ~owed /\ screen \in {"sign", "export"} /\ SingleRestart

Quit == screen = "idle" /\ SingleRestart

PowerGone == SingleRestart

SingleDispatch ==
  /\ BadCommand \/ \E i \in Instructions : SwitchInstruction(i)
  /\ UNCHANGED <<app, txHash, clean, dialog>>

\* An instruction of several commands, or a public key: it uses the hash and the
\* memory of the context, and ends, or is still in progress.
LongerInstruction ==
  /\ Accepts(Longer)
  /\ \/ AnswerNow(Longer)
     \/ uiIdle /\ owed' = FALSE /\ reply' \in {Success, Rejection}
  /\ txHash' \in {<<>>, <<"foreign">>} /\ clean' = FALSE /\ dialog' = NoDialog
  /\ UNCHANGED app

SingleNext ==
  \/ HandleSingle \/ ConfigureDelegation \/ Refused
  \/ \E p1, p2 \in 0..3, identity \in Identities : ExportPrivateKey(p1, p2, identity)
  \/ \E identity \in Identities, counter \in Counters : HandleVerifyAddress(identity, counter)
  \/ AcceptSign \/ AcceptExport \/ AcceptAddress \/ AcceptFails \/ Decline
  \/ StrayPress \/ Quit \/ PowerGone \/ SingleDispatch \/ LongerInstruction

SingleSpec == SingleInit /\ [][SingleNext]_singleVars
-----------------------------------------------------------------------------
\* Every variable keeps to its type, and a dialog of an instruction finds the
\* context of that instruction in memory.
SingleTypeOK ==
  /\ app \in {"account", "governance"} /\ owed \in BOOLEAN /\ clean \in BOOLEAN
  /\ currentInstruction \in Instructions \cup {ExportKey, VerifyAddress, Longer, None}
  /\ screen \in {"idle", "frozen", "sign", "export", "verify"}
  /\ owed => CASE screen = "sign"   -> dialog.of \in Instructions
               [] screen = "export" -> dialog.of = ExportKey
               [] screen = "verify" -> dialog.of = VerifyAddress
               [] screen = "frozen" -> currentInstruction = None

Asked == screen = "sign" /\ owed /\ txHash # Finalised
Fields == FieldsOf(dialog.of, dialog.parts)

\* A reader takes the text of a field for the value v.
ReadsAs(kind, text, v) ==
  CASE kind \in {"number", "unit", "bin2dec"} -> NumbersIn(text, 0) = <<v>>
    [] kind = "fraction" -> NumbersIn(text, 3) = <<v>>
    [] kind = "amount"   -> NumbersIn(text, 6) = <<v>>
    [] kind = "capital"  -> IF text = Stop THEN v = Zero ELSE NumbersIn(text, 6) = <<v>>
    [] kind \in {"ratio", "mintRate"} -> NumbersIn(text, 0) = v
    [] kind = "address"  -> ShownValue!After(text) = GivenValue!After(<<1>> \o v)
    [] kind = "rateType" -> text = RateTypeText(v)
    [] kind = "restake"  -> text = IF v = 1 THEN Yes ELSE No
    [] kind = "target"   -> IF text = Passive THEN v[1] = 0
                            ELSE v[1] = 1 /\ NumbersIn(text, 0) = <<v[2]>>

\* A dialog that offers to sign shows the whole transaction hashed: its fields in
\* their order, and each as a text that reads as the number, amount, fraction, ratio
\* or address hashed. A number whose handler forgets the terminator is the first
\* thing its text shows: NumbersEnd says the rest.
ShownIsHashed ==
  Asked =>
    /\ Len(txHash) = Len(Fields) + 1 /\ txHash[1] = [of |-> dialog.of, parts |-> dialog.parts]
    /\ \A k \in DOMAIN Fields :
         \E text \in {dialog.texts[k]} \cup
                     (IF Terminated(Fields[k].kind) THEN {} ELSE {Front(dialog.texts[k])}) :
           ReadsAs(Fields[k].kind, text, txHash[k + 1])

\* `Shows the pool owner cooldown value' (ins_update_cooldown_parameters.md), and so
\* for every number shown: its text is that number and no other.
NumbersEnd ==
  Asked => \A k \in DOMAIN Fields : ReadsAs(Fields[k].kind, dialog.texts[k], txHash[k + 1])

\* Every text fits its buffer, with the terminator it has, and the conversion's own
\* checks never let it run over; amountToGtuDisplay passes on a length four too
\* large. Left out is the stake threshold, whose 26 bytes do not hold the largest
\* amounts (README, observations).
TextsFit ==
  Asked => \A k \in DOMAIN Fields :
    \/ Len(dialog.texts[k]) < Fields[k].size
    \/ ~Terminated(Fields[k].kind) /\ Len(dialog.texts[k]) = Fields[k].size
    \/ dialog.of = "UPDATE_BAKER_STAKE_THRESHOLD"

\* Below 2^31 an identity is its own path index.
Ordinary(identity) == identity \in Identities => PathIndex[identity] = identity

\* Keys leave the device only for a user who has accepted them: those the title
\* names, of the identity on display; IdCredSec only to create a credential. And an
\* address approved is that of the account on display.
KeysAreThoseShown ==
  /\ reply.kind = "keys" /\ Ordinary(reply.identity) =>
       /\ reply.path = reply.identity
       /\ ID_CRED_SEC \in ToSet(reply.keys) <=> reply.header = "Create credential"
  /\ reply.kind = "approved" =>
       LET account == NumbersIn(reply.dialog.account, 0)
       IN Ordinary(account[1]) => reply.dialog.address = account
=============================================================================
