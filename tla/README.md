# A verification of the Concordium Ledger app

TLA+ models of the Concordium app for Ledger hardware wallets, the TLC runs that
check them on small instances, and proofs that TLAPS checks for every instance.
Paths are relative to the repository; `src/src/` holds the account app,
`src/governance-app/src/` the governance app, and both share `src/src/common/`.

## 1. The system

The app receives commands (APDUs) from a host over USB, one at a time. A command
names an instruction (INS), two parameters (P1, P2) and up to 255 bytes of data.
Most instructions take several commands: the handler feeds their data to one hash,
shows parts of it on the display, and at the end the user signs the hash or
declines. Everything runs in one thread. Concurrency comes from outside: the host
may send a command, the user may press a button, and power may go, at any moment
the device allows, and in any order.

All instructions share global memory that no instruction owns:

| state | where | written by |
|---|---|---|
| `currentInstruction`, `hash` | `tx_state` | dispatcher, every handler, `ui_idle` |
| `path` | `util.c` | every handler that reads a key path |
| `global_account_sender` | `util.c` | every account transaction |
| `global` | a union of all contexts | every handler, each through its own member |
| the UX flow on display | SDK | every handler and button callback |

### Inventory

| component | its state | operations | what makes it correct |
|---|---|---|---|
| Dispatcher, answers, idle menu (`mainHelpers.c`, `util.c`, `sign.c`, `menu.c`) | `currentInstruction`, `flags`, the display | receive, refuse, lock on an instruction, answer from a button, reset | commands of two instructions are never mixed; every command is answered, but under a failed button (section 5) |
| Public-key export (`getPublicKey.c`) | `path`, the key to compare | silent, asking, comparing | does not disturb what is in progress |
| Simple transfer, with memo (`signTransfer.c`, `displayCbor.c`) | context, `cborLength` | head, memo in pieces, amount, dialog | signed = one transaction, under its own path, as shown |
| Transfer with schedule (`signTransferWithSchedule.c`) | counts, `pos`, state | head, memo, packets of pairs, a button that reads the next pair | every announced pair is hashed, shown, read |
| Configure baker (`signConfigureBaker.c`) | bitmap, state, `firstDisplay` | six commands, optional parts, three flows | exactly the announced parts, each shown once |
| Register data (`signRegisterData.c`) | `dataLength`, `cborLength` | head, data in pieces, data step | both counters agree, data whole |
| Transfer to public, encrypted transfer (`signTransferToPublic.c`, `signEncryptedAmountTransfer.c`) | `proofSize` | head, memo, amounts, proof in pieces | pieces in order, proof counted |
| Public information for an identity provider (`signPublicInformationForIp.c`) | key countdown, `showIntro` | count, keys, threshold | as many keys as announced, all shown |
| Credential deployment, credential update (`signCredentialDeployment.c`) | four nested countdowns, two state variables | twenty commands, seven flows | whole credentials, as many as announced, keys and ids shown |
| Configure delegation, transfer to encrypted (`signConfigureDelegation.c`, `signTransferToEncrypted.c`) | context, for one command | read, hash, convert, ask | every field on display reads as the field hashed |
| Key export, address verification (`exportPrivateKey.c`, `verifyAddress.c`) | context, until the button | choose keys or account, ask | the keys handed out are those asked for |
| Governance, several commands (`signHigherLevelKeyUpdate.c`, `signUpdateAuthorizations.c`, `signAddIdentityProvider.c`, `signAddAnonymityRevoker.c`, `descriptionView.c`, `signUpdateProtocol.c`, `signCreatePlt.c`, `signUpdatePoolParameters.c`) | countdowns of keys, indices, texts, payload and parameters; `authsVersion` | nine instructions of two to five kinds of command | announced is received, shown under its title, and signed as one update |
| Governance, one command (thirteen files) | context, for one command | read, hash, convert, ask | as above |
| Governance entry point (`main.c`) | | dispatch | |
| Base58, numbers, time (`base58check.c`, `numberHelpers.c`, `time.c`) | none | pure functions | a text reads as its value, and fits |
| Ledger SDK (`io_exchange`, the UX engine, `cx_*`) | not in the repository | | external |

### What is hard about it

* *Stale state.* Contexts, path, hash and texts survive an instruction that was
  refused, aborted or overtaken. The `memset` in `mainHelpers.c:83` that means to
  clear them clears the pointer parameter `global_state` instead.
* *Answers out of place.* Callbacks answer commands from inside `io_exchange`. Some
  steps answer before their flow is through; an error under a button may never be
  transmitted, as `flags` still holds `IO_ASYNCH_REPLY`.
* *Countdowns* in 8, 16 and 32 bits decide what is hashed, what is shown and when
  the signing dialog opens.
* *Order of commands.* State variables, P1, P2 and `isInitialCall` decide together
  what a command may do; each handler combines them in its own way.
* *Restarts.* Quit, an error no handler lists and a loss of power start the app afresh, in any state:
  `EXCEPTION_IO_RESET`, which `io_event` throws when USB power goes, is caught by `concordium_main`
  (`mainHelpers.c:97-118`), whose default case resets the device, before `main.c:176` sees it.

PROJECT.json lists the hazards line by line, each with the properties that would
catch it, or with the reason why none does yet.

## 2. The modules

    Device                       dispatcher, answers, idle menu: action fragments
      Transfers                  key export, transfer, transfer with memo
        TransfersProofs          types, and the four properties of signed transfers
      ScheduledTransfer          transfer with schedule, with and without a memo
        ReviewedSigning          what it promises: parts reviewed one by one, then signed;
                                 CredentialDeployment promises it, too
        ScheduledTransferProofs  its inductive invariant, pairs in place, the refinement; dates
      PublicInfoForIp            public information for an identity provider
      ConfigureBaker             baker configuration, in and out of turn
        ConfigureBakerProofs     types, own path, one transaction, all of it shown
      CountedPayloads            register data, transfer to public, encrypted transfer
        CountedPayloadsProofs    types, order, data and proof
      CredentialDeployment       deployment, and update with nested deployments
        CredentialProofs         types, whole credentials, one transaction, both reviews,
                                 the refinement
      UpdateInstruction          governance: one hash, one context, the steps of a handler
        KeyUpdates               root, level 1 and level 2 keys, access structures
        DescribedUpdates         identity providers and anonymity revokers
        PayloadUpdates           protocol update, token creation, pool parameters
          Governance             the three together, in one app
            GovernanceProofs     types, and the four properties of signed updates
      SingleCommand              seventeen instructions of one command, in both apps
        DialogProofs             PublicInfoForIp: types, and the three properties of its dialogs;
                                 SingleCommand: types, texts that read as the values, keys shown
    Reading                      a sequence read from its first element to its last (pure)
      ReadingProofs              induction over it, once for every reader
    Conversions                  numbers, amounts, fractions, ratios, base 58 (pure)
    Calendar                     dates, next to a calendar that goes on day by day
    MC<module>                   the small instance TLC checks

**Device** is not a specification of its own. It says what a handler or a callback
can do to the four variables every instruction shares (`currentInstruction`, `owed`:
a command awaits its answer, `screen`, `reply`). A handler ends in `AnswerNow`
(`sendSuccessNoIdle`), `Ask` (a flow and `IO_ASYNCH_REPLY`) or `Refuse` (a listed
error); a button in `PressAnswer` (`sendSuccess`, `sendUserRejection`),
`PressContinue` (`sendSuccessNoIdle`) or `PressThrow`. An instruction module builds
one action per command and one per button from these, its own variables, and the
code's guards; "map" in PROJECT.json gives the lines of each definition.

**Governance** composes nine instructions, which no guard keeps apart but
`currentInstruction`: an update may be begun, left in any state and overtaken by
another, and `ctx` is a union, a record of one instruction at a time. `SingleCommand`
keeps of the union what its flows and callbacks read when a button is pressed
(`dialog`), and whether it is still as zeroed at the start (`clean`).

**Reading** is how ConfigureBaker, CredentialDeployment and Governance say what a signature
covers. A hash is a sequence of items, some of which announce how many of another follow, and
its length has no bound. A reader goes through it item by item and keeps what is still
announced, whether all of it came in order, and what a display should have shown
(`Read(r, x)`: what is known behind `x`, when `r` was known before it). Properties ask what
is known behind the whole; no handler consults a reader. It is written as a recursive function
with the step as a parameter of the module, so that its lemmas are proved once.

**Conversions** works on the digits of a number, twenty for 64 bits, since TLC's
integers have 32; its readers (`NumbersIn`, `ShownValue`, `GivenValue`) go the other way and share no
step with the writers. **Calendar** counts days and seconds apart for the same reason.

Every module also has an action for *all other* instructions (`OtherInstruction`).
It takes the shared hash and, since the contexts lie in one union, leaves arbitrary
values in those fields of the context whose staleness the handler could notice.
Exceptions are `state` fields of handlers that reset them on every first command.

### What stands for what

* The hash is what it was fed since `cx_sha256_init`, as a sequence of items, or a
  record of counts where the order is fixed by the state. Hashing is thus injective.
* Addresses, amounts, keys and paths are model values; payloads have sizes. A text
  on display is the value it was made from, `Garbage` if from foreign memory.
* `ctx` fields keep their widths where they wrap: `Word16`, `Word32`, `Wrap`.
* History variables (`read`, `viewed`, `declared`, `early`, `shown`, `begun`, ...)
  record what the user or the host did. No guard reads one.
* A mutant of a definition stands before it and differs by a plausible slip. Nothing
  uses mutants except the check that each property can fail.

### Assumptions about the SDK, which is not in the repository

1. The host sends a command only when the one before has been answered; an answer
   nobody waits for raises an exception that resets the device (`PressStray`).
2. A flow shows its steps in turn, so whoever presses a step has had the data steps
   before it on display. Pressing runs the callback, and a callback that starts no
   flow leaves the display as it is: `KeepsStep` says whether the pressed step may
   be pressed again. All runs allow both, except those of ScheduledTransfer and Governance: there a
   second press of "Show next release", or of a key index, would read another pair or
   index, and correctness rests on steps being retired (`StepsRetire`,
   `UpdateAssumption`).
3. Resetting or restarting clears RAM; a loss of USB power ends in a reset.
4. A crypto call may fail when signing. Failures while hashing are not modelled.
5. Commands are at least as long as their handler reads. What a handler reads behind
   the end of a short command (the buffer is not cleared) is not modelled.

## 3. The runs

| run | states | shows |
|---|---|---|
| `transfers` | 198 k | One transaction, under its own path, as shown; text memos whole |
| `schedule` | 7 k | Schedules whole, pairs in place; they end (liveness); every command is answered unless a button has failed under it (liveness); ReviewedSigning is implemented, by which every pair under a signature was read |
| `public_info` | 6 k | As many keys as announced, dialog current, all keys shown to a user who pages through |
| `configure_baker` | 1.08 M | Exactly the announced parts, own path, each shown once and in order |
| `counted_payloads` | 530 k | One transaction in order, data whole by both counters and viewed, proof counted modulo 2^16 |
| `credentials` | 556 k | Whole credentials, as many as announced; keys and removed ids shown; ReviewedSigning is implemented |
| `governance` | 466 k | One update, everything announced received, payload counted, shown as hashed |
| `single_commands` | 25 k | Texts read as what is hashed and fit; keys and addresses are those on display |
| `dates` | 159 k | Dates are the calendar's |

Each of them but `dates` quantifies over aborted instructions, refusals at every point, errors
under buttons, power loss, restart, and foreign instructions in between. The rest are
findings, section 5.

### Bounds, and why they are enough

* *Transfers*: memos up to 3 bytes in commands up to 2, so that a memo takes one, two
  or too many commands, and `Word` = 8 so that the counter wraps; two paths and two
  values, so that a mix-up shows; values are symmetric, and nothing distinguishes them.
* *ScheduledTransfer*: packets of 2 pairs and up to 5 pairs give empty, full, partial
  and single-pair packets; the theorems of section 4 remove the bound.
* *PublicInfoForIp*: up to 4 keys reach every flow (first, next, last, only). The state
  after the threshold repeats; `MaxThresholds` cuts it at 2.
* *ConfigureBaker*: all 16 sets of parts; URLs of 0, 1 and 2 bytes in pages of up to 2.
  A command out of turn may append to a foreign hash, hence a bound on its items: with
  `MaxItems` = 7 every transaction runs to its signature except the one that has all four
  parts *and* a URL of two pages; two pages with every three parts are inside.
* *CountedPayloads*: data and proofs of up to 4 bytes in pieces of up to 2, so that there are
  first, middle and last pieces; the first command of registered data brings the head of its
  CBOR item whole, and the following ones are counted twice, by `dataLength` and `cborLength`;
  with `Word16` = 6 a proof that goes on past its announced size
  wraps the counter and ends one word later, within `MaxItems` = 9.
* *CredentialDeployment*: two credentials, two of each kind in a list, proofs of 0, 1 or
  2 pieces. A full update with two credentials would have 31 items; with `MaxItems` = 21
  two credentials share a few optional items between them while a single one has them
  all. `LiveView` merges states that differ in memory nobody can read before it is
  written: after an instruction ended, its hash, and a counter outside its state. No
  action and no invariant but `TypeOK` reads these, so no violation is merged away.

* *Governance*: up to two keys, two key indices per structure in batches of up to two, and
  access structures of one or two, so that a structure may be empty, split over batches, or
  exceeded by one. Texts of up to two units with a field of one, in commands of none, one or two;
  the protocol update, which goes back for the length of a text that is not whole, announces at
  most four (`MaxTexts`); `Word` = 11 is one more than
  the longest payload, and the payloads announced are all below it, so that counters wrap
  both from above and from below. Six units of parameters meet a buffer of three. `View`
  drops between two instructions the hash and the context, which the first command of the
  next one overwrites before reading, but for the text of a key update, which one kind
  leaves as it was.
* *SingleCommand*: numbers where the conversions branch - 0, below, at and above the
  resolution, trailing and inner zeroes, 100 percent and one above, the widest of each type -
  in every field of every instruction. Addresses have eight digits in base 4, shown in base 3
  in pages of five, so that the digits reach over two spaces as the 37 bytes in base 58 do
  over their own. `View` drops what no step reads until it is written again.
* *Calendar*: 1970 to 2402, which holds every case of the 400-year cycle from LEAPOCH and the
  thirty years before, and 11898 to 11900, where the year stops fitting.

`CHECK_DEADLOCK` is on but for `dates`, whose calendar ends: elsewhere the host may always
send, or the user press.

### Fairness

Only `schedule` assumes any (`FairSpec`). The app itself is reactive and justifies none:
the five conjuncts state an environment, a host that sends the next packet when asked
and a user who presses on. `ScheduleEnds` then says that the device's part of the dialogue
terminates. A device that offers the signing step too late violates it (its mutant).
`CommandsAreAnswered` says that the device never leaves a command without an answer and the
user without a button to press, but for one way: an error under a button (`PressThrow`) may
leave its status word untransmitted, and then host, user and device do wait for each other until
power goes (`Stuck`; `StuckInv`, proved, says that nothing else leads there).
Zero pairs are excluded: the code accepts the count, and such a schedule answers empty
packets for ever.

## 4. The proofs

Eight modules and 40 theorems, each for every value of the constants. In none of them is the
property to be shown inductive: it speaks of the moment of signing, and what makes it true is
an account of everything before. The invariants below are these accounts. Type correctness
comes first and is used in every step; then the invariant is shown action by action.
Leaves that take the prover more than a second or so name their prover and a generous limit
(`SMTT(40)`, `ZenonT(60)`), so that the proofs do not depend on the speed of the machine.

| module | obligations | theorems |
|---|---|---|
| ScheduledTransferProofs | 1855 | `TypeCorrect`, `ScheduleAddsUp`, `SignsWholeSchedules`, `SignsWhatWasRead`, `ReadsPairsInPlace`, `ImplementsReviewedSigning`, `DatesAreShown` |
| TransfersProofs | 870 | `TransferTypeCorrect`, `OneTransaction`, `OwnPath`, `WasShown`, `TextMemoWhole` |
| CountedPayloadsProofs | 1303 | `CountedTypeCorrect`, `OneTransaction`, `DataWholeAndViewed`, `ProofCounted` |
| ConfigureBakerProofs | 1396 | `BakerTypeCorrect`, `BakerOwnPath`, `BakerSignsOneTransaction`, `BakerShowsAll` |
| CredentialProofs | 3769 | `CredentialTypeCorrect`, `CredentialsWhole`, `OneTransaction`, `DeploymentReviewed`, `UpdateReviewed`, `ImplementsReviewedSigning` |
| GovernanceProofs | 5417 | `Invariant`, `Typed`, `OneUpdateSigned`, `WholeAsAnnounced`, `Counted`, `ShownIsSigned` |
| DialogProofs | 5498 | `InfoTypeCorrect`, `KeysAreDeclared`, `DialogIsCurrent`, `PagingShowsAll`; `SingleTypeCorrect`, `SingleShownIsHashed`, `SingleTextsFit`, `SingleKeysAreThoseShown` |
| ReadingProofs | 264 | the lemmas `AfterEmpty`, `AfterAppend`, `AfterIn`, `AfterConcat`, `ReadingsAre`, `AfterIs` |

### Sequences of any length

What a reader knows behind a sequence is an induction over it, and a theorem of induction takes
the predicate as a parameter, an operator, which the provers cannot instantiate.
`SetInduction` states it with a *set* of naturals in the place of the predicate, from the
library's theorem that the finite subsets of the naturals are well-founded. `ReadingProofs`
draws from it that the recursive function exists, what is known behind the empty sequence,
behind one element more and behind two sequences, and that what is known stays in a set its
step stays in. The step is a constant of the module: each proof module instantiates these
lemmas with its own reader, and from there each command is one step of the reader next to one
of the handler. The invariants of the next three modules all have this form: *what is known
behind the hash fits what the context still expects*.

### The transfer with schedule

`ScheduleInv` (the run `schedule` checks it, too) is the conjunction of

* `DialogInv`: a dialog is on display exactly while a command of this instruction is owed,
  so that a button cannot run between two commands;
* `StuckInv`: a command nobody will answer is one whose button has failed;
* `MemoInv`: with a memo, the count is hashed only behind it; until then `remaining` still
  holds the count that was announced;
* `PairsInv`: from then on pairs hashed + pairs in the packet + pairs to come = count, pairs
  read trail pairs hashed by the one on display, and the signing step is on display only
  when the other two terms are zero.

*In place.* `ScheduleInv` does not know where packets begin. `PlaceInv` adds it: the pair hashed
last is number `Place` of its packet, `ctx->pos` stands behind it, and while pairs are still to
come every packet is full. The next packet then begins at a multiple of its size. The lemmas
are about division, which Z3 does with a divisor that is a constant but not a number only
when quotient and remainder are named.

*Refinement.* `ImplementsReviewedSigning` is `Spec => SignsWhatIsReviewed`, where the property
is `ReviewedSigning`'s specification under the mapping `announced`, `reviewed`, `signed` of
ScheduledTransfer. The abstract device knows no packets, counters, memo or dispatcher: a review
begins, its parts are gone through one by one, and only from the last of them does a signature
come, over exactly these parts. Every action maps to one of its steps or to a stutter: commands
answer, the button of a pair reviews, a signature ends the review, and errors, declines, power
loss and restart end it without one. The simulation holds in the states of `ScheduleInv` only -
that a pair's button does not review the last part too early is `PairsInv`'s count.
`SignsWhatWasRead`, that every pair under a signature was paged through, is one consequence
stated on its own.

*Dates.* `DatesAreShown` is about every year from 1970 and every second of a day, where TLC sees
433 years and three seconds. `CalendarInv` says in closed form what day the calendar has come
to. From there it is arithmetic: years that begin in March are split into cycles of 400, 100, 4
and 1 years, of which only the last of each may be a day longer (`YearsInCycles`), and a number
of days has one such split, which is what `secondsToTm` computes (`TmIs`). The month is a table,
`MonthBegins` unfolded twelve times (`MonthsBegin`), and the text is read off digit by digit
(`Numbers`, `TextIsShown`).

### The other modules

* *Transfers*: `TransferInv` says what the hash covers, exactly, in each state of the dialogue.
  The hard part is the text memo in two commands: `cborLength` is subtracted unsigned, and a
  first command longer than the memo leaves it far above any later length. `MemoInv` therefore
  keeps the length announced and the size of the first command (`One`, `Less`), from which it
  follows that a second command cannot bring the counter back to 0.
* *PublicInfoForIp*: `InfoInv`. Keys hashed + keys to come = keys announced (`CountInv`), the
  context holds what was hashed last, and without the step that answers early, what is hashed
  is what was read and what is on display (`ReadInv`).
* *CountedPayloads*: `CountedInv`. For registered data, data hashed + data to come = length
  hashed. For a proof, proof hashed + proof to come = size announced *modulo 2^16*: this is the
  exact sum, as the branch for too many bytes is never taken. The order of the pieces is an
  existential (`Payload`, `Opening` with some number of memo or proof pieces), which each
  command extends by one.
* *ConfigureBaker*: `HeadInv`. What began with a first command is hashed behind its own head,
  and the global path is still the one in that head: every step that writes the path, or feeds
  a hash of other instructions, ends `begun`. `PlaceInv`: the context still holds the parts the
  head announces, the parts so far are whole and were shown once each, in order, and the next
  part expected is the one `ctx->state` waits for; with the signing step on display nothing is
  expected any more. `PageInv`: steps wait to be paged through only while a command waits for its answer.
* *CredentialDeployment*: `CountInv` says that a countdown that is read only when it has run has
  something to count, whichever instruction left the context. `ReviewInv` says that every id and
  key hashed has been paged through, is on display, or is the last key of its credential: behind
  a key that is not shown the state has left `VERIFICATION_KEY`, so the next item is no key.
  `DialogInv` closes the gap at the signature: the signing step comes behind an account or a
  threshold, never behind an id or a key. `PlaceInv` is about both handlers at once. Inside a
  credential (`InsideInv`) the state names the item expected, and the countdown of that item
  how many of it, also when the handler of updates runs that of deployments. Around it, an
  update (`UpdateInv`) counts credentials and ids and is done when its threshold is on
  display. A deployment (`DeployInv`) is done when its account is, unless it claimed to be part
  of an update; `LastKeyInv` has its last key wait in the context for the final flow.

  *Refinement.* `CredentialProofs!ImplementsReviewedSigning` is the same promise, in the same
  words, for an instruction built quite differently: there are no pairs and no packets, two
  handlers share a context, and the parts come between items that are not parts. They are the
  ids an update removes and its threshold, or the keys of a deployment, of which the last is
  gone through in the final flow; a part that only the final flow shows is the one `Sign`
  reviews. The mapping reads parts announced, hashed and paged through off `hash` and `read`,
  not off the countdowns, so that the simulation has to show that the countdowns are right:
  `PartsInv` says that parts hashed and parts to come are those announced by exactly one
  count, and that nothing is paged through but what a button has gone on from. `TakesReviewing`
  then covers every command that hashes an item, by what it does to the countdowns
  (`PartSteps`), `PagesReviewing` every button that goes on, `EndsReviewing` all that cuts a
  review off. The keys an update adds are not its parts: the last of each is never shown
  (section 5). A deployment under which a proof claims to be of an update, or one of whose early
  steps has been pressed, is not under review in the mapping (section 5, too): the review ends
  there, and what is signed after it is no signature of the abstract device.
* *Governance*: `IInv`. Nine instructions share one context, and any may be left in any state
  and overtaken. `DeviceInv` and `ContextInv` say which dialog and which member of the union
  belong to whom; `HashInv` that a hash begins with the instruction that is in progress.
  `ProgressInv` is the account proper, one for each kind: keys still to come are those
  announced, and the index batch that was hashed and not yet shown (`Pending`) is what
  `seen` lacks; of described updates and the protocol update the bytes read and the payload
  left are the payload announced *modulo the width of the counter*; of a token the buffer
  holds the parameters hashed as far as they fit. Once the signing step is on display the
  context no longer matters, and `SignInv` says that hash and dialogs are complete.

### The instructions of one command

`SingleInv` is short: a dialog that offers to sign was made by its own instruction from values of
the fields the hash covers (`OfferInv`, with `TransactionIs` and `DialogIs` for each list of
fields), and a dialog of keys or of an address from one identity and counter (`ExportInv`,
`VerifyInv`). The work is in what follows, that *a text reads as the value it was made from*
and fits its buffer, for each kind of field (`FieldGood`).

The reader `NumbersIn` is an instance of Reading, and its lemmas are stated so that they compose:
`ReadsDigits(t, w)` says that reading `t` behind any text is reading the digits `w`.
`GroupedRead` shows it of a whole part with its commas, by an account of how many digits stand
before each character; `LessThanOne` and `AboveOne` add decimals, filled up with zeroes ahead and
freed of zeroes behind, and `DecimalShows` concludes for any resolution. Around it `Framed` and
`FramedPair` put the units and strokes of `UnitText`, `AmountText`, `FractionText`, `RatioIs`.

For an address the values are compared: the text in base 58 and the bytes in base 256 denote the
same number, although neither fits any integer of the code.

* *One byte* (`AddByteIs`). `Cell` divides in one cell. Summed up from the first cell to the last
  (`Raising`), the carry that leaves the first cell and the digits written make up the old value
  times 256 plus the byte. A carry is at most what the digits ahead of it denote (`NoCarry`), so
  none leaves the first cell while the value fits. The loop stops at a cell past those in use
  whose carry is zero, and then so are all further ones (`NothingCarried`).
* *All bytes* (`ConvertedIs`). The bytes so far denote less than the bytes at the end, and
  these less than the power of `OutBase` that belongs to the digits (`AddressBetween`).
  `AddressBetween` also gives the number of digits exactly: no more, and no fewer,
  since the version byte is 1.
* *In place* (`AddressTextIs`). Spaces move digits to the left of where they were read, over
  cells that are no longer needed, so the cell a character is read from lies at or behind it.

`KeysAreThoseShown` needs of the texts only that an identity's reads as the identity.

### Assumptions

Each module names its own, and TLC evaluates them in every run. `None` is no instruction
(`NoneIsNoInstruction`) and garbage no value. Counters are wider than what they count:
`ScheduleAssumption` (a packet fits the byte `pos` twice over, memo counters are wider than a
memo), `TransfersAssumption` (the word exceeds a memo and a command, and two commands),
`CalendarAssumption` (years from 1970 on, seconds within a day), `CountedAssumption` (16 bits
exceed data and proof and a piece, 32 bits data and a piece), `UpdateAssumption` (the word
exceeds a payload, a text and a piece), `PayloadAssumption` (it exceeds the parameters of a
token), all true of the code's constants by far. `KeyAssumption` gives each version of the
authorizations at least one structure. A hash takes at least one or two items (`MaxItems`).
`ConversionAssumption`: bases are at least two. `NumbersAssumption`: a number has its digits, no
zero ahead of them, and at most the twenty, ten or three of 64, 32 and 8 bits. `AddressAssumption`
holds what `verifyAddress` and `base58_encode` rely on: an address is 36 bytes behind the version,
the text has 50 digits and 5 spaces in a buffer that takes the 52 digits and 5 spaces
reserved for them. It gives the powers as the values of a 1 or 2 with zeroes behind:
58^49 <= 256^36 (an address has at least 50 digits) and 2 * 256^36 <= 58^50 (and no more). TLC
evaluates it for the bases of the run; the code's are beyond its integers, but 49, 50 and 36
times the logarithms settle it: 2^287.1 <= 2^288 and 2^289 <= 2^292.8. The
proofs about ScheduledTransfer also assume `StepsRetire`, section 2, those about Governance the
same within `UpdateAssumption`, and the refinement that no count is `None` (`NoneIsNoCount`). All
other theorems hold whether or not a pressed step stays alive.

### Only model-checked

`ScheduleEnds` and `CommandsAreAnswered`, as liveness is out of the prover's reach. Every other
property of a run that passes is a theorem.

## 5. Findings

Each is a run that expects a violation; PROJECT.json quotes the line that disagrees.

* `baker_mixed`: only P1 = 0 of the baker configuration tests `isInitialCall`; any other
  command is accepted as a first one when `ctx->state`, left behind, fits.
* `last_key_unshown`: a credential update never shows the last key of a credential.
* `stale_digits`: `numberToText` writes no terminator, and callers that show its text add none:
  a cooldown of 86400 after one of 1209600 shows as 8640000. `ShownIsHashed` therefore
  allows digits behind the texts of these callers (`Terminated`).

Met while modelling, without a run of their own:

* `readCborContent` (`displayCbor.c:106`) writes no terminator either: a text memo is shown with
  the tail of an earlier, longer one. `TextMemoIsWhole` asks that all of the memo is shown,
  not that nothing else is. The pages of a baker's URL share this (`signConfigureBaker.c:437`).
* The end of the key comparison (`getPublicKey.c:31`) runs `ui_idle()` and ends whatever
  instruction the host has begun meanwhile; the comparison's text may be overwritten by it.
* `proofSize < 0` (`signTransferToPublic.c:73`, `signEncryptedAmountTransfer.c:71`) is never true
  of a `uint16_t`: a proof longer than announced wraps the counter instead of being refused.
* The review step at the head of the signing flow of `signPublicInformationForIp.c:17` answers the
  threshold command; the host can then send the threshold again.
* An integer memo may have more bytes than its announced length: those behind the CBOR head
  are hashed but never counted. `TextMemoIsWhole` is therefore about text only.
* The final flows of a deployment have *two* steps that answer early ("Review details" and
  "AR threshold"); after either, "new or existing" may be hashed a second time.
  `DeploymentIsReviewed` excludes users who press them.
* In a deployment, P2 = 2 makes the handler hash the proof length and consult
  `updateCredentialState`, which an aborted update may have left: a second credential is then
  asked for. `SignedIsOneTransaction` is stated for deployments without such a P2.
* A credential announcing no keys or no anonymity revokers, and a schedule of no pairs, are
  accepted and cannot be completed.
* "x out of y" anonymity revokers has 13 bytes: `10 out of 100` resets the device.
* A baker bitmap of bits 8 and 9 only is accepted and leaves the previous `state`.
* A protocol update leaves each text after one command (`signUpdateProtocol.c:115-123`), where
  `governance-app/doc/ins_update_protocol.md:12,14` announce batches of 255 bytes. What is signed
  after a text cut short is excluded from `SignedIsOneUpdate` and `ShownAsHashed`.
  Auxiliary data are hashed and never shown.
* A level 2 update sent as one of level 1 keys meets an empty branch
  (`signHigherLevelKeyUpdate.c:64`), and the type text on display is whatever the memory holds.
* `verifyKeyLength` and both `payloadLength`s are unsigned: their branches for negative values are
  never taken. The anonymity revoker never looks at its payload length.
* `amountToGtuDisplay` (`numberHelpers.c:183`) checks a length four bytes too large. Every text it
  is used for is long enough all the same, but the stake threshold's: 26 bytes do not hold
  amounts from 10^17 microCCD on, and `TextsFit` leaves it out.
* An error thrown by a button is answered from within the loop of `io_exchange`, where `flags` still
  holds `IO_ASYNCH_REPLY` (`mainHelpers.c:62`): its status word may never be sent, with the menu
  frozen and the command unanswered. `CommandsAreAnswered` excludes this one way to be stuck.
* A first command that ends inside the head of a CBOR item has a negative length of content, in
  a byte (`displayCbor.c:95`). The first commands of CountedPayloads bring the head whole.
* `toPaginatedHex` checks for one separator in 16 bytes and writes one in 8.
* `verifyAddress.c:153` ignores the result of `base58check_encode`. An account number too long for
  its 14 bytes raises an error the dispatcher does not list, and resets the device.
* Identities from 2^31 on share the path of the identity 2^31 below, in the export of keys and
  the verification of addresses; `KeysAreThoseShown` is about the others (`Ordinary`).
* Bits above the third in a delegation's bitmap are hashed and ignored.
* `governance-app/doc/ins_higher_level_keys.md` gives level 1 updates INS 0x2B, `main.c:67` 0x29;
  `ins_update_cooldown_parameters.md:11` lists the delegator cooldown first, the handler reads
  the pool owner's first.
* `doc/ins_transfer.md` and `doc/ins_transfer_with_schedule.md` give the memo variants the INS
  of the plain ones, `main.c:75-77` their own (0x32, 0x34); `doc/ins_configure_baker.md`
  numbers P1 differently from the code.

## 6. Not modelled

* *SDK internals and cryptography*: external; see the assumptions.
* *Hexadecimal text* (`toPaginatedHex`): keys and hashes are shown as themselves. The texts of
  dates, amounts and addresses are modelled where they are made, in Conversions and Calendar;
  the instructions of several commands take a conversion to yield its value's text or refuse.
* *The text of the update type*, the same for every command of an instruction, and the version
  in the idle menu.
* *Texts of identities, URL pages, thresholds and compared keys* in the dialogs of the
  instructions of several commands.
* *Leading zeroes* in base 58: every address begins with the version byte 1.
* *Tests and snapshots* served as documentation of the dialogs.

## 7. What is left

1. Governance updates as implementations of ReviewedSigning: the keys of a level 1 update and
   the batches of an access structure are parts of a transaction, too.
2. Texts over texts: URL pages of a baker, and the key under comparison.
