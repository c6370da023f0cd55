----------------------------- MODULE Governance -----------------------------
(***************************************************************************)
(* The governance app's multi-command instructions together                *)
(* (src/governance-app/src/main.c): one hash, one context, one screen.     *)
(* The instructions of one command are SingleCommand's; here they are the  *)
(* other instruction, which takes the hash and the context's memory.       *)
(***************************************************************************)
EXTENDS KeyUpdates, DescribedUpdates, PayloadUpdates

vars == <<deviceVars, updateVars>>

Init == DeviceInit /\ UpdateInit

Restart == DeviceRestart /\ hash' = <<>> /\ ctx' = NoContext /\ seen' = <<>>

PressQuit == screen = "idle" /\ Restart

PowerLost == Restart

Dispatch ==
  /\ BadCommand \/ \E i \in MultiCommand : SwitchInstruction(i)
  /\ UNCHANGED updateVars

\* An instruction of one command, or the export of a public key: it runs to its
\* end or waits for the user, and both end in the idle menu.
OtherInstruction ==
  /\ Accepts(Other)
  /\ hash' \in {hash, <<>>} /\ ctx' = NoContext
  /\ uiIdle /\ owed' = FALSE /\ reply' \in {Success, Rejection}
  /\ UNCHANGED seen

Command ==
  \/ KeyCommand \/ DescribedCommand \/ PayloadCommand
  \/ \E i \in MultiCommand : InitialRefused(i) \/ Refused(i)
  \/ Dispatch \/ OtherInstruction

Continuing == {"review", "key", "start", "verifyKeyHash", "poolRates"}

Button ==
  \/ KeyButton \/ DescribedButton \/ PayloadButton
  \/ PressNext(Continuing)
  \/ PressSign \/ PressSignFails \/ PressDecline \/ PressQuit

Next == Command \/ Button \/ PowerLost

Spec == Init /\ [][Next]_vars
-----------------------------------------------------------------------------
States ==
  {"INITIAL", "KEY", "THRESHOLD", "SIZE", "INDEX", "DESCRIPTION_LENGTH", "DESCRIPTION",
   "VERIFY_KEY", "CDI_VERIFY_KEY", "PUBLIC_KEY", "TEXT_LENGTH", "TEXT", "SPECIFICATION_HASH",
   "AUXILIARY_DATA", "PAYLOAD", "INIT_PARAMS", "RANGES", "EQUITY"}

Screens ==
  Continuing \cup {"idle", "frozen", "index", "threshold", "description", "message", "url",
                   "specificationHash", "loading", "sign"}

\* Every variable keeps to the values its C type and the handlers allow: the
\* counters are unsigned, and the enumerations do not run past their last value.
TypeOK ==
  /\ currentInstruction \in MultiCommand \cup {None}
  /\ owed \in BOOLEAN
  /\ screen \in Screens
  /\ ctx.of \in MultiCommand \cup {None} /\ ctx.state \in States
  /\ ctx.of \in Authorizing =>
       /\ ctx.structure \in 0..AuthorizationEnd[ctx.version]
       /\ ctx.pointer \in 1..(MaxBatch + 1) /\ ctx.processed \in 0..MaxBatch
  /\ ctx.of \in Described \cup {Protocol} => ctx.payload \in 0..(Word - 1) /\ ctx.part \in 0..2
  /\ ctx.of = CreatePlt => ctx.remaining <= ctx.length

(***************************************************************************)
(* The transaction as its reader knows it behind each item:                *)
(*   skeleton          the parts every update of its kind has, in order;   *)
(*   of, left, whole   the number announced last: of which items, how many *)
(*                     (or how many bytes) are to come, and whether each   *)
(*                     number before was met before anything else came;    *)
(*   bytes             of the payload;                                     *)
(*   section, shown    the items a user is to see one by one, each under   *)
(*                     the title of its section.                           *)
(***************************************************************************)
AnnouncedBy == [keys |-> "key", size |-> "index", textLength |-> "text", paramsLength |-> "params"]
Announced   == {"key", "index", "text", "params"}
Weight(it)  == IF it.item \in {"key", "index"} THEN 1 ELSE it.n

InPayload(it) ==
  CASE it.item \in {AddProvider, "textLength", "cdiVerifyKey", "specificationHash"} -> Field
    [] it.item \in {"text", "verifyKey", "auxiliary"} -> it.n
    [] OTHER -> 0

Unread ==
  [skeleton |-> <<>>, of |-> "nothing", left |-> 0, whole |-> TRUE, bytes |-> 0, section |-> 0,
   shown |-> <<>>]

ReadItem(r, it) ==
  [skeleton |-> IF it.item \in Announced \cup {"verifyKey", "auxiliary"} THEN r.skeleton
                ELSE Append(r.skeleton, it.item),
   of       |-> IF it.item \in DOMAIN AnnouncedBy THEN AnnouncedBy[it.item] ELSE r.of,
   left     |-> IF it.item \in DOMAIN AnnouncedBy THEN it.n
                ELSE IF it.item = r.of THEN r.left - Weight(it) ELSE r.left,
   whole    |-> r.whole /\ (it.item = r.of \/ (r.left = 0 /\ it.item \notin Announced)),
   bytes    |-> r.bytes + InPayload(it),
   section  |-> IF it.item \in {"size", "textLength"} THEN r.section + 1 ELSE r.section,
   shown    |-> IF it.item \in {"index", "text"} THEN Append(r.shown, Shown(r.section, it))
                ELSE IF it.item \in {"key", "specificationHash"} THEN Append(r.shown, Shown(0, it))
                ELSE r.shown]

Transaction == INSTANCE Reading WITH Nothing <- Unread, Read <- ReadItem
Known(h) == Transaction!After(h)

Texts(n)      == [k \in 1..n |-> "textLength"]
Structures(n) == [k \in 1..(2 * n) |-> IF k % 2 = 1 THEN "size" ELSE "threshold"]

SkeletonOf(i, h) ==
  CASE i \in HigherLevel -> <<i, "keyUpdateType", "keys", "threshold">>
    [] i \in Authorizing -> <<i, "version", "keys">> \o Structures(AuthorizationEnd[h[2].n])
    [] i = AddProvider   -> Append(<<i, "payloadLength">> \o Texts(3), "cdiVerifyKey")
    [] i = AddRevoker    -> Append(<<i, "payloadLength">> \o Texts(3), "publicKey")
    [] i = Protocol      -> Append(<<i, "payloadLength">> \o Texts(2), "specificationHash")
    [] i = CreatePlt     -> <<i, "token", "paramsLength">>
    [] i = Pool          -> <<i, "passive", "minimal", "maximal", "equity", "capitalBound", "leverageBound">>

KindOf(h) == h[1].item

\* Every number announced is met exactly by what follows it, before anything else.
IsWhole(h) == Known(h).whole /\ Known(h).left = 0

\* One update of its kind: every part of its payload, in order, and nothing of an
\* update begun before it, of its own kind or another's. Left out are protocol
\* updates whose texts are not whole: the handler leaves a text after one command,
\* whatever its announced length (README, observations).
IsOneUpdate(h) ==
  \/ Known(h).skeleton = SkeletonOf(KindOf(h), h)
  \/ KindOf(h) = Protocol /\ ~IsWhole(h)

IsCounted(h) == KindOf(h) \in {AddProvider, Protocol} => Known(h).bytes % Word = h[2].n

TypeText(i, keyUpdateType) ==
  IF i = RootKeys THEN <<"Root w. root keys", "Level 1 w. root keys">>[keyUpdateType + 1]
  ELSE "Level 1 w. level 1 keys"

\* Left out: the update of level 2 keys sent as one of level 1 keys, whose type text
\* is whatever the memory holds, and protocol texts that are not whole.
WasShown(h, dialogs) ==
  LET kind == KindOf(h) IN
  /\ kind \in HigherLevel \cup Authorizing \cup Described => Tail(dialogs) = Known(h).shown
  /\ kind \in Authorizing \cup Described => dialogs[1].what = Named(kind)
  /\ kind \in HigherLevel /\ ~(kind = Level1Keys /\ h[2].n = 1) =>
       dialogs[1].what = Named(TypeText(kind, h[2].n))
  /\ kind = Protocol /\ IsWhole(h) => dialogs = Known(h).shown
  /\ kind = CreatePlt =>
       LET n == IF h[3].n < Buffer THEN h[3].n ELSE Buffer
       IN dialogs[1].what = [k \in 1..n |-> k]

Signed == reply.kind = "signature" /\ reply.over # Finalised

\* A signature covers one update of its kind: the parts of its payload, each once
\* and in order, although each command but the first only finds a state in memory
\* that the commands of other updates, and of refused ones, write too.
SignedIsOneUpdate == Signed => IsOneUpdate(reply.over)

\* What a signed update announces is what it holds: keys, the key indices of each
\* access structure, the bytes of each text of a description and the initialization
\* parameters. They come in many commands, and other counters run down meanwhile. Left
\* out are the texts of a protocol update, which its handler leaves after one command.
AnnouncedIsWhole == Signed /\ KindOf(reply.over) # Protocol => IsWhole(reply.over)

\* The payload length of a signed update counts its payload, up to the width of
\* the counter: of the provider, verifyKeyLength and payloadLength count the same
\* bytes, the first from where the description ends.
PayloadIsCounted == Signed => IsCounted(reply.over)

\* What the user has approved is what is signed: the kind of update, every key and
\* key index and every text, in the order and under the titles of the transaction,
\* and of the parameters of a token as many as fit the buffer, in their places.
ShownAsHashed == Signed => WasShown(reply.over, reply.seen)
=============================================================================
