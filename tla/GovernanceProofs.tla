-------------------------- MODULE GovernanceProofs --------------------------
(***************************************************************************)
(* The governance app signs whole, counted updates and shows what it       *)
(* hashes.  The proof rests on one inductive invariant, IInv: until the    *)
(* signature is asked for, the memory of the current instruction's context *)
(* agrees with the reading of what has been hashed (KindInv, one form for  *)
(* each kind of update); from then on the hash is a complete update.       *)
(***************************************************************************)
EXTENDS Governance, SequenceTheorems, TLAPS

TransactionProofs == INSTANCE ReadingProofs WITH Nothing <- Unread, Read <- ReadItem
ParamsProofs      == INSTANCE ReadingProofs WITH Nothing <- 0, Read <- CountParams

-----------------------------------------------------------------------------
(***************************************************************************)
(* The invariant.                                                          *)
(***************************************************************************)
\* The items a hash is made of, and the dialogs that show one.
ItemNames ==
  MultiCommand \cup
  {"keyUpdateType", "keys", "key", "threshold", "version", "size", "index", "payloadLength",
   "textLength", "text", "verifyKey", "cdiVerifyKey", "publicKey", "specificationHash",
   "auxiliary", "token", "paramsLength", "params", "passive", "minimal", "maximal", "equity",
   "capitalBound", "leverageBound", "part of a command", "final"}
Items == [item : ItemNames, n : Nat]
Displayed == [under : Nat, what : Items]

\* The screens on which no dialog waits, and the dialogs each instruction shows.
Quiet == {"idle", "frozen", "loading"}

Dialogs(i) ==
  CASE i \in HigherLevel -> {"review", "key", "sign"}
    [] i \in Authorizing -> {"review", "key", "index", "threshold", "sign"}
    [] i \in Described   -> {"start", "description", "verifyKeyHash", "sign"}
    [] i = Protocol      -> {"message", "url", "specificationHash", "sign"}
    [] i = CreatePlt     -> {"sign"}
    [] i = Pool          -> {"poolRates", "sign"}

\* A dialog on the screen is one of the current instruction's; it alone owes an answer.
DeviceInv ==
  /\ currentInstruction \in MultiCommand \cup {None}
  /\ owed \in BOOLEAN
  /\ ~owed => screen \in Quiet
  /\ \/ screen \in Quiet
     \/ currentInstruction \in MultiCommand /\ screen \in Dialogs(currentInstruction)

\* The members of the context's union, each with what its instructions leave in it.
KeyTexts ==
  {"Root w. root keys", "Level 1 w. root keys", "Level 1 w. level 1 keys", "whatever lies there"}

KeyContexts == [of : HigherLevel, state : {"KEY", "THRESHOLD"}, type : KeyTexts, left : 0..MaxKeys]

AuthorizationContexts ==
  {c \in [of : Authorizing, state : {"KEY", "SIZE", "INDEX", "THRESHOLD"}, left : 0..MaxKeys,
          version : Versions, structure : Nat, size : 0..MaxStructure, processed : 0..MaxBatch,
          pointer : 1..(MaxBatch + 1), buffer : [1..MaxBatch -> Nat]] :
     c.structure <= AuthorizationEnd[c.version] /\ c.pointer + c.processed <= MaxBatch + 1}

DescribedContexts ==
  [of : Described, part : 0..2, text : 0..MaxText, verifyKey : 0..(Word - 1), payload : 0..(Word - 1),
   state : {"DESCRIPTION_LENGTH", "DESCRIPTION", "VERIFY_KEY", "CDI_VERIFY_KEY", "PUBLIC_KEY"}]

ProtocolContexts ==
  [of : {Protocol}, part : 0..2, text : 0..(Word - 1), payload : 0..(Word - 1),
   state : {"TEXT_LENGTH", "TEXT", "SPECIFICATION_HASH", "AUXILIARY_DATA"}]

PltContexts ==
  {c \in [of : {CreatePlt}, state : {"PAYLOAD", "INIT_PARAMS"}, length : 0..MaxParams,
          remaining : 0..MaxParams, initParams : [1..Buffer -> Nat]] : c.remaining <= c.length}

PoolContexts == [of : {Pool}, state : {"RANGES", "EQUITY"}, shared : {"passive", "maximal"}]

ContextInv ==
  \/ ctx = NoContext
  \/ ctx \in KeyContexts
  \/ ctx \in AuthorizationContexts
  \/ ctx \in DescribedContexts
  \/ ctx \in ProtocolContexts
  \/ ctx \in PltContexts
  \/ ctx \in PoolContexts

\* A hash begins with the kind of update that is signed.
HashInv ==
  currentInstruction # None =>
    hash \in Seq(Items) /\ Len(hash) >= 1 /\ hash[1] = Named(currentInstruction)

\* Root and level 1 keys: the keys still to come are those the hash announces.
KeysInv(i, k) ==
  /\ ctx \in KeyContexts /\ ctx.of = i
  /\ Len(hash) >= 2
  /\ \E t \in {0, 1} :
       /\ hash[2] = Item("keyUpdateType", t)
       /\ ~(i = Level1Keys /\ t = 1) => ctx.type = TypeText(i, t)
  /\ k.skeleton = <<i, "keyUpdateType", "keys">>
  /\ k.whole /\ k.of = "key" /\ k.left = ctx.left
  /\ ctx.state = "THRESHOLD" => ctx.left = 0
  /\ seen = <<Shown(0, Named(ctx.type))>> \o k.shown

\* Level 2 keys: as above, with the index batch the handler has hashed and not yet
\* shown, which Pending adds to what has been seen.
Heading(i) == <<i, "version", "keys">>
Pending(c) ==
  [k \in 1..c.processed |-> Shown(c.structure + 1, Item("index", c.buffer[c.pointer + k - 1]))]

AuthorizationsInv(i, k) ==
  /\ ctx \in AuthorizationContexts /\ ctx.of = i
  /\ ctx.structure < AuthorizationEnd[ctx.version]
  /\ Len(hash) >= 2 /\ hash[2] = Item("version", ctx.version)
  /\ ctx.processed # 0 => screen = "index"
  /\ screen = "index" => ctx.state = "INDEX"
  /\ screen = "threshold" => ctx.state = "THRESHOLD"
  /\ k.whole
  /\ ctx.state = "KEY" => ctx.structure = 0 /\ k.of = "key" /\ k.left = ctx.left
  /\ ctx.state \in {"SIZE", "THRESHOLD"} => k.left = 0
  /\ ctx.state = "INDEX" => k.of = "index" /\ k.left = ctx.size - ctx.processed
  /\ k.section = IF ctx.state \in {"KEY", "SIZE"} THEN ctx.structure ELSE ctx.structure + 1
  /\ k.skeleton =
       IF screen = "threshold" THEN Heading(i) \o Structures(ctx.structure + 1)
       ELSE IF ctx.state \in {"KEY", "SIZE"} THEN Heading(i) \o Structures(ctx.structure)
       ELSE Append(Heading(i) \o Structures(ctx.structure), "size")
  /\ seen \in Seq(Displayed) /\ seen \o Pending(ctx) = <<Shown(0, Named(i))>> \o k.shown

\* Described updates and the protocol update: the bytes read and the payload left are,
\* modulo the width of the counter, the payload announced.
AnnouncesPayload(h) == Len(h) >= 2 /\ \E p \in 0..MaxPayload : h[2] = Item("payloadLength", p)

PartsRead ==
  IF ctx.state = "DESCRIPTION_LENGTH" /\ screen # "description" THEN ctx.part ELSE ctx.part + 1

DescribedInv(i, k) ==
  /\ ctx \in DescribedContexts /\ ctx.of = i
  /\ AnnouncesPayload(hash)
  /\ k.whole /\ k.left = ctx.text
  /\ IF ctx.state = "DESCRIPTION" THEN ctx.text > 0 /\ k.of = "text" ELSE ctx.text = 0
  /\ ctx.state = "DESCRIPTION_LENGTH" /\ screen = "description" => ctx.part < 2
  /\ ctx.state \in {"VERIFY_KEY", "CDI_VERIFY_KEY", "PUBLIC_KEY"} => ctx.part = 2
  /\ k.skeleton = <<i, "payloadLength">> \o Texts(PartsRead)
  /\ k.section = PartsRead
  /\ seen = <<Shown(0, Named(i))>> \o k.shown
  /\ i = AddProvider => (k.bytes + ctx.payload) % Word = hash[2].n

TextsRead ==
  IF ctx.state = "TEXT" \/ screen \in {"message", "url"} THEN ctx.part + 1 ELSE ctx.part

WholeTexts(k) ==
  /\ ctx.state # "TEXT" => ctx.text = 0
  /\ ctx.state \in {"SPECIFICATION_HASH", "AUXILIARY_DATA"} => TextsRead = 2
  /\ k.section = TextsRead
  /\ k.skeleton =
       IF ctx.state = "AUXILIARY_DATA"
         THEN Append(<<Protocol, "payloadLength">> \o Texts(TextsRead), "specificationHash")
         ELSE <<Protocol, "payloadLength">> \o Texts(TextsRead)
  /\ seen = k.shown

ProtocolInv(k) ==
  /\ ctx \in ProtocolContexts
  /\ AnnouncesPayload(hash)
  /\ (k.bytes + ctx.payload) % Word = hash[2].n
  /\ ctx.state \in {"TEXT_LENGTH", "TEXT"} => ctx.part < 2
  /\ screen = "message" => ctx.state = "TEXT_LENGTH" /\ ctx.part = 0
  /\ screen = "url" => ctx.state = "SPECIFICATION_HASH" /\ ctx.part = 1
  /\ screen = "specificationHash" => ctx.state = "AUXILIARY_DATA"
  /\ ctx.state = "TEXT" => k.of = "text" /\ k.left = ctx.text
  /\ k.whole /\ (ctx.state = "TEXT" \/ k.left = 0) => WholeTexts(k)

\* The creation of a token: the buffer holds the parameters hashed so far that fit.
PltInv(k) ==
  /\ ctx \in PltContexts
  /\ k.whole /\ k.left = ctx.remaining
  /\ Params!After(hash) = ctx.length - ctx.remaining
  /\ IF ctx.state = "PAYLOAD"
       THEN Len(hash) = 1 /\ ctx.length = 0 /\ k.skeleton = <<CreatePlt>>
       ELSE /\ k.of = "params" /\ k.skeleton = <<CreatePlt, "token", "paramsLength">>
            /\ Len(hash) >= 3 /\ hash[3] = Item("paramsLength", ctx.length)
  /\ \A b \in 1..Buffer : b <= ctx.length - ctx.remaining => ctx.initParams[b] = b

PoolInv(k) ==
  /\ ctx \in PoolContexts
  /\ k.whole /\ k.left = 0
  /\ k.skeleton = IF ctx.state = "RANGES" THEN <<Pool, "passive">>
                  ELSE <<Pool, "passive", "minimal", "maximal">>

\* The agreement of the context with the hash, for the instruction in progress.
KindInv(i) ==
  LET k == Known(hash) IN
  /\ i \in HigherLevel => KeysInv(i, k)
  /\ i \in Authorizing => AuthorizationsInv(i, k)
  /\ i \in Described   => DescribedInv(i, k)
  /\ i = Protocol      => ProtocolInv(k)
  /\ i = CreatePlt     => PltInv(k)
  /\ i = Pool          => PoolInv(k)

ProgressInv == currentInstruction # None /\ screen # "sign" => KindInv(currentInstruction)

\* A hash that may be signed after these dialogs.  A protocol update is excepted from
\* IsWhole: its handler leaves a text after one command, whatever length it announced.
Complete(h, dialogs) ==
  /\ IsOneUpdate(h)
  /\ KindOf(h) # Protocol => IsWhole(h)
  /\ IsCounted(h)
  /\ WasShown(h, dialogs)

SignInv  == screen = "sign" => Complete(hash, seen)
ReplyInv == Signed => Complete(reply.over, reply.seen)

IInv == DeviceInv /\ ContextInv /\ HashInv /\ ProgressInv /\ SignInv /\ ReplyInv

-----------------------------------------------------------------------------
(***************************************************************************)
(* The constants and the names.                                            *)
(***************************************************************************)
LEMMA Constants ==
  /\ MaxPayload \in Nat /\ MaxText \in Nat /\ MaxChunk \in Nat \ {0} /\ MaxParams \in Nat
  /\ Word \in Nat \ {0} /\ MaxPayload < Word /\ MaxText < Word /\ MaxChunk < Word /\ MaxParams < Word
  /\ MaxKeys \in Nat /\ MaxStructure \in Nat /\ MaxBatch \in Nat \ {0} /\ Buffer \in Nat \ {0}
  /\ KeyIndices \subseteq Nat /\ Versions \subseteq Nat
  /\ \A v \in Versions : AuthorizationEnd[v] \in Nat \ {0}
  /\ None \notin MultiCommand /\ Other \notin MultiCommand
  /\ KeepsStep = {FALSE}
  <1>1. Other \notin MultiCommand
    BY DEF MultiCommand, HigherLevel, Authorizing, Described, Other, RootKeys, Level1Keys,
           Level2ByRoot, Level2ByLevel1, AddProvider, AddRevoker, Protocol, CreatePlt, Pool
  <1>2. None \notin MultiCommand
    BY NoneIsNoInstruction
  <1>3. /\ MaxPayload \in Nat /\ MaxText \in Nat /\ MaxChunk \in Nat \ {0} /\ KeepsStep = {FALSE}
        /\ Word \in Nat \ {0} /\ MaxPayload < Word /\ MaxText < Word /\ MaxChunk < Word
    BY UpdateAssumption
  <1>4. MaxParams \in Nat /\ MaxParams < Word /\ Buffer \in Nat \ {0}
    BY PayloadAssumption, <1>3
  <1>5. /\ MaxKeys \in Nat /\ MaxStructure \in Nat /\ MaxBatch \in Nat \ {0}
        /\ KeyIndices \subseteq Nat /\ Versions \subseteq Nat
        /\ \A v \in Versions : AuthorizationEnd[v] \in Nat \ {0}
    BY KeyAssumption DEF Versions
  <1>6. QED
    BY <1>1, <1>2, <1>3, <1>4, <1>5

(***************************************************************************)
(* An unsigned counter.                                                    *)
(***************************************************************************)
LEMMA Remains == ASSUME NEW x \in 0..(Word - 1) PROVE x % Word = x
  BY Constants

LEMMA Wraps == ASSUME NEW x \in Nat PROVE (x + Word) % Word = x % Word
  <1> DEFINE d == x \div Word            r == x % Word
             e == (x + Word) \div Word   s == (x + Word) % Word
  <1>1. Word \in Nat \ {0} /\ x + Word \in Nat
    BY Constants
  <1>2. /\ d \in Int /\ r \in 0..(Word - 1) /\ x = Word * d + r
        /\ e \in Int /\ s \in 0..(Word - 1) /\ x + Word = Word * e + s
    BY <1>1
  <1> HIDE DEF d, r, e, s
  <1> DEFINE k == e - d - 1
  <1>3. k \in Int /\ Word * k = r - s
    BY <1>1, <1>2
  <1> HIDE DEF k
  <1>4. k = 0
    <2>1. \A i \in Nat : Word * i >= 0
      BY <1>1
    <2>2. Word * (-k - 1) = -(Word * k) - Word /\ Word * (k - 1) = (Word * k) - Word /\ Word * k \in Int
      BY <1>1, <1>3
    <2>3. Word * k > -Word /\ Word * k < Word
      BY <1>1, <1>2, <1>3
    <2>4. k < 0 => Word * k <= -Word
      BY <1>1, <1>3, <2>1, <2>2
    <2>5. k > 0 => Word * k >= Word
      BY <1>1, <1>3, <2>1, <2>2
    <2>6. QED
      BY <1>1, <1>3, <2>2, <2>3, <2>4, <2>5
  <1>5. r = s
    BY <1>1, <1>2, <1>3, <1>4
  <1>6. QED
    BY <1>5 DEF r, s

LEMMA MinusIs ==
  ASSUME NEW c \in 0..(Word - 1), NEW n \in 0..(Word - 1)
  PROVE  Minus(c, n) = IF n <= c THEN c - n ELSE c + Word - n
  <1>1. Word \in Nat \ {0} /\ n % Word = n
    BY Constants, Remains
  <1>2. CASE n <= c
    <2>1. c - n \in 0..(Word - 1) /\ c + Word - n = (c - n) + Word
      BY <1>1, <1>2
    <2>2. ((c - n) + Word) % Word = c - n
      BY <1>1, <2>1, Wraps, Remains, SMTT(40)
    <2>3. QED
      BY <1>1, <1>2, <2>1, <2>2 DEF Minus
  <1>3. CASE n > c
    <2>1. c + Word - n \in 0..(Word - 1)
      BY <1>1, <1>3
    <2>2. QED
      BY <1>1, <1>3, <2>1, Remains DEF Minus
  <1>4. QED
    BY <1>2, <1>3

\* Counting bytes down here and up there keeps the sum, modulo the word.
LEMMA MinusCounts ==
  ASSUME NEW b \in Nat, NEW c \in 0..(Word - 1), NEW n \in 0..(Word - 1)
  PROVE  /\ Minus(c, n) \in 0..(Word - 1)
         /\ ((b + n) + Minus(c, n)) % Word = (b + c) % Word
  <1>1. Word \in Nat \ {0}
    BY Constants
  <1>2. CASE n <= c
    <2>1. Minus(c, n) = c - n /\ c - n \in 0..(Word - 1)
      BY <1>1, <1>2, MinusIs
    <2>2. (b + n) + (c - n) = b + c
      BY <1>1
    <2>3. QED
      BY <2>1, <2>2
  <1>3. CASE n > c
    <2>1. Minus(c, n) = c + Word - n /\ c + Word - n \in 0..(Word - 1)
      BY <1>1, <1>3, MinusIs
    <2>2. (b + n) + (c + Word - n) = (b + c) + Word /\ b + c \in Nat
      BY <1>1
    <2>3. QED
      BY <2>1, <2>2, Wraps
  <1>4. QED
    BY <1>2, <1>3

(***************************************************************************)
(* The reading of a transaction.                                           *)
(***************************************************************************)
Knowledge ==
  [skeleton : Seq(ItemNames), of : Announced \cup {"nothing"}, left : Int, whole : BOOLEAN,
   bytes : Nat, section : Nat, shown : Seq(Displayed)]

LEMMA NameOfItem == \A it \in Items : it.item \in ItemNames /\ it.n \in Nat
  BY DEF Items

LEMMA ReadInKnowledge == \A r \in Knowledge : \A it \in Items : ReadItem(r, it) \in Knowledge
  <1> SUFFICES ASSUME NEW r \in Knowledge, NEW it \in Items PROVE ReadItem(r, it) \in Knowledge
    OBVIOUS
  <1> DEFINE q == ReadItem(r, it)
  <1>1. it.item \in ItemNames /\ it.n \in Nat
    BY NameOfItem
  <1>2. /\ r.skeleton \in Seq(ItemNames) /\ r.of \in Announced \cup {"nothing"} /\ r.left \in Int
        /\ r.whole \in BOOLEAN /\ r.bytes \in Nat /\ r.section \in Nat /\ r.shown \in Seq(Displayed)
    BY DEF Knowledge
  <1>3. q.skeleton \in Seq(ItemNames)
    BY <1>1, <1>2, AppendProperties DEF ReadItem
  <1>4. q.of \in Announced \cup {"nothing"}
    BY <1>2 DEF ReadItem, AnnouncedBy, Announced
  <1>5. q.left \in Int
    <2>1. Weight(it) \in Nat
      BY <1>1 DEF Weight
    <2>2. QED
      BY <1>1, <1>2, <2>1 DEF ReadItem
  <1>6. q.whole \in BOOLEAN
    BY <1>2 DEF ReadItem
  <1>7. q.bytes \in Nat
    <2>1. InPayload(it) \in Nat
      BY <1>1 DEF InPayload, Field
    <2>2. QED
      BY <1>2, <2>1 DEF ReadItem
  <1>8. q.section \in Nat
    BY <1>2 DEF ReadItem
  <1>9. q.shown \in Seq(Displayed)
    <2>1. Shown(r.section, it) \in Displayed /\ Shown(0, it) \in Displayed
      BY <1>2 DEF Shown, Displayed
    <2>2. Append(r.shown, Shown(r.section, it)) \in Seq(Displayed) /\ Append(r.shown, Shown(0, it)) \in Seq(Displayed)
      BY <1>2, <2>1, AppendProperties
    <2>3. QED
      BY <1>2, <2>2 DEF ReadItem
  <1>10. q = [skeleton |-> q.skeleton, of |-> q.of, left |-> q.left, whole |-> q.whole,
              bytes |-> q.bytes, section |-> q.section, shown |-> q.shown]
    BY DEF ReadItem
  <1> HIDE DEF q
  <1>11. q \in Knowledge
    BY <1>3, <1>4, <1>5, <1>6, <1>7, <1>8, <1>9, <1>10 DEF Knowledge
  <1>12. QED
    BY <1>11 DEF q

LEMMA UnreadInKnowledge == Unread \in Knowledge
  <1>1. <<>> \in Seq(ItemNames) /\ <<>> \in Seq(Displayed)
    BY EmptySeq
  <1>2. QED
    BY <1>1 DEF Unread, Knowledge

LEMMA KnownIs == \A h : Known(h) = TransactionProofs!After(h)
  BY DEF Known, Transaction!After, Transaction!Readings, TransactionProofs!After,
         TransactionProofs!Readings

LEMMA ParamsIs == \A h : Params!After(h) = ParamsProofs!After(h)
  BY DEF Params!After, Params!Readings, ParamsProofs!After, ParamsProofs!Readings

LEMMA KnownType == ASSUME NEW h \in Seq(Items) PROVE Known(h) \in Knowledge
  BY KnownIs, UnreadInKnowledge, ReadInKnowledge, TransactionProofs!AfterIn

LEMMA ItemInItems == \A name \in ItemNames, n \in Nat : Item(name, n) \in Items
  BY DEF Item, Items

LEMMA NamedInItems == \A name \in ItemNames : Named(name) \in Items
  BY ItemInItems DEF Named

LEMMA KindsAreNames == MultiCommand \subseteq ItemNames
  BY DEF ItemNames

LEMMA OneMore ==
  ASSUME NEW h \in Seq(Items), NEW x \in Items, NEW g, g = Append(h, x)
  PROVE  /\ g \in Seq(Items) /\ Len(g) = Len(h) + 1
         /\ \A k \in 1..Len(h) : g[k] = h[k]
         /\ g[Len(h) + 1] = x
         /\ Known(g) = ReadItem(Known(h), x)
         /\ Params!After(g) = CountParams(Params!After(h), x)
  <1>1. /\ g \in Seq(Items) /\ Len(g) = Len(h) + 1 /\ \A k \in 1..Len(h) : g[k] = h[k]
        /\ g[Len(h) + 1] = x
    BY AppendProperties
  <1>2. Known(g) = ReadItem(Known(h), x)
    BY KnownIs, TransactionProofs!AfterAppend
  <1>3. Params!After(g) = CountParams(Params!After(h), x)
    BY ParamsIs, ParamsProofs!AfterAppend
  <1>4. QED
    BY <1>1, <1>2, <1>3

(***************************************************************************)
(* Tuples written out, one element more.                                   *)
(***************************************************************************)
LEMMA Longer ==
  ASSUME NEW S, NEW c \in Seq(S), NEW n \in Nat, Len(c) = n, NEW e \in S, NEW p, p = Append(c, e)
  PROVE  p \in Seq(S) /\ Len(p) = n + 1 /\ p[n + 1] = e /\ \A k \in 1..n : p[k] = c[k]
  BY AppendProperties

LEMMA Triple ==
  ASSUME NEW u, NEW v, NEW w
  PROVE  Append(<<u, v>>, w) = <<u, v, w>>
  <1> DEFINE c == <<u, v>>   p == Append(c, w)   q == <<u, v, w>>   S == {u, v, w}
  <1>1. c \in Seq(S) /\ Len(c) = 2 /\ c[1] = u /\ c[2] = v
    OBVIOUS
  <1>2. q \in Seq(S) /\ Len(q) = 3 /\ q[1] = u /\ q[2] = v /\ q[3] = w
    OBVIOUS
  <1>3. p = Append(c, w) /\ w \in S
    OBVIOUS
  <1> HIDE DEF c, p, q, S
  <1>4. p \in Seq(S) /\ Len(p) = 2 + 1 /\ p[2 + 1] = w /\ \A k \in 1..2 : p[k] = c[k]
    BY <1>1, <1>3, Longer
  <1>5. p[1] = u /\ p[2] = v /\ p[3] = w
    BY <1>1, <1>4
  <1>6. \A k \in 1..Len(p) : p[k] = q[k]
    BY <1>2, <1>4, <1>5
  <1>7. p = q
    BY <1>2, <1>4, <1>6, SeqEqual
  <1>8. QED
    BY <1>7 DEF p, q, c

LEMMA FourTuple ==
  ASSUME NEW u, NEW v, NEW w, NEW x
  PROVE  Append(<<u, v, w>>, x) = <<u, v, w, x>>
  <1> DEFINE c == <<u, v, w>>   p == Append(c, x)   q == <<u, v, w, x>>   S == {u, v, w, x}
  <1>1. c \in Seq(S) /\ Len(c) = 3 /\ c[1] = u /\ c[2] = v /\ c[3] = w
    OBVIOUS
  <1>2. q \in Seq(S) /\ Len(q) = 4 /\ q[1] = u /\ q[2] = v /\ q[3] = w /\ q[4] = x
    OBVIOUS
  <1>3. p = Append(c, x) /\ x \in S
    OBVIOUS
  <1> HIDE DEF c, p, q, S
  <1>4. p \in Seq(S) /\ Len(p) = 3 + 1 /\ p[3 + 1] = x /\ \A k \in 1..3 : p[k] = c[k]
    BY <1>1, <1>3, Longer
  <1>5. p[1] = u /\ p[2] = v /\ p[3] = w /\ p[4] = x
    BY <1>1, <1>4
  <1>6. \A k \in 1..Len(p) : p[k] = q[k]
    BY <1>2, <1>4, <1>5
  <1>7. p = q
    BY <1>2, <1>4, <1>6, SeqEqual
  <1>8. QED
    BY <1>7 DEF p, q, c

LEMMA FiveTuple ==
  ASSUME NEW u, NEW v, NEW w, NEW x, NEW y
  PROVE  Append(<<u, v, w, x>>, y) = <<u, v, w, x, y>>
  <1> DEFINE c == <<u, v, w, x>>   p == Append(c, y)   q == <<u, v, w, x, y>>   S == {u, v, w, x, y}
  <1>1. c \in Seq(S) /\ Len(c) = 4 /\ c[1] = u /\ c[2] = v /\ c[3] = w /\ c[4] = x
    OBVIOUS
  <1>2. q \in Seq(S) /\ Len(q) = 5 /\ q[1] = u /\ q[2] = v /\ q[3] = w /\ q[4] = x /\ q[5] = y
    OBVIOUS
  <1>3. p = Append(c, y) /\ y \in S
    OBVIOUS
  <1> HIDE DEF c, p, q, S
  <1>4. p \in Seq(S) /\ Len(p) = 4 + 1 /\ p[4 + 1] = y /\ \A k \in 1..4 : p[k] = c[k]
    BY <1>1, <1>3, Longer
  <1>5. p[1] = u /\ p[2] = v /\ p[3] = w /\ p[4] = x /\ p[5] = y
    BY <1>1, <1>4
  <1>6. \A k \in 1..Len(p) : p[k] = q[k]
    BY <1>2, <1>4, <1>5
  <1>7. p = q
    BY <1>2, <1>4, <1>6, SeqEqual
  <1>8. QED
    BY <1>7 DEF p, q, c

LEMMA SixTuple ==
  ASSUME NEW u, NEW v, NEW w, NEW x, NEW y, NEW z
  PROVE  Append(<<u, v, w, x, y>>, z) = <<u, v, w, x, y, z>>
  <1> DEFINE c == <<u, v, w, x, y>>   p == Append(c, z)   q == <<u, v, w, x, y, z>>   S == {u, v, w, x, y, z}
  <1>1. c \in Seq(S) /\ Len(c) = 5 /\ c[1] = u /\ c[2] = v /\ c[3] = w /\ c[4] = x /\ c[5] = y
    OBVIOUS
  <1>2. q \in Seq(S) /\ Len(q) = 6 /\ q[1] = u /\ q[2] = v /\ q[3] = w /\ q[4] = x /\ q[5] = y /\ q[6] = z
    OBVIOUS
  <1>3. p = Append(c, z) /\ z \in S
    OBVIOUS
  <1> HIDE DEF c, p, q, S
  <1>4. p \in Seq(S) /\ Len(p) = 5 + 1 /\ p[5 + 1] = z /\ \A k \in 1..5 : p[k] = c[k]
    BY <1>1, <1>3, Longer
  <1>5. p[1] = u /\ p[2] = v /\ p[3] = w /\ p[4] = x /\ p[5] = y /\ p[6] = z
    BY <1>1, <1>4
  <1>6. \A k \in 1..Len(p) : p[k] = q[k]
    BY <1>2, <1>4, <1>5
  <1>7. p = q
    BY <1>2, <1>4, <1>6, SeqEqual
  <1>8. QED
    BY <1>7 DEF p, q, c

LEMMA SevenTuple ==
  ASSUME NEW u, NEW v, NEW w, NEW x, NEW y, NEW z, NEW a
  PROVE  Append(<<u, v, w, x, y, z>>, a) = <<u, v, w, x, y, z, a>>
  <1> DEFINE c == <<u, v, w, x, y, z>>   p == Append(c, a)   q == <<u, v, w, x, y, z, a>>   S == {u, v, w, x, y, z, a}
  <1>1. c \in Seq(S) /\ Len(c) = 6 /\ c[1] = u /\ c[2] = v /\ c[3] = w /\ c[4] = x /\ c[5] = y /\ c[6] = z
    OBVIOUS
  <1>2. q \in Seq(S) /\ Len(q) = 7 /\ q[1] = u /\ q[2] = v /\ q[3] = w /\ q[4] = x /\ q[5] = y /\ q[6] = z /\ q[7] = a
    OBVIOUS
  <1>3. p = Append(c, a) /\ a \in S
    OBVIOUS
  <1> HIDE DEF c, p, q, S
  <1>4. p \in Seq(S) /\ Len(p) = 6 + 1 /\ p[6 + 1] = a /\ \A k \in 1..6 : p[k] = c[k]
    BY <1>1, <1>3, Longer, SMTT(40)
  <1>5. p[1] = u /\ p[2] = v /\ p[3] = w /\ p[4] = x /\ p[5] = y /\ p[6] = z /\ p[7] = a
    BY <1>1, <1>4
  <1>6. \A k \in 1..Len(p) : p[k] = q[k]
    BY <1>2, <1>4, <1>5
  <1>7. p = q
    BY <1>2, <1>4, <1>6, SeqEqual
  <1>8. QED
    BY <1>7 DEF p, q, c


LEMMA Pair == ASSUME NEW x, NEW y PROVE Append(<<x>>, y) = <<x, y>>
  <1> DEFINE a == Append(<<x>>, y)   b == <<x, y>>   S == {x, y}
  <1>1. /\ <<x>> \in Seq(S) /\ Len(<<x>>) = 1 /\ <<x>>[1] = x
        /\ b \in Seq(S) /\ Len(b) = 2 /\ b[1] = x /\ b[2] = y /\ y \in S
    OBVIOUS
  <1>2. a \in Seq(S) /\ Len(a) = 2 /\ a[1] = x /\ a[2] = y
    BY <1>1, AppendProperties
  <1> HIDE DEF a, b, S
  <1>3. \A k \in 1..Len(a) : a[k] = b[k]
    BY <1>1, <1>2
  <1>4. a = b
    BY <1>1, <1>2, <1>3, SeqEqual
  <1>5. QED
    BY <1>4 DEF a, b

LEMMA TwoMore ==
  ASSUME NEW h \in Seq(Items), NEW x \in Items, NEW y \in Items
  PROVE  h \o <<x, y>> = Append(Append(h, x), y)
  <1>1. <<x>> \in Seq(Items) /\ <<y>> \in Seq(Items) /\ Append(h, x) \in Seq(Items)
    BY AppendProperties
  <1>2. <<x, y>> = <<x>> \o <<y>>
    BY <1>1, Pair, AppendIsConcat
  <1>3. h \o <<x, y>> = (h \o <<x>>) \o <<y>>
    BY <1>1, <1>2, ConcatAssociative
  <1>4. h \o <<x>> = Append(h, x)
    BY AppendIsConcat
  <1>5. Append(h, x) \o <<y>> = Append(Append(h, x), y)
    BY <1>1, AppendIsConcat
  <1>6. QED
    BY <1>3, <1>4, <1>5

LEMMA ThreeMore ==
  ASSUME NEW h \in Seq(Items), NEW x \in Items, NEW y \in Items, NEW z \in Items
  PROVE  h \o <<x, y, z>> = Append(Append(Append(h, x), y), z)
  <1>1. <<x, y>> \in Seq(Items) /\ <<z>> \in Seq(Items) /\ <<x, y, z>> = <<x, y>> \o <<z>>
    OBVIOUS
  <1>2. h \o <<x, y, z>> = (h \o <<x, y>>) \o <<z>>
    BY <1>1, ConcatAssociative, SMTT(40)
  <1>3. h \o <<x, y>> = Append(Append(h, x), y) /\ h \o <<x, y>> \in Seq(Items)
    BY <1>1, TwoMore, ConcatProperties
  <1>4. (h \o <<x, y>>) \o <<z>> = Append(h \o <<x, y>>, z)
    BY <1>1, <1>3, AppendIsConcat
  <1>5. QED
    BY <1>2, <1>3, <1>4

LEMMA FirstItem ==
  ASSUME NEW x \in Items
  PROVE  /\ <<x>> \in Seq(Items) /\ Len(<<x>>) = 1 /\ <<x>>[1] = x
         /\ Known(<<x>>) = ReadItem(Unread, x)
         /\ Params!After(<<x>>) = CountParams(0, x)
  <1>1. <<>> \in Seq(Items) /\ Append(<<>>, x) = <<x>>
    OBVIOUS
  <1>2. Known(<<x>>) = ReadItem(Unread, x)
    BY <1>1, KnownIs, TransactionProofs!AfterEmpty, TransactionProofs!AfterAppend
  <1>3. Params!After(<<x>>) = CountParams(0, x)
    BY <1>1, ParamsIs, ParamsProofs!AfterEmpty, ParamsProofs!AfterAppend
  <1>4. QED
    BY <1>2, <1>3

\* The items of the dialogs behind the first one.
LEMMA BehindTitle ==
  ASSUME NEW title, NEW s \in Seq(Displayed)
  PROVE  /\ Tail(<<title>> \o s) = s /\ (<<title>> \o s)[1] = title
         /\ \A d \in Displayed : Append(<<title>> \o s, d) = <<title>> \o Append(s, d)
         /\ <<title>> \o <<>> = <<title>>
  <1> DEFINE S == Displayed \cup {title}
  <1>1. <<title>> \in Seq(S) /\ s \in Seq(S) /\ Len(<<title>>) = 1 /\ <<title>>[1] = title
    BY SeqMonotonic
  <1>2. /\ <<title>> \o s \in Seq(S) /\ Len(<<title>> \o s) = Len(s) + 1 /\ Len(s) \in Nat
        /\ (<<title>> \o s)[1] = title /\ <<title>> \o s # <<>>
        /\ \A k \in 1..Len(s) : (<<title>> \o s)[k + 1] = s[k]
    <2>1. Len(s) \in Nat
      BY LenProperties
    <2>2. <<title>> \o s \in Seq(S) /\ Len(<<title>> \o s) = Len(s) + 1
      BY <1>1, <2>1, ConcatProperties
    <2>3. \A k \in 1..(1 + Len(s)) :
            (<<title>> \o s)[k] = IF k <= 1 THEN <<title>>[k] ELSE s[k - 1]
      BY <1>1, ConcatProperties
    <2>4. (<<title>> \o s)[1] = title
      BY <1>1, <2>1, <2>3
    <2>5. \A k \in 1..Len(s) : k + 1 \in 1..(1 + Len(s)) /\ ~(k + 1 <= 1) /\ (k + 1) - 1 = k
      BY <2>1
    <2>6. <<title>> \o s # <<>>
      BY <2>1, <2>2, EmptySeq
    <2>7. QED
      BY <2>1, <2>2, <2>3, <2>4, <2>5, <2>6
  <1> HIDE DEF S
  <1>3. Tail(<<title>> \o s) = s
    <2>1. /\ Tail(<<title>> \o s) \in Seq(S) /\ Len(Tail(<<title>> \o s)) = Len(s)
          /\ \A k \in 1..Len(s) : Tail(<<title>> \o s)[k] = s[k]
      BY <1>2, HeadTailProperties
    <2>2. QED
      BY <1>1, <2>1, SeqEqual
  <1>4. \A d \in Displayed : Append(<<title>> \o s, d) = <<title>> \o Append(s, d)
    <2> SUFFICES ASSUME NEW d \in Displayed
                 PROVE  Append(<<title>> \o s, d) = <<title>> \o Append(s, d)
      OBVIOUS
    <2>1. d \in S /\ <<d>> \in Seq(S)
      BY DEF S
    <2>2. Append(<<title>> \o s, d) = (<<title>> \o s) \o <<d>>
      BY <1>2, <2>1, AppendIsConcat
    <2>3. Append(s, d) = s \o <<d>>
      BY AppendIsConcat
    <2>4. QED
      BY <1>1, <2>1, <2>2, <2>3, ConcatAssociative
  <1>5. QED
    BY <1>1, <1>2, <1>3, <1>4, ConcatEmptySeq

-----------------------------------------------------------------------------
(***************************************************************************)
(* The forms a step takes, whatever the instruction.                       *)
(***************************************************************************)
LEMMA Kinds ==
  /\ MultiCommand = HigherLevel \cup Authorizing \cup Described \cup {Protocol, CreatePlt, Pool}
  /\ \A i \in HigherLevel : i \notin Authorizing /\ i \notin Described
                            /\ i # Protocol /\ i # CreatePlt /\ i # Pool
  /\ \A i \in Authorizing : i \notin HigherLevel /\ i \notin Described
                            /\ i # Protocol /\ i # CreatePlt /\ i # Pool
  /\ \A i \in Described : i \notin HigherLevel /\ i \notin Authorizing
                          /\ i # Protocol /\ i # CreatePlt /\ i # Pool
  /\ \A i \in {Protocol, CreatePlt, Pool} :
       i \notin HigherLevel /\ i \notin Authorizing /\ i \notin Described
  /\ Protocol # CreatePlt /\ Protocol # Pool /\ CreatePlt # Pool
  BY DEF MultiCommand, HigherLevel, Authorizing, Described, RootKeys, Level1Keys,
         Level2ByRoot, Level2ByLevel1, AddProvider, AddRevoker, Protocol, CreatePlt, Pool

\* The guards of SkeletonOf exclude each other.
LEMMA KindsApart ==
  /\ \A i \in HigherLevel : i # AddProvider /\ i # AddRevoker
  /\ \A i \in Authorizing : i # AddProvider /\ i # AddRevoker
  /\ \A i \in {Protocol, CreatePlt, Pool} : i # AddProvider /\ i # AddRevoker
  /\ AddProvider # AddRevoker /\ AddProvider \in Described /\ AddRevoker \in Described
  BY DEF HigherLevel, Authorizing, Described, RootKeys, Level1Keys,
         Level2ByRoot, Level2ByLevel1, AddProvider, AddRevoker, Protocol, CreatePlt, Pool

LEMMA SkeletonsAre ==
  ASSUME NEW i, NEW h
  PROVE  /\ i \in HigherLevel => SkeletonOf(i, h) = <<i, "keyUpdateType", "keys", "threshold">>
         /\ i \in Authorizing =>
              SkeletonOf(i, h) = <<i, "version", "keys">> \o Structures(AuthorizationEnd[h[2].n])
         /\ i = AddProvider => SkeletonOf(i, h) = Append(<<i, "payloadLength">> \o Texts(3), "cdiVerifyKey")
         /\ i = AddRevoker => SkeletonOf(i, h) = Append(<<i, "payloadLength">> \o Texts(3), "publicKey")
         /\ i = Protocol =>
              SkeletonOf(i, h) = Append(<<i, "payloadLength">> \o Texts(2), "specificationHash")
         /\ i = CreatePlt => SkeletonOf(i, h) = <<i, "token", "paramsLength">>
         /\ i = Pool => SkeletonOf(i, h) =
              <<i, "passive", "minimal", "maximal", "equity", "capitalBound", "leverageBound">>
  <1>1. ASSUME i \in HigherLevel
        PROVE  SkeletonOf(i, h) = <<i, "keyUpdateType", "keys", "threshold">>
    <2>1. i \notin Authorizing /\ i # AddProvider /\ i # AddRevoker /\ i # Protocol /\ i # CreatePlt /\ i # Pool
      BY <1>1, Kinds, KindsApart
    <2>2. QED
      BY <1>1, <2>1, Zenon DEF SkeletonOf
  <1>2. ASSUME i \in Authorizing
        PROVE  SkeletonOf(i, h) = <<i, "version", "keys">> \o Structures(AuthorizationEnd[h[2].n])
    <2>1. i \notin HigherLevel /\ i # AddProvider /\ i # AddRevoker /\ i # Protocol /\ i # CreatePlt /\ i # Pool
      BY <1>2, Kinds, KindsApart
    <2>2. QED
      BY <1>2, <2>1, Zenon DEF SkeletonOf
  <1>3. ASSUME i = AddProvider
        PROVE  SkeletonOf(i, h) = Append(<<i, "payloadLength">> \o Texts(3), "cdiVerifyKey")
    <2>1. i \notin HigherLevel /\ i \notin Authorizing /\ i # AddRevoker /\ i # Protocol /\ i # CreatePlt /\ i # Pool
      BY <1>3, Kinds, KindsApart
    <2>2. QED
      BY <1>3, <2>1, Zenon DEF SkeletonOf
  <1>4. ASSUME i = AddRevoker
        PROVE  SkeletonOf(i, h) = Append(<<i, "payloadLength">> \o Texts(3), "publicKey")
    <2>1. i \notin HigherLevel /\ i \notin Authorizing /\ i # AddProvider /\ i # Protocol /\ i # CreatePlt /\ i # Pool
      BY <1>4, Kinds, KindsApart
    <2>2. QED
      BY <1>4, <2>1, Zenon DEF SkeletonOf
  <1>5. ASSUME i = Protocol
        PROVE  SkeletonOf(i, h) = Append(<<i, "payloadLength">> \o Texts(2), "specificationHash")
    <2>1. i \notin HigherLevel /\ i \notin Authorizing /\ i # AddProvider /\ i # AddRevoker /\ i # CreatePlt /\ i # Pool
      BY <1>5, Kinds, KindsApart
    <2>2. QED
      BY <1>5, <2>1, Zenon DEF SkeletonOf
  <1>6. ASSUME i = CreatePlt PROVE SkeletonOf(i, h) = <<i, "token", "paramsLength">>
    <2>1. i \notin HigherLevel /\ i \notin Authorizing /\ i # AddProvider /\ i # AddRevoker /\ i # Protocol /\ i # Pool
      BY <1>6, Kinds, KindsApart
    <2>2. QED
      BY <1>6, <2>1, Zenon DEF SkeletonOf
  <1>7. ASSUME i = Pool
        PROVE  SkeletonOf(i, h) =
                 <<i, "passive", "minimal", "maximal", "equity", "capitalBound", "leverageBound">>
    <2>1. i \notin HigherLevel /\ i \notin Authorizing /\ i # AddProvider /\ i # AddRevoker /\ i # Protocol
          /\ i # CreatePlt
      BY <1>7, Kinds, KindsApart
    <2>2. QED
      BY <1>7, <2>1, Zenon DEF SkeletonOf
  <1>8. QED
    BY <1>1, <1>2, <1>3, <1>4, <1>5, <1>6, <1>7

\* The answer of a step that does not sign.
Unsigned == reply' = reply \/ reply' \in {Success, Refusal, Rejection, NoReply}

LEMMA ReplyStays == ASSUME ReplyInv, Unsigned PROVE ReplyInv'
  <1>1. CASE reply' = reply
    BY <1>1 DEF ReplyInv, Signed
  <1>2. CASE reply' \in {Success, Refusal, Rejection, NoReply}
    <2>1. reply'.kind # "signature"
      BY <1>2 DEF Success, Refusal, Rejection, NoReply
    <2>2. QED
      BY <2>1 DEF ReplyInv, Signed
  <1>3. QED
    BY <1>1, <1>2 DEF Unsigned

\* A step that ends the instruction, or leaves none.
LEMMA Ended ==
  ASSUME IInv, currentInstruction' = None, owed' \in BOOLEAN, screen' \in Quiet, ContextInv', Unsigned
  PROVE  IInv'
  <1>1. DeviceInv'
    BY DEF DeviceInv
  <1>2. HashInv' /\ ProgressInv'
    BY DEF HashInv, ProgressInv
  <1>3. SignInv'
    BY DEF SignInv, Quiet
  <1>4. ReplyInv'
    BY ReplyStays DEF IInv
  <1>5. QED
    BY <1>1, <1>2, <1>3, <1>4 DEF IInv

\* The hash of a transaction of instruction i.
HashOf(i, h) == h \in Seq(Items) /\ Len(h) >= 1 /\ h[1] = Named(i)

\* A step that goes on with instruction i.
LEMMA Continued ==
  ASSUME IInv, NEW i \in MultiCommand, currentInstruction' = i, owed' \in BOOLEAN,
         screen' \in Quiet \/ (owed' = TRUE /\ screen' \in Dialogs(i)), screen' # "sign",
         HashOf(i, hash'), KindInv(i)', Unsigned
  PROVE  IInv'
  <1>1. DeviceInv'
    BY DEF DeviceInv
  <1>2. ContextInv'
    BY Kinds DEF ContextInv, KindInv, KeysInv, AuthorizationsInv, DescribedInv, ProtocolInv, PltInv, PoolInv
  <1>3. HashInv'
    BY DEF HashInv, HashOf
  <1>4. ProgressInv' /\ SignInv'
    BY DEF ProgressInv, SignInv
  <1>5. ReplyInv'
    BY ReplyStays DEF IInv
  <1>6. QED
    BY <1>1, <1>2, <1>3, <1>4, <1>5 DEF IInv

\* A step that asks for the signature.
LEMMA Asked ==
  ASSUME IInv, NEW i \in MultiCommand, currentInstruction' = i, owed' = TRUE, screen' = "sign",
         HashOf(i, hash'), ContextInv', Complete(hash', seen'), Unsigned
  PROVE  IInv'
  <1>1. DeviceInv'
    <2>1. "sign" \in Dialogs(i)
      BY Kinds DEF Dialogs
    <2>2. QED
      BY <2>1 DEF DeviceInv
  <1>2. HashInv'
    BY DEF HashInv, HashOf
  <1>3. ProgressInv' /\ SignInv'
    BY DEF ProgressInv, SignInv
  <1>4. ReplyInv'
    BY ReplyStays DEF IInv
  <1>5. QED
    BY <1>1, <1>2, <1>3, <1>4 DEF IInv

\* A later command finds its instruction in progress, and no dialog on display.
LEMMA Found ==
  ASSUME IInv, NEW i \in MultiCommand, NEW s, s # "INITIAL", InTurn(i, s)
  PROVE  /\ currentInstruction = i /\ ctx.state = s /\ owed = FALSE /\ screen \in Quiet
         /\ HashOf(i, hash) /\ KindInv(i) /\ Known(hash) \in Knowledge
  <1>1. currentInstruction = i /\ ctx.state = s /\ ~owed
    BY Constants DEF InTurn, Accepts, foundState, isInitialCall
  <1>2. screen \in Quiet /\ screen # "sign" /\ owed = FALSE
    BY <1>1 DEF IInv, DeviceInv, Quiet
  <1>3. HashOf(i, hash)
    BY <1>1, Constants DEF IInv, HashInv, HashOf
  <1>4. KindInv(i)
    BY <1>1, <1>2, Constants DEF IInv, ProgressInv
  <1>5. Known(hash) \in Knowledge
    BY <1>3, KnownType DEF HashOf
  <1>6. QED
    BY <1>1, <1>2, <1>3, <1>4, <1>5

\* A button's dialog is one of an instruction in progress.
LEMMA OnDisplay ==
  ASSUME IInv, screen \notin Quiet
  PROVE  /\ currentInstruction \in MultiCommand /\ screen \in Dialogs(currentInstruction)
         /\ owed = TRUE /\ HashOf(currentInstruction, hash) /\ Known(hash) \in Knowledge
         /\ screen # "sign" => KindInv(currentInstruction)
  <1>1. currentInstruction \in MultiCommand /\ screen \in Dialogs(currentInstruction) /\ owed = TRUE
    BY DEF IInv, DeviceInv
  <1>2. HashOf(currentInstruction, hash)
    BY <1>1, Constants DEF IInv, HashInv, HashOf
  <1>3. screen # "sign" => KindInv(currentInstruction)
    BY <1>1, Constants DEF IInv, ProgressInv
  <1>4. QED
    BY <1>1, <1>2, <1>3, KnownType DEF HashOf

\* The first command: nothing is in progress.
LEMMA AtFirst ==
  ASSUME IInv, NEW i \in MultiCommand, InTurn(i, "INITIAL")
  PROVE  owed = FALSE /\ screen \in Quiet
  BY DEF IInv, DeviceInv, InTurn, Accepts

(***************************************************************************)
(* The first items of a transaction, and one more.                         *)
(***************************************************************************)
\* What each item adds: a part of the form,
Parts ==
  MultiCommand \cup
  {"keyUpdateType", "threshold", "version", "payloadLength", "cdiVerifyKey", "publicKey", "token",
   "passive", "minimal", "maximal", "equity", "capitalBound", "leverageBound"}

LEMMA PartsApart ==
  /\ Parts \cap {"key", "index", "text", "params", "verifyKey", "auxiliary", "keys", "size",
                 "textLength", "paramsLength", "specificationHash", "nothing"} = {}
  /\ Parts \subseteq ItemNames
  BY DEF Parts, ItemNames, MultiCommand, HigherLevel, Authorizing, Described, RootKeys, Level1Keys,
         Level2ByRoot, Level2ByLevel1, AddProvider, AddRevoker, Protocol, CreatePlt, Pool

LEMMA AnnouncersAre ==
  /\ DOMAIN AnnouncedBy = {"keys", "size", "textLength", "paramsLength"}
  /\ AnnouncedBy["keys"] = "key" /\ AnnouncedBy["size"] = "index"
  /\ AnnouncedBy["textLength"] = "text" /\ AnnouncedBy["paramsLength"] = "params"
  BY DEF AnnouncedBy

LEMMA ReadPart ==
  ASSUME NEW r \in Knowledge, NEW it \in Items, it.item \in Parts,
         NEW q, q = ReadItem(r, it)
  PROVE  /\ q \in Knowledge
         /\ q.skeleton = Append(r.skeleton, it.item) /\ q.of = r.of /\ q.left = r.left
         /\ (q.whole <=> r.whole /\ r.left = 0)
         /\ q.bytes = r.bytes + InPayload(it) /\ q.section = r.section /\ q.shown = r.shown
  <1>1. it.item \notin DOMAIN AnnouncedBy /\ it.item \notin Announced \cup {"verifyKey", "auxiliary"}
        /\ it.item \notin {"size", "textLength", "index", "text", "key", "specificationHash"}
    BY AnnouncersAre, PartsApart DEF Announced
  <1>2. it.item # r.of
    BY <1>1, PartsApart DEF Knowledge, Announced
  <1>3. q \in Knowledge
    BY ReadInKnowledge
  <1>4. QED
    BY <1>1, <1>2, <1>3 DEF ReadItem

\* a number of items to come,
LEMMA ReadNumber ==
  ASSUME NEW r \in Knowledge, NEW it \in Items, it.item \in {"keys", "size", "textLength", "paramsLength"},
         NEW q, q = ReadItem(r, it)
  PROVE  /\ q \in Knowledge
         /\ q.skeleton = Append(r.skeleton, it.item) /\ q.of = AnnouncedBy[it.item] /\ q.left = it.n
         /\ (q.whole <=> r.whole /\ r.left = 0)
         /\ q.bytes = r.bytes + (IF it.item = "textLength" THEN Field ELSE 0)
         /\ q.section = r.section + (IF it.item \in {"size", "textLength"} THEN 1 ELSE 0)
         /\ q.shown = r.shown
  <1>1. it.item \in DOMAIN AnnouncedBy /\ it.item \notin Announced \cup {"verifyKey", "auxiliary"}
        /\ it.item \notin {"index", "text", "key", "specificationHash"}
    BY AnnouncersAre DEF Announced
  <1>2. it.item # r.of
    BY <1>1 DEF Knowledge, Announced
  <1>3. InPayload(it) = IF it.item = "textLength" THEN Field ELSE 0
    BY DEF InPayload, AddProvider
  <1>4. r.section \in Nat /\ r.bytes \in Nat
    BY DEF Knowledge
  <1>5. q.skeleton = Append(r.skeleton, it.item) /\ q.of = AnnouncedBy[it.item] /\ q.left = it.n
    BY <1>1, <1>2 DEF ReadItem
  <1>6. q.bytes = r.bytes + InPayload(it) /\ q.shown = r.shown
    BY <1>1, <1>2 DEF ReadItem
  <1>7. q.section = r.section + (IF it.item \in {"size", "textLength"} THEN 1 ELSE 0)
    BY <1>4 DEF ReadItem
  <1>8. q.whole <=> r.whole /\ r.left = 0
    BY <1>1, <1>2 DEF ReadItem
  <1>9. q \in Knowledge
    BY ReadInKnowledge
  <1>10. QED
    BY <1>3, <1>5, <1>6, <1>7, <1>8, <1>9

\* some of the items announced,
LEMMA ReadSome ==
  ASSUME NEW r \in Knowledge, NEW it \in Items, it.item \in Announced, r.of = it.item,
         NEW q, q = ReadItem(r, it)
  PROVE  /\ q \in Knowledge
         /\ q.skeleton = r.skeleton /\ q.of = r.of /\ q.left = r.left - Weight(it)
         /\ (q.whole <=> r.whole) /\ q.section = r.section
         /\ q.bytes = r.bytes + (IF it.item = "text" THEN it.n ELSE 0)
         /\ q.shown = IF it.item = "params" THEN r.shown
                      ELSE Append(r.shown, Shown(IF it.item = "key" THEN 0 ELSE r.section, it))
  <1>1. it.item \notin DOMAIN AnnouncedBy /\ it.item \in Announced \cup {"verifyKey", "auxiliary"}
        /\ it.item \notin {"size", "textLength"}
    BY AnnouncersAre DEF Announced
  <1>2. InPayload(it) = IF it.item = "text" THEN it.n ELSE 0
    BY DEF InPayload, AddProvider, Announced
  <1>3. r.whole \in BOOLEAN
    BY DEF Knowledge
  <1>4. q \in Knowledge
    BY ReadInKnowledge
  <1>5. QED
    BY <1>1, <1>2, <1>3, <1>4 DEF ReadItem, Announced

\* bytes nothing announces,
LEMMA ReadBytes ==
  ASSUME NEW r \in Knowledge, NEW it \in Items, it.item \in {"verifyKey", "auxiliary"},
         NEW q, q = ReadItem(r, it)
  PROVE  /\ q \in Knowledge
         /\ q.skeleton = r.skeleton /\ q.of = r.of /\ q.left = r.left
         /\ (q.whole <=> r.whole /\ r.left = 0)
         /\ q.bytes = r.bytes + it.n /\ q.section = r.section /\ q.shown = r.shown
  <1>1. it.item \notin DOMAIN AnnouncedBy /\ it.item \notin Announced
        /\ it.item \notin {"size", "textLength", "index", "text", "key", "specificationHash"}
    BY AnnouncersAre DEF Announced
  <1>2. it.item # r.of
    BY <1>1 DEF Knowledge, Announced
  <1>3. InPayload(it) = it.n
    BY DEF InPayload, AddProvider
  <1>4. q \in Knowledge
    BY ReadInKnowledge
  <1>5. QED
    BY <1>1, <1>2, <1>3, <1>4 DEF ReadItem

\* and a part that is shown.
LEMMA ReadSpecificationHash ==
  ASSUME NEW r \in Knowledge, NEW it \in Items, it.item = "specificationHash",
         NEW q, q = ReadItem(r, it)
  PROVE  /\ q \in Knowledge
         /\ q.skeleton = Append(r.skeleton, it.item) /\ q.of = r.of /\ q.left = r.left
         /\ (q.whole <=> r.whole /\ r.left = 0)
         /\ q.bytes = r.bytes + Field /\ q.section = r.section
         /\ q.shown = Append(r.shown, Shown(0, it))
  <1>1. it.item \notin DOMAIN AnnouncedBy /\ it.item \notin Announced \cup {"verifyKey", "auxiliary"}
        /\ it.item \notin {"size", "textLength", "index", "text", "key"}
    BY AnnouncersAre DEF Announced
  <1>2. it.item # r.of
    BY <1>1 DEF Knowledge, Announced
  <1>3. InPayload(it) = Field
    BY DEF InPayload, AddProvider
  <1>4. q \in Knowledge
    BY ReadInKnowledge
  <1>5. QED
    BY <1>1, <1>2, <1>3, <1>4 DEF ReadItem

LEMMA ReadKind ==
  ASSUME NEW i \in MultiCommand, NEW k, k = ReadItem(Unread, Named(i))
  PROVE  /\ k \in Knowledge
         /\ k.skeleton = <<i>> /\ k.of = "nothing" /\ k.left = 0 /\ k.whole
         /\ k.bytes = (IF i = AddProvider THEN Field ELSE 0) /\ k.section = 0 /\ k.shown = <<>>
  <1> DEFINE it == Named(i)
  <1>1. it.item = i /\ i \in Parts /\ it \in Items
    BY KindsAreNames, NamedInItems DEF Named, Item, Parts
  <1> HIDE DEF it
  <1>2. InPayload(it) = IF i = AddProvider THEN Field ELSE 0
    BY <1>1, PartsApart DEF InPayload, MultiCommand, HigherLevel, Authorizing, Described, RootKeys, Level1Keys,
           Level2ByRoot, Level2ByLevel1, AddProvider, AddRevoker, Protocol, CreatePlt, Pool
  <1>3. Append(<<>>, i) = <<i>>
    OBVIOUS
  <1>4. /\ Unread.skeleton = <<>> /\ Unread.of = "nothing" /\ Unread.left = 0 /\ Unread.whole = TRUE
        /\ Unread.bytes = 0 /\ Unread.section = 0 /\ Unread.shown = <<>>
    BY DEF Unread
  <1>5. k = ReadItem(Unread, it)
    BY DEF it
  <1>6. QED
    BY <1>1, <1>2, <1>3, <1>4, <1>5, UnreadInKnowledge, ReadPart DEF Field

\* The parts every update begins with.
LEMMA FirstParts ==
  ASSUME NEW i \in MultiCommand, NEW a \in Items, a.item \in Parts,
         NEW q, q = ReadItem(ReadItem(Unread, Named(i)), a)
  PROVE  /\ q \in Knowledge
         /\ q.skeleton = <<i, a.item>> /\ q.left = 0 /\ q.whole
         /\ q.bytes = (IF i = AddProvider THEN Field ELSE 0) + InPayload(a)
         /\ q.section = 0 /\ q.shown = <<>>
  <1> DEFINE k == ReadItem(Unread, Named(i))
  <1>1. k = ReadItem(Unread, Named(i)) /\ q = ReadItem(k, a)
    OBVIOUS
  <1> HIDE DEF k
  <1>2. /\ k \in Knowledge /\ k.skeleton = <<i>> /\ k.left = 0 /\ k.whole
        /\ k.bytes = (IF i = AddProvider THEN Field ELSE 0) /\ k.section = 0 /\ k.shown = <<>>
    BY <1>1, ReadKind
  <1>3. /\ q \in Knowledge /\ q.skeleton = Append(k.skeleton, a.item) /\ q.left = k.left
        /\ (q.whole <=> k.whole /\ k.left = 0)
        /\ q.bytes = k.bytes + InPayload(a) /\ q.section = k.section /\ q.shown = k.shown
    <2>1. k \in Knowledge
      BY <1>2
    <2>2. QED
      BY <1>1, <2>1, ReadPart
  <1>4. Append(<<i>>, a.item) = <<i, a.item>>
    BY Pair
  <1>5. q.skeleton = <<i, a.item>>
    BY <1>2, <1>3, <1>4
  <1>6. QED
    BY <1>2, <1>3, <1>5

LEMMA FirstKeys ==
  ASSUME NEW i \in MultiCommand, NEW a \in Items, a.item \in Parts, NEW b \in Items, b.item = "keys",
         NEW q, q = ReadItem(ReadItem(ReadItem(Unread, Named(i)), a), b)
  PROVE  /\ q \in Knowledge
         /\ q.skeleton = <<i, a.item, "keys">> /\ q.of = "key" /\ q.left = b.n /\ q.whole
         /\ q.section = 0 /\ q.shown = <<>>
  <1> DEFINE k == ReadItem(ReadItem(Unread, Named(i)), a)
  <1>1. k = ReadItem(ReadItem(Unread, Named(i)), a) /\ q = ReadItem(k, b)
    OBVIOUS
  <1> HIDE DEF k
  <1>2. /\ k \in Knowledge /\ k.skeleton = <<i, a.item>> /\ k.left = 0 /\ k.whole
        /\ k.section = 0 /\ k.shown = <<>>
    BY <1>1, FirstParts
  <1>3. /\ q \in Knowledge /\ q.skeleton = Append(k.skeleton, b.item) /\ q.of = AnnouncedBy[b.item]
        /\ q.left = b.n /\ (q.whole <=> k.whole /\ k.left = 0)
        /\ q.section = k.section + (IF b.item \in {"size", "textLength"} THEN 1 ELSE 0)
        /\ q.shown = k.shown
    <2>1. k \in Knowledge
      BY <1>2
    <2>2. QED
      BY <1>1, <2>1, ReadNumber
  <1>4. Append(<<i, a.item>>, "keys") = <<i, a.item, "keys">>
    BY Triple
  <1>5. q.skeleton = <<i, a.item, "keys">>
    BY <1>2, <1>3, <1>4
  <1>6. q.of = "key"
    BY <1>3, AnnouncersAre
  <1>7. q.section = 0
    BY <1>2, <1>3
  <1>8. QED
    BY <1>2, <1>3, <1>5, <1>6, <1>7

LEMMA BeginOne ==
  ASSUME NEW i \in MultiCommand, NEW a \in Items, Begin(i, <<a>>)
  PROVE  /\ HashOf(i, hash') /\ Len(hash') = 2 /\ hash'[2] = a
         /\ Known(hash') = ReadItem(ReadItem(Unread, Named(i)), a)
  <1> DEFINE one == <<Named(i)>>
  <1>1. Named(i) \in Items
    BY KindsAreNames, NamedInItems
  <1>2. /\ one \in Seq(Items) /\ Len(one) = 1 /\ 1 \in 1..Len(one) /\ one[1] = Named(i)
        /\ Known(one) = ReadItem(Unread, Named(i))
    BY <1>1, FirstItem
  <1>3. hash' = one \o <<a>>
    BY DEF Begin
  <1> HIDE DEF one
  <1>4. hash' = Append(one, a)
    BY <1>2, <1>3, AppendIsConcat
  <1>5. hash' \in Seq(Items) /\ Len(hash') = 2
    BY <1>2, <1>4, OneMore
  <1>6. hash'[1] = Named(i) /\ hash'[2] = a
    BY <1>2, <1>4, OneMore
  <1>7. Known(hash') = ReadItem(Known(one), a)
    BY <1>2, <1>4, OneMore, ZenonT(60)
  <1>8. QED
    BY <1>2, <1>5, <1>6, <1>7 DEF HashOf

LEMMA BeginTwo ==
  ASSUME NEW i \in MultiCommand, NEW a \in Items, NEW b \in Items, Begin(i, <<a, b>>)
  PROVE  /\ HashOf(i, hash') /\ Len(hash') = 3 /\ hash'[2] = a /\ hash'[3] = b
         /\ Known(hash') = ReadItem(ReadItem(ReadItem(Unread, Named(i)), a), b)
  <1> DEFINE one == <<Named(i)>>   two == Append(one, a)
  <1>1. Named(i) \in Items
    BY KindsAreNames, NamedInItems
  <1>2. /\ one \in Seq(Items) /\ Len(one) = 1 /\ 1 \in 1..Len(one) /\ one[1] = Named(i)
        /\ Known(one) = ReadItem(Unread, Named(i))
    BY <1>1, FirstItem
  <1>3. hash' = one \o <<a, b>>
    BY DEF Begin
  <1> HIDE DEF one
  <1>4. hash' = Append(two, b)
    BY <1>2, <1>3, TwoMore
  <1>5. two = Append(one, a)
    OBVIOUS
  <1> HIDE DEF two
  <1>6. /\ two \in Seq(Items) /\ Len(two) = 2 /\ two[1] = Named(i) /\ two[2] = a
        /\ Known(two) = ReadItem(Known(one), a)
    <2>1. one \in Seq(Items)
      BY <1>2
    <2>2. two \in Seq(Items) /\ Len(two) = Len(one) + 1
      BY <1>5, <2>1, OneMore
    <2>3. (\A k \in 1..Len(one) : two[k] = one[k]) /\ two[Len(one) + 1] = a
      BY <1>5, <2>1, OneMore
    <2>4. Known(two) = ReadItem(Known(one), a)
      BY <1>5, <2>1, OneMore
    <2>5. QED
      BY <1>2, <2>2, <2>3, <2>4
  <1>7. 1 \in 1..Len(two) /\ 2 \in 1..Len(two)
    BY <1>6
  <1>8. hash' \in Seq(Items) /\ Len(hash') = 3
    BY <1>4, <1>6, OneMore, SMTT(40)
  <1>9. hash'[1] = Named(i) /\ hash'[2] = a /\ hash'[3] = b
    BY <1>4, <1>6, <1>7, OneMore
  <1>10. Known(hash') = ReadItem(Known(two), b)
    BY <1>4, <1>6, OneMore, ZenonT(60)
  <1>11. QED
    BY <1>2, <1>6, <1>8, <1>9, <1>10 DEF HashOf

LEMMA Absorbed ==
  ASSUME NEW i, HashOf(i, hash), NEW x \in Items, Absorb(<<x>>)
  PROVE  /\ HashOf(i, hash') /\ Len(hash') = Len(hash) + 1
         /\ \A k \in 1..Len(hash) : hash'[k] = hash[k]
         /\ hash'[Len(hash) + 1] = x
         /\ Known(hash') = ReadItem(Known(hash), x)
         /\ Params!After(hash') = CountParams(Params!After(hash), x)
  <1>1. hash \in Seq(Items) /\ Len(hash) \in Nat /\ 1 \in 1..Len(hash) /\ hash[1] = Named(i)
    BY LenProperties DEF HashOf
  <1>2. hash' = Append(hash, x)
    BY <1>1, AppendIsConcat DEF Absorb
  <1>3. hash' \in Seq(Items) /\ Len(hash') = Len(hash) + 1
    BY <1>1, <1>2, OneMore
  <1>4. (\A k \in 1..Len(hash) : hash'[k] = hash[k]) /\ hash'[Len(hash) + 1] = x
    BY <1>1, <1>2, OneMore
  <1>5. Known(hash') = ReadItem(Known(hash), x)
    BY <1>1, <1>2, OneMore
  <1>6. Params!After(hash') = CountParams(Params!After(hash), x)
    BY <1>1, <1>2, OneMore
  <1>7. HashOf(i, hash')
    BY <1>1, <1>3, <1>4 DEF HashOf
  <1>8. QED
    BY <1>3, <1>4, <1>5, <1>6, <1>7

\* Every item of a transaction is one of Items.
LEMMA ItemsKnown ==
  /\ \A name \in {"key", "threshold", "cdiVerifyKey", "publicKey", "specificationHash", "token",
                  "passive", "minimal", "maximal", "equity", "capitalBound", "leverageBound"} :
       Named(name) \in Items
  /\ \A name \in {"keyUpdateType", "keys", "version", "size", "index", "payloadLength",
                  "textLength", "text", "verifyKey", "auxiliary", "paramsLength", "params"} :
       \A n \in Nat : Item(name, n) \in Items
  BY NamedInItems, ItemInItems DEF ItemNames

LEMMA DialogsOf ==
  /\ \A i \in HigherLevel : Dialogs(i) = {"review", "key", "sign"}
  /\ \A i \in Authorizing : Dialogs(i) = {"review", "key", "index", "threshold", "sign"}
  /\ \A i \in Described   : Dialogs(i) = {"start", "description", "verifyKeyHash", "sign"}
  /\ Dialogs(Protocol) = {"message", "url", "specificationHash", "sign"}
  /\ Dialogs(CreatePlt) = {"sign"} /\ Dialogs(Pool) = {"poolRates", "sign"}
  BY Kinds DEF Dialogs

\* The memory of the union holds the context of the instruction that wrote it last.
LEMMA ContextOf ==
  ASSUME ContextInv
  PROVE  /\ ctx.of \in MultiCommand \cup {None}
         /\ ctx.of \in HigherLevel => ctx \in KeyContexts
         /\ ctx.of \in Authorizing => ctx \in AuthorizationContexts
         /\ ctx.of \in Described => ctx \in DescribedContexts
         /\ ctx.of = Protocol => ctx \in ProtocolContexts
         /\ ctx.of = CreatePlt => ctx \in PltContexts
         /\ ctx.of = Pool => ctx \in PoolContexts
         /\ ctx.state \in States
  <1>1. CASE ctx = NoContext
    <2>1. ctx.of = None /\ ctx.state = "INITIAL"
      BY <1>1 DEF NoContext
    <2>2. QED
      BY <2>1, Kinds, Constants DEF States
  <1>2. CASE ctx \in KeyContexts
    <2>1. ctx.of \in HigherLevel /\ ctx.state \in States
      BY <1>2 DEF KeyContexts, States
    <2>2. QED
      BY <1>2, <2>1, Kinds
  <1>3. CASE ctx \in AuthorizationContexts
    <2>1. ctx.of \in Authorizing /\ ctx.state \in States
      BY <1>3 DEF AuthorizationContexts, States
    <2>2. QED
      BY <1>3, <2>1, Kinds
  <1>4. CASE ctx \in DescribedContexts
    <2>1. ctx.of \in Described /\ ctx.state \in States
      BY <1>4 DEF DescribedContexts, States
    <2>2. QED
      BY <1>4, <2>1, Kinds
  <1>5. CASE ctx \in ProtocolContexts
    <2>1. ctx.of = Protocol /\ ctx.state \in States
      BY <1>5 DEF ProtocolContexts, States
    <2>2. QED
      BY <1>5, <2>1, Kinds
  <1>6. CASE ctx \in PltContexts
    <2>1. ctx.of = CreatePlt /\ ctx.state \in States
      BY <1>6 DEF PltContexts, States
    <2>2. QED
      BY <1>6, <2>1, Kinds
  <1>7. CASE ctx \in PoolContexts
    <2>1. ctx.of = Pool /\ ctx.state \in States
      BY <1>7 DEF PoolContexts, States
    <2>2. QED
      BY <1>7, <2>1, Kinds
  <1>8. QED
    BY <1>1, <1>2, <1>3, <1>4, <1>5, <1>6, <1>7 DEF ContextInv

-----------------------------------------------------------------------------
(***************************************************************************)
(* Root and level 1 keys.                                                  *)
(***************************************************************************)
LEMMA KeysInitialStep ==
  ASSUME IInv, NEW i \in HigherLevel, NEW n \in 0..MaxKeys, NEW t \in {0, 1}, KeysInitial(i, t, n)
  PROVE  IInv'
  <1> DEFINE text == keyUpdateText(i, t)   a == Item("keyUpdateType", t)   b == Item("keys", n)
             k2 == ReadItem(ReadItem(ReadItem(Unread, Named(i)), a), b)
  <1>1. i \in MultiCommand /\ n \in Nat /\ t \in Nat /\ a \in Items /\ b \in Items
    BY Kinds, Constants, ItemsKnown
  <1>2. /\ HashOf(i, hash') /\ Len(hash') = 3 /\ hash'[2] = a /\ Known(hash') = k2
    BY <1>1, BeginTwo DEF KeysInitial
  <1>3. /\ ctx' = [of |-> i, state |-> "KEY", type |-> text, left |-> n]
        /\ seen' = <<Shown(0, Named(text))>>
        /\ currentInstruction' = i /\ owed' = TRUE /\ screen' = "review" /\ reply' = reply
    BY DEF KeysInitial, Ask
  <1>4. text \in KeyTexts /\ (~(i = Level1Keys /\ t = 1) => text = TypeText(i, t))
    <2>1. CASE i = RootKeys
      <3>1. CASE t = 0
        BY <2>1, <3>1 DEF keyUpdateText, TypeText, KeyTexts, RootKeys, Level1Keys
      <3>2. CASE t = 1
        BY <2>1, <3>2 DEF keyUpdateText, TypeText, KeyTexts, RootKeys, Level1Keys
      <3>3. QED
        BY <3>1, <3>2
    <2>2. CASE i = Level1Keys /\ t = 0
      BY <2>2 DEF keyUpdateText, TypeText, KeyTexts, RootKeys, Level1Keys
    <2>3. CASE i = Level1Keys /\ t = 1
      <3>1. ctx.of \in HigherLevel => ctx.type \in KeyTexts
        BY ContextOf DEF IInv, KeyContexts
      <3>2. QED
        BY <2>3, <3>1 DEF keyUpdateText, KeyTexts, RootKeys, Level1Keys
    <2>4. QED
      BY <2>1, <2>2, <2>3 DEF HigherLevel
  <1>5. a.item = "keyUpdateType" /\ a.item \in Parts /\ b.item = "keys" /\ b.n = n
    BY DEF Item, Parts
  <1>6. k2 = ReadItem(ReadItem(ReadItem(Unread, Named(i)), a), b)
    OBVIOUS
  <1> HIDE DEF k2, a, b, text
  <1>7. /\ k2.skeleton = <<i, "keyUpdateType", "keys">> /\ k2.left = n /\ k2.whole
        /\ k2.shown = <<>> /\ k2.of = "key"
    BY <1>1, <1>5, <1>6, FirstKeys
  <1>8. seen' = <<Shown(0, Named(text))>> \o k2.shown
    <2>1. <<>> \in Seq(Displayed)
      BY EmptySeq
    <2>2. QED
      BY <1>3, <1>7, <2>1, BehindTitle
  <1>9. KeysInv(i, Known(hash))'
    <2>1. ctx' \in KeyContexts /\ ctx'.of = i /\ ctx'.type = text /\ ctx'.left = n /\ ctx'.state = "KEY"
      BY <1>3, <1>4 DEF KeyContexts
    <2>2. \E u \in {0, 1} :
            /\ hash'[2] = Item("keyUpdateType", u)
            /\ ~(i = Level1Keys /\ u = 1) => ctx'.type = TypeText(i, u)
      BY <1>2, <1>4, <2>1 DEF a
    <2>3. QED
      BY <1>2, <1>7, <1>8, <2>1, <2>2 DEF KeysInv
  <1>10. KindInv(i)'
    BY <1>9, Kinds DEF KindInv
  <1>11. screen' \in Dialogs(i) /\ screen' # "sign"
    BY <1>3, DialogsOf
  <1>12. QED
    BY <1>1, <1>2, <1>3, <1>10, <1>11, Continued DEF Unsigned

LEMMA KeysInvFound ==
  ASSUME NEW i \in HigherLevel, KindInv(i) PROVE KeysInv(i, Known(hash))
  BY DEF KindInv

LEMMA UpdateKeyStep ==
  ASSUME IInv, NEW i \in HigherLevel, UpdateKey(i) PROVE IInv'
  <1> DEFINE k == Known(hash)   it == Named("key")   q == ReadItem(k, it)
             title == Shown(0, Named(ctx.type))   d == Shown(0, it)
  <1>1. i \in MultiCommand /\ it \in Items /\ it.item = "key"
    BY Kinds, ItemsKnown DEF Named, Item
  <1>2. /\ ctx.state = "KEY" /\ HashOf(i, hash) /\ KeysInv(i, k) /\ ctx.left > 0
    BY <1>1, Found, KeysInvFound DEF UpdateKey
  <1>3. k \in Knowledge
    BY <1>1, Found DEF UpdateKey
  <1>4. ctx \in KeyContexts /\ ctx.of = i
    BY <1>2 DEF KeysInv
  <1>5. k.skeleton = <<i, "keyUpdateType", "keys">> /\ k.whole /\ k.of = "key" /\ k.left = ctx.left
    BY <1>2 DEF KeysInv
  <1>6. seen = <<title>> \o k.shown /\ Len(hash) >= 2
    BY <1>2 DEF KeysInv
  <1>7. /\ HashOf(i, hash') /\ Len(hash') >= 2 /\ hash'[2] = hash[2] /\ Known(hash') = q
    <2>1. Absorb(<<it>>)
      BY DEF UpdateKey
    <2>2. Len(hash) \in Nat
      BY <1>2, LenProperties DEF HashOf
    <2>3. QED
      BY <1>1, <1>2, <1>6, <2>1, <2>2, Absorbed
  <1>8. /\ ctx' = [ctx EXCEPT !.left = @ - 1, !.state = IF ctx.left = 1 THEN "THRESHOLD" ELSE @]
        /\ seen' = Append(seen, d)
        /\ currentInstruction' = i /\ owed' = TRUE /\ screen' = "key" /\ reply' = reply
    BY DEF UpdateKey, Show, Ask
  <1>9. /\ ctx' \in KeyContexts /\ ctx'.of = i /\ ctx'.type = ctx.type /\ ctx'.left = ctx.left - 1
        /\ ctx'.state = "THRESHOLD" => ctx'.left = 0
    <2>1. ctx.left \in 0..MaxKeys /\ ctx.left - 1 \in 0..MaxKeys
      BY <1>2, <1>4, Constants DEF KeyContexts
    <2>2. /\ ctx'.of = i /\ ctx'.type = ctx.type /\ ctx'.left = ctx.left - 1
          /\ ctx'.state = IF ctx.left = 1 THEN "THRESHOLD" ELSE "KEY"
          /\ ctx' = [of |-> ctx'.of, state |-> ctx'.state, type |-> ctx'.type, left |-> ctx'.left]
      BY <1>2, <1>4, <1>8 DEF KeyContexts
    <2>3. ctx.type \in KeyTexts
      BY <1>4 DEF KeyContexts
    <2>4. ctx'.state \in {"KEY", "THRESHOLD"} /\ (ctx'.state = "THRESHOLD" => ctx.left = 1)
      BY <2>2
    <2>5. ctx' \in KeyContexts
      BY <2>1, <2>2, <2>3, <2>4 DEF KeyContexts
    <2>6. QED
      BY <2>1, <2>2, <2>4, <2>5
  <1>10. k.shown \in Seq(Displayed) /\ d \in Displayed
    BY <1>1, <1>3 DEF Knowledge, Shown, Displayed
  <1>11. q = ReadItem(k, it)
    OBVIOUS
  <1> HIDE DEF k, it, q, title
  <1>12. /\ q.skeleton = k.skeleton /\ q.left = k.left - 1 /\ q.whole /\ q.of = k.of
         /\ q.shown = Append(k.shown, d)
    <2>1. it.item \in Announced
      BY <1>1 DEF Announced
    <2>2. Weight(it) = 1
      BY <1>1 DEF Weight
    <2>3. /\ q.skeleton = k.skeleton /\ q.left = k.left - Weight(it) /\ q.whole /\ q.of = k.of
          /\ q.shown = Append(k.shown, Shown(0, it))
      BY <1>1, <1>3, <1>5, <1>11, <2>1, ReadSome, ZenonT(60)
    <2>4. QED
      BY <2>2, <2>3
  <1> HIDE DEF d
  <1>13. seen' = <<title>> \o q.shown
    BY <1>6, <1>8, <1>10, <1>12, BehindTitle, SMTT(40)
  <1>14. KeysInv(i, Known(hash))'
    <2>1. PICK t \in {0, 1} :
            /\ hash[2] = Item("keyUpdateType", t)
            /\ ~(i = Level1Keys /\ t = 1) => ctx.type = TypeText(i, t)
      BY <1>2 DEF KeysInv
    <2>2. \E u \in {0, 1} :
            /\ hash'[2] = Item("keyUpdateType", u)
            /\ ~(i = Level1Keys /\ u = 1) => ctx'.type = TypeText(i, u)
      BY <1>7, <1>9, <2>1
    <2>3. q.skeleton = <<i, "keyUpdateType", "keys">> /\ q.whole /\ q.of = "key" /\ q.left = ctx'.left
      BY <1>5, <1>9, <1>12
    <2>4. QED
      BY <1>7, <1>9, <1>13, <2>2, <2>3 DEF KeysInv, title
  <1>15. KindInv(i)'
    BY <1>14, Kinds DEF KindInv
  <1>16. screen' \in Dialogs(i) /\ screen' # "sign"
    BY <1>8, DialogsOf
  <1>17. QED
    BY <1>1, <1>7, <1>8, <1>15, <1>16, Continued DEF Unsigned

LEMMA KeysThresholdStep ==
  ASSUME IInv, NEW i \in HigherLevel, KeysThreshold(i) PROVE IInv'
  <1> DEFINE k == Known(hash)   it == Named("threshold")   q == ReadItem(k, it)
  <1>1. i \in MultiCommand /\ it \in Items /\ it.item = "threshold" /\ it.item \in Parts
    BY Kinds, ItemsKnown DEF Named, Item, Parts
  <1>2. /\ ctx.state = "THRESHOLD" /\ HashOf(i, hash) /\ KeysInv(i, k) /\ k \in Knowledge
    BY <1>1, Found, KeysInvFound DEF KeysThreshold
  <1>3. /\ HashOf(i, hash') /\ hash'[2] = hash[2] /\ Known(hash') = q
    <2>1. Absorb(<<it>>)
      BY DEF KeysThreshold
    <2>2. Len(hash) \in Nat /\ Len(hash) >= 2
      BY <1>2, LenProperties DEF HashOf, KeysInv
    <2>3. QED
      BY <1>1, <1>2, <2>1, <2>2, Absorbed
  <1>4. /\ ctx' = ctx /\ seen' = seen
        /\ currentInstruction' = i /\ owed' = TRUE /\ screen' = "sign" /\ reply' = reply
    BY DEF KeysThreshold, Ask
  <1>5. /\ ctx \in KeyContexts /\ ctx.of = i
        /\ k.skeleton = <<i, "keyUpdateType", "keys">>
        /\ k.whole /\ k.of = "key" /\ k.left = 0
        /\ seen = <<Shown(0, Named(ctx.type))>> \o k.shown
    BY <1>2 DEF KeysInv
  <1>6. q = ReadItem(k, it)
    OBVIOUS
  <1> HIDE DEF k, it, q
  <1>7. /\ q.skeleton = <<i, "keyUpdateType", "keys", "threshold">> /\ q.left = 0 /\ q.whole
        /\ q.shown = k.shown
    <2>1. /\ q.skeleton = Append(k.skeleton, it.item) /\ q.left = k.left
          /\ (q.whole <=> k.whole /\ k.left = 0) /\ q.shown = k.shown
      BY <1>1, <1>2, <1>6, ReadPart
    <2>2. Append(<<i, "keyUpdateType", "keys">>, "threshold") = <<i, "keyUpdateType", "keys", "threshold">>
      BY FourTuple
    <2>3. q.skeleton = <<i, "keyUpdateType", "keys", "threshold">>
      BY <1>1, <1>5, <2>1, <2>2
    <2>4. QED
      BY <1>5, <2>1, <2>3
  <1>8. KindOf(hash') = i
    BY <1>3 DEF KindOf, HashOf, Named, Item
  <1>9. Complete(hash', seen')
    <2>1. IsOneUpdate(hash')
      <3>1. SkeletonOf(i, hash') = <<i, "keyUpdateType", "keys", "threshold">>
        BY SkeletonsAre
      <3>2. QED
        BY <1>3, <1>7, <1>8, <3>1 DEF IsOneUpdate
    <2>2. IsWhole(hash')
      BY <1>3, <1>7 DEF IsWhole
    <2>3. IsCounted(hash')
      BY <1>8 DEF IsCounted, HigherLevel, RootKeys, Level1Keys, AddProvider, Protocol
    <2>4. WasShown(hash', seen')
      <3>1. k.shown \in Seq(Displayed)
        BY <1>2 DEF Knowledge
      <3>2. Tail(seen') = q.shown /\ seen'[1] = Shown(0, Named(ctx.type))
        BY <1>4, <1>5, <1>7, <3>1, BehindTitle, ZenonT(60)
      <3>3. seen'[1].what = Named(ctx.type)
        BY <3>2 DEF Shown
      <3>4. ~(i = Level1Keys /\ hash'[2].n = 1) => ctx.type = TypeText(i, hash'[2].n)
        BY <1>2, <1>3 DEF KeysInv, Item
      <3>5. QED
        BY <1>3, <1>8, <3>2, <3>3, <3>4, Kinds DEF WasShown
    <2>5. QED
      BY <2>1, <2>2, <2>3, <2>4 DEF Complete
  <1>10. ContextInv'
    BY <1>4, <1>5 DEF ContextInv
  <1>11. QED
    BY <1>1, <1>3, <1>4, <1>9, <1>10, Asked DEF Unsigned

-----------------------------------------------------------------------------
(***************************************************************************)
(* Level 2 keys.                                                           *)
(***************************************************************************)
LEMMA AuthorizationFields ==
  ASSUME NEW c \in AuthorizationContexts
  PROVE  /\ c.of \in Authorizing /\ c.state \in {"KEY", "SIZE", "INDEX", "THRESHOLD"}
         /\ c.left \in 0..MaxKeys /\ c.version \in Versions /\ c.structure \in Nat
         /\ c.size \in 0..MaxStructure /\ c.processed \in 0..MaxBatch /\ c.pointer \in 1..(MaxBatch + 1)
         /\ c.buffer \in [1..MaxBatch -> Nat]
         /\ c.structure <= AuthorizationEnd[c.version] /\ c.pointer + c.processed <= MaxBatch + 1
  BY DEF AuthorizationContexts

LEMMA AuthorizationContextIs ==
  ASSUME NEW c, NEW e \in AuthorizationContexts,
         c.of = e.of, c.state \in {"KEY", "SIZE", "INDEX", "THRESHOLD"}, c.left \in 0..MaxKeys,
         c.version = e.version, c.structure \in Nat, c.size \in 0..MaxStructure,
         c.processed \in 0..MaxBatch, c.pointer \in 1..(MaxBatch + 1), c.buffer \in [1..MaxBatch -> Nat],
         c.structure <= AuthorizationEnd[c.version], c.pointer + c.processed <= MaxBatch + 1,
         c = [of |-> c.of, state |-> c.state, left |-> c.left, version |-> c.version,
              structure |-> c.structure, size |-> c.size, processed |-> c.processed,
              pointer |-> c.pointer, buffer |-> c.buffer]
  PROVE  c \in AuthorizationContexts
  <1>1. c.of \in Authorizing /\ c.version \in Versions
    BY AuthorizationFields
  <1>2. c \in [of : Authorizing, state : {"KEY", "SIZE", "INDEX", "THRESHOLD"}, left : 0..MaxKeys,
               version : Versions, structure : Nat, size : 0..MaxStructure, processed : 0..MaxBatch,
               pointer : 1..(MaxBatch + 1), buffer : [1..MaxBatch -> Nat]]
    BY <1>1
  <1>3. QED
    BY <1>2 DEF AuthorizationContexts

LEMMA Odds == \A n \in Nat : (2 * n + 1) % 2 = 1 /\ (2 * n + 2) % 2 = 0
  OBVIOUS

LEMMA StructuresAre ==
  ASSUME NEW n \in Nat
  PROVE  /\ Structures(n) \in Seq(ItemNames) /\ Structures(0) = <<>>
         /\ Append(Append(Structures(n), "size"), "threshold") = Structures(n + 1)
  <1> DEFINE s == Structures(n)   t == Append(s, "size")   u == Append(t, "threshold")
             v == Structures(n + 1)
  <1>1. "size" \in ItemNames /\ "threshold" \in ItemNames
    BY DEF ItemNames
  <1>2. \A k \in Nat : Structures(k) \in Seq(ItemNames) /\ Len(Structures(k)) = 2 * k
    <2> SUFFICES ASSUME NEW k \in Nat
                 PROVE  Structures(k) \in Seq(ItemNames) /\ Len(Structures(k)) = 2 * k
      OBVIOUS
    <2>1. 2 * k \in Nat /\ Structures(k) \in [1..(2 * k) -> ItemNames]
      BY <1>1 DEF Structures
    <2>2. QED
      BY <2>1, SeqDef, LenProperties
  <1>3. s \in Seq(ItemNames) /\ Len(s) = 2 * n /\ v \in Seq(ItemNames) /\ Len(v) = 2 * n + 2
    BY <1>2
  <1>4. \A k \in 1..(2 * n) : s[k] = IF k % 2 = 1 THEN "size" ELSE "threshold"
    BY DEF Structures
  <1>5. \A k \in 1..(2 * n + 2) : v[k] = IF k % 2 = 1 THEN "size" ELSE "threshold"
    BY DEF Structures
  <1>6. t = Append(s, "size") /\ u = Append(t, "threshold")
    OBVIOUS
  <1> HIDE DEF s, t, u, v
  <1>7. /\ t \in Seq(ItemNames) /\ Len(t) = 2 * n + 1 /\ t[2 * n + 1] = "size"
        /\ \A k \in 1..(2 * n) : t[k] = s[k]
    BY <1>1, <1>3, <1>6, Longer
  <1>8. /\ u \in Seq(ItemNames) /\ Len(u) = (2 * n + 1) + 1 /\ u[(2 * n + 1) + 1] = "threshold"
        /\ \A k \in 1..(2 * n + 1) : u[k] = t[k]
    BY <1>1, <1>6, <1>7, Longer
  <1>9. \A k \in 1..(2 * n + 2) : u[k] = v[k]
    <2> SUFFICES ASSUME NEW k \in 1..(2 * n + 2) PROVE u[k] = v[k]
      OBVIOUS
    <2>1. CASE k = 2 * n + 2
      BY <1>5, <1>8, <2>1, Odds
    <2>2. CASE k = 2 * n + 1
      BY <1>5, <1>7, <1>8, <2>2, Odds
    <2>3. CASE k \in 1..(2 * n)
      BY <1>4, <1>5, <1>7, <1>8, <2>3
    <2>4. QED
      BY <2>1, <2>2, <2>3
  <1>10. u = v
    BY <1>3, <1>8, <1>9, SeqEqual
  <1>11. Structures(0) = <<>>
    <2>1. Structures(0) \in Seq(ItemNames) /\ Len(Structures(0)) = 0
      BY <1>2
    <2>2. QED
      BY <2>1, EmptySeq
  <1>12. QED
    BY <1>3, <1>10, <1>11 DEF s, t, u, v

LEMMA AuthorizationSkeleton ==
  ASSUME NEW i \in Authorizing, NEW n \in Nat
  PROVE  /\ Heading(i) \o Structures(0) = Heading(i)
         /\ Append(Append(Heading(i) \o Structures(n), "size"), "threshold")
              = Heading(i) \o Structures(n + 1)
  <1> DEFINE h == Heading(i)   s == Structures(n)   t == Append(s, "size")
  <1>1. h \in Seq(ItemNames)
    <2>1. i \in ItemNames /\ "version" \in ItemNames /\ "keys" \in ItemNames
      BY Kinds, KindsAreNames DEF ItemNames
    <2>2. QED
      BY <2>1 DEF Heading
  <1>2. s \in Seq(ItemNames) /\ Structures(0) = <<>> /\ Append(t, "threshold") = Structures(n + 1)
    BY StructuresAre
  <1>3. "size" \in ItemNames /\ "threshold" \in ItemNames
    BY DEF ItemNames
  <1>4. t \in Seq(ItemNames)
    BY <1>2, <1>3, AppendProperties
  <1> HIDE DEF h, s
  <1>5. \A w \in Seq(ItemNames) : \A x \in ItemNames : Append(h \o w, x) = h \o Append(w, x)
    <2> SUFFICES ASSUME NEW w \in Seq(ItemNames), NEW x \in ItemNames
                 PROVE  Append(h \o w, x) = h \o Append(w, x)
      OBVIOUS
    <2>1. <<x>> \in Seq(ItemNames) /\ h \o w \in Seq(ItemNames)
      BY <1>1, ConcatProperties
    <2>2. Append(h \o w, x) = (h \o w) \o <<x>> /\ Append(w, x) = w \o <<x>>
      BY <2>1, AppendIsConcat
    <2>3. QED
      BY <1>1, <2>1, <2>2, ConcatAssociative
  <1>6. Append(h \o s, "size") = h \o t
    BY <1>2, <1>3, <1>5
  <1> HIDE DEF t
  <1>7. Append(h \o t, "threshold") = h \o Append(t, "threshold")
    BY <1>3, <1>4, <1>5
  <1>8. h \o <<>> = h
    BY <1>1, ConcatEmptySeq
  <1>9. QED
    BY <1>2, <1>6, <1>7, <1>8 DEF h, s

\* No index is pending, or one less is.
LEMMA PendingNone ==
  ASSUME NEW c, c.processed = 0, NEW s \in Seq(Displayed)
  PROVE  s \o Pending(c) = s
  <1>1. Pending(c) = <<>>
    BY DEF Pending
  <1>2. QED
    BY <1>1, ConcatEmptySeq

LEMMA IndexTaken ==
  ASSUME NEW c \in AuthorizationContexts, c.processed > 0, c.size > 0,
         NEW e, e = [c EXCEPT !.pointer = @ + 1, !.size = @ - 1, !.processed = @ - 1]
  PROVE  /\ e \in AuthorizationContexts /\ e.of = c.of /\ e.state = c.state /\ e.version = c.version
         /\ e.structure = c.structure /\ e.buffer = c.buffer
         /\ e.size = c.size - 1 /\ e.processed = c.processed - 1 /\ e.pointer = c.pointer + 1
  <1>1. /\ e.of = c.of /\ e.state = c.state /\ e.left = c.left /\ e.version = c.version
        /\ e.structure = c.structure /\ e.size = c.size - 1 /\ e.processed = c.processed - 1
        /\ e.pointer = c.pointer + 1 /\ e.buffer = c.buffer
        /\ e = [of |-> e.of, state |-> e.state, left |-> e.left, version |-> e.version,
                structure |-> e.structure, size |-> e.size, processed |-> e.processed,
                pointer |-> e.pointer, buffer |-> e.buffer]
    BY DEF AuthorizationContexts
  <1> DEFINE n == c.processed   z == c.size   p == c.pointer
  <1>2. n > 0 /\ z > 0
    OBVIOUS
  <1>3. z \in 0..MaxStructure /\ n \in 0..MaxBatch /\ p \in 1..(MaxBatch + 1) /\ p + n <= MaxBatch + 1
    BY AuthorizationFields
  <1>4. e.size = z - 1 /\ e.processed = n - 1 /\ e.pointer = p + 1
    BY <1>1
  <1> HIDE DEF n, z, p
  <1>5. z - 1 \in 0..MaxStructure /\ n - 1 \in 0..MaxBatch
    BY <1>2, <1>3, Constants
  <1>6. p + 1 \in 1..(MaxBatch + 1) /\ (p + 1) + (n - 1) <= MaxBatch + 1
    BY <1>2, <1>3, Constants
  <1>7. e.size \in 0..MaxStructure /\ e.processed \in 0..MaxBatch /\ e.pointer \in 1..(MaxBatch + 1)
        /\ e.pointer + e.processed <= MaxBatch + 1
    BY <1>4, <1>5, <1>6
  <1>8. /\ c.state \in {"KEY", "SIZE", "INDEX", "THRESHOLD"} /\ c.left \in 0..MaxKeys
        /\ c.structure \in Nat /\ c.buffer \in [1..MaxBatch -> Nat]
        /\ c.structure <= AuthorizationEnd[c.version]
    BY AuthorizationFields
  <1>9. e \in AuthorizationContexts
    BY <1>1, <1>7, <1>8, AuthorizationContextIs
  <1>10. QED
    BY <1>1, <1>9

LEMMA PendingOne ==
  ASSUME NEW c \in AuthorizationContexts, NEW n \in Nat, c.processed = n + 1,
         NEW e, e.structure = c.structure, e.buffer = c.buffer, e.processed = n,
         e.pointer = c.pointer + 1,
         NEW s \in Seq(Displayed),
         NEW d, d = Shown(c.structure + 1, Item("index", c.buffer[c.pointer]))
  PROVE  Append(s, d) \in Seq(Displayed) /\ Append(s, d) \o Pending(e) = s \o Pending(c)
  <1> DEFINE p == Pending(c)   r == Pending(e)   one == <<d>>   both == one \o r
             show(k) == Shown(c.structure + 1, Item("index", c.buffer[c.pointer + k - 1]))
  <1>1. /\ c.structure \in Nat /\ c.pointer \in 1..(MaxBatch + 1) /\ c.buffer \in [1..MaxBatch -> Nat]
        /\ c.pointer + (n + 1) <= MaxBatch + 1 /\ MaxBatch \in Nat
    BY AuthorizationFields, Constants
  <1>2. \A k \in 1..(n + 1) : show(k) \in Displayed
    <2> SUFFICES ASSUME NEW k \in 1..(n + 1) PROVE show(k) \in Displayed
      OBVIOUS
    <2>1. c.pointer + k - 1 \in 1..MaxBatch /\ c.structure + 1 \in Nat
      <3>1. \A at, m, bound \in Nat : \A l \in 1..(m + 1) :
              at >= 1 /\ at + (m + 1) <= bound + 1 => at + l - 1 \in 1..bound
        OBVIOUS
      <3>2. c.pointer \in Nat /\ c.pointer >= 1
        BY <1>1
      <3>3. c.pointer + k - 1 \in 1..MaxBatch
        BY <1>1, <3>1, <3>2
      <3>4. c.structure + 1 \in Nat
        BY <1>1, SMTT(40)
      <3>5. QED
        BY <3>3, <3>4
    <2>2. Item("index", c.buffer[c.pointer + k - 1]) \in Items
      BY <1>1, <2>1, ItemsKnown
    <2>3. QED
      BY <2>1, <2>2 DEF Shown, Displayed
  <1>3. d = show(1)
    <2>1. c.pointer + 1 - 1 = c.pointer
      BY <1>1
    <2>2. QED
      BY <2>1
  <1>4. p = [k \in 1..(n + 1) |-> show(k)]
    BY DEF Pending
  <1>5. r = [k \in 1..n |-> show(k + 1)]
    <2>1. r = [k \in 1..n |-> Shown(c.structure + 1, Item("index", c.buffer[(c.pointer + 1) + k - 1]))]
      BY DEF Pending
    <2>2. \A k \in 1..n : (c.pointer + 1) + k - 1 = c.pointer + (k + 1) - 1
      BY <1>1
    <2>3. QED
      BY <2>1, <2>2
  <1> HIDE DEF show
  <1>6. p \in Seq(Displayed) /\ Len(p) = n + 1 /\ \A k \in 1..(n + 1) : p[k] = show(k)
    <2>1. p \in [1..(n + 1) -> Displayed] /\ (\A k \in 1..(n + 1) : p[k] = show(k)) /\ n + 1 \in Nat
      BY <1>2, <1>4
    <2> HIDE DEF p
    <2>2. p \in Seq(Displayed)
      BY <2>1, SeqDef
    <2>3. Len(p) = n + 1
      BY <2>1, <2>2, LenProperties
    <2>4. QED
      BY <2>1, <2>2, <2>3
  <1>7. r \in Seq(Displayed) /\ Len(r) = n /\ \A k \in 1..n : r[k] = show(k + 1)
    <2>1. \A k \in 1..n : k + 1 \in 1..(n + 1)
      OBVIOUS
    <2>2. r \in [1..n -> Displayed] /\ (\A k \in 1..n : r[k] = show(k + 1))
      BY <1>2, <1>5, <2>1
    <2> HIDE DEF r
    <2>3. r \in Seq(Displayed)
      BY <2>2, SeqDef
    <2>4. Len(r) = n
      BY <2>2, <2>3, LenProperties
    <2>5. QED
      BY <2>2, <2>3, <2>4
  <1>8. d \in Displayed
    <2>1. 1 \in 1..(n + 1)
      OBVIOUS
    <2>2. QED
      BY <1>2, <1>3, <2>1
  <1>9. one \in Seq(Displayed) /\ Len(one) = 1 /\ one[1] = d
    BY <1>8
  <1> HIDE DEF p, r, one
  <1>10. /\ both \in Seq(Displayed) /\ Len(both) = n + 1
         /\ \A k \in 1..(n + 1) : both[k] = IF k <= 1 THEN one[k] ELSE r[k - 1]
    <2>1. one \in Seq(Displayed) /\ r \in Seq(Displayed) /\ both = one \o r
      BY <1>7, <1>9
    <2> HIDE DEF both
    <2>2. /\ both \in Seq(Displayed) /\ Len(both) = Len(one) + Len(r)
          /\ \A k \in 1..(Len(one) + Len(r)) : both[k] = IF k <= Len(one) THEN one[k] ELSE r[k - Len(one)]
      BY <2>1, ConcatProperties
    <2>3. 1 + n = n + 1
      OBVIOUS
    <2>4. QED
      BY <1>7, <1>9, <2>2, <2>3
  <1> HIDE DEF both
  <1>11. \A k \in 1..(n + 1) : both[k] = p[k]
    <2> SUFFICES ASSUME NEW k \in 1..(n + 1) PROVE both[k] = p[k]
      OBVIOUS
    <2>1. CASE k = 1
      <3>1. both[k] = d
        BY <1>9, <1>10, <2>1
      <3>2. p[k] = show(1)
        BY <1>6, <2>1
      <3>3. QED
        BY <1>3, <3>1, <3>2
    <2>2. CASE k # 1
      <3>1. k - 1 \in 1..n /\ (k - 1) + 1 = k /\ ~(k <= 1)
        BY <2>2
      <3>2. both[k] = r[k - 1]
        BY <1>10, <3>1
      <3>3. r[k - 1] = show(k)
        BY <1>7, <3>1
      <3>4. QED
        BY <1>6, <3>2, <3>3
    <2>3. QED
      BY <2>1, <2>2
  <1>12. both = p
    BY <1>6, <1>10, <1>11, SeqEqual
  <1>13. Append(s, d) = s \o one /\ Append(s, d) \in Seq(Displayed)
    BY <1>8, AppendIsConcat, AppendProperties DEF one
  <1>14. (s \o one) \o r = s \o (one \o r)
    BY <1>7, <1>9, ConcatAssociative, SMTT(40)
  <1>15. Append(s, d) \o r = s \o p
    BY <1>12, <1>13, <1>14 DEF both
  <1>16. QED
    BY <1>13, <1>15 DEF p, r

LEMMA AuthorizationsInvFound ==
  ASSUME NEW i \in Authorizing, KindInv(i) PROVE AuthorizationsInv(i, Known(hash))
  BY DEF KindInv

\* Between two commands every index received has been shown.
LEMMA NonePending ==
  ASSUME NEW i, NEW k, AuthorizationsInv(i, k), screen # "index"
  PROVE  /\ ctx.processed = 0 /\ seen \in Seq(Displayed)
         /\ seen = <<Shown(0, Named(i))>> \o k.shown
  <1>1. ctx.processed = 0
    BY DEF AuthorizationsInv
  <1>2. seen \in Seq(Displayed) /\ seen \o Pending(ctx) = <<Shown(0, Named(i))>> \o k.shown
    BY DEF AuthorizationsInv
  <1>3. QED
    BY <1>1, <1>2, PendingNone

LEMMA AuthorizationsGoOn ==
  ASSUME IInv, NEW i \in Authorizing, currentInstruction' = i, owed' \in BOOLEAN,
         screen' \in Quiet \/ (owed' = TRUE /\ screen' \in {"review", "key", "index", "threshold"}),
         HashOf(i, hash'), AuthorizationsInv(i, Known(hash))', Unsigned
  PROVE  IInv'
  <1>1. KindInv(i)'
    BY Kinds DEF KindInv
  <1>2. i \in MultiCommand
    BY Kinds
  <1>3. screen' \in Quiet \/ (owed' = TRUE /\ screen' \in Dialogs(i))
    BY DialogsOf
  <1>4. screen' # "sign"
    BY DEF Quiet
  <1>5. QED
    BY <1>1, <1>2, <1>3, <1>4, Continued

LEMMA AuthorizationsInitialStep ==
  ASSUME IInv, NEW i \in Authorizing, NEW version \in Versions, NEW n \in 0..MaxKeys,
         AuthorizationsInitial(i, version, n)
  PROVE  IInv'
  <1> DEFINE a == Item("version", version)   b == Item("keys", n)   title == Shown(0, Named(i))
             q == ReadItem(ReadItem(ReadItem(Unread, Named(i)), a), b)
  <1>1. i \in MultiCommand /\ n \in Nat /\ version \in Nat /\ a \in Items /\ b \in Items
    BY Kinds, Constants, ItemsKnown
  <1>2. /\ HashOf(i, hash') /\ Len(hash') = 3 /\ hash'[2] = a /\ Known(hash') = q
    BY <1>1, BeginTwo DEF AuthorizationsInitial
  <1>3. /\ ctx' = [of |-> i, state |-> "KEY", left |-> n, version |-> version, structure |-> 0,
                   size |-> 0, processed |-> 0, pointer |-> 1, buffer |-> NoBatch]
        /\ seen' = <<title>>
        /\ currentInstruction' = i /\ owed' = TRUE /\ screen' = "review" /\ reply' = reply
    BY DEF AuthorizationsInitial, Ask
  <1>4. a.item = "version" /\ a.item \in Parts /\ b.item = "keys" /\ b.n = n
    BY DEF Item, Parts
  <1>5. q = ReadItem(ReadItem(ReadItem(Unread, Named(i)), a), b)
    OBVIOUS
  <1> HIDE DEF q, a, b, title
  <1>6. /\ q.skeleton = <<i, "version", "keys">> /\ q.left = n /\ q.whole
        /\ q.shown = <<>> /\ q.of = "key" /\ q.section = 0
    BY <1>1, <1>4, <1>5, FirstKeys
  <1>7. q.skeleton = Heading(i) \o Structures(0)
    BY <1>6, AuthorizationSkeleton DEF Heading
  <1>8. title \in Displayed
    BY <1>1, KindsAreNames, NamedInItems DEF title, Shown, Displayed
  <1>9. seen' \in Seq(Displayed) /\ seen' = <<title>> \o q.shown
    <2>1. <<>> \in Seq(Displayed)
      BY EmptySeq
    <2>2. <<title>> \o <<>> = <<title>>
      BY <2>1, BehindTitle
    <2>3. QED
      BY <1>3, <1>6, <1>8, <2>2
  <1>10. /\ ctx'.of = i /\ ctx'.state = "KEY" /\ ctx'.left = n /\ ctx'.version = version
         /\ ctx'.structure = 0 /\ ctx'.size = 0 /\ ctx'.processed = 0 /\ ctx'.pointer = 1
         /\ ctx'.buffer \in [1..MaxBatch -> Nat]
    BY <1>3 DEF NoBatch
  <1>11. AuthorizationEnd[version] \in Nat /\ 0 < AuthorizationEnd[version]
    BY Constants
  <1>12. ctx' \in AuthorizationContexts
    <2>1. /\ 0 \in Nat /\ 0 \in 0..MaxStructure /\ 0 \in 0..MaxBatch /\ 1 \in 1..(MaxBatch + 1)
          /\ 0 <= AuthorizationEnd[version] /\ 1 + 0 <= MaxBatch + 1
      BY <1>11, Constants
    <2>2. ctx' \in [of : Authorizing, state : {"KEY", "SIZE", "INDEX", "THRESHOLD"}, left : 0..MaxKeys,
               version : Versions, structure : Nat, size : 0..MaxStructure, processed : 0..MaxBatch,
               pointer : 1..(MaxBatch + 1), buffer : [1..MaxBatch -> Nat]]
      BY <1>3, <1>10, <2>1
    <2>3. QED
      BY <1>10, <2>1, <2>2 DEF AuthorizationContexts
  <1>13. seen' \o Pending(ctx)' = <<title>> \o q.shown
    BY <1>9, <1>10, PendingNone
  <1>14. hash'[2] = Item("version", ctx'.version)
    BY <1>2, <1>10 DEF a
  <1>15. /\ q.whole /\ q.of = "key" /\ q.left = ctx'.left /\ q.section = ctx'.structure
         /\ q.skeleton = Heading(i) \o Structures(ctx'.structure)
         /\ ctx'.structure < AuthorizationEnd[ctx'.version] /\ Len(hash') >= 2
    <2>1. Len(hash') >= 2
      BY <1>2
    <2>2. q.whole /\ q.of = "key" /\ q.left = n /\ q.section = 0
      BY <1>6
    <2>3. ctx'.structure = 0 /\ ctx'.left = n /\ ctx'.version = version
      BY <1>10
    <2>4. QED
      BY <1>7, <1>11, <2>1, <2>2, <2>3
  <1>16. seen' \in Seq(Displayed) /\ screen' = "review" /\ Known(hash') = q
    BY <1>2, <1>3, <1>9
  <1>17. AuthorizationsInv(i, Known(hash))'
    BY <1>10, <1>12, <1>13, <1>14, <1>15, <1>16 DEF AuthorizationsInv, title
  <1>18. QED
    BY <1>2, <1>3, <1>17, AuthorizationsGoOn DEF Unsigned

LEMMA AuthorizationKeyStep ==
  ASSUME IInv, NEW i \in Authorizing, AuthorizationKey(i) PROVE IInv'
  <1> DEFINE k == Known(hash)   it == Named("key")   q == ReadItem(k, it)
             title == Shown(0, Named(i))   d == Shown(0, it)
  <1>1. i \in MultiCommand /\ it \in Items /\ it.item = "key"
    BY Kinds, ItemsKnown DEF Named, Item
  <1>2. /\ ctx.state = "KEY" /\ HashOf(i, hash) /\ AuthorizationsInv(i, k) /\ ctx.left > 0
        /\ screen \in Quiet
    BY <1>1, Found, AuthorizationsInvFound DEF AuthorizationKey
  <1>3. k \in Knowledge
    BY <1>1, Found DEF AuthorizationKey
  <1>4. /\ ctx \in AuthorizationContexts /\ ctx.of = i /\ ctx.structure = 0
        /\ ctx.structure < AuthorizationEnd[ctx.version]
    BY <1>2 DEF AuthorizationsInv
  <1>5. /\ k.skeleton = Heading(i) \o Structures(ctx.structure) /\ k.whole /\ k.of = "key"
        /\ k.left = ctx.left /\ k.section = ctx.structure
    BY <1>2 DEF AuthorizationsInv, Quiet
  <1>6. ctx.processed = 0 /\ seen \in Seq(Displayed) /\ seen = <<title>> \o k.shown
    BY <1>2, NonePending DEF Quiet
  <1>7. /\ HashOf(i, hash') /\ Len(hash') >= 2 /\ hash'[2] = hash[2] /\ Known(hash') = q
    <2>1. Absorb(<<it>>)
      BY DEF AuthorizationKey
    <2>2. Len(hash) \in Nat /\ Len(hash) >= 2
      BY <1>2, LenProperties DEF HashOf, AuthorizationsInv
    <2>3. QED
      BY <1>1, <1>2, <2>1, <2>2, Absorbed
  <1>8. /\ ctx' = [ctx EXCEPT !.left = @ - 1, !.state = IF ctx.left = 1 THEN "SIZE" ELSE @]
        /\ seen' = Append(seen, d)
        /\ currentInstruction' = i /\ owed' = TRUE /\ screen' = "key" /\ reply' = reply
    BY DEF AuthorizationKey, Show, Ask
  <1>9. /\ ctx' \in AuthorizationContexts /\ ctx'.of = i /\ ctx'.left = ctx.left - 1
        /\ ctx'.state = (IF ctx.left = 1 THEN "SIZE" ELSE "KEY") /\ ctx'.version = ctx.version
        /\ ctx'.structure = ctx.structure /\ ctx'.processed = 0
    <2>1. /\ ctx'.of = i /\ ctx'.left = ctx.left - 1
          /\ ctx'.state = (IF ctx.left = 1 THEN "SIZE" ELSE "KEY") /\ ctx'.version = ctx.version
          /\ ctx'.structure = ctx.structure /\ ctx'.size = ctx.size /\ ctx'.processed = ctx.processed
          /\ ctx'.pointer = ctx.pointer /\ ctx'.buffer = ctx.buffer
          /\ ctx' = [of |-> ctx'.of, state |-> ctx'.state, left |-> ctx'.left, version |-> ctx'.version,
                     structure |-> ctx'.structure, size |-> ctx'.size, processed |-> ctx'.processed,
                     pointer |-> ctx'.pointer, buffer |-> ctx'.buffer]
      BY <1>2, <1>4, <1>8 DEF AuthorizationContexts
    <2>2. ctx.left - 1 \in 0..MaxKeys
      BY <1>2, <1>4, AuthorizationFields, Constants
    <2>3. ctx' \in AuthorizationContexts
      BY <1>4, <2>1, <2>2, AuthorizationFields, AuthorizationContextIs
    <2>4. QED
      BY <1>6, <2>1, <2>3
  <1>10. k.shown \in Seq(Displayed) /\ d \in Displayed
    BY <1>1, <1>3 DEF Knowledge, Shown, Displayed
  <1>11. q = ReadItem(k, it)
    OBVIOUS
  <1> HIDE DEF k, it, q, title
  <1>12. /\ q.skeleton = k.skeleton /\ q.left = k.left - 1 /\ q.whole /\ q.of = k.of
         /\ q.section = k.section /\ q.shown = Append(k.shown, d)
    <2>1. it.item \in Announced
      BY <1>1 DEF Announced
    <2>2. Weight(it) = 1
      BY <1>1 DEF Weight
    <2>3. /\ q.skeleton = k.skeleton /\ q.left = k.left - Weight(it) /\ (q.whole <=> k.whole) /\ q.of = k.of
          /\ q.section = k.section /\ q.shown = Append(k.shown, Shown(0, it))
      <3>1. k.of = it.item
        BY <1>1, <1>5
      <3>2. QED
        BY <1>1, <1>3, <1>11, <2>1, <3>1, ReadSome, ZenonT(60)
    <2>4. QED
      BY <1>5, <2>2, <2>3
  <1> HIDE DEF d
  <1>13. seen' = <<title>> \o q.shown /\ seen' \in Seq(Displayed)
    <2>1. Append(<<title>> \o k.shown, d) = <<title>> \o Append(k.shown, d)
      BY <1>10, BehindTitle
    <2>2. Append(seen, d) \in Seq(Displayed)
      BY <1>6, <1>10, AppendProperties
    <2>3. QED
      BY <1>6, <1>8, <1>12, <2>1, <2>2
  <1>14. seen' \o Pending(ctx)' = <<title>> \o q.shown
    BY <1>9, <1>13, PendingNone
  <1>15. hash'[2] = Item("version", ctx'.version)
    BY <1>2, <1>7, <1>9 DEF AuthorizationsInv
  <1>16. /\ ctx'.state \in {"KEY", "SIZE"} /\ q.left = ctx'.left
         /\ ctx'.state = "SIZE" => q.left = 0
    <2>1. ctx.left \in Nat
      BY <1>4, AuthorizationFields
    <2>2. QED
      BY <1>5, <1>9, <1>12, <2>1
  <1>17. q.whole /\ q.of = "key" /\ q.section = ctx'.structure
         /\ q.skeleton = Heading(i) \o Structures(ctx'.structure)
    BY <1>5, <1>9, <1>12
  <1>18. ctx'.structure < AuthorizationEnd[ctx'.version] /\ ctx'.structure = 0
    BY <1>4, <1>9
  <1>19. AuthorizationsInv(i, Known(hash))'
    BY <1>7, <1>8, <1>9, <1>13, <1>14, <1>15, <1>16, <1>17, <1>18 DEF AuthorizationsInv, title
  <1>20. QED
    BY <1>7, <1>8, <1>19, AuthorizationsGoOn DEF Unsigned

LEMMA AccessStructureSizeStep ==
  ASSUME IInv, NEW i \in Authorizing, NEW n \in 0..MaxStructure, AccessStructureSize(i, n)
  PROVE  IInv'
  <1> DEFINE k == Known(hash)   it == Item("size", n)   q == ReadItem(k, it)
             title == Shown(0, Named(i))
  <1>1. i \in MultiCommand /\ n \in Nat /\ it \in Items /\ it.item = "size" /\ it.n = n
    BY Kinds, Constants, ItemsKnown DEF Item
  <1>2. /\ ctx.state = "SIZE" /\ HashOf(i, hash) /\ AuthorizationsInv(i, k) /\ screen \in Quiet
        /\ owed = FALSE
    BY <1>1, Found, AuthorizationsInvFound DEF AccessStructureSize
  <1>3. k \in Knowledge
    BY <1>1, Found DEF AccessStructureSize
  <1>4. /\ ctx \in AuthorizationContexts /\ ctx.of = i
        /\ ctx.structure < AuthorizationEnd[ctx.version]
    BY <1>2 DEF AuthorizationsInv
  <1>5. /\ k.skeleton = Heading(i) \o Structures(ctx.structure) /\ k.whole
        /\ k.left = 0 /\ k.section = ctx.structure
    BY <1>2 DEF AuthorizationsInv, Quiet
  <1>6. ctx.processed = 0 /\ seen \in Seq(Displayed) /\ seen = <<title>> \o k.shown
    BY <1>2, NonePending DEF Quiet
  <1>7. /\ HashOf(i, hash') /\ Len(hash') >= 2 /\ hash'[2] = hash[2] /\ Known(hash') = q
    <2>1. Absorb(<<it>>)
      BY DEF AccessStructureSize
    <2>2. Len(hash) \in Nat /\ Len(hash) >= 2
      BY <1>2, LenProperties DEF HashOf, AuthorizationsInv
    <2>3. QED
      BY <1>1, <1>2, <2>1, <2>2, Absorbed
  <1>8. /\ ctx' = [ctx EXCEPT !.size = n, !.state = "INDEX"]
        /\ seen' = seen /\ currentInstruction' = i /\ owed' = FALSE /\ screen' = screen /\ reply' = Success
    BY DEF AccessStructureSize, AnswerNow
  <1>9. /\ ctx' \in AuthorizationContexts /\ ctx'.of = i /\ ctx'.size = n
        /\ ctx'.state = "INDEX" /\ ctx'.version = ctx.version
        /\ ctx'.structure = ctx.structure /\ ctx'.processed = 0
    <2>1. /\ ctx'.of = i /\ ctx'.left = ctx.left
          /\ ctx'.state = "INDEX" /\ ctx'.version = ctx.version
          /\ ctx'.structure = ctx.structure /\ ctx'.size = n /\ ctx'.processed = ctx.processed
          /\ ctx'.pointer = ctx.pointer /\ ctx'.buffer = ctx.buffer
          /\ ctx' = [of |-> ctx'.of, state |-> ctx'.state, left |-> ctx'.left, version |-> ctx'.version,
                     structure |-> ctx'.structure, size |-> ctx'.size, processed |-> ctx'.processed,
                     pointer |-> ctx'.pointer, buffer |-> ctx'.buffer]
      BY <1>2, <1>4, <1>8 DEF AuthorizationContexts
    <2>2. ctx' \in AuthorizationContexts
      BY <1>4, <2>1, AuthorizationFields, AuthorizationContextIs
    <2>3. QED
      BY <1>6, <2>1, <2>2
  <1>10. q = ReadItem(k, it)
    OBVIOUS
  <1> HIDE DEF k, it, q, title
  <1>11. /\ q.skeleton = Append(k.skeleton, "size") /\ q.left = n /\ q.whole /\ q.of = "index"
         /\ q.section = k.section + 1 /\ q.shown = k.shown
    <2>1. /\ q.skeleton = Append(k.skeleton, it.item) /\ q.of = AnnouncedBy[it.item] /\ q.left = it.n
          /\ (q.whole <=> k.whole /\ k.left = 0)
          /\ q.section = k.section + (IF it.item \in {"size", "textLength"} THEN 1 ELSE 0)
          /\ q.shown = k.shown
      BY <1>1, <1>3, <1>10, ReadNumber
    <2>2. QED
      BY <1>1, <1>5, <2>1, AnnouncersAre
  <1>12. seen' \o Pending(ctx)' = <<title>> \o q.shown /\ seen' \in Seq(Displayed)
    <2>1. seen' \in Seq(Displayed) /\ seen' = <<title>> \o q.shown
      BY <1>6, <1>8, <1>11
    <2>2. QED
      BY <1>9, <2>1, PendingNone
  <1>13. hash'[2] = Item("version", ctx'.version)
    BY <1>2, <1>7, <1>9 DEF AuthorizationsInv
  <1>14. /\ q.whole /\ q.of = "index" /\ q.left = ctx'.size - ctx'.processed
         /\ q.section = ctx'.structure + 1
         /\ q.skeleton = Append(Heading(i) \o Structures(ctx'.structure), "size")
    BY <1>1, <1>5, <1>9, <1>11
  <1>15. ctx'.structure < AuthorizationEnd[ctx'.version]
    BY <1>4, <1>9
  <1>16. screen' \in Quiet /\ screen' # "threshold"
    BY <1>2, <1>8 DEF Quiet
  <1>17. AuthorizationsInv(i, Known(hash))'
    BY <1>7, <1>9, <1>12, <1>13, <1>14, <1>15, <1>16 DEF AuthorizationsInv, title
  <1>18. QED
    BY <1>7, <1>8, <1>16, <1>17, AuthorizationsGoOn DEF Unsigned

(***************************************************************************)
(* A batch of key indices, and one of them shown.                          *)
(***************************************************************************)
\* What an index batch adds: an item, and a dialog, for each.
BatchItems(batch) == [b \in DOMAIN batch |-> Item("index", batch[b])]
BatchShown(section, batch, n) == [b \in 1..n |-> Shown(section, Item("index", batch[b]))]

\* What is known then of the hash and of its reading, from k to q.
BatchRead(i, k, q, batch, n) ==
  /\ HashOf(i, hash') /\ Len(hash') >= Len(hash)
  /\ \A b \in 1..Len(hash) : hash'[b] = hash[b]
  /\ q \in Knowledge /\ q.skeleton = k.skeleton /\ q.of = "index" /\ q.left = k.left - n
  /\ (q.whole <=> k.whole) /\ q.section = k.section
  /\ BatchShown(k.section, batch, n) \in Seq(Displayed)
  /\ q.shown = k.shown \o BatchShown(k.section, batch, n)

LEMMA BatchHashed ==
  ASSUME NEW i, HashOf(i, hash), NEW n \in 0..MaxBatch, NEW batch \in [1..n -> KeyIndices],
         Absorb(BatchItems(batch)), NEW k, k = Known(hash), k.of = "index",
         NEW q, q = Known(hash')
  PROVE  BatchRead(i, k, q, batch, n)
  <1> DEFINE t == BatchItems(batch)   show(b) == BatchShown(k.section, batch, b)
  <1>1. n \in Nat /\ MaxBatch \in Nat /\ \A b \in 1..n : batch[b] \in Nat
    <2>1. \A b \in 1..n : batch[b] \in KeyIndices
      OBVIOUS
    <2>2. KeyIndices \subseteq Nat /\ MaxBatch \in Nat
      BY Constants
    <2>3. n \in Nat
      BY <2>2
    <2>4. \A b \in 1..n : batch[b] \in Nat
      BY <2>1, <2>2
    <2>5. QED
      BY <2>2, <2>3, <2>4
  <1>2. t \in Seq(Items) /\ Len(t) = n /\ \A b \in 1..n : t[b] = Item("index", batch[b])
    <2>1. t \in [1..n -> Items] /\ \A b \in 1..n : t[b] = Item("index", batch[b])
      BY <1>1, ItemsKnown DEF BatchItems
    <2> HIDE DEF t
    <2>2. t \in Seq(Items)
      BY <1>1, <2>1, SeqDef
    <2>3. Len(t) = n
      BY <1>1, <2>1, <2>2, LenProperties
    <2>4. QED
      BY <2>1, <2>2, <2>3
  <1>3. hash \in Seq(Items) /\ Len(hash) \in Nat /\ Len(hash) >= 1 /\ hash[1] = Named(i)
    BY LenProperties DEF HashOf
  <1>4. hash' = hash \o t
    BY DEF Absorb
  <1>5. k \in Knowledge
    BY <1>3, KnownType
  <1> HIDE DEF t
  <1>6. /\ hash' \in Seq(Items) /\ Len(hash') = Len(hash) + n
        /\ \A b \in 1..Len(hash) : hash'[b] = hash[b]
    <2>1. /\ hash' \in Seq(Items) /\ Len(hash') = Len(hash) + Len(t)
          /\ \A b \in 1..(Len(hash) + Len(t)) :
               hash'[b] = IF b <= Len(hash) THEN hash[b] ELSE t[b - Len(hash)]
      BY <1>2, <1>3, <1>4, ConcatProperties
    <2>2. Len(hash) \in Nat /\ Len(t) = n /\ n \in Nat
      BY <1>1, <1>2, <1>3
    <2>3. ASSUME NEW b \in 1..Len(hash) PROVE hash'[b] = hash[b]
      <3>1. b \in 1..(Len(hash) + Len(t)) /\ b <= Len(hash)
        BY <2>2
      <3>2. QED
        BY <2>1, <3>1
    <2>4. QED
      BY <2>1, <2>2, <2>3
  <1>7. \A b \in 0..n : show(b) \in Seq(Displayed) /\ Len(show(b)) = b
                        /\ \A c \in 1..b : show(b)[c] = Shown(k.section, Item("index", batch[c]))
    <2> SUFFICES ASSUME NEW b \in 0..n
                 PROVE  show(b) \in Seq(Displayed) /\ Len(show(b)) = b
                        /\ \A c \in 1..b : show(b)[c] = Shown(k.section, Item("index", batch[c]))
      OBVIOUS
    <2>1. b \in Nat /\ \A c \in 1..b : c \in 1..n
      BY <1>1
    <2>2. \A c \in 1..b : Shown(k.section, Item("index", batch[c])) \in Displayed
      <3>1. k.section \in Nat /\ \A c \in 1..b : Item("index", batch[c]) \in Items
        BY <1>1, <1>5, <2>1, ItemsKnown DEF Knowledge
      <3>2. QED
        BY <3>1 DEF Shown, Displayed
    <2>3. show(b) \in [1..b -> Displayed]
          /\ \A c \in 1..b : show(b)[c] = Shown(k.section, Item("index", batch[c]))
      BY <2>2 DEF BatchShown
    <2> HIDE DEF show
    <2>4. show(b) \in Seq(Displayed)
      BY <2>1, <2>3, SeqDef
    <2>5. Len(show(b)) = b
      BY <2>1, <2>3, <2>4, LenProperties
    <2>6. QED
      BY <2>3, <2>4, <2>5
  <1> HIDE DEF show
  <1> DEFINE Like(b, r) == /\ r \in Knowledge /\ r.skeleton = k.skeleton /\ r.of = "index"
                           /\ r.left = k.left - b /\ (r.whole <=> k.whole) /\ r.section = k.section
                           /\ r.shown = k.shown \o show(b)
             V == {p \in Nat \X Knowledge : Like(p[1], p[2])}
  <1>8. \A b, r : <<b, r>> \in V <=> b \in Nat /\ Like(b, r)
    OBVIOUS
  <1>9. Like(0, k)
    <2>1. show(0) = <<>>
      BY DEF show, BatchShown
    <2>2. k.shown \in Seq(Displayed) /\ k.left \in Int
      BY <1>5 DEF Knowledge
    <2>3. k.shown \o <<>> = k.shown
      BY <2>2, ConcatEmptySeq
    <2>4. QED
      BY <1>5, <2>1, <2>2, <2>3
  <1>10. \A b \in 0..(n - 1) : \A r : Like(b, r) => Like(b + 1, ReadItem(r, t[b + 1]))
    <2> SUFFICES ASSUME NEW b \in 0..(n - 1), NEW r, Like(b, r)
                 PROVE  Like(b + 1, ReadItem(r, t[b + 1]))
      OBVIOUS
    <2> DEFINE it == t[b + 1]   w == ReadItem(r, it)   d == Shown(k.section, it)
    <2>1. b \in 0..n /\ b + 1 \in 0..n /\ b + 1 \in 1..n /\ b \in Nat
      BY <1>1
    <2>2. it = Item("index", batch[b + 1]) /\ batch[b + 1] \in Nat
      BY <1>1, <1>2, <2>1
    <2>3. it \in Items /\ it.item = "index" /\ it.item \in Announced /\ Weight(it) = 1
      BY <2>2, ItemsKnown DEF Item, Announced, Weight
    <2>4. w = ReadItem(r, it)
      OBVIOUS
    <2>5. r \in Knowledge /\ r.of = it.item /\ r.section = k.section
      BY <2>3
    <2>6. k.shown \in Seq(Displayed) /\ k.left \in Int /\ k.section \in Nat
      BY <1>5 DEF Knowledge
    <2>7. show(b + 1) = Append(show(b), d) /\ d \in Displayed
      <3>1. d \in Displayed
        BY <2>3, <2>6 DEF Shown, Displayed
      <3>2. show(b) \in Seq(Displayed) /\ Len(show(b)) = b
            /\ \A c \in 1..b : show(b)[c] = Shown(k.section, Item("index", batch[c]))
        BY <1>7, <2>1
      <3>3. show(b + 1) \in Seq(Displayed) /\ Len(show(b + 1)) = b + 1
            /\ \A c \in 1..(b + 1) : show(b + 1)[c] = Shown(k.section, Item("index", batch[c]))
        BY <1>7, <2>1
      <3> DEFINE g == Append(show(b), d)
      <3>4. /\ g \in Seq(Displayed) /\ Len(g) = b + 1 /\ g[b + 1] = d
            /\ \A c \in 1..b : g[c] = show(b)[c]
        BY <2>1, <3>1, <3>2, Longer
      <3>5. \A c \in 1..(b + 1) : g[c] = show(b + 1)[c]
        <4> HIDE DEF g
        <4> SUFFICES ASSUME NEW c \in 1..(b + 1) PROVE g[c] = show(b + 1)[c]
          OBVIOUS
        <4>1. CASE c = b + 1
          BY <2>2, <3>3, <3>4, <4>1
        <4>2. CASE c \in 1..b
          BY <3>2, <3>3, <3>4, <4>2
        <4>3. QED
          BY <2>1, <4>1, <4>2
      <3> HIDE DEF g
      <3>6. g = show(b + 1)
        BY <3>3, <3>4, <3>5, SeqEqual
      <3>7. QED
        BY <3>1, <3>6 DEF g
    <2> HIDE DEF it, w, d
    <2>8. /\ w \in Knowledge /\ w.skeleton = r.skeleton /\ w.of = r.of /\ w.left = r.left - Weight(it)
          /\ (w.whole <=> r.whole) /\ w.section = r.section
          /\ w.shown = Append(r.shown, Shown(r.section, it))
      BY <2>3, <2>4, <2>5, ReadSome, ZenonT(60)
    <2>9. w.shown = k.shown \o show(b + 1)
      <3>1. w.shown = Append(k.shown \o show(b), d)
        BY <2>5, <2>8 DEF d
      <3>2. <<d>> \in Seq(Displayed) /\ show(b) \in Seq(Displayed)
        BY <1>7, <2>1, <2>7
      <3>3. k.shown \o show(b) \in Seq(Displayed)
        BY <2>6, <3>2, ConcatProperties
      <3>4. /\ Append(k.shown \o show(b), d) = (k.shown \o show(b)) \o <<d>>
            /\ Append(show(b), d) = show(b) \o <<d>>
        BY <2>7, <3>2, <3>3, AppendIsConcat
      <3>5. (k.shown \o show(b)) \o <<d>> = k.shown \o (show(b) \o <<d>>)
        <4> DEFINE one == <<d>>   x == k.shown   y == show(b)
        <4>1. one \in Seq(Displayed) /\ x \in Seq(Displayed) /\ y \in Seq(Displayed)
          BY <2>6, <3>2
        <4> HIDE DEF one, x, y
        <4>2. (x \o y) \o one = x \o (y \o one)
          BY <4>1, ConcatAssociative, SMTT(40)
        <4>3. QED
          BY <4>2 DEF one, x, y
      <3>6. show(b + 1) = show(b) \o <<d>>
        BY <2>7, <3>4
      <3>7. QED
        BY <3>1, <3>4, <3>5, <3>6
    <2>10. w.left = k.left - (b + 1)
      <3>1. r.left = k.left - b
        OBVIOUS
      <3>2. w.left = r.left - 1
        BY <2>3, <2>8
      <3>3. \A x \in Int : (x - b) - 1 = x - (b + 1)
        BY <2>1
      <3>4. QED
        BY <2>6, <3>1, <3>2, <3>3
    <2>11. r.skeleton = k.skeleton /\ r.of = "index" /\ (r.whole <=> k.whole)
      OBVIOUS
    <2>12. Like(b + 1, w)
      BY <2>5, <2>8, <2>9, <2>10, <2>11
    <2>13. QED
      BY <2>12 DEF w, it
  <1>11. <<Len(t), TransactionProofs!After(hash \o t)>> \in V
    <2>1. <<0, TransactionProofs!After(hash)>> \in V
      BY <1>8, <1>9, KnownIs
    <2>2. \A b \in 0..(Len(t) - 1) : \A r : <<b, r>> \in V => <<b + 1, ReadItem(r, t[b + 1])>> \in V
      <3> HIDE DEF V, Like
      <3>1. \A b \in 0..(Len(t) - 1) : b + 1 \in Nat
        BY <1>1, <1>2
      <3>2. QED
        BY <1>2, <1>8, <1>10, <3>1
    <2> HIDE DEF V, Like
    <2>3. QED
      BY <1>2, <1>3, <2>1, <2>2, TransactionProofs!AfterConcat
  <1>12. Like(n, q)
    BY <1>2, <1>4, <1>8, <1>11, KnownIs
  <1>13. HashOf(i, hash')
    BY <1>1, <1>3, <1>6 DEF HashOf
  <1>14. n \in 0..n /\ Len(hash') >= Len(hash)
    BY <1>1, <1>3, <1>6
  <1>15. BatchShown(k.section, batch, n) \in Seq(Displayed)
    BY <1>7, <1>14 DEF show
  <1>16. QED
    BY <1>6, <1>12, <1>13, <1>14, <1>15 DEF show, BatchRead

LEMMA IndexingOf ==
  ASSUME NEW i, NEW k, AuthorizationsInv(i, k), ctx.state = "INDEX"
  PROVE  /\ ctx \in AuthorizationContexts /\ ctx.of = i
         /\ ctx.structure < AuthorizationEnd[ctx.version]
         /\ Len(hash) >= 2 /\ hash[2] = Item("version", ctx.version)
         /\ k.whole /\ k.of = "index" /\ k.left = ctx.size - ctx.processed
         /\ k.section = ctx.structure + 1
         /\ screen # "threshold" => k.skeleton = Append(Heading(i) \o Structures(ctx.structure), "size")
         /\ screen = "threshold" => FALSE
         /\ seen \in Seq(Displayed) /\ seen \o Pending(ctx) = <<Shown(0, Named(i))>> \o k.shown
  BY DEF AuthorizationsInv

\* What processKeyIndices finds: in c the context, in q what has been hashed.
Indexing(i, c, q, h, s) ==
  /\ c \in AuthorizationContexts /\ c.of = i /\ c.state = "INDEX"
  /\ c.structure < AuthorizationEnd[c.version]
  /\ HashOf(i, h) /\ Len(h) >= 2 /\ h[2] = Item("version", c.version)
  /\ q.whole /\ q.of = "index" /\ q.left = c.size - c.processed
  /\ q.section = c.structure + 1
  /\ q.skeleton = Append(Heading(i) \o Structures(c.structure), "size")
  /\ s \in Seq(Displayed) /\ s \o Pending(c) = <<Shown(0, Named(i))>> \o q.shown

\* The batch is done, and with it perhaps the structure.
LEMMA BatchDone ==
  ASSUME IInv, NEW i \in Authorizing, NEW c, NEW q, Indexing(i, c, q, hash', seen), q = Known(hash'),
         c.processed = 0, ctx' = IF c.size = 0 THEN [c EXCEPT !.state = "THRESHOLD"] ELSE c,
         seen' = seen, currentInstruction' = i, owed' \in BOOLEAN, screen' \in Quiet, Unsigned
  PROVE  IInv'
  <1>1. /\ c \in AuthorizationContexts /\ c.of = i /\ c.state = "INDEX"
        /\ c.structure < AuthorizationEnd[c.version]
    BY DEF Indexing
  <1>2. /\ HashOf(i, hash') /\ Len(hash') >= 2 /\ hash'[2] = Item("version", c.version)
        /\ q.whole /\ q.of = "index" /\ q.left = c.size - c.processed
        /\ q.section = c.structure + 1
        /\ q.skeleton = Append(Heading(i) \o Structures(c.structure), "size")
    BY DEF Indexing
  <1>3. seen \in Seq(Displayed) /\ seen = <<Shown(0, Named(i))>> \o q.shown
    BY PendingNone DEF Indexing
  <1>4. /\ ctx' \in AuthorizationContexts /\ ctx'.of = i /\ ctx'.size = c.size /\ ctx'.processed = 0
        /\ ctx'.version = c.version /\ ctx'.structure = c.structure
        /\ ctx'.state = IF c.size = 0 THEN "THRESHOLD" ELSE "INDEX"
    <2>1. CASE c.size # 0
      BY <1>1, <2>1
    <2>2. CASE c.size = 0
      <3>1. ctx' = [c EXCEPT !.state = "THRESHOLD"]
        BY <2>2
      <3>2. /\ ctx'.of = c.of /\ ctx'.left = c.left /\ ctx'.state = "THRESHOLD"
            /\ ctx'.version = c.version /\ ctx'.structure = c.structure
            /\ ctx'.size = c.size /\ ctx'.processed = c.processed
            /\ ctx'.pointer = c.pointer /\ ctx'.buffer = c.buffer
            /\ ctx' = [of |-> ctx'.of, state |-> ctx'.state, left |-> ctx'.left, version |-> ctx'.version,
                       structure |-> ctx'.structure, size |-> ctx'.size, processed |-> ctx'.processed,
                       pointer |-> ctx'.pointer, buffer |-> ctx'.buffer]
        BY <1>1, <3>1 DEF AuthorizationContexts
      <3>3. ctx' \in AuthorizationContexts
        BY <1>1, <3>2, AuthorizationFields, AuthorizationContextIs
      <3>4. QED
        BY <1>1, <2>2, <3>2, <3>3
    <2>3. QED
      BY <2>1, <2>2
  <1>5. seen' \in Seq(Displayed) /\ seen' \o Pending(ctx)' = <<Shown(0, Named(i))>> \o q.shown
    BY <1>3, <1>4, PendingNone
  <1>6. /\ ctx'.state = "THRESHOLD" => q.left = 0
        /\ ctx'.state = "INDEX" => q.left = ctx'.size - ctx'.processed
        /\ ctx'.state \in {"INDEX", "THRESHOLD"}
    BY <1>2, <1>4
  <1>7. /\ q.whole /\ q.of = "index" /\ q.section = ctx'.structure + 1
        /\ q.skeleton = Append(Heading(i) \o Structures(ctx'.structure), "size")
        /\ ctx'.structure < AuthorizationEnd[ctx'.version]
        /\ hash'[2] = Item("version", ctx'.version)
    BY <1>1, <1>2, <1>4
  <1>8. screen' # "index" /\ screen' # "threshold"
    BY DEF Quiet
  <1>9. AuthorizationsInv(i, Known(hash))'
    BY <1>2, <1>4, <1>5, <1>6, <1>7, <1>8 DEF AuthorizationsInv
  <1>10. QED
    BY <1>2, <1>9, AuthorizationsGoOn

\* The next index of the batch is on display.
LEMMA IndexOnDisplay ==
  ASSUME IInv, NEW i \in Authorizing, NEW c, NEW q, Indexing(i, c, q, hash', seen), q = Known(hash'),
         c.processed > 0, c.size > 0,
         ctx' = [c EXCEPT !.pointer = @ + 1, !.size = @ - 1, !.processed = @ - 1],
         seen' = Append(seen, Shown(c.structure + 1, Item("index", c.buffer[c.pointer]))),
         currentInstruction' = i, owed' = TRUE, screen' = "index", Unsigned
  PROVE  IInv'
  <1>1. /\ c \in AuthorizationContexts /\ c.of = i /\ c.state = "INDEX"
        /\ c.structure < AuthorizationEnd[c.version]
    BY DEF Indexing
  <1>2. /\ HashOf(i, hash') /\ Len(hash') >= 2 /\ hash'[2] = Item("version", c.version)
        /\ q.whole /\ q.of = "index" /\ q.left = c.size - c.processed
        /\ q.section = c.structure + 1
        /\ q.skeleton = Append(Heading(i) \o Structures(c.structure), "size")
    BY DEF Indexing
  <1>3. seen \in Seq(Displayed) /\ seen \o Pending(c) = <<Shown(0, Named(i))>> \o q.shown
    BY DEF Indexing
  <1> DEFINE n == c.processed - 1   z == c.size
  <1>4. n \in Nat /\ c.processed = n + 1 /\ z \in Nat
    <2>1. c.processed \in Nat /\ z \in Nat
      BY <1>1, AuthorizationFields
    <2>2. QED
      BY <2>1
  <1>5. /\ ctx' \in AuthorizationContexts /\ ctx'.of = i /\ ctx'.state = "INDEX"
        /\ ctx'.version = c.version /\ ctx'.structure = c.structure /\ ctx'.buffer = c.buffer
        /\ ctx'.size = z - 1 /\ ctx'.processed = n /\ ctx'.pointer = c.pointer + 1
    BY <1>1, IndexTaken
  <1> HIDE DEF n, z
  <1>6. seen' \in Seq(Displayed) /\ seen' \o Pending(ctx)' = <<Shown(0, Named(i))>> \o q.shown
    <2>1. c \in AuthorizationContexts /\ seen \in Seq(Displayed)
      BY <1>1, <1>3
    <2> DEFINE d == Shown(c.structure + 1, Item("index", c.buffer[c.pointer]))   e == ctx'
    <2>2. seen' = Append(seen, d) /\ d = Shown(c.structure + 1, Item("index", c.buffer[c.pointer]))
      OBVIOUS
    <2>3. /\ e.structure = c.structure /\ e.buffer = c.buffer /\ e.processed = n
          /\ e.pointer = c.pointer + 1
      BY <1>5
    <2> HIDE DEF d, e
    <2>4. Append(seen, d) \in Seq(Displayed) /\ Append(seen, d) \o Pending(e) = seen \o Pending(c)
      BY <1>4, <2>1, <2>2, <2>3, PendingOne, SMTT(40)
    <2>5. Pending(ctx)' = Pending(e)
      BY DEF Pending, e
    <2>6. QED
      BY <1>3, <2>2, <2>4, <2>5
  <1>7. q.left = ctx'.size - ctx'.processed
    <2>1. q.left = z - (n + 1)
      BY <1>2, <1>4 DEF z
    <2>2. z - (n + 1) = (z - 1) - n
      BY <1>4
    <2>3. QED
      BY <1>5, <2>1, <2>2
  <1>8. /\ q.whole /\ q.of = "index" /\ q.section = ctx'.structure + 1
        /\ q.skeleton = Append(Heading(i) \o Structures(ctx'.structure), "size")
        /\ ctx'.structure < AuthorizationEnd[ctx'.version]
        /\ hash'[2] = Item("version", ctx'.version)
    BY <1>1, <1>2, <1>5
  <1>9. AuthorizationsInv(i, Known(hash))'
    BY <1>2, <1>5, <1>6, <1>7, <1>8 DEF AuthorizationsInv
  <1>10. QED
    BY <1>2, <1>9, AuthorizationsGoOn

LEMMA AuthorizationContextKept ==
  ASSUME NEW c \in AuthorizationContexts PROVE ctx' = c => ContextInv'
  BY DEF ContextInv

LEMMA AccessStructureStep ==
  ASSUME IInv, NEW i \in Authorizing, NEW n \in 0..MaxBatch, NEW batch \in [1..n -> KeyIndices],
         AccessStructure(i, batch)
  PROVE  IInv'
  <1> DEFINE k == Known(hash)   q == Known(hash')   title == Shown(0, Named(i))
             c == [ctx EXCEPT !.pointer = 1, !.processed = Len(batch),
                     !.buffer = [b \in 1..MaxBatch |-> IF b <= Len(batch) THEN batch[b] ELSE @[b]]]
  <1>1. i \in MultiCommand
    BY Kinds
  <1>2. /\ ctx.state = "INDEX" /\ HashOf(i, hash) /\ AuthorizationsInv(i, k) /\ screen \in Quiet
        /\ owed = FALSE
    BY <1>1, Found, AuthorizationsInvFound DEF AccessStructure
  <1>3. /\ ctx \in AuthorizationContexts /\ ctx.of = i /\ ctx.structure < AuthorizationEnd[ctx.version]
        /\ Len(hash) >= 2 /\ hash[2] = Item("version", ctx.version)
        /\ k.whole /\ k.of = "index" /\ k.left = ctx.size - ctx.processed
        /\ k.section = ctx.structure + 1
        /\ k.skeleton = Append(Heading(i) \o Structures(ctx.structure), "size")
    BY <1>2, IndexingOf DEF Quiet
  <1>4. ctx.processed = 0 /\ seen \in Seq(Displayed) /\ seen = <<title>> \o k.shown
    BY <1>2, NonePending DEF Quiet
  <1>5. n \in Nat /\ Len(batch) = n /\ MaxBatch \in Nat /\ n <= MaxBatch /\ MaxBatch > 0
    BY Constants
  <1>6. /\ c.of = i /\ c.state = "INDEX" /\ c.left = ctx.left /\ c.version = ctx.version
        /\ c.structure = ctx.structure /\ c.size = ctx.size /\ c.processed = n /\ c.pointer = 1
        /\ c.buffer = [b \in 1..MaxBatch |-> IF b <= n THEN batch[b] ELSE ctx.buffer[b]]
        /\ c = [of |-> c.of, state |-> c.state, left |-> c.left, version |-> c.version,
                structure |-> c.structure, size |-> c.size, processed |-> c.processed,
                pointer |-> c.pointer, buffer |-> c.buffer]
    <2> DEFINE buffer == [b \in 1..MaxBatch |-> IF b <= n THEN batch[b] ELSE ctx.buffer[b]]
    <2>1. c = [ctx EXCEPT !.pointer = 1, !.processed = n, !.buffer = buffer]
      BY <1>5
    <2> HIDE DEF c, buffer
    <2>2. /\ c.of = ctx.of /\ c.state = ctx.state /\ c.left = ctx.left /\ c.version = ctx.version
          /\ c.structure = ctx.structure /\ c.size = ctx.size /\ c.processed = n /\ c.pointer = 1
          /\ c.buffer = buffer
          /\ c = [of |-> c.of, state |-> c.state, left |-> c.left, version |-> c.version,
                  structure |-> c.structure, size |-> c.size, processed |-> c.processed,
                  pointer |-> c.pointer, buffer |-> c.buffer]
      BY <1>3, <2>1 DEF AuthorizationContexts
    <2>3. QED
      BY <1>2, <1>3, <2>2 DEF buffer
  <1>7. Absorb(BatchItems(batch))
    BY DEF AccessStructure, BatchItems
  <1>8. processKeyIndices(c, AnswerNow(i), Refuse, Ask(i, "index"))
    BY DEF AccessStructure
  <1>9. k = Known(hash) /\ q = Known(hash')
    OBVIOUS
  <1> HIDE DEF k, q, title, c
  <1>10. \A b \in 1..n : batch[b] \in KeyIndices /\ batch[b] \in Nat
    <2>1. KeyIndices \subseteq Nat
      BY Constants
    <2>2. \A b \in 1..n : batch[b] \in KeyIndices
      OBVIOUS
    <2>3. QED
      BY <2>1, <2>2
  <1>11. c.buffer \in [1..MaxBatch -> Nat] /\ \A b \in 1..n : c.buffer[b] = batch[b]
    <2>1. ctx.buffer \in [1..MaxBatch -> Nat]
      BY <1>3, AuthorizationFields
    <2>2. \A b \in 1..MaxBatch : b <= n => b \in 1..n
      BY <1>5
    <2>3. \A b \in 1..n : b \in 1..MaxBatch /\ b <= n
      BY <1>5
    <2>4. \A b \in 1..MaxBatch : (IF b <= n THEN batch[b] ELSE ctx.buffer[b]) \in Nat
      BY <1>10, <2>1, <2>2
    <2>5. QED
      BY <1>6, <2>3, <2>4
  <1>12. c \in AuthorizationContexts
    <2>1. c.processed \in 0..MaxBatch /\ c.pointer \in 1..(MaxBatch + 1) /\ c.pointer + c.processed <= MaxBatch + 1
      BY <1>5, <1>6
    <2>2. /\ c.state \in {"KEY", "SIZE", "INDEX", "THRESHOLD"} /\ c.left \in 0..MaxKeys
          /\ c.structure \in Nat /\ c.size \in 0..MaxStructure /\ c.structure <= AuthorizationEnd[c.version]
      BY <1>3, <1>6, AuthorizationFields
    <2>3. c.of = ctx.of /\ c.version = ctx.version
      BY <1>3, <1>6
    <2>4. QED
      BY <1>3, <1>6, <1>11, <2>1, <2>2, <2>3, AuthorizationContextIs
  <1>13. /\ HashOf(i, hash') /\ Len(hash') >= Len(hash)
         /\ \A b \in 1..Len(hash) : hash'[b] = hash[b]
         /\ q \in Knowledge /\ q.skeleton = k.skeleton /\ q.of = "index" /\ q.left = k.left - n
         /\ (q.whole <=> k.whole) /\ q.section = k.section
         /\ BatchShown(k.section, batch, n) \in Seq(Displayed)
         /\ q.shown = k.shown \o BatchShown(k.section, batch, n)
    <2>1. HashOf(i, hash) /\ k.of = "index"
      BY <1>2, <1>3
    <2>2. BatchRead(i, k, q, batch, n)
      BY <1>7, <1>9, <2>1, BatchHashed
    <2>3. QED
      BY <2>2 DEF BatchRead
  <1>14. Pending(c) = BatchShown(k.section, batch, n)
    <2>1. \A b \in 1..n : 1 + b - 1 = b
      BY <1>5
    <2>2. \A b \in 1..n : c.buffer[c.pointer + b - 1] = batch[b]
      BY <1>6, <1>11, <2>1
    <2>3. Pending(c) = [b \in 1..n |-> Shown(c.structure + 1, Item("index", c.buffer[c.pointer + b - 1]))]
      BY <1>6 DEF Pending
    <2>4. k.section = c.structure + 1
      BY <1>3, <1>6
    <2>5. QED
      BY <2>2, <2>3, <2>4 DEF BatchShown
  <1>15. seen \o Pending(c) = <<title>> \o q.shown
    <2> DEFINE one == <<title>>   x == k.shown   y == BatchShown(k.section, batch, n)
    <2>1. title \in Displayed
      BY <1>1, KindsAreNames, NamedInItems DEF title, Shown, Displayed
    <2>2. one \in Seq(Displayed)
      BY <2>1
    <2>3. x \in Seq(Displayed)
      <3>1. k \in Knowledge
        BY <1>1, Found DEF AccessStructure, k
      <3>2. QED
        BY <3>1 DEF Knowledge
    <2>4. y \in Seq(Displayed)
      BY <1>13
    <2>5. seen = one \o x /\ q.shown = x \o y /\ Pending(c) = y
      BY <1>4, <1>13, <1>14
    <2> HIDE DEF one, x, y
    <2>6. (one \o x) \o y = one \o (x \o y)
      BY <2>2, <2>3, <2>4, ConcatAssociative, SMTT(40)
    <2>7. seen \o Pending(c) = one \o q.shown
      BY <2>5, <2>6
    <2>8. QED
      BY <2>7 DEF one
  <1>16. Indexing(i, c, q, hash', seen)
    <2>1. Len(hash') >= 2 /\ hash'[2] = hash[2]
      <3>1. Len(hash) \in Nat /\ Len(hash') \in Nat
        BY <1>2, <1>13, LenProperties DEF HashOf
      <3>2. 2 \in 1..Len(hash)
        BY <1>3, <3>1
      <3>3. QED
        BY <1>3, <1>13, <3>1, <3>2
    <2>2. hash'[2] = Item("version", c.version)
      BY <1>3, <1>6, <2>1
    <2>3. q.left = c.size - c.processed
      <3>1. ctx.size \in Nat
        BY <1>3, AuthorizationFields
      <3>2. QED
        BY <1>3, <1>4, <1>5, <1>6, <1>13, <3>1
    <2>4. /\ q.whole /\ q.of = "index" /\ q.section = c.structure + 1
          /\ q.skeleton = Append(Heading(i) \o Structures(c.structure), "size")
          /\ c.structure < AuthorizationEnd[c.version]
      BY <1>3, <1>6, <1>13
    <2>5. HashOf(i, hash')
      BY <1>13
    <2>6. seen \in Seq(Displayed)
      BY <1>4
    <2>7. QED
      BY <1>6, <1>12, <1>15, <2>1, <2>2, <2>3, <2>4, <2>5, <2>6 DEF Indexing, title
  <1>17. \/ ctx' = c /\ Refuse
         \/ /\ c.processed = 0
            /\ ctx' = IF c.size = 0 THEN [c EXCEPT !.state = "THRESHOLD"] ELSE c
            /\ AnswerNow(i) /\ seen' = seen
         \/ /\ c.size > 0 /\ c.processed > 0
            /\ ctx' = [c EXCEPT !.pointer = @ + 1, !.size = @ - 1, !.processed = @ - 1]
            /\ seen' = Append(seen, Shown(c.structure + 1, Item("index", c.buffer[c.pointer])))
            /\ Ask(i, "index")
    BY <1>8 DEF processKeyIndices
  <1>18. CASE ctx' = c /\ Refuse
    <2>1. ContextInv'
      BY <1>12, <1>18, AuthorizationContextKept
    <2>2. QED
      BY <1>2, <1>18, <2>1, Ended DEF Refuse, Unsigned
  <1>19. CASE /\ c.processed = 0
              /\ ctx' = IF c.size = 0 THEN [c EXCEPT !.state = "THRESHOLD"] ELSE c
              /\ AnswerNow(i) /\ seen' = seen
    <2>1. currentInstruction' = i /\ owed' = FALSE /\ screen' \in Quiet /\ Unsigned
      BY <1>2, <1>19 DEF AnswerNow, Unsigned
    <2>2. owed' \in BOOLEAN
      BY <2>1
    <2>3. QED
      BY <1>9, <1>16, <1>19, <2>1, <2>2, BatchDone
  <1>20. CASE /\ c.size > 0 /\ c.processed > 0
              /\ ctx' = [c EXCEPT !.pointer = @ + 1, !.size = @ - 1, !.processed = @ - 1]
              /\ seen' = Append(seen, Shown(c.structure + 1, Item("index", c.buffer[c.pointer])))
              /\ Ask(i, "index")
    <2>1. currentInstruction' = i /\ owed' = TRUE /\ screen' = "index" /\ Unsigned
      BY <1>20 DEF Ask, Unsigned
    <2>2. QED
      BY <1>9, <1>16, <1>20, <2>1, IndexOnDisplay
  <1>21. QED
    BY <1>17, <1>18, <1>19, <1>20

LEMMA AccessStructureOddStep ==
  ASSUME IInv, NEW i \in Authorizing, AccessStructureOdd(i) PROVE IInv'
  <1>1. i \in MultiCommand
    BY Kinds
  <1>2. screen \in Quiet /\ AuthorizationsInv(i, Known(hash))
    BY <1>1, Found, AuthorizationsInvFound DEF AccessStructureOdd
  <1>3. ctx \in AuthorizationContexts
    BY <1>2 DEF AuthorizationsInv
  <1>4. ctx' = [ctx EXCEPT !.pointer = 1] /\ Refuse
    BY DEF AccessStructureOdd
  <1>5. /\ ctx'.of = ctx.of /\ ctx'.left = ctx.left
        /\ ctx'.state = ctx.state /\ ctx'.version = ctx.version
        /\ ctx'.structure = ctx.structure /\ ctx'.size = ctx.size /\ ctx'.processed = ctx.processed
        /\ ctx'.pointer = 1 /\ ctx'.buffer = ctx.buffer
        /\ ctx' = [of |-> ctx'.of, state |-> ctx'.state, left |-> ctx'.left, version |-> ctx'.version,
                   structure |-> ctx'.structure, size |-> ctx'.size, processed |-> ctx'.processed,
                   pointer |-> ctx'.pointer, buffer |-> ctx'.buffer]
    BY <1>3, <1>4 DEF AuthorizationContexts
  <1>6. ctx'.pointer \in 1..(MaxBatch + 1) /\ ctx'.pointer + ctx'.processed <= MaxBatch + 1
    <2>1. ctx.processed \in 0..MaxBatch
      BY <1>3, AuthorizationFields
    <2>2. QED
      BY <1>5, <2>1, Constants
  <1>7. ctx' \in AuthorizationContexts
    BY <1>3, <1>5, <1>6, AuthorizationFields, AuthorizationContextIs
  <1>8. ContextInv'
    BY <1>7 DEF ContextInv
  <1>9. QED
    BY <1>2, <1>4, <1>8, Ended DEF Refuse, Unsigned

\* A pressed step leaves the display frozen.
LEMMA Frozen == LeaveScreen => screen' \in Quiet /\ screen' # "sign"
  BY Constants DEF LeaveScreen, Quiet

LEMMA PressIndexStep ==
  ASSUME IInv, PressIndex PROVE IInv'
  <1> PICK i : i = currentInstruction
    OBVIOUS
  <1> DEFINE k == Known(hash)
  <1>1. screen = "index" /\ screen \notin Quiet /\ screen # "sign" /\ screen # "threshold"
    BY DEF PressIndex, Quiet
  <1>2. /\ i \in MultiCommand /\ screen \in Dialogs(i) /\ owed = TRUE /\ HashOf(i, hash)
        /\ KindInv(i)
    BY <1>1, OnDisplay
  <1>3. i \in Authorizing
    BY <1>1, <1>2, Kinds, DialogsOf
  <1>4. AuthorizationsInv(i, k)
    BY <1>2, <1>3, AuthorizationsInvFound
  <1>5. ctx.state = "INDEX"
    BY <1>1, <1>4 DEF AuthorizationsInv
  <1>6. hash' = hash /\ processKeyIndices(ctx, PressContinue, PressThrow, UNCHANGED deviceVars)
    BY DEF PressIndex
  <1>7. k = Known(hash') /\ i = currentInstruction
    BY <1>6
  <1> HIDE DEF k
  <1>8. Indexing(i, ctx, k, hash', seen)
    BY <1>1, <1>2, <1>4, <1>5, <1>6, IndexingOf DEF Indexing
  <1>9. \/ ctx' = ctx /\ PressThrow
        \/ /\ ctx.processed = 0
           /\ ctx' = IF ctx.size = 0 THEN [ctx EXCEPT !.state = "THRESHOLD"] ELSE ctx
           /\ PressContinue /\ seen' = seen
        \/ /\ ctx.size > 0 /\ ctx.processed > 0
           /\ ctx' = [ctx EXCEPT !.pointer = @ + 1, !.size = @ - 1, !.processed = @ - 1]
           /\ seen' = Append(seen, Shown(ctx.structure + 1, Item("index", ctx.buffer[ctx.pointer])))
           /\ UNCHANGED deviceVars
    BY <1>6 DEF processKeyIndices
  <1>10. CASE ctx' = ctx /\ PressThrow
    <2>1. ContextInv'
      BY <1>8, <1>10, AuthorizationContextKept DEF Indexing
    <2>2. currentInstruction' = None /\ owed' \in BOOLEAN /\ screen' \in Quiet /\ Unsigned
      BY <1>2, <1>10, Frozen DEF PressThrow, Unsigned
    <2>3. QED
      BY <2>1, <2>2, Ended
  <1>11. CASE /\ ctx.processed = 0
              /\ ctx' = IF ctx.size = 0 THEN [ctx EXCEPT !.state = "THRESHOLD"] ELSE ctx
              /\ PressContinue /\ seen' = seen
    <2>1. currentInstruction' = i /\ owed' = FALSE /\ screen' \in Quiet /\ Unsigned
      BY <1>7, <1>11, Frozen DEF PressContinue, Unsigned
    <2>2. QED
      BY <1>3, <1>7, <1>8, <1>11, <2>1, BatchDone
  <1>12. CASE /\ ctx.size > 0 /\ ctx.processed > 0
              /\ ctx' = [ctx EXCEPT !.pointer = @ + 1, !.size = @ - 1, !.processed = @ - 1]
              /\ seen' = Append(seen, Shown(ctx.structure + 1, Item("index", ctx.buffer[ctx.pointer])))
              /\ UNCHANGED deviceVars
    <2>1. currentInstruction' = i /\ owed' = TRUE /\ screen' = "index" /\ Unsigned
      BY <1>1, <1>2, <1>7, <1>12 DEF deviceVars, Unsigned
    <2>2. QED
      BY <1>3, <1>7, <1>8, <1>12, <2>1, IndexOnDisplay
  <1>13. QED
    BY <1>9, <1>10, <1>11, <1>12

LEMMA StructureThresholdStep ==
  ASSUME IInv, NEW i \in Authorizing, StructureThreshold(i) PROVE IInv'
  <1> DEFINE k == Known(hash)   it == Named("threshold")   q == ReadItem(k, it)
             title == Shown(0, Named(i))
  <1>1. i \in MultiCommand /\ it \in Items /\ it.item = "threshold" /\ it.item \in Parts
    BY Kinds, ItemsKnown DEF Named, Item, Parts
  <1>2. /\ ctx.state = "THRESHOLD" /\ HashOf(i, hash) /\ AuthorizationsInv(i, k) /\ screen \in Quiet
    BY <1>1, Found, AuthorizationsInvFound DEF StructureThreshold
  <1>3. k \in Knowledge
    BY <1>1, Found DEF StructureThreshold
  <1>4. /\ ctx \in AuthorizationContexts /\ ctx.of = i
        /\ ctx.structure < AuthorizationEnd[ctx.version]
    BY <1>2 DEF AuthorizationsInv
  <1>5. /\ k.skeleton = Append(Heading(i) \o Structures(ctx.structure), "size") /\ k.whole
        /\ k.left = 0 /\ k.section = ctx.structure + 1
    BY <1>2 DEF AuthorizationsInv, Quiet
  <1>6. ctx.processed = 0 /\ seen \in Seq(Displayed) /\ seen = <<title>> \o k.shown
    BY <1>2, NonePending DEF Quiet
  <1>7. /\ HashOf(i, hash') /\ Len(hash') >= 2 /\ hash'[2] = hash[2] /\ Known(hash') = q
    <2>1. Absorb(<<it>>)
      BY DEF StructureThreshold
    <2>2. Len(hash) \in Nat /\ Len(hash) >= 2
      BY <1>2, LenProperties DEF HashOf, AuthorizationsInv
    <2>3. QED
      BY <1>1, <1>2, <2>1, <2>2, Absorbed
  <1>8. /\ ctx' = ctx /\ seen' = seen
        /\ currentInstruction' = i /\ owed' = TRUE /\ screen' = "threshold" /\ reply' = reply
    BY DEF StructureThreshold, Ask
  <1>9. q = ReadItem(k, it)
    OBVIOUS
  <1> HIDE DEF k, it, q, title
  <1>10. /\ q.skeleton = Append(k.skeleton, it.item) /\ q.left = k.left
         /\ (q.whole <=> k.whole /\ k.left = 0) /\ q.section = k.section /\ q.shown = k.shown
    BY <1>1, <1>3, <1>9, ReadPart
  <1>11. q.skeleton = Heading(i) \o Structures(ctx'.structure + 1)
    <2>1. ctx.structure \in Nat
      BY <1>4, AuthorizationFields
    <2>2. Append(k.skeleton, "threshold") = Heading(i) \o Structures(ctx.structure + 1)
      BY <1>5, <2>1, AuthorizationSkeleton
    <2>3. QED
      BY <1>1, <1>8, <1>10, <2>2
  <1>12. q.left = 0 /\ q.whole /\ q.section = ctx'.structure + 1
    BY <1>5, <1>8, <1>10
  <1>13. seen' \in Seq(Displayed) /\ seen' \o Pending(ctx)' = <<title>> \o q.shown
    <2>1. seen' = <<title>> \o q.shown /\ seen' \in Seq(Displayed) /\ ctx'.processed = 0
      BY <1>6, <1>8, <1>10
    <2>2. QED
      BY <2>1, PendingNone
  <1>14. /\ hash'[2] = Item("version", ctx'.version) /\ ctx'.structure < AuthorizationEnd[ctx'.version]
         /\ ctx' \in AuthorizationContexts /\ ctx'.of = i /\ ctx'.processed = 0 /\ ctx'.state = "THRESHOLD"
    BY <1>2, <1>4, <1>6, <1>7, <1>8 DEF AuthorizationsInv
  <1>15. AuthorizationsInv(i, Known(hash))'
    BY <1>7, <1>8, <1>11, <1>12, <1>13, <1>14 DEF AuthorizationsInv, title
  <1>16. QED
    BY <1>7, <1>8, <1>15, AuthorizationsGoOn DEF Unsigned

LEMMA PressThresholdStep ==
  ASSUME IInv, PressThreshold PROVE IInv'
  <1> PICK i : i = currentInstruction
    OBVIOUS
  <1> DEFINE k == Known(hash)   title == Shown(0, Named(i))   next == ctx.structure + 1
  <1>1. screen = "threshold" /\ screen \notin Quiet /\ screen # "sign" /\ screen # "index"
    BY DEF PressThreshold, Quiet
  <1>2. /\ i \in MultiCommand /\ screen \in Dialogs(i) /\ owed = TRUE /\ HashOf(i, hash)
        /\ KindInv(i) /\ k \in Knowledge
    BY <1>1, OnDisplay
  <1>3. i \in Authorizing
    BY <1>1, <1>2, Kinds, DialogsOf
  <1>4. AuthorizationsInv(i, k)
    BY <1>2, <1>3, AuthorizationsInvFound
  <1>5. /\ ctx.state = "THRESHOLD" /\ ctx \in AuthorizationContexts /\ ctx.of = i
        /\ ctx.structure < AuthorizationEnd[ctx.version]
        /\ Len(hash) >= 2 /\ hash[2] = Item("version", ctx.version)
        /\ k.whole /\ k.left = 0 /\ k.section = ctx.structure + 1
        /\ k.skeleton = Heading(i) \o Structures(ctx.structure + 1)
    BY <1>1, <1>4 DEF AuthorizationsInv
  <1>6. ctx.processed = 0 /\ seen \in Seq(Displayed) /\ seen = <<title>> \o k.shown
    BY <1>1, <1>4, NonePending
  <1>7. k.shown \in Seq(Displayed)
    BY <1>2 DEF Knowledge
  <1>8. /\ hash' = hash /\ seen' = seen /\ Known(hash') = k /\ i = currentInstruction
        /\ IF next = AuthorizationEnd[ctx.version]
             THEN /\ ctx' = [ctx EXCEPT !.structure = next]
                  /\ screen' = "sign" /\ UNCHANGED <<currentInstruction, owed, reply>>
             ELSE /\ ctx' = [ctx EXCEPT !.structure = next, !.state = "SIZE"]
                  /\ PressContinue
    BY DEF PressThreshold
  <1>9. next \in Nat /\ next <= AuthorizationEnd[ctx.version] /\ AuthorizationEnd[ctx.version] \in Nat
    <2>1. ctx.structure \in Nat /\ ctx.version \in Versions
      BY <1>5, AuthorizationFields
    <2>2. AuthorizationEnd[ctx.version] \in Nat
      BY <2>1, Constants
    <2>3. QED
      BY <1>5, <2>1, <2>2
  <1>10. next = ctx.structure + 1
    OBVIOUS
  <1> HIDE DEF k, title, next
  <1>11. \A state \in {"SIZE", "THRESHOLD"} :
           ctx' = [ctx EXCEPT !.structure = next, !.state = state] =>
             /\ ctx' \in AuthorizationContexts /\ ctx'.of = i /\ ctx'.structure = next
             /\ ctx'.version = ctx.version /\ ctx'.state = state /\ ctx'.processed = 0
    <2> SUFFICES ASSUME NEW state \in {"SIZE", "THRESHOLD"},
                        ctx' = [ctx EXCEPT !.structure = next, !.state = state]
                 PROVE  /\ ctx' \in AuthorizationContexts /\ ctx'.of = i /\ ctx'.structure = next
                        /\ ctx'.version = ctx.version /\ ctx'.state = state /\ ctx'.processed = 0
      OBVIOUS
    <2>1. /\ ctx'.of = ctx.of /\ ctx'.left = ctx.left
          /\ ctx'.state = state /\ ctx'.version = ctx.version
          /\ ctx'.structure = next /\ ctx'.size = ctx.size /\ ctx'.processed = ctx.processed
          /\ ctx'.pointer = ctx.pointer /\ ctx'.buffer = ctx.buffer
          /\ ctx' = [of |-> ctx'.of, state |-> ctx'.state, left |-> ctx'.left, version |-> ctx'.version,
                     structure |-> ctx'.structure, size |-> ctx'.size, processed |-> ctx'.processed,
                     pointer |-> ctx'.pointer, buffer |-> ctx'.buffer]
      BY <1>5 DEF AuthorizationContexts
    <2>2. state \in {"KEY", "SIZE", "INDEX", "THRESHOLD"}
      OBVIOUS
    <2>3. /\ ctx'.structure \in Nat /\ ctx'.structure <= AuthorizationEnd[ctx'.version]
          /\ ctx'.state \in {"KEY", "SIZE", "INDEX", "THRESHOLD"}
      BY <1>9, <2>1, <2>2
    <2>4. /\ ctx'.left \in 0..MaxKeys /\ ctx'.size \in 0..MaxStructure /\ ctx'.processed \in 0..MaxBatch
          /\ ctx'.pointer \in 1..(MaxBatch + 1) /\ ctx'.pointer + ctx'.processed <= MaxBatch + 1
          /\ ctx'.buffer \in [1..MaxBatch -> Nat]
      BY <1>5, <2>1, AuthorizationFields
    <2>5. ctx' \in AuthorizationContexts
      BY <1>5, <2>1, <2>3, <2>4, AuthorizationContextIs, SMTT(40)
    <2>6. QED
      BY <1>5, <1>6, <2>1, <2>5
  <1>12. CASE next = AuthorizationEnd[ctx.version]
    <2>1. /\ screen' = "sign" /\ currentInstruction' = i /\ owed' = TRUE /\ reply' = reply
          /\ ctx' = [ctx EXCEPT !.structure = next]
      BY <1>2, <1>8, <1>12
    <2>2. ctx' = [ctx EXCEPT !.structure = next, !.state = "THRESHOLD"]
      BY <1>5, <2>1 DEF AuthorizationContexts
    <2>3. ContextInv'
      BY <1>11, <2>2 DEF ContextInv
    <2>4. KindOf(hash') = i /\ hash'[2].n = ctx.version
      BY <1>2, <1>5, <1>8 DEF KindOf, HashOf, Named, Item
    <2>5. IsOneUpdate(hash')
      <3>1. SkeletonOf(i, hash') = <<i, "version", "keys">> \o Structures(AuthorizationEnd[hash'[2].n])
        BY <1>3, SkeletonsAre
      <3>2. k.skeleton = SkeletonOf(i, hash')
        BY <1>5, <1>10, <1>12, <2>4, <3>1 DEF Heading
      <3>3. QED
        BY <1>8, <2>4, <3>2 DEF IsOneUpdate
    <2>6. IsWhole(hash')
      BY <1>5, <1>8 DEF IsWhole
    <2>7. IsCounted(hash')
      <3>1. i \notin {AddProvider, Protocol}
        BY <1>3, Kinds DEF Described
      <3>2. QED
        BY <2>4, <3>1 DEF IsCounted
    <2>8. WasShown(hash', seen')
      <3>1. Tail(seen') = k.shown /\ seen'[1] = title
        BY <1>6, <1>7, <1>8, BehindTitle, SMTT(40)
      <3>2. seen'[1].what = Named(i)
        BY <3>1 DEF Shown, title
      <3>3. i \notin HigherLevel /\ i # Protocol /\ i # CreatePlt
        BY <1>3, Kinds
      <3>4. QED
        BY <1>3, <1>8, <2>4, <3>1, <3>2, <3>3 DEF WasShown
    <2>9. Complete(hash', seen')
      BY <2>5, <2>6, <2>7, <2>8 DEF Complete
    <2>10. QED
      BY <1>2, <1>8, <2>1, <2>3, <2>9, Asked DEF Unsigned
  <1>13. CASE next # AuthorizationEnd[ctx.version]
    <2>1. ctx' = [ctx EXCEPT !.structure = next, !.state = "SIZE"] /\ PressContinue
      BY <1>8, <1>13
    <2>2. /\ ctx' \in AuthorizationContexts /\ ctx'.of = i /\ ctx'.structure = next
          /\ ctx'.version = ctx.version /\ ctx'.state = "SIZE" /\ ctx'.processed = 0
      BY <1>11, <2>1
    <2>3. /\ currentInstruction' = i /\ owed' = FALSE /\ screen' \in Quiet
          /\ screen' # "threshold" /\ screen' # "index" /\ Unsigned
      BY <1>8, <2>1, Frozen DEF PressContinue, Unsigned, Quiet
    <2>4. /\ ctx'.structure < AuthorizationEnd[ctx'.version]
          /\ hash'[2] = Item("version", ctx'.version) /\ k.section = ctx'.structure
          /\ k.skeleton = Heading(i) \o Structures(ctx'.structure)
      BY <1>5, <1>8, <1>9, <1>10, <1>13, <2>2
    <2>5. seen' \in Seq(Displayed) /\ seen' \o Pending(ctx)' = <<title>> \o k.shown
      <3>1. seen' \in Seq(Displayed) /\ seen' = <<title>> \o k.shown
        BY <1>6, <1>8
      <3>2. QED
        BY <2>2, <3>1, PendingNone
    <2>6. k.whole /\ k.left = 0 /\ Len(hash') >= 2 /\ Known(hash') = k
      BY <1>5, <1>8
    <2>7. screen' # "threshold" /\ screen' # "index"
      BY <2>3
    <2>8. AuthorizationsInv(i, Known(hash))'
      BY <2>2, <2>4, <2>5, <2>6, <2>7 DEF AuthorizationsInv, title
    <2>9. HashOf(i, hash') /\ owed' \in BOOLEAN
      BY <1>2, <1>8, <2>3
    <2>10. currentInstruction' = i /\ screen' \in Quiet /\ Unsigned
      BY <2>3
    <2>11. QED
      BY <1>3, <2>6, <2>8, <2>9, <2>10, AuthorizationsGoOn
  <1>14. QED
    BY <1>12, <1>13

-----------------------------------------------------------------------------
(***************************************************************************)
(* Identity providers and anonymity revokers.                              *)
(***************************************************************************)
LEMMA TextsAre ==
  ASSUME NEW n \in Nat
  PROVE  Texts(n) \in Seq(ItemNames) /\ Texts(0) = <<>> /\ Append(Texts(n), "textLength") = Texts(n + 1)
  <1> DEFINE s == Texts(n)   t == Append(s, "textLength")   v == Texts(n + 1)
  <1>1. "textLength" \in ItemNames
    BY DEF ItemNames
  <1>2. \A k \in Nat : Texts(k) \in Seq(ItemNames) /\ Len(Texts(k)) = k
    <2> SUFFICES ASSUME NEW k \in Nat PROVE Texts(k) \in Seq(ItemNames) /\ Len(Texts(k)) = k
      OBVIOUS
    <2>1. Texts(k) \in [1..k -> ItemNames]
      BY <1>1 DEF Texts
    <2>2. QED
      BY <2>1, SeqDef, LenProperties
  <1>3. s \in Seq(ItemNames) /\ Len(s) = n /\ v \in Seq(ItemNames) /\ Len(v) = n + 1
    BY <1>2
  <1>4. \A k \in 1..n : s[k] = "textLength"
    BY DEF Texts
  <1>5. \A k \in 1..(n + 1) : v[k] = "textLength"
    BY DEF Texts
  <1>6. t = Append(s, "textLength")
    OBVIOUS
  <1> HIDE DEF s, t, v
  <1>7. /\ t \in Seq(ItemNames) /\ Len(t) = n + 1 /\ t[n + 1] = "textLength"
        /\ \A k \in 1..n : t[k] = s[k]
    BY <1>1, <1>3, <1>6, Longer
  <1>8. \A k \in 1..(n + 1) : t[k] = v[k]
    <2> SUFFICES ASSUME NEW k \in 1..(n + 1) PROVE t[k] = v[k]
      OBVIOUS
    <2>1. CASE k = n + 1
      BY <1>5, <1>7, <2>1
    <2>2. CASE k \in 1..n
      BY <1>4, <1>5, <1>7, <2>2
    <2>3. QED
      BY <2>1, <2>2
  <1>9. t = v
    BY <1>3, <1>7, <1>8, SeqEqual
  <1>10. Texts(0) = <<>>
    BY <1>2, EmptySeq
  <1>11. QED
    BY <1>3, <1>9, <1>10 DEF s, t, v

LEMMA TextsSkeleton ==
  ASSUME NEW i \in MultiCommand, NEW n \in Nat, NEW h, h = <<i, "payloadLength">>
  PROVE  /\ h \o Texts(n) \in Seq(ItemNames) /\ h \o Texts(0) = h
         /\ Append(h \o Texts(n), "textLength") = h \o Texts(n + 1)
  <1> DEFINE s == Texts(n)
  <1>1. h \in Seq(ItemNames)
    <2>1. i \in ItemNames /\ "payloadLength" \in ItemNames
      BY KindsAreNames DEF ItemNames
    <2>2. QED
      BY <2>1
  <1>2. s \in Seq(ItemNames) /\ Texts(0) = <<>> /\ Append(s, "textLength") = Texts(n + 1)
    BY TextsAre
  <1>3. "textLength" \in ItemNames
    BY DEF ItemNames
  <1> HIDE DEF s
  <1> DEFINE one == <<"textLength">>
  <1>4. one \in Seq(ItemNames) /\ h \o s \in Seq(ItemNames)
    BY <1>1, <1>2, <1>3, ConcatProperties
  <1>5. Append(h \o s, "textLength") = (h \o s) \o one /\ Append(s, "textLength") = s \o one
    BY <1>2, <1>3, <1>4, AppendIsConcat
  <1> HIDE DEF one
  <1>6. (h \o s) \o one = h \o (s \o one)
    <2>1. h \in Seq(ItemNames) /\ s \in Seq(ItemNames) /\ one \in Seq(ItemNames)
      BY <1>1, <1>2, <1>4
    <2>2. QED
      BY <2>1, ConcatAssociative
  <1>7. h \o <<>> = h
    BY <1>1, ConcatEmptySeq
  <1>8. QED
    BY <1>2, <1>4, <1>5, <1>6, <1>7 DEF s

LEMMA DescribedFields ==
  ASSUME NEW c \in DescribedContexts
  PROVE  /\ c.of \in Described /\ c.part \in 0..2 /\ c.text \in 0..MaxText
         /\ c.verifyKey \in 0..(Word - 1) /\ c.payload \in 0..(Word - 1)
         /\ c.state \in {"DESCRIPTION_LENGTH", "DESCRIPTION", "VERIFY_KEY", "CDI_VERIFY_KEY", "PUBLIC_KEY"}
  BY DEF DescribedContexts

LEMMA DescribedContextIs ==
  ASSUME NEW c, c.of \in Described, c.part \in 0..2, c.text \in 0..MaxText,
         c.verifyKey \in 0..(Word - 1), c.payload \in 0..(Word - 1),
         c.state \in {"DESCRIPTION_LENGTH", "DESCRIPTION", "VERIFY_KEY", "CDI_VERIFY_KEY", "PUBLIC_KEY"},
         c = [of |-> c.of, part |-> c.part, text |-> c.text, verifyKey |-> c.verifyKey,
              payload |-> c.payload, state |-> c.state]
  PROVE  c \in DescribedContexts
  BY DEF DescribedContexts

Behind == {"VERIFY_KEY", "CDI_VERIFY_KEY", "PUBLIC_KEY"}

\* What a state says of the text in progress, and of the part it belongs to.
TextState(c) ==
  /\ c.state = "DESCRIPTION" <=> c.text > 0
  /\ c.state = "DESCRIPTION_LENGTH" => c.part < 2
  /\ c.state \in Behind => c.part = 2

LEMMA PartDone ==
  ASSUME NEW c \in DescribedContexts, c.state = "DESCRIPTION",
         NEW e, e = checkIfDescriptionPartIsDone(c)
  PROVE  /\ e \in DescribedContexts /\ e.of = c.of /\ e.part = c.part /\ e.text = c.text
         /\ e.payload = c.payload /\ TextState(e)
  <1>1. /\ c.of \in Described /\ c.part \in 0..2 /\ c.text \in 0..MaxText /\ MaxText \in Nat
        /\ c.verifyKey \in 0..(Word - 1) /\ c.payload \in 0..(Word - 1)
    BY DescribedFields, Constants
  <1>2. CASE c.text > 0
    <2>1. e = c
      BY <1>2 DEF checkIfDescriptionPartIsDone
    <2>2. QED
      BY <1>2, <2>1 DEF TextState, Behind
  <1>3. CASE ~(c.text > 0) /\ c.part # 2
    <2>1. e = [c EXCEPT !.state = "DESCRIPTION_LENGTH"]
      BY <1>3 DEF checkIfDescriptionPartIsDone, DESC_DESCRIPTION
    <2>2. /\ e.of = c.of /\ e.part = c.part /\ e.text = c.text /\ e.verifyKey = c.verifyKey
          /\ e.payload = c.payload /\ e.state = "DESCRIPTION_LENGTH"
          /\ e = [of |-> e.of, part |-> e.part, text |-> e.text, verifyKey |-> e.verifyKey,
                  payload |-> e.payload, state |-> e.state]
      BY <2>1 DEF DescribedContexts
    <2>3. e \in DescribedContexts
      BY <1>1, <2>2, DescribedContextIs
    <2>4. c.part < 2
      BY <1>1, <1>3
    <2>5. QED
      BY <1>3, <2>2, <2>3, <2>4 DEF TextState, Behind
  <1>4. CASE ~(c.text > 0) /\ c.part = 2 /\ c.of = AddProvider
    <2>1. e = [c EXCEPT !.state = "VERIFY_KEY", !.verifyKey = Minus(c.payload, Field)]
      BY <1>4 DEF checkIfDescriptionPartIsDone, DESC_DESCRIPTION
    <2>2. Minus(c.payload, Field) \in 0..(Word - 1)
      <3>1. Field \in 0..(Word - 1)
        BY Constants DEF Field
      <3>2. 0 \in Nat
        OBVIOUS
      <3>3. QED
        BY <1>1, <3>1, <3>2, MinusCounts
    <2>3. /\ e.of = c.of /\ e.part = c.part /\ e.text = c.text /\ e.verifyKey = Minus(c.payload, Field)
          /\ e.payload = c.payload /\ e.state = "VERIFY_KEY"
          /\ e = [of |-> e.of, part |-> e.part, text |-> e.text, verifyKey |-> e.verifyKey,
                  payload |-> e.payload, state |-> e.state]
      BY <2>1 DEF DescribedContexts
    <2>4. e \in DescribedContexts
      BY <1>1, <2>2, <2>3, DescribedContextIs
    <2>5. QED
      BY <1>4, <2>3, <2>4 DEF TextState, Behind
  <1>5. CASE ~(c.text > 0) /\ c.part = 2 /\ c.of # AddProvider
    <2>1. e = [c EXCEPT !.state = "PUBLIC_KEY"]
      BY <1>5 DEF checkIfDescriptionPartIsDone, DESC_DESCRIPTION
    <2>2. /\ e.of = c.of /\ e.part = c.part /\ e.text = c.text /\ e.verifyKey = c.verifyKey
          /\ e.payload = c.payload /\ e.state = "PUBLIC_KEY"
          /\ e = [of |-> e.of, part |-> e.part, text |-> e.text, verifyKey |-> e.verifyKey,
                  payload |-> e.payload, state |-> e.state]
      BY <2>1 DEF DescribedContexts
    <2>3. e \in DescribedContexts
      BY <1>1, <2>2, DescribedContextIs
    <2>4. QED
      BY <1>5, <2>2, <2>3 DEF TextState, Behind
  <1>6. QED
    BY <1>2, <1>3, <1>4, <1>5

\* handleDescriptionPart, at once or when the button is pressed.
LeavesPart(e) ==
  \/ ctx' = e /\ screen' = "description"
  \/ ctx' = [e EXCEPT !.part = nextPart(e)] /\ screen' \in Quiet

LEMMA PartRead ==
  ASSUME NEW e \in DescribedContexts, TextState(e), LeavesPart(e)
  PROVE  /\ ctx' \in DescribedContexts /\ ctx'.of = e.of /\ ctx'.text = e.text
         /\ ctx'.payload = e.payload /\ PartsRead' = e.part + 1
         /\ IF ctx'.state = "DESCRIPTION" THEN ctx'.text > 0 ELSE ctx'.text = 0
         /\ ctx'.state = "DESCRIPTION_LENGTH" /\ screen' = "description" => ctx'.part < 2
         /\ ctx'.state \in Behind => ctx'.part = 2
  <1>1. /\ e.of \in Described /\ e.part \in 0..2 /\ e.text \in 0..MaxText /\ MaxText \in Nat
        /\ e.verifyKey \in 0..(Word - 1) /\ e.payload \in 0..(Word - 1)
        /\ e.state \in {"DESCRIPTION_LENGTH", "DESCRIPTION"} \cup Behind
    BY DescribedFields, Constants DEF Behind
  <1>2. CASE ctx' = e /\ screen' = "description"
    BY <1>1, <1>2 DEF TextState, PartsRead, Behind
  <1>3. CASE ctx' = [e EXCEPT !.part = nextPart(e)] /\ screen' \in Quiet
    <2>1. /\ ctx'.of = e.of /\ ctx'.part = nextPart(e) /\ ctx'.text = e.text
          /\ ctx'.verifyKey = e.verifyKey /\ ctx'.payload = e.payload /\ ctx'.state = e.state
          /\ ctx' = [of |-> ctx'.of, part |-> ctx'.part, text |-> ctx'.text,
                     verifyKey |-> ctx'.verifyKey, payload |-> ctx'.payload, state |-> ctx'.state]
      BY <1>3 DEF DescribedContexts
    <2>2. screen' # "description" /\ (nextPart(e) \in 0..2 => ctx' \in DescribedContexts)
      <3>1. ctx'.state \in {"DESCRIPTION_LENGTH", "DESCRIPTION", "VERIFY_KEY", "CDI_VERIFY_KEY", "PUBLIC_KEY"}
        BY <2>1, DescribedFields
      <3>2. /\ ctx'.of \in Described /\ ctx'.text \in 0..MaxText
            /\ ctx'.verifyKey \in 0..(Word - 1) /\ ctx'.payload \in 0..(Word - 1)
        BY <1>1, <2>1
      <3>3. nextPart(e) \in 0..2 => ctx'.part \in 0..2
        BY <2>1
      <3>4. ctx' = [of |-> ctx'.of, part |-> ctx'.part, text |-> ctx'.text,
                    verifyKey |-> ctx'.verifyKey, payload |-> ctx'.payload, state |-> ctx'.state]
        BY <2>1
      <3>5. nextPart(e) \in 0..2 => ctx' \in DescribedContexts
        BY <3>1, <3>2, <3>3, <3>4, DescribedContextIs
      <3>6. QED
        BY <1>3, <3>5 DEF Quiet
    <2>3. CASE e.text = 0 /\ e.part # 2
      <3>1. e.state = "DESCRIPTION_LENGTH" /\ e.part < 2
        BY <1>1, <2>3 DEF TextState
      <3>2. nextPart(e) = e.part + 1 /\ e.part + 1 \in 0..2
        BY <1>1, <2>3, <3>1 DEF nextPart, DESC_DESCRIPTION
      <3>3. ctx' \in DescribedContexts
        BY <2>2, <3>2
      <3>4. QED
        BY <2>1, <2>2, <2>3, <3>1, <3>2, <3>3 DEF PartsRead, Behind
    <2>4. CASE ~(e.text = 0 /\ e.part # 2)
      <3>1. nextPart(e) = e.part
        BY <2>4 DEF nextPart, DESC_DESCRIPTION
      <3>2. ctx' \in DescribedContexts
        BY <1>1, <2>2, <3>1
      <3>3. e.state # "DESCRIPTION_LENGTH"
        BY <1>1, <2>4 DEF TextState
      <3>4. QED
        BY <1>1, <2>1, <2>2, <3>1, <3>2, <3>3 DEF PartsRead, TextState, Behind
    <2>5. QED
      BY <2>3, <2>4
  <1>4. QED
    BY <1>2, <1>3 DEF LeavesPart

LEMMA AbsorbedLater ==
  ASSUME NEW i, HashOf(i, hash), AnnouncesPayload(hash), NEW x \in Items, Absorb(<<x>>)
  PROVE  /\ HashOf(i, hash') /\ AnnouncesPayload(hash') /\ hash'[2] = hash[2]
         /\ Known(hash') = ReadItem(Known(hash), x)
  <1>1. hash \in Seq(Items) /\ Len(hash) \in Nat /\ Len(hash) >= 2
    BY LenProperties DEF HashOf, AnnouncesPayload
  <1>2. /\ HashOf(i, hash') /\ Len(hash') = Len(hash) + 1 /\ \A k \in 1..Len(hash) : hash'[k] = hash[k]
    BY Absorbed
  <1>3. Known(hash') = ReadItem(Known(hash), x)
    BY Absorbed
  <1>4. hash'[2] = hash[2] /\ Len(hash') >= 2
    BY <1>1, <1>2
  <1>5. AnnouncesPayload(hash')
    BY <1>4 DEF AnnouncesPayload
  <1>6. QED
    BY <1>2, <1>3, <1>4, <1>5

\* What a reader knows behind the bytes of a command: without any, what it knew.
Taken(k, it) == IF it.n = 0 THEN k ELSE ReadItem(k, it)

LEMMA AbsorbedBytes ==
  ASSUME NEW i, HashOf(i, hash), NEW name, NEW n \in Nat, NEW x \in Items, x = Item(name, n),
         AbsorbBytes(name, n)
  PROVE  /\ HashOf(i, hash') /\ Len(hash') >= Len(hash)
         /\ \A k \in 1..Len(hash) : hash'[k] = hash[k]
         /\ Known(hash') = Taken(Known(hash), x)
         /\ Params!After(hash') = IF n = 0 THEN Params!After(hash)
                                  ELSE CountParams(Params!After(hash), x)
  <1>1. x.n = n /\ Len(hash) \in Nat
    BY LenProperties DEF Item, HashOf
  <1>2. CASE n = 0
    <2>1. hash' = hash
      BY <1>2 DEF AbsorbBytes
    <2>2. QED
      BY <1>1, <1>2, <2>1 DEF Taken
  <1>3. CASE n # 0
    <2>1. Absorb(<<x>>)
      BY <1>3 DEF AbsorbBytes
    <2>2. /\ HashOf(i, hash') /\ Len(hash') = Len(hash) + 1
          /\ \A k \in 1..Len(hash) : hash'[k] = hash[k]
          /\ Known(hash') = ReadItem(Known(hash), x)
          /\ Params!After(hash') = CountParams(Params!After(hash), x)
      BY <2>1, Absorbed
    <2>3. QED
      BY <1>1, <1>3, <2>2 DEF Taken
  <1>4. QED
    BY <1>2, <1>3

LEMMA AbsorbedBytesLater ==
  ASSUME NEW i, HashOf(i, hash), AnnouncesPayload(hash), NEW name, NEW n \in Nat, NEW x \in Items,
         x = Item(name, n), AbsorbBytes(name, n)
  PROVE  /\ HashOf(i, hash') /\ AnnouncesPayload(hash') /\ hash'[2] = hash[2]
         /\ Known(hash') = Taken(Known(hash), x)
  <1>1. Len(hash) \in Nat /\ Len(hash) >= 2
    BY LenProperties DEF HashOf, AnnouncesPayload
  <1>2. /\ HashOf(i, hash') /\ Len(hash') >= Len(hash) /\ \A k \in 1..Len(hash) : hash'[k] = hash[k]
        /\ Known(hash') = Taken(Known(hash), x)
    BY AbsorbedBytes
  <1>3. Len(hash') \in Nat
    BY <1>2, LenProperties DEF HashOf
  <1>4. hash'[2] = hash[2] /\ Len(hash') >= 2
    BY <1>1, <1>2, <1>3
  <1>5. AnnouncesPayload(hash')
    BY <1>4 DEF AnnouncesPayload
  <1>6. QED
    BY <1>2, <1>4, <1>5

LEMMA TakenText ==
  ASSUME NEW k \in Knowledge, NEW n \in Nat, NEW it \in Items, it.item = "text", it.n = n,
         k.of = "text", k.left \in Int, NEW q, q = Taken(k, it)
  PROVE  /\ q.skeleton = k.skeleton /\ q.of = k.of /\ q.left = k.left - n /\ (q.whole <=> k.whole)
         /\ q.bytes = k.bytes + n /\ q.section = k.section
         /\ q.shown = IF n = 0 THEN k.shown ELSE Append(k.shown, Shown(k.section, it))
  <1>1. CASE n = 0
    <2>1. q = k /\ k.bytes \in Nat
      BY <1>1 DEF Taken, Knowledge
    <2>2. k.bytes + n = k.bytes /\ k.left - n = k.left
      BY <1>1, <2>1
    <2>3. QED
      BY <1>1, <2>1, <2>2
  <1>2. CASE n # 0
    <2>1. it.item \in Announced /\ k.of = it.item /\ Weight(it) = n
      BY DEF Announced, Weight
    <2>2. q = ReadItem(k, it)
      BY <1>2 DEF Taken
    <2>3. /\ q.skeleton = k.skeleton /\ q.of = k.of /\ q.left = k.left - Weight(it)
          /\ (q.whole <=> k.whole) /\ q.section = k.section
          /\ q.bytes = k.bytes + (IF it.item = "text" THEN it.n ELSE 0)
          /\ q.shown = IF it.item = "params" THEN k.shown
                       ELSE Append(k.shown, Shown(IF it.item = "key" THEN 0 ELSE k.section, it))
      BY <2>1, <2>2, ReadSome, ZenonT(60)
    <2>4. q.shown = Append(k.shown, Shown(k.section, it)) /\ q.bytes = k.bytes + n
      BY <2>3
    <2>5. QED
      BY <1>2, <2>1, <2>3, <2>4
  <1>3. QED
    BY <1>1, <1>2

LEMMA TakenBytes ==
  ASSUME NEW k \in Knowledge, NEW n \in Nat, NEW it \in Items, it.item \in {"verifyKey", "auxiliary"},
         it.n = n, NEW q, q = Taken(k, it)
  PROVE  /\ q.skeleton = k.skeleton /\ q.left = k.left /\ (q.whole => k.whole)
         /\ (k.whole /\ k.left = 0 => q.whole)
         /\ q.bytes = k.bytes + n /\ q.section = k.section /\ q.shown = k.shown
  <1>1. CASE n = 0
    <2>1. q = k /\ k.bytes \in Nat
      BY <1>1 DEF Taken, Knowledge
    <2>2. k.bytes + n = k.bytes
      BY <1>1, <2>1
    <2>3. QED
      BY <2>1, <2>2
  <1>2. CASE n # 0
    <2>1. q = ReadItem(k, it)
      BY <1>2 DEF Taken
    <2>2. QED
      BY <2>1, ReadBytes
  <1>3. QED
    BY <1>1, <1>2

LEMMA PayloadAnnounced ==
  ASSUME NEW h, AnnouncesPayload(h) PROVE h[2].n \in 0..MaxPayload /\ h[2].n % Word = h[2].n
  <1>1. PICK p \in 0..MaxPayload : h[2] = Item("payloadLength", p)
    BY DEF AnnouncesPayload
  <1>2. h[2].n = p /\ p \in 0..(Word - 1)
    BY <1>1, Constants DEF Item
  <1>3. QED
    BY <1>2, Remains

\* What a described update has read, kept and shown, behind the item read last.
LEMMA DescribedGoOn ==
  ASSUME IInv, NEW i \in Described, currentInstruction' = i, owed' \in BOOLEAN,
         screen' \in Quiet \/ (owed' = TRUE /\ screen' \in {"start", "description", "verifyKeyHash"}),
         HashOf(i, hash'), DescribedInv(i, Known(hash))', Unsigned
  PROVE  IInv'
  <1>1. KindInv(i)'
    BY Kinds DEF KindInv
  <1>2. i \in MultiCommand
    BY Kinds
  <1>3. screen' \in Quiet \/ (owed' = TRUE /\ screen' \in Dialogs(i))
    BY DialogsOf
  <1>4. screen' # "sign"
    BY DEF Quiet
  <1>5. QED
    BY <1>1, <1>2, <1>3, <1>4, Continued

LEMMA DescribedInvFound ==
  ASSUME NEW i \in Described, KindInv(i) PROVE DescribedInv(i, Known(hash))
  BY DEF KindInv

LEMMA DescribedInitialStep ==
  ASSUME IInv, NEW i \in Described, NEW n \in 0..MaxPayload, DescribedInitial(i, n) PROVE IInv'
  <1> DEFINE a == Item("payloadLength", n)   title == Shown(0, Named(i))
             q == ReadItem(ReadItem(Unread, Named(i)), a)
             left == IF i = AddProvider THEN Minus(n, Field) ELSE n
  <1>1. i \in MultiCommand /\ n \in Nat /\ a \in Items
    BY Kinds, Constants, ItemsKnown
  <1>2. /\ HashOf(i, hash') /\ Len(hash') = 2 /\ hash'[2] = a /\ Known(hash') = q
    BY <1>1, BeginOne DEF DescribedInitial
  <1>3. /\ ctx' = [of |-> i, state |-> "DESCRIPTION_LENGTH", part |-> 0, text |-> 0, verifyKey |-> 0,
                   payload |-> left]
        /\ seen' = <<title>>
        /\ currentInstruction' = i /\ owed' = TRUE /\ screen' = "start" /\ reply' = reply
    BY DEF DescribedInitial, Ask
  <1>4. a.item = "payloadLength" /\ a.item \in Parts /\ a.n = n /\ InPayload(a) = 0
    BY DEF Item, Parts, InPayload, AddProvider
  <1>5. q = ReadItem(ReadItem(Unread, Named(i)), a) /\ hash'[2] = Item("payloadLength", n)
    BY <1>2
  <1> HIDE DEF q, a, title
  <1>6. /\ q.skeleton = <<i, "payloadLength">> /\ q.left = 0 /\ q.whole
        /\ q.bytes = (IF i = AddProvider THEN Field ELSE 0) + InPayload(a)
        /\ q.shown = <<>> /\ q.section = 0
    BY <1>1, <1>4, <1>5, FirstParts
  <1>7. q.skeleton = <<i, "payloadLength">> \o Texts(0)
    BY <1>1, <1>6, TextsSkeleton
  <1>8. seen' = <<title>> \o q.shown
    <2>1. <<>> \in Seq(Displayed)
      BY EmptySeq
    <2>2. <<title>> \o <<>> = <<title>>
      BY <2>1, BehindTitle
    <2>3. QED
      BY <1>3, <1>6, <2>2
  <1>9. left \in 0..(Word - 1) /\ (i = AddProvider => (q.bytes + left) % Word = n)
    <2>1. n \in 0..(Word - 1) /\ Field \in 0..(Word - 1) /\ Field = 1 /\ 0 \in Nat
      BY Constants DEF Field
    <2>2. Minus(n, Field) \in 0..(Word - 1) /\ ((0 + Field) + Minus(n, Field)) % Word = (0 + n) % Word
      BY <2>1, MinusCounts
    <2>3. n % Word = n
      BY <2>1, Remains
    <2>4. CASE i = AddProvider
      <3>1. q.bytes = Field
        BY <1>4, <1>6, <2>1, <2>4
      <3>2. (Field + Minus(n, Field)) % Word = n
        BY <1>1, <2>1, <2>2, <2>3
      <3>3. QED
        BY <2>2, <2>4, <3>1, <3>2
    <2>5. CASE i # AddProvider
      BY <2>1, <2>5
    <2>6. QED
      BY <2>4, <2>5
  <1> HIDE DEF left
  <1>10. /\ ctx'.of = i /\ ctx'.state = "DESCRIPTION_LENGTH" /\ ctx'.part = 0 /\ ctx'.text = 0
         /\ ctx'.verifyKey = 0 /\ ctx'.payload = left
         /\ ctx' = [of |-> ctx'.of, part |-> ctx'.part, text |-> ctx'.text, verifyKey |-> ctx'.verifyKey,
                    payload |-> ctx'.payload, state |-> ctx'.state]
    BY <1>3
  <1>11. ctx' \in DescribedContexts
    <2>1. 0 \in 0..MaxText /\ 0 \in 0..(Word - 1) /\ 0 \in 0..2
      BY Constants
    <2>2. QED
      BY <1>9, <1>10, <2>1, DescribedContextIs
  <1>12. PartsRead' = 0
    BY <1>3, <1>10 DEF PartsRead
  <1>13. AnnouncesPayload(hash') /\ hash'[2].n = n
    BY <1>2, <1>4, <1>5 DEF AnnouncesPayload
  <1>14. /\ q.whole /\ q.left = ctx'.text /\ q.section = PartsRead'
         /\ q.skeleton = <<i, "payloadLength">> \o Texts(PartsRead')
         /\ i = AddProvider => (q.bytes + ctx'.payload) % Word = hash'[2].n
    <2>1. q.whole /\ q.left = 0 /\ q.section = 0
      BY <1>6
    <2>2. QED
      BY <1>7, <1>9, <1>10, <1>12, <1>13, <2>1
  <1>15. screen' = "start" /\ Known(hash') = q
    BY <1>2, <1>3
  <1>16. DescribedInv(i, Known(hash))'
    BY <1>8, <1>10, <1>11, <1>13, <1>14, <1>15 DEF DescribedInv, title
  <1>17. QED
    BY <1>2, <1>3, <1>16, DescribedGoOn DEF Unsigned

\* Between two commands the parts read are those before the part in progress.
LEMMA DescribedFacts ==
  ASSUME NEW i \in Described, NEW k, DescribedInv(i, k), k \in Knowledge
  PROVE  /\ ctx \in DescribedContexts /\ ctx.of = i /\ AnnouncesPayload(hash)
         /\ k.whole /\ k.left = ctx.text /\ k.section = PartsRead
         /\ k.skeleton = <<i, "payloadLength">> \o Texts(PartsRead)
         /\ seen = <<Shown(0, Named(i))>> \o k.shown
         /\ i = AddProvider => (k.bytes + ctx.payload) % Word = hash[2].n
         /\ k.shown \in Seq(Displayed) /\ k.bytes \in Nat
  BY DEF DescribedInv, Knowledge

\* A text read, or its length: e is the context before handleDescriptionPart.
LEMMA DescribedTextRead ==
  ASSUME IInv, NEW i \in Described, NEW e \in DescribedContexts, e.of = i, TextState(e), LeavesPart(e),
         NEW q, q = Known(hash'), HashOf(i, hash'), AnnouncesPayload(hash'),
         q.whole, q.left = e.text, e.text > 0 => q.of = "text", q.section = e.part + 1,
         q.skeleton = <<i, "payloadLength">> \o Texts(e.part + 1),
         seen' = <<Shown(0, Named(i))>> \o q.shown,
         i = AddProvider => (q.bytes + e.payload) % Word = hash'[2].n,
         currentInstruction' = i, owed' \in BOOLEAN, screen' = "description" => owed' = TRUE, Unsigned
  PROVE  IInv'
  <1>1. /\ ctx' \in DescribedContexts /\ ctx'.of = e.of /\ ctx'.text = e.text
        /\ ctx'.payload = e.payload /\ PartsRead' = e.part + 1
        /\ IF ctx'.state = "DESCRIPTION" THEN ctx'.text > 0 ELSE ctx'.text = 0
        /\ ctx'.state = "DESCRIPTION_LENGTH" /\ screen' = "description" => ctx'.part < 2
        /\ ctx'.state \in Behind => ctx'.part = 2
    BY PartRead
  <1>2. /\ q.left = ctx'.text /\ q.section = PartsRead'
        /\ q.skeleton = <<i, "payloadLength">> \o Texts(PartsRead')
        /\ i = AddProvider => (q.bytes + ctx'.payload) % Word = hash'[2].n
    BY <1>1
  <1>3. IF ctx'.state = "DESCRIPTION" THEN ctx'.text > 0 /\ q.of = "text" ELSE ctx'.text = 0
    BY <1>1
  <1>4. DescribedInv(i, Known(hash))'
    BY <1>1, <1>2, <1>3 DEF DescribedInv, Behind
  <1>5. screen' \in Quiet \/ (owed' = TRUE /\ screen' \in {"start", "description", "verifyKeyHash"})
    BY DEF LeavesPart
  <1>6. QED
    BY <1>4, <1>5, DescribedGoOn

LEMMA DescriptionLengthStep ==
  ASSUME IInv, NEW i \in Described, NEW n \in 0..MaxText, DescriptionLength(i, n) PROVE IInv'
  <1> DEFINE k == Known(hash)   it == Item("textLength", n)   q == ReadItem(k, it)
             title == Shown(0, Named(i))   head == <<i, "payloadLength">>
             c == [ctx EXCEPT !.text = n, !.payload = Minus(@, Field), !.state = "DESCRIPTION"]
             e == checkIfDescriptionPartIsDone(c)
  <1>1. i \in MultiCommand /\ n \in Nat /\ it \in Items /\ it.item = "textLength" /\ it.n = n
    BY Kinds, Constants, ItemsKnown DEF Item
  <1>2. /\ ctx.state = "DESCRIPTION_LENGTH" /\ HashOf(i, hash) /\ DescribedInv(i, k) /\ screen \in Quiet
        /\ k \in Knowledge
    BY <1>1, Found, DescribedInvFound DEF DescriptionLength
  <1>3. /\ ctx \in DescribedContexts /\ ctx.of = i /\ AnnouncesPayload(hash)
        /\ k.whole /\ k.left = ctx.text /\ k.section = PartsRead
        /\ k.skeleton = head \o Texts(PartsRead)
        /\ seen = <<title>> \o k.shown
        /\ i = AddProvider => (k.bytes + ctx.payload) % Word = hash[2].n
        /\ k.shown \in Seq(Displayed) /\ k.bytes \in Nat
    BY <1>2, DescribedFacts
  <1>4. PartsRead = ctx.part /\ ctx.text = 0
    BY <1>2 DEF PartsRead, DescribedInv, Quiet
  <1>5. /\ HashOf(i, hash') /\ AnnouncesPayload(hash') /\ hash'[2] = hash[2] /\ Known(hash') = q
    <2>1. Absorb(<<it>>)
      BY DEF DescriptionLength
    <2>2. QED
      BY <1>1, <1>2, <1>3, <2>1, AbsorbedLater
  <1>6. /\ ctx' = [e EXCEPT !.part = nextPart(e)]
        /\ currentInstruction' = i /\ owed' = FALSE /\ screen' = screen /\ reply' = Success /\ seen' = seen
    BY DEF DescriptionLength, AnswerNow
  <1>7. c = [ctx EXCEPT !.text = n, !.payload = Minus(@, Field), !.state = "DESCRIPTION"]
        /\ e = checkIfDescriptionPartIsDone(c)
    OBVIOUS
  <1>8. q = ReadItem(k, it)
    OBVIOUS
  <1> HIDE DEF k, it, q, title, head, c, e
  <1>9. /\ ctx.payload \in 0..(Word - 1) /\ ctx.part \in 0..2 /\ Field \in 0..(Word - 1) /\ Field = 1
    BY <1>3, DescribedFields, Constants DEF Field
  <1>10. /\ Minus(ctx.payload, Field) \in 0..(Word - 1)
         /\ ((k.bytes + Field) + Minus(ctx.payload, Field)) % Word = (k.bytes + ctx.payload) % Word
    BY <1>3, <1>9, MinusCounts
  <1>11. /\ c \in DescribedContexts /\ c.of = i /\ c.state = "DESCRIPTION" /\ c.text = n
         /\ c.payload = Minus(ctx.payload, Field) /\ c.part = ctx.part
    <2>1. /\ c.of = ctx.of /\ c.part = ctx.part /\ c.text = n /\ c.verifyKey = ctx.verifyKey
          /\ c.payload = Minus(ctx.payload, Field) /\ c.state = "DESCRIPTION"
          /\ c = [of |-> c.of, part |-> c.part, text |-> c.text, verifyKey |-> c.verifyKey,
                  payload |-> c.payload, state |-> c.state]
      BY <1>3, <1>7 DEF DescribedContexts
    <2>2. ctx.verifyKey \in 0..(Word - 1)
      BY <1>3, DescribedFields
    <2>3. c \in DescribedContexts
      BY <1>3, <1>9, <1>10, <2>1, <2>2, DescribedContextIs
    <2>4. QED
      BY <1>3, <2>1, <2>3
  <1>12. /\ e \in DescribedContexts /\ e.of = i /\ e.part = ctx.part /\ e.text = n
         /\ e.payload = Minus(ctx.payload, Field) /\ TextState(e)
    BY <1>7, <1>11, PartDone
  <1>13. /\ q.skeleton = Append(k.skeleton, "textLength") /\ q.of = "text" /\ q.left = n /\ q.whole
         /\ q.bytes = k.bytes + Field /\ q.section = k.section + 1 /\ q.shown = k.shown
    <2>1. /\ q.skeleton = Append(k.skeleton, it.item) /\ q.of = AnnouncedBy[it.item] /\ q.left = it.n
          /\ (q.whole <=> k.whole /\ k.left = 0)
          /\ q.bytes = k.bytes + (IF it.item = "textLength" THEN Field ELSE 0)
          /\ q.section = k.section + (IF it.item \in {"size", "textLength"} THEN 1 ELSE 0)
          /\ q.shown = k.shown
      BY <1>1, <1>2, <1>8, ReadNumber
    <2>2. QED
      BY <1>1, <1>3, <1>4, <2>1, AnnouncersAre, SMTT(40)
  <1>14. q.skeleton = head \o Texts(e.part + 1)
    <2>1. ctx.part \in Nat
      BY <1>9
    <2>2. Append(head \o Texts(ctx.part), "textLength") = head \o Texts(ctx.part + 1)
      BY <1>1, <2>1, TextsSkeleton, ZenonT(60) DEF head
    <2>3. QED
      BY <1>3, <1>4, <1>12, <1>13, <2>2
  <1>15. LeavesPart(e)
    BY <1>2, <1>6 DEF LeavesPart
  <1>16. screen' # "description" /\ owed' \in BOOLEAN /\ Unsigned
    BY <1>2, <1>6 DEF Quiet, Unsigned
  <1>17. i = AddProvider => (q.bytes + e.payload) % Word = hash'[2].n
    BY <1>3, <1>5, <1>10, <1>12, <1>13
  <1>18. /\ q = Known(hash') /\ q.whole /\ q.left = e.text /\ q.of = "text" /\ q.section = e.part + 1
         /\ seen' = <<title>> \o q.shown
    BY <1>3, <1>4, <1>5, <1>6, <1>12, <1>13
  <1>19. q.skeleton = <<i, "payloadLength">> \o Texts(e.part + 1) /\ seen' = <<Shown(0, Named(i))>> \o q.shown
    BY <1>14, <1>18 DEF head, title
  <1>20. QED
    BY <1>5, <1>6, <1>12, <1>15, <1>16, <1>17, <1>18, <1>19, DescribedTextRead

LEMMA DescriptionStep ==
  ASSUME IInv, NEW i \in Described, NEW n \in 0..MaxChunk, Description(i, n) PROVE IInv'
  <1> DEFINE k == Known(hash)   it == Item("text", n)   q == Taken(k, it)
             title == Shown(0, Named(i))   head == <<i, "payloadLength">>
             c == [ctx EXCEPT !.text = @ - n, !.payload = Minus(@, n)]
             e == checkIfDescriptionPartIsDone(c)   d == Shown(ctx.part + 1, it)
  <1>1. i \in MultiCommand /\ n \in Nat /\ n \in 0..(Word - 1) /\ it \in Items
        /\ it.item = "text" /\ it.n = n
    BY Kinds, Constants, ItemsKnown DEF Item
  <1>2. /\ ctx.state = "DESCRIPTION" /\ HashOf(i, hash) /\ DescribedInv(i, k) /\ screen \in Quiet
        /\ k \in Knowledge /\ n <= ctx.text
    BY <1>1, Found, DescribedInvFound DEF Description
  <1>3. /\ ctx \in DescribedContexts /\ ctx.of = i /\ AnnouncesPayload(hash)
        /\ k.whole /\ k.left = ctx.text /\ k.section = PartsRead
        /\ k.skeleton = head \o Texts(PartsRead)
        /\ seen = <<title>> \o k.shown
        /\ i = AddProvider => (k.bytes + ctx.payload) % Word = hash[2].n
        /\ k.shown \in Seq(Displayed) /\ k.bytes \in Nat
    BY <1>2, DescribedFacts
  <1>4. PartsRead = ctx.part + 1 /\ k.of = "text"
    BY <1>2 DEF PartsRead, DescribedInv
  <1>5. /\ HashOf(i, hash') /\ AnnouncesPayload(hash') /\ hash'[2] = hash[2] /\ Known(hash') = q
    <2>1. AbsorbBytes("text", n) /\ it = Item("text", n)
      BY DEF Description
    <2>2. QED
      BY <1>1, <1>2, <1>3, <2>1, AbsorbedBytesLater
  <1>6. /\ ctx' = e /\ seen' = IF n = 0 THEN seen ELSE Append(seen, d)
        /\ currentInstruction' = i /\ owed' = TRUE /\ screen' = "description" /\ reply' = reply
    BY DEF Description, ShowText, Show, Ask
  <1>7. c = [ctx EXCEPT !.text = @ - n, !.payload = Minus(@, n)]
        /\ e = checkIfDescriptionPartIsDone(c)
    OBVIOUS
  <1>8. q = Taken(k, it) /\ d = Shown(ctx.part + 1, it)
    OBVIOUS
  <1> HIDE DEF k, it, q, title, head, c, e, d
  <1>9. /\ ctx.payload \in 0..(Word - 1) /\ ctx.part \in 0..2 /\ ctx.text \in 0..MaxText
        /\ ctx.text - n \in 0..MaxText
    <2>1. ctx.payload \in 0..(Word - 1) /\ ctx.part \in 0..2 /\ ctx.text \in 0..MaxText
      BY <1>3, DescribedFields
    <2>2. ctx.text - n \in 0..MaxText
      BY <1>1, <1>2, <2>1, Constants
    <2>3. QED
      BY <2>1, <2>2
  <1>10. /\ Minus(ctx.payload, n) \in 0..(Word - 1)
         /\ ((k.bytes + n) + Minus(ctx.payload, n)) % Word = (k.bytes + ctx.payload) % Word
    BY <1>1, <1>3, <1>9, MinusCounts
  <1>11. /\ c \in DescribedContexts /\ c.of = i /\ c.state = "DESCRIPTION" /\ c.text = ctx.text - n
         /\ c.payload = Minus(ctx.payload, n) /\ c.part = ctx.part
    <2>1. /\ c.of = ctx.of /\ c.part = ctx.part /\ c.text = ctx.text - n /\ c.verifyKey = ctx.verifyKey
          /\ c.payload = Minus(ctx.payload, n) /\ c.state = "DESCRIPTION"
          /\ c = [of |-> c.of, part |-> c.part, text |-> c.text, verifyKey |-> c.verifyKey,
                  payload |-> c.payload, state |-> c.state]
      BY <1>2, <1>3, <1>7 DEF DescribedContexts
    <2>2. ctx.verifyKey \in 0..(Word - 1)
      BY <1>3, DescribedFields
    <2>3. c \in DescribedContexts
      BY <1>3, <1>9, <1>10, <2>1, <2>2, DescribedContextIs
    <2>4. QED
      BY <1>3, <2>1, <2>3
  <1>12. /\ e \in DescribedContexts /\ e.of = i /\ e.part = ctx.part /\ e.text = ctx.text - n
         /\ e.payload = Minus(ctx.payload, n) /\ TextState(e)
    BY <1>7, <1>11, PartDone
  <1>13. k.section = ctx.part + 1 /\ d \in Displayed
    <2>1. ctx.part + 1 \in Nat
      BY <1>9
    <2>2. QED
      BY <1>1, <1>3, <1>4, <1>8, <2>1 DEF Shown, Displayed
  <1>14. /\ q.skeleton = k.skeleton /\ q.of = "text" /\ q.left = k.left - n /\ q.whole
         /\ q.bytes = k.bytes + n /\ q.section = k.section
         /\ q.shown = IF n = 0 THEN k.shown ELSE Append(k.shown, d)
    <2>1. k.left \in Int /\ k.of = "text" /\ q = Taken(k, it)
      BY <1>3, <1>4, <1>8, <1>9, Constants
    <2>2. k \in Knowledge /\ n \in Nat /\ it \in Items /\ it.item = "text" /\ it.n = n
      BY <1>1, <1>2
    <2>3. /\ q.skeleton = k.skeleton /\ q.of = k.of /\ q.left = k.left - n /\ (q.whole <=> k.whole)
          /\ q.bytes = k.bytes + n /\ q.section = k.section
          /\ q.shown = IF n = 0 THEN k.shown ELSE Append(k.shown, Shown(k.section, it))
      BY <2>1, <2>2, TakenText, SMTT(40)
    <2>4. Shown(k.section, it) = d
      BY <1>8, <1>13
    <2>5. QED
      BY <1>3, <1>4, <2>3, <2>4
  <1>15. q.skeleton = head \o Texts(e.part + 1)
    BY <1>3, <1>4, <1>12, <1>14
  <1>16. LeavesPart(e)
    BY <1>6 DEF LeavesPart
  <1>17. owed' \in BOOLEAN /\ Unsigned
    BY <1>6 DEF Unsigned
  <1>18. i = AddProvider => (q.bytes + e.payload) % Word = hash'[2].n
    BY <1>3, <1>5, <1>10, <1>12, <1>14
  <1>19. seen' = <<title>> \o q.shown
    <2>1. Append(<<title>> \o k.shown, d) = <<title>> \o Append(k.shown, d)
      BY <1>3, <1>13, BehindTitle, SMTT(40)
    <2>2. CASE n = 0
      BY <1>3, <1>6, <1>14, <2>2
    <2>3. CASE n # 0
      BY <1>3, <1>6, <1>14, <2>1, <2>3
    <2>4. QED
      BY <2>2, <2>3
  <1>20. q = Known(hash') /\ q.whole /\ q.left = e.text /\ q.of = "text" /\ q.section = e.part + 1
    BY <1>3, <1>4, <1>5, <1>12, <1>13, <1>14
  <1>21. q.skeleton = <<i, "payloadLength">> \o Texts(e.part + 1) /\ seen' = <<Shown(0, Named(i))>> \o q.shown
    BY <1>15, <1>19 DEF head, title
  <1>22. QED
    BY <1>5, <1>6, <1>12, <1>16, <1>17, <1>18, <1>20, <1>21, DescribedTextRead

LEMMA PressDescriptionStep ==
  ASSUME IInv, PressDescription PROVE IInv'
  <1> PICK i : i = currentInstruction
    OBVIOUS
  <1> DEFINE k == Known(hash)
  <1>1. screen = "description" /\ screen \notin Quiet /\ screen # "sign"
    BY DEF PressDescription, Quiet
  <1>2. /\ i \in MultiCommand /\ screen \in Dialogs(i) /\ owed = TRUE /\ HashOf(i, hash)
        /\ KindInv(i) /\ k \in Knowledge
    BY <1>1, OnDisplay
  <1>3. i \in Described
    BY <1>1, <1>2, Kinds, DialogsOf
  <1>4. DescribedInv(i, k)
    BY <1>2, <1>3, DescribedInvFound
  <1>5. /\ ctx \in DescribedContexts /\ ctx.of = i /\ AnnouncesPayload(hash)
        /\ k.whole /\ k.left = ctx.text /\ k.section = PartsRead
        /\ k.skeleton = <<i, "payloadLength">> \o Texts(PartsRead)
        /\ seen = <<Shown(0, Named(i))>> \o k.shown
        /\ i = AddProvider => (k.bytes + ctx.payload) % Word = hash[2].n
    BY <1>2, <1>3, <1>4, DescribedFacts
  <1>6. TextState(ctx) /\ PartsRead = ctx.part + 1 /\ (ctx.text > 0 => k.of = "text")
    <2>1. ctx.text \in 0..MaxText /\ MaxText \in Nat
      BY <1>5, DescribedFields, Constants
    <2>2. QED
      BY <1>1, <1>4, <2>1 DEF DescribedInv, TextState, PartsRead, Behind
  <1>7. /\ ctx' = [ctx EXCEPT !.part = nextPart(ctx)] /\ hash' = hash /\ seen' = seen
        /\ currentInstruction' = i /\ owed' = FALSE /\ screen' \in Quiet /\ reply' = Success
    BY Frozen DEF PressDescription, PressContinue
  <1>8. k = Known(hash')
    BY <1>7
  <1> HIDE DEF k
  <1>9. LeavesPart(ctx) /\ screen' # "description" /\ Unsigned /\ owed' \in BOOLEAN
    BY <1>7 DEF LeavesPart, Quiet, Unsigned
  <1>10. /\ HashOf(i, hash') /\ AnnouncesPayload(hash') /\ seen' = <<Shown(0, Named(i))>> \o k.shown
         /\ k.section = ctx.part + 1 /\ k.skeleton = <<i, "payloadLength">> \o Texts(ctx.part + 1)
         /\ i = AddProvider => (k.bytes + ctx.payload) % Word = hash'[2].n
    BY <1>2, <1>5, <1>6, <1>7
  <1>11. k.whole /\ k.left = ctx.text /\ (ctx.text > 0 => k.of = "text")
    BY <1>5, <1>6
  <1>12. ctx \in DescribedContexts /\ ctx.of = i /\ TextState(ctx) /\ currentInstruction' = i
    BY <1>5, <1>6, <1>7
  <1>13. QED
    BY <1>3, <1>8, <1>9, <1>10, <1>11, <1>12, DescribedTextRead

\* Behind its description an update has read every text.
LEMMA DescribedBehind ==
  ASSUME NEW i \in Described, NEW k, DescribedInv(i, k), ctx.state \in Behind, NEW h, h = <<i, "payloadLength">>
  PROVE  /\ PartsRead = 3 /\ ctx.part = 2 /\ ctx.text = 0 /\ k.left = 0
         /\ k.skeleton = h \o Texts(3) /\ k.section = 3
  <1>1. ctx.part = 2 /\ ctx.text = 0 /\ k.left = ctx.text
    BY DEF DescribedInv, Behind
  <1>2. PartsRead = ctx.part + 1
    BY DEF PartsRead, Behind
  <1>3. k.skeleton = h \o Texts(PartsRead) /\ k.section = PartsRead
    BY DEF DescribedInv
  <1>4. PartsRead = 3
    BY <1>1, <1>2
  <1>5. QED
    BY <1>1, <1>3, <1>4

\* The approved update is whole, counted and shown: the last part of its payload
\* has been read.
LEMMA DescribedAsked ==
  ASSUME IInv, NEW i \in Described, currentInstruction' = i, owed' = TRUE, screen' = "sign",
         reply' = reply, ctx' \in DescribedContexts, HashOf(i, hash'), NEW q, q = Known(hash'),
         NEW part, part = IF i = AddProvider THEN "cdiVerifyKey" ELSE "publicKey",
         q.skeleton = Append(<<i, "payloadLength">> \o Texts(3), part), q.whole, q.left = 0,
         q.shown \in Seq(Displayed), seen' = <<Shown(0, Named(i))>> \o q.shown,
         i = AddProvider => q.bytes % Word = hash'[2].n
  PROVE  IInv'
  <1>1. i \in MultiCommand /\ i \notin HigherLevel /\ i \notin Authorizing /\ i # Protocol /\ i # CreatePlt
    BY Kinds
  <1>2. KindOf(hash') = i
    BY DEF KindOf, HashOf, Named, Item
  <1>3. SkeletonOf(i, hash') = Append(<<i, "payloadLength">> \o Texts(3), part)
    <2>1. i = AddProvider \/ (i # AddProvider /\ i = AddRevoker)
      BY DEF Described
    <2>2. CASE i = AddProvider
      <3>1. SkeletonOf(i, hash') = Append(<<i, "payloadLength">> \o Texts(3), "cdiVerifyKey")
        BY <2>2, SkeletonsAre
      <3>2. part = "cdiVerifyKey"
        BY <2>2
      <3>3. QED
        BY <3>1, <3>2
    <2>3. CASE i # AddProvider /\ i = AddRevoker
      <3>1. SkeletonOf(i, hash') = Append(<<i, "payloadLength">> \o Texts(3), "publicKey")
        BY <2>3, SkeletonsAre
      <3>2. part = "publicKey"
        BY <2>3
      <3>3. QED
        BY <3>1, <3>2
    <2>4. QED
      BY <2>1, <2>2, <2>3
  <1>4. IsOneUpdate(hash')
    BY <1>2, <1>3 DEF IsOneUpdate
  <1>5. IsWhole(hash')
    BY DEF IsWhole
  <1>6. IsCounted(hash')
    BY <1>1, <1>2 DEF IsCounted
  <1>7. WasShown(hash', seen')
    <2>1. Tail(seen') = q.shown /\ seen'[1] = Shown(0, Named(i))
      BY BehindTitle, SMTT(40)
    <2>2. seen'[1].what = Named(i)
      BY <2>1 DEF Shown
    <2>3. QED
      BY <1>1, <1>2, <2>1, <2>2 DEF WasShown
  <1>8. Complete(hash', seen')
    BY <1>4, <1>5, <1>6, <1>7 DEF Complete
  <1>9. ContextInv'
    BY DEF ContextInv
  <1>10. QED
    BY <1>1, <1>8, <1>9, Asked DEF Unsigned

LEMMA VerifyKeyStep ==
  ASSUME IInv, NEW n \in 0..MaxChunk, VerifyKey(n) PROVE IInv'
  <1> PICK i : i = AddProvider
    OBVIOUS
  <1> DEFINE k == Known(hash)   it == Item("verifyKey", n)   q == Taken(k, it)
             head == <<i, "payloadLength">>   left == Minus(ctx.verifyKey, n)
             title == Shown(0, Named(i))
  <1>1. i \in Described /\ i \in MultiCommand /\ n \in Nat /\ n \in 0..(Word - 1) /\ it \in Items
        /\ it.item = "verifyKey" /\ it.n = n
    BY Kinds, Constants, ItemsKnown DEF Item, Described
  <1>2. /\ ctx.state = "VERIFY_KEY" /\ HashOf(i, hash) /\ DescribedInv(i, k) /\ screen \in Quiet
        /\ k \in Knowledge
    BY <1>1, Found, DescribedInvFound DEF VerifyKey
  <1>3. /\ ctx \in DescribedContexts /\ ctx.of = i /\ AnnouncesPayload(hash) /\ k.whole
        /\ seen = <<title>> \o k.shown
        /\ (k.bytes + ctx.payload) % Word = hash[2].n
        /\ k.shown \in Seq(Displayed) /\ k.bytes \in Nat
    BY <1>1, <1>2, DescribedFacts
  <1>4. /\ ctx.part = 2 /\ ctx.text = 0 /\ k.left = 0 /\ k.skeleton = head \o Texts(3) /\ k.section = 3
    <2>1. ctx.state \in Behind
      BY <1>2 DEF Behind
    <2>2. QED
      BY <1>1, <1>2, <2>1, DescribedBehind
  <1>5. /\ HashOf(i, hash') /\ AnnouncesPayload(hash') /\ hash'[2] = hash[2] /\ Known(hash') = q
    <2>1. AbsorbBytes("verifyKey", n) /\ it = Item("verifyKey", n)
      BY DEF VerifyKey
    <2>2. QED
      BY <1>1, <1>2, <1>3, <2>1, AbsorbedBytesLater
  <1>6. /\ ctx' = [ctx EXCEPT !.verifyKey = left, !.payload = Minus(@, n),
                              !.state = IF left = 0 THEN "CDI_VERIFY_KEY" ELSE @]
        /\ IF left = 0 THEN Ask(i, "verifyKeyHash") ELSE AnswerNow(i)
        /\ seen' = seen
    BY DEF VerifyKey
  <1>7. q = Taken(k, it) /\ left = Minus(ctx.verifyKey, n)
    OBVIOUS
  <1>8. i = AddProvider
    OBVIOUS
  <1> HIDE DEF k, it, q, title, head, left
  <1>9. /\ ctx.payload \in 0..(Word - 1) /\ ctx.verifyKey \in 0..(Word - 1)
    BY <1>3, DescribedFields
  <1>10. /\ Minus(ctx.payload, n) \in 0..(Word - 1) /\ left \in 0..(Word - 1)
         /\ ((k.bytes + n) + Minus(ctx.payload, n)) % Word = (k.bytes + ctx.payload) % Word
    BY <1>1, <1>3, <1>7, <1>9, MinusCounts
  <1>11. /\ ctx'.of = i /\ ctx'.part = 2 /\ ctx'.text = 0 /\ ctx'.verifyKey = left
         /\ ctx'.payload = Minus(ctx.payload, n) /\ ctx'.state \in {"VERIFY_KEY", "CDI_VERIFY_KEY"}
         /\ ctx' = [of |-> ctx'.of, part |-> ctx'.part, text |-> ctx'.text, verifyKey |-> ctx'.verifyKey,
                    payload |-> ctx'.payload, state |-> ctx'.state]
    BY <1>2, <1>3, <1>4, <1>6 DEF DescribedContexts
  <1>12. ctx' \in DescribedContexts
    <2>1. 0 \in 0..MaxText /\ 2 \in 0..2
      BY Constants
    <2>2. QED
      BY <1>1, <1>10, <1>11, <2>1, DescribedContextIs
  <1>13. /\ q.skeleton = k.skeleton /\ q.left = 0 /\ q.whole /\ q.bytes = k.bytes + n
         /\ q.section = k.section /\ q.shown = k.shown
    <2>1. /\ q.skeleton = k.skeleton /\ q.left = k.left /\ (q.whole => k.whole)
          /\ (k.whole /\ k.left = 0 => q.whole)
          /\ q.bytes = k.bytes + n /\ q.section = k.section /\ q.shown = k.shown
      BY <1>1, <1>2, <1>7, TakenBytes
    <2>2. QED
      BY <1>1, <1>3, <1>4, <2>1
  <1>14. /\ currentInstruction' = i /\ Unsigned
         /\ owed' \in BOOLEAN /\ (screen' \in Quiet \/ (owed' = TRUE /\ screen' = "verifyKeyHash"))
         /\ screen' # "description"
    BY <1>2, <1>6 DEF Ask, AnswerNow, Unsigned, Quiet
  <1>15. PartsRead' = 3
    BY <1>11 DEF PartsRead
  <1>16. /\ q.left = ctx'.text /\ q.section = PartsRead'
         /\ q.skeleton = head \o Texts(PartsRead')
         /\ (q.bytes + ctx'.payload) % Word = hash'[2].n
    BY <1>3, <1>4, <1>5, <1>10, <1>11, <1>13, <1>15
  <1>17. DescribedInv(i, Known(hash))'
    BY <1>3, <1>5, <1>6, <1>11, <1>12, <1>13, <1>14, <1>16 DEF DescribedInv, title, head
  <1>18. QED
    BY <1>1, <1>5, <1>14, <1>17, DescribedGoOn

LEMMA CdiVerifyKeyStep ==
  ASSUME IInv, NEW whole \in BOOLEAN, CdiVerifyKey(whole) PROVE IInv'
  <1> PICK i : i = AddProvider
    OBVIOUS
  <1> DEFINE k == Known(hash)   it == Named("cdiVerifyKey")   q == ReadItem(k, it)
             head == <<i, "payloadLength">>   title == Shown(0, Named(i))
  <1>1. i \in Described /\ i \in MultiCommand /\ it \in Items /\ it.item = "cdiVerifyKey"
        /\ it.item \in Parts /\ InPayload(it) = Field
    BY Kinds, ItemsKnown DEF Named, Item, Described, Parts, InPayload
  <1>2. /\ ctx.state = "CDI_VERIFY_KEY" /\ HashOf(i, hash) /\ DescribedInv(i, k) /\ screen \in Quiet
        /\ k \in Knowledge
    BY <1>1, Found, DescribedInvFound DEF CdiVerifyKey
  <1>3. /\ ctx \in DescribedContexts /\ ctx.of = i /\ AnnouncesPayload(hash) /\ k.whole
        /\ seen = <<title>> \o k.shown
        /\ (k.bytes + ctx.payload) % Word = hash[2].n
        /\ k.shown \in Seq(Displayed) /\ k.bytes \in Nat
    BY <1>1, <1>2, DescribedFacts
  <1>4. /\ ctx.part = 2 /\ ctx.text = 0 /\ k.left = 0 /\ k.skeleton = head \o Texts(3)
    <2>1. ctx.state \in Behind
      BY <1>2 DEF Behind
    <2>2. QED
      BY <1>1, <1>2, <2>1, DescribedBehind
  <1>5. /\ HashOf(i, hash') /\ AnnouncesPayload(hash') /\ hash'[2] = hash[2] /\ Known(hash') = q
    <2>1. Absorb(<<it>>)
      BY DEF CdiVerifyKey
    <2>2. QED
      BY <1>1, <1>2, <1>3, <2>1, AbsorbedLater
  <1>6. /\ ctx' = [ctx EXCEPT !.payload = Minus(@, Field)]
        /\ IF whole /\ ctx'.payload = 0 THEN Ask(i, "sign") ELSE Refuse
        /\ seen' = seen
    BY DEF CdiVerifyKey
  <1>7. q = ReadItem(k, it)
    OBVIOUS
  <1> HIDE DEF k, it, q, title, head
  <1>8. /\ ctx.payload \in 0..(Word - 1) /\ ctx.verifyKey \in 0..(Word - 1)
        /\ Field \in 0..(Word - 1) /\ Field = 1
    BY <1>3, DescribedFields, Constants DEF Field
  <1>9. /\ Minus(ctx.payload, Field) \in 0..(Word - 1)
        /\ ((k.bytes + Field) + Minus(ctx.payload, Field)) % Word = (k.bytes + ctx.payload) % Word
    BY <1>3, <1>8, MinusCounts
  <1>10. /\ ctx'.of = i /\ ctx'.part = 2 /\ ctx'.text = 0 /\ ctx'.verifyKey = ctx.verifyKey
         /\ ctx'.payload = Minus(ctx.payload, Field) /\ ctx'.state = "CDI_VERIFY_KEY"
         /\ ctx' = [of |-> ctx'.of, part |-> ctx'.part, text |-> ctx'.text, verifyKey |-> ctx'.verifyKey,
                    payload |-> ctx'.payload, state |-> ctx'.state]
    BY <1>2, <1>3, <1>4, <1>6 DEF DescribedContexts
  <1>11. ctx' \in DescribedContexts
    <2>1. 0 \in 0..MaxText /\ 2 \in 0..2
      BY Constants
    <2>2. QED
      BY <1>1, <1>8, <1>9, <1>10, <2>1, DescribedContextIs
  <1>12. CASE whole /\ ctx'.payload = 0
    <2>1. currentInstruction' = i /\ owed' = TRUE /\ screen' = "sign" /\ reply' = reply
      BY <1>6, <1>12 DEF Ask
    <2>2. /\ q.skeleton = Append(head \o Texts(3), "cdiVerifyKey") /\ q.left = 0 /\ q.whole
          /\ q.bytes = k.bytes + Field /\ q.shown = k.shown
      <3>1. /\ q.skeleton = Append(k.skeleton, it.item) /\ q.left = k.left
            /\ (q.whole <=> k.whole /\ k.left = 0)
            /\ q.bytes = k.bytes + InPayload(it) /\ q.shown = k.shown
        BY <1>1, <1>2, <1>7, ReadPart
      <3>2. QED
        BY <1>1, <1>3, <1>4, <3>1
    <2>3. q.bytes % Word = hash'[2].n
      <3>1. k.bytes + Field \in Nat /\ Minus(ctx.payload, Field) = 0
        BY <1>3, <1>8, <1>10, <1>12
      <3>2. (k.bytes + Field) + 0 = k.bytes + Field
        BY <3>1
      <3>3. QED
        BY <1>3, <1>5, <1>9, <2>2, <3>1, <3>2
    <2>4. q.skeleton = Append(<<i, "payloadLength">> \o Texts(3), "cdiVerifyKey")
      BY <2>2 DEF head
    <2>5. q.shown \in Seq(Displayed) /\ seen' = <<Shown(0, Named(i))>> \o q.shown
      BY <1>3, <1>6, <2>2 DEF title
    <2>6. "cdiVerifyKey" = IF i = AddProvider THEN "cdiVerifyKey" ELSE "publicKey"
      OBVIOUS
    <2>7. q = Known(hash') /\ q.whole /\ q.left = 0 /\ HashOf(i, hash')
      BY <1>5, <2>2
    <2>8. QED
      BY <1>1, <1>11, <2>1, <2>3, <2>4, <2>5, <2>6, <2>7, DescribedAsked
  <1>13. CASE ~(whole /\ ctx'.payload = 0)
    <2>1. Refuse
      BY <1>6, <1>13
    <2>2. currentInstruction' = None /\ owed' \in BOOLEAN /\ screen' \in Quiet /\ Unsigned
      BY <1>2, <2>1 DEF Refuse, Unsigned
    <2>3. ContextInv'
      BY <1>11 DEF ContextInv
    <2>4. QED
      BY <2>2, <2>3, Ended
  <1>14. QED
    BY <1>12, <1>13

LEMMA RevokerPublicKeyStep ==
  ASSUME IInv, RevokerPublicKey PROVE IInv'
  <1> PICK i : i = AddRevoker
    OBVIOUS
  <1> DEFINE k == Known(hash)   it == Named("publicKey")   q == ReadItem(k, it)
             head == <<i, "payloadLength">>   title == Shown(0, Named(i))
  <1>1. i \in Described /\ i \in MultiCommand /\ i # AddProvider /\ it \in Items
        /\ it.item = "publicKey" /\ it.item \in Parts
    BY Kinds, ItemsKnown DEF Named, Item, Described, Parts, AddProvider, AddRevoker
  <1>2. /\ ctx.state = "PUBLIC_KEY" /\ HashOf(i, hash) /\ DescribedInv(i, k) /\ k \in Knowledge
    BY <1>1, Found, DescribedInvFound DEF RevokerPublicKey
  <1>3. /\ ctx \in DescribedContexts /\ AnnouncesPayload(hash) /\ k.whole
        /\ seen = <<title>> \o k.shown /\ k.shown \in Seq(Displayed)
    BY <1>1, <1>2, DescribedFacts
  <1>4. k.left = 0 /\ k.skeleton = head \o Texts(3)
    <2>1. ctx.state \in Behind
      BY <1>2 DEF Behind
    <2>2. QED
      BY <1>1, <1>2, <2>1, DescribedBehind
  <1>5. HashOf(i, hash') /\ Known(hash') = q
    <2>1. Absorb(<<it>>)
      BY DEF RevokerPublicKey
    <2>2. QED
      BY <1>1, <1>2, <1>3, <2>1, AbsorbedLater
  <1>6. /\ ctx' = ctx /\ seen' = seen
        /\ currentInstruction' = i /\ owed' = TRUE /\ screen' = "sign" /\ reply' = reply
    BY DEF RevokerPublicKey, Ask
  <1>7. q = ReadItem(k, it)
    OBVIOUS
  <1> HIDE DEF k, it, q, title, head
  <1>8. /\ q.skeleton = Append(head \o Texts(3), "publicKey") /\ q.left = 0 /\ q.whole /\ q.shown = k.shown
    <2>1. /\ q.skeleton = Append(k.skeleton, it.item) /\ q.left = k.left
          /\ (q.whole <=> k.whole /\ k.left = 0) /\ q.shown = k.shown
      BY <1>1, <1>2, <1>7, ReadPart
    <2>2. QED
      BY <1>1, <1>3, <1>4, <2>1
  <1>9. q.skeleton = Append(<<i, "payloadLength">> \o Texts(3), "publicKey")
    BY <1>8 DEF head
  <1>10. q.shown \in Seq(Displayed) /\ seen' = <<Shown(0, Named(i))>> \o q.shown
    BY <1>3, <1>6, <1>8 DEF title
  <1>11. "publicKey" = IF i = AddProvider THEN "cdiVerifyKey" ELSE "publicKey"
    BY <1>1
  <1>12. q = Known(hash') /\ q.whole /\ q.left = 0 /\ ctx' \in DescribedContexts
    BY <1>3, <1>5, <1>6, <1>8
  <1>13. QED
    BY <1>1, <1>5, <1>6, <1>9, <1>10, <1>11, <1>12, DescribedAsked

-----------------------------------------------------------------------------
(***************************************************************************)
(* The protocol update.                                                    *)
(***************************************************************************)
LEMMA ProtocolFields ==
  ASSUME NEW c \in ProtocolContexts
  PROVE  /\ c.of = Protocol /\ c.part \in 0..2 /\ c.text \in 0..(Word - 1) /\ c.payload \in 0..(Word - 1)
         /\ c.state \in {"TEXT_LENGTH", "TEXT", "SPECIFICATION_HASH", "AUXILIARY_DATA"}
  BY DEF ProtocolContexts

LEMMA ProtocolContextIs ==
  ASSUME NEW c, c.of = Protocol, c.part \in 0..2, c.text \in 0..(Word - 1), c.payload \in 0..(Word - 1),
         c.state \in {"TEXT_LENGTH", "TEXT", "SPECIFICATION_HASH", "AUXILIARY_DATA"},
         c = [of |-> c.of, part |-> c.part, text |-> c.text, payload |-> c.payload, state |-> c.state]
  PROVE  c \in ProtocolContexts
  BY DEF ProtocolContexts

LEMMA ProtocolGoOn ==
  ASSUME IInv, currentInstruction' = Protocol, owed' \in BOOLEAN,
         screen' \in Quiet \/ (owed' = TRUE /\ screen' \in {"message", "url", "specificationHash"}),
         HashOf(Protocol, hash'), ProtocolInv(Known(hash))', Unsigned
  PROVE  IInv'
  <1>1. Protocol \in MultiCommand /\ KindInv(Protocol)'
    BY Kinds DEF KindInv
  <1>2. screen' \in Quiet \/ (owed' = TRUE /\ screen' \in Dialogs(Protocol))
    BY DialogsOf
  <1>3. screen' # "sign"
    BY DEF Quiet
  <1>4. QED
    BY <1>1, <1>2, <1>3, Continued

LEMMA ProtocolFound ==
  ASSUME IInv, NEW s, s # "INITIAL", InTurn(Protocol, s)
  PROVE  /\ ctx.state = s /\ screen \in Quiet /\ HashOf(Protocol, hash)
         /\ ProtocolInv(Known(hash)) /\ Known(hash) \in Knowledge
  <1>1. Protocol \in MultiCommand
    BY Kinds
  <1>2. /\ ctx.state = s /\ screen \in Quiet /\ HashOf(Protocol, hash)
        /\ KindInv(Protocol) /\ Known(hash) \in Knowledge
    BY <1>1, Found
  <1>3. QED
    BY <1>2 DEF KindInv

\* What every command finds, and counts on with the bytes it takes.
LEMMA ProtocolCounts ==
  ASSUME NEW k \in Knowledge, ProtocolInv(k), NEW n \in 0..(Word - 1)
  PROVE  /\ Minus(ctx.payload, n) \in 0..(Word - 1)
         /\ ((k.bytes + n) + Minus(ctx.payload, n)) % Word = hash[2].n
  <1>1. k.bytes \in Nat
    BY DEF Knowledge
  <1>2. ctx.payload \in 0..(Word - 1) /\ (k.bytes + ctx.payload) % Word = hash[2].n
    BY ProtocolFields DEF ProtocolInv
  <1>3. QED
    BY <1>1, <1>2, MinusCounts

LEMMA ProtocolInitialStep ==
  ASSUME IInv, NEW n \in 0..MaxPayload, ProtocolInitial(n) PROVE IInv'
  <1> PICK i : i = Protocol
    OBVIOUS
  <1> DEFINE a == Item("payloadLength", n)   q == ReadItem(ReadItem(Unread, Named(i)), a)
             head == <<i, "payloadLength">>
  <1>1. i \in MultiCommand /\ i # AddProvider /\ n \in Nat /\ n \in 0..(Word - 1) /\ a \in Items
    BY Kinds, Constants, ItemsKnown DEF Described
  <1>2. /\ HashOf(i, hash') /\ Len(hash') = 2 /\ hash'[2] = a /\ Known(hash') = q
    BY <1>1, BeginOne DEF ProtocolInitial
  <1>3. /\ ctx' = [of |-> i, state |-> "TEXT_LENGTH", part |-> 0, text |-> 0, payload |-> n]
        /\ seen' = <<>>
        /\ currentInstruction' = i /\ owed' = FALSE /\ screen' = screen /\ reply' = Success
    BY DEF ProtocolInitial, AnswerNow, MESSAGE
  <1>4. a.item = "payloadLength" /\ a.item \in Parts /\ a.n = n /\ InPayload(a) = 0
    BY DEF Item, Parts, InPayload, AddProvider
  <1>5. q = ReadItem(ReadItem(Unread, Named(i)), a) /\ hash'[2] = Item("payloadLength", n)
    BY <1>2
  <1>6. screen \in Quiet
    BY <1>1, AtFirst DEF ProtocolInitial
  <1> HIDE DEF q, a
  <1>7. /\ q.skeleton = head /\ q.left = 0 /\ q.whole /\ q.bytes = 0 /\ q.shown = <<>> /\ q.section = 0
    <2>1. /\ q.skeleton = <<i, a.item>> /\ q.left = 0 /\ q.whole
          /\ q.bytes = (IF i = AddProvider THEN Field ELSE 0) + InPayload(a)
          /\ q.section = 0 /\ q.shown = <<>>
      BY <1>1, <1>4, <1>5, FirstParts
    <2>2. QED
      BY <1>1, <1>4, <2>1
  <1>8. head \o Texts(0) = head
    BY <1>1, TextsSkeleton
  <1> HIDE DEF head
  <1>9. /\ ctx'.of = Protocol /\ ctx'.state = "TEXT_LENGTH" /\ ctx'.part = 0 /\ ctx'.text = 0
        /\ ctx'.payload = n
        /\ ctx' = [of |-> ctx'.of, part |-> ctx'.part, text |-> ctx'.text, payload |-> ctx'.payload,
                   state |-> ctx'.state]
    BY <1>3
  <1>10. ctx' \in ProtocolContexts
    <2>1. 0 \in 0..(Word - 1) /\ 0 \in 0..2
      BY Constants
    <2>2. QED
      BY <1>1, <1>9, <2>1, ProtocolContextIs
  <1>11. screen' \notin {"message", "url", "specificationHash"}
    BY <1>3, <1>6 DEF Quiet
  <1>12. AnnouncesPayload(hash') /\ hash'[2].n = n /\ (q.bytes + ctx'.payload) % Word = hash'[2].n
    <2>1. AnnouncesPayload(hash') /\ hash'[2].n = n
      BY <1>2, <1>4, <1>5 DEF AnnouncesPayload
    <2>2. q.bytes + ctx'.payload = n
      BY <1>1, <1>7, <1>9
    <2>3. QED
      BY <1>1, <2>1, <2>2, Remains
  <1>13. TextsRead' = 0
    BY <1>9, <1>11 DEF TextsRead
  <1>14. WholeTexts(q)'
    <2>1. q'.skeleton = head \o Texts(0) /\ q' = q /\ seen' = q.shown /\ q.section = 0
      BY <1>3, <1>7, <1>8 DEF q
    <2>2. QED
      BY <1>9, <1>13, <2>1 DEF WholeTexts, head
  <1>15. q' = q /\ Known(hash') = q
    BY <1>2 DEF q
  <1>16. ProtocolInv(Known(hash))'
    BY <1>9, <1>10, <1>11, <1>12, <1>14, <1>15 DEF ProtocolInv
  <1>17. QED
    BY <1>2, <1>3, <1>6, <1>16, ProtocolGoOn DEF Unsigned

LEMMA TextLengthStep ==
  ASSUME IInv, NEW n \in 0..MaxText, TextLength(n) PROVE IInv'
  <1> PICK i : i = Protocol
    OBVIOUS
  <1> DEFINE k == Known(hash)   it == Item("textLength", n)   q == ReadItem(k, it)
             head == <<i, "payloadLength">>
  <1>1. i \in MultiCommand /\ n \in Nat /\ n \in 0..(Word - 1) /\ it \in Items
        /\ it.item = "textLength" /\ it.n = n
    BY Kinds, Constants, ItemsKnown DEF Item
  <1>2. /\ ctx.state = "TEXT_LENGTH" /\ screen \in Quiet /\ HashOf(i, hash) /\ ProtocolInv(k)
        /\ k \in Knowledge
    BY ProtocolFound DEF TextLength
  <1>3. /\ ctx \in ProtocolContexts /\ AnnouncesPayload(hash) /\ ctx.part < 2
        /\ k.whole /\ k.left = 0 => WholeTexts(k)
    BY <1>2 DEF ProtocolInv
  <1>4. TextsRead = ctx.part
    BY <1>2 DEF TextsRead, Quiet
  <1>5. /\ HashOf(i, hash') /\ AnnouncesPayload(hash') /\ hash'[2] = hash[2] /\ Known(hash') = q
    <2>1. Absorb(<<it>>)
      BY DEF TextLength
    <2>2. QED
      BY <1>1, <1>2, <1>3, <2>1, AbsorbedLater
  <1>6. /\ ctx' = [ctx EXCEPT !.text = n, !.payload = Minus(@, Field), !.state = "TEXT"]
        /\ currentInstruction' = i /\ owed' = FALSE /\ screen' = screen /\ reply' = Success /\ seen' = seen
    BY DEF TextLength, AnswerNow
  <1>7. q = ReadItem(k, it)
    OBVIOUS
  <1>8. Field \in 0..(Word - 1)
    BY Constants DEF Field
  <1>9. /\ Minus(ctx.payload, Field) \in 0..(Word - 1)
        /\ ((k.bytes + Field) + Minus(ctx.payload, Field)) % Word = hash[2].n
    BY <1>2, <1>8, ProtocolCounts
  <1> HIDE DEF k, it, q, head
  <1>10. /\ ctx'.of = Protocol /\ ctx'.state = "TEXT" /\ ctx'.part = ctx.part /\ ctx'.text = n
         /\ ctx'.payload = Minus(ctx.payload, Field)
         /\ ctx' = [of |-> ctx'.of, part |-> ctx'.part, text |-> ctx'.text, payload |-> ctx'.payload,
                    state |-> ctx'.state]
    BY <1>3, <1>6 DEF ProtocolContexts
  <1>11. ctx.part \in 0..2
    BY <1>3, ProtocolFields
  <1>12. ctx' \in ProtocolContexts
    BY <1>1, <1>9, <1>10, <1>11, ProtocolContextIs
  <1>13. /\ q.skeleton = Append(k.skeleton, "textLength") /\ q.of = "text" /\ q.left = n
         /\ (q.whole <=> k.whole /\ k.left = 0)
         /\ q.bytes = k.bytes + Field /\ q.section = k.section + 1 /\ q.shown = k.shown
    <2>1. /\ q.skeleton = Append(k.skeleton, it.item) /\ q.of = AnnouncedBy[it.item] /\ q.left = it.n
          /\ (q.whole <=> k.whole /\ k.left = 0)
          /\ q.bytes = k.bytes + (IF it.item = "textLength" THEN Field ELSE 0)
          /\ q.section = k.section + (IF it.item \in {"size", "textLength"} THEN 1 ELSE 0)
          /\ q.shown = k.shown
      BY <1>1, <1>2, <1>7, ReadNumber
    <2>2. QED
      BY <1>1, <2>1, AnnouncersAre
  <1>14. screen' \notin {"message", "url", "specificationHash"}
    BY <1>2, <1>6 DEF Quiet
  <1>15. TextsRead' = ctx.part + 1
    BY <1>10 DEF TextsRead
  <1>16. q.whole => WholeTexts(Known(hash))'
    <2> SUFFICES ASSUME q.whole PROVE WholeTexts(Known(hash))'
      OBVIOUS
    <2>1. WholeTexts(k)
      BY <1>3, <1>13
    <2>2. k.section = ctx.part /\ k.skeleton = head \o Texts(ctx.part) /\ seen = k.shown
      BY <1>2, <1>4, <2>1 DEF WholeTexts, head
    <2>3. Append(head \o Texts(ctx.part), "textLength") = head \o Texts(ctx.part + 1)
      <3>1. ctx.part \in Nat /\ i \in MultiCommand
        BY <1>1, <1>11
      <3>2. head = <<i, "payloadLength">>
        BY DEF head
      <3>3. QED
        BY <3>1, <3>2, TextsSkeleton, ZenonT(60)
    <2>4. q.skeleton = head \o Texts(TextsRead') /\ q.section = TextsRead' /\ seen' = q.shown
      BY <1>6, <1>13, <1>15, <2>2, <2>3
    <2>5. QED
      BY <1>5, <1>10, <2>4 DEF WholeTexts, head
  <1>17. (q.bytes + ctx'.payload) % Word = hash'[2].n
    BY <1>5, <1>9, <1>10, <1>13
  <1>18. ctx'.part < 2 /\ q.left = ctx'.text
    BY <1>3, <1>10, <1>13
  <1>19. ProtocolInv(Known(hash))'
    BY <1>5, <1>10, <1>12, <1>13, <1>14, <1>16, <1>17, <1>18 DEF ProtocolInv
  <1>20. QED
    BY <1>2, <1>5, <1>6, <1>19, ProtocolGoOn DEF Unsigned

LEMMA TextStep ==
  ASSUME IInv, NEW n \in 0..MaxChunk, Text(n) PROVE IInv'
  <1> PICK i : i = Protocol
    OBVIOUS
  <1> DEFINE k == Known(hash)   it == Item("text", n)   q == Taken(k, it)
             head == <<i, "payloadLength">>   d == Shown(ctx.part + 1, it)
             flow == IF ctx.part = MESSAGE THEN "message" ELSE "url"
             next == IF ctx.part = MESSAGE THEN "TEXT_LENGTH" ELSE "SPECIFICATION_HASH"
  <1>1. i \in MultiCommand /\ n \in Nat /\ n \in 0..(Word - 1) /\ it \in Items
        /\ it.item = "text" /\ it.n = n
    BY Kinds, Constants, ItemsKnown DEF Item
  <1>2. /\ ctx.state = "TEXT" /\ screen \in Quiet /\ HashOf(i, hash) /\ ProtocolInv(k) /\ k \in Knowledge
    BY ProtocolFound DEF Text
  <1>3. /\ ctx \in ProtocolContexts /\ AnnouncesPayload(hash) /\ ctx.part < 2
        /\ k.of = "text" /\ k.left = ctx.text
        /\ k.whole => WholeTexts(k)
    BY <1>2 DEF ProtocolInv
  <1>4. TextsRead = ctx.part + 1
    BY <1>2 DEF TextsRead
  <1>5. /\ HashOf(i, hash') /\ AnnouncesPayload(hash') /\ hash'[2] = hash[2] /\ Known(hash') = q
    <2>1. AbsorbBytes("text", n) /\ it = Item("text", n)
      BY DEF Text
    <2>2. QED
      BY <1>1, <1>2, <1>3, <2>1, AbsorbedBytesLater
  <1>6. /\ ctx' = [ctx EXCEPT !.text = Minus(@, n), !.payload = Minus(@, n), !.state = next]
        /\ seen' = IF n = 0 THEN seen ELSE Append(seen, d)
        /\ currentInstruction' = i /\ owed' = TRUE /\ screen' = flow /\ reply' = reply
    BY DEF Text, ShowText, Show, Ask
  <1>7. q = Taken(k, it) /\ d = Shown(ctx.part + 1, it)
    OBVIOUS
  <1>8. ctx.part \in {0, 1} /\ ctx.text \in 0..(Word - 1)
    <2>1. ctx.part \in 0..2 /\ ctx.text \in 0..(Word - 1)
      BY <1>3, ProtocolFields
    <2>2. QED
      BY <1>3, <2>1
  <1>9. /\ Minus(ctx.payload, n) \in 0..(Word - 1) /\ Minus(ctx.text, n) \in 0..(Word - 1)
        /\ ((k.bytes + n) + Minus(ctx.payload, n)) % Word = hash[2].n
    BY <1>1, <1>2, <1>8, ProtocolCounts, MinusCounts
  <1>10. /\ ctx.part = 0 => flow = "message" /\ next = "TEXT_LENGTH"
         /\ ctx.part = 1 => flow = "url" /\ next = "SPECIFICATION_HASH"
    BY DEF MESSAGE
  <1> HIDE DEF k, it, q, head, d, flow, next
  <1>11. /\ ctx'.of = Protocol /\ ctx'.state = next /\ ctx'.part = ctx.part /\ ctx'.text = Minus(ctx.text, n)
         /\ ctx'.payload = Minus(ctx.payload, n)
         /\ ctx' = [of |-> ctx'.of, part |-> ctx'.part, text |-> ctx'.text, payload |-> ctx'.payload,
                    state |-> ctx'.state]
    BY <1>3, <1>6 DEF ProtocolContexts
  <1>12. ctx' \in ProtocolContexts
    <2>1. ctx'.part \in 0..2 /\ ctx'.state \in {"TEXT_LENGTH", "TEXT", "SPECIFICATION_HASH", "AUXILIARY_DATA"}
      BY <1>8, <1>10, <1>11
    <2>2. QED
      BY <1>9, <1>11, <2>1, ProtocolContextIs
  <1>13. /\ q.skeleton = k.skeleton /\ q.left = k.left - n /\ (q.whole <=> k.whole)
         /\ q.bytes = k.bytes + n /\ q.section = k.section
         /\ q.shown = IF n = 0 THEN k.shown ELSE Append(k.shown, Shown(k.section, it))
    <2>1. k.left \in Int
      BY <1>3, <1>8, Constants
    <2>2. QED
      BY <1>1, <1>2, <1>3, <1>7, <2>1, TakenText
  <1>14. /\ screen' = "message" => ctx'.state = "TEXT_LENGTH" /\ ctx'.part = 0
         /\ screen' = "url" => ctx'.state = "SPECIFICATION_HASH" /\ ctx'.part = 1
         /\ screen' \in {"message", "url"} /\ ctx'.part < 2
         /\ ctx'.state \in {"TEXT_LENGTH", "SPECIFICATION_HASH"}
         /\ ctx'.state = "SPECIFICATION_HASH" => ctx.part = 1
    BY <1>6, <1>8, <1>10, <1>11
  <1>15. TextsRead' = ctx.part + 1
    BY <1>11, <1>14 DEF TextsRead
  <1>16. q.whole /\ q.left = 0 => WholeTexts(Known(hash))'
    <2> SUFFICES ASSUME q.whole, q.left = 0 PROVE WholeTexts(Known(hash))'
      OBVIOUS
    <2>1. k.whole
      BY <1>13
    <2>2. WholeTexts(k)
      BY <1>3, <2>1
    <2>3. k.section = ctx.part + 1 /\ k.skeleton = head \o Texts(ctx.part + 1) /\ seen = k.shown
      BY <1>2, <1>4, <2>2 DEF WholeTexts, head
    <2>4. q.section = TextsRead' /\ q.skeleton = head \o Texts(TextsRead')
      BY <1>13, <1>15, <2>3
    <2>5. seen' = q.shown
      <3>1. CASE n = 0
        BY <1>6, <1>13, <2>3, <3>1
      <3>2. CASE n # 0
        BY <1>6, <1>7, <1>13, <2>3, <3>2
      <3>3. QED
        BY <3>1, <3>2
    <2>6. ctx'.text = 0
      <3>1. n <= ctx.text /\ ctx.text - n = 0
        BY <1>1, <1>3, <1>8, <1>13
      <3>2. QED
        BY <1>1, <1>8, <1>11, <3>1, MinusIs
    <2>7. ctx'.state = "SPECIFICATION_HASH" => TextsRead' = 2
      BY <1>14, <1>15
    <2>8. QED
      BY <1>5, <1>14, <2>4, <2>5, <2>6, <2>7 DEF WholeTexts, head
  <1>17. (q.bytes + ctx'.payload) % Word = hash'[2].n
    BY <1>5, <1>9, <1>11, <1>13
  <1>18. ProtocolInv(Known(hash))'
    BY <1>5, <1>12, <1>14, <1>16, <1>17 DEF ProtocolInv
  <1>19. screen' \in {"message", "url", "specificationHash"} /\ Unsigned /\ owed' \in BOOLEAN
    BY <1>6, <1>14 DEF Unsigned
  <1>20. QED
    BY <1>5, <1>6, <1>18, <1>19, ProtocolGoOn

LEMMA PressTextStep ==
  ASSUME IInv, PressText PROVE IInv'
  <1> PICK i : i = currentInstruction
    OBVIOUS
  <1> DEFINE k == Known(hash)
  <1>1. screen \in {"message", "url"} /\ screen \notin Quiet /\ screen # "sign"
    BY DEF PressText, Quiet
  <1>2. /\ i \in MultiCommand /\ screen \in Dialogs(i) /\ owed = TRUE /\ HashOf(i, hash)
        /\ KindInv(i) /\ k \in Knowledge
    BY <1>1, OnDisplay
  <1>3. i = Protocol
    BY <1>1, <1>2, Kinds, DialogsOf
  <1>4. ProtocolInv(k)
    BY <1>2, <1>3 DEF KindInv
  <1>5. /\ ctx \in ProtocolContexts /\ AnnouncesPayload(hash) /\ (k.bytes + ctx.payload) % Word = hash[2].n
        /\ \/ ctx.state = "TEXT_LENGTH" /\ ctx.part = 0
           \/ ctx.state = "SPECIFICATION_HASH" /\ ctx.part = 1
        /\ k.whole /\ k.left = 0 => WholeTexts(k)
    BY <1>1, <1>4 DEF ProtocolInv
  <1>6. /\ ctx' = [ctx EXCEPT !.part = IF ctx.text = 0 THEN @ + 1 ELSE @] /\ hash' = hash /\ seen' = seen
        /\ currentInstruction' = i /\ owed' = FALSE /\ screen' \in Quiet /\ reply' = Success
    BY Frozen DEF PressText, PressContinue
  <1>7. k = Known(hash')
    BY <1>6
  <1> HIDE DEF k
  <1>8. /\ ctx'.of = Protocol /\ ctx'.state = ctx.state /\ ctx'.text = ctx.text
        /\ ctx'.part = (IF ctx.text = 0 THEN ctx.part + 1 ELSE ctx.part)
        /\ ctx'.payload = ctx.payload
        /\ ctx' = [of |-> ctx'.of, part |-> ctx'.part, text |-> ctx'.text, payload |-> ctx'.payload,
                   state |-> ctx'.state]
    BY <1>5, <1>6 DEF ProtocolContexts
  <1>9. ctx' \in ProtocolContexts
    <2>1. ctx'.part \in 0..2
      BY <1>5, <1>8
    <2>2. ctx'.text \in 0..(Word - 1) /\ ctx'.payload \in 0..(Word - 1)
          /\ ctx'.state \in {"TEXT_LENGTH", "TEXT", "SPECIFICATION_HASH", "AUXILIARY_DATA"}
      BY <1>5, <1>8, ProtocolFields
    <2>3. QED
      BY <1>8, <2>1, <2>2, ProtocolContextIs
  <1>10. screen' \notin {"message", "url", "specificationHash"}
    BY <1>6 DEF Quiet
  <1>11. TextsRead = ctx.part + 1 /\ TextsRead' = ctx'.part
    BY <1>1, <1>5, <1>8, <1>10 DEF TextsRead
  <1>12. k.whole /\ k.left = 0 => WholeTexts(Known(hash))'
    <2> SUFFICES ASSUME k.whole, k.left = 0 PROVE WholeTexts(Known(hash))'
      OBVIOUS
    <2>1. WholeTexts(k)
      BY <1>5
    <2>2. ctx.text = 0
      BY <1>5, <2>1 DEF WholeTexts
    <2>3. TextsRead' = TextsRead /\ ctx'.text = 0
      BY <1>8, <1>11, <2>2
    <2>4. QED
      BY <1>6, <1>7, <1>8, <2>1, <2>3 DEF WholeTexts
  <1>13. ctx'.state = "TEXT_LENGTH" => ctx'.part < 2
    BY <1>5, <1>8
  <1>14. AnnouncesPayload(hash') /\ (k.bytes + ctx'.payload) % Word = hash'[2].n /\ ctx'.state # "TEXT"
    BY <1>5, <1>6, <1>8
  <1>15. ProtocolInv(Known(hash))'
    BY <1>7, <1>9, <1>10, <1>12, <1>13, <1>14 DEF ProtocolInv
  <1>16. QED
    BY <1>2, <1>3, <1>6, <1>15, ProtocolGoOn DEF Unsigned

LEMMA SpecificationHashStep ==
  ASSUME IInv, SpecificationHash PROVE IInv'
  <1> PICK i : i = Protocol
    OBVIOUS
  <1> DEFINE k == Known(hash)   it == Named("specificationHash")   q == ReadItem(k, it)
             head == <<i, "payloadLength">>   d == Shown(0, it)
  <1>1. i \in MultiCommand /\ it \in Items /\ it.item = "specificationHash"
    BY Kinds, ItemsKnown DEF Named, Item
  <1>2. /\ ctx.state = "SPECIFICATION_HASH" /\ screen \in Quiet /\ HashOf(i, hash) /\ ProtocolInv(k)
        /\ k \in Knowledge
    BY ProtocolFound DEF SpecificationHash
  <1>3. /\ ctx \in ProtocolContexts /\ AnnouncesPayload(hash)
        /\ k.whole /\ k.left = 0 => WholeTexts(k)
    BY <1>2 DEF ProtocolInv
  <1>4. TextsRead = ctx.part
    BY <1>2 DEF TextsRead, Quiet
  <1>5. /\ HashOf(i, hash') /\ AnnouncesPayload(hash') /\ hash'[2] = hash[2] /\ Known(hash') = q
    <2>1. Absorb(<<it>>)
      BY DEF SpecificationHash
    <2>2. QED
      BY <1>1, <1>2, <1>3, <2>1, AbsorbedLater
  <1>6. /\ ctx' = [ctx EXCEPT !.payload = Minus(@, Field), !.state = "AUXILIARY_DATA"]
        /\ seen' = Append(seen, d)
        /\ currentInstruction' = i /\ owed' = TRUE /\ screen' = "specificationHash" /\ reply' = reply
    BY DEF SpecificationHash, Show, Ask
  <1>7. q = ReadItem(k, it) /\ d = Shown(0, it)
    OBVIOUS
  <1>8. Field \in 0..(Word - 1)
    BY Constants DEF Field
  <1>9. /\ Minus(ctx.payload, Field) \in 0..(Word - 1)
        /\ ((k.bytes + Field) + Minus(ctx.payload, Field)) % Word = hash[2].n
    BY <1>2, <1>8, ProtocolCounts
  <1> HIDE DEF k, it, q, head, d
  <1>10. /\ ctx'.of = Protocol /\ ctx'.state = "AUXILIARY_DATA" /\ ctx'.part = ctx.part
         /\ ctx'.text = ctx.text /\ ctx'.payload = Minus(ctx.payload, Field)
         /\ ctx' = [of |-> ctx'.of, part |-> ctx'.part, text |-> ctx'.text, payload |-> ctx'.payload,
                    state |-> ctx'.state]
    BY <1>3, <1>6 DEF ProtocolContexts
  <1>11. ctx.part \in 0..2 /\ ctx.text \in 0..(Word - 1)
    BY <1>3, ProtocolFields
  <1>12. ctx' \in ProtocolContexts
    BY <1>9, <1>10, <1>11, ProtocolContextIs
  <1>13. /\ q.skeleton = Append(k.skeleton, "specificationHash") /\ q.left = k.left
         /\ (q.whole <=> k.whole /\ k.left = 0)
         /\ q.bytes = k.bytes + Field /\ q.section = k.section /\ q.shown = Append(k.shown, d)
    <2>1. /\ q.skeleton = Append(k.skeleton, it.item) /\ q.left = k.left
          /\ (q.whole <=> k.whole /\ k.left = 0)
          /\ q.bytes = k.bytes + Field /\ q.section = k.section
          /\ q.shown = Append(k.shown, Shown(0, it))
      BY <1>1, <1>2, <1>7, ReadSpecificationHash
    <2>2. QED
      BY <1>1, <1>7, <2>1
  <1>14. TextsRead' = ctx.part
    BY <1>6, <1>10 DEF TextsRead
  <1>15. q.whole => WholeTexts(Known(hash))'
    <2> SUFFICES ASSUME q.whole PROVE WholeTexts(Known(hash))'
      OBVIOUS
    <2>1. WholeTexts(k)
      BY <1>3, <1>13
    <2>2. /\ k.section = ctx.part /\ k.skeleton = head \o Texts(ctx.part) /\ seen = k.shown
          /\ ctx.part = 2 /\ ctx.text = 0
      BY <1>2, <1>4, <2>1 DEF WholeTexts, head
    <2>3. /\ q.skeleton = Append(head \o Texts(TextsRead'), "specificationHash")
          /\ q.section = TextsRead' /\ seen' = q.shown /\ TextsRead' = 2 /\ ctx'.text = 0
      BY <1>6, <1>10, <1>13, <1>14, <2>2
    <2>4. QED
      BY <1>5, <1>10, <2>3 DEF WholeTexts, head
  <1>16. (q.bytes + ctx'.payload) % Word = hash'[2].n
    BY <1>5, <1>9, <1>10, <1>13
  <1>17. ProtocolInv(Known(hash))'
    BY <1>5, <1>6, <1>10, <1>12, <1>15, <1>16 DEF ProtocolInv
  <1>18. QED
    BY <1>5, <1>6, <1>17, ProtocolGoOn DEF Unsigned

LEMMA AuxiliaryDataStep ==
  ASSUME IInv, NEW n \in 0..MaxChunk, AuxiliaryData(n) PROVE IInv'
  <1> PICK i : i = Protocol
    OBVIOUS
  <1> DEFINE k == Known(hash)   it == Item("auxiliary", n)   q == Taken(k, it)
             head == <<i, "payloadLength">>
  <1>1. i \in MultiCommand /\ n \in Nat /\ n \in 0..(Word - 1) /\ it \in Items
        /\ it.item = "auxiliary" /\ it.n = n
    BY Kinds, Constants, ItemsKnown DEF Item
  <1>2. /\ ctx.state = "AUXILIARY_DATA" /\ screen \in Quiet /\ HashOf(i, hash) /\ ProtocolInv(k)
        /\ k \in Knowledge
    BY ProtocolFound DEF AuxiliaryData
  <1>3. /\ ctx \in ProtocolContexts /\ AnnouncesPayload(hash)
        /\ k.whole /\ k.left = 0 => WholeTexts(k)
    BY <1>2 DEF ProtocolInv
  <1>4. TextsRead = ctx.part
    BY <1>2 DEF TextsRead, Quiet
  <1>5. /\ HashOf(i, hash') /\ AnnouncesPayload(hash') /\ hash'[2] = hash[2] /\ Known(hash') = q
    <2>1. AbsorbBytes("auxiliary", n) /\ it = Item("auxiliary", n)
      BY DEF AuxiliaryData
    <2>2. QED
      BY <1>1, <1>2, <1>3, <2>1, AbsorbedBytesLater
  <1>6. /\ ctx' = [ctx EXCEPT !.payload = Minus(@, n)]
        /\ IF ctx'.payload = 0 THEN Ask(i, "sign") ELSE AnswerNow(i)
        /\ seen' = seen
    BY DEF AuxiliaryData
  <1>7. q = Taken(k, it)
    OBVIOUS
  <1>8. /\ Minus(ctx.payload, n) \in 0..(Word - 1)
        /\ ((k.bytes + n) + Minus(ctx.payload, n)) % Word = hash[2].n
    BY <1>1, <1>2, ProtocolCounts
  <1> HIDE DEF k, it, q, head
  <1>9. /\ ctx'.of = Protocol /\ ctx'.state = "AUXILIARY_DATA" /\ ctx'.part = ctx.part
        /\ ctx'.text = ctx.text /\ ctx'.payload = Minus(ctx.payload, n)
        /\ ctx' = [of |-> ctx'.of, part |-> ctx'.part, text |-> ctx'.text, payload |-> ctx'.payload,
                   state |-> ctx'.state]
    BY <1>2, <1>3, <1>6 DEF ProtocolContexts
  <1>10. ctx.part \in 0..2 /\ ctx.text \in 0..(Word - 1)
    BY <1>3, ProtocolFields
  <1>11. ctx' \in ProtocolContexts
    BY <1>8, <1>9, <1>10, ProtocolContextIs
  <1>12. /\ q.skeleton = k.skeleton /\ q.left = k.left /\ (q.whole => k.whole)
         /\ q.bytes = k.bytes + n /\ q.section = k.section /\ q.shown = k.shown
    BY <1>1, <1>2, <1>7, TakenBytes
  <1>13. /\ currentInstruction' = i /\ owed' \in BOOLEAN /\ Unsigned
         /\ IF ctx'.payload = 0 THEN owed' = TRUE /\ screen' = "sign" /\ reply' = reply
            ELSE screen' \in Quiet /\ screen' \notin {"message", "url", "specificationHash"}
    BY <1>2, <1>6 DEF Ask, AnswerNow, Unsigned, Quiet
  <1>14. TextsRead' = ctx.part
    BY <1>9, <1>13 DEF TextsRead
  <1>15. q.whole /\ q.left = 0 => WholeTexts(Known(hash))'
    <2> SUFFICES ASSUME q.whole, q.left = 0 PROVE WholeTexts(Known(hash))'
      OBVIOUS
    <2>1. WholeTexts(k)
      BY <1>3, <1>12
    <2>2. QED
      BY <1>2, <1>4, <1>5, <1>6, <1>9, <1>12, <1>14, <2>1 DEF WholeTexts
  <1>16. (q.bytes + ctx'.payload) % Word = hash'[2].n
    BY <1>5, <1>8, <1>9, <1>12
  <1>17. CASE ctx'.payload = 0
    <2>1. KindOf(hash') = Protocol
      BY <1>5 DEF KindOf, HashOf, Named, Item
    <2>2. SkeletonOf(Protocol, hash') = Append(<<Protocol, "payloadLength">> \o Texts(2), "specificationHash")
      BY SkeletonsAre
    <2>3. q.whole /\ q.left = 0 => q.skeleton = SkeletonOf(Protocol, hash') /\ seen' = q.shown
      <3> SUFFICES ASSUME q.whole, q.left = 0 PROVE q.skeleton = SkeletonOf(Protocol, hash') /\ seen' = q.shown
        OBVIOUS
      <3>1. TextsRead' = 2
        BY <1>9, <1>15 DEF WholeTexts
      <3>2. q.skeleton = Append(<<Protocol, "payloadLength">> \o Texts(TextsRead'), "specificationHash")
            /\ seen' = q.shown
        BY <1>5, <1>9, <1>15 DEF WholeTexts
      <3>3. QED
        BY <2>2, <3>1, <3>2
    <2>4. IsOneUpdate(hash') /\ (IsWhole(hash') => seen' = q.shown)
      BY <1>5, <2>1, <2>3 DEF IsOneUpdate, IsWhole
    <2>5. IsCounted(hash')
      <3>1. q.bytes \in Nat
        BY <1>1, <1>2, <1>12 DEF Knowledge
      <3>2. q.bytes % Word = hash'[2].n
        BY <1>16, <1>17, <3>1
      <3>3. QED
        BY <1>5, <2>1, <3>2 DEF IsCounted
    <2>6. WasShown(hash', seen')
      BY <1>5, <2>1, <2>4, Kinds DEF WasShown
    <2>7. Complete(hash', seen')
      BY <2>1, <2>4, <2>5, <2>6 DEF Complete
    <2>8. ContextInv'
      BY <1>11 DEF ContextInv
    <2>9. QED
      BY <1>1, <1>5, <1>13, <1>17, <2>7, <2>8, Asked
  <1>18. CASE ctx'.payload # 0
    <2>1. screen' \in Quiet /\ screen' \notin {"message", "url", "specificationHash"}
      BY <1>13, <1>18
    <2>2. ProtocolInv(Known(hash))'
      BY <1>5, <1>9, <1>11, <1>12, <1>15, <1>16, <2>1 DEF ProtocolInv
    <2>3. QED
      BY <1>5, <1>13, <2>1, <2>2, ProtocolGoOn
  <1>19. QED
    BY <1>17, <1>18

-----------------------------------------------------------------------------
(***************************************************************************)
(* The creation of a token.                                                *)
(***************************************************************************)
LEMMA AbsorbedTwo ==
  ASSUME NEW i, HashOf(i, hash), NEW x \in Items, NEW y \in Items, Absorb(<<x, y>>)
  PROVE  /\ HashOf(i, hash') /\ Len(hash') = Len(hash) + 2
         /\ \A k \in 1..Len(hash) : hash'[k] = hash[k]
         /\ hash'[Len(hash) + 1] = x /\ hash'[Len(hash) + 2] = y
         /\ Known(hash') = ReadItem(ReadItem(Known(hash), x), y)
         /\ Params!After(hash') = CountParams(CountParams(Params!After(hash), x), y)
  <1> DEFINE one == Append(hash, x)
  <1>1. hash \in Seq(Items) /\ Len(hash) \in Nat /\ Len(hash) >= 1 /\ hash[1] = Named(i)
    BY LenProperties DEF HashOf
  <1>2. hash' = Append(one, y)
    <2>1. hash' = hash \o <<x, y>>
      BY DEF Absorb
    <2>2. QED
      BY <1>1, <2>1, TwoMore
  <1>3. one = Append(hash, x)
    OBVIOUS
  <1> HIDE DEF one
  <1>4. one \in Seq(Items) /\ Len(one) = Len(hash) + 1
    BY <1>1, <1>3, OneMore
  <1>5. (\A k \in 1..Len(hash) : one[k] = hash[k]) /\ one[Len(hash) + 1] = x
    BY <1>1, <1>3, OneMore
  <1>6. Known(one) = ReadItem(Known(hash), x) /\ Params!After(one) = CountParams(Params!After(hash), x)
    BY <1>1, <1>3, OneMore
  <1>7. hash' \in Seq(Items) /\ Len(hash') = Len(one) + 1
    BY <1>2, <1>4, OneMore
  <1>8. (\A k \in 1..Len(one) : hash'[k] = one[k]) /\ hash'[Len(one) + 1] = y
    BY <1>2, <1>4, OneMore
  <1>9. Known(hash') = ReadItem(Known(one), y) /\ Params!After(hash') = CountParams(Params!After(one), y)
    BY <1>2, <1>4, OneMore
  <1>10. Len(hash') = Len(hash) + 2 /\ Len(one) + 1 = Len(hash) + 2
    BY <1>1, <1>4, <1>7
  <1>11. \A k \in 1..Len(hash) : hash'[k] = hash[k]
    BY <1>1, <1>4, <1>5, <1>8
  <1>12. hash'[Len(hash) + 1] = x /\ hash'[Len(hash) + 2] = y
    BY <1>1, <1>4, <1>5, <1>8, <1>10
  <1>13. HashOf(i, hash')
    BY <1>1, <1>7, <1>10, <1>11 DEF HashOf
  <1>14. QED
    BY <1>6, <1>9, <1>10, <1>11, <1>12, <1>13

LEMMA BeginNone ==
  ASSUME NEW i \in MultiCommand, Begin(i, <<>>)
  PROVE  /\ HashOf(i, hash') /\ Len(hash') = 1 /\ Known(hash') = ReadItem(Unread, Named(i))
         /\ Params!After(hash') = CountParams(0, Named(i))
  <1>1. Named(i) \in Items
    BY KindsAreNames, NamedInItems
  <1>2. hash' = <<Named(i)>>
    BY DEF Begin
  <1>3. QED
    BY <1>1, <1>2, FirstItem DEF HashOf

LEMMA PltFields ==
  ASSUME NEW c \in PltContexts
  PROVE  /\ c.of = CreatePlt /\ c.state \in {"PAYLOAD", "INIT_PARAMS"} /\ c.length \in 0..MaxParams
         /\ c.remaining \in 0..MaxParams /\ c.initParams \in [1..Buffer -> Nat] /\ c.remaining <= c.length
  BY DEF PltContexts

LEMMA PltContextIs ==
  ASSUME NEW c, c.of = CreatePlt, c.state \in {"PAYLOAD", "INIT_PARAMS"}, c.length \in 0..MaxParams,
         c.remaining \in 0..MaxParams, c.initParams \in [1..Buffer -> Nat], c.remaining <= c.length,
         c = [of |-> c.of, state |-> c.state, length |-> c.length, remaining |-> c.remaining,
              initParams |-> c.initParams]
  PROVE  c \in PltContexts
  BY DEF PltContexts

LEMMA PltGoOn ==
  ASSUME IInv, currentInstruction' = CreatePlt, owed' \in BOOLEAN, screen' \in Quiet,
         HashOf(CreatePlt, hash'), PltInv(Known(hash))', Unsigned
  PROVE  IInv'
  <1>1. CreatePlt \in MultiCommand /\ KindInv(CreatePlt)'
    BY Kinds DEF KindInv
  <1>2. screen' # "sign"
    BY DEF Quiet
  <1>3. QED
    BY <1>1, <1>2, Continued

LEMMA PltFound ==
  ASSUME IInv, NEW s, s # "INITIAL", InTurn(CreatePlt, s)
  PROVE  /\ ctx.state = s /\ screen \in Quiet /\ HashOf(CreatePlt, hash)
         /\ PltInv(Known(hash)) /\ Known(hash) \in Knowledge
  <1>1. CreatePlt \in MultiCommand
    BY Kinds
  <1>2. /\ ctx.state = s /\ screen \in Quiet /\ HashOf(CreatePlt, hash)
        /\ KindInv(CreatePlt) /\ Known(hash) \in Knowledge
    BY <1>1, Found
  <1>3. QED
    BY <1>2 DEF KindInv

LEMMA PltInitialStep ==
  ASSUME IInv, PltInitial PROVE IInv'
  <1> PICK i : i = CreatePlt
    OBVIOUS
  <1> DEFINE q == ReadItem(Unread, Named(i))
  <1>1. i \in MultiCommand /\ i # "params"
    BY Kinds DEF CreatePlt
  <1>2. /\ HashOf(i, hash') /\ Len(hash') = 1 /\ Known(hash') = q
        /\ Params!After(hash') = CountParams(0, Named(i))
    BY <1>1, BeginNone DEF PltInitial
  <1>3. /\ ctx' = [of |-> i, state |-> "PAYLOAD", length |-> 0, remaining |-> 0, initParams |-> Stale]
        /\ currentInstruction' = i /\ owed' = FALSE /\ screen' = screen /\ reply' = Success
    BY DEF PltInitial, AnswerNow
  <1>4. screen \in Quiet
    BY <1>1, AtFirst DEF PltInitial
  <1>5. q = ReadItem(Unread, Named(i))
    OBVIOUS
  <1> HIDE DEF q
  <1>6. q.skeleton = <<i>> /\ q.left = 0 /\ q.whole
    BY <1>1, <1>5, ReadKind
  <1>7. Params!After(hash') = 0
    BY <1>1, <1>2 DEF CountParams, Named, Item
  <1>8. Stale \in [1..Buffer -> Nat]
    BY DEF Stale
  <1>9. /\ ctx'.of = CreatePlt /\ ctx'.state = "PAYLOAD" /\ ctx'.length = 0 /\ ctx'.remaining = 0
        /\ ctx'.initParams \in [1..Buffer -> Nat]
        /\ ctx' = [of |-> ctx'.of, state |-> ctx'.state, length |-> ctx'.length,
                   remaining |-> ctx'.remaining, initParams |-> ctx'.initParams]
    BY <1>3, <1>8
  <1>10. ctx' \in PltContexts
    <2>1. 0 \in 0..MaxParams
      BY Constants
    <2>2. QED
      BY <1>9, <2>1, PltContextIs
  <1>11. PltInv(Known(hash))'
    <2>1. Params!After(hash') = ctx'.length - ctx'.remaining /\ q.left = ctx'.remaining
      BY <1>6, <1>7, <1>9
    <2>2. \A b \in 1..Buffer : b <= ctx'.length - ctx'.remaining => ctx'.initParams[b] = b
      BY <1>9
    <2>3. QED
      BY <1>2, <1>6, <1>9, <1>10, <2>1, <2>2 DEF PltInv
  <1>12. QED
    BY <1>2, <1>3, <1>4, <1>11, PltGoOn DEF Unsigned

LEMMA PltPayloadStep ==
  ASSUME IInv, NEW n \in 0..MaxParams, PltPayload(n) PROVE IInv'
  <1> PICK i : i = CreatePlt
    OBVIOUS
  <1> DEFINE k == Known(hash)   x == Named("token")   y == Item("paramsLength", n)
             e == ReadItem(k, x)   q == ReadItem(e, y)
  <1>1. /\ i \in MultiCommand /\ n \in Nat /\ x \in Items /\ x.item = "token" /\ x.item \in Parts
        /\ y \in Items /\ y.item = "paramsLength" /\ y.n = n
    BY Kinds, Constants, ItemsKnown DEF Named, Item, Parts
  <1>2. /\ ctx.state = "PAYLOAD" /\ screen \in Quiet /\ HashOf(i, hash) /\ PltInv(k) /\ k \in Knowledge
    BY PltFound DEF PltPayload
  <1>3. /\ ctx \in PltContexts /\ k.whole /\ k.left = ctx.remaining
        /\ Params!After(hash) = ctx.length - ctx.remaining
        /\ Len(hash) = 1 /\ ctx.length = 0 /\ k.skeleton = <<i>>
    BY <1>2 DEF PltInv
  <1>4. ctx.remaining = 0
    <2>1. ctx.remaining \in 0..MaxParams /\ ctx.remaining <= ctx.length
      BY <1>3, PltFields
    <2>2. QED
      BY <1>3, <2>1
  <1>5. Absorb(<<x, y>>)
    BY DEF PltPayload
  <1>6. /\ HashOf(i, hash') /\ Len(hash') = Len(hash) + 2 /\ hash'[Len(hash) + 2] = y
        /\ Known(hash') = q
        /\ Params!After(hash') = CountParams(CountParams(Params!After(hash), x), y)
    BY <1>1, <1>2, <1>5, AbsorbedTwo
  <1>7. /\ IF n = 0 THEN ctx' = [ctx EXCEPT !.length = 0] /\ Refuse
           ELSE /\ ctx' = [ctx EXCEPT !.length = n, !.remaining = n, !.state = "INIT_PARAMS"]
                /\ AnswerNow(i)
        /\ seen' = seen
    BY DEF PltPayload
  <1>8. e = ReadItem(k, x) /\ q = ReadItem(e, y)
    OBVIOUS
  <1>9. Len(hash') = 3 /\ hash'[3] = Item("paramsLength", n)
    BY <1>3, <1>6
  <1> HIDE DEF k, x, y, e, q
  <1>10. /\ e \in Knowledge /\ e.skeleton = <<i, "token">> /\ e.left = 0 /\ e.whole
    <2>1. /\ e \in Knowledge /\ e.skeleton = Append(k.skeleton, x.item) /\ e.left = k.left
          /\ (e.whole <=> k.whole /\ k.left = 0)
      BY <1>1, <1>2, <1>8, ReadPart
    <2>2. Append(<<i>>, "token") = <<i, "token">>
      BY Pair
    <2>3. QED
      BY <1>1, <1>3, <1>4, <2>1, <2>2
  <1>11. q.skeleton = <<i, "token", "paramsLength">> /\ q.of = "params" /\ q.left = n /\ q.whole
    <2>1. /\ q.skeleton = Append(e.skeleton, y.item) /\ q.of = AnnouncedBy[y.item] /\ q.left = y.n
          /\ (q.whole <=> e.whole /\ e.left = 0)
      <3>1. e \in Knowledge
        BY <1>10
      <3>2. y.item \in {"keys", "size", "textLength", "paramsLength"}
        BY <1>1
      <3>3. QED
        BY <1>1, <1>8, <3>1, <3>2, ReadNumber
    <2>2. Append(<<i, "token">>, "paramsLength") = <<i, "token", "paramsLength">>
      BY Triple
    <2>3. QED
      BY <1>1, <1>10, <2>1, <2>2, AnnouncersAre
  <1>12. Params!After(hash') = 0
    BY <1>1, <1>3, <1>4, <1>6 DEF CountParams
  <1>13. CASE n = 0
    <2>1. ctx' = ctx
      <3>1. ctx' = [ctx EXCEPT !.length = 0]
        BY <1>7, <1>13
      <3>2. QED
        BY <1>3, <3>1 DEF PltContexts
    <2>2. currentInstruction' = None /\ owed' \in BOOLEAN /\ screen' \in Quiet /\ Unsigned
      BY <1>2, <1>7, <1>13 DEF Refuse, Unsigned
    <2>3. ContextInv'
      BY <1>3, <2>1 DEF ContextInv
    <2>4. QED
      BY <2>2, <2>3, Ended
  <1>14. CASE n # 0
    <2>1. /\ ctx' = [ctx EXCEPT !.length = n, !.remaining = n, !.state = "INIT_PARAMS"]
          /\ currentInstruction' = i /\ owed' = FALSE /\ screen' = screen /\ reply' = Success
      BY <1>7, <1>14 DEF AnswerNow
    <2>2. /\ ctx'.of = CreatePlt /\ ctx'.state = "INIT_PARAMS" /\ ctx'.length = n /\ ctx'.remaining = n
          /\ ctx'.initParams = ctx.initParams
          /\ ctx' = [of |-> ctx'.of, state |-> ctx'.state, length |-> ctx'.length,
                     remaining |-> ctx'.remaining, initParams |-> ctx'.initParams]
      BY <1>3, <2>1 DEF PltContexts
    <2>3. ctx' \in PltContexts
      <3>1. ctx.initParams \in [1..Buffer -> Nat]
        BY <1>3, PltFields
      <3>2. QED
        BY <1>1, <2>2, <3>1, PltContextIs
    <2>4. PltInv(Known(hash))'
      <3>1. Params!After(hash') = ctx'.length - ctx'.remaining /\ q.left = ctx'.remaining
        BY <1>1, <1>11, <1>12, <2>2
      <3>2. \A b \in 1..Buffer : b <= ctx'.length - ctx'.remaining => ctx'.initParams[b] = b
        BY <1>1, <2>2
      <3>3. Len(hash') >= 3 /\ hash'[3] = Item("paramsLength", ctx'.length)
        BY <1>9, <2>2
      <3>4. QED
        BY <1>6, <1>11, <2>2, <2>3, <3>1, <3>2, <3>3 DEF PltInv
    <2>5. QED
      BY <1>2, <1>6, <2>1, <2>4, PltGoOn DEF Unsigned
  <1>15. QED
    BY <1>13, <1>14

\* The bytes of the parameters on display are those received, in their places.
LEMMA ReceivedInPlace ==
  ASSUME NEW f \in [1..Buffer -> Nat], NEW n \in 0..Buffer, \A b \in 1..n : f[b] = b
  PROVE  SubSeq(f, 1, n) = [b \in 1..n |-> b]
  <1> DEFINE s == SubSeq(f, 1, n)   t == [b \in 1..n |-> b]
  <1>1. n \in Nat /\ 1 \in Int /\ n \in Int /\ \A b \in 1..n : b \in 1..Buffer /\ f[b] \in Nat
    BY Constants
  <1>2. /\ s \in Seq(Nat) /\ Len(s) = (IF 1 <= n THEN n - 1 + 1 ELSE 0)
        /\ \A b \in 1..(n - 1 + 1) : s[b] = f[1 + b - 1]
    BY <1>1, SubSeqProperties
  <1>3. t \in [1..n -> Nat] /\ \A b \in 1..n : t[b] = b
    OBVIOUS
  <1> HIDE DEF s, t
  <1>4. t \in Seq(Nat) /\ Len(t) = n
    BY <1>1, <1>3, SeqDef, LenProperties
  <1>5. Len(s) = n /\ \A b \in 1..n : s[b] = b
    BY <1>1, <1>2
  <1>6. s = t
    BY <1>2, <1>3, <1>4, <1>5, SeqEqual
  <1>7. QED
    BY <1>6 DEF s, t

LEMMA InitParamsStep ==
  ASSUME IInv, NEW n \in 0..MaxChunk, InitParams(n) PROVE IInv'
  <1> PICK i : i = CreatePlt
    OBVIOUS
  <1> DEFINE k == Known(hash)   it == Item("params", n)   q == Taken(k, it)
             left == ctx.remaining - n   params == initParamsWith(n)
             length == IF ctx.length < Buffer THEN ctx.length ELSE Buffer
             offset == ctx.length - ctx.remaining
  <1>1. /\ i \in MultiCommand /\ n \in Nat /\ it \in Items /\ it.item = "params" /\ it.n = n
    BY Kinds, Constants, ItemsKnown DEF Item
  <1>2. /\ ctx.state = "INIT_PARAMS" /\ screen \in Quiet /\ HashOf(i, hash) /\ PltInv(k) /\ k \in Knowledge
        /\ n <= ctx.remaining
    BY PltFound DEF InitParams
  <1>3. /\ ctx \in PltContexts /\ k.whole /\ k.left = ctx.remaining /\ Params!After(hash) = offset
        /\ k.of = "params" /\ k.skeleton = <<i, "token", "paramsLength">>
        /\ Len(hash) >= 3 /\ hash[3] = Item("paramsLength", ctx.length)
        /\ \A b \in 1..Buffer : b <= offset => ctx.initParams[b] = b
    BY <1>2 DEF PltInv
  <1>4. /\ HashOf(i, hash') /\ Len(hash') >= 3 /\ hash'[3] = hash[3] /\ Known(hash') = q
        /\ Params!After(hash') = offset + n
    <2>1. AbsorbBytes("params", n) /\ it = Item("params", n)
      BY DEF InitParams
    <2>2. Len(hash) \in Nat /\ Len(hash) >= 3
      BY <1>2, <1>3, LenProperties DEF HashOf
    <2>3. /\ HashOf(i, hash') /\ Len(hash') >= Len(hash) /\ (\A b \in 1..Len(hash) : hash'[b] = hash[b])
          /\ Known(hash') = q
          /\ Params!After(hash') = IF n = 0 THEN Params!After(hash)
                                   ELSE CountParams(Params!After(hash), it)
      BY <1>1, <1>2, <2>1, AbsorbedBytes
    <2>4. Len(hash') \in Nat
      BY <2>3, LenProperties DEF HashOf
    <2>5. hash'[3] = hash[3] /\ Len(hash') >= 3
      BY <2>2, <2>3, <2>4
    <2>6. Params!After(hash') = offset + n
      <3>1. CountParams(offset, it) = offset + n
        BY <1>1 DEF CountParams
      <3>2. offset \in Int
        BY <1>3, PltFields, Constants
      <3> HIDE DEF offset
      <3>3. CASE n = 0
        BY <1>3, <2>3, <3>2, <3>3
      <3>4. CASE n # 0
        BY <1>3, <2>3, <3>1, <3>4
      <3>5. QED
        BY <3>3, <3>4
    <2>7. QED
      BY <2>3, <2>5, <2>6
  <1>5. /\ ctx' = [ctx EXCEPT !.initParams = params, !.remaining = left]
        /\ IF left = 0 THEN seen' = <<Shown(0, SubSeq(params, 1, length))>> /\ Ask(i, "sign")
           ELSE seen' = seen /\ AnswerNow(i)
    BY DEF InitParams
  <1>6. /\ ctx.length \in 0..MaxParams /\ ctx.remaining \in 0..MaxParams /\ ctx.remaining <= ctx.length
        /\ ctx.initParams \in [1..Buffer -> Nat] /\ MaxParams \in Nat /\ Buffer \in Nat
    BY <1>3, PltFields, Constants
  <1>7. left \in 0..MaxParams /\ left <= ctx.length /\ offset \in Nat /\ ctx.length - left = offset + n
        /\ left = ctx.remaining - n
    BY <1>1, <1>2, <1>6
  <1>8. /\ params \in [1..Buffer -> Nat]
        /\ \A b \in 1..Buffer : b <= offset + n => params[b] = b
    <2>1. params = [b \in 1..Buffer |-> IF b \in (offset + 1)..(offset + n)
                                        THEN offset + (b - offset) ELSE ctx.initParams[b]]
      BY <1>3 DEF initParamsWith
    <2> HIDE DEF params, offset
    <2>2. \A b \in 1..Buffer : ctx.initParams[b] \in Nat /\ offset + (b - offset) = b
      BY <1>6, <1>7, SMTT(40)
    <2>3. params \in [1..Buffer -> Nat]
      BY <2>1, <2>2
    <2>4. \A b \in 1..Buffer : b <= offset + n => params[b] = b
      <3> SUFFICES ASSUME NEW b \in 1..Buffer, b <= offset + n PROVE params[b] = b
        OBVIOUS
      <3>1. CASE b <= offset
        BY <1>3, <1>7, <2>1, <2>2, <3>1
      <3>2. CASE ~(b <= offset)
        <4>1. b \in (offset + 1)..(offset + n)
          BY <1>1, <1>7, <3>2
        <4>2. QED
          BY <2>1, <2>2, <4>1
      <3>3. QED
        BY <3>1, <3>2
    <2>5. QED
      BY <2>3, <2>4
  <1>9. length = IF ctx.length < Buffer THEN ctx.length ELSE Buffer
    OBVIOUS
  <1>10. q = Taken(k, it)
    OBVIOUS
  <1> HIDE DEF k, it, q, left, params, length, offset
  <1>11. /\ ctx'.of = CreatePlt /\ ctx'.state = "INIT_PARAMS" /\ ctx'.length = ctx.length
         /\ ctx'.remaining = left /\ ctx'.initParams = params
         /\ ctx' = [of |-> ctx'.of, state |-> ctx'.state, length |-> ctx'.length,
                    remaining |-> ctx'.remaining, initParams |-> ctx'.initParams]
    BY <1>2, <1>3, <1>5 DEF PltContexts
  <1>12. ctx' \in PltContexts
    BY <1>6, <1>7, <1>8, <1>11, PltContextIs
  <1>13. q.skeleton = k.skeleton /\ q.of = "params" /\ q.left = left /\ q.whole
    <2>1. it.item \in Announced /\ k.of = it.item /\ k \in Knowledge /\ it \in Items
      BY <1>1, <1>2, <1>3 DEF Announced
    <2>2. Weight(it) = n
      BY <1>1 DEF Weight
    <2>3. CASE n = 0
      BY <1>1, <1>3, <1>6, <1>7, <1>10, <2>3 DEF Taken
    <2>4. CASE n # 0
      <3>1. q = ReadItem(k, it)
        BY <1>1, <1>10, <2>4 DEF Taken
      <3>2. q.skeleton = k.skeleton /\ q.of = k.of /\ q.left = k.left - Weight(it) /\ (q.whole <=> k.whole)
        BY <2>1, <3>1, ReadSome
      <3>3. QED
        BY <1>3, <1>7, <2>2, <3>2
    <2>5. QED
      BY <2>3, <2>4
  <1>14. CASE left = 0
    <2>1. /\ seen' = <<Shown(0, SubSeq(params, 1, length))>>
          /\ currentInstruction' = i /\ owed' = TRUE /\ screen' = "sign" /\ reply' = reply
      BY <1>5, <1>14 DEF Ask
    <2>2. KindOf(hash') = i /\ hash'[3].n = ctx.length
      BY <1>3, <1>4 DEF KindOf, HashOf, Named, Item
    <2>3. i \notin HigherLevel /\ i \notin Authorizing /\ i \notin Described /\ i # Protocol
      BY Kinds
    <2>4. IsOneUpdate(hash')
      <3>1. SkeletonOf(i, hash') = <<i, "token", "paramsLength">>
        BY SkeletonsAre
      <3>2. QED
        BY <1>3, <1>4, <1>13, <2>2, <3>1 DEF IsOneUpdate
    <2>5. IsWhole(hash')
      BY <1>4, <1>13, <1>14 DEF IsWhole
    <2>6. IsCounted(hash')
      <3>1. i # AddProvider
        BY <2>3 DEF Described
      <3>2. QED
        BY <2>2, <2>3, <3>1 DEF IsCounted
    <2>7. WasShown(hash', seen')
      <3>1. seen'[1].what = SubSeq(params, 1, length)
        BY <2>1 DEF Shown
      <3>2. length \in 0..Buffer /\ \A b \in 1..length : params[b] = b
        <4>1. ctx.length \in Nat /\ Buffer \in Nat /\ offset + n \in Nat
          BY <1>1, <1>6, <1>7
        <4>2. ctx.length = offset + n
          BY <1>7, <1>14, <4>1
        <4>3. length \in 0..Buffer /\ length <= ctx.length
          BY <1>9, <4>1
        <4>4. \A b \in 1..length : b \in 1..Buffer /\ b <= offset + n
          BY <4>1, <4>2, <4>3
        <4>5. QED
          BY <1>8, <4>3, <4>4
      <3>3. SubSeq(params, 1, length) = [b \in 1..length |-> b]
        BY <1>8, <3>2, ReceivedInPlace
      <3>4. seen'[1].what = [b \in 1..length |-> b]
        BY <3>1, <3>3
      <3>5. length = IF hash'[3].n < Buffer THEN hash'[3].n ELSE Buffer
        BY <1>9, <2>2
      <3>6. QED
        BY <2>2, <2>3, <3>4, <3>5, Zenon DEF WasShown
    <2>8. Complete(hash', seen')
      BY <2>4, <2>5, <2>6, <2>7 DEF Complete
    <2>9. ContextInv'
      BY <1>12 DEF ContextInv
    <2>10. QED
      BY <1>1, <1>4, <2>1, <2>8, <2>9, Asked DEF Unsigned
  <1>15. CASE left # 0
    <2>1. currentInstruction' = i /\ owed' = FALSE /\ screen' \in Quiet /\ Unsigned
      BY <1>2, <1>5, <1>15 DEF AnswerNow, Unsigned
    <2>2. PltInv(Known(hash))'
      <3>1. Params!After(hash') = ctx'.length - ctx'.remaining /\ q.left = ctx'.remaining
        BY <1>4, <1>7, <1>11, <1>13
      <3>2. \A b \in 1..Buffer : b <= ctx'.length - ctx'.remaining => ctx'.initParams[b] = b
        BY <1>7, <1>8, <1>11
      <3>3. Len(hash') >= 3 /\ hash'[3] = Item("paramsLength", ctx'.length)
        BY <1>3, <1>4, <1>11
      <3>4. q.skeleton = <<CreatePlt, "token", "paramsLength">>
        BY <1>3, <1>13
      <3>5. QED
        BY <1>4, <1>11, <1>12, <1>13, <3>1, <3>2, <3>3, <3>4 DEF PltInv
    <2>3. owed' \in BOOLEAN
      BY <2>1
    <2>4. QED
      BY <1>4, <2>1, <2>2, <2>3, PltGoOn
  <1>16. QED
    BY <1>14, <1>15

-----------------------------------------------------------------------------
(***************************************************************************)
(* The pool parameters.                                                    *)
(***************************************************************************)
LEMMA AbsorbedThree ==
  ASSUME NEW i, HashOf(i, hash), NEW x \in Items, NEW y \in Items, NEW z \in Items, Absorb(<<x, y, z>>)
  PROVE  /\ HashOf(i, hash')
         /\ Known(hash') = ReadItem(ReadItem(ReadItem(Known(hash), x), y), z)
  <1> DEFINE one == Append(hash, x)   two == Append(one, y)
  <1>1. hash \in Seq(Items) /\ Len(hash) \in Nat /\ Len(hash) >= 1 /\ hash[1] = Named(i)
    BY LenProperties DEF HashOf
  <1>2. hash' = Append(two, z)
    <2>1. hash' = hash \o <<x, y, z>>
      BY DEF Absorb
    <2>2. QED
      BY <1>1, <2>1, ThreeMore
  <1>3. one = Append(hash, x) /\ two = Append(one, y)
    OBVIOUS
  <1> HIDE DEF one, two
  <1>4. one \in Seq(Items) /\ Len(one) = Len(hash) + 1
    BY <1>1, <1>3, OneMore
  <1>5. \A k \in 1..Len(hash) : one[k] = hash[k]
    BY <1>1, <1>3, OneMore
  <1>6. Known(one) = ReadItem(Known(hash), x)
    BY <1>1, <1>3, OneMore
  <1>7. two \in Seq(Items) /\ Len(two) = Len(one) + 1
    BY <1>3, <1>4, OneMore
  <1>8. \A k \in 1..Len(one) : two[k] = one[k]
    BY <1>3, <1>4, OneMore
  <1>9. Known(two) = ReadItem(Known(one), y)
    BY <1>3, <1>4, OneMore
  <1>10. hash' \in Seq(Items) /\ Len(hash') = Len(two) + 1
    BY <1>2, <1>7, OneMore
  <1>11. \A k \in 1..Len(two) : hash'[k] = two[k]
    BY <1>2, <1>7, OneMore
  <1>12. Known(hash') = ReadItem(Known(two), z)
    BY <1>2, <1>7, OneMore
  <1>13. hash'[1] = Named(i) /\ Len(hash') >= 1
    BY <1>1, <1>4, <1>5, <1>7, <1>8, <1>10, <1>11
  <1>14. HashOf(i, hash')
    BY <1>10, <1>13 DEF HashOf
  <1>15. QED
    BY <1>6, <1>9, <1>12, <1>14

\* One part more, behind whatever is whole.
LEMMA WholePart ==
  ASSUME NEW r \in Knowledge, r.whole, r.left = 0, NEW it \in Items, it.item \in Parts,
         NEW q, q = ReadItem(r, it)
  PROVE  q \in Knowledge /\ q.skeleton = Append(r.skeleton, it.item) /\ q.left = 0 /\ q.whole
  BY ReadPart

LEMMA PoolContextIs ==
  ASSUME NEW c, c.of = Pool, c.state \in {"RANGES", "EQUITY"}, c.shared \in {"passive", "maximal"},
         c = [of |-> c.of, state |-> c.state, shared |-> c.shared]
  PROVE  c \in PoolContexts
  BY DEF PoolContexts

LEMMA PoolGoOn ==
  ASSUME IInv, currentInstruction' = Pool, owed' = TRUE, screen' = "poolRates",
         HashOf(Pool, hash'), PoolInv(Known(hash))', Unsigned
  PROVE  IInv'
  <1>1. Pool \in MultiCommand /\ KindInv(Pool)' /\ screen' \in Dialogs(Pool)
    BY Kinds, DialogsOf DEF KindInv
  <1>2. owed' \in BOOLEAN /\ screen' # "sign"
    OBVIOUS
  <1>3. QED
    BY <1>1, <1>2, Continued

LEMMA PoolFound ==
  ASSUME IInv, NEW s, s # "INITIAL", InTurn(Pool, s)
  PROVE  /\ ctx.state = s /\ screen \in Quiet /\ HashOf(Pool, hash)
         /\ PoolInv(Known(hash)) /\ Known(hash) \in Knowledge
  <1>1. Pool \in MultiCommand
    BY Kinds
  <1>2. /\ ctx.state = s /\ screen \in Quiet /\ HashOf(Pool, hash)
        /\ KindInv(Pool) /\ Known(hash) \in Knowledge
    BY <1>1, Found
  <1>3. QED
    BY <1>2 DEF KindInv

LEMMA PoolInitialStep ==
  ASSUME IInv, PoolInitial PROVE IInv'
  <1> PICK i : i = Pool
    OBVIOUS
  <1> DEFINE a == Named("passive")   q == ReadItem(ReadItem(Unread, Named(i)), a)
  <1>1. i \in MultiCommand /\ a \in Items /\ a.item = "passive" /\ a.item \in Parts
    BY Kinds, ItemsKnown DEF Named, Item, Parts
  <1>2. HashOf(i, hash') /\ Known(hash') = q
    BY <1>1, BeginOne DEF PoolInitial
  <1>3. /\ ctx' = [of |-> i, state |-> "RANGES", shared |-> "passive"]
        /\ currentInstruction' = i /\ owed' = TRUE /\ screen' = "poolRates" /\ reply' = reply
    BY DEF PoolInitial, Ask
  <1>4. q = ReadItem(ReadItem(Unread, Named(i)), a)
    OBVIOUS
  <1> HIDE DEF a, q
  <1>5. q.skeleton = <<i, "passive">> /\ q.left = 0 /\ q.whole
    <2>1. q.skeleton = <<i, a.item>> /\ q.left = 0 /\ q.whole
      BY <1>1, <1>4, FirstParts
    <2>2. QED
      BY <1>1, <2>1
  <1>6. ctx' \in PoolContexts /\ ctx'.state = "RANGES"
    BY <1>3 DEF PoolContexts
  <1>7. PoolInv(Known(hash))'
    BY <1>2, <1>5, <1>6 DEF PoolInv
  <1>8. QED
    BY <1>2, <1>3, <1>7, PoolGoOn DEF Unsigned

LEMMA PoolRangesStep ==
  ASSUME IInv, PoolRanges PROVE IInv'
  <1> PICK i : i = Pool
    OBVIOUS
  <1> DEFINE k == Known(hash)   x == Named("minimal")   y == Named("maximal")
             e == ReadItem(k, x)   q == ReadItem(e, y)
  <1>1. /\ x \in Items /\ x.item = "minimal" /\ x.item \in Parts
        /\ y \in Items /\ y.item = "maximal" /\ y.item \in Parts
    BY ItemsKnown DEF Named, Item, Parts
  <1>2. /\ ctx.state = "RANGES" /\ HashOf(i, hash) /\ PoolInv(k) /\ k \in Knowledge
    BY PoolFound DEF PoolRanges
  <1>3. ctx \in PoolContexts /\ k.whole /\ k.left = 0 /\ k.skeleton = <<i, "passive">>
    BY <1>2 DEF PoolInv
  <1>4. HashOf(i, hash') /\ Known(hash') = q
    <2>1. Absorb(<<x, y>>)
      BY DEF PoolRanges
    <2>2. QED
      BY <1>1, <1>2, <2>1, AbsorbedTwo
  <1>5. /\ ctx' = [ctx EXCEPT !.state = "EQUITY", !.shared = "maximal"]
        /\ currentInstruction' = i /\ owed' = TRUE /\ screen' = "poolRates" /\ reply' = reply
    BY DEF PoolRanges, Ask
  <1>6. e = ReadItem(k, x) /\ q = ReadItem(e, y)
    OBVIOUS
  <1> HIDE DEF k, x, y, e, q
  <1>7. k \in Knowledge /\ k.whole /\ k.left = 0
    BY <1>2, <1>3
  <1>8. e \in Knowledge /\ e.skeleton = Append(k.skeleton, x.item) /\ e.left = 0 /\ e.whole
    BY <1>1, <1>6, <1>7, WholePart
  <1>9. q.skeleton = Append(e.skeleton, y.item) /\ q.left = 0 /\ q.whole
    BY <1>1, <1>6, <1>8, WholePart
  <1>10. q.skeleton = <<i, "passive", "minimal", "maximal">>
    <2>1. Append(<<i, "passive">>, "minimal") = <<i, "passive", "minimal">>
      BY Triple
    <2>2. Append(<<i, "passive", "minimal">>, "maximal") = <<i, "passive", "minimal", "maximal">>
      BY FourTuple
    <2>3. QED
      BY <1>1, <1>3, <1>8, <1>9, <2>1, <2>2
  <1>11. ctx' \in PoolContexts /\ ctx'.state = "EQUITY"
    <2>1. /\ ctx'.of = Pool /\ ctx'.state = "EQUITY" /\ ctx'.shared = "maximal"
          /\ ctx' = [of |-> ctx'.of, state |-> ctx'.state, shared |-> ctx'.shared]
      BY <1>3, <1>5 DEF PoolContexts
    <2>2. QED
      BY <2>1, PoolContextIs
  <1>12. PoolInv(Known(hash))'
    BY <1>4, <1>9, <1>10, <1>11 DEF PoolInv
  <1>13. QED
    BY <1>4, <1>5, <1>12, PoolGoOn DEF Unsigned

LEMMA PoolEquityStep ==
  ASSUME IInv, PoolEquity PROVE IInv'
  <1> PICK i : i = Pool
    OBVIOUS
  <1> DEFINE k == Known(hash)   x == Named("equity")   y == Named("capitalBound")
             z == Named("leverageBound")   e == ReadItem(k, x)   f == ReadItem(e, y)   q == ReadItem(f, z)
  <1>1. /\ x \in Items /\ x.item = "equity" /\ x.item \in Parts
        /\ y \in Items /\ y.item = "capitalBound" /\ y.item \in Parts
        /\ z \in Items /\ z.item = "leverageBound" /\ z.item \in Parts
    BY ItemsKnown DEF Named, Item, Parts
  <1>2. /\ ctx.state = "EQUITY" /\ HashOf(i, hash) /\ PoolInv(k) /\ k \in Knowledge
    BY PoolFound DEF PoolEquity
  <1>3. ctx \in PoolContexts /\ k.whole /\ k.left = 0 /\ k.skeleton = <<i, "passive", "minimal", "maximal">>
    BY <1>2 DEF PoolInv
  <1>4. HashOf(i, hash') /\ Known(hash') = q
    <2>1. Absorb(<<x, y, z>>)
      BY DEF PoolEquity
    <2>2. QED
      BY <1>1, <1>2, <2>1, AbsorbedThree
  <1>5. /\ ctx' = ctx /\ currentInstruction' = i /\ owed' = TRUE /\ screen' = "sign" /\ reply' = reply
    BY DEF PoolEquity, Ask
  <1>6. e = ReadItem(k, x) /\ f = ReadItem(e, y) /\ q = ReadItem(f, z)
    OBVIOUS
  <1> HIDE DEF k, x, y, z, e, f, q
  <1>7. k \in Knowledge /\ k.whole /\ k.left = 0
    BY <1>2, <1>3
  <1>8. e \in Knowledge /\ e.skeleton = Append(k.skeleton, x.item) /\ e.left = 0 /\ e.whole
    BY <1>1, <1>6, <1>7, WholePart
  <1>9. f \in Knowledge /\ f.skeleton = Append(e.skeleton, y.item) /\ f.left = 0 /\ f.whole
    BY <1>1, <1>6, <1>8, WholePart
  <1>10. q.skeleton = Append(f.skeleton, z.item) /\ q.left = 0 /\ q.whole
    BY <1>1, <1>6, <1>9, WholePart, ZenonT(60)
  <1>11. q.skeleton = <<i, "passive", "minimal", "maximal", "equity", "capitalBound", "leverageBound">>
    <2>1. e.skeleton = <<i, "passive", "minimal", "maximal", "equity">>
      BY <1>1, <1>3, <1>8, FiveTuple
    <2>2. f.skeleton = <<i, "passive", "minimal", "maximal", "equity", "capitalBound">>
      BY <1>1, <1>9, <2>1, SixTuple
    <2>3. QED
      BY <1>1, <1>10, <2>2, SevenTuple
  <1>12. KindOf(hash') = i
    BY <1>4 DEF KindOf, HashOf, Named, Item
  <1>13. i \in MultiCommand /\ i \notin HigherLevel /\ i \notin Authorizing /\ i \notin Described
         /\ i # Protocol /\ i # CreatePlt
    BY Kinds
  <1>14. Complete(hash', seen')
    <2>1. i # AddProvider /\ i # AddRevoker
      BY <1>13 DEF Described
    <2>2. SkeletonOf(i, hash') =
            <<i, "passive", "minimal", "maximal", "equity", "capitalBound", "leverageBound">>
      BY SkeletonsAre
    <2>3. IsOneUpdate(hash')
      BY <1>4, <1>11, <1>12, <2>2 DEF IsOneUpdate
    <2>4. IsWhole(hash')
      BY <1>4, <1>10 DEF IsWhole
    <2>5. IsCounted(hash')
      BY <1>12, <1>13, <2>1 DEF IsCounted
    <2>6. WasShown(hash', seen')
      BY <1>12, <1>13, Zenon DEF WasShown
    <2>7. QED
      BY <2>3, <2>4, <2>5, <2>6 DEF Complete
  <1>15. ContextInv'
    BY <1>3, <1>5 DEF ContextInv
  <1>16. QED
    BY <1>4, <1>5, <1>13, <1>14, <1>15, Asked DEF Unsigned

LEMMA PoolRateRefusedStep ==
  ASSUME IInv, PoolRateRefused PROVE IInv'
  <1>1. PICK s \in {"RANGES", "EQUITY"} : InTurn(Pool, s)
    BY DEF PoolRateRefused
  <1>2. screen \in Quiet /\ PoolInv(Known(hash))
    BY <1>1, PoolFound
  <1>3. ctx \in PoolContexts
    BY <1>2 DEF PoolInv
  <1>4. currentInstruction' = None /\ owed' \in BOOLEAN /\ screen' \in Quiet /\ Unsigned
        /\ ctx' \in {ctx, [ctx EXCEPT !.shared = "maximal"]}
    BY <1>2 DEF PoolRateRefused, Refuse, Unsigned
  <1>5. ctx' \in PoolContexts
    BY <1>3, <1>4 DEF PoolContexts
  <1>6. ContextInv'
    BY <1>5 DEF ContextInv
  <1>7. QED
    BY <1>4, <1>6, Ended

-----------------------------------------------------------------------------
(***************************************************************************)
(* The steps that are the same for every instruction.                      *)
(***************************************************************************)
LEMMA RefusedStep ==
  ASSUME IInv, ~owed, Refuse, ctx' \in {ctx, NoContext} PROVE IInv'
  <1>1. screen \in Quiet /\ ContextInv
    BY DEF IInv, DeviceInv
  <1>2. currentInstruction' = None /\ owed' \in BOOLEAN /\ screen' \in Quiet /\ Unsigned
    BY <1>1 DEF Refuse, Unsigned
  <1>3. ContextInv'
    BY <1>1 DEF ContextInv, NoContext
  <1>4. QED
    BY <1>2, <1>3, Ended

LEMMA InitialRefusedStep ==
  ASSUME IInv, NEW i \in MultiCommand, InitialRefused(i) PROVE IInv'
  BY RefusedStep DEF InitialRefused, Accepts

LEMMA LaterRefusedStep ==
  ASSUME IInv, NEW i \in MultiCommand, Refused(i) PROVE IInv'
  BY RefusedStep DEF Refused, Accepts, updateVars

LEMMA DispatchStep ==
  ASSUME IInv, Dispatch PROVE IInv'
  BY RefusedStep DEF Dispatch, BadCommand, SwitchInstruction, updateVars

LEMMA OtherInstructionStep ==
  ASSUME IInv, OtherInstruction PROVE IInv'
  <1>1. currentInstruction' = None /\ owed' \in BOOLEAN /\ screen' \in Quiet /\ Unsigned
        /\ ctx' = NoContext
    BY DEF OtherInstruction, uiIdle, Unsigned, Quiet
  <1>2. ContextInv'
    BY <1>1 DEF ContextInv
  <1>3. QED
    BY <1>1, <1>2, Ended

\* A dialog that its button leaves as it is says nothing of the instruction's progress.
LEMMA DialogLeft ==
  ASSUME NEW i \in MultiCommand, KindInv(i), screen \in Continuing \cup {"specificationHash"},
         screen' \in Quiet, hash' = hash, ctx' = ctx, seen' = seen
  PROVE  KindInv(i)'
  <1> DEFINE k == Known(hash)
  <1>1. /\ Known(hash') = k
        /\ screen \notin {"index", "threshold", "description", "message", "url"}
        /\ screen' \notin {"index", "threshold", "description", "message", "url", "specificationHash"}
    BY DEF Continuing, Quiet
  <1>2. ASSUME i \in HigherLevel PROVE KeysInv(i, Known(hash))'
    <2>1. KeysInv(i, k)
      BY <1>2 DEF KindInv
    <2> HIDE DEF k
    <2>2. QED
      BY <1>1, <2>1 DEF KeysInv
  <1>3. ASSUME i \in Authorizing PROVE AuthorizationsInv(i, Known(hash))'
    <2>1. AuthorizationsInv(i, k)
      BY <1>3 DEF KindInv
    <2> HIDE DEF k
    <2>2. Pending(ctx)' = Pending(ctx)
      BY DEF Pending
    <2>3. QED
      BY <1>1, <2>1, <2>2 DEF AuthorizationsInv
  <1>4. ASSUME i \in Described PROVE DescribedInv(i, Known(hash))'
    <2>1. DescribedInv(i, k)
      BY <1>4 DEF KindInv
    <2> HIDE DEF k
    <2>2. PartsRead' = PartsRead
      BY <1>1 DEF PartsRead
    <2>3. QED
      BY <1>1, <2>1, <2>2 DEF DescribedInv
  <1>5. ASSUME i = Protocol PROVE ProtocolInv(Known(hash))'
    <2>1. ProtocolInv(k)
      BY <1>5 DEF KindInv
    <2> HIDE DEF k
    <2>2. TextsRead' = TextsRead
      BY <1>1 DEF TextsRead
    <2>3. WholeTexts(k) => WholeTexts(Known(hash))'
      BY <1>1, <2>2 DEF WholeTexts
    <2>4. QED
      BY <1>1, <2>1, <2>3 DEF ProtocolInv
  <1>6. ASSUME i = CreatePlt PROVE PltInv(Known(hash))'
    <2>1. PltInv(k)
      BY <1>6 DEF KindInv
    <2>2. Params!After(hash') = Params!After(hash)
      OBVIOUS
    <2> HIDE DEF k
    <2>3. QED
      BY <1>1, <2>1, <2>2 DEF PltInv
  <1>7. ASSUME i = Pool PROVE PoolInv(Known(hash))'
    <2>1. PoolInv(k)
      BY <1>7 DEF KindInv
    <2> HIDE DEF k
    <2>2. QED
      BY <1>1, <2>1 DEF PoolInv
  <1>8. QED
    BY <1>2, <1>3, <1>4, <1>5, <1>6, <1>7 DEF KindInv

LEMMA DialogLeftStep ==
  ASSUME IInv, screen \in Continuing \cup {"specificationHash"}, screen' \in Quiet,
         currentInstruction' = currentInstruction, owed' = FALSE, reply' = Success,
         hash' = hash, ctx' = ctx, seen' = seen
  PROVE  IInv'
  <1> PICK i : i = currentInstruction
    OBVIOUS
  <1>1. screen \notin Quiet /\ screen # "sign"
    BY DEF Continuing, Quiet
  <1>2. i \in MultiCommand /\ HashOf(i, hash) /\ KindInv(i)
    BY <1>1, OnDisplay
  <1>3. KindInv(i)'
    BY <1>2, DialogLeft
  <1>4. owed' \in BOOLEAN /\ screen' # "sign" /\ Unsigned /\ HashOf(i, hash') /\ currentInstruction' = i
    BY <1>2 DEF Quiet, Unsigned
  <1>5. QED
    BY <1>2, <1>3, <1>4, Continued

LEMMA PressNextStep ==
  ASSUME IInv, PressNext(Continuing) PROVE IInv'
  <1>1. /\ screen \in Continuing /\ screen' \in Quiet /\ currentInstruction' = currentInstruction
        /\ owed' = FALSE /\ reply' = Success /\ hash' = hash /\ ctx' = ctx /\ seen' = seen
    BY Frozen DEF PressNext, PressContinue, updateVars
  <1>2. QED
    BY <1>1, DialogLeftStep

LEMMA PressSpecificationHashStep ==
  ASSUME IInv, PressSpecificationHash PROVE IInv'
  <1>1. /\ screen = "specificationHash" /\ screen' \in Quiet /\ currentInstruction' = currentInstruction
        /\ owed' = FALSE /\ reply' = Success /\ hash' = hash /\ ctx' = ctx /\ seen' = seen
    BY DEF PressSpecificationHash, updateVars, Quiet
  <1>2. QED
    BY <1>1, DialogLeftStep

LEMMA PressSignStep ==
  ASSUME IInv, PressSign PROVE IInv'
  <1>1. screen = "sign" /\ ContextInv /\ Complete(hash, seen)
    BY DEF PressSign, IInv, SignInv
  <1>2. /\ currentInstruction' = None /\ owed' = FALSE /\ screen' = "idle" /\ reply' = Signature
        /\ ctx' = ctx
    BY DEF PressSign, PressAnswer, uiIdle
  <1>3. reply'.over = hash /\ reply'.seen = seen
    BY <1>2 DEF Signature
  <1>4. ReplyInv'
    BY <1>1, <1>3 DEF ReplyInv
  <1>5. ContextInv'
    BY <1>1, <1>2 DEF ContextInv
  <1>6. DeviceInv' /\ HashInv' /\ ProgressInv' /\ SignInv'
    BY <1>2 DEF DeviceInv, HashInv, ProgressInv, SignInv, Quiet
  <1>7. QED
    BY <1>4, <1>5, <1>6 DEF IInv

LEMMA EndsStep ==
  ASSUME IInv, currentInstruction' = None, owed' \in BOOLEAN, screen' \in Quiet, Unsigned,
         ctx' \in {ctx, NoContext}
  PROVE  IInv'
  <1>1. ContextInv'
    BY DEF IInv, ContextInv, NoContext
  <1>2. QED
    BY <1>1, Ended

LEMMA PressSignFailsStep ==
  ASSUME IInv, PressSignFails PROVE IInv'
  <1>1. owed \in BOOLEAN
    BY DEF IInv, DeviceInv
  <1>2. /\ currentInstruction' = None /\ owed' \in BOOLEAN /\ screen' \in Quiet /\ Unsigned /\ ctx' = ctx
    BY <1>1, Frozen DEF PressSignFails, PressThrow, Unsigned
  <1>3. QED
    BY <1>2, EndsStep

LEMMA PressDeclineStep ==
  ASSUME IInv, PressDecline PROVE IInv'
  BY EndsStep DEF PressDecline, PressAnswer, uiIdle, Unsigned, Quiet, updateVars

LEMMA RestartStep ==
  ASSUME IInv, Restart PROVE IInv'
  BY EndsStep DEF Restart, DeviceRestart, uiIdle, Unsigned, Quiet

-----------------------------------------------------------------------------
(***************************************************************************)
(* The invariant.                                                          *)
(***************************************************************************)
LEMMA InitInv == ASSUME Init PROVE IInv
  <1>1. /\ currentInstruction = None /\ owed = FALSE /\ screen = "idle" /\ reply = NoReply
        /\ ctx = NoContext
    BY DEF Init, DeviceInit, UpdateInit
  <1>2. DeviceInv /\ ContextInv /\ HashInv /\ ProgressInv /\ SignInv
    BY <1>1 DEF DeviceInv, ContextInv, HashInv, ProgressInv, SignInv, Quiet
  <1>3. ReplyInv
    BY <1>1 DEF ReplyInv, Signed, NoReply
  <1>4. QED
    BY <1>2, <1>3 DEF IInv

LEMMA KeyCommandStep == ASSUME IInv, KeyCommand PROVE IInv'
  <1>1. CASE \E i \in HigherLevel :
               \/ \E n \in 0..MaxKeys, keyUpdateType \in {0, 1} : KeysInitial(i, keyUpdateType, n)
               \/ UpdateKey(i) \/ KeysThreshold(i)
    BY <1>1, KeysInitialStep, UpdateKeyStep, KeysThresholdStep
  <1>2. CASE \E i \in Authorizing :
               \/ \E n \in 0..MaxKeys, version \in Versions : AuthorizationsInitial(i, version, n)
               \/ AuthorizationKey(i) \/ StructureThreshold(i) \/ AccessStructureOdd(i)
               \/ \E n \in 0..MaxStructure : AccessStructureSize(i, n)
               \/ \E n \in 0..MaxBatch : \E batch \in [1..n -> KeyIndices] : AccessStructure(i, batch)
    BY <1>2, AuthorizationsInitialStep, AuthorizationKeyStep, StructureThresholdStep,
       AccessStructureOddStep, AccessStructureSizeStep, AccessStructureStep
  <1>3. QED
    BY <1>1, <1>2 DEF KeyCommand

LEMMA DescribedCommandStep == ASSUME IInv, DescribedCommand PROVE IInv'
  BY DescribedInitialStep, DescriptionLengthStep, DescriptionStep, VerifyKeyStep, CdiVerifyKeyStep,
     RevokerPublicKeyStep DEF DescribedCommand

LEMMA PayloadCommandStep == ASSUME IInv, PayloadCommand PROVE IInv'
  BY ProtocolInitialStep, TextLengthStep, TextStep, SpecificationHashStep, AuxiliaryDataStep,
     PltInitialStep, PltPayloadStep, InitParamsStep, PoolInitialStep, PoolRangesStep, PoolEquityStep,
     PoolRateRefusedStep DEF PayloadCommand

LEMMA ButtonStep == ASSUME IInv, Button PROVE IInv'
  <1>1. CASE KeyButton
    BY <1>1, PressIndexStep, PressThresholdStep DEF KeyButton
  <1>2. CASE DescribedButton
    BY <1>2, PressDescriptionStep DEF DescribedButton
  <1>3. CASE PayloadButton
    BY <1>3, PressTextStep, PressSpecificationHashStep DEF PayloadButton
  <1>4. CASE PressNext(Continuing) \/ PressSign \/ PressSignFails \/ PressDecline \/ PressQuit
    BY <1>4, PressNextStep, PressSignStep, PressSignFailsStep, PressDeclineStep, RestartStep
       DEF PressQuit
  <1>5. QED
    BY <1>1, <1>2, <1>3, <1>4 DEF Button

LEMMA InvariantStep == ASSUME IInv, [Next]_vars PROVE IInv'
  <1>1. CASE Command
    <2>1. CASE KeyCommand \/ DescribedCommand \/ PayloadCommand
      BY <2>1, KeyCommandStep, DescribedCommandStep, PayloadCommandStep
    <2>2. CASE \E i \in MultiCommand : InitialRefused(i) \/ Refused(i)
      BY <2>2, InitialRefusedStep, LaterRefusedStep
    <2>3. CASE Dispatch \/ OtherInstruction
      BY <2>3, DispatchStep, OtherInstructionStep
    <2>4. QED
      BY <1>1, <2>1, <2>2, <2>3 DEF Command
  <1>2. CASE Button
    BY <1>2, ButtonStep
  <1>3. CASE PowerLost
    BY <1>3, RestartStep DEF PowerLost
  <1>4. CASE UNCHANGED vars
    <2>1. /\ UNCHANGED <<currentInstruction, owed, screen, reply>> /\ UNCHANGED <<hash, ctx, seen>>
      BY <1>4 DEF vars, deviceVars, updateVars
    <2>2. DeviceInv' /\ ContextInv' /\ HashInv' /\ SignInv' /\ ReplyInv'
      BY <2>1 DEF IInv, DeviceInv, ContextInv, HashInv, SignInv, ReplyInv, Signed
    <2>3. ProgressInv'
      <3> PICK i : i = currentInstruction
        OBVIOUS
      <3>1. KindInv(i) => KindInv(i)'
        <4>1. PartsRead' = PartsRead /\ TextsRead' = TextsRead /\ Pending(ctx)' = Pending(ctx)
          BY <2>1 DEF PartsRead, TextsRead, Pending
        <4>2. Known(hash') = Known(hash) /\ Params!After(hash') = Params!After(hash)
          BY <2>1
        <4>3. QED
          BY <2>1, <4>1, <4>2, SMTT(40) DEF KindInv, KeysInv, AuthorizationsInv, DescribedInv, ProtocolInv,
             WholeTexts, PltInv, PoolInv
      <3>2. QED
        BY <2>1, <3>1 DEF IInv, ProgressInv
    <2>4. QED
      BY <2>2, <2>3 DEF IInv
  <1>5. QED
    BY <1>1, <1>2, <1>3, <1>4 DEF Next

\* The inductive invariant of the governance app: what the command in turn finds in
\* the memory of the context agrees with what has been hashed so far, although that
\* memory is written by the commands of nine instructions.
THEOREM Invariant == Spec => []IInv
  <1>1. Init => IInv
    BY InitInv
  <1>2. IInv /\ [Next]_vars => IInv'
    BY InvariantStep
  <1>3. QED
    BY <1>1, <1>2, PTL DEF Spec

-----------------------------------------------------------------------------
\* Counters, states and flows keep to their ranges: no handler (signUpdateAuthorizations.c,
\* signUpdateProtocol.c, descriptionView.c) counts past the end of its buffer, its
\* structures or its texts.
THEOREM Typed == Spec => []TypeOK
  <1>1. IInv => TypeOK
    <2> SUFFICES ASSUME IInv PROVE TypeOK
      OBVIOUS
    <2>1. /\ currentInstruction \in MultiCommand \cup {None} /\ owed \in BOOLEAN /\ screen \in Screens
      <3>1. /\ currentInstruction \in MultiCommand \cup {None} /\ owed \in BOOLEAN
            /\ \/ screen \in Quiet
               \/ currentInstruction \in MultiCommand /\ screen \in Dialogs(currentInstruction)
        BY DEF IInv, DeviceInv
      <3>2. \A i \in MultiCommand : Dialogs(i) \subseteq Screens
        <4> SUFFICES ASSUME NEW i \in MultiCommand PROVE Dialogs(i) \subseteq Screens
          OBVIOUS
        <4>1. CASE i \in HigherLevel \cup Authorizing \cup Described
          BY <4>1, DialogsOf DEF Screens, Continuing
        <4>2. CASE i \in {Protocol, CreatePlt, Pool}
          BY <4>2, DialogsOf DEF Screens, Continuing
        <4>3. QED
          BY <4>1, <4>2, Kinds
      <3>3. Quiet \subseteq Screens
        BY DEF Quiet, Screens
      <3>4. QED
        BY <3>1, <3>2, <3>3
    <2>2. /\ ctx.of \in MultiCommand \cup {None} /\ ctx.state \in States
          /\ ctx.of \in Authorizing => ctx \in AuthorizationContexts
          /\ ctx.of \in Described => ctx \in DescribedContexts
          /\ ctx.of = Protocol => ctx \in ProtocolContexts
          /\ ctx.of = CreatePlt => ctx \in PltContexts
      BY ContextOf DEF IInv
    <2>3. ctx.of \in Authorizing =>
            /\ ctx.structure \in 0..AuthorizationEnd[ctx.version]
            /\ ctx.pointer \in 1..(MaxBatch + 1) /\ ctx.processed \in 0..MaxBatch
      <3> SUFFICES ASSUME ctx \in AuthorizationContexts
                   PROVE  /\ ctx.structure \in 0..AuthorizationEnd[ctx.version]
                          /\ ctx.pointer \in 1..(MaxBatch + 1) /\ ctx.processed \in 0..MaxBatch
        BY <2>2
      <3>1. /\ ctx.version \in Versions /\ ctx.structure \in Nat
            /\ ctx.structure <= AuthorizationEnd[ctx.version]
            /\ ctx.pointer \in 1..(MaxBatch + 1) /\ ctx.processed \in 0..MaxBatch
        BY AuthorizationFields
      <3>2. AuthorizationEnd[ctx.version] \in Nat
        BY <3>1, Constants
      <3>3. QED
        BY <3>1, <3>2
    <2>4. ctx.of \in Described => ctx.payload \in 0..(Word - 1) /\ ctx.part \in 0..2
      BY <2>2, DescribedFields
    <2>5. ctx.of = Protocol => ctx.payload \in 0..(Word - 1) /\ ctx.part \in 0..2
      BY <2>2, ProtocolFields
    <2>6. ctx.of = CreatePlt => ctx.remaining <= ctx.length
      BY <2>2, PltFields
    <2>7. QED
      BY <2>1, <2>2, <2>3, <2>4, <2>5, <2>6 DEF TypeOK
  <1>2. QED
    BY <1>1, Invariant, PTL

\* A signature (buildAndSignTransactionHash) covers one update of its kind, every
\* part of its payload once and in order, whatever commands came before and between.
THEOREM OneUpdateSigned == Spec => []SignedIsOneUpdate
  <1>1. IInv => SignedIsOneUpdate
    BY DEF IInv, ReplyInv, Complete, SignedIsOneUpdate
  <1>2. QED
    BY <1>1, Invariant, PTL

\* What a signed update announces - keys, key indices, bytes of text, parameters - is
\* what it holds, for every number of them and however they are cut into commands.
THEOREM WholeAsAnnounced == Spec => []AnnouncedIsWhole
  <1>1. IInv => AnnouncedIsWhole
    BY DEF IInv, ReplyInv, Complete, AnnouncedIsWhole
  <1>2. QED
    BY <1>1, Invariant, PTL

\* The payload length of a signed update counts its payload, modulo the width of
\* the unsigned counters payloadLength and verifyKeyLength, for every width.
THEOREM Counted == Spec => []PayloadIsCounted
  <1>1. IInv => PayloadIsCounted
    BY DEF IInv, ReplyInv, Complete, PayloadIsCounted
  <1>2. QED
    BY <1>1, Invariant, PTL

\* What the dialogs have shown is what is signed: every key, key index and text in
\* its place under its title, and of a token's parameters those the buffer holds.
THEOREM ShownIsSigned == Spec => []ShownAsHashed
  <1>1. IInv => ShownAsHashed
    BY DEF IInv, ReplyInv, Complete, ShownAsHashed
  <1>2. QED
    BY <1>1, Invariant, PTL
=============================================================================
