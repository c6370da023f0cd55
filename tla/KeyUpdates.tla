----------------------------- MODULE KeyUpdates -----------------------------
(***************************************************************************)
(* Updates of the chain's governance keys:                                 *)
(*   - root and level 1 keys (signHigherLevelKeyUpdate.c): a number of     *)
(*     keys, the keys, a threshold;                                        *)
(*   - level 2 keys (signUpdateAuthorizations.c): keys, then for each      *)
(*     access structure the number of its key indices, the indices in      *)
(*     batches of one command, shown one by one, and a threshold.          *)
(* Keys are told apart by nothing; the index of a key is its value.        *)
(***************************************************************************)
EXTENDS UpdateInstruction

CONSTANTS
  MaxKeys,             \* most keys announced
  AuthorizationEnd,    \* AUTHORIZATION_END_V0 and so on: version -> access structures
  MaxStructure,        \* most key indices announced for a structure
  MaxBatch,            \* most key indices in one command
  KeyIndices           \* their values

ASSUME KeyAssumption ==
  /\ MaxKeys \in Nat /\ MaxStructure \in Nat /\ MaxBatch \in Nat \ {0}
  /\ KeyIndices \subseteq Nat /\ DOMAIN AuthorizationEnd \subseteq Nat
  /\ \A v \in DOMAIN AuthorizationEnd : AuthorizationEnd[v] \in Nat \ {0}

Versions == DOMAIN AuthorizationEnd

(***************************************************************************)
(* Root and level 1 keys.                                                  *)
(***************************************************************************)
\* The text for a key update type byte, and what the byte 1 (the level 2 keys of
\* level1UpdatePrefix_e, tested as ROOT_UPDATE_LEVEL_1) finds: the text of before.
keyUpdateText(i, keyUpdateType) ==
  CASE i = RootKeys   /\ keyUpdateType = 0 -> "Root w. root keys"
    [] i = RootKeys   /\ keyUpdateType = 1 -> "Level 1 w. root keys"
    [] i = Level1Keys /\ keyUpdateType = 0 -> "Level 1 w. level 1 keys"
    [] i = Level1Keys /\ keyUpdateType = 1 ->
         IF ctx.of \in HigherLevel THEN ctx.type ELSE "whatever lies there"

KeysInitial(i, keyUpdateType, n) ==
  /\ InTurn(i, "INITIAL")
  /\ Begin(i, <<Item("keyUpdateType", keyUpdateType), Item("keys", n)>>)
  /\ LET text == keyUpdateText(i, keyUpdateType) IN
     /\ ctx' = [of |-> i, state |-> "KEY", type |-> text, left |-> n]
     /\ seen' = <<Shown(0, Named(text))>>
  /\ Ask(i, "review")

\* Mutant of UpdateKey: the threshold is expected one key early.
UpdateKeyEarly(i) ==
  /\ InTurn(i, "KEY") /\ ctx.left > 0
  /\ Absorb(<<Named("key")>>)
  /\ ctx' = [ctx EXCEPT !.left = @ - 1, !.state = IF ctx.left <= 2 THEN "THRESHOLD" ELSE @]
  /\ Show(i, "key", 0, Named("key"))

\* When no key is left the command is refused, before anything is hashed.
UpdateKey(i) ==
  /\ InTurn(i, "KEY") /\ ctx.left > 0
  /\ Absorb(<<Named("key")>>)
  /\ ctx' = [ctx EXCEPT !.left = @ - 1, !.state = IF ctx.left = 1 THEN "THRESHOLD" ELSE @]
  /\ Show(i, "key", 0, Named("key"))

KeysThreshold(i) ==
  /\ InTurn(i, "THRESHOLD")
  /\ Absorb(<<Named("threshold")>>)
  /\ Ask(i, "sign")
  /\ UNCHANGED <<ctx, seen>>

(***************************************************************************)
(* Level 2 keys and their access structures.                               *)
(***************************************************************************)
NoBatch == [k \in 1..MaxBatch |-> 0]

\* authsVersion, a static variable of its own in the code, is set here always; P2
\* must say the same. setTypeText has a text for both instructions.
AuthorizationsInitial(i, version, n) ==
  /\ InTurn(i, "INITIAL")
  /\ Begin(i, <<Item("version", version), Item("keys", n)>>)
  /\ ctx' = [of |-> i, state |-> "KEY", left |-> n, version |-> version, structure |-> 0,
             size |-> 0, processed |-> 0, pointer |-> 1, buffer |-> NoBatch]
  /\ seen' = <<Shown(0, Named(i))>>
  /\ Ask(i, "review")

AuthorizationKey(i) ==
  /\ InTurn(i, "KEY") /\ ctx.left > 0
  /\ Absorb(<<Named("key")>>)
  /\ ctx' = [ctx EXCEPT !.left = @ - 1, !.state = IF ctx.left = 1 THEN "SIZE" ELSE @]
  /\ Show(i, "key", 0, Named("key"))

AccessStructureSize(i, n) ==
  /\ InTurn(i, "SIZE") /\ ctx.structure < AuthorizationEnd[ctx.version]
  /\ Absorb(<<Item("size", n)>>)
  /\ ctx' = [ctx EXCEPT !.size = n, !.state = "INDEX"]
  /\ AnswerNow(i)
  /\ UNCHANGED seen

\* Mutant of processKeyIndices: the pointer into the buffer does not move.
processKeyIndicesStuck(c, Answer, Throw, Display) ==
  \/ /\ c.size = 0 /\ c.processed # 0
     /\ ctx' = c
     /\ Throw
     /\ UNCHANGED seen
  \/ /\ c.processed = 0
     /\ ctx' = IF c.size = 0 THEN [c EXCEPT !.state = "THRESHOLD"] ELSE c
     /\ Answer
     /\ UNCHANGED seen
  \/ /\ c.size > 0 /\ c.processed > 0
     /\ ctx' = [c EXCEPT !.size = @ - 1, !.processed = @ - 1]
     /\ seen' = Append(seen, Shown(c.structure + 1, Item("index", c.buffer[c.pointer])))
     /\ Display

\* The next index of the batch, from the handler or from the button: the caller
\* says how it answers, throws and displays, and c is the context it leaves.
processKeyIndices(c, Answer, Throw, Display) ==
  \/ /\ c.size = 0 /\ c.processed # 0          \* more indices than promised
     /\ ctx' = c
     /\ Throw
     /\ UNCHANGED seen
  \/ /\ c.processed = 0                        \* the structure, or the batch, is done
     /\ ctx' = IF c.size = 0 THEN [c EXCEPT !.state = "THRESHOLD"] ELSE c
     /\ Answer
     /\ UNCHANGED seen
  \/ /\ c.size > 0 /\ c.processed > 0
     /\ ctx' = [c EXCEPT !.pointer = @ + 1, !.size = @ - 1, !.processed = @ - 1]
     /\ seen' = Append(seen, Shown(c.structure + 1, Item("index", c.buffer[c.pointer])))
     /\ Display

AccessStructure(i, batch) ==
  /\ InTurn(i, "INDEX")
  /\ Absorb([k \in DOMAIN batch |-> Item("index", batch[k])])
  /\ processKeyIndices(
       [ctx EXCEPT !.pointer = 1, !.processed = Len(batch),
                   !.buffer = [k \in 1..MaxBatch |-> IF k <= Len(batch) THEN batch[k] ELSE @[k]]],
       AnswerNow(i), Refuse, Ask(i, "index"))

\* An odd number of bytes: only bufferPointer has been reset.
AccessStructureOdd(i) ==
  /\ InTurn(i, "INDEX")
  /\ ctx' = [ctx EXCEPT !.pointer = 1]
  /\ Refuse
  /\ UNCHANGED <<hash, seen>>

PressIndex ==
  /\ screen = "index"
  /\ processKeyIndices(ctx, PressContinue, PressThrow, UNCHANGED deviceVars)
  /\ UNCHANGED hash

StructureThreshold(i) ==
  /\ InTurn(i, "THRESHOLD")
  /\ Absorb(<<Named("threshold")>>)
  /\ Ask(i, "threshold")
  /\ UNCHANGED <<ctx, seen>>

\* processThreshold().
PressThreshold ==
  /\ screen = "threshold"
  /\ LET next == ctx.structure + 1 IN
     IF next = AuthorizationEnd[ctx.version]
       THEN /\ ctx' = [ctx EXCEPT !.structure = next]
            /\ screen' = "sign" /\ UNCHANGED <<currentInstruction, owed, reply>>
       ELSE /\ ctx' = [ctx EXCEPT !.structure = next, !.state = "SIZE"]
            /\ PressContinue
  /\ UNCHANGED <<hash, seen>>

KeyCommand ==
  \/ \E i \in HigherLevel :
       \/ \E n \in 0..MaxKeys, keyUpdateType \in {0, 1} : KeysInitial(i, keyUpdateType, n)
       \/ UpdateKey(i) \/ KeysThreshold(i)
  \/ \E i \in Authorizing :
       \/ \E n \in 0..MaxKeys, version \in Versions : AuthorizationsInitial(i, version, n)
       \/ AuthorizationKey(i) \/ StructureThreshold(i) \/ AccessStructureOdd(i)
       \/ \E n \in 0..MaxStructure : AccessStructureSize(i, n)
       \/ \E n \in 0..MaxBatch : \E batch \in [1..n -> KeyIndices] : AccessStructure(i, batch)

KeyButton == PressIndex \/ PressThreshold
=============================================================================
