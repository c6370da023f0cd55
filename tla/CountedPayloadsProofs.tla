----------------------- MODULE CountedPayloadsProofs ------------------------
(***************************************************************************)
(* For every length, piece size and word, and whether or not the UX engine *)
(* keeps a pressed step alive: a signature on register data, a transfer to *)
(* public or an encrypted transfer covers the pieces of one transaction in *)
(* their order, data of the length signed before it, all of it received    *)
(* before the user went on, and a proof of the announced size up to whole  *)
(* words.  The argument is CountedInv, which accounts for what has been    *)
(* hashed and what is still to come, state by state.                       *)
(***************************************************************************)
EXTENDS Integers, CountedPayloads, SequenceTheorems, TLAPS

Hashes == [items : Seq(Pieces), bytes : [dataLength : Nat, data : Nat, proof : Nat]]

\* A dialog belongs to the command owed; the data step is left only through handleData.
DialogInv ==
  /\ screen = "registerData" => owed /\ currentInstruction = Register
  /\ owed =>
       \/ currentInstruction = None /\ screen \in {"frozen", "sign"} /\ hash = Finalised
       \/ currentInstruction = Register /\ screen \in {"registerInitial", "registerData", "sign"}
       \/ currentInstruction \in Proving /\ screen = "sign" /\ state = "PROOF" /\ size = 0

\* Data hashed and data to come add up to the length hashed, in both counters.
RegisterInv ==
  currentInstruction = Register =>
    /\ state \in {"PAYLOAD_START", "PAYLOAD"}
    /\ \E n \in Nat : hash.items = Payload(Register, 0, n)
    /\ hash.bytes.data + size = hash.bytes.dataLength
    /\ left = size
    /\ owed /\ screen # "registerInitial" => size = 0
    /\ owed /\ screen = "sign" => viewed = hash.bytes.data

\* Before the proof: which pieces have come. Behind its size: proof hashed and proof
\* to come add up to that size, modulo the word that counts.
OpeningInv(m) ==
  /\ hash.bytes.proof = 0
  /\ \/ state \in {"MEMO_START", "MEMO"} /\ currentInstruction = EncryptedMemo
        /\ hash.items = Opening(currentInstruction, m)
     \/ state = "REMAINING_AMOUNT" /\ hash.items = Opening(currentInstruction, m)
     \/ state = "TRANSFER_AMOUNT" /\ currentInstruction # ToPublic
        /\ hash.items = Append(Opening(currentInstruction, m), "remaining")

ProofInv(m) ==
  /\ state = "PROOF"
  /\ \E n \in Nat : hash.items = Payload(currentInstruction, m, n)
  /\ (hash.bytes.proof + size) % Word16 = declared % Word16

ProvingInv ==
  currentInstruction \in Proving => \E m \in Nat : OpeningInv(m) \/ ProofInv(m)

SignedInv == SignedIsOneTransaction /\ DataIsWholeAndViewed /\ ProofIsCounted

StepInv    == DialogInv /\ RegisterInv /\ ProvingInv
CountedInv == TypeOK /\ StepInv /\ SignedInv
-----------------------------------------------------------------------------
LEMMA Kinds ==
  /\ Ours = {Register, ToPublic, Encrypted, EncryptedMemo}
  /\ Proving = {ToPublic, Encrypted, EncryptedMemo}
  /\ Register \notin Proving /\ ToPublic # Encrypted /\ ToPublic # EncryptedMemo
  /\ Encrypted # EncryptedMemo
  /\ None \notin Ours /\ Other \notin Ours /\ None # Other
  BY NoneIsNoInstruction DEF Ours, Proving, Register, ToPublic, Encrypted, EncryptedMemo, Other

LEMMA PieceNames ==
  /\ Ours \subseteq Pieces
  /\ {"memoLength", "memo", "dataLength", "data", "amount", "remaining", "transfer", "proof",
      "final"} \subseteq Pieces
  BY DEF Pieces

(***************************************************************************)
(* The pieces in their order.                                              *)
(***************************************************************************)
LEMMA CopiesType ==
  ASSUME NEW x \in Pieces, NEW n \in Nat
  PROVE  /\ Copies(x, n) \in Seq(Pieces) /\ Len(Copies(x, n)) = n
         /\ \A i \in 1..n : Copies(x, n)[i] = x
  BY DEF Copies

LEMMA SomeCopies ==
  ASSUME NEW s \in Seq(Pieces), NEW x \in Pieces, NEW n \in Nat
  PROVE  /\ s \o Copies(x, n) \in Seq(Pieces)
         /\ Len(s \o Copies(x, n)) = Len(s) + n
         /\ \A i \in 1..(Len(s) + n) :
              (s \o Copies(x, n))[i] = IF i <= Len(s) THEN s[i] ELSE x
  <1> DEFINE c == Copies(x, n)
  <1>1. c \in Seq(Pieces) /\ Len(c) = n /\ \A i \in 1..n : c[i] = x
    BY CopiesType
  <1>2. Len(s) \in Nat
    BY LenProperties
  <1> HIDE DEF c
  <1>3. /\ s \o c \in Seq(Pieces) /\ Len(s \o c) = Len(s) + n
        /\ \A i \in 1..(Len(s) + n) : (s \o c)[i] = IF i <= Len(s) THEN s[i] ELSE c[i - Len(s)]
    BY <1>1, ConcatProperties
  <1>4. \A i \in 1..(Len(s) + n) : ~(i <= Len(s)) => c[i - Len(s)] = x
    BY <1>1, <1>2
  <1>5. QED
    BY <1>3, <1>4 DEF c

LEMMA MoreCopies ==
  ASSUME NEW s \in Seq(Pieces), NEW x \in Pieces, NEW n \in Nat
  PROVE  Append(s \o Copies(x, n), x) = s \o Copies(x, n + 1)
  <1> DEFINE t == s \o Copies(x, n)   u == s \o Copies(x, n + 1)   a == Append(t, x)
  <1>1. Len(s) \in Nat
    BY LenProperties
  <1>2. /\ t \in Seq(Pieces) /\ Len(t) = Len(s) + n
        /\ \A i \in 1..(Len(s) + n) : t[i] = IF i <= Len(s) THEN s[i] ELSE x
    BY SomeCopies
  <1>3. /\ u \in Seq(Pieces) /\ Len(u) = Len(s) + n + 1
        /\ \A i \in 1..(Len(s) + n + 1) : u[i] = IF i <= Len(s) THEN s[i] ELSE x
    <2> DEFINE n1 == n + 1
    <2>1. n1 \in Nat /\ Len(s) + n1 = Len(s) + n + 1
      BY <1>1
    <2> HIDE DEF n1
    <2>2. LET v == s \o Copies(x, n1) IN
          /\ v \in Seq(Pieces) /\ Len(v) = Len(s) + n1
          /\ \A i \in 1..(Len(s) + n1) : v[i] = IF i <= Len(s) THEN s[i] ELSE x
      BY <2>1, SomeCopies
    <2>3. QED
      BY <2>1, <2>2 DEF n1
  <1> HIDE DEF t, u
  <1>4. /\ a \in Seq(Pieces) /\ Len(a) = Len(t) + 1 /\ a[Len(t) + 1] = x
        /\ \A i \in 1..Len(t) : a[i] = t[i]
    BY <1>2, AppendProperties
  <1> HIDE DEF a
  <1>5. \A i \in 1..Len(a) : a[i] = u[i]
    <2> SUFFICES ASSUME NEW i \in 1..Len(a) PROVE a[i] = u[i]
      OBVIOUS
    <2>1. CASE i \in 1..Len(t)
      BY <1>1, <1>2, <1>3, <1>4, <2>1
    <2>2. CASE i = Len(t) + 1
      BY <1>1, <1>2, <1>3, <1>4, <2>2
    <2>3. QED
      BY <1>1, <1>2, <1>4, <2>1, <2>2
  <1>6. a = u
    BY <1>1, <1>2, <1>3, <1>4, <1>5, SeqEqual
  <1>7. QED
    BY <1>6 DEF a, t, u

LEMMA NoCopies ==
  ASSUME NEW s \in Seq(Pieces), NEW x PROVE s \o Copies(x, 0) = s
  <1>1. Copies(x, 0) = <<>>
    BY DEF Copies
  <1>2. QED
    BY <1>1, ConcatEmptySeq

LEMMA Pair ==
  ASSUME NEW x \in Pieces, NEW y \in Pieces
  PROVE  <<x, y>> \in Seq(Pieces) /\ Len(<<x, y>>) = 2 /\ <<x, y>>[1] = x
  OBVIOUS

LEMMA Single ==
  ASSUME NEW x \in Pieces PROVE <<x>> \in Seq(Pieces) /\ Len(<<x>>) = 1 /\ <<x>>[1] = x
  OBVIOUS

LEMMA OpeningType ==
  ASSUME NEW k \in Proving, NEW m \in Nat
  PROVE  /\ Opening(k, m) \in Seq(Pieces) /\ Len(Opening(k, m)) \in Nat \ {0}
         /\ Opening(k, m)[1] = k
         /\ k = EncryptedMemo => Len(Opening(k, m)) = m + 2
  <1>1. k \in Pieces /\ "memoLength" \in Pieces /\ "memo" \in Pieces
    BY Kinds, PieceNames
  <1>2. CASE k = EncryptedMemo
    <2> DEFINE s == <<k, "memoLength">>   x == "memo"
    <2>1. s \in Seq(Pieces) /\ Len(s) = 2 /\ s[1] = k /\ x \in Pieces
      BY <1>1, Pair
    <2>2. Opening(k, m) = s \o Copies(x, m)
      BY <1>2 DEF Opening
    <2> HIDE DEF s, x
    <2>3. LET t == s \o Copies(x, m) IN
          /\ t \in Seq(Pieces) /\ Len(t) = Len(s) + m
          /\ \A i \in 1..(Len(s) + m) : t[i] = IF i <= Len(s) THEN s[i] ELSE x
      BY <2>1, SomeCopies, ZenonT(60)
    <2>4. 1 \in 1..(Len(s) + m) /\ Len(s) + m = m + 2
      BY <2>1
    <2>5. QED
      BY <2>1, <2>2, <2>3, <2>4
  <1>3. CASE k # EncryptedMemo
    BY <1>1, <1>3, Single DEF Opening
  <1>4. QED
    BY <1>2, <1>3

LEMMA AmountsType ==
  ASSUME NEW k \in Proving
  PROVE  Amounts(k) \in Seq(Pieces) /\ Len(Amounts(k)) \in Nat
  BY PieceNames, Single, Pair DEF Amounts

\* The pieces before the counted ones.
BeforeCounted(k, m) ==
  IF k = Register THEN <<k, "dataLength">> ELSE Opening(k, m) \o Amounts(k)

Counted(k) == IF k = Register THEN "data" ELSE "proof"

LEMMA PayloadIs ==
  ASSUME NEW k \in Ours, NEW m \in Nat, NEW n \in Nat
  PROVE  /\ Payload(k, m, n) = BeforeCounted(k, m) \o Copies(Counted(k), n)
         /\ BeforeCounted(k, m) \in Seq(Pieces) /\ Counted(k) \in Pieces
         /\ Len(BeforeCounted(k, m)) \in Nat \ {0} /\ BeforeCounted(k, m)[1] = k
         /\ k = EncryptedMemo => Len(BeforeCounted(k, m)) >= m
  <1>1. CASE k = Register
    <2>1. k \in Pieces /\ "dataLength" \in Pieces /\ "data" \in Pieces
      BY PieceNames
    <2>2. QED
      BY <1>1, <2>1, Pair, Kinds DEF Payload, BeforeCounted, Counted
  <1>2. CASE k # Register
    <2> DEFINE s == Opening(k, m)   t == Amounts(k)
    <2>1. k \in Proving
      BY <1>2, Kinds
    <2>2. /\ s \in Seq(Pieces) /\ Len(s) \in Nat \ {0} /\ s[1] = k
          /\ k = EncryptedMemo => Len(s) = m + 2
      BY <2>1, OpeningType
    <2>3. t \in Seq(Pieces) /\ Len(t) \in Nat
      BY <2>1, AmountsType
    <2>4. BeforeCounted(k, m) = s \o t
      BY <1>2 DEF BeforeCounted
    <2>5. Payload(k, m, n) = s \o t \o Copies("proof", n)
      BY <1>2 DEF Payload
    <2> HIDE DEF s, t
    <2>6. /\ s \o t \in Seq(Pieces) /\ Len(s \o t) = Len(s) + Len(t)
          /\ 1 \in 1..(Len(s) + Len(t)) /\ (s \o t)[1] = s[1]
      BY <2>2, <2>3, ConcatProperties
    <2>7. Counted(k) = "proof" /\ "proof" \in Pieces
      BY <1>2, PieceNames DEF Counted
    <2>8. QED
      BY <2>2, <2>3, <2>4, <2>5, <2>6, <2>7
  <1>3. QED
    BY <1>1, <1>2

\* A payload begins with its kind and is no shorter than what it counts.
LEMMA PayloadType ==
  ASSUME NEW k \in Ours, NEW m \in Nat, NEW n \in Nat
  PROVE  /\ Payload(k, m, n) \in Seq(Pieces) /\ Payload(k, m, n)[1] = k
         /\ Len(Payload(k, m, n)) >= n
         /\ k = EncryptedMemo => Len(Payload(k, m, n)) >= m
  <1> DEFINE s == BeforeCounted(k, m)   x == Counted(k)
  <1>1. /\ Payload(k, m, n) = s \o Copies(x, n) /\ s \in Seq(Pieces) /\ x \in Pieces
        /\ Len(s) \in Nat \ {0} /\ s[1] = k /\ (k = EncryptedMemo => Len(s) >= m)
    BY PayloadIs
  <1> HIDE DEF s, x
  <1>2. LET t == s \o Copies(x, n) IN
        /\ t \in Seq(Pieces) /\ Len(t) = Len(s) + n
        /\ \A i \in 1..(Len(s) + n) : t[i] = IF i <= Len(s) THEN s[i] ELSE x
    BY <1>1, SomeCopies
  <1>3. 1 \in 1..(Len(s) + n) /\ 1 <= Len(s)
    BY <1>1
  <1>4. QED
    BY <1>1, <1>2, <1>3

LEMMA CountedFollows ==
  ASSUME NEW k \in Ours, NEW m \in Nat, NEW n \in Nat
  PROVE  Append(Payload(k, m, n), Counted(k)) = Payload(k, m, n + 1)
  <1> DEFINE s == BeforeCounted(k, m)   x == Counted(k)   n1 == n + 1
  <1>1. n1 \in Nat
    OBVIOUS
  <1> HIDE DEF n1
  <1>2. /\ Payload(k, m, n) = s \o Copies(x, n) /\ Payload(k, m, n1) = s \o Copies(x, n1)
        /\ s \in Seq(Pieces) /\ x \in Pieces
    BY <1>1, PayloadIs
  <1> HIDE DEF s, x
  <1>3. Append(s \o Copies(x, n), x) = s \o Copies(x, n1)
    BY <1>2, MoreCopies DEF n1
  <1>4. QED
    BY <1>2, <1>3 DEF x, n1

LEMMA OpeningBegins ==
  /\ Opening(EncryptedMemo, 0) = <<EncryptedMemo, "memoLength">>
  /\ Opening(ToPublic, 0) = <<ToPublic>> /\ Opening(Encrypted, 0) = <<Encrypted>>
  /\ Payload(Register, 0, 0) = <<Register, "dataLength">>
  <1>1. /\ <<EncryptedMemo, "memoLength">> \in Seq(Pieces)
        /\ <<Register, "dataLength">> \in Seq(Pieces)
    BY PieceNames, Kinds, Pair
  <1>2. QED
    BY <1>1, NoCopies, Kinds DEF Opening, Payload

LEMMA MemoFollows ==
  ASSUME NEW m \in Nat
  PROVE  Append(Opening(EncryptedMemo, m), "memo") = Opening(EncryptedMemo, m + 1)
  <1>1. <<EncryptedMemo, "memoLength">> \in Seq(Pieces) /\ "memo" \in Pieces
    BY PieceNames, Kinds, Pair
  <1>2. QED
    BY <1>1, MoreCopies DEF Opening

LEMMA AmountFollows ==
  ASSUME NEW m \in Nat
  PROVE  Append(Opening(ToPublic, m), "amount") = Payload(ToPublic, m, 0)
  <1> DEFINE s == Opening(ToPublic, m)
  <1>1. s \in Seq(Pieces) /\ "amount" \in Pieces
    BY OpeningType, PieceNames, Kinds
  <1>2. Payload(ToPublic, m, 0) = s \o <<"amount">> \o Copies("proof", 0)
    BY Kinds DEF Payload, Amounts
  <1> HIDE DEF s
  <1>3. s \o <<"amount">> \in Seq(Pieces) /\ Append(s, "amount") = s \o <<"amount">>
    BY <1>1, Single, ConcatProperties, AppendIsConcat
  <1>4. QED
    BY <1>2, <1>3, NoCopies DEF s

LEMMA TransferFollows ==
  ASSUME NEW k \in Proving, k # ToPublic, NEW m \in Nat
  PROVE  Append(Append(Opening(k, m), "remaining"), "transfer") = Payload(k, m, 0)
  <1> DEFINE s == Opening(k, m)   r == <<"remaining">>   t == <<"transfer">>
  <1>1. /\ s \in Seq(Pieces) /\ "remaining" \in Pieces /\ "transfer" \in Pieces
        /\ r \in Seq(Pieces) /\ t \in Seq(Pieces)
    BY OpeningType, PieceNames, Single
  <1>2. Payload(k, m, 0) = s \o Amounts(k) \o Copies("proof", 0)
    BY Kinds DEF Payload
  <1>3. Amounts(k) = r \o t
    BY DEF Amounts
  <1>4. s \o r \in Seq(Pieces) /\ Append(s, "remaining") = s \o r
    BY <1>1, ConcatProperties, AppendIsConcat
  <1> HIDE DEF s
  <1>5. Append(s \o r, "transfer") = (s \o r) \o t
    BY <1>1, <1>4, AppendIsConcat
  <1> HIDE DEF r, t
  <1>6. (s \o r) \o t = s \o (r \o t) /\ s \o (r \o t) \in Seq(Pieces)
    BY <1>1, ConcatAssociative, ConcatProperties
  <1>7. QED
    BY <1>2, <1>3, <1>4, <1>5, <1>6, NoCopies DEF s

(***************************************************************************)
(* A counter of 16 bits.                                                   *)
(***************************************************************************)
LEMMA Divided ==
  ASSUME NEW n \in Nat
  PROVE  /\ n \div Word16 \in Int /\ n % Word16 \in 0..(Word16 - 1)
         /\ n = Word16 * (n \div Word16) + (n % Word16)
  BY CountedAssumption

LEMMA LessThanAWord ==
  ASSUME NEW k \in Int, Word16 * k > -Word16, Word16 * k < Word16
  PROVE  k = 0
  <1>1. Word16 \in Nat \ {0} /\ Word16 * k \in Int
    BY CountedAssumption
  <1>2. \A i \in Nat : Word16 * i >= 0
    BY <1>1
  <1>3. Word16 * (-k - 1) = -(Word16 * k) - Word16 /\ Word16 * (k - 1) = (Word16 * k) - Word16
    BY <1>1
  <1>4. k < 0 => Word16 * k <= -Word16
    BY <1>1, <1>2, <1>3
  <1>5. k > 0 => Word16 * k >= Word16
    BY <1>1, <1>2, <1>3
  <1>6. QED
    BY <1>1, <1>4, <1>5

LEMMA OneWordMore == ASSUME NEW n \in Nat PROVE (n + Word16) % Word16 = n % Word16
  <1> DEFINE d == n \div Word16              r == n % Word16
             e == (n + Word16) \div Word16   s == (n + Word16) % Word16
  <1>1. Word16 \in Nat \ {0} /\ n + Word16 \in Nat
    BY CountedAssumption
  <1>2. /\ d \in Int /\ r \in 0..(Word16 - 1) /\ n = Word16 * d + r
        /\ e \in Int /\ s \in 0..(Word16 - 1) /\ n + Word16 = Word16 * e + s
    BY <1>1, Divided
  <1> HIDE DEF d, r, e, s
  <1>3. Word16 * e \in Int /\ Word16 * d \in Int /\ e - d - 1 \in Int
    BY <1>1, <1>2
  <1>4. Word16 * (e - d - 1) = Word16 * e - Word16 * d - Word16
    BY <1>1, <1>2
  <1>5. Word16 * (e - d - 1) = r - s
    BY <1>1, <1>2, <1>3, <1>4
  <1>6. e - d - 1 = 0
    BY <1>1, <1>2, <1>3, <1>5, LessThanAWord
  <1>7. Word16 * 0 = 0
    BY <1>1
  <1>8. r = s
    BY <1>2, <1>5, <1>6, <1>7
  <1>9. QED
    BY <1>8 DEF r, s

LEMMA SmallRemains ==
  ASSUME NEW n \in 0..(Word16 - 1) PROVE n % Word16 = n /\ (n + Word16) % Word16 = n
  <1>1. n \in Nat /\ Word16 \in Nat \ {0}
    BY CountedAssumption
  <1> DEFINE d == n \div Word16   r == n % Word16
  <1>2. d \in Int /\ r \in 0..(Word16 - 1) /\ n = Word16 * d + r
    BY <1>1, Divided
  <1> HIDE DEF d, r
  <1>3. Word16 * d \in Int /\ Word16 * d = n - r
    BY <1>1, <1>2
  <1>4. d = 0
    BY <1>1, <1>2, <1>3, LessThanAWord
  <1>5. Word16 * 0 = 0
    BY <1>1
  <1>6. n = r
    BY <1>1, <1>2, <1>3, <1>4, <1>5
  <1>7. QED
    BY <1>1, <1>6, OneWordMore DEF r

\* Counting a piece down and its bytes up keeps the sum, modulo the word.
LEMMA CountedDown ==
  ASSUME NEW p \in Nat, NEW c \in 0..(Word16 - 1), NEW n \in 0..(Word16 - 1)
  PROVE  LET left1 == (c + Word16 - n) % Word16 IN
         /\ left1 \in 0..(Word16 - 1)
         /\ ((p + n) + left1) % Word16 = (p + c) % Word16
  <1>1. Word16 \in Nat \ {0}
    BY CountedAssumption
  <1>2. CASE n <= c
    <2>1. c - n \in 0..(Word16 - 1) /\ c + Word16 - n = (c - n) + Word16
      BY <1>1, <1>2
    <2>2. (c + Word16 - n) % Word16 = c - n
      BY <2>1, SmallRemains
    <2>3. (p + n) + (c - n) = p + c
      BY <1>1
    <2>4. QED
      BY <2>1, <2>2, <2>3
  <1>3. CASE n > c
    <2>1. c + Word16 - n \in 0..(Word16 - 1)
      BY <1>1, <1>3
    <2>2. (c + Word16 - n) % Word16 = c + Word16 - n
      BY <2>1, SmallRemains
    <2>3. (p + n) + (c + Word16 - n) = (p + c) + Word16 /\ p + c \in Nat
      BY <1>1
    <2>4. QED
      BY <2>1, <2>2, <2>3, OneWordMore
  <1>4. QED
    BY <1>2, <1>3
(***************************************************************************)
(* The types.                                                              *)
(***************************************************************************)
ControlOK ==
  /\ currentInstruction \in Ours \cup {Other, None} /\ owed \in BOOLEAN
  /\ screen \in {"idle", "frozen", "registerInitial", "registerData", "sign"}
  /\ state \in States

SizesOK ==
  /\ size \in 0..(Word16 - 1) /\ left \in 0..(Word32 - 1)
  /\ declared \in 0..MaxProof /\ viewed \in Nat

HashOK == hash \in Hashes /\ Len(hash.items) <= MaxItems

LEMMA TypeIs == TypeOK <=> ControlOK /\ SizesOK /\ HashOK
  BY DEF TypeOK, ControlOK, SizesOK, HashOK, Hashes

LEMMA HashMade ==
  ASSUME NEW s \in Seq(Pieces)
  PROVE  Hash(s) \in Hashes /\ Hash(s).items = s /\ Hash(s).bytes = NoBytes
  BY DEF Hash, Hashes, NoBytes

LEMMA HashEmpty == Blank \in Hashes /\ Len(Blank.items) = 0 /\ Blank.items = <<>>
  BY EmptySeq, HashMade DEF Blank

LEMMA HashFinal == Finalised \in Hashes /\ Len(Finalised.items) = 1
  BY PieceNames, Single, HashMade DEF Finalised

LEMMA HashedIs ==
  ASSUME hash \in Hashes, NEW name \in Pieces
  PROVE  /\ Hashed(name) \in Hashes /\ Hashed(name).bytes = hash.bytes
         /\ Hashed(name).items = Append(hash.items, name)
         /\ Len(Hashed(name).items) = Len(hash.items) + 1
  <1>1. hash.items \in Seq(Pieces)
    BY DEF Hashes
  <1>2. Append(hash.items, name) \in Seq(Pieces)
        /\ Len(Append(hash.items, name)) = Len(hash.items) + 1
    BY <1>1, AppendProperties
  <1>3. QED
    BY <1>2 DEF Hashed, Hashes

LEMMA DataIs ==
  ASSUME hash \in Hashes, NEW n \in Nat
  PROVE  /\ HashData(n) \in Hashes
         /\ HashData(n).items = Append(hash.items, "data")
         /\ Len(HashData(n).items) = Len(hash.items) + 1
         /\ HashData(n).bytes.data = hash.bytes.data + n
         /\ HashData(n).bytes.dataLength = hash.bytes.dataLength
  <1> DEFINE h == Hashed("data")
  <1>1. /\ h \in Hashes /\ h.bytes = hash.bytes /\ h.items = Append(hash.items, "data")
        /\ Len(h.items) = Len(hash.items) + 1
    BY HashedIs, PieceNames
  <1> DEFINE g == [h EXCEPT !.bytes.data = @ + n]
  <1>2. HashData(n) = g
    BY DEF HashData
  <1> HIDE DEF h
  <1>3. g.items = h.items /\ g.bytes = [h.bytes EXCEPT !.data = @ + n]
    BY <1>1 DEF Hashes
  <1>4. g \in Hashes
    BY <1>1, SMTT(40) DEF Hashes
  <1>5. g.bytes.data = h.bytes.data + n /\ g.bytes.dataLength = h.bytes.dataLength
    BY <1>1, <1>3 DEF Hashes
  <1> HIDE DEF g
  <1>6. QED
    BY <1>1, <1>2, <1>3, <1>4, <1>5

LEMMA ProofIs ==
  ASSUME hash \in Hashes, NEW n \in Nat
  PROVE  /\ HashProof(n) \in Hashes
         /\ HashProof(n).items = Append(hash.items, "proof")
         /\ Len(HashProof(n).items) = Len(hash.items) + 1
         /\ HashProof(n).bytes.proof = hash.bytes.proof + n
  <1> DEFINE h == Hashed("proof")
  <1>1. /\ h \in Hashes /\ h.bytes = hash.bytes /\ h.items = Append(hash.items, "proof")
        /\ Len(h.items) = Len(hash.items) + 1
    BY HashedIs, PieceNames
  <1>2. HashProof(n) = [h EXCEPT !.bytes.proof = @ + n]
    BY DEF HashProof
  <1> HIDE DEF h
  <1>3. QED
    BY <1>1, <1>2, SMTT(40) DEF Hashes

\* What the first command of a registration with n bytes of data hashes.
LEMMA RegisterHead ==
  ASSUME NEW n \in Nat
  PROVE  LET h == [Hash(<<Register, "dataLength">>) EXCEPT !.bytes.dataLength = n] IN
         /\ h \in Hashes /\ h.items = <<Register, "dataLength">> /\ Len(h.items) = 2
         /\ h.bytes.dataLength = n /\ h.bytes.data = 0
  <1> DEFINE s == <<Register, "dataLength">>
  <1>1. s \in Seq(Pieces) /\ Len(s) = 2
    BY PieceNames, Pair DEF Ours
  <1> HIDE DEF s
  <1>2. Hash(s) \in Hashes /\ Hash(s).items = s /\ Hash(s).bytes = NoBytes
    BY <1>1, HashMade
  <1>3. LET h == [Hash(s) EXCEPT !.bytes.dataLength = n] IN
        h \in Hashes /\ h.items = s /\ h.bytes.dataLength = n /\ h.bytes.data = 0
    BY <1>2 DEF Hashes, NoBytes
  <1>4. QED
    BY <1>1, <1>3 DEF s

LEMMA LessType ==
  ASSUME SizesOK, NEW n \in 1..MaxChunk PROVE Less(n) \in 0..(Word32 - 1)
  BY CountedAssumption DEF SizesOK, Less

\* While the reader's counter agrees with the handler's, data accepted moves both.
LEMMA CountersAgree ==
  ASSUME SizesOK, NEW n \in 1..MaxChunk, NEW h \in 1..MaxChunk, h <= n, Data(h, n), left = size
  PROVE  Refuse \/ left' = size'
  <1>1. /\ size \in Nat /\ n \in Nat /\ h \in Nat /\ size >= n /\ size' = size - n
        /\ Less(n) = size - n /\ Less(h) = size - h
    BY CountedAssumption DEF Data, SizesOK, Less
  <1>2. PICK ok \in BOOLEAN :
          /\ IF foundState = "PAYLOAD_START"
               THEN readCborInitial(h, n, ok)
               ELSE ok = (size = n) /\ IF ok THEN readCborContent(n) ELSE UNCHANGED left
          /\ CASE ok /\ size = n  -> Ask(Register, "registerData")
               [] ok /\ size > n  -> AnswerNow(Register)
               [] ~ok             -> Refuse
    BY DEF Data
  <1>3. CASE ~ok
    BY <1>2, <1>3
  <1>4. CASE ok
    <2>1. left' = Less(n) \/ (left' = Less(h) /\ Less(h) = 0)
      BY <1>2, <1>4 DEF readCborInitial, readCborContent
    <2>2. Less(h) = 0 => h = n
      BY <1>1
    <2>3. QED
      BY <1>1, <2>1, <2>2
  <1>5. QED
    BY <1>2, <1>3, <1>4

LEMMA DataEnds ==
  ASSUME SizesOK, NEW n \in 1..MaxChunk, NEW h, Data(h, n)
  PROVE  \/ size' = 0 /\ Ask(Register, "registerData")
         \/ AnswerNow(Register) \/ Refuse
  <1>1. size \in Nat /\ n \in Nat /\ size >= n /\ size' = size - n
    BY CountedAssumption DEF Data, SizesOK
  <1>2. PICK ok \in BOOLEAN :
          CASE ok /\ size = n  -> Ask(Register, "registerData")
            [] ok /\ size > n  -> AnswerNow(Register)
            [] ~ok             -> Refuse
    BY DEF Data
  <1>3. CASE ok /\ size = n
    <2>1. size' = 0 /\ ~(size > n)
      BY <1>1, <1>3
    <2>2. Ask(Register, "registerData")
      BY <1>2, <1>3, <2>1
    <2>3. QED
      BY <2>1, <2>2
  <1>4. CASE ok /\ size > n
    BY <1>1, <1>2, <1>4
  <1>5. CASE ~ok
    BY <1>2, <1>5
  <1>6. QED
    BY <1>1, <1>3, <1>4, <1>5

LEMMA ControlRestart == Restart => ControlOK'
  BY DEF Restart, DeviceRestart, uiIdle, ControlOK, States

LEMMA ControlNext == ControlOK /\ SizesOK /\ [Next]_vars => ControlOK'
  <1> SUFFICES ASSUME ControlOK, SizesOK, [Next]_vars PROVE ControlOK'
    OBVIOUS
  <1> USE DEF ControlOK, States, Ours, Proving
  <1>1. CASE Dispatch
    BY <1>1 DEF Dispatch, BadCommand, SwitchInstruction, Refuse
  <1>2. ASSUME NEW i \in Ours,
               \/ OutOfTurn(i) \/ InitialRefused(i) \/ InitialProving(i) \/ handleRemainingAmount(i)
               \/ \E n \in 0..MaxProof : handleTransferAmountAggIndexProofSize(i, n)
               \/ \E n \in 0..MaxChunk : handleProofs(i, n)
        PROVE  ControlOK'
    BY <1>2
    DEF OutOfTurn, InitialRefused, InitialProving, handleRemainingAmount,
        handleTransferAmountAggIndexProofSize, handleProofs, foundState, Refuse, AnswerNow, Ask
  <1>3. ASSUME NEW n \in 0..(MaxData + 1), InitialMemo(n) \/ InitialRegister(n)
        PROVE  ControlOK'
    BY <1>3 DEF InitialMemo, InitialRegister, Refuse, AnswerNow, Ask
  <1>4. ASSUME NEW n \in 1..MaxChunk, NEW h \in 1..MaxChunk, Data(h, n) \/ Memo(h, n)
        PROVE  ControlOK'
    <2>1. CASE Data(h, n)
      <3>1. Ask(Register, "registerData") \/ AnswerNow(Register) \/ Refuse
        BY <2>1, DataEnds
      <3>2. QED
        BY <2>1, <3>1 DEF Data, Refuse, AnswerNow, Ask
    <2>2. CASE Memo(h, n)
      <3>1. state' \in States /\ (AnswerNow(EncryptedMemo) \/ Refuse)
        BY <2>2 DEF Memo
      <3>2. QED
        BY <3>1 DEF Refuse, AnswerNow
    <2>3. QED
      BY <1>4, <2>1, <2>2
  <1>5. ASSUME NEW n, AmountAndProofSize(n) \/ DataRefused(n) \/ OtherInstruction(n)
        PROVE  ControlOK'
    BY <1>5
    DEF AmountAndProofSize, DataRefused, OtherInstruction, Refuse, AnswerNow, uiIdle
  <1>6. CASE Command
    BY <1>1, <1>2, <1>3, <1>4, <1>5, <1>6, ControlRestart DEF Command, UnsupportedCbor
  <1>7. CASE Button
    BY <1>7, ControlRestart, DeviceAssumption
    DEF Button, PressContinueInitial, PressData, PressSign, PressSignFails, PressDecline,
        PressStray, PressQuit, PressContinue, PressThrow, PressAnswer, LeaveScreen, uiIdle
  <1>8. CASE PowerLost
    BY <1>8, ControlRestart DEF PowerLost
  <1>9. QED
    BY <1>6, <1>7, <1>8 DEF Next, vars, deviceVars

LEMMA SizesRestart == Restart => SizesOK'
  BY CountedAssumption DEF Restart, SizesOK

LEMMA SizesNext == HashOK /\ SizesOK /\ [Next]_vars => SizesOK'
  <1> SUFFICES ASSUME HashOK, SizesOK, [Next]_vars PROVE SizesOK'
    OBVIOUS
  <1>1. CASE Dispatch
    BY <1>1 DEF Dispatch, SizesOK
  <1>2. ASSUME NEW i \in Ours,
               OutOfTurn(i) \/ InitialRefused(i) \/ InitialProving(i) \/ handleRemainingAmount(i)
        PROVE  SizesOK'
    BY <1>2 DEF OutOfTurn, InitialRefused, InitialProving, handleRemainingAmount, SizesOK
  <1>3. ASSUME NEW i \in Ours, NEW n \in 0..MaxProof,
               handleTransferAmountAggIndexProofSize(i, n) \/ AmountAndProofSize(n)
        PROVE  SizesOK'
    BY <1>3, CountedAssumption
    DEF handleTransferAmountAggIndexProofSize, AmountAndProofSize, SizesOK
  <1>4. ASSUME NEW i \in Ours, NEW n \in 0..MaxChunk, handleProofs(i, n)
        PROVE  SizesOK'
    <2>1. n \in 0..(Word16 - 1) /\ size \in 0..(Word16 - 1)
      BY CountedAssumption DEF SizesOK
    <2>2. size' \in 0..(Word16 - 1)
      BY <1>4, <2>1, CountedDown DEF handleProofs
    <2>3. QED
      BY <1>4, <2>2 DEF handleProofs, SizesOK
  <1>5. ASSUME NEW n \in 0..(MaxData + 1), InitialMemo(n) \/ InitialRegister(n)
        PROVE  SizesOK'
    <2>1. n \in 0..(Word16 - 1) /\ n \in 0..(Word32 - 1)
      BY CountedAssumption
    <2>2. QED
      BY <1>5, <2>1 DEF InitialMemo, InitialRegister, SizesOK
  <1>6. ASSUME NEW n \in 1..MaxChunk, NEW h \in 1..MaxChunk, Data(h, n) PROVE SizesOK'
    <2>1. left' \in 0..(Word32 - 1)
      BY <1>6, LessType DEF Data, readCborInitial, readCborContent, SizesOK
    <2>2. size' \in 0..(Word16 - 1)
      BY <1>6, CountedAssumption DEF Data, SizesOK
    <2>3. QED
      BY <1>6, <2>1, <2>2 DEF Data, SizesOK
  <1>7. ASSUME NEW n \in 1..MaxChunk, NEW h \in 1..MaxChunk, Memo(h, n) PROVE SizesOK'
    <2>1. left' \in 0..(Word32 - 1)
      BY <1>7, LessType DEF Memo, readCborInitial, readCborContent, SizesOK
    <2>2. QED
      BY <1>7, <2>1 DEF Memo, SizesOK
  <1>8. ASSUME NEW n \in 1..MaxChunk, DataRefused(n) PROVE SizesOK'
    BY <1>8, CountedAssumption DEF DataRefused, SizesOK
  <1>9. ASSUME NEW junk \in 0..MaxChunk, OtherInstruction(junk) PROVE SizesOK'
    BY <1>9, CountedAssumption DEF OtherInstruction, SizesOK
  <1>10. CASE Command
    BY <1>1, <1>2, <1>3, <1>4, <1>5, <1>6, <1>7, <1>8, <1>9, <1>10, SizesRestart, Kinds
    DEF Command, UnsupportedCbor
  <1>11. CASE Button
    <2>1. hash.bytes.data \in Nat
      BY DEF HashOK, Hashes
    <2>2. QED
      BY <1>11, <2>1, SizesRestart
      DEF Button, PressContinueInitial, PressData, PressSign, PressSignFails, PressDecline,
          PressStray, PressQuit, SizesOK
  <1>12. QED
    BY <1>10, <1>11, SizesRestart DEF Next, PowerLost, vars, SizesOK
LEMMA HashRestart == Restart => HashOK'
  BY HashEmpty, CountedAssumption DEF Restart, HashOK

LEMMA Longer ==
  ASSUME HashOK, Len(hash.items) < MaxItems, NEW h \in Hashes,
         Len(h.items) = Len(hash.items) + 1
  PROVE  h \in Hashes /\ Len(h.items) <= MaxItems
  <1>1. Len(hash.items) \in Nat
    BY LenProperties DEF HashOK, Hashes
  <1>2. QED
    BY <1>1, CountedAssumption

LEMMA HashIs ==
  ASSUME NEW h \in Hashes, Len(h.items) \in 0..2, hash' = h
  PROVE  HashOK'
  <1> DEFINE l == Len(h.items)
  <1>0. l \in 0..2
    OBVIOUS
  <1> HIDE DEF l
  <1>1. l \in Nat /\ l <= 2
    BY <1>0
  <1>2. MaxItems \in Nat /\ 2 <= MaxItems
    BY CountedAssumption
  <1>3. Len(h.items) <= MaxItems
    BY <1>1, <1>2 DEF l
  <1>4. QED
    BY <1>3 DEF HashOK

LEMMA HashOf ==
  ASSUME NEW s \in Seq(Pieces), Len(s) \in 0..2, hash' = Hash(s)
  PROVE  HashOK'
  <1>1. Hash(s) \in Hashes /\ Hash(s).items = s
    BY HashMade
  <1>2. Len(Hash(s).items) \in 0..2
    BY <1>1
  <1>3. QED
    BY <1>1, <1>2, HashIs

LEMMA HashNext == HashOK /\ [Next]_vars => HashOK'
  <1> SUFFICES ASSUME HashOK, [Next]_vars PROVE HashOK'
    OBVIOUS
  <1>0. hash \in Hashes
    BY DEF HashOK
  <1>1. ASSUME NEW i \in Ours, OutOfTurn(i) \/ InitialRefused(i) \/ InitialProving(i)
        PROVE  HashOK'
    <2>1. <<i>> \in Seq(Pieces) /\ Len(<<i>>) = 1
      BY PieceNames, Single
    <2>2. Hash(<<i>>) \in Hashes /\ Len(Hash(<<i>>).items) = 1
      BY <2>1, HashMade
    <2>3. hash' \in {hash, Blank, Hash(<<i>>)}
      BY <1>1 DEF OutOfTurn, InitialRefused, InitialProving
    <2>4. CASE hash' = hash
      BY <2>4 DEF HashOK
    <2>5. CASE hash' = Blank
      BY <2>5, HashEmpty, HashIs
    <2>6. CASE hash' = Hash(<<i>>)
      BY <2>2, <2>6, HashIs
    <2>7. QED
      BY <2>3, <2>4, <2>5, <2>6
  <1>2. ASSUME NEW i \in Ours, NEW n,
               \/ handleRemainingAmount(i) \/ handleTransferAmountAggIndexProofSize(i, n)
               \/ AmountAndProofSize(n)
        PROVE  HashOK'
    <2>1. /\ hash' \in {Hashed("remaining"), Hashed("transfer"), Hashed("amount")}
          /\ Len(hash.items) < MaxItems
      BY <1>2 DEF handleRemainingAmount, handleTransferAmountAggIndexProofSize, AmountAndProofSize,
         InTurn
    <2>2. \A name \in {"remaining", "transfer", "amount"} :
            Hashed(name) \in Hashes /\ Len(Hashed(name).items) = Len(hash.items) + 1
      BY <1>0, HashedIs, PieceNames
    <2>3. QED
      BY <2>1, <2>2, Longer DEF HashOK
  <1>3. ASSUME NEW i \in Ours, NEW n \in 0..MaxChunk, handleProofs(i, n)
        PROVE  HashOK'
    <2>1. hash' = HashProof(n) /\ Len(hash.items) < MaxItems /\ n \in Nat
      BY <1>3, CountedAssumption DEF handleProofs, InTurn
    <2>2. QED
      BY <1>0, <2>1, ProofIs, Longer DEF HashOK
  <1>4. ASSUME NEW n \in 0..(MaxData + 1), InitialMemo(n) PROVE HashOK'
    <2>1. /\ <<EncryptedMemo, "memoLength">> \in Seq(Pieces)
          /\ Len(<<EncryptedMemo, "memoLength">>) = 2
          /\ <<EncryptedMemo>> \in Seq(Pieces) /\ Len(<<EncryptedMemo>>) = 1
      BY PieceNames, Single, Pair, Kinds
    <2> DEFINE s == <<EncryptedMemo, "memoLength">>   t == <<EncryptedMemo>>
    <2>2. hash' = Hash(s) \/ hash' = Hash(t)
      BY <1>4 DEF InitialMemo
    <2>3. s \in Seq(Pieces) /\ Len(s) \in 0..2 /\ t \in Seq(Pieces) /\ Len(t) \in 0..2
      BY <2>1
    <2> HIDE DEF s, t
    <2>4. QED
      BY <2>2, <2>3, HashOf
  <1>5. ASSUME NEW n \in 0..(MaxData + 1), InitialRegister(n) PROVE HashOK'
    <2>1. <<Register>> \in Seq(Pieces) /\ Len(<<Register>>) = 1 /\ n \in Nat
      BY PieceNames, Single, Kinds, CountedAssumption
    <2>2. \/ hash' = [Hash(<<Register, "dataLength">>) EXCEPT !.bytes.dataLength = n]
          \/ hash' = Hash(<<Register>>)
      BY <1>5 DEF InitialRegister
    <2>3. CASE hash' = [Hash(<<Register, "dataLength">>) EXCEPT !.bytes.dataLength = n]
      <3> DEFINE h == [Hash(<<Register, "dataLength">>) EXCEPT !.bytes.dataLength = n]
      <3>1. h \in Hashes /\ Len(h.items) = 2
        BY <2>1, RegisterHead
      <3> HIDE DEF h
      <3>2. Len(h.items) \in 0..2
        BY <3>1
      <3>3. hash' = h
        BY <2>3 DEF h
      <3>4. QED
        BY <3>1, <3>2, <3>3, HashIs
    <2>4. CASE hash' = Hash(<<Register>>)
      <3> DEFINE s == <<Register>>
      <3>1. s \in Seq(Pieces) /\ Len(s) \in 0..2 /\ hash' = Hash(s)
        BY <2>1, <2>4
      <3> HIDE DEF s
      <3>2. QED
        BY <3>1, HashOf
    <2>5. QED
      BY <2>2, <2>3, <2>4
  <1>6. ASSUME NEW n \in 1..MaxChunk, NEW h \in 1..MaxChunk, Data(h, n) \/ DataRefused(n)
        PROVE  HashOK'
    <2>1. hash' = hash \/ (hash' = HashData(n) /\ Len(hash.items) < MaxItems)
      <3>1. Data(h, n) => hash' = HashData(n) /\ Len(hash.items) < MaxItems
        BY DEF Data, InTurn
      <3>2. DataRefused(n) => hash' = hash \/ (hash' = HashData(n) /\ Len(hash.items) < MaxItems)
        <4>1. CASE hash' = hash
          BY <4>1
        <4>2. CASE hash' = HashData(n) /\ InTurn(Register, "INITIAL")
          BY <4>2 DEF InTurn
        <4>3. QED
          BY <4>1, <4>2 DEF DataRefused
      <3>3. QED
        BY <1>6, <3>1, <3>2
    <2>2. QED
      BY <1>0, <2>1, DataIs, Longer, CountedAssumption DEF HashOK
  <1>7. ASSUME NEW n \in 1..MaxChunk, NEW h \in 1..MaxChunk, Memo(h, n) PROVE HashOK'
    <2>1. hash' = Hashed("memo") /\ Len(hash.items) < MaxItems /\ "memo" \in Pieces
      BY <1>7, PieceNames DEF Memo, InTurn
    <2>2. QED
      BY <1>0, <2>1, HashedIs, Longer DEF HashOK
  <1>8. CASE Dispatch \/ \E junk \in 0..MaxChunk : OtherInstruction(junk)
    BY <1>8, HashEmpty, CountedAssumption DEF Dispatch, OtherInstruction, HashOK
  <1>9. CASE Command
    <2>1. ASSUME NEW n, AmountAndProofSize(n) PROVE HashOK'
      BY <1>2, <2>1, Kinds
    <2>2. QED
      BY <1>1, <1>2, <1>3, <1>4, <1>5, <1>6, <1>7, <1>8, <1>9, <2>1, HashRestart, CountedAssumption
      DEF Command, UnsupportedCbor
  <1>10. CASE Button \/ PowerLost \/ UNCHANGED vars
    <2>1. hash' = hash \/ hash' = Finalised \/ Restart
      BY <1>10
      DEF Button, PressContinueInitial, PressData, PressSign, PressSignFails, PressDecline,
          PressStray, PressQuit, PowerLost, vars
    <2>2. hash' = hash => HashOK'
      BY DEF HashOK
    <2>3. hash' = Finalised => HashOK'
      BY HashFinal, HashIs
    <2>4. QED
      BY <2>1, <2>2, <2>3, HashRestart
  <1>11. QED
    BY <1>9, <1>10 DEF Next

LEMMA TypeInit == Init => TypeOK
  <1> SUFFICES ASSUME Init PROVE ControlOK /\ SizesOK /\ HashOK
    BY TypeIs
  <1>1. ControlOK
    BY DEF Init, DeviceInit, ControlOK, States
  <1>2. HashOK
    BY HashEmpty, CountedAssumption DEF Init, HashOK
  <1>3. SizesOK
    BY CountedAssumption DEF Init, SizesOK
  <1>4. QED
    BY <1>1, <1>2, <1>3

LEMMA TypeNext == TypeOK /\ [Next]_vars => TypeOK'
  <1>1. TypeOK' <=> ControlOK' /\ SizesOK' /\ HashOK'
    BY DEF TypeOK, ControlOK, SizesOK, HashOK, Hashes
  <1>2. QED
    BY <1>1, TypeIs, ControlNext, SizesNext, HashNext

(***************************************************************************)
(* The invariant, action by action.                                        *)
(***************************************************************************)
\* No instruction of this module is in progress.
LEMMA AwayInv == ASSUME currentInstruction' \notin Ours, DialogInv' PROVE StepInv'
  BY Kinds DEF StepInv, RegisterInv, ProvingInv

LEMMA RefuseInv == ASSUME StepInv, ~owed, Refuse PROVE StepInv'
  BY AwayInv, Kinds DEF Refuse, StepInv, DialogInv

LEMMA IdleInv == ASSUME uiIdle, owed' = FALSE PROVE StepInv'
  BY AwayInv, Kinds DEF uiIdle, DialogInv

LEMMA RestartInv == ASSUME Restart PROVE StepInv'
  BY IdleInv DEF Restart, DeviceRestart

\* A command answered at once, of a transfer with a proof.
LEMMA AnswerInv ==
  ASSUME StepInv, ~owed, NEW i \in Proving, AnswerNow(i), ProvingInv'
  PROVE  StepInv'
  <1>1. currentInstruction' = i /\ owed' = FALSE /\ screen' = screen
    BY DEF AnswerNow
  <1>2. DialogInv' /\ RegisterInv'
    BY <1>1, Kinds DEF StepInv, DialogInv, RegisterInv
  <1>3. QED
    BY <1>2 DEF StepInv

\* A command that is not a first one finds its instruction in progress.
LEMMA InProgress ==
  ASSUME StepInv, NEW i \in Ours, Accepts(i), foundState # "INITIAL"
  PROVE  /\ currentInstruction = i /\ state = foundState /\ ~owed
         /\ screen # "registerData"
         /\ i = Register => RegisterInv /\ state \in {"PAYLOAD_START", "PAYLOAD"}
         /\ i \in Proving => \E m \in Nat : OpeningInv(m) \/ ProofInv(m)
  BY Kinds DEF Accepts, foundState, isInitialCall, StepInv, DialogInv, RegisterInv, ProvingInv

LEMMA InitialProvingInv ==
  ASSUME TypeOK, StepInv, NEW i \in Ours, InitialProving(i) PROVE StepInv'
  <1>1. /\ i \in Proving /\ i \in {ToPublic, Encrypted} /\ ~owed /\ AnswerNow(i)
        /\ currentInstruction' = i /\ state' = "REMAINING_AMOUNT" /\ hash' = Hash(<<i>>)
    BY Kinds DEF InitialProving, InTurn, Accepts, AnswerNow
  <1>2. hash'.items = Opening(i, 0) /\ hash'.bytes.proof = 0
    BY <1>1, OpeningBegins DEF Hash, NoBytes
  <1>3. OpeningInv(0)'
    BY <1>1, <1>2 DEF OpeningInv
  <1>4. ProvingInv'
    BY <1>3 DEF ProvingInv
  <1>5. QED
    BY <1>1, <1>4, AnswerInv

LEMMA InitialMemoInv ==
  ASSUME TypeOK, StepInv, NEW n \in 0..(MaxData + 1), InitialMemo(n) PROVE StepInv'
  <1>1. ~owed
    BY DEF InitialMemo, InTurn, Accepts
  <1>2. CASE ~(n <= MaxData)
    BY <1>1, <1>2, RefuseInv DEF InitialMemo
  <1>3. CASE n <= MaxData
    <2>1. /\ AnswerNow(EncryptedMemo) /\ currentInstruction' = EncryptedMemo
          /\ state' = "MEMO_START" /\ hash' = Hash(<<EncryptedMemo, "memoLength">>)
      BY <1>3 DEF InitialMemo, AnswerNow
    <2>2. hash'.items = Opening(EncryptedMemo, 0) /\ hash'.bytes.proof = 0
      BY <2>1, OpeningBegins DEF Hash, NoBytes
    <2>3. OpeningInv(0)'
      BY <2>1, <2>2 DEF OpeningInv
    <2>4. ProvingInv' /\ EncryptedMemo \in Proving
      BY <2>3, Kinds DEF ProvingInv
    <2>5. QED
      BY <1>1, <2>1, <2>4, AnswerInv
  <1>4. QED
    BY <1>2, <1>3

LEMMA InitialRegisterInv ==
  ASSUME TypeOK, StepInv, NEW n \in 0..(MaxData + 1), InitialRegister(n) PROVE StepInv'
  <1>1. ~owed /\ size' = n /\ n \in Nat
    BY CountedAssumption DEF InitialRegister, InTurn, Accepts
  <1>2. CASE ~(n <= MaxData)
    BY <1>1, <1>2, RefuseInv DEF InitialRegister
  <1>3. CASE n <= MaxData
    <2>1. /\ currentInstruction' = Register /\ owed' = TRUE /\ screen' = "registerInitial"
          /\ state' = "PAYLOAD_START" /\ left' = n
          /\ hash' = [Hash(<<Register, "dataLength">>) EXCEPT !.bytes.dataLength = n]
      BY <1>3 DEF InitialRegister, Ask
    <2>2. /\ hash'.items = Payload(Register, 0, 0)
          /\ hash'.bytes.dataLength = n /\ hash'.bytes.data = 0
      BY <1>1, <2>1, RegisterHead, OpeningBegins
    <2>3. RegisterInv'
      BY <1>1, <2>1, <2>2 DEF RegisterInv
    <2>4. DialogInv' /\ ProvingInv'
      BY <2>1, Kinds DEF DialogInv, ProvingInv
    <2>5. QED
      BY <2>3, <2>4 DEF StepInv
  <1>4. QED
    BY <1>2, <1>3

LEMMA DataInv ==
  ASSUME TypeOK, StepInv, NEW n \in 1..MaxChunk, NEW h \in 1..MaxChunk, h <= n, Data(h, n)
  PROVE  StepInv'
  <1>1. /\ Accepts(Register) /\ foundState # "INITIAL" /\ size >= n /\ n \in Nat
        /\ size' = size - n /\ hash' = HashData(n) /\ state' = "PAYLOAD"
    BY CountedAssumption DEF Data, InTurn
  <1>2. /\ currentInstruction = Register /\ ~owed /\ screen # "registerData" /\ RegisterInv
    BY <1>1, InProgress, Kinds
  <1>3. /\ hash \in Hashes /\ SizesOK /\ size \in Nat /\ hash.bytes.data \in Nat
        /\ hash.bytes.dataLength \in Nat
    BY TypeIs DEF HashOK, SizesOK, Hashes
  <1>4. /\ hash'.items = Append(hash.items, "data")
        /\ hash'.bytes.data = hash.bytes.data + n
        /\ hash'.bytes.dataLength = hash.bytes.dataLength
    BY <1>1, <1>3, DataIs
  <1>5. \E k \in Nat : hash'.items = Payload(Register, 0, k)
    <2>1. PICK k \in Nat : hash.items = Payload(Register, 0, k)
      BY <1>2 DEF RegisterInv
    <2>2. hash'.items = Payload(Register, 0, k + 1)
      BY <1>4, <2>1, CountedFollows, Kinds DEF Counted
    <2>3. QED
      BY <2>2
  <1>6. hash'.bytes.data + size' = hash'.bytes.dataLength
    BY <1>1, <1>2, <1>3, <1>4 DEF RegisterInv
  <1>7. CASE Refuse
    BY <1>2, <1>7, RefuseInv
  <1>8. Refuse \/ left' = size'
    BY <1>2, <1>3, CountersAgree DEF RegisterInv
  <1>9. CASE left' = size' /\ size' = 0 /\ Ask(Register, "registerData")
    <2>1. currentInstruction' = Register /\ owed' = TRUE /\ screen' = "registerData"
      BY <1>9 DEF Ask
    <2>2. RegisterInv'
      BY <1>1, <1>5, <1>6, <1>9, <2>1 DEF RegisterInv
    <2>3. DialogInv' /\ ProvingInv'
      BY <2>1, Kinds DEF DialogInv, ProvingInv
    <2>4. QED
      BY <2>2, <2>3 DEF StepInv
  <1>10. CASE left' = size' /\ AnswerNow(Register)
    <2>1. currentInstruction' = Register /\ owed' = FALSE /\ screen' = screen
      BY <1>10 DEF AnswerNow
    <2>2. RegisterInv'
      BY <1>1, <1>5, <1>6, <1>10, <2>1 DEF RegisterInv
    <2>3. DialogInv' /\ ProvingInv'
      BY <1>2, <2>1, Kinds DEF DialogInv, ProvingInv
    <2>4. QED
      BY <2>2, <2>3 DEF StepInv
  <1>11. QED
    BY <1>3, <1>7, <1>8, <1>9, <1>10, DataEnds

LEMMA PressContinueInitialInv ==
  ASSUME TypeOK, StepInv, PressContinueInitial PROVE StepInv'
  <1>1. /\ screen = "registerInitial" /\ owed /\ owed' = FALSE
        /\ currentInstruction' = currentInstruction
        /\ UNCHANGED <<hash, state, size, left, viewed>>
    BY DEF PressContinueInitial, PressContinue
  <1>2. screen' \in {"registerInitial", "frozen"}
    BY <1>1 DEF PressContinueInitial, PressContinue, LeaveScreen
  <1>3. currentInstruction = Register
    BY <1>1 DEF StepInv, DialogInv
  <1>4. QED
    BY <1>1, <1>2, <1>3, Kinds DEF StepInv, DialogInv, RegisterInv, ProvingInv

LEMMA PressDataInv ==
  ASSUME TypeOK, StepInv, PressData PROVE StepInv'
  <1>1. /\ owed /\ currentInstruction = Register /\ size = 0
        /\ UNCHANGED <<hash, state, size, left, declared>> /\ viewed' = hash.bytes.data
    BY DEF PressData, StepInv, DialogInv, RegisterInv
  <1>2. screen' = "sign" /\ UNCHANGED <<currentInstruction, owed, reply>>
    BY <1>1 DEF PressData
  <1>3. QED
    BY <1>1, <1>2, Kinds DEF StepInv, DialogInv, RegisterInv, ProvingInv

LEMMA MemoInv ==
  ASSUME TypeOK, StepInv, NEW n \in 1..MaxChunk, NEW h \in 1..MaxChunk, Memo(h, n)
  PROVE  StepInv'
  <1>1. /\ Accepts(EncryptedMemo) /\ foundState \in {"MEMO_START", "MEMO"}
        /\ hash' = Hashed("memo")
    BY DEF Memo, InTurn
  <1>2. /\ currentInstruction = EncryptedMemo /\ ~owed /\ state \in {"MEMO_START", "MEMO"}
        /\ \E m \in Nat : OpeningInv(m) \/ ProofInv(m)
    BY <1>1, InProgress, Kinds
  <1>3. CASE Refuse
    BY <1>2, <1>3, RefuseInv
  <1>4. CASE AnswerNow(EncryptedMemo) /\ state' \in {"REMAINING_AMOUNT", "MEMO"}
    <2>1. PICK m \in Nat : OpeningInv(m)
      BY <1>2 DEF ProofInv
    <2>2. hash.items = Opening(EncryptedMemo, m) /\ hash.bytes.proof = 0
      BY <1>2, <2>1 DEF OpeningInv
    <2>3. hash'.items = Append(hash.items, "memo") /\ hash'.bytes = hash.bytes
      BY <1>1, HashedIs, TypeIs, PieceNames DEF HashOK
    <2>4. hash'.items = Opening(EncryptedMemo, m + 1) /\ hash'.bytes.proof = 0
      BY <2>2, <2>3, MemoFollows
    <2>5. currentInstruction' = EncryptedMemo
      BY <1>4 DEF AnswerNow
    <2>6. OpeningInv(m + 1)'
      BY <1>4, <2>4, <2>5 DEF OpeningInv
    <2>7. ProvingInv' /\ EncryptedMemo \in Proving
      BY <2>6, Kinds DEF ProvingInv
    <2>8. QED
      BY <1>2, <1>4, <2>7, AnswerInv
  <1>5. QED
    BY <1>3, <1>4 DEF Memo

\* The size of the proof follows the last amount.
LEMMA ProofSizeInv ==
  ASSUME TypeOK, NEW k \in Proving, NEW m \in Nat, NEW n \in Nat,
         currentInstruction' = k, state' = "PROOF", size' = n, declared' = n,
         hash'.items = Payload(k, m, 0), hash'.bytes.proof = 0
  PROVE  ProvingInv'
  <1>1. hash'.bytes.proof + size' = declared'
    OBVIOUS
  <1>2. ProofInv(m)'
    BY <1>1 DEF ProofInv
  <1>3. QED
    BY <1>2 DEF ProvingInv

LEMMA AmountAndProofSizeInv ==
  ASSUME TypeOK, StepInv, NEW n \in 0..MaxProof, AmountAndProofSize(n) PROVE StepInv'
  <1>1. /\ Accepts(ToPublic) /\ foundState = "REMAINING_AMOUNT" /\ hash' = Hashed("amount")
        /\ size' = n /\ declared' = n /\ state' = "PROOF" /\ AnswerNow(ToPublic) /\ n \in Nat
    BY CountedAssumption DEF AmountAndProofSize, InTurn
  <1>2. /\ currentInstruction = ToPublic /\ ~owed /\ state = "REMAINING_AMOUNT"
        /\ \E m \in Nat : OpeningInv(m) \/ ProofInv(m)
    BY <1>1, InProgress, Kinds
  <1>3. PICK m \in Nat : OpeningInv(m)
    BY <1>2 DEF ProofInv
  <1>4. hash.items = Opening(ToPublic, m) /\ hash.bytes.proof = 0
    BY <1>2, <1>3 DEF OpeningInv
  <1>5. hash'.items = Append(hash.items, "amount") /\ hash'.bytes = hash.bytes
    BY <1>1, HashedIs, TypeIs, PieceNames DEF HashOK
  <1>6. hash'.items = Payload(ToPublic, m, 0) /\ hash'.bytes.proof = 0
    BY <1>4, <1>5, AmountFollows
  <1>7. currentInstruction' = ToPublic /\ ToPublic \in Proving
    BY <1>1, Kinds DEF AnswerNow
  <1>8. ProvingInv'
    BY <1>1, <1>6, <1>7, ProofSizeInv
  <1>9. QED
    BY <1>1, <1>2, <1>7, <1>8, AnswerInv

LEMMA RemainingAmountInv ==
  ASSUME TypeOK, StepInv, NEW i \in Ours, handleRemainingAmount(i) PROVE StepInv'
  <1>1. /\ Accepts(i) /\ foundState = "REMAINING_AMOUNT" /\ hash' = Hashed("remaining")
        /\ state' = "TRANSFER_AMOUNT" /\ AnswerNow(i) /\ i \in Proving /\ i # ToPublic
    BY Kinds DEF handleRemainingAmount, InTurn
  <1>2. /\ currentInstruction = i /\ ~owed /\ state = "REMAINING_AMOUNT"
        /\ \E m \in Nat : OpeningInv(m) \/ ProofInv(m)
    BY <1>1, InProgress
  <1>3. PICK m \in Nat : OpeningInv(m)
    BY <1>2 DEF ProofInv
  <1>4. hash.items = Opening(i, m) /\ hash.bytes.proof = 0
    BY <1>2, <1>3 DEF OpeningInv
  <1>5. hash'.items = Append(hash.items, "remaining") /\ hash'.bytes = hash.bytes
    BY <1>1, HashedIs, TypeIs, PieceNames DEF HashOK
  <1>6. currentInstruction' = i
    BY <1>1 DEF AnswerNow
  <1>7. OpeningInv(m)'
    BY <1>1, <1>4, <1>5, <1>6 DEF OpeningInv
  <1>8. ProvingInv'
    BY <1>7 DEF ProvingInv
  <1>9. QED
    BY <1>1, <1>2, <1>8, AnswerInv

LEMMA TransferAmountInv ==
  ASSUME TypeOK, StepInv, NEW i \in Ours, NEW n \in 0..MaxProof,
         handleTransferAmountAggIndexProofSize(i, n)
  PROVE  StepInv'
  <1>1. /\ Accepts(i) /\ foundState = "TRANSFER_AMOUNT" /\ hash' = Hashed("transfer")
        /\ size' = n /\ declared' = n /\ state' = "PROOF" /\ AnswerNow(i) /\ n \in Nat
        /\ i \in Proving /\ i # ToPublic
    BY Kinds, CountedAssumption DEF handleTransferAmountAggIndexProofSize, InTurn
  <1>2. /\ currentInstruction = i /\ ~owed /\ state = "TRANSFER_AMOUNT"
        /\ \E m \in Nat : OpeningInv(m) \/ ProofInv(m)
    BY <1>1, InProgress
  <1>3. PICK m \in Nat : OpeningInv(m)
    BY <1>2 DEF ProofInv
  <1>4. hash.items = Append(Opening(i, m), "remaining") /\ hash.bytes.proof = 0
    BY <1>2, <1>3 DEF OpeningInv
  <1>5. hash'.items = Append(hash.items, "transfer") /\ hash'.bytes = hash.bytes
    BY <1>1, HashedIs, TypeIs, PieceNames DEF HashOK
  <1>6. hash'.items = Payload(i, m, 0) /\ hash'.bytes.proof = 0
    BY <1>1, <1>4, <1>5, TransferFollows
  <1>7. currentInstruction' = i
    BY <1>1 DEF AnswerNow
  <1>8. ProvingInv'
    BY <1>1, <1>6, <1>7, ProofSizeInv
  <1>9. QED
    BY <1>1, <1>2, <1>8, AnswerInv

LEMMA ProofsInv ==
  ASSUME TypeOK, StepInv, NEW i \in Ours, NEW n \in 0..MaxChunk, handleProofs(i, n)
  PROVE  StepInv'
  <1>1. /\ Accepts(i) /\ foundState = "PROOF" /\ hash' = HashProof(n) /\ i \in Proving
        /\ size' = (size + Word16 - n) % Word16 /\ UNCHANGED <<state, left, declared, viewed>>
    BY DEF handleProofs, InTurn
  <1>2. /\ currentInstruction = i /\ ~owed /\ state = "PROOF"
        /\ \E m \in Nat : OpeningInv(m) \/ ProofInv(m)
    BY <1>1, InProgress
  <1>3. PICK m \in Nat : ProofInv(m)
    BY <1>2 DEF OpeningInv
  <1>4. PICK k \in Nat : hash.items = Payload(i, m, k)
    BY <1>2, <1>3 DEF ProofInv
  <1>5. hash \in Hashes /\ hash.bytes.proof \in Nat /\ size \in 0..(Word16 - 1)
        /\ n \in 0..(Word16 - 1) /\ n \in Nat
    BY TypeIs, CountedAssumption DEF HashOK, Hashes, SizesOK
  <1>6. /\ hash'.items = Append(hash.items, "proof")
        /\ hash'.bytes.proof = hash.bytes.proof + n
    BY <1>1, <1>5, ProofIs
  <1>7. hash'.items = Payload(i, m, k + 1)
    BY <1>1, <1>4, <1>6, CountedFollows, Kinds, ZenonT(60) DEF Counted
  <1>8. (hash'.bytes.proof + size') % Word16 = declared' % Word16
    <2>1. (hash'.bytes.proof + size') % Word16 = (hash.bytes.proof + size) % Word16
      BY <1>1, <1>5, <1>6, CountedDown
    <2>2. QED
      BY <1>1, <1>3, <2>1 DEF ProofInv
  <1>9. CASE size' = 0 /\ Ask(i, "sign")
    <2>1. currentInstruction' = i /\ owed' = TRUE /\ screen' = "sign" /\ state' = "PROOF"
      BY <1>1, <1>2, <1>9 DEF Ask
    <2>2. ProofInv(m)'
      BY <1>7, <1>8, <2>1 DEF ProofInv
    <2>3. DialogInv' /\ RegisterInv' /\ ProvingInv'
      BY <1>1, <1>9, <2>1, <2>2, Kinds DEF DialogInv, RegisterInv, ProvingInv
    <2>4. QED
      BY <2>3 DEF StepInv
  <1>10. CASE AnswerNow(i)
    <2>1. currentInstruction' = i /\ state' = "PROOF"
      BY <1>1, <1>2, <1>10 DEF AnswerNow
    <2>2. ProofInv(m)'
      BY <1>7, <1>8, <2>1 DEF ProofInv
    <2>3. ProvingInv'
      BY <2>2 DEF ProvingInv
    <2>4. QED
      BY <1>1, <1>2, <1>10, <2>3, AnswerInv
  <1>11. QED
    BY <1>9, <1>10 DEF handleProofs

LEMMA SignFailsInv == ASSUME StepInv, PressSignFails PROVE StepInv'
  <1>1. screen = "sign" /\ screen' \in {"sign", "frozen"}
    BY DEF PressSignFails, PressThrow, LeaveScreen
  <1>2. currentInstruction' = None /\ hash' = Finalised
    BY DEF PressSignFails, PressThrow
  <1>3. DialogInv'
    BY <1>1, <1>2 DEF DialogInv
  <1>4. QED
    BY <1>2, <1>3, AwayInv, Kinds

LEMMA StepNext == TypeOK /\ StepInv /\ [Next]_vars => StepInv'
  <1> SUFFICES ASSUME TypeOK, StepInv, [Next]_vars PROVE StepInv'
    OBVIOUS
  <1>1. CASE Dispatch
    BY <1>1, RefuseInv DEF Dispatch, BadCommand, SwitchInstruction
  <1>2. ASSUME NEW i \in Ours, OutOfTurn(i) \/ InitialRefused(i) PROVE StepInv'
    BY <1>2, RefuseInv DEF OutOfTurn, InitialRefused, InTurn, Accepts
  <1>3. ASSUME NEW n, DataRefused(n) PROVE StepInv'
    BY <1>3, RefuseInv DEF DataRefused, InTurn, Accepts
  <1>4. ASSUME NEW junk, OtherInstruction(junk) PROVE StepInv'
    <2>1. CASE uiIdle /\ owed' = FALSE
      BY <2>1, IdleInv
    <2>2. CASE AnswerNow(Other)
      <3>1. ~owed
        BY <1>4 DEF OtherInstruction, Accepts
      <3>2. currentInstruction' = Other /\ owed' = FALSE /\ screen' = screen
        BY <2>2 DEF AnswerNow
      <3>3. DialogInv'
        BY <3>1, <3>2 DEF StepInv, DialogInv
      <3>4. QED
        BY <3>2, <3>3, AwayInv, Kinds
    <2>3. QED
      BY <1>4, <2>1, <2>2 DEF OtherInstruction
  <1>5. CASE Command
    BY <1>1, <1>2, <1>3, <1>4, <1>5, InitialProvingInv, InitialMemoInv, InitialRegisterInv, DataInv,
       MemoInv, AmountAndProofSizeInv, RemainingAmountInv, TransferAmountInv, ProofsInv, RestartInv
    DEF Command, UnsupportedCbor
  <1>6. CASE PressSign \/ PressDecline \/ PressStray \/ PressQuit \/ PowerLost
    BY <1>6, IdleInv, RestartInv
    DEF PressSign, PressDecline, PressStray, PressQuit, PowerLost, PressAnswer
  <1>7. CASE UNCHANGED vars
    BY <1>7 DEF vars, deviceVars, StepInv, DialogInv, RegisterInv, ProvingInv, OpeningInv, ProofInv
  <1>8. QED
    BY <1>5, <1>6, <1>7, PressContinueInitialInv, PressDataInv, SignFailsInv DEF Next, Button

LEMMA StepInit == Init => StepInv
  BY Kinds DEF Init, DeviceInit, StepInv, DialogInv, RegisterInv, ProvingInv
(***************************************************************************)
(* What a signature is worth.                                              *)
(***************************************************************************)
\* The signature made now is over one transaction, counted, and viewed.
LEMMA SignatureMade ==
  ASSUME TypeOK, StepInv, PressSign PROVE SignedInv'
  <1>1. owed /\ screen = "sign" /\ reply' = Signature
    BY DEF PressSign, PressAnswer
  <1>2. /\ Signature.over = hash /\ Signature.declared = declared
        /\ Signature.viewed = viewed /\ Signature.left = left /\ Signature.kind = "signature"
    BY DEF Signature
  <1>3. CASE hash = Finalised
    BY <1>1, <1>2, <1>3
    DEF SignedInv, SignedIsOneTransaction, DataIsWholeAndViewed, ProofIsCounted, Signed
  <1>4. HashOK /\ Len(hash.items) \in Nat /\ hash.bytes.proof \in Nat /\ MaxItems \in Nat
    BY TypeIs, LenProperties, CountedAssumption DEF HashOK, Hashes
  <1>5. CASE currentInstruction = Register
    <2>1. PICK n \in Nat : hash.items = Payload(Register, 0, n)
      BY <1>5 DEF StepInv, RegisterInv
    <2>2. hash.items[1] = Register /\ n \in 0..MaxItems /\ 0 \in 0..MaxItems
      <3> DEFINE z == 0
      <3>1. Register \in Ours /\ z \in Nat /\ hash.items = Payload(Register, z, n)
        BY <2>1, Kinds
      <3> HIDE DEF z
      <3>2. hash.items[1] = Register /\ Len(hash.items) >= n
        BY <2>1, <3>1, PayloadType
      <3>3. Len(hash.items) <= MaxItems
        BY <1>4 DEF HashOK
      <3>4. QED
        BY <1>4, <2>1, <3>2, <3>3
    <2>3. /\ hash.bytes.data + size = hash.bytes.dataLength /\ size = 0 /\ left = 0
          /\ viewed = hash.bytes.data
      BY <1>1, <1>5 DEF StepInv, RegisterInv
    <2>4. hash.bytes.data = hash.bytes.dataLength
      BY <2>3, TypeIs DEF HashOK, Hashes
    <2>5. \E kind \in Ours, m, k \in 0..MaxItems : hash.items = Payload(kind, m, k)
      BY <2>1, <2>2, Kinds
    <2>6. QED
      BY <1>1, <1>2, <2>2, <2>3, <2>4, <2>5, Kinds
      DEF SignedInv, SignedIsOneTransaction, DataIsWholeAndViewed, ProofIsCounted
  <1>6. CASE currentInstruction \in Proving
    <2>1. state = "PROOF" /\ size = 0
      BY <1>1, <1>6, Kinds DEF StepInv, DialogInv
    <2> DEFINE k == currentInstruction
    <2>2. PICK m \in Nat : ProofInv(m)
      BY <1>6, <2>1 DEF StepInv, ProvingInv, OpeningInv
    <2>3. PICK n \in Nat : hash.items = Payload(k, m, n)
      BY <2>2 DEF ProofInv
    <2>4. k \in Ours /\ k # Register
      BY <1>6, Kinds
    <2>5. /\ hash.items[1] = k /\ n \in 0..MaxItems /\ 0 \in 0..MaxItems
          /\ k = EncryptedMemo => m \in 0..MaxItems
      BY <1>4, <2>3, <2>4, PayloadType DEF HashOK
    <2>6. k # EncryptedMemo => Payload(k, m, n) = Payload(k, 0, n)
      BY DEF Payload, Opening
    <2>7. \E kind \in Ours, i, j \in 0..MaxItems : hash.items = Payload(kind, i, j)
      BY <2>3, <2>4, <2>5, <2>6
    <2>8. hash.bytes.proof % Word16 = declared % Word16
      BY <1>4, <2>1, <2>2 DEF ProofInv
    <2>9. QED
      BY <1>1, <1>2, <2>4, <2>5, <2>7, <2>8
      DEF SignedInv, SignedIsOneTransaction, DataIsWholeAndViewed, ProofIsCounted
  <1>7. QED
    BY <1>1, <1>3, <1>5, <1>6 DEF StepInv, DialogInv

\* Any other step leaves the last reply or replaces it by one without signature.
LEMMA ReplyNext ==
  ASSUME TypeOK, [Next]_vars
  PROVE  \/ reply' = reply
         \/ reply' \in {Success, Refusal, Rejection, NoReply}
         \/ PressSign
  <1> USE DEF AnswerNow, Ask, Refuse
  <1>1. CASE Command
    <2>1. ASSUME NEW h, NEW n \in 1..MaxChunk, Data(h, n)
          PROVE  reply' \in {reply, Success, Refusal}
      <3>1. Ask(Register, "registerData") \/ AnswerNow(Register) \/ Refuse
        BY <2>1, TypeIs, DataEnds
      <3>2. QED
        BY <3>1
    <2>2. QED
      BY <1>1, <2>1
      DEF Command, Dispatch, BadCommand, SwitchInstruction, OutOfTurn, InitialRefused,
          InitialProving, handleRemainingAmount, handleTransferAmountAggIndexProofSize,
          handleProofs, InitialMemo, InitialRegister, AmountAndProofSize, Memo, DataRefused,
          UnsupportedCbor, Restart, DeviceRestart, OtherInstruction
  <1>2. CASE Button
    BY <1>2
    DEF Button, PressContinueInitial, PressData, PressSignFails, PressDecline, PressStray,
        PressQuit,
        PressContinue, PressThrow, PressAnswer, Restart, DeviceRestart
  <1>3. CASE PowerLost \/ UNCHANGED vars
    BY <1>3 DEF PowerLost, Restart, DeviceRestart, vars, deviceVars
  <1>4. QED
    BY <1>1, <1>2, <1>3 DEF Next

LEMMA SignedNext ==
  ASSUME TypeOK, StepInv, SignedInv, [Next]_vars PROVE SignedInv'
  <1>1. CASE reply' = reply
    BY <1>1
    DEF SignedInv, SignedIsOneTransaction, DataIsWholeAndViewed, ProofIsCounted, Signed
  <1>2. CASE reply' \in {Success, Refusal, Rejection, NoReply}
    BY <1>2
    DEF SignedInv, SignedIsOneTransaction, DataIsWholeAndViewed, ProofIsCounted, Signed,
        Success, Refusal, Rejection, NoReply
  <1>3. QED
    BY <1>1, <1>2, ReplyNext, SignatureMade

LEMMA SignedInit == Init => SignedInv
  BY DEF Init, DeviceInit, NoReply, SignedInv, SignedIsOneTransaction, DataIsWholeAndViewed,
     ProofIsCounted, Signed

LEMMA CountedCorrect == Spec => []CountedInv
  <1>1. Init => CountedInv
    BY TypeInit, StepInit, SignedInit DEF CountedInv
  <1>2. CountedInv /\ [Next]_vars => CountedInv'
    BY TypeNext, StepNext, SignedNext DEF CountedInv
  <1>3. QED
    BY <1>1, <1>2, PTL DEF Spec

(***************************************************************************)
(* The theorems.                                                           *)
(***************************************************************************)
\* Every variable keeps to the values its C type and the handlers allow.
THEOREM CountedTypeCorrect == Spec => []TypeOK
  BY CountedCorrect, PTL DEF CountedInv

\* A signature covers the pieces of one transaction of its kind, in their order.
THEOREM OneTransaction == Spec => []SignedIsOneTransaction
  <1>1. CountedInv => SignedIsOneTransaction
    BY DEF CountedInv, SignedInv
  <1>2. QED
    BY <1>1, CountedCorrect, PTL

\* Registered data has the length signed before it, in dataLength and in cborLength,
\* and all of it had come when the user left the step that shows it.
THEOREM DataWholeAndViewed == Spec => []DataIsWholeAndViewed
  <1>1. CountedInv => DataIsWholeAndViewed
    BY DEF CountedInv, SignedInv
  <1>2. QED
    BY <1>1, CountedCorrect, PTL

\* The proof under a signature has the announced size, up to multiples of the word,
\* although no handler ever finds the counter below zero.
THEOREM ProofCounted == Spec => []ProofIsCounted
  <1>1. CountedInv => ProofIsCounted
    BY DEF CountedInv, SignedInv
  <1>2. QED
    BY <1>1, CountedCorrect, PTL
=============================================================================
