----------------------------- MODULE Conversions -----------------------------
(***************************************************************************)
(* How the app turns numbers and addresses into text                       *)
(* (src/src/common/numberHelpers.c, base58check.c, util.c).                *)
(*                                                                         *)
(* A number is the sequence of its decimal digits, most significant first: *)
(* 64 bits are twenty of them.  A text is the characters a conversion      *)
(* wrote: digits, commas and dots, spaces, and Mark for any other.  Its    *)
(* terminator is not among them. A conversion that throws yields Thrown.   *)
(***************************************************************************)
EXTENDS Integers, Sequences, SequencesExt, FiniteSetsExt

CONSTANTS
  InBase,        \* 256: an address is a number in this base,
  OutBase,       \* 58: shown in this one
  PageSize,      \* 10: characters between two spaces
  AddressBytes   \* 37: the version byte 1, the address, its checksum

ASSUME ConversionAssumption ==
  /\ InBase \in Nat \ {0, 1} /\ OutBase \in Nat \ {0, 1}
  /\ PageSize \in Nat \ {0} /\ AddressBytes \in Nat \ {0}

\* A number as the app prints it, of at most so many digits.
IsNumber(n, size) ==
  n \in Seq(0..9) /\ Len(n) \in 1..size /\ (Len(n) > 1 => n[1] # 0)

Zero   == <<0>>
Mark   == -1
Comma  == -2
Dot    == -3
Space  == -4
Thrown == <<>>

Repeat(c, n)       == [k \in 1..n |-> c]
WithZeroes(c, n)   == <<c>> \o Repeat(0, n)
Behind(head, text) == IF text = Thrown THEN Thrown ELSE head \o text

Nonzero(digits) == {k \in 1..Len(digits) : digits[k] # 0}
WithoutHead(digits) ==
  IF Nonzero(digits) = {} THEN Zero ELSE SubSeq(digits, Min(Nonzero(digits)), Len(digits))
WithoutTail(digits) == SubSeq(digits, 1, Max(Nonzero(digits)))

(***************************************************************************)
(* Numbers.                                                                *)
(***************************************************************************)
\* A size_t that a subtraction may have taken below zero is a very large one.
Room(length) == IF length < 0 THEN 10000 ELSE length

\* No terminator is written: that is left to the callers, see Terminates.
numberToText(number, dstLength) == IF dstLength < Len(number) THEN Thrown ELSE number

numberToTextWithUnit(number, dstLength, unitLength) ==
  IF dstLength - Len(number) < unitLength + 2 THEN Thrown
  ELSE numberToText(number, dstLength) \o Repeat(Mark, 1 + unitLength)

bin2dec(number, dstLength) ==
  IF dstLength < Len(number) + 1 THEN Thrown ELSE numberToText(number, dstLength)

\* Mutant of decimalDigitsDisplay: 0.5 and 0.000005 are shown alike.
decimalDigitsUnfilled(decimalPart, dstLength, decimalDigitsLength) ==
  numberToText(WithoutTail(decimalPart), dstLength)

\* decimalPart is not zero and has at most decimalDigitsLength digits.
decimalDigitsDisplay(decimalPart, dstLength, decimalDigitsLength) ==
  LET zeroFillLength == decimalDigitsLength - Len(decimalPart)
  IN Behind(Repeat(0, zeroFillLength),
            numberToText(WithoutTail(decimalPart), Room(dstLength - zeroFillLength)))

\* Thousands are separated in the whole part only.
Grouped(whole) ==
  LET separatorCount == (Len(whole) - 1) \div 3
      length     == Len(whole) + separatorCount
      fromEnd(i) == length + 1 - i
  IN [i \in 1..length |->
        IF fromEnd(i) % 4 = 0 THEN Comma
        ELSE whole[Len(whole) + 1 - (fromEnd(i) - fromEnd(i) \div 4)]]

\* The number in units of 10^k. Every caller has room for the two characters the code
\* asks for before anything else.
decimalNumberToDisplay(amount, dstLength, k) ==
  IF amount = Zero THEN Zero
  ELSE IF Len(amount) <= k
    THEN Behind(<<0, Dot>>, decimalDigitsDisplay(amount, dstLength - 3, k))
  ELSE
    LET whole == Grouped(SubSeq(amount, 1, Len(amount) - k))
        decimalPart == WithoutHead(SubSeq(amount, Len(amount) - k + 1, Len(amount)))
        text == IF decimalPart = Zero THEN whole
                ELSE Behind(whole \o <<Dot>>,
                            decimalDigitsDisplay(decimalPart, dstLength - Len(whole) - 1, k))
    IN IF dstLength < Len(whole) + 1 \/ dstLength < Len(text) + 1 THEN Thrown ELSE text

\* Mutant of AboveHundredPercent: one zero too many.
AboveThousandPercent(number) == Len(number) > 7

\* A fraction of 100000 above one.
AboveHundredPercent(number) ==
  Len(number) > 6 \/ (Len(number) = 6 /\ number # <<1, 0, 0, 0, 0, 0>>)

fractionToPercentageDisplay(number, dstLength) ==
  IF AboveHundredPercent(number) THEN Thrown
  ELSE LET text == decimalNumberToDisplay(number, dstLength, 3)
       IN IF text = Thrown THEN Thrown ELSE text \o <<Mark>>

\* dst + 4 is converted with the length of dst.
amountToGtuDisplay(number, dstLength) ==
  Behind(Repeat(Mark, 4), decimalNumberToDisplay(number, dstLength, 6))

\* hashAndLoadU64Ratio: numerator / denominator, without a terminator.
RatioText(ratio, dstLength) ==
  LET numerator == numberToText(ratio[1], dstLength)
  IN IF numerator = Thrown THEN Thrown
     ELSE Behind(numerator \o Repeat(Mark, 3),
                 numberToText(ratio[2], Room(dstLength - Len(numerator) - 3)))

(***************************************************************************)
(* Base 58, with a space after each page. The input begins with the        *)
(* version byte 1, so there are no leading zeroes to keep.                 *)
(***************************************************************************)
Beyond == 10000   \* what a size_t counted below zero is

digitCount == (AddressBytes * 138) \div 100 + 1
spaces     == digitCount \div PageSize
outputSize == digitCount + spaces

\* What the last k of the cells carry over.
Carry(out, byte) ==
  LET carry[k \in 0..outputSize] ==
        IF k = 0 THEN byte
        ELSE (carry[k - 1] + InBase * out[outputSize + 1 - k]) \div OutBase
  IN carry

\* One byte goes into the number, from its last digit: the loop ends as soon as the
\* carry is zero past the digits in use, which stopAt remembers.
AddByte(number, byte) ==
  LET carry == Carry(number.out, byte)
      ends  == {j \in 1..outputSize : j <= number.stopAt - 1 /\ carry[outputSize + 1 - j] = 0}
      end   == IF ends = {} THEN 0 ELSE Max(ends)
  IN [out |-> [j \in 1..outputSize |->
                 IF j < end THEN number.out[j]
                 ELSE (carry[outputSize - j] + InBase * number.out[j]) % OutBase],
      stopAt |-> IF ends = {} THEN Beyond ELSE end]

NoDigits == [out |-> Repeat(0, outputSize), stopAt |-> outputSize]
Converted == INSTANCE Reading WITH Nothing <- NoDigits, Read <- AddByte

\* Digits and spaces are laid out in place: a cell is read before it is written, or
\* what it held is lost.
base58_encode(in, outlen) ==
  LET out == Converted!After(in).out
      zeroes  == Min(Nonzero(out)) - 1
      from(i) == i + zeroes - i \div (PageSize + 1)
      char(i) == IF i % (PageSize + 1) = 0 THEN Space
                 ELSE IF from(i) \in i..outputSize THEN out[from(i)]
                 ELSE Mark
  IN IF outlen < outputSize THEN Thrown
     ELSE [i \in 1..(outputSize - zeroes + spaces) |-> char(i)]

\* The checksum, two rounds of SHA-256, comes with the address.
base58check_encode(address, outlen) == base58_encode(<<1>> \o address, outlen)
-----------------------------------------------------------------------------
(***************************************************************************)
(* The other way: what a reader takes a text for.                          *)
(***************************************************************************)
Between(numbers) == [numbers |-> numbers, digits |-> <<>>, dot |-> FALSE, decimals |-> 0]

\* A number goes up to the next mark.
ReadCharacter(r, c) ==
  IF c >= 0 THEN [numbers |-> r.numbers, digits |-> Append(r.digits, c), dot |-> r.dot,
                  decimals |-> IF r.dot THEN r.decimals + 1 ELSE r.decimals]
  ELSE IF c = Dot THEN [r EXCEPT !.dot = TRUE]
  ELSE IF c = Mark /\ r.digits # <<>> THEN
    Between(Append(r.numbers, [digits |-> r.digits, decimals |-> r.decimals]))
  ELSE r

Text == INSTANCE Reading WITH Nothing <- Between(<<>>), Read <- ReadCharacter

\* The numbers in a text, in units of 10^k.
InUnits(n, k) == WithoutHead(n.digits \o Repeat(0, k - n.decimals))
NumbersIn(text, k) ==
  LET numbers == Text!After(Append(text, Mark)).numbers
  IN [n \in DOMAIN numbers |-> InUnits(numbers[n], k)]

\* The value of a text in base OutBase, and of bytes in base InBase.
ShownDigit(value, c)   == IF c >= 0 THEN value * OutBase + c ELSE value
GivenByte(value, byte) == value * InBase + byte

ShownValue == INSTANCE Reading WITH Nothing <- 0, Read <- ShownDigit
GivenValue == INSTANCE Reading WITH Nothing <- 0, Read <- GivenByte
=============================================================================
