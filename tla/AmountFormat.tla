---------------------------- MODULE AmountFormat ----------------------------
(***************************************************************************)
(* How src/parse.c prints amounts: adjustDecimals and print_amount.  A     *)
(* text is a sequence of characters: the digits 0 .. Radix - 1 and Point.  *)
(* The string buffers keep their sizes, terminators included.              *)
(***************************************************************************)
EXTENDS Integers, Sequences, Powers

CONSTANTS
  Radix,     \* 10 in the code
  TmpSize,   \* sizeof(tmp) in print_amount: 20
  Tmp2Size   \* sizeof(tmp2): 25

ASSUME FormatAssumption == {Radix, TmpSize, Tmp2Size} \subseteq Nat \ {0, 1}

Point == -1
Empty == << >>
ZeroText == << 0 >>
ZeroDigits(n) == [i \in 1 .. n |-> 0]

\* The digits of a number, highest first; none for zero.
NumDigits(n) ==
  CHOOSE k \in 0 .. n : n < Power(Radix, k) /\ (k = 0 \/ n >= Power(Radix, k - 1))
Digits(n) == [i \in 1 .. NumDigits(n) |-> (n \div Power(Radix, NumDigits(n) - i)) % Radix]

\* Mutant: the zeros before the point are cut too.
TrimZeros_whole(text, start) ==
  LET kept == CHOOSE k \in 1 .. Len(text) : /\ \A i \in k + 1 .. Len(text) : text[i] = 0
                                           /\ k > 1 => text[k] # 0
  IN SubSeq(text, 1, kept)

\* Cuts the zeros a text ends with, but none of its first start characters
\* and with a point in front of them the point as well.
TrimZeros(text, start) ==
  LET kept == CHOOSE k \in start .. Len(text) :
                /\ \A i \in k + 1 .. Len(text) : text[i] = 0
                /\ k > start => text[k] # 0
      pointless == IF kept < Len(text) /\ text[kept] = Point THEN kept - 1 ELSE kept
  IN SubSeq(text, 1, pointless)

Printed(text) == [ok |-> TRUE, text |-> text]
NotPrinted == [ok |-> FALSE, text |-> Empty]

adjustDecimals(src, targetLength, decimals) ==
  LET whole == Len(src) - decimals
      padded == << 0, Point >> \o ZeroDigits(-whole) \o src
      split == SubSeq(src, 1, whole) \o (IF decimals # 0 THEN << Point >> ELSE Empty)
      start == IF whole <= 0 THEN 2 - whole ELSE Len(split)
      needed == IF whole <= 0 THEN Len(src) + 1 + 2 - whole ELSE Len(src) + 1 + 1
      text == IF whole <= 0 THEN padded
              ELSE split \o SubSeq(src, whole + 1, Len(src))
  IN IF src = ZeroText
     THEN IF targetLength < 2 THEN NotPrinted ELSE Printed(ZeroText)
     ELSE IF targetLength < needed THEN NotPrinted ELSE Printed(TrimZeros(text, start))

\* An amount with more digits than tmp holds raises E_INCORRECT_LENGTH.
TooManyDigits(amount) == NumDigits(amount) > TmpSize - 1
\* Mutant: the text gets the buffer of the digits.
print_amount_tight(amount, outlen, sun) ==
  LET adjusted == adjustDecimals(Digits(amount), TmpSize, sun)
  IN IF adjusted.ok /\ Len(adjusted.text) < outlen - 1 THEN adjusted.text ELSE Empty

\* The text left in the caller's buffer: empty when there is no room for it.
print_amount(amount, outlen, sun) ==
  LET adjusted == adjustDecimals(Digits(amount), Tmp2Size, sun)
  IN IF adjusted.ok /\ Len(adjusted.text) < outlen - 1 THEN adjusted.text ELSE Empty

-----------------------------------------------------------------------------
(* What a text says: the digits before and after the point.                *)

Points(text) == {i \in DOMAIN text : text[i] = Point}
PointOf(text) == CHOOSE i \in Points(text) : TRUE
Whole(text) == IF Points(text) = {} THEN text ELSE SubSeq(text, 1, PointOf(text) - 1)
Fraction(text) ==
  IF Points(text) = {} THEN Empty ELSE SubSeq(text, PointOf(text) + 1, Len(text))
NumberIn(digits) ==
  LET n[i \in 0 .. Len(digits)] == IF i = 0 THEN 0 ELSE n[i - 1] * Radix + digits[i]
  IN n[Len(digits)]

\* The text reads as amount / Radix^decimals.
Denotes(text, amount, decimals) ==
  /\ \A i, j \in Points(text) : i = j
  /\ Whole(text) # Empty /\ Len(Fraction(text)) <= decimals
  /\ NumberIn(Whole(text) \o Fraction(text)) * Power(Radix, decimals - Len(Fraction(text)))
       = amount
=============================================================================
