------------------------------ MODULE Uint256 ------------------------------
(***************************************************************************)
(* src/uint256.c: 256-bit unsigned integers made of two 128-bit halves,    *)
(* each made of two machine words.  A uint128 is << upper, lower >> and a  *)
(* uint256 a pair of those.  W is the width of a machine word (64 in the   *)
(* code); every word operation wraps modulo 2^W.  The loops of divmod256   *)
(* and tostring256 are the steps of the machine in Uint256ToString.        *)
(***************************************************************************)
EXTENDS Integers, SequencesExt, Bitwise

CONSTANT W  \* bits of a word, a multiple of two

ASSUME WordAssumption == W \in Nat \ {0} /\ W % 2 = 0

M == 2^W
Word == 0 .. M - 1
U128 == Word \X Word
U256 == U128 \X U128

UPPER(n) == n[1]
LOWER(n) == n[2]
WordShl(x, n) == (x * 2^n) % M
WordShr(x, n) == x \div 2^n

-----------------------------------------------------------------------------
(* Reading a big-endian buffer; a word takes WordBytes bytes of B bits.    *)

readUint64BE(bytes, B) == FoldLeft(LAMBDA acc, b : acc * 2^B + b, 0, bytes)
readu128BE(bytes, B) ==
  LET half == Len(bytes) \div 2
  IN << readUint64BE(SubSeq(bytes, 1, half), B),
        readUint64BE(SubSeq(bytes, half + 1, Len(bytes)), B) >>
readu256BE(bytes, B) ==
  LET half == Len(bytes) \div 2
  IN << readu128BE(SubSeq(bytes, 1, half), B), readu128BE(SubSeq(bytes, half + 1, Len(bytes)), B) >>
\* data is right-aligned in a zeroed buffer of the size of the number.
convertUint256BE(data, B) ==
  readu256BE([i \in 1 .. (4 * W) \div B - Len(data) |-> 0] \o data, B)

-----------------------------------------------------------------------------
(* Comparisons, copies and single-word carries.                            *)

zero128(n) == LOWER(n) = 0 /\ UPPER(n) = 0
zero256(n) == zero128(LOWER(n)) /\ zero128(UPPER(n))
clear128 == << 0, 0 >>
clear256 == << clear128, clear128 >>
one128 == << 0, 1 >>
one256 == << clear128, one128 >>

\* Mutant: a lower word decides although the upper words differ.
gt128_either(a, b) == UPPER(a) > UPPER(b) \/ LOWER(a) > LOWER(b)

equal128(a, b) == UPPER(a) = UPPER(b) /\ LOWER(a) = LOWER(b)
equal256(a, b) == equal128(UPPER(a), UPPER(b)) /\ equal128(LOWER(a), LOWER(b))
gt128(a, b) == IF UPPER(a) = UPPER(b) THEN LOWER(a) > LOWER(b) ELSE UPPER(a) > UPPER(b)
gt256(a, b) ==
  IF equal128(UPPER(a), UPPER(b)) THEN gt128(LOWER(a), LOWER(b)) ELSE gt128(UPPER(a), UPPER(b))
gte128(a, b) == gt128(a, b) \/ equal128(a, b)
gte256(a, b) == gt256(a, b) \/ equal256(a, b)

add128(a, b) ==
  LET low == (LOWER(a) + LOWER(b)) % M
      carry == IF low < LOWER(a) THEN 1 ELSE 0
  IN << (UPPER(a) + UPPER(b) + carry) % M, low >>
\* Mutant: the carry between the halves is lost.
add256_nocarry(a, b) == << add128(UPPER(a), UPPER(b)), add128(LOWER(a), LOWER(b)) >>
add256(a, b) ==
  LET low == add128(LOWER(a), LOWER(b))
      up == add128(UPPER(a), UPPER(b))
  IN << IF gt128(LOWER(a), low) THEN add128(up, one128) ELSE up, low >>
minus128(a, b) ==
  LET low == (LOWER(a) - LOWER(b)) % M
      borrow == IF low > LOWER(a) THEN 1 ELSE 0
  IN << (UPPER(a) - UPPER(b) - borrow) % M, low >>
minus256(a, b) ==
  LET low == minus128(LOWER(a), LOWER(b))
      up == minus128(UPPER(a), UPPER(b))
  IN << IF gt128(low, LOWER(a)) THEN minus128(up, one128) ELSE up, low >>
or128(a, b) == << UPPER(a) | UPPER(b), LOWER(a) | LOWER(b) >>
or256(a, b) == << or128(UPPER(a), UPPER(b)), or128(LOWER(a), LOWER(b)) >>

-----------------------------------------------------------------------------
(* Shifts: by nothing, by less than a half, by a half, by more.            *)

shiftl128(n, v) ==
  CASE v >= 2 * W -> clear128
    [] v = W -> << LOWER(n), 0 >>
    [] v = 0 -> n
    [] 0 < v /\ v < W ->
         << (WordShl(UPPER(n), v) + WordShr(LOWER(n), W - v)) % M, WordShl(LOWER(n), v) >>
    [] W < v /\ v < 2 * W -> << WordShl(LOWER(n), v - W), 0 >>
shiftr128(n, v) ==
  CASE v >= 2 * W -> clear128
    [] v = W -> << 0, UPPER(n) >>
    [] v = 0 -> n
    [] 0 < v /\ v < W ->
         << WordShr(UPPER(n), v), (WordShl(UPPER(n), W - v) + WordShr(LOWER(n), v)) % M >>
    [] W < v /\ v < 2 * W -> << 0, WordShr(UPPER(n), v - W) >>
shiftl256(n, v) ==
  CASE v >= 4 * W -> clear256
    [] v = 2 * W -> << LOWER(n), clear128 >>
    [] v = 0 -> n
    [] 0 < v /\ v < 2 * W ->
         << add128(shiftl128(UPPER(n), v), shiftr128(LOWER(n), 2 * W - v)),
            shiftl128(LOWER(n), v) >>
    [] 2 * W < v /\ v < 4 * W -> << shiftl128(LOWER(n), v - 2 * W), clear128 >>
shiftr256(n, v) ==
  CASE v >= 4 * W -> clear256
    [] v = 2 * W -> << clear128, UPPER(n) >>
    [] v = 0 -> n
    [] 0 < v /\ v < 2 * W ->
         << shiftr128(UPPER(n), v),
            add128(shiftr128(LOWER(n), v), shiftl128(UPPER(n), 2 * W - v)) >>
    [] 2 * W < v /\ v < 4 * W -> << clear128, shiftr128(UPPER(n), v - 2 * W) >>

\* How often a word, or a uint128, can be shifted right before it is zero.
WordBits(x) == CHOOSE k \in 0 .. W : x < 2^k /\ (k = 0 \/ x >= 2^(k - 1))
bits128(n) == IF UPPER(n) # 0 THEN W + WordBits(UPPER(n)) ELSE WordBits(LOWER(n))
ShiftsToZero(n) ==
  CHOOSE k \in 0 .. 2 * W :
    zero128(shiftr128(n, k)) /\ \A j \in 0 .. k - 1 : ~zero128(shiftr128(n, j))
bits256(n) ==
  IF ~zero128(UPPER(n)) THEN 2 * W + ShiftsToZero(UPPER(n)) ELSE ShiftsToZero(LOWER(n))

-----------------------------------------------------------------------------
(* Schoolbook products.  mul128 multiplies half words, mul256 words; the   *)
(* rows hold the partial products, products[x][y] of the x-th digit of one *)
(* and the y-th of the other, and the four columns are added up.           *)

Half == 2^(W \div 2)
HalfDigits(n) == << UPPER(n) \div Half, UPPER(n) % Half, LOWER(n) \div Half, LOWER(n) % Half >>

mul128(a, b) ==
  LET P(x, y) == HalfDigits(a)[4 - x] * HalfDigits(b)[y + 1]
      lo(p) == p % Half
      hi(p) == p \div Half
      fourth == lo(P(0, 3))
      third == lo(P(0, 2)) + hi(P(0, 3)) + lo(P(1, 3))
      second == lo(P(0, 1)) + hi(P(0, 2)) + lo(P(1, 2)) + hi(P(1, 3)) + lo(P(2, 3))
      first == lo(P(0, 0)) + hi(P(0, 1)) + lo(P(1, 1)) + hi(P(1, 2)) + lo(P(2, 2))
               + hi(P(2, 3)) + lo(P(3, 3))
      outer == add128(<< (first * Half) % M, 0 >>, << third \div Half, (third * Half) % M >>)
  IN add128(<< 0, fourth >>, add128(<< second % M, 0 >>, outer))

Words(n) == << UPPER(UPPER(n)), LOWER(UPPER(n)), UPPER(LOWER(n)), LOWER(LOWER(n)) >>
\* Mutant: the carries of the sum are dropped.
Sum128_word(words) == FoldLeft(LAMBDA acc, w : << 0, (LOWER(acc) + w) % M >>, clear128, words)

Sum128(words) == FoldLeft(LAMBDA acc, w : add128(<< 0, w >>, acc), clear128, words)

mul256(a, b) ==
  LET P(x, y) == mul128(<< 0, Words(a)[4 - x] >>, << 0, Words(b)[y + 1] >>)
      lo(p) == LOWER(p)
      hi(p) == UPPER(p)
      fourth == << 0, lo(P(0, 3)) >>
      third == Sum128(<< lo(P(0, 2)), hi(P(0, 3)), lo(P(1, 3)) >>)
      second == Sum128(<< lo(P(0, 1)), hi(P(0, 2)), lo(P(1, 2)), hi(P(1, 3)), lo(P(2, 3)) >>)
      first == Sum128(<< lo(P(0, 0)), hi(P(0, 1)), lo(P(1, 1)), hi(P(1, 2)), lo(P(2, 2)),
                         hi(P(2, 3)), lo(P(3, 3)) >>)
      outer == add256(<< shiftl128(first, W), clear128 >>,
                      << << UPPER(third), 0 >>, shiftl128(third, W) >>)
  IN add256(<< clear128, fourth >>, add256(<< second, clear128 >>, outer))

-----------------------------------------------------------------------------
(* What the words stand for.                                               *)

Value128(n) == UPPER(n) * M + LOWER(n)
Value(n) == Value128(UPPER(n)) * M^2 + Value128(LOWER(n))
OfValue(v) ==
  LET w(i) == (v \div M^i) % M IN << << w(3), w(2) >>, << w(1), w(0) >> >>
=============================================================================
