----------------------------- MODULE MCUint256 -----------------------------
(***************************************************************************)
(* A number that is computed and then printed: calls of uint256.h on an    *)
(* accumulator, which a plain integer shadows, and tostring256 on what     *)
(* they leave.                                                             *)
(***************************************************************************)
EXTENDS Uint256ToString

CONSTANT Operands  \* the other numbers, by value

VARIABLES
  acc,    \* the accumulator, a uint256
  shadow  \* the integer it should stand for

vars == << acc, shadow, stringVars >>

Modulus == M^4
Becomes(n, v) == acc' = n /\ shadow' = v % Modulus

Convert(v) ==
  LET bit(i) == (v \div 2^i) % 2
  IN Becomes(convertUint256BE([i \in 1 .. 4 * W |-> bit(4 * W - i)], 1), v)
Add(v)   == Becomes(add256(acc, OfValue(v)), shadow + v)
Minus(v) == Becomes(minus256(acc, OfValue(v)), shadow - v)
Disjoin(v) == Becomes(or256(acc, OfValue(v)), shadow | v)
ShiftL(k) == Becomes(shiftl256(acc, k), shadow * 2^k)
ShiftR(k) == Becomes(shiftr256(acc, k), shadow \div 2^k)
Square128 ==
  LET low == shadow % M^2
  IN Becomes(<< clear128, mul128(LOWER(acc), LOWER(acc)) >>, (low * low) % M^2)
Multiply128(v) ==
  Becomes(<< clear128, mul128(LOWER(acc), LOWER(OfValue(v))) >>,
          ((shadow % M^2) * (v % M^2)) % M^2)

Compute ==
  \/ \E v \in Operands : Convert(v) \/ Add(v) \/ Minus(v) \/ Disjoin(v) \/ Multiply128(v)
  \/ \E k \in 0 .. 4 * W + 1 : ShiftL(k) \/ ShiftR(k)
  \/ Square128

Init == acc = clear256 /\ shadow = 0 /\ ToStringInit

Next ==
  \/ pc = "none" /\ Compute /\ UNCHANGED stringVars
  \/ \E b \in Bases, l \in OutLengths : tostring256(acc, b, l) /\ UNCHANGED << acc, shadow >>
  \/ Loops /\ UNCHANGED << acc, shadow >>

\* A call runs to its end.
Spec == Init /\ [][Next]_vars /\ WF_vars(Loops /\ UNCHANGED << acc, shadow >>)

\* Values at the edges of words and halves, where carries are born.
EdgeValues ==
  {x \in UNION {{M^k - 1, M^k, M^k + 1, M^k \div 2} : k \in 0 .. 4} : x \in 0 .. Modulus - 1}

-----------------------------------------------------------------------------
(* However the calls are chained, the accumulator is the integer they      *)
(* stand for modulo 2^256: no carry, borrow or shifted bit is lost or kept *)
(* between the words and the halves.                                       *)
Exact == Value(acc) = shadow

(* The comparisons and the bit counts that drive divmod256 agree with the  *)
(* order of the integers, also when only one word differs.                 *)
Ordered ==
  pc = "none" =>
    /\ \A v \in Operands :
         LET n == OfValue(v)
         IN /\ gt256(acc, n) <=> shadow > v
            /\ gte256(n, acc) <=> v >= shadow
            /\ equal256(acc, n) <=> shadow = v
            /\ gte128(LOWER(acc), LOWER(n)) <=> shadow % M^2 >= v % M^2
    /\ shadow < 2^bits256(acc) /\ (shadow > 0 => shadow >= 2^(bits256(acc) - 1))
    /\ bits128(LOWER(acc)) = bits256(<< clear128, LOWER(acc) >>)
    /\ zero256(acc) <=> shadow = 0

\* What the words that make up the third word of a product from the left sum
\* up to beyond a word.
ThirdCarry(a, b) ==
  LET w(x, i) == (x \div M^i) % M
  IN (((w(a, 0) * w(b, 0)) \div M) + ((w(a, 0) * w(b, 1)) % M) + ((w(a, 1) * w(b, 0)) % M)) \div M

(* mul256 "wraps modulo 2^256" (unit-tests/test_uint256.c:133) but for one *)
(* carry: what the third sum exceeds a word by is added to the first word  *)
(* of the product, where it belongs to the second (uint256.c:416).         *)
MulWrapsButForCarry ==
  pc = "none" =>
    \A v \in Operands :
      Value(mul256(acc, OfValue(v))) =
        (shadow * v + ThirdCarry(shadow, v) * (M^3 - M^2)) % Modulus
=============================================================================
