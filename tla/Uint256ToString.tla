-------------------------- MODULE Uint256ToString --------------------------
(***************************************************************************)
(* tostring256 of src/uint256.c and the divmod256 it calls for every       *)
(* digit, one step per turn of their loops.                                *)
(***************************************************************************)
EXTENDS Uint256

CONSTANTS
  Bases,     \* the bases tostring256 is called with
  OutLengths \* the lengths of the caller's buffer, which is never empty

ASSUME BufferAssumption == OutLengths \subseteq Nat \ {0}

VARIABLES
  call,  \* the number, the base and the length of the buffer
  pc,    \* "none" before the call; "digit", "divide"; "true" or "false" after it
  rDiv,  \* what is left of the number
  div,   \* the division under way: l, copyd, adder, resDiv, resMod
  out    \* the digits written so far, lowest first

stringVars == << call, pc, rDiv, div, out >>

OfWord(x) == << clear128, << 0, x >> >>
NoDivision == [l |-> clear256, copyd |-> clear256, adder |-> clear256,
               resDiv |-> clear256, resMod |-> clear256]
base == OfWord(call.base)

\* The start of divmod256(l, r): where r is the larger the answer is known.
Division(l, r) ==
  LET diffBits == bits256(l) - bits256(r)
      copyd == shiftl256(r, diffBits)
      adder == shiftl256(one256, diffBits)
      start == [l |-> l, copyd |-> copyd, adder |-> adder, resDiv |-> clear256, resMod |-> l]
  IN IF gt256(copyd, l)
     THEN [start EXCEPT !.copyd = shiftr256(copyd, 1), !.adder = shiftr256(adder, 1)]
     ELSE start

BadBase ==
  /\ pc = "digit" /\ out = << >> /\ (call.base < 2 \/ call.base > 16)
  /\ pc' = "false"
  /\ UNCHANGED << call, rDiv, div, out >>

\* Mutant: one digit too many.
BufferFull_late(written, outLength) == written > outLength

\* No byte of the buffer is left for another digit.
BufferFull(written, outLength) == written > outLength - 1

\* The turn of the do loop: refused when the buffer is full.
NextDigit ==
  /\ pc = "digit" /\ call.base >= 2 /\ call.base <= 16
  /\ IF BufferFull(Len(out), call.outLength)
     THEN pc' = "false" /\ UNCHANGED div
     ELSE /\ pc' = "divide"
          /\ div' = IF gt256(base, rDiv) THEN [NoDivision EXCEPT !.l = rDiv, !.resMod = rDiv]
                    ELSE Division(rDiv, base)
  /\ UNCHANGED << call, rDiv, out >>

\* Mutant: copyd is subtracted before the comparison.
Subtract_always ==
  /\ pc = "divide" /\ gte256(div.resMod, base)
  /\ div' = [div EXCEPT
               !.resMod = minus256(@, div.copyd),
               !.resDiv = IF gte256(div.resMod, div.copyd) THEN or256(@, div.adder) ELSE @,
               !.copyd = shiftr256(@, 1),
               !.adder = shiftr256(@, 1)]
  /\ UNCHANGED << call, pc, rDiv, out >>

\* Mutant: copyd and adder are only shifted after a subtraction.
Subtract_stuck ==
  /\ pc = "divide" /\ gte256(div.resMod, base)
  /\ div' = IF gte256(div.resMod, div.copyd)
            THEN [div EXCEPT !.resMod = minus256(@, div.copyd), !.resDiv = or256(@, div.adder),
                             !.copyd = shiftr256(@, 1), !.adder = shiftr256(@, 1)]
            ELSE div
  /\ UNCHANGED << call, pc, rDiv, out >>

\* The turn of the while loop of divmod256.
Subtract ==
  /\ pc = "divide" /\ gte256(div.resMod, base)
  /\ div' = [div EXCEPT
               !.resMod = IF gte256(@, div.copyd) THEN minus256(@, div.copyd) ELSE @,
               !.resDiv = IF gte256(div.resMod, div.copyd) THEN or256(@, div.adder) ELSE @,
               !.copyd = shiftr256(@, 1),
               !.adder = shiftr256(@, 1)]
  /\ UNCHANGED << call, pc, rDiv, out >>

\* reverseString is applied to what the loop wrote.
Digit ==
  /\ pc = "divide" /\ ~gte256(div.resMod, base)
  /\ rDiv' = div.resDiv
  /\ div' = NoDivision
  /\ LET written == Append(out, LOWER(LOWER(div.resMod)))
         done == zero256(div.resDiv)
     IN /\ out' = IF done THEN Reverse(written) ELSE written
        /\ pc' = IF done THEN "true" ELSE "digit"
  /\ UNCHANGED call

tostring256(number, b, outLength) ==
  /\ pc = "none" /\ pc' = "digit"
  /\ call' = [number |-> number, base |-> b, outLength |-> outLength]
  /\ rDiv' = number
  /\ UNCHANGED << div, out >>

ToStringInit ==
  /\ call = [number |-> clear256, base |-> 0, outLength |-> 0]
  /\ pc = "none" /\ rDiv = clear256 /\ div = NoDivision /\ out = << >>

Loops == BadBase \/ NextDigit \/ Subtract \/ Digit

-----------------------------------------------------------------------------
ValueOf(digits, b) == FoldLeft(LAMBDA acc, d : acc * b + d, 0, digits)

(* The division of divmod256 never loses a part of the dividend: at every  *)
(* turn quotient and remainder give it back, copyd is adder times the      *)
(* divisor, and what is left to subtract is less than twice copyd, so that *)
(* no bit of the quotient is set twice by or256.                           *)
DivisionExact ==
  pc = "divide" =>
    /\ Value(div.l) = Value(div.resDiv) * call.base + Value(div.resMod)
    /\ Value(div.adder) > 0 =>
         /\ Value(div.copyd) = Value(div.adder) * call.base
         /\ Value(div.resMod) < 2 * Value(div.copyd)

(* tostring256 prints its number: while it works the digits written and    *)
(* what is left still make up the number, and when it succeeds the string  *)
(* reads as the number in the base, without leading zeros.  It fails only  *)
(* for a base it cannot print or a number with more digits than the buffer *)
(* has bytes, and never writes a digit past the buffer.                    *)
PrintsNumber ==
  /\ pc \in {"digit", "divide"} /\ call.base >= 2 =>
       Value(call.number) =
         Value(rDiv) * call.base^Len(out) + ValueOf(Reverse(out), call.base)
  /\ pc = "true" =>
       /\ ValueOf(out, call.base) = Value(call.number)
       /\ \A i \in DOMAIN out : out[i] < call.base
       /\ Len(out) > 1 => out[1] # 0
  /\ pc = "false" =>
       call.base < 2 \/ call.base > 16 \/ Value(call.number) >= call.base^call.outLength
  /\ Len(out) <= call.outLength

(* Both loops end: divmod256 stops shifting and tostring256 returns.       *)
Terminates == pc = "digit" ~> pc \in {"true", "false"}
=============================================================================
