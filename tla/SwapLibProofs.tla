--------------------------- MODULE SwapLibProofs ---------------------------
(***************************************************************************)
(* Theorems about the swap library, for every amount and every size of the *)
(* buffers: that amounts are printed without loss, that a swap signs what  *)
(* Exchange validated, and that it does sign it.                           *)
(***************************************************************************)
EXTENDS SwapLib, InductionLemmas, SequenceTheorems

-----------------------------------------------------------------------------
(* The number a sequence of digits stands for.                             *)

\* The numbers its prefixes stand for.
Reads(digits) ==
  LET n[i \in 0 .. Len(digits)] == IF i = 0 THEN 0 ELSE n[i - 1] * Radix + digits[i]
  IN n

\* Numbers are multiplied and added.
LEMMA Arithmetic ==
  ASSUME NEW x \in Nat, NEW y \in Nat, NEW z \in Nat
  PROVE  /\ x * y \in Nat /\ x * y + z \in Nat
         /\ (x * y) * z = x * (y * z) /\ (x + y) * z = x * z + y * z /\ x * y = y * x
  OBVIOUS

\* They are what their recursion says.
LEMMA ReadsDef ==
  ASSUME NEW d \in Seq(Nat)
  PROVE  /\ \A i \in 0 .. Len(d) : Reads(d)[i] \in Nat
         /\ Reads(d)[0] = 0 /\ NumberIn(d) = Reads(d)[Len(d)] /\ NumberIn(d) \in Nat
         /\ \A i \in 1 .. Len(d) : Reads(d)[i] = Reads(d)[i - 1] * Radix + d[i]
  <1> DEFINE step == [k \in Nat |-> [x \in Nat |->
                        IF k < Len(d) THEN x * Radix + d[k + 1] ELSE x]]
             f == Iterates(Nat, 0, step)
             Reading(g) == g = [i \in 0 .. Len(d) |->
                                  IF i = 0 THEN 0 ELSE g[i - 1] * Radix + d[i]]
             n == CHOOSE g : Reading(g)
             h == [i \in 0 .. Len(d) |-> f[i]]
  <1>1. Len(d) \in Nat /\ Radix \in Nat /\ \A i \in 1 .. Len(d) : d[i] \in Nat
    BY FormatAssumption
  <1>2. step \in [Nat -> [Nat -> Nat]]
    <2>1. \A k \in Nat, x \in Nat : (IF k < Len(d) THEN x * Radix + d[k + 1] ELSE x) \in Nat
      <3> TAKE k \in Nat, x \in Nat
      <3>1. k < Len(d) => d[k + 1] \in Nat
        BY <1>1
      <3>2. k < Len(d) => x * Radix + d[k + 1] \in Nat
        BY <1>1, <3>1, Arithmetic
      <3> QED
        BY <3>2
    <2> QED
      BY <2>1
  <1>3. f \in [Nat -> Nat] /\ f[0] = 0 /\ \A k \in Nat : f[k + 1] = step[k][f[k]]
    <2>1. Follows(f, Nat, 0, step)
      <3> HIDE DEF step
      <3> QED
        BY <1>2, Recursion
    <2> HIDE DEF f
    <2> QED
      BY <2>1 DEF Follows
  <1> HIDE DEF f
  <1>4. ASSUME NEW i \in 1 .. Len(d) PROVE f[i] = f[i - 1] * Radix + d[i]
    <2>1. i - 1 \in Nat /\ (i - 1) + 1 = i /\ i - 1 < Len(d)
      BY <1>1
    <2>2. f[i - 1] \in Nat /\ f[(i - 1) + 1] = step[i - 1][f[i - 1]]
      <3> HIDE DEF step
      <3> QED
        BY <1>3, <2>1
    <2> QED
      BY <2>1, <2>2
  <1>5. Reading(h)
    <2>1. \A i \in 1 .. Len(d) : i - 1 \in 0 .. Len(d) /\ h[i - 1] = f[i - 1]
      BY <1>1
    <2>2. \A i \in 0 .. Len(d) : i # 0 => i \in 1 .. Len(d)
      BY <1>1
    <2>3. \A i \in 0 .. Len(d) : f[i] = IF i = 0 THEN 0 ELSE h[i - 1] * Radix + d[i]
      <3> HIDE DEF h
      <3> QED
        BY <1>3, <1>4, <2>1, <2>2
    <2> QED
      BY <2>3
  <1>6. Reading(n)
    <2> HIDE DEF Reading, h
    <2> QED
      BY <1>5
  <1>7. Reads(d) = n /\ NumberIn(d) = n[Len(d)]
    BY DEF Reads, NumberIn
  <1> HIDE DEF n
  <1>8. n[0] = 0 /\ \A i \in 1 .. Len(d) : n[i] = n[i - 1] * Radix + d[i]
    <2>1. 0 \in 0 .. Len(d) /\ \A i \in 1 .. Len(d) : i \in 0 .. Len(d) /\ i # 0
      BY <1>1
    <2>2. \A i \in 0 .. Len(d) : n[i] = IF i = 0 THEN 0 ELSE n[i - 1] * Radix + d[i]
      BY <1>6, Zenon
    <2> QED
      BY <2>1, <2>2, Zenon
  <1> DEFINE naturals == {i \in Nat : i <= Len(d) => n[i] \in Nat}
  <1>9. \A i \in Nat : i \in naturals
    <2>1. 0 \in naturals
      BY <1>8
    <2>2. ASSUME NEW i \in Nat, i \in naturals PROVE i + 1 \in naturals
      <3> SUFFICES ASSUME i + 1 <= Len(d) PROVE n[i + 1] \in Nat
        OBVIOUS
      <3>1. i + 1 \in 1 .. Len(d) /\ (i + 1) - 1 = i /\ n[i] \in Nat
        BY <1>1, <2>2
      <3> DEFINE x == n[i]
                 z == d[i + 1]
      <3>2. n[i + 1] = n[(i + 1) - 1] * Radix + d[i + 1]
        BY <1>8, <3>1
      <3>3. n[i + 1] = x * Radix + z
        BY <3>1, <3>2
      <3>4. x \in Nat /\ z \in Nat
        BY <1>1, <3>1
      <3> HIDE DEF x, z
      <3> QED
        BY <1>1, <3>3, <3>4, Arithmetic
    <2> HIDE DEF naturals
    <2> QED
      BY <2>1, <2>2, Induction
  <1>10. \A i \in 0 .. Len(d) : n[i] \in Nat
    BY <1>1, <1>9
  <1> QED
    BY <1>1, <1>7, <1>8, <1>10

\* Behind the digits of a, those of b count as b does.
LEMMA ReadConcat ==
  ASSUME NEW a \in Seq(Nat), NEW b \in Seq(Nat)
  PROVE  NumberIn(a \o b) = NumberIn(a) * Power(Radix, Len(b)) + NumberIn(b)
  <1> DEFINE c == a \o b
  <1>1. /\ c \in Seq(Nat) /\ Len(c) = Len(a) + Len(b) /\ Len(a) \in Nat /\ Len(b) \in Nat
        /\ \A i \in 1 .. Len(a) : c[i] = a[i]
        /\ \A i \in 1 .. Len(b) : c[Len(a) + i] = b[i]
    OBVIOUS
  <1> HIDE DEF c
  <1>2. Radix \in Nat
    BY FormatAssumption
  <1> DEFINE same == {i \in Nat : i <= Len(a) => Reads(c)[i] = Reads(a)[i]}
  <1>3. \A i \in Nat : i \in same
    <2>1. 0 \in same
      BY <1>1, ReadsDef
    <2>2. ASSUME NEW i \in Nat, i \in same PROVE i + 1 \in same
      <3> SUFFICES ASSUME i + 1 <= Len(a) PROVE Reads(c)[i + 1] = Reads(a)[i + 1]
        OBVIOUS
      <3>1. i + 1 \in 1 .. Len(a) /\ i + 1 \in 1 .. Len(c) /\ (i + 1) - 1 = i
        BY <1>1
      <3>2. Reads(c)[i + 1] = Reads(c)[i] * Radix + c[i + 1]
        BY <1>1, <3>1, ReadsDef
      <3>3. Reads(a)[i + 1] = Reads(a)[i] * Radix + a[i + 1]
        BY <3>1, ReadsDef
      <3>4. Reads(c)[i] = Reads(a)[i] /\ c[i + 1] = a[i + 1]
        BY <1>1, <2>2, <3>1
      <3> QED
        BY <3>2, <3>3, <3>4
    <2> HIDE DEF same
    <2> QED
      BY <2>1, <2>2, Induction
  <1> DEFINE x == NumberIn(a)
             behind == {i \in Nat : i <= Len(b) =>
                          Reads(c)[Len(a) + i] = x * Power(Radix, i) + Reads(b)[i]}
  <1>4. \A i \in Nat : i \in behind
    <2>1. 0 \in behind
      <3>1. x \in Nat /\ x = Reads(a)[Len(a)] /\ Reads(b)[0] = 0
        BY ReadsDef
      <3>2. Reads(c)[Len(a)] = Reads(a)[Len(a)] /\ Len(a) + 0 = Len(a)
        BY <1>1, <1>3
      <3>3. Power(Radix, 0) = 1
        BY <1>2, PowerDef
      <3> HIDE DEF x
      <3> QED
        BY <3>1, <3>2, <3>3
    <2>2. ASSUME NEW i \in Nat, i \in behind PROVE i + 1 \in behind
      <3> SUFFICES ASSUME i + 1 <= Len(b)
                   PROVE  Reads(c)[Len(a) + (i + 1)]
                            = x * Power(Radix, i + 1) + Reads(b)[i + 1]
        OBVIOUS
      <3> DEFINE p == Power(Radix, i)
                 y == Reads(b)[i]
                 z == b[i + 1]
      <3>1. /\ i + 1 \in 1 .. Len(b) /\ (i + 1) - 1 = i /\ i \in 0 .. Len(b)
            /\ Len(a) + (i + 1) \in 1 .. Len(c) /\ (Len(a) + (i + 1)) - 1 = Len(a) + i
        BY <1>1
      <3>2. p \in Nat /\ y \in Nat /\ x \in Nat /\ z \in Nat /\ Power(Radix, i + 1) = Radix * p
        <4>1. p \in Nat /\ Power(Radix, i + 1) = Radix * p
          BY <1>2, PowerDef
        <4>2. y \in Nat /\ x \in Nat /\ z \in Nat
          BY <3>1, ReadsDef
        <4> QED
          BY <4>1, <4>2
      <3>3. Reads(c)[Len(a) + (i + 1)] = Reads(c)[Len(a) + i] * Radix + c[Len(a) + (i + 1)]
        BY <1>1, <3>1, ReadsDef
      <3>4. Reads(c)[Len(a) + i] = x * p + y
        BY <2>2, <3>1
      <3>5. c[Len(a) + (i + 1)] = z
        BY <1>1, <3>1
      <3>6. Reads(b)[i + 1] = y * Radix + z
        BY <3>1, ReadsDef
      <3> HIDE DEF x, p, y, z
      <3>7. (x * p + y) * Radix + z = x * (Radix * p) + (y * Radix + z)
        <4>1. (x * p + y) * Radix = (x * p) * Radix + y * Radix
          BY <1>2, <3>2
        <4>2. (x * p) * Radix = x * (Radix * p)
          BY <1>2, <3>2
        <4> DEFINE u == x * (Radix * p)
                   v == y * Radix
        <4>3. u \in Nat /\ v \in Nat
          BY <1>2, <3>2
        <4>4. (x * p + y) * Radix + z = (u + v) + z
          BY <4>1, <4>2
        <4> HIDE DEF u, v
        <4>5. (x * p + y) * Radix + z = u + (v + z)
          BY <3>2, <4>3, <4>4
        <4> QED
          BY <4>5 DEF u, v
      <3> QED
        BY <3>2, <3>3, <3>4, <3>5, <3>6, <3>7
    <2> HIDE DEF behind
    <2> QED
      BY <2>1, <2>2, Induction
  <1>5. Reads(c)[Len(a) + Len(b)] = x * Power(Radix, Len(b)) + Reads(b)[Len(b)]
    BY <1>1, <1>4
  <1> QED
    BY <1>1, <1>5, ReadsDef DEF c

\* Zeros stand for nothing.
LEMMA ReadZeros ==
  ASSUME NEW k \in Nat
  PROVE  /\ ZeroDigits(k) \in Seq(Nat) /\ Len(ZeroDigits(k)) = k /\ NumberIn(ZeroDigits(k)) = 0
         /\ \A i \in 1 .. k : ZeroDigits(k)[i] = 0
  <1> DEFINE d == ZeroDigits(k)
  <1>1. d \in Seq(Nat) /\ Len(d) = k /\ \A i \in 1 .. k : d[i] = 0
    BY DEF ZeroDigits
  <1> HIDE DEF d
  <1> DEFINE zero == {i \in Nat : i <= k => Reads(d)[i] = 0}
  <1>2. \A i \in Nat : i \in zero
    <2>1. 0 \in zero
      BY <1>1, ReadsDef
    <2>2. ASSUME NEW i \in Nat, i \in zero PROVE i + 1 \in zero
      <3> SUFFICES ASSUME i + 1 <= k PROVE Reads(d)[i + 1] = 0
        OBVIOUS
      <3>1. i + 1 \in 1 .. Len(d) /\ (i + 1) - 1 = i
        BY <1>1
      <3>2. Reads(d)[i + 1] = Reads(d)[i] * Radix + d[i + 1]
        BY <1>1, <3>1, ReadsDef
      <3> QED
        BY <1>1, <2>2, <3>1, <3>2, FormatAssumption
    <2> HIDE DEF zero
    <2> QED
      BY <2>1, <2>2, Induction
  <1> QED
    BY <1>1, <1>2, ReadsDef DEF d

\* Texts are put behind each other in any order.
Chain(s, t) == s \o t
LEMMA ChainsAssociate ==
  \A T : \A s, t, u \in Seq(T) : Chain(Chain(s, t), u) = Chain(s, Chain(t, u))
  <1>1. \A T : \A s, t, u \in Seq(T) : (s \o t) \o u = s \o (t \o u)
    BY ConcatAssociative, Zenon
  <1> QED
    BY <1>1, Zenon DEF Chain

-----------------------------------------------------------------------------
(* The digits of a number.                                                 *)

\* Every number has digits enough to write it.
LEMMA NumDigitsDef ==
  ASSUME NEW n \in Nat
  PROVE  /\ NumDigits(n) \in 0 .. n /\ n < Power(Radix, NumDigits(n))
         /\ NumDigits(n) # 0 => n >= Power(Radix, NumDigits(n) - 1)
  <1>1. Radix \in Nat /\ Radix >= 2
    BY FormatAssumption
  <1> DEFINE below == {k \in Nat : k < Power(Radix, k)}
  <1>2. \A k \in Nat : k \in below
    <2>1. 0 \in below
      BY <1>1, PowerDef
    <2>2. ASSUME NEW k \in Nat, k \in below PROVE k + 1 \in below
      <3> DEFINE p == Power(Radix, k)
      <3>1. p \in Nat /\ Power(Radix, k + 1) = Radix * p /\ k < p
        BY <1>1, <2>2, PowerDef
      <3> HIDE DEF p
      <3>2. k + 1 < Radix * p
        <4>1. Radix * p >= 2 * p
          BY <1>1, <3>1
        <4> QED
          BY <1>1, <3>1, <4>1
      <3> QED
        BY <3>1, <3>2
    <2> HIDE DEF below
    <2> QED
      BY <2>1, <2>2, Induction
  <1> DEFINE enough == {k \in Nat : n < Power(Radix, k)}
  <1>3. n \in enough
    BY <1>2
  <1>4. PICK k \in enough : \A j \in enough : k <= j
    <2>1. enough \in SUBSET Nat /\ enough # {}
      BY <1>3
    <2> HIDE DEF enough
    <2> QED
      BY <2>1, LeastNatural
  <1>5. k \in 0 .. n
    BY <1>3, <1>4
  <1>6. k # 0 => n >= Power(Radix, k - 1)
    <2>1. ASSUME k # 0 PROVE k - 1 \in Nat /\ k - 1 \notin enough
      BY <1>4, <2>1
    <2>2. ASSUME k # 0 PROVE Power(Radix, k - 1) \in Nat /\ ~(n < Power(Radix, k - 1))
      BY <1>1, <2>1, <2>2, PowerDef
    <2> QED
      BY <2>2
  <1> DEFINE Fits(j) == n < Power(Radix, j) /\ (j = 0 \/ n >= Power(Radix, j - 1))
  <1>7. Fits(k)
    BY <1>4, <1>6
  <1>8. NumDigits(n) = CHOOSE j \in 0 .. n : Fits(j)
    BY DEF NumDigits
  <1> HIDE DEF Fits
  <1>9. NumDigits(n) \in 0 .. n /\ Fits(NumDigits(n))
    BY <1>5, <1>7, <1>8
  <1> QED
    BY <1>9 DEF Fits

\* One digit more.
LEMMA NextDigitOf ==
  ASSUME NEW q \in Nat
  PROVE  (q \div Radix) * Radix + (q % Radix) = q /\ q \div Radix \in Nat /\ q % Radix \in Nat
  <1>1. Radix \in Nat /\ Radix > 0
    BY FormatAssumption
  <1>2. q \div Radix \in Nat /\ q % Radix \in Nat
    BY <1>1
  <1>3. q = Radix * (q \div Radix) + (q % Radix)
    BY <1>1
  <1>4. Radix * (q \div Radix) = (q \div Radix) * Radix
    BY <1>1, <1>2, Arithmetic
  <1> QED
    BY <1>2, <1>3, <1>4

\* The digits of a number read as the number, and they start with no zero.
LEMMA DigitsRead ==
  ASSUME NEW n \in Nat
  PROVE  /\ Digits(n) \in Seq(Nat) /\ Len(Digits(n)) = NumDigits(n) /\ NumDigits(n) \in Nat
         /\ NumberIn(Digits(n)) = n
         /\ n # 0 => Digits(n) # << >> /\ Digits(n)[1] \in Nat \ {0}
  <1> DEFINE d == Digits(n)
             size == NumDigits(n)
             Rest(i) == n \div Power(Radix, size - i)
  <1>1. /\ Radix \in Nat /\ Radix > 1 /\ size \in Nat /\ n < Power(Radix, size)
        /\ size # 0 => n >= Power(Radix, size - 1)
    BY NumDigitsDef, FormatAssumption
  <1> HIDE DEF size
  <1>2. \A i \in 0 .. size : Power(Radix, size - i) \in Nat \ {0} /\ Rest(i) \in Nat
    <2> TAKE i \in 0 .. size
    <2>1. size - i \in Nat
      BY <1>1
    <2> DEFINE p == Power(Radix, size - i)
    <2>2. p \in Nat \ {0}
      BY <1>1, <2>1, PowerPositive
    <2> HIDE DEF p
    <2>3. n \div p \in Nat
      BY <2>2
    <2> QED
      BY <2>2, <2>3 DEF p
  <1>3. /\ d \in Seq(Nat) /\ Len(d) = size
        /\ \A i \in 1 .. size : d[i] = Rest(i) % Radix
    <2>1. d = [i \in 1 .. size |-> Rest(i) % Radix]
      BY DEF Digits, size
    <2>2. \A i \in 1 .. size : Rest(i) % Radix \in Nat
      <3> TAKE i \in 1 .. size
      <3>1. Rest(i) \in Nat
        BY <1>1, <1>2
      <3> HIDE DEF Rest
      <3> QED
        BY <3>1, NextDigitOf
    <2> HIDE DEF d, Rest
    <2> QED
      BY <1>1, <2>1, <2>2
  <1> HIDE DEF d
  <1>4. ASSUME NEW i \in 1 .. size PROVE Rest(i - 1) = Rest(i) \div Radix
    <2> DEFINE p == Power(Radix, size - i)
    <2>1. Power(Radix, (size - i) + 1) = Radix * p /\ size - i \in Nat
      BY <1>1, PowerDef
    <2>2. size - (i - 1) = (size - i) + 1
      BY <1>1
    <2>3. p \in Nat \ {0}
      BY <1>1, <1>2
    <2>4. Power(Radix, size - (i - 1)) = p * Radix
      <3> HIDE DEF p
      <3> QED
        BY <1>1, <2>1, <2>2, <2>3
    <2> HIDE DEF p
    <2>5. (n \div p) \div Radix = n \div (p * Radix)
      BY <1>1, <2>3
    <2> QED
      BY <2>4, <2>5 DEF p
  <1> DEFINE right == {i \in Nat : i <= size => Reads(d)[i] = Rest(i)}
  <1>5. \A i \in Nat : i \in right
    <2>1. 0 \in right
      <3> DEFINE p == Power(Radix, size)
      <3>1. p \in Nat /\ n < p /\ size - 0 = size
        BY <1>1, PowerDef
      <3> HIDE DEF p
      <3>2. n \div p = 0
        BY <3>1
      <3>3. Rest(0) = 0
        BY <3>1, <3>2 DEF p
      <3> HIDE DEF Rest
      <3> QED
        BY <1>3, <3>3, ReadsDef
    <2>2. ASSUME NEW i \in Nat, i \in right PROVE i + 1 \in right
      <3> SUFFICES ASSUME i + 1 <= size PROVE Reads(d)[i + 1] = Rest(i + 1)
        OBVIOUS
      <3> DEFINE q == Rest(i + 1)
      <3>1. i + 1 \in 1 .. size /\ i + 1 \in 0 .. size /\ (i + 1) - 1 = i /\ i <= size
        BY <1>1
      <3>2. q \in Nat /\ d[i + 1] = q % Radix
        BY <1>2, <1>3, <3>1
      <3>3. Rest(i) = q \div Radix
        <4>1. Rest((i + 1) - 1) = q \div Radix
          BY <1>4, <3>1
        <4> HIDE DEF q, Rest
        <4> QED
          BY <3>1, <4>1
      <3>4. Reads(d)[i + 1] = Reads(d)[i] * Radix + d[i + 1]
        BY <1>3, <3>1, ReadsDef
      <3>5. Reads(d)[i] = Rest(i)
        BY <2>2, <3>1
      <3> HIDE DEF q, Rest
      <3>6. Reads(d)[i + 1] = (q \div Radix) * Radix + (q % Radix)
        BY <3>2, <3>3, <3>4, <3>5
      <3> QED
        BY <3>2, <3>6, NextDigitOf DEF q
    <2> HIDE DEF right
    <2> QED
      BY <2>1, <2>2, Induction
  <1>6. Reads(d)[size] = n
    <2>1. Reads(d)[size] = n \div Power(Radix, size - size)
      BY <1>1, <1>5
    <2>2. size - size = 0 /\ Power(Radix, 0) = 1
      BY <1>1, PowerDef
    <2>3. n \div 1 = n
      OBVIOUS
    <2> QED
      BY <2>1, <2>2, <2>3
  <1>7. NumberIn(d) = n
    BY <1>3, <1>6, ReadsDef
  <1>8. ASSUME n # 0 PROVE d # << >> /\ d[1] \in Nat \ {0}
    <2>1. size # 0
      BY <1>1, <1>8, PowerDef
    <2>2. 1 \in 1 .. size
      BY <1>1, <2>1
    <2>3. d # << >> /\ d[1] \in Nat
      BY <1>1, <1>3, <2>1, <2>2
    <2> DEFINE p == Power(Radix, size - 1)
               q == n \div p
    <2>4. p \in Nat \ {0} /\ n >= p /\ d[1] = q % Radix
      <3>1. p \in Nat \ {0}
        <4>1. 1 \in 0 .. size
          BY <2>2
        <4> QED
          BY <1>2, <4>1
      <3>2. n >= p
        BY <1>1, <2>1
      <3>3. d[1] = Rest(1) % Radix
        <4> HIDE DEF Rest
        <4> QED
          BY <1>3, <2>2
      <3> QED
        BY <3>1, <3>2, <3>3
    <2>5. n < Radix * p
      <3>1. Power(Radix, (size - 1) + 1) = Radix * p /\ (size - 1) + 1 = size
        BY <1>1, <2>1, PowerDef
      <3> QED
        BY <1>1, <3>1
    <2> HIDE DEF p
    <2>6. q \in Nat /\ q >= 1 /\ q < Radix
      <3>1. q \in Nat /\ q * p <= n /\ n < (q + 1) * p
        BY <2>4
      <3> HIDE DEF q
      <3>2. q # 0
        BY <2>4, <3>1
      <3>3. ~(q >= Radix)
        <4> SUFFICES ASSUME q >= Radix PROVE FALSE
          OBVIOUS
        <4>1. q * p >= Radix * p
          BY <1>1, <2>4, <3>1
        <4> QED
          BY <1>1, <2>4, <2>5, <3>1, <4>1
      <3> QED
        BY <1>1, <3>1, <3>2, <3>3
    <2> HIDE DEF q
    <2>7. q % Radix = q
      BY <1>1, <2>6
    <2> QED
      BY <2>3, <2>4, <2>6, <2>7
  <1> QED
    BY <1>1, <1>3, <1>7, <1>8 DEF d, size

-----------------------------------------------------------------------------
(* Texts: digits, perhaps with a point among them.                         *)

Chars == Nat \cup {Point}

\* A text without a point is its whole part.
LEMMA PlainReads ==
  ASSUME NEW d \in Seq(Nat)
  PROVE  Points(d) = {} /\ Whole(d) = d /\ Fraction(d) = Empty
  <1>1. \A i \in DOMAIN d : d[i] # Point
    BY DEF Point
  <1> QED
    BY <1>1 DEF Points, Whole, Fraction

\* The text with the digits whole in front of the point, fraction behind it.
Pointed(whole, fraction) == (whole \o << Point >>) \o fraction

\* The characters of a text with a point.
LEMMA PointedChars ==
  ASSUME NEW H \in Seq(Nat), NEW F \in Seq(Nat)
  PROVE  /\ Pointed(H, F) \in Seq(Chars) /\ Len(Pointed(H, F)) = Len(H) + 1 + Len(F)
         /\ \A i \in 1 .. Len(H) : Pointed(H, F)[i] = H[i]
         /\ Pointed(H, F)[Len(H) + 1] = Point
         /\ \A i \in 1 .. Len(F) : Pointed(H, F)[Len(H) + 1 + i] = F[i]
  <1> DEFINE P == << Point >>
             HP == H \o P
  <1>1. H \in Seq(Chars) /\ F \in Seq(Chars)
    BY SeqMonotonic DEF Chars
  <1>2. P \in Seq(Chars) /\ Len(P) = 1 /\ P[1] = Point
    BY DEF Chars
  <1> HIDE DEF P
  <1>3. /\ HP \in Seq(Chars) /\ Len(HP) = Len(H) + 1 /\ HP[Len(H) + 1] = Point
        /\ \A i \in 1 .. Len(H) : HP[i] = H[i]
    <2>1. /\ HP \in Seq(Chars) /\ Len(HP) = Len(H) + Len(P)
          /\ \A i \in 1 .. Len(H) + Len(P) :
               HP[i] = IF i <= Len(H) THEN H[i] ELSE P[i - Len(H)]
      <3> HIDE DEF Chars
      <3> QED
        BY <1>1, <1>2, ConcatProperties
    <2> HIDE DEF HP
    <2>2. Len(H) \in Nat /\ (Len(H) + 1) - Len(H) = 1
      OBVIOUS
    <2>3. HP[Len(H) + 1] = Point
      BY <1>2, <2>1, <2>2
    <2>4. \A i \in 1 .. Len(H) : HP[i] = H[i]
      BY <1>2, <2>1, <2>2
    <2> QED
      BY <1>2, <2>1, <2>3, <2>4
  <1> HIDE DEF HP
  <1>4. /\ HP \o F \in Seq(Chars) /\ Len(HP \o F) = Len(HP) + Len(F)
        /\ \A i \in 1 .. Len(HP) + Len(F) :
             (HP \o F)[i] = IF i <= Len(HP) THEN HP[i] ELSE F[i - Len(HP)]
    BY <1>1, <1>3, ConcatProperties
  <1> DEFINE t == HP \o F
  <1>5. t = Pointed(H, F)
    BY DEF Pointed, HP, P
  <1> HIDE DEF t
  <1>6. Len(H) \in Nat /\ Len(F) \in Nat
    OBVIOUS
  <1>7. /\ t \in Seq(Chars) /\ Len(t) = Len(H) + 1 + Len(F)
        /\ \A i \in 1 .. Len(H) : t[i] = H[i]
    <2>1. t \in Seq(Chars) /\ Len(t) = Len(H) + 1 + Len(F)
      BY <1>3, <1>4, <1>6 DEF t
    <2>2. \A i \in 1 .. Len(H) : t[i] = H[i]
      <3> TAKE i \in 1 .. Len(H)
      <3>1. i \in 1 .. Len(HP) + Len(F) /\ i <= Len(HP) /\ HP[i] = H[i]
        BY <1>3, <1>6
      <3> QED
        BY <1>4, <3>1 DEF t
    <2> QED
      BY <2>1, <2>2
  <1>8. t[Len(H) + 1] = Point
    BY <1>3, <1>4, <1>6 DEF t
  <1>9. \A i \in 1 .. Len(F) : t[Len(H) + 1 + i] = F[i]
    <2> TAKE i \in 1 .. Len(F)
    <2>1. /\ Len(H) + 1 + i \in 1 .. Len(HP) + Len(F) /\ ~(Len(H) + 1 + i <= Len(HP))
          /\ (Len(H) + 1 + i) - Len(HP) = i
      BY <1>3, <1>6
    <2> QED
      BY <1>4, <2>1 DEF t
  <1> QED
    BY <1>5, <1>7, <1>8, <1>9

\* It is read as it was written.
LEMMA PointedReads ==
  ASSUME NEW H \in Seq(Nat), NEW F \in Seq(Nat)
  PROVE  /\ Points(Pointed(H, F)) = {Len(H) + 1}
         /\ Whole(Pointed(H, F)) = H /\ Fraction(Pointed(H, F)) = F
  <1> DEFINE t == Pointed(H, F)
             h == Len(H)
             l == Len(F)
  <1>1. /\ t \in Seq(Chars) /\ Len(t) = h + 1 + l /\ h \in Nat /\ l \in Nat
        /\ \A i \in 1 .. h : t[i] = H[i] /\ H[i] \in Nat
        /\ t[h + 1] = Point
        /\ \A i \in 1 .. l : t[h + 1 + i] = F[i] /\ F[i] \in Nat
    <2>1. h \in Nat /\ l \in Nat /\ \A i \in 1 .. h : H[i] \in Nat
      OBVIOUS
    <2>2. \A i \in 1 .. l : F[i] \in Nat
      OBVIOUS
    <2> QED
      BY <2>1, <2>2, PointedChars, Zenon
  <1> HIDE DEF t
  <1>2. Points(t) = {h + 1}
    <2>1. DOMAIN t = 1 .. h + 1 + l
      BY <1>1
    <2>2. \A i \in 1 .. h + 1 + l : i # h + 1 => t[i] # Point
      <3> SUFFICES ASSUME NEW i \in 1 .. h + 1 + l, i # h + 1 PROVE t[i] # Point
        OBVIOUS
      <3>1. CASE i <= h
        <4>1. i \in 1 .. h
          BY <1>1, <3>1
        <4>2. t[i] \in Nat
          BY <1>1, <4>1, Zenon
        <4> QED
          BY <4>2 DEF Point
      <3>2. CASE i > h
        <4>1. i - (h + 1) \in 1 .. l /\ h + 1 + (i - (h + 1)) = i
          BY <1>1, <3>2
        <4>2. t[i] \in Nat
          <5>1. \A j \in 1 .. l : t[h + 1 + j] \in Nat
            BY <1>1, Zenon
          <5> HIDE DEF h, l
          <5> QED
            BY <4>1, <5>1
        <4> QED
          BY <4>2 DEF Point
      <3> QED
        BY <1>1, <3>1, <3>2
    <2>3. h + 1 \in 1 .. h + 1 + l
      BY <1>1
    <2> HIDE DEF h, l
    <2> QED
      BY <1>1, <2>1, <2>2, <2>3 DEF Points
  <1>3. PointOf(t) = h + 1 /\ Points(t) # {}
    BY <1>2 DEF PointOf
  <1>4. Whole(t) = H
    <2> DEFINE w == SubSeq(t, 1, h)
    <2>1. \A i \in 1 .. h : t[i] \in Nat
      BY <1>1
    <2>2. /\ w \in Seq(Nat) /\ Len(w) = IF 1 <= h THEN h - 1 + 1 ELSE 0
          /\ \A i \in 1 .. h - 1 + 1 : w[i] = t[1 + i - 1]
      <3> HIDE DEF h
      <3> QED
        BY <1>1, <2>1, SubSeqProperties
    <2> HIDE DEF w
    <2>3. Len(w) = Len(H)
      BY <1>1, <2>2
    <2>4. \A i \in 1 .. Len(w) : w[i] = H[i]
      <3> TAKE i \in 1 .. Len(w)
      <3>1. i \in 1 .. h - 1 + 1 /\ 1 + i - 1 = i /\ i \in 1 .. h
        BY <1>1, <2>3
      <3> QED
        BY <1>1, <2>2, <3>1
    <2>5. w = H
      BY <2>2, <2>3, <2>4, SeqEqual
    <2>6. (h + 1) - 1 = h
      BY <1>1
    <2> HIDE DEF h
    <2> QED
      BY <1>3, <2>5, <2>6 DEF Whole, w
  <1>5. Fraction(t) = F
    <2> DEFINE f == SubSeq(t, h + 2, h + 1 + l)
    <2>1. \A i \in h + 2 .. h + 1 + l : t[i] \in Nat
      <3> TAKE i \in h + 2 .. h + 1 + l
      <3>1. i - (h + 1) \in 1 .. l /\ h + 1 + (i - (h + 1)) = i
        BY <1>1
      <3> QED
        BY <1>1, <3>1
    <2> DEFINE m == h + 2
               n == h + 1 + l
    <2>2. m \in Int /\ n \in Int /\ n - m + 1 = l /\ (m <= n <=> l > 0)
      BY <1>1
    <2>3. /\ f \in Seq(Nat) /\ Len(f) = IF m <= n THEN n - m + 1 ELSE 0
          /\ \A i \in 1 .. n - m + 1 : f[i] = t[m + i - 1]
      <3> HIDE DEF m, n
      <3> QED
        BY <2>1, <2>2, SubSeqProperties DEF m, n
    <2> HIDE DEF f
    <2>4. Len(f) = Len(F)
      BY <1>1, <2>2, <2>3
    <2>5. \A i \in 1 .. Len(f) : f[i] = F[i]
      <3> TAKE i \in 1 .. Len(f)
      <3>1. i \in 1 .. n - m + 1 /\ m + i - 1 = h + 1 + i /\ i \in 1 .. l
        BY <1>1, <2>2, <2>4
      <3> QED
        BY <1>1, <2>3, <3>1
    <2>6. f = F
      BY <2>3, <2>4, <2>5, SeqEqual
    <2>7. (h + 1) + 1 = h + 2
      BY <1>1
    <2> HIDE DEF h, l
    <2> QED
      BY <1>1, <1>3, <2>6, <2>7 DEF Fraction, f
  <1> QED
    BY <1>2, <1>4, <1>5 DEF t

-----------------------------------------------------------------------------
(* Cutting the zeros a text ends with.                                     *)

\* There is a last character to be kept.
LEMMA TrimKept ==
  ASSUME NEW t \in Seq(Chars), NEW start \in 1 .. Len(t)
  PROVE  \E kept \in start .. Len(t) :
           /\ \A i \in kept + 1 .. Len(t) : t[i] = 0
           /\ kept > start => t[kept] # 0
           /\ TrimZeros(t, start)
                = SubSeq(t, 1, IF kept < Len(t) /\ t[kept] = Point THEN kept - 1 ELSE kept)
  <1> DEFINE ends == {k \in Nat : /\ start <= k /\ k <= Len(t)
                                  /\ \A i \in k + 1 .. Len(t) : t[i] = 0}
             Kept(k) == /\ \A i \in k + 1 .. Len(t) : t[i] = 0
                        /\ k > start => t[k] # 0
             kept == CHOOSE k \in start .. Len(t) : Kept(k)
  <1>1. Len(t) \in Nat /\ start \in Nat /\ start <= Len(t)
    OBVIOUS
  <1>2. PICK k \in ends : \A j \in ends : k <= j
    <2>1. Len(t) \in ends
      BY <1>1
    <2>2. ends \in SUBSET Nat /\ ends # {}
      BY <2>1
    <2> HIDE DEF ends
    <2> QED
      BY <2>2, LeastNatural
  <1>3. k \in start .. Len(t) /\ Kept(k)
    <2>1. k \in start .. Len(t) /\ \A i \in k + 1 .. Len(t) : t[i] = 0
      BY <1>1, <1>2
    <2>2. ASSUME k > start, t[k] = 0 PROVE FALSE
      <3>1. k - 1 \in Nat /\ start <= k - 1 /\ k - 1 <= Len(t)
        BY <1>1, <2>1, <2>2
      <3>2. \A i \in (k - 1) + 1 .. Len(t) : i = k \/ i \in k + 1 .. Len(t)
        BY <1>1, <2>1
      <3>3. \A i \in (k - 1) + 1 .. Len(t) : t[i] = 0
        BY <2>1, <2>2, <3>2, Zenon
      <3>4. k - 1 \in ends
        BY <3>1, <3>3
      <3>5. k <= k - 1
        BY <1>2, <3>4
      <3> QED
        BY <2>1, <3>5
    <2> QED
      BY <2>1, <2>2
  <1>4. kept \in start .. Len(t) /\ Kept(kept)
    <2> HIDE DEF Kept
    <2> QED
      BY <1>3
  <1>5. TrimZeros(t, start)
          = SubSeq(t, 1, IF kept < Len(t) /\ t[kept] = Point THEN kept - 1 ELSE kept)
    BY DEF TrimZeros
  <1> HIDE DEF kept
  <1> QED
    BY <1>4, <1>5

\* What is left of a text with the digits H and F when it is cut.
IsTrimmed(r, H, F, start) ==
  \E n \in 0 .. Len(F), f \in Seq(Nat) :
    /\ Len(f) = n /\ F = f \o ZeroDigits(Len(F) - n)
    /\ r = Pointed(H, f) \/ (r = H /\ n = 0)
    /\ Len(H) + 1 + n > start => f[n] # 0
    /\ Len(H) + 1 + n >= start /\ \A i \in n + 1 .. Len(F) : F[i] = 0
    /\ \A i \in 1 .. n : f[i] = F[i]

\* What is cut behind the point is nothing but zeros.
LEMMA TrimPointed ==
  ASSUME NEW H \in Seq(Nat), NEW F \in Seq(Nat),
         NEW start \in Len(H) + 1 .. Len(H) + 1 + Len(F)
  PROVE  IsTrimmed(TrimZeros(Pointed(H, F), start), H, F, start)
  <1> DEFINE t == Pointed(H, F)
             h == Len(H)
             l == Len(F)
             r == TrimZeros(t, start)
  <1>1. /\ t \in Seq(Chars) /\ Len(t) = h + 1 + l /\ h \in Nat /\ l \in Nat
        /\ \A i \in 1 .. h : t[i] = H[i]
        /\ t[h + 1] = Point
        /\ \A i \in 1 .. l : t[h + 1 + i] = F[i]
    BY PointedChars
  <1>2. \A i \in 1 .. l : F[i] \in Nat
    OBVIOUS
  <1> HIDE DEF t
  <1>3. PICK kept \in start .. Len(t) :
          /\ \A i \in kept + 1 .. Len(t) : t[i] = 0
          /\ kept > start => t[kept] # 0
          /\ r = SubSeq(t, 1, IF kept < Len(t) /\ t[kept] = Point THEN kept - 1 ELSE kept)
    <2>1. start \in 1 .. Len(t)
      BY <1>1
    <2> QED
      BY <1>1, <2>1, TrimKept
  <1> DEFINE n == kept - (h + 1)
             f == SubSeq(F, 1, n)
  <1>4. n \in 0 .. l /\ n \in Nat /\ kept = h + 1 + n /\ kept \in Nat /\ h + 1 + n >= start
    BY <1>1, <1>3
  <1>5. f \in Seq(Nat) /\ Len(f) = n /\ \A i \in 1 .. n : f[i] = F[i] /\ F[i] \in Nat
    <2>1. \A i \in 1 .. n : F[i] \in Nat
      BY <1>2, <1>4
    <2>2. /\ f \in Seq(Nat) /\ Len(f) = IF 1 <= n THEN n - 1 + 1 ELSE 0
          /\ \A i \in 1 .. n - 1 + 1 : f[i] = F[1 + i - 1]
      <3> HIDE DEF n
      <3> QED
        BY <1>4, <2>1, SubSeqProperties
    <2>3. Len(f) = n
      BY <1>4, <2>2
    <2>4. \A i \in 1 .. n : f[i] = F[i]
      <3> TAKE i \in 1 .. n
      <3>1. i \in 1 .. n - 1 + 1 /\ 1 + i - 1 = i
        BY <1>4
      <3> QED
        BY <2>2, <3>1
    <2> QED
      BY <2>1, <2>2, <2>3, <2>4
  <1> HIDE DEF n, f, r
  <1>6. \A i \in n + 1 .. l : F[i] = 0
    <2> TAKE i \in n + 1 .. l
    <2>1. h + 1 + i \in kept + 1 .. Len(t) /\ i \in 1 .. l
      BY <1>1, <1>4
    <2> QED
      BY <1>1, <1>3, <2>1
  <1>7. F = f \o ZeroDigits(l - n)
    <2> DEFINE z == ZeroDigits(l - n)
               c == f \o z
    <2>1. z \in Seq(Nat) /\ Len(z) = l - n /\ \A i \in 1 .. l - n : z[i] = 0
      <3>1. l - n \in Nat
        BY <1>1, <1>4
      <3> QED
        BY <3>1, ReadZeros
    <2> HIDE DEF z
    <2>2. /\ c \in Seq(Nat) /\ Len(c) = Len(f) + Len(z)
          /\ \A i \in 1 .. Len(f) + Len(z) : c[i] = IF i <= Len(f) THEN f[i] ELSE z[i - Len(f)]
      BY <1>5, <2>1, ConcatProperties
    <2> HIDE DEF c
    <2>3. Len(c) = Len(F)
      BY <1>1, <1>4, <1>5, <2>1, <2>2
    <2>4. \A i \in 1 .. Len(F) : F[i] = c[i]
      <3> TAKE i \in 1 .. Len(F)
      <3>1. i \in 1 .. Len(f) + Len(z)
        BY <2>2, <2>3
      <3>2. CASE i <= n
        <4>1. i \in 1 .. n
          BY <3>2
        <4> QED
          BY <1>5, <2>2, <3>1, <3>2, <4>1
      <3>3. CASE i > n
        <4>1. i \in n + 1 .. l /\ i - n \in 1 .. l - n /\ ~(i <= Len(f))
          BY <1>4, <1>5, <3>3
        <4> QED
          BY <1>5, <1>6, <2>1, <2>2, <3>1, <4>1
      <3> QED
        BY <1>4, <3>2, <3>3
    <2> QED
      BY <2>2, <2>3, <2>4, SeqEqual DEF c, z
  <1>8. r = Pointed(H, f) \/ (r = H /\ n = 0)
    <2> DEFINE c == Pointed(H, f)
    <2>1. /\ c \in Seq(Chars) /\ Len(c) = h + 1 + n
          /\ \A i \in 1 .. h : c[i] = H[i]
          /\ c[h + 1] = Point
          /\ \A i \in 1 .. n : c[h + 1 + i] = f[i]
      BY <1>5, PointedChars
    <2> HIDE DEF c
    <2>2. \A i \in 1 .. Len(t) : t[i] \in Chars
      BY <1>1
    <2>3. CASE kept < Len(t) /\ t[kept] = Point
      <3>1. n = 0
        <4> SUFFICES ASSUME n > 0 PROVE FALSE
          BY <1>4
        <4>1. n \in 1 .. l /\ n \in 1 .. n
          BY <1>4
        <4>2. t[kept] \in Nat
          BY <1>1, <1>2, <1>4, <4>1
        <4> QED
          BY <2>3, <4>2 DEF Point
      <3> DEFINE s == SubSeq(t, 1, h)
      <3>2. r = s
        BY <1>1, <1>3, <1>4, <2>3, <3>1
      <3>3. \A i \in 1 .. h : t[i] \in Nat
        BY <1>1
      <3>4. /\ s \in Seq(Nat) /\ Len(s) = IF 1 <= h THEN h - 1 + 1 ELSE 0
            /\ \A i \in 1 .. h - 1 + 1 : s[i] = t[1 + i - 1]
        <4> HIDE DEF h
        <4> QED
          BY <1>1, <3>3, SubSeqProperties
      <3> HIDE DEF s
      <3>5. Len(s) = Len(H)
        BY <1>1, <3>4
      <3>6. \A i \in 1 .. Len(s) : s[i] = H[i]
        <4> TAKE i \in 1 .. Len(s)
        <4>1. i \in 1 .. h - 1 + 1 /\ 1 + i - 1 = i /\ i \in 1 .. h
          BY <1>1, <3>5
        <4> QED
          BY <1>1, <3>4, <4>1
      <3> QED
        BY <3>1, <3>2, <3>4, <3>5, <3>6, SeqEqual
    <2>4. CASE ~(kept < Len(t) /\ t[kept] = Point)
      <3> DEFINE s == SubSeq(t, 1, kept)
      <3>1. r = s
        BY <1>3, <2>4
      <3>2. \A i \in 1 .. kept : t[i] \in Chars
        BY <1>1, <1>3, <1>4, <2>2
      <3>3. /\ s \in Seq(Chars) /\ Len(s) = IF 1 <= kept THEN kept - 1 + 1 ELSE 0
            /\ \A i \in 1 .. kept - 1 + 1 : s[i] = t[1 + i - 1]
        BY <1>4, <3>2, SubSeqProperties
      <3> HIDE DEF s
      <3>4. Len(s) = kept /\ \A i \in 1 .. kept : s[i] = t[i]
        <4>1. Len(s) = kept
          BY <1>1, <1>4, <3>3
        <4>2. \A i \in 1 .. kept : i \in 1 .. kept - 1 + 1 /\ 1 + i - 1 = i
          BY <1>4
        <4> QED
          BY <3>3, <4>1, <4>2
      <3>5. \A i \in 1 .. kept : s[i] = c[i]
        <4> TAKE i \in 1 .. kept
        <4>1. CASE i <= h
          <5>1. i \in 1 .. h
            BY <1>1, <1>4, <4>1
          <5> QED
            BY <1>1, <2>1, <3>4, <5>1
        <4>2. CASE i = h + 1
          BY <1>1, <2>1, <3>4, <4>2
        <4>3. CASE i > h + 1
          <5> DEFINE j == i - (h + 1)
          <5>1. j \in 1 .. n /\ j \in 1 .. l /\ h + 1 + j = i
            BY <1>1, <1>4, <4>3
          <5>2. t[i] = F[j] /\ c[i] = f[j]
            BY <1>1, <2>1, <5>1
          <5> QED
            BY <1>5, <3>4, <5>1, <5>2
        <4> QED
          BY <1>1, <1>4, <4>1, <4>2, <4>3
      <3>6. Len(s) = Len(c) /\ \A i \in 1 .. Len(s) : s[i] = c[i]
        BY <1>4, <2>1, <3>4, <3>5
      <3>7. s = c
        BY <2>1, <3>3, <3>6, SeqEqual
      <3> QED
        BY <3>1, <3>7 DEF c
    <2> QED
      BY <2>3, <2>4
  <1>9. h + 1 + n > start => f[n] # 0
    <2> SUFFICES ASSUME h + 1 + n > start PROVE f[n] # 0
      OBVIOUS
    <2>1. n \in 1 .. n /\ n \in 1 .. l /\ kept > start
      BY <1>1, <1>4
    <2>2. t[kept] = F[n] /\ f[n] = F[n]
      BY <1>1, <1>4, <1>5, <2>1
    <2> QED
      BY <1>3, <2>1, <2>2
  <1> QED
    <2>1. n \in 0 .. Len(F) /\ f \in Seq(Nat) /\ Len(f) = n
      BY <1>4, <1>5
    <2>2. \A i \in 1 .. n : f[i] = F[i]
      BY <1>5
    <2> DEFINE s == TrimZeros(Pointed(H, F), start)
    <2>3. s = Pointed(H, f) \/ (s = H /\ n = 0)
      BY <1>8 DEF r, t
    <2> HIDE DEF s
    <2>4. \E m \in 0 .. Len(F), g \in Seq(Nat) :
            /\ Len(g) = m /\ F = g \o ZeroDigits(Len(F) - m)
            /\ s = Pointed(H, g) \/ (s = H /\ m = 0)
            /\ Len(H) + 1 + m > start => g[m] # 0
            /\ Len(H) + 1 + m >= start /\ \A i \in m + 1 .. Len(F) : F[i] = 0
            /\ \A i \in 1 .. m : g[i] = F[i]
      BY <1>4, <1>6, <1>7, <1>9, <2>1, <2>2, <2>3, Zenon
    <2> QED
      BY <2>4, Zenon DEF s, IsTrimmed

\* The parts of a text are digits.
Readable(text) == Whole(text) \in Seq(Nat) /\ Fraction(text) \in Seq(Nat) /\ text # Empty

\* The cut text reads as the digits H and F did, and it ends with no zero when
\* the cut may reach the point or the first digit that is no zero.
ReadsAlike(r, H, F, start) ==
  /\ Denotes(r, NumberIn(H \o F), Len(F)) /\ Readable(r)
  /\ Len(r) <= Len(H) + 1 + Len(F)
  /\ (\/ start = Len(H) + 1
      \/ start - Len(H) \in 1 .. Len(F) /\ F[start - Len(H)] # 0)
     => (Fraction(r) # Empty => r[Len(r)] # 0)

\* What is left of a text with a point reads as it did.
LEMMA TrimDenotes ==
  ASSUME NEW H \in Seq(Nat), NEW F \in Seq(Nat), H # Empty,
         NEW start \in Len(H) + 1 .. Len(H) + 1 + Len(F),
         NEW r, r = TrimZeros(Pointed(H, F), start)
  PROVE  ReadsAlike(r, H, F, start)
  <1> DEFINE h == Len(H)
             l == Len(F)
  <1>1. h \in Nat /\ l \in Nat /\ h # 0
    BY DEF Empty
  <1>2. PICK n \in 0 .. l, f \in Seq(Nat) :
          /\ Len(f) = n /\ F = f \o ZeroDigits(l - n)
          /\ r = Pointed(H, f) \/ (r = H /\ n = 0)
          /\ h + 1 + n > start => f[n] # 0
          /\ h + 1 + n >= start /\ \A i \in n + 1 .. l : F[i] = 0
          /\ \A i \in 1 .. n : f[i] = F[i]
    <2>1. IsTrimmed(r, H, F, start)
      BY TrimPointed
    <2> QED
      BY <2>1, Zenon DEF IsTrimmed
  <1> HIDE DEF h, l
  <1>3. /\ \A i, j \in Points(r) : i = j
        /\ Whole(r) = H /\ Fraction(r) = f
    <2>1. CASE r = Pointed(H, f)
      <3> QED
        BY <2>1, PointedReads
    <2>2. CASE r = H /\ n = 0
      <3>1. f = Empty
        BY <1>2, <2>2 DEF Empty
      <3> QED
        BY <2>2, <3>1, PlainReads
    <2> QED
      BY <1>2, <2>1, <2>2
  <1>4. Readable(r)
    <2>1. r # Empty
      <3>1. CASE r = Pointed(H, f)
        <4>1. Len(Pointed(H, f)) = Len(H) + 1 + Len(f)
          BY PointedChars
        <4>2. Len(r) = Len(H) + 1 + Len(f) /\ Len(H) \in Nat /\ Len(f) \in Nat
          BY <3>1, <4>1
        <4> QED
          BY <4>2 DEF Empty
      <3>2. CASE r = H
        BY <3>2
      <3> QED
        BY <1>2, <3>1, <3>2
    <2> QED
      BY <1>2, <1>3, <2>1 DEF Readable
  <1>5. NumberIn(H \o F) = NumberIn(H \o f) * Power(Radix, l - n)
    <2> DEFINE z == ZeroDigits(l - n)
               c == H \o f
    <2>1. l - n \in Nat
      BY <1>1
    <2>2. z \in Seq(Nat) /\ Len(z) = l - n /\ NumberIn(z) = 0
      BY <2>1, ReadZeros
    <2>3. F = f \o z
      BY <1>2
    <2> HIDE DEF z
    <2>4. H \o F = (H \o f) \o z
      <3>1. H \in Seq(Nat) /\ f \in Seq(Nat)
        BY <1>2
      <3>2. Chain(Chain(H, f), z) = Chain(H, Chain(f, z))
        <4> DEFINE S == Nat
        <4>1. H \in Seq(S) /\ f \in Seq(S) /\ z \in Seq(S)
          BY <2>2, <3>1
        <4> HIDE DEF S
        <4> QED
          BY <4>1, ChainsAssociate
      <3> QED
        BY <2>3, <3>2 DEF Chain
    <2>5. c \in Seq(Nat)
      BY <1>2, ConcatProperties
    <2>6. H \o F = c \o z
      BY <2>4
    <2> HIDE DEF c
    <2>7. NumberIn(H \o F) = NumberIn(c) * Power(Radix, Len(z)) + NumberIn(z)
      BY <2>2, <2>5, <2>6, ReadConcat
    <2>8. NumberIn(c) \in Nat
      BY <2>5, ReadsDef
    <2>9. Power(Radix, l - n) \in Nat
      BY <2>1, PowerDef, FormatAssumption
    <2> DEFINE x == NumberIn(c)
               y == Power(Radix, l - n)
    <2>10. NumberIn(H \o F) = x * y + 0 /\ x * y \in Nat
      <3>1. NumberIn(H \o F) = x * y + 0
        BY <2>2, <2>7
      <3>2. x \in Nat /\ y \in Nat
        BY <2>8, <2>9
      <3> HIDE DEF x, y
      <3> QED
        BY <3>1, <3>2, Arithmetic
    <2>11. NumberIn(H \o F) = x * y
      <3> HIDE DEF x, y
      <3> QED
        BY <2>10
    <2> QED
      BY <2>11 DEF x, y, c
  <1>6. Denotes(r, NumberIn(H \o F), l)
    <2>1. Len(Fraction(r)) = n /\ Whole(r) # Empty /\ n <= l
      BY <1>1, <1>2, <1>3
    <2> QED
      BY <1>3, <1>5, <2>1 DEF Denotes
  <1>7. Len(r) <= h + 1 + l
    <2>1. Len(Pointed(H, f)) = h + 1 + n
      BY <1>2, PointedChars DEF h
    <2>2. Len(r) = h + 1 + n \/ Len(r) = h
      BY <1>2, <2>1 DEF h
    <2> QED
      BY <1>1, <2>2
  <1>8. ASSUME start = h + 1 \/ (start - h \in 1 .. l /\ F[start - h] # 0),
               Fraction(r) # Empty
        PROVE  r[Len(r)] # 0
    <2>1. n # 0
      BY <1>2, <1>3, <1>8 DEF Empty
    <2>2. h + 1 + n > start
      <3>1. CASE start = h + 1
        BY <1>1, <2>1, <3>1
      <3>2. CASE start - h \in 1 .. l /\ F[start - h] # 0
        <4>1. ~(start - h \in n + 1 .. l)
          BY <1>2, <3>2
        <4>2. start \in Int
          BY <1>1 DEF h, l
        <4> QED
          BY <1>1, <3>2, <4>1, <4>2
      <3> QED
        BY <1>8, <3>1, <3>2
    <2>3. f[n] # 0 /\ r = Pointed(H, f)
      BY <1>2, <2>1, <2>2
    <2>4. Len(r) = h + 1 + n /\ r[h + 1 + n] = f[n]
      <3>1. n \in 1 .. Len(f)
        BY <1>1, <1>2, <2>1
      <3> QED
        <4>1. f \in Seq(Nat) /\ Len(f) = n
          BY <1>2
        <4>2. /\ Len(Pointed(H, f)) = Len(H) + 1 + n
              /\ Pointed(H, f)[Len(H) + 1 + n] = f[n]
          BY <3>1, <4>1, PointedChars
        <4> QED
          BY <2>3, <4>2 DEF h
    <2> QED
      BY <2>3, <2>4
  <1> QED
    BY <1>4, <1>6, <1>7, <1>8 DEF ReadsAlike, h, l

-----------------------------------------------------------------------------
(* adjustDecimals: the text, and the room it asks for.                     *)

Adjusted(src, decimals) ==
  LET whole == Len(src) - decimals
      split == SubSeq(src, 1, whole) \o (IF decimals # 0 THEN << Point >> ELSE Empty)
  IN IF src = ZeroText THEN ZeroText
     ELSE IF whole <= 0
     THEN TrimZeros(<< 0, Point >> \o ZeroDigits(-whole) \o src, 2 - whole)
     ELSE TrimZeros(split \o SubSeq(src, whole + 1, Len(src)), Len(split))

Room(src, decimals) ==
  IF src = ZeroText THEN 2
  ELSE IF Len(src) - decimals <= 0 THEN decimals + 3 ELSE Len(src) + 2

\* The text does not depend on the buffer it is printed to.
LEMMA Adjusting ==
  ASSUME NEW src \in Seq(Nat), NEW size \in Nat, NEW d \in Nat
  PROVE  adjustDecimals(src, size, d)
           = IF size < Room(src, d) THEN NotPrinted ELSE Printed(Adjusted(src, d))
  <1>1. Len(src) \in Nat
    OBVIOUS
  <1>2. CASE src = ZeroText
    BY <1>2 DEF adjustDecimals, Adjusted, Room
  <1>3. CASE src # ZeroText /\ Len(src) - d <= 0
    <2>1. Len(src) + 1 + 2 - (Len(src) - d) = d + 3
      BY <1>1
    <2> QED
      BY <1>3, <2>1 DEF adjustDecimals, Adjusted, Room
  <1>4. CASE src # ZeroText /\ ~(Len(src) - d <= 0)
    <2>1. Len(src) + 1 + 1 = Len(src) + 2
      BY <1>1
    <2> QED
      BY <1>4, <2>1 DEF adjustDecimals, Adjusted, Room
  <1> QED
    BY <1>2, <1>3, <1>4

\* What is said of the text of src with that many decimals.
RightText(r, src, d) ==
  /\ Denotes(r, NumberIn(src), d) /\ Readable(r)
  /\ Len(r) \in Nat /\ Len(r) < Room(src, d)
  /\ (Len(src) # 0 /\ src[1] # 0) \/ src = ZeroText => (Fraction(r) # Empty => r[Len(r)] # 0)

\* The digit zero reads as zero.
LEMMA ZeroReads ==
  /\ ZeroText \in Seq(Nat) /\ Len(ZeroText) = 1 /\ ZeroText[1] = 0
  /\ ZeroText # Empty /\ NumberIn(ZeroText) = 0
  <1> DEFINE z == ZeroText
  <1>1. z \in Seq(Nat) /\ Len(z) = 1 /\ z[1] = 0 /\ z # Empty
    BY DEF ZeroText, Empty
  <1>2. /\ ZeroDigits(1) \in Seq(Nat) /\ Len(ZeroDigits(1)) = 1
        /\ NumberIn(ZeroDigits(1)) = 0 /\ \A i \in 1 .. 1 : ZeroDigits(1)[i] = 0
    BY ReadZeros
  <1>3. \A i \in 1 .. Len(z) : z[i] = ZeroDigits(1)[i]
    BY <1>1, <1>2
  <1> HIDE DEF z
  <1>4. z = ZeroDigits(1)
    BY <1>1, <1>2, <1>3, SeqEqual
  <1> QED
    BY <1>1, <1>2, <1>4 DEF z

\* Zero is printed as it is.
LEMMA AdjustZero ==
  ASSUME NEW d \in Nat
  PROVE  RightText(ZeroText, ZeroText, d)
  <1> DEFINE z == ZeroText
  <1>1. z \in Seq(Nat) /\ Len(z) = 1 /\ z[1] = 0 /\ z # Empty
    BY ZeroReads
  <1>2. Points(z) = {} /\ Whole(z) = z /\ Fraction(z) = Empty
    <2> HIDE DEF z
    <2> QED
      BY <1>1, PlainReads
  <1>3. NumberIn(z) = 0
    BY ZeroReads
  <1> HIDE DEF z
  <1>4. z \o Empty = z /\ Len(Empty) = 0
    BY <1>1, ConcatEmptySeq DEF Empty
  <1>5. Power(Radix, d - 0) \in Nat
    <2>1. Radix \in Nat /\ d - 0 \in Nat
      BY FormatAssumption
    <2> QED
      BY <2>1, PowerDef
  <1>6. Denotes(z, NumberIn(z), d)
    <2>1. NumberIn(z) * Power(Radix, d - 0) = NumberIn(z)
      BY <1>3, <1>5
    <2> QED
      BY <1>1, <1>2, <1>4, <2>1 DEF Denotes
  <1>7. Readable(z)
    BY <1>1, <1>2 DEF Readable, Empty
  <1> QED
    BY <1>1, <1>2, <1>6, <1>7 DEF RightText, Room, z

\* A number with no more digits than decimals gets a zero before the point and
\* zeros behind it.
LEMMA AdjustSmall ==
  ASSUME NEW src \in Seq(Nat), NEW d \in Nat, Len(src) <= d, src # ZeroText
  PROVE  RightText(Adjusted(src, d), src, d)
  <1> DEFINE k == d - Len(src)
             Z == ZeroDigits(k)
             F == Z \o src
             H == << 0 >>
             r == Adjusted(src, d)
             start == 2 + k
  <1>1. k \in Nat /\ Len(src) \in Nat /\ k + Len(src) = d
    OBVIOUS
  <1> HIDE DEF k
  <1>2. Z \in Seq(Nat) /\ Len(Z) = k /\ NumberIn(Z) = 0
    BY <1>1, ReadZeros
  <1>3. H \in Seq(Nat) /\ Len(H) = 1 /\ NumberIn(H) = 0 /\ H # Empty
    <2>1. H = ZeroText
      BY DEF ZeroText
    <2> HIDE DEF H
    <2> QED
      BY <2>1, ZeroReads
  <1> HIDE DEF Z
  <1>4. /\ F \in Seq(Nat) /\ Len(F) = Len(Z) + Len(src)
        /\ \A i \in 1 .. Len(Z) + Len(src) : F[i] = IF i <= Len(Z) THEN Z[i] ELSE src[i - Len(Z)]
    BY <1>2, ConcatProperties
  <1>5. Len(F) = d
    BY <1>1, <1>2, <1>4
  <1>6. << 0, Point >> \o Z \o src = Pointed(H, F)
    <2> DEFINE P == << 0, Point >>
    <2>1. P = H \o << Point >> /\ P \in Seq(Chars)
      BY DEF Chars
    <2>2. Z \in Seq(Chars) /\ src \in Seq(Chars)
      BY <1>2, SeqMonotonic DEF Chars
    <2> HIDE DEF P
    <2>3. Chain(Chain(P, Z), src) = Chain(P, Chain(Z, src))
      <3> DEFINE S == Chars
      <3>1. P \in Seq(S) /\ Z \in Seq(S) /\ src \in Seq(S)
        BY <2>1, <2>2
      <3> HIDE DEF S
      <3> QED
        BY <3>1, ChainsAssociate
    <2>4. (P \o Z) \o src = P \o (Z \o src)
      BY <2>3 DEF Chain
    <2> QED
      BY <2>1, <2>4 DEF P, Pointed
  <1>7. r = TrimZeros(Pointed(H, F), start)
    <2>1. Len(src) - d <= 0 /\ -(Len(src) - d) = k /\ 2 - (Len(src) - d) = 2 + k
      BY DEF k
    <2> DEFINE w == Len(src) - d
    <2>2. r = TrimZeros(<< 0, Point >> \o ZeroDigits(-w) \o src, 2 - w)
      BY <2>1 DEF Adjusted
    <2> HIDE DEF w, r
    <2>3. -w = k /\ 2 - w = 2 + k
      BY <2>1 DEF w
    <2> QED
      BY <1>6, <2>2, <2>3 DEF Z
  <1>8. NumberIn(H \o F) = NumberIn(src)
    <2> DEFINE p == Power(Radix, Len(F))
               q == Power(Radix, Len(src))
    <2>1. p \in Nat /\ q \in Nat
      BY <1>1, <1>5, PowerDef, FormatAssumption
    <2>2. NumberIn(F) = NumberIn(Z) * q + NumberIn(src) /\ NumberIn(src) \in Nat
      BY <1>2, ReadConcat, ReadsDef
    <2>3. NumberIn(H \o F) = NumberIn(H) * p + NumberIn(F)
      <3> HIDE DEF F, H
      <3> QED
        BY <1>3, <1>4, ReadConcat
    <2> HIDE DEF p, q, F, H
    <2>4. NumberIn(F) = NumberIn(src)
      BY <1>2, <2>1, <2>2
    <2> QED
      BY <1>3, <2>1, <2>2, <2>3, <2>4
  <1>a. start = 2 + k
    OBVIOUS
  <1> HIDE DEF F, H, r, start
  <1>9. start \in Len(H) + 1 .. Len(H) + 1 + Len(F)
    BY <1>1, <1>3, <1>5, <1>a
  <1>10. /\ Denotes(r, NumberIn(H \o F), Len(F)) /\ Readable(r)
         /\ Len(r) <= Len(H) + 1 + Len(F)
         /\ (start - Len(H) \in 1 .. Len(F) /\ F[start - Len(H)] # 0)
            => (Fraction(r) # Empty => r[Len(r)] # 0)
    <2>1. ReadsAlike(r, H, F, start)
      BY <1>3, <1>4, <1>7, <1>9, TrimDenotes
    <2> QED
      BY <2>1 DEF ReadsAlike
  <1>11. Len(r) \in Nat /\ Len(r) < Room(src, d)
    <2>1. Room(src, d) = d + 3
      BY <1>1 DEF Room
    <2>2. Len(r) \in Nat
      <3>1. IsTrimmed(r, H, F, start)
        BY <1>3, <1>4, <1>7, <1>9, TrimPointed
      <3>2. PICK f \in Seq(Nat) : r = Pointed(H, f) \/ r = H
        BY <3>1, Zenon DEF IsTrimmed
      <3>3. Pointed(H, f) \in Seq(Chars)
        BY <1>3, <3>2, PointedChars
      <3>4. r \in Seq(Chars) \/ r \in Seq(Nat)
        BY <1>3, <3>2, <3>3
      <3> QED
        BY <3>4
    <2> QED
      BY <1>3, <1>5, <1>10, <2>1, <2>2
  <1>12. ASSUME Len(src) # 0, src[1] # 0, Fraction(r) # Empty PROVE r[Len(r)] # 0
    <2>1. /\ start - Len(H) = Len(Z) + 1 /\ Len(Z) + 1 \in 1 .. Len(Z) + Len(src)
          /\ ~(Len(Z) + 1 <= Len(Z)) /\ (Len(Z) + 1) - Len(Z) = 1
      BY <1>1, <1>2, <1>3, <1>12, <1>a
    <2>2. F[start - Len(H)] = src[1] /\ start - Len(H) \in 1 .. Len(F)
      BY <1>4, <2>1
    <2> QED
      BY <1>10, <1>12, <2>2
  <1> QED
    BY <1>5, <1>8, <1>10, <1>11, <1>12 DEF RightText, r

\* A number with more digits than decimals is split by the point.
LEMMA AdjustSplit ==
  ASSUME NEW src \in Seq(Nat), NEW d \in Nat \ {0}, Len(src) > d, src # ZeroText
  PROVE  RightText(Adjusted(src, d), src, d)
  <1> DEFINE w == Len(src) - d
             H == SubSeq(src, 1, w)
             F == SubSeq(src, w + 1, Len(src))
             r == Adjusted(src, d)
             start == w + 1
  <1>1. w \in Nat \ {0} /\ Len(src) \in Nat /\ w + d = Len(src) /\ ~(w <= 0)
    OBVIOUS
  <1>2. \A i \in 1 .. Len(src) : src[i] \in Nat
    OBVIOUS
  <1> HIDE DEF w
  <1>3. H \in Seq(Nat) /\ Len(H) = w /\ H # Empty
    <2>1. \A i \in 1 .. w : src[i] \in Nat
      BY <1>1, <1>2
    <2>2. H \in Seq(Nat) /\ Len(H) = IF 1 <= w THEN w - 1 + 1 ELSE 0
      BY <1>1, <2>1, SubSeqProperties
    <2> HIDE DEF H
    <2>3. Len(H) = w
      BY <1>1, <2>2
    <2> QED
      BY <1>1, <2>2, <2>3 DEF Empty
  <1>4. F \in Seq(Nat) /\ Len(F) = d
    <2>1. \A i \in w + 1 .. Len(src) : src[i] \in Nat
      BY <1>1, <1>2
    <2> DEFINE m == w + 1
               n == Len(src)
    <2>2. m \in Int /\ n \in Int /\ m <= n /\ n - m + 1 = d
      BY <1>1
    <2>3. F \in Seq(Nat) /\ Len(F) = IF m <= n THEN n - m + 1 ELSE 0
      <3> HIDE DEF m, n
      <3> QED
        BY <2>1, <2>2, SubSeqProperties DEF m, n
    <2> QED
      BY <2>2, <2>3
  <1>5. H \o F = src
    <2>1. /\ 1 \in 1 .. Len(src) + 1 /\ w \in 1 - 1 .. Len(src) /\ Len(src) \in w .. Len(src)
      BY <1>1
    <2>2. SubSeq(src, 1, w) \o SubSeq(src, w + 1, Len(src)) = SubSeq(src, 1, Len(src))
      BY <2>1, ConcatAdjacentSubSeq
    <2>3. SubSeq(src, 1, Len(src)) = src
      BY SubSeqFull
    <2> QED
      BY <2>2, <2>3
  <1>6. r = TrimZeros(Pointed(H, F), start)
    <2> DEFINE P == << Point >>
               split == H \o P
    <2>1. r = TrimZeros(split \o F, Len(split))
      BY <1>1 DEF Adjusted, w
    <2>2. Len(split) = start
      <3>1. H \in Seq(Chars) /\ P \in Seq(Chars) /\ Len(P) = 1
        <4>1. P \in Seq(Chars) /\ Len(P) = 1
          BY DEF Chars
        <4>2. H \in Seq(Chars)
          <5> HIDE DEF H
          <5> QED
            BY <1>3, SeqMonotonic DEF Chars
        <4> QED
          BY <4>1, <4>2
      <3> HIDE DEF H, P
      <3>2. Len(split) = Len(H) + Len(P)
        BY <3>1, ConcatProperties
      <3> QED
        BY <1>3, <3>1, <3>2
    <2> HIDE DEF H, F, r, start
    <2> QED
      BY <2>1, <2>2 DEF Pointed
  <1>a. start = w + 1
    OBVIOUS
  <1> HIDE DEF F, H, r, start
  <1>7. start \in Len(H) + 1 .. Len(H) + 1 + Len(F)
    BY <1>1, <1>3, <1>4, <1>a
  <1>8. ReadsAlike(r, H, F, start)
    BY <1>3, <1>4, <1>6, <1>7, TrimDenotes
  <1>9. /\ Denotes(r, NumberIn(H \o F), Len(F)) /\ Readable(r)
        /\ Len(r) <= Len(H) + 1 + Len(F)
        /\ Fraction(r) # Empty => r[Len(r)] # 0
    <2>1. start = Len(H) + 1
      BY <1>3, <1>a
    <2> QED
      BY <1>8, <2>1 DEF ReadsAlike
  <1>10. Len(r) \in Nat /\ Len(r) < Room(src, d)
    <2>1. Room(src, d) = Len(src) + 2
      BY <1>1 DEF Room, w
    <2>2. IsTrimmed(r, H, F, start)
      BY <1>3, <1>4, <1>6, <1>7, TrimPointed
    <2>3. PICK f \in Seq(Nat) : r = Pointed(H, f) \/ r = H
      BY <2>2, Zenon DEF IsTrimmed
    <2>4. Pointed(H, f) \in Seq(Chars)
      BY <1>3, <2>3, PointedChars
    <2>5. r \in Seq(Chars) \/ r \in Seq(Nat)
      BY <1>3, <2>3, <2>4
    <2>6. Len(r) \in Nat
      BY <2>5
    <2> QED
      BY <1>1, <1>3, <1>4, <1>9, <2>1, <2>6
  <1> QED
    BY <1>4, <1>5, <1>9, <1>10 DEF RightText, r

\* Without decimals the digits are printed as they are.
LEMMA AdjustWhole ==
  ASSUME NEW src \in Seq(Nat), Len(src) > 0, src # ZeroText
  PROVE  RightText(Adjusted(src, 0), src, 0)
  <1> DEFINE l == Len(src)
             r == Adjusted(src, 0)
  <1>1. l \in Nat /\ l > 0 /\ l - 0 = l /\ src # Empty /\ ~(l - 0 <= 0)
    BY DEF Empty
  <1>2. src \in Seq(Chars)
    BY SeqMonotonic DEF Chars
  <1>3. SubSeq(src, 1, l) = src /\ SubSeq(src, l + 1, l) = Empty /\ src \o Empty = src
    <2>1. SubSeq(src, 1, l) = src
      BY SubSeqFull
    <2>2. l + 1 \in Int /\ l \in Int /\ l < l + 1
      BY <1>1
    <2>3. SubSeq(src, l + 1, l) = << >>
      <3> HIDE DEF l
      <3> QED
        BY <2>2, SubSeqEmpty
    <2>4. src \o << >> = src
      BY ConcatEmptySeq
    <2> QED
      BY <2>1, <2>3, <2>4 DEF Empty
  <1>4. r = TrimZeros(src, l)
    <2> DEFINE split == SubSeq(src, 1, l - 0) \o Empty
    <2>1. r = TrimZeros(split \o SubSeq(src, (l - 0) + 1, l), Len(split))
      BY <1>1 DEF Adjusted
    <2> HIDE DEF r
    <2> QED
      BY <1>1, <1>3, <2>1
  <1>5. r = src
    <2>1. l \in 1 .. Len(src)
      BY <1>1
    <2>2. PICK kept \in l .. Len(src) :
            TrimZeros(src, l)
              = SubSeq(src, 1, IF kept < Len(src) /\ src[kept] = Point THEN kept - 1 ELSE kept)
      BY <1>2, <2>1, TrimKept, Zenon
    <2>3. kept = l /\ ~(kept < Len(src))
      BY <1>1
    <2> HIDE DEF r
    <2>4. TrimZeros(src, l) = SubSeq(src, 1, l)
      BY <2>2, <2>3, Zenon
    <2> QED
      BY <1>3, <1>4, <2>4
  <1> HIDE DEF r
  <1>6. Points(r) = {} /\ Whole(r) = src /\ Fraction(r) = Empty
    BY <1>5, PlainReads
  <1>7. Denotes(r, NumberIn(src), 0)
    <2>1. Radix \in Nat /\ 0 - 0 = 0 /\ Len(Empty) = 0
      BY FormatAssumption DEF Empty
    <2>2. Power(Radix, 0) = 1 /\ NumberIn(src) \in Nat
      BY <2>1, PowerDef, ReadsDef
    <2>3. NumberIn(src \o Empty) * Power(Radix, 0 - Len(Empty)) = NumberIn(src)
      BY <1>3, <2>1, <2>2
    <2> QED
      BY <1>1, <1>6, <2>1, <2>3 DEF Denotes
  <1>8. Readable(r)
    BY <1>1, <1>5, <1>6 DEF Readable, Empty
  <1>9. Len(r) \in Nat /\ Len(r) < Room(src, 0)
    BY <1>1, <1>5 DEF Room
  <1> QED
    BY <1>6, <1>7, <1>8, <1>9 DEF RightText, r

\* adjustDecimals prints what it is given, whatever the number of decimals.
LEMMA AdjustedDenotes ==
  ASSUME NEW src \in Seq(Nat), NEW d \in Nat
  PROVE  RightText(Adjusted(src, d), src, d)
  <1>1. CASE src = ZeroText
    BY <1>1, AdjustZero DEF Adjusted
  <1>2. CASE src # ZeroText /\ Len(src) <= d
    BY <1>2, AdjustSmall
  <1>3. CASE src # ZeroText /\ Len(src) > d /\ d # 0
    BY <1>3, AdjustSplit
  <1>4. CASE src # ZeroText /\ Len(src) > d /\ d = 0
    BY <1>4, AdjustWhole
  <1>5. Len(src) \in Nat
    OBVIOUS
  <1> QED
    BY <1>1, <1>2, <1>3, <1>4, <1>5

-----------------------------------------------------------------------------
(* A text stands for one amount, whatever it was printed from.             *)

\* Two amounts it can be read as are the same but for their decimals.
LEMMA OneAmount ==
  ASSUME NEW text, NEW x \in Nat, NEW y \in Nat, NEW d \in Nat, NEW e \in Nat,
         Readable(text), Denotes(text, x, d), Denotes(text, y, e)
  PROVE  x * Power(Radix, e) = y * Power(Radix, d)
  <1> DEFINE w == Whole(text)
             f == Fraction(text)
             c == w \o f
             n == NumberIn(c)
             l == Len(f)
             a == Power(Radix, d - l)
             b == Power(Radix, e - l)
             p == Power(Radix, l)
  <1>1. w \in Seq(Nat) /\ f \in Seq(Nat)
    BY DEF Readable
  <1>2. l \in Nat /\ l <= d /\ l <= e /\ x = n * a /\ y = n * b
    <2>1. l <= d /\ n * a = x
      BY DEF Denotes
    <2>2. l <= e /\ n * b = y
      BY DEF Denotes
    <2>3. l \in Nat
      <3> HIDE DEF f
      <3> QED
        BY <1>1
    <2> QED
      BY <2>1, <2>2, <2>3
  <1>3. n \in Nat
    <2> HIDE DEF w, f
    <2>1. c \in Seq(Nat)
      BY <1>1, ConcatProperties
    <2> HIDE DEF c
    <2> QED
      BY <2>1, ReadsDef
  <1> HIDE DEF w, f, c, n, l
  <1>4. Radix \in Nat /\ d - l \in Nat /\ e - l \in Nat /\ (d - l) + l = d /\ (e - l) + l = e
    BY <1>2, FormatAssumption
  <1>5. a \in Nat /\ b \in Nat /\ p \in Nat
    BY <1>2, <1>4, PowerDef
  <1>6. Power(Radix, d) = a * p /\ Power(Radix, e) = b * p
    <2>1. Power(Radix, (d - l) + l) = a * p
      BY <1>2, <1>4, PowerSum
    <2>2. Power(Radix, (e - l) + l) = b * p
      BY <1>2, <1>4, PowerSum
    <2> QED
      BY <1>4, <2>1, <2>2
  <1> HIDE DEF a, b, p
  <1>7. (n * a) * (b * p) = (n * b) * (a * p)
    BY <1>3, <1>5
  <1> QED
    BY <1>2, <1>6, <1>7

\* tostring256 gives the digits of the amount.
LEMMA TostringReads ==
  ASSUME NEW amount \in Nat
  PROVE  /\ tostring256(amount) \in Seq(Nat) /\ NumberIn(tostring256(amount)) = amount
         /\ \/ tostring256(amount) = ZeroText
            \/ /\ Len(tostring256(amount)) # 0 /\ tostring256(amount)[1] # 0
               /\ Len(tostring256(amount)) = NumDigits(amount)
  <1>1. CASE amount = 0
    BY <1>1, ZeroReads DEF tostring256
  <1>2. CASE amount # 0
    <2>1. tostring256(amount) = Digits(amount)
      BY <1>2 DEF tostring256
    <2>2. /\ Digits(amount) \in Seq(Nat) /\ Len(Digits(amount)) = NumDigits(amount)
          /\ NumberIn(Digits(amount)) = amount
          /\ Digits(amount) # << >> /\ Digits(amount)[1] # 0
      BY <1>2, DigitsRead
    <2> DEFINE s == Digits(amount)
    <2> HIDE DEF s
    <2>3. s \in Seq(Nat) /\ s # << >> => Len(s) # 0
      OBVIOUS
    <2> QED
      BY <2>1, <2>2, <2>3 DEF s
  <1> QED
    BY <1>1, <1>2

\* The decimals of every currency are a number.
LEMMA CurrencyDecimals ==
  ASSUME NEW config \in Configs
  PROVE  Currency(config).decimals \in Nat
  <1>1. config.decimals \in Nat
    BY SwapAssumption DEF Configs, Malformed
  <1>2. TrxDecimals \in Nat
    BY SwapAssumption
  <1> QED
    BY <1>1, <1>2 DEF Currency

\* The sizes of the buffers.
LEMMA Sizes ==
  /\ {TmpSize, Tmp2Size, PrintableSize, ScreenSize} \subseteq Nat /\ TmpSize >= 2
  /\ TmpSize + 1 <= Tmp2Size /\ Tmp2Size + 1 <= PrintableSize /\ PrintableSize + 1 <= ScreenSize
  BY FormatAssumption, SwapAssumption

-----------------------------------------------------------------------------
(* The printable amount.                                                   *)

\* What one call answers.
LEMMA PrintsExactly ==
  ASSUME NEW amount \in Amounts, NEW config \in Configs, NEW is_fee \in BOOLEAN,
         swap_handle_get_printable_amount(amount, config, is_fee)
  PROVE  PrintableExact'
  <1> DEFINE currency == IF is_fee THEN Currency([ticker |-> NULL, decimals |-> 0])
                         ELSE Currency(config)
             src == tostring256(amount)
             d == currency.decimals
             adjusted == adjustDecimals(src, PrintableSize, d)
             parsed == is_fee \/ swap_parse_config(config)
             answer == [call |-> "printable_amount", amount |-> amount, currency |-> currency,
                        text |-> IF parsed THEN adjusted.text ELSE Empty,
                        ticker |-> IF parsed /\ adjusted.ok THEN currency.ticker ELSE NULL]
  <1>1. reply' = answer
    BY DEF swap_handle_get_printable_amount
  <1>2. d \in Nat
    <2>1. [ticker |-> NULL, decimals |-> 0] \in Configs
      BY DEF Configs
    <2> QED
      BY <2>1, CurrencyDecimals
  <1>3. ~parsed => currency = Malformed
    BY DEF swap_parse_config, Currency, Malformed, NULL
  <1>4. amount \in Nat
    BY SwapAssumption DEF Amounts
  <1>5. /\ src \in Seq(Nat) /\ NumberIn(src) = amount
        /\ \/ src = ZeroText
           \/ Len(src) # 0 /\ src[1] # 0 /\ Len(src) = NumDigits(amount)
    BY <1>4, TostringReads
  <1> HIDE DEF d, src, parsed
  <1>6. adjusted = IF PrintableSize < Room(src, d) THEN NotPrinted ELSE Printed(Adjusted(src, d))
    BY <1>2, <1>5, Adjusting, Sizes
  <1>7. RightText(Adjusted(src, d), src, d)
    BY <1>2, <1>5, AdjustedDenotes
  <1> HIDE DEF adjusted
  <1> DEFINE r == Adjusted(src, d)
  <1>8. /\ Denotes(r, amount, d) /\ r # Empty /\ Len(r) \in Nat /\ Len(r) < Room(src, d)
        /\ Fraction(r) # Empty => r[Len(r)] # 0
    BY <1>5, <1>7 DEF RightText, Readable
  <1> HIDE DEF r
  <1>9. CASE parsed /\ ~(PrintableSize < Room(src, d))
    <2>1. answer.text = r /\ answer.ticker = currency.ticker
      BY <1>6, <1>9 DEF Printed, r
    <2>2. Len(r) < PrintableSize
      <3>1. Room(src, d) \in Nat
        BY <1>2, <1>5 DEF Room
      <3> QED
        BY <1>8, <1>9, <3>1, Sizes
    <2>3. answer.amount = amount /\ answer.currency.decimals = d /\ answer.currency = currency
      BY DEF d
    <2> HIDE DEF answer
    <2> QED
      BY <1>1, <1>8, <2>1, <2>2, <2>3 DEF PrintableExact
  <1>10. CASE ~parsed
    <2>1. answer.text = Empty /\ answer.currency = Malformed
      BY <1>3, <1>10
    <2> HIDE DEF answer
    <2> QED
      BY <1>1, <2>1 DEF PrintableExact
  <1>11. CASE parsed /\ PrintableSize < Room(src, d)
    <2>1. answer.text = Empty /\ answer.amount = amount /\ answer.currency.decimals = d
      BY <1>6, <1>11 DEF NotPrinted, d
    <2>2. d + 3 > PrintableSize \/ NumDigits(amount) + 2 > PrintableSize
      <3>1. Room(src, d) = 2 \/ Room(src, d) = d + 3 \/ Room(src, d) = NumDigits(amount) + 2
        BY <1>5 DEF Room
      <3>2. PrintableSize \in Nat /\ PrintableSize >= 2
        BY Sizes
      <3>3. ~(PrintableSize < 2) /\ (PrintableSize < d + 3 => d + 3 > PrintableSize)
            /\ (PrintableSize < NumDigits(amount) + 2 => NumDigits(amount) + 2 > PrintableSize)
        BY <3>2
      <3> QED
        BY <1>11, <3>1, <3>3
    <2> HIDE DEF answer
    <2> QED
      BY <1>1, <2>1, <2>2 DEF PrintableExact
  <1> QED
    BY <1>9, <1>10, <1>11

\* Printable amounts are exact for every amount and every number of decimals:
\* swap_handle_get_printable_amount neither cuts a digit nor moves the point,
\* and it prints nothing only where the buffer is too small.
THEOREM PrintsWithoutLoss == Spec => []PrintableExact
  <1>1. Init => PrintableExact
    BY DEF Init, PrintableExact, NoReply
  <1>2. PrintableExact /\ [Next]_vars => PrintableExact'
    <2> SUFFICES ASSUME PrintableExact, [Next]_vars PROVE PrintableExact'
      OBVIOUS
    <2>1. CASE UNCHANGED reply
      BY <2>1 DEF PrintableExact
    <2>2. ASSUME NEW path, NEW address, NEW extra,
                 swap_handle_check_address(path, address, extra)
          PROVE  PrintableExact'
      BY <2>2 DEF swap_handle_check_address, PrintableExact
    <2>3. ASSUME NEW params, NEW extra, NEW overlap,
                 swap_copy_transaction_parameters(params, extra, overlap)
          PROVE  PrintableExact'
      BY <2>3 DEF swap_copy_transaction_parameters, PrintableExact, NoReply
    <2>4. ASSUME NEW tx, SignTransaction(tx) PROVE UNCHANGED reply
      BY <2>4 DEF SignTransaction
    <2>5. ASSUME swap_finalize_exchange_sign_transaction PROVE UNCHANGED reply
      BY <2>5 DEF swap_finalize_exchange_sign_transaction
    <2>6. ASSUME UNCHANGED vars PROVE UNCHANGED reply
      BY <2>6 DEF vars
    <2> QED
      BY <2>1, <2>2, <2>3, <2>4, <2>5, <2>6, PrintsExactly DEF Next
  <1> QED
    BY <1>1, <1>2, PTL DEF Spec

-----------------------------------------------------------------------------
(* The swap.                                                               *)

\* What holds between any two steps.  The last conjunct is what the other two
\* need of the parameters that were committed.
SwapInv ==
  /\ SignedIsValidated /\ RunsOnCleanGlobals
  /\ mode = "app" => bss.swap.amount \in Nat /\ bss.swap.decimals \in Nat

\* The texts the two functions print are equal only for equal amounts.
LEMMA ValidIsValidated ==
  ASSUME NEW tx \in Transactions, SwapValid(tx),
         bss.swap.amount \in Nat, bss.swap.decimals \in Nat
  PROVE  /\ tx.kind # "TRC10" /\ tx.to = bss.swap.recipient /\ tx.token = bss.swap.ticker
         /\ tx.action = "To" /\ tx.fee_limit <= FeeCap
         /\ tx.amount * Power(Radix, bss.swap.decimals)
              = bss.swap.amount * Power(Radix, Decimals(tx))
  <1> DEFINE src == tostring256(bss.swap.amount)
             d == bss.swap.decimals
             e == Decimals(tx)
             validated == adjustDecimals(src, PrintableSize, d)
             text == AmountText(tx).text
  <1>1. /\ tx.kind # "TRC10" /\ tx.to = bss.swap.recipient /\ tx.token = bss.swap.ticker
        /\ tx.action = "To" /\ tx.fee_limit <= FeeCap
        /\ AmountText(tx).ok /\ validated.ok /\ text = validated.text
    BY DEF SwapValid, swap_check_validity, check_swap_amount
  <1>2. tx.amount \in Nat /\ e \in Nat
    BY SwapAssumption DEF Transactions, Amounts, Decimals
  <1>3. src \in Seq(Nat) /\ NumberIn(src) = bss.swap.amount
    BY TostringReads
  <1> HIDE DEF src, e
  <1>4. /\ Denotes(text, bss.swap.amount, d) /\ Readable(text)
    <2> DEFINE r == Adjusted(src, d)
    <2>1. validated = IF PrintableSize < Room(src, d) THEN NotPrinted ELSE Printed(r)
      BY <1>3, Adjusting, Sizes
    <2>2. RightText(r, src, d)
      BY <1>3, AdjustedDenotes
    <2> HIDE DEF validated, r, text
    <2>3. validated.text = r
      BY <1>1, <2>1 DEF NotPrinted, Printed
    <2> QED
      BY <1>1, <1>3, <2>2, <2>3 DEF RightText
  <1>5. Denotes(text, tx.amount, e)
    <2> DEFINE digits == IF tx.kind = "TRC20" THEN tostring256(tx.amount) ELSE Digits(tx.amount)
               size == IF tx.kind = "TRC20" THEN ScreenSize ELSE Tmp2Size
               printed == adjustDecimals(digits, size, e)
               r == Adjusted(digits, e)
    <2>1. digits \in Seq(Nat) /\ NumberIn(digits) = tx.amount
      BY <1>2, TostringReads, DigitsRead
    <2>2. printed.ok /\ text = printed.text
      <3>1. CASE tx.kind = "TRC20"
        BY <1>1, <3>1 DEF AmountText, e
      <3>2. CASE tx.kind # "TRC20"
        <4>1. text # Empty
          BY <1>4 DEF Readable
        <4>2. text = print_amount(tx.amount, ScreenSize, e)
          BY <3>2 DEF AmountText, Printed, e
        <4>3. printed = adjustDecimals(Digits(tx.amount), Tmp2Size, e)
          BY <3>2
        <4> HIDE DEF printed, text
        <4> QED
          BY <4>1, <4>2, <4>3 DEF print_amount
      <3> QED
        BY <3>1, <3>2
    <2> HIDE DEF digits, text
    <2>3. size \in Nat
      BY Sizes
    <2> HIDE DEF size
    <2>4. printed = IF size < Room(digits, e) THEN NotPrinted ELSE Printed(r)
      BY <1>2, <2>1, <2>3, Adjusting
    <2>5. RightText(r, digits, e)
      BY <1>2, <2>1, AdjustedDenotes
    <2> HIDE DEF printed, r
    <2>6. text = r
      BY <2>2, <2>4 DEF NotPrinted, Printed
    <2> QED
      BY <2>1, <2>5, <2>6 DEF RightText
  <1> HIDE DEF text, d
  <1>6. d \in Nat
    BY DEF d
  <1>7. tx.amount * Power(Radix, d) = bss.swap.amount * Power(Radix, e)
    BY <1>2, <1>4, <1>5, <1>6, OneAmount
  <1> QED
    BY <1>1, <1>7 DEF d, e

\* The copy on the stack outlives the zeroing: wherever the parameters lie, what
\* is committed is what they were when the call came, and all else is zero.
LEMMA CommittedIsAsked ==
  ASSUME NEW params, NEW overlap \in BOOLEAN,
         NEW memory, memory = [bss |-> bss, params |-> params, overlap |-> overlap]
  PROVE  /\ Committed(memory).swap = Validated(params)
         /\ Committed(memory).others = "zero"
         /\ Committed(memory).return_address = "params.result"
  <1> DEFINE validated == Validated(params)
             zeroed == os_explicit_zero_BSS_segment(memory)
  <1>1. Validated(memory.params) = validated
    OBVIOUS
  <1>2. zeroed.bss = [NotOurs EXCEPT !.others = "zero"]
    BY DEF os_explicit_zero_BSS_segment
  <1>3. Committed(memory) = [zeroed.bss EXCEPT !.return_address = "params.result",
                                                !.swap = validated]
    BY <1>1 DEF Committed
  <1> HIDE DEF validated, zeroed
  <1> QED
    BY <1>2, <1>3 DEF NotOurs, validated

\* Every step keeps the invariant.
LEMMA SwapInvInductive == SwapInv /\ [Next]_vars => SwapInv'
  <1> SUFFICES ASSUME SwapInv, [Next]_vars PROVE SwapInv'
    OBVIOUS
  <1>1. CASE UNCHANGED << mode, bss, asked, signed >>
    BY <1>1 DEF SwapInv, SignedIsValidated, RunsOnCleanGlobals
  <1>2. ASSUME NEW params \in Parameters, NEW extra, NEW overlap \in BOOLEAN,
               swap_copy_transaction_parameters(params, extra, overlap)
        PROVE  SwapInv'
    <2>1. CASE UNCHANGED << mode, bss, asked, signed >>
      BY <1>1, <2>1
    <2>2. CASE ~UNCHANGED << mode, bss, asked, signed >>
      <3> DEFINE memory == [bss |-> bss, params |-> params, overlap |-> overlap]
      <3>1. /\ signed' = {} /\ asked' = params /\ params.amount # NoAmount
            /\ bss' = Committed(memory)
        BY <1>2, <2>2, Zenon DEF swap_copy_transaction_parameters
      <3>2. Validated(params).amount \in Nat /\ Validated(params).decimals \in Nat
        <4>1. params.amount \in Nat /\ params.config \in Configs
          BY <3>1, SwapAssumption DEF Parameters, Amounts
        <4>2. Currency(params.config).decimals \in Nat
          BY <4>1, CurrencyDecimals
        <4> QED
          BY <4>1, <4>2 DEF Validated
      <3>3. /\ bss'.swap = Validated(params) /\ bss'.others = "zero"
            /\ bss'.return_address = "params.result"
        BY <3>1, CommittedIsAsked
      <3> QED
        BY <3>1, <3>2, <3>3 DEF SwapInv, SignedIsValidated, RunsOnCleanGlobals
    <2> QED
      BY <2>1, <2>2
  <1>3. ASSUME NEW tx \in Transactions, SignTransaction(tx) PROVE SwapInv'
    <2>1. mode = "app" /\ UNCHANGED << mode, bss, asked >>
      BY <1>3 DEF SignTransaction
    <2>2. signed' \subseteq signed \cup {tx} /\ (tx \in signed' => tx \in signed \/ SwapValid(tx))
      BY <1>3 DEF SignTransaction
    <2>3. bss.swap.amount \in Nat /\ bss.swap.decimals \in Nat
      BY <2>1 DEF SwapInv
    <2>4. SwapValid(tx) =>
            /\ tx.kind # "TRC10" /\ tx.to = bss.swap.recipient /\ tx.token = bss.swap.ticker
            /\ tx.action = "To" /\ tx.fee_limit <= FeeCap
            /\ tx.amount * Power(Radix, bss.swap.decimals)
                 = bss.swap.amount * Power(Radix, Decimals(tx))
      BY <2>3, ValidIsValidated
    <2>5. SignedIsValidated'
      BY <2>1, <2>2, <2>4, Zenon DEF SwapInv, SignedIsValidated
    <2> QED
      BY <2>1, <2>5 DEF SwapInv, RunsOnCleanGlobals
  <1>4. ASSUME swap_finalize_exchange_sign_transaction PROVE SwapInv'
    BY <1>4 DEF swap_finalize_exchange_sign_transaction, SwapInv, SignedIsValidated,
                RunsOnCleanGlobals
  <1>5. ASSUME NEW path, NEW address, NEW extra,
               swap_handle_check_address(path, address, extra)
        PROVE  UNCHANGED << mode, bss, asked, signed >>
    BY <1>5 DEF swap_handle_check_address
  <1>6. ASSUME NEW amount, NEW config, NEW is_fee,
               swap_handle_get_printable_amount(amount, config, is_fee)
        PROVE  UNCHANGED << mode, bss, asked, signed >>
    BY <1>6 DEF swap_handle_get_printable_amount
  <1>7. ASSUME UNCHANGED vars PROVE UNCHANGED << mode, bss, asked, signed >>
    BY <1>7 DEF vars
  <1> QED
    BY <1>1, <1>2, <1>3, <1>4, <1>5, <1>6, <1>7 DEF Next

\* The invariant holds in every state of every behaviour.
LEMMA SwapInvariance == Spec => []SwapInv
  <1>1. Init => SwapInv
    BY DEF Init, SwapInv, SignedIsValidated, RunsOnCleanGlobals
  <1> QED
    BY <1>1, SwapInvInductive, PTL DEF Spec

\* A swap signs what Exchange validated: swap_check_validity compares texts,
\* and the texts of the transaction and of the parameters are equal only when
\* the amounts are, for every pair of amounts, decimals and buffers.
THEOREM SwapSignsTheValidated == Spec => []SignedIsValidated
  <1>1. SwapInv => SignedIsValidated
    BY DEF SwapInv
  <1> QED
    BY <1>1, SwapInvariance, PTL

\* The application runs for a swap on zeroed globals and on the parameters that
\* Exchange called swap_copy_transaction_parameters with, wherever they lay.
THEOREM SwapRunsOnCleanGlobals == Spec => []RunsOnCleanGlobals
  <1>1. SwapInv => RunsOnCleanGlobals
    BY DEF SwapInv
  <1> QED
    BY <1>1, SwapInvariance, PTL

\* The transaction that carries what was validated is accepted.
LEMMA CarriedIsValid ==
  ASSUME NEW tx \in Transactions, bss.swap.initialized, tx.kind # "TRC10",
         tx.to = bss.swap.recipient, tx.token = bss.swap.ticker,
         tx.action = "To", tx.fee_limit <= FeeCap,
         tx.amount = bss.swap.amount, Decimals(tx) = bss.swap.decimals,
         tx.amount > 0, ~TooManyDigits(tx.amount), Decimals(tx) + 3 <= Tmp2Size
  PROVE  SwapValid(tx)
  <1> DEFINE n == tx.amount
             e == Decimals(tx)
             src == Digits(n)
             r == Adjusted(src, e)
  <1>1. n \in Nat /\ e \in Nat /\ n # 0
    BY SwapAssumption DEF Transactions, Amounts, Decimals
  <1>2. src \in Seq(Nat) /\ Len(src) = NumDigits(n) /\ NumDigits(n) \in Nat
    BY <1>1, DigitsRead
  <1>3. tostring256(n) = src /\ tostring256(bss.swap.amount) = src /\ bss.swap.decimals = e
    BY <1>1 DEF tostring256
  <1>4. NumDigits(n) <= TmpSize - 1 /\ e + 3 <= Tmp2Size
    BY <1>2, Sizes DEF TooManyDigits
  <1> HIDE DEF n, e, src
  <1>5. Room(src, e) \in Nat /\ Room(src, e) <= Tmp2Size
    <2>1. NumDigits(n) + 2 <= Tmp2Size /\ 2 <= Tmp2Size
      BY <1>2, <1>4, Sizes
    <2> QED
      BY <1>1, <1>2, <1>4, <2>1 DEF Room
  <1>6. ASSUME NEW size \in {Tmp2Size, PrintableSize, ScreenSize}
        PROVE  adjustDecimals(src, size, e) = Printed(r)
    <2>1. size \in Nat /\ ~(size < Room(src, e))
      BY <1>5, Sizes
    <2> QED
      BY <1>1, <1>2, <2>1, Adjusting
  <1>7. Len(r) < ScreenSize - 1
    <2>1. Len(r) \in Nat /\ Len(r) < Room(src, e)
      BY <1>1, <1>2, AdjustedDenotes DEF RightText
    <2> HIDE DEF r
    <2> QED
      BY <1>5, <2>1, Sizes
  <1> HIDE DEF r
  <1>8. AmountText(tx) = Printed(r)
    <2>1. CASE tx.kind = "TRC20"
      BY <1>3, <1>6, <2>1 DEF AmountText, n, e
    <2>2. CASE tx.kind # "TRC20"
      <3>1. print_amount(n, ScreenSize, e) = r
        BY <1>6, <1>7 DEF print_amount, Printed, src
      <3> QED
        BY <2>2, <3>1 DEF AmountText, n, e
    <2> QED
      BY <2>1, <2>2
  <1>9. check_swap_amount(r, bss.swap.decimals)
    BY <1>3, <1>6 DEF check_swap_amount, Printed
  <1>10. AmountText(tx).ok /\ AmountText(tx).text = r
    BY <1>8 DEF Printed
  <1>11. tx.kind \in {"TRX", "TRC20"}
    BY DEF Transactions
  <1> QED
    BY <1>9, <1>10, <1>11 DEF SwapValid, swap_check_validity

\* A swap that can be signed is signed: the TRX or TRC20 transfer with the validated
\* recipient, token and amount passes swap_check_validity whichever of the two
\* functions prints its amount, as long as print_amount has room for it.
THEOREM SwapSignsWhatIsCarried == Spec => []ValidatedIsSignable
  <1>1. SwapInv => ValidatedIsSignable
    <2> SUFFICES ASSUME SwapInv, mode = "app", NEW tx \in Transactions,
                        tx.kind # "TRC10", tx.to = bss.swap.recipient, tx.token = bss.swap.ticker,
                        tx.action = "To", tx.fee_limit <= FeeCap,
                        tx.amount = bss.swap.amount, Decimals(tx) = bss.swap.decimals,
                        tx.amount > 0, ~TooManyDigits(tx.amount),
                        Decimals(tx) + 3 <= Tmp2Size
                 PROVE  SwapValid(tx)
      BY DEF ValidatedIsSignable
    <2>1. bss.swap.initialized
      BY DEF SwapInv, RunsOnCleanGlobals, Validated
    <2> QED
      BY <2>1, CarriedIsValid
  <1> QED
    BY <1>1, SwapInvariance, PTL
=============================================================================
