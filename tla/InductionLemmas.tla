--------------------------- MODULE InductionLemmas ---------------------------
(***************************************************************************)
(* Induction and recursion over the naturals in the form that needs no     *)
(* operator parameter, for the proofs of the other modules: a predicate is *)
(* the set of the numbers it holds for, a step of a recursion a function.  *)
(***************************************************************************)
EXTENDS Integers, Powers, FiniteSetTheorems, TLAPS

\* A nonempty set of naturals has a least element.
LEMMA LeastNatural ==
    ASSUME NEW is \in SUBSET Nat, is # {}
    PROVE  \E i \in is : \A j \in is : i <= j
  <1> DEFINE below == {1 .. i : i \in is}
  <1>1. below \subseteq FiniteSubsetsOf(Nat) /\ below # {}
    <2>1. \A i \in is : IsFiniteSet(1 .. i) /\ 1 .. i \subseteq Nat
      BY FS_Interval
    <2> QED
      BY <2>1 DEF FiniteSubsetsOf
  <1>2. PICK x \in below : \A y \in below : ~(<<y, x>> \in StrictSubsetOrdering(Nat))
    <2> HIDE DEF below
    <2> QED
      BY <1>1, WFMin, FS_StrictSubsetOrderingWellFounded
  <1>3. PICK i \in is : x = 1 .. i
    OBVIOUS
  <1>4. ASSUME NEW j \in is PROVE i <= j
    <2>1. ~(<<1 .. j, 1 .. i>> \in StrictSubsetOrdering(Nat))
      BY <1>2, <1>3
    <2>2. j < i => 1 .. j \subseteq 1 .. i /\ i \in 1 .. i /\ i \notin 1 .. j
      OBVIOUS
    <2>3. 1 .. j \in SUBSET Nat /\ 1 .. i \in SUBSET Nat
      OBVIOUS
    <2>4. j < i => 1 .. j # 1 .. i
      BY <2>2
    <2>5. j < i => <<1 .. j, 1 .. i>> \in StrictSubsetOrdering(Nat)
      BY <2>2, <2>3, <2>4 DEF StrictSubsetOrdering
    <2> QED
      BY <2>1, <2>5
  <1> QED
    BY <1>4

\* Induction: a set that has zero and with each number the next has them all.
LEMMA Induction ==
    ASSUME NEW is, 0 \in is, \A i \in Nat : i \in is => i + 1 \in is
    PROVE  \A i \in Nat : i \in is
  <1> DEFINE missing == Nat \ is
  <1> SUFFICES ASSUME missing # {} PROVE FALSE
    OBVIOUS
  <1>1. PICK i \in missing : \A j \in missing : i <= j
    BY LeastNatural
  <1>2. i # 0 /\ i - 1 \in Nat /\ i - 1 \notin missing
    BY <1>1
  <1> QED
    BY <1>1, <1>2

\* The values a first one and a step for each number lead to.
Follows(f, D, first, step) ==
    f \in [Nat -> D] /\ f[0] = first /\ \A k \in Nat : f[k + 1] = step[k][f[k]]
Iterates(D, first, step) == CHOOSE f : Follows(f, D, first, step)

\* Recursion: they are a function.
LEMMA Recursion ==
    ASSUME NEW D, NEW first \in D, NEW step \in [Nat -> [D -> D]]
    PROVE  Follows(Iterates(D, first, step), D, first, step)
  <1> SUFFICES \E f : Follows(f, D, first, step)
    BY DEF Iterates
  <1> DEFINE Part(g, n) ==
               /\ g \in [0 .. n -> D] /\ g[0] = first
               /\ \A k \in 0 .. n - 1 : g[k + 1] = step[k][g[k]]
             parts == {n \in Nat : \E g : Part(g, n)}
  <1>1. \A n \in Nat : \E g : Part(g, n)
    <2>1. 0 \in parts
      <3>1. Part([k \in 0 .. 0 |-> first], 0)
        OBVIOUS
      <3> QED
        BY <3>1
    <2>2. ASSUME NEW n \in Nat, n \in parts PROVE n + 1 \in parts
      <3>1. PICK g : Part(g, n)
        BY <2>2
      <3> DEFINE h == [k \in 0 .. n + 1 |-> IF k = n + 1 THEN step[n][g[n]] ELSE g[k]]
      <3>2. g[n] \in D /\ step[n] \in [D -> D]
        BY <3>1
      <3>3. h \in [0 .. n + 1 -> D] /\ h[0] = first
        BY <3>1, <3>2
      <3>4. \A k \in 0 .. n : h[k + 1] = step[k][h[k]]
        BY <3>1
      <3>5. 0 .. (n + 1) - 1 = 0 .. n
        OBVIOUS
      <3>6. Part(h, n + 1)
        <4> HIDE DEF h
        <4> QED
          BY <3>3, <3>4, <3>5
      <3> HIDE DEF Part, h
      <3> QED
        BY <3>6
    <2>3. \A n \in Nat : n \in parts
      <3> HIDE DEF parts
      <3> QED
        BY <2>1, <2>2, Induction
    <2> QED
      BY <2>3
  <1>2. ASSUME NEW m \in Nat, NEW n \in Nat, m <= n, NEW g, NEW h, Part(g, m), Part(h, n)
        PROVE  g[m] = h[m]
    <2> DEFINE same == {k \in Nat : k <= m => g[k] = h[k]}
    <2>1. 0 \in same
      BY <1>2
    <2>2. ASSUME NEW k \in Nat, k \in same PROVE k + 1 \in same
      BY <1>2, <2>2
    <2>3. \A k \in Nat : k \in same
      <3> HIDE DEF same
      <3> QED
        BY <2>1, <2>2, Induction
    <2> QED
      BY <2>3
  <1> DEFINE part(n) == CHOOSE g : Part(g, n)
             f == [n \in Nat |-> part(n)[n]]
  <1>3. \A n \in Nat : Part(part(n), n)
    BY <1>1
  <1>4. f \in [Nat -> D] /\ f[0] = first
    <2> HIDE DEF part
    <2>1. \A n \in Nat : part(n) \in [0 .. n -> D] /\ n \in 0 .. n /\ part(n)[0] = first
      BY <1>3
    <2> QED
      BY <2>1
  <1>5. ASSUME NEW k \in Nat PROVE f[k + 1] = step[k][f[k]]
    <2>1. Part(part(k), k) /\ Part(part(k + 1), k + 1)
      <3> HIDE DEF Part, part
      <3> QED
        BY <1>3
    <2>2. part(k)[k] = part(k + 1)[k]
      <3> HIDE DEF Part, part
      <3> QED
        BY <2>1, <1>2
    <2>3. part(k + 1)[k + 1] = step[k][part(k + 1)[k]]
      <3>1. k \in 0 .. (k + 1) - 1
        OBVIOUS
      <3> HIDE DEF part
      <3> QED
        BY <2>1, <3>1
    <2> HIDE DEF part
    <2> QED
      BY <2>2, <2>3
  <1> HIDE DEF f
  <1> QED
    BY <1>4, <1>5 DEF Follows

\* Power is what its recursion says.
LEMMA PowerDef ==
    ASSUME NEW b \in Nat
    PROVE  /\ Power(b, 0) = 1
           /\ \A n \in Nat : Power(b, n) \in Nat /\ Power(b, n + 1) = b * Power(b, n)
  <1> DEFINE step == [k \in Nat |-> [x \in Nat |-> b * x]]
             Is(g) == g = [k \in Nat |-> IF k = 0 THEN 1 ELSE b * g[k - 1]]
             p == CHOOSE q : Is(q)
             f == Iterates(Nat, 1, step)
  <1>1. step \in [Nat -> [Nat -> Nat]] /\ 1 \in Nat
    OBVIOUS
  <1>2. f \in [Nat -> Nat] /\ f[0] = 1 /\ \A k \in Nat : f[k + 1] = step[k][f[k]]
    <2>1. Follows(f, Nat, 1, step)
      <3> HIDE DEF step
      <3> QED
        BY <1>1, Recursion
    <2> HIDE DEF f
    <2> QED
      BY <2>1 DEF Follows
  <1>3. Is(f)
    <2>0. \A k \in Nat : f[k + 1] = b * f[k]
      BY <1>2
    <2>1. \A k \in Nat : k # 0 => k - 1 \in Nat /\ f[k] = b * f[k - 1]
      <3>1. \A k \in Nat : k # 0 => k - 1 \in Nat /\ (k - 1) + 1 = k
        OBVIOUS
      <3> QED
        BY <2>0, <3>1
    <2>2. \A k \in Nat : f[k] = IF k = 0 THEN 1 ELSE b * f[k - 1]
      BY <1>2, <2>1
    <2> HIDE DEF f
    <2> QED
      BY <1>2, <2>2
  <1>4. Is(p)
    <2> HIDE DEF Is
    <2> QED
      BY <1>3
  <1>5. \A n \in Nat : Power(b, n) = p[n]
    BY DEF Power
  <1>6. p[0] = 1 /\ \A n \in Nat : p[n + 1] = b * p[n]
    <2> HIDE DEF p
    <2>1. \A n \in Nat : p[n] = IF n = 0 THEN 1 ELSE b * p[n - 1]
      BY <1>4
    <2>2. \A n \in Nat : n + 1 \in Nat /\ n + 1 # 0 /\ (n + 1) - 1 = n
      OBVIOUS
    <2> QED
      BY <2>1, <2>2
  <1> DEFINE naturals == {n \in Nat : p[n] \in Nat}
  <1>7. \A n \in Nat : n \in naturals
    <2> HIDE DEF p
    <2>1. 0 \in naturals
      BY <1>6
    <2>2. ASSUME NEW n \in Nat, n \in naturals PROVE n + 1 \in naturals
      BY <1>6, <2>2
    <2> HIDE DEF naturals
    <2> QED
      BY <2>1, <2>2, Induction
  <1> HIDE DEF p
  <1> QED
    BY <1>5, <1>6, <1>7

\* Powers of a positive number are positive.
LEMMA PowerPositive ==
    ASSUME NEW b \in Nat \ {0}, NEW n \in Nat
    PROVE  Power(b, n) \in Nat \ {0}
  <1> DEFINE positive == {k \in Nat : Power(b, k) # 0}
  <1>1. 0 \in positive
    BY PowerDef
  <1>2. ASSUME NEW k \in Nat, k \in positive PROVE k + 1 \in positive
    <2>1. Power(b, k) \in Nat \ {0} /\ Power(b, k + 1) = b * Power(b, k)
      BY <1>2, PowerDef
    <2> QED
      BY <2>1
  <1>3. \A k \in Nat : k \in positive
    <2> HIDE DEF positive
    <2> QED
      BY <1>1, <1>2, Induction
  <1> QED
    BY <1>3, PowerDef

\* Exponents add.
LEMMA PowerSum ==
    ASSUME NEW b \in Nat, NEW m \in Nat, NEW n \in Nat
    PROVE  Power(b, m + n) = Power(b, m) * Power(b, n)
  <1> DEFINE adds == {k \in Nat : Power(b, m + k) = Power(b, m) * Power(b, k)}
  <1>1. 0 \in adds
    BY PowerDef
  <1>2. ASSUME NEW k \in Nat, k \in adds PROVE k + 1 \in adds
    <2> DEFINE x == Power(b, m)
               y == Power(b, k)
    <2>1. Power(b, (m + k) + 1) = b * Power(b, m + k) /\ m + k \in Nat
      BY PowerDef
    <2>2. Power(b, k + 1) = b * y /\ x \in Nat /\ y \in Nat
      BY PowerDef
    <2>3. Power(b, m + (k + 1)) = b * (x * y)
      BY <1>2, <2>1
    <2>4. b * (x * y) = x * (b * y)
      <3> HIDE DEF x, y
      <3> QED
        BY <2>2
    <2> QED
      BY <2>2, <2>3, <2>4
  <1>3. \A k \in Nat : k \in adds
    <2> HIDE DEF adds
    <2> QED
      BY <1>1, <1>2, Induction
  <1> QED
    BY <1>3
=============================================================================
