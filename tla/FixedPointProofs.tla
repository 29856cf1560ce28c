-------------------------- MODULE FixedPointProofs --------------------------
(***************************************************************************)
(* For words of any number of digits of any even base: sums, differences,  *)
(* doubles and halves are exact or say what was lost, compare orders the   *)
(* numbers, and what format_as_hex prints is read back as the same value.  *)
(* The recursion of Power and the fold of Number are solved by the least   *)
(* number where a solution fails; then come two words as one magnitude,    *)
(* the wrap-around and the carry of each operation, the digits of a word   *)
(* and the texts made of them.                                             *)
(***************************************************************************)
EXTENDS FixedPoint, FiniteSetTheorems, SequenceTheorems, NaturalsInduction,
        WellFoundedInduction, TLAPS

-----------------------------------------------------------------------------
(***************************************************************************)
(* Powers of the base.                                                     *)
(***************************************************************************)
\* A set of natural numbers that is not empty has a least one.
LEMMA LeastNatural ==
  ASSUME NEW T \in SUBSET Nat, T # {}
  PROVE  \E x \in T : \A y \in T : x <= y
<1> DEFINE R == OpToRel(<, Nat)
<1>1. IsWellFoundedOn(R, Nat)
  BY NatLessThanWellFounded
<1>2. \A x, y \in Nat : x < y => <<x, y>> \in R
  BY DEF OpToRel
<1> HIDE DEF R
<1>3. PICK x \in T : \A y \in T : <<y, x>> \notin R
  BY <1>1, WFMin
<1>4. \A y \in T : ~ (y < x)
  BY <1>2, <1>3
<1> QED BY <1>3, <1>4

\* What Power computes: there are functions that solve its recursion up to every
\* number, any two agree, and together they solve it everywhere.
LEMMA Powers ==
  /\ Power[0] = 1
  /\ \A n \in Nat : Power[n] \in Nat \ {0} /\ Power[n + 1] = Base * Power[n]
<1> DEFINE Solves(f, n) == /\ f[0] = 1
                           /\ \A k \in 0 .. n - 1 : f[k + 1] = Base * f[k]
           upTo(n) == {f \in [0 .. n -> Nat] : Solves(f, n)}
           p == [n \in Nat |-> (CHOOSE f : f \in upTo(n))[n]]
           Step(h) == [n \in Nat |-> IF n = 0 THEN 1 ELSE Base * h[n - 1]]
<1>b. Base \in Nat \ {0}
  BY WordAssumption
<1>1. ASSUME NEW n \in Nat PROVE upTo(n) # {}
  <2> DEFINE none == {k \in Nat : upTo(k) = {}}
  <2>1. none = {}
    <3> SUFFICES ASSUME none # {} PROVE FALSE
      OBVIOUS
    <3>1. PICK k \in none : \A j \in none : k <= j
      <4>1. none \in SUBSET Nat
        OBVIOUS
      <4> HIDE DEF none
      <4> QED BY <4>1, LeastNatural
    <3>2. CASE k = 0
      <4>1. [i \in 0 .. 0 |-> 1] \in upTo(0)
        OBVIOUS
      <4> QED BY <3>2, <4>1
    <3>3. CASE k # 0
      <4>1. k \in Nat /\ k - 1 \in Nat /\ upTo(k - 1) # {}
        <5> HIDE DEF upTo
        <5> QED BY <3>1, <3>3
      <4>2. PICK f : f \in [0 .. k - 1 -> Nat] /\ Solves(f, k - 1)
        BY <4>1
      <4>3. PICK g : g = [i \in 0 .. k |-> IF i = k THEN Base * f[k - 1] ELSE f[i]]
        OBVIOUS
      <4>4. g \in [0 .. k -> Nat]
        <5>1. f[k - 1] \in Nat /\ Base * f[k - 1] \in Nat
          BY <1>b, <4>1, <4>2
        <5> QED BY <4>1, <4>2, <4>3, <5>1
      <4>5. Solves(g, k)
        BY <3>3, <4>1, <4>2, <4>3
      <4> QED BY <4>4, <4>5
    <3> QED BY <3>2, <3>3
  <2> QED BY <2>1
<1>2. ASSUME NEW n \in Nat, NEW m \in Nat, m <= n, NEW f, NEW g,
             Solves(f, n), Solves(g, m), NEW k \in 0 .. m
      PROVE  f[k] = g[k]
  <2> DEFINE wrong == {i \in 0 .. m : f[i] # g[i]}
  <2>1. wrong = {}
    <3> SUFFICES ASSUME wrong # {} PROVE FALSE
      OBVIOUS
    <3>1. PICK i \in wrong : \A j \in wrong : i <= j
      <4>1. wrong \in SUBSET Nat
        OBVIOUS
      <4> HIDE DEF wrong
      <4> QED BY <4>1, LeastNatural
    <3>2. i # 0 /\ i - 1 \in 0 .. m - 1 /\ i - 1 \in 0 .. n - 1 /\ f[i - 1] = g[i - 1]
      BY <1>2, <3>1
    <3>3. f[(i - 1) + 1] = g[(i - 1) + 1]
      BY <1>2, <3>2
    <3> QED BY <3>1, <3>2, <3>3
  <2> QED BY <2>1
<1>3. /\ p[0] = 1
      /\ \A n \in Nat : p[n] \in Nat /\ p[n + 1] = Base * p[n]
  <2>1. ASSUME NEW n \in Nat
        PROVE  \E f : f \in [0 .. n -> Nat] /\ Solves(f, n) /\ p[n] = f[n]
    <3>1. PICK f : f = CHOOSE h : h \in upTo(n)
      OBVIOUS
    <3>2. f \in upTo(n) /\ p[n] = f[n]
      <4> HIDE DEF upTo
      <4> QED BY <1>1, <3>1
    <3> HIDE DEF p
    <3> QED BY <3>2
  <2> HIDE DEF p, upTo
  <2>2. ASSUME NEW n \in Nat PROVE p[n] \in Nat /\ (n = 0 => p[n] = 1)
    <3>1. n \in 0 .. n
      OBVIOUS
    <3>2. PICK f : f \in [0 .. n -> Nat] /\ f[0] = 1 /\ p[n] = f[n]
      BY <2>1
    <3> QED BY <3>1, <3>2
  <2>3. ASSUME NEW n \in Nat PROVE p[n + 1] = Base * p[n]
    <3>1. n + 1 \in Nat /\ n <= n + 1 /\ n \in 0 .. n /\ n \in 0 .. (n + 1) - 1
      OBVIOUS
    <3>2. PICK f : Solves(f, n + 1) /\ p[n + 1] = f[n + 1]
      BY <2>1, <3>1
    <3>3. PICK g : Solves(g, n) /\ p[n] = g[n]
      BY <2>1
    <3>4. f[n] = g[n]
      <4> HIDE DEF Solves
      <4> QED BY <1>2, <3>1, <3>2, <3>3
    <3>5. f[n + 1] = Base * f[n]
      BY <3>1, <3>2
    <3> QED BY <3>2, <3>3, <3>4, <3>5
  <2> QED BY <2>2, <2>3
<1>4. p = Step(p)
  <2>3. p[0] = 1 /\ \A n \in Nat : p[n] \in Nat /\ p[n + 1] = Base * p[n]
    BY <1>3
  <2>1. ASSUME NEW n \in Nat PROVE p[n] = Step(p)[n]
    <3>1. CASE n = 0
      <4> HIDE DEF p
      <4> QED BY <2>3, <3>1
    <3>2. CASE n # 0
      <4>1. n - 1 \in Nat /\ (n - 1) + 1 = n
        BY <3>2
      <4> HIDE DEF p
      <4> QED BY <2>3, <3>2, <4>1
    <3> QED BY <3>1, <3>2
  <2>2. p = [n \in Nat |-> p[n]]
    <3> HIDE DEF upTo
    <3> QED OBVIOUS
  <2> HIDE DEF p
  <2> QED BY <2>1, <2>2
<1>5. Power = Step(Power)
  <2> HIDE DEF p
  <2>1. Power = CHOOSE h : h = Step(h)
    BY DEF Power
  <2>2. \E h : h = Step(h)
    BY <1>4
  <2> HIDE DEF Step
  <2> QED BY <2>1, <2>2
<1>6. /\ Power[0] = 1
      /\ \A n \in Nat : Power[n + 1] = Base * Power[n]
  <2>1. \A n \in Nat : Power[n] = IF n = 0 THEN 1 ELSE Base * Power[n - 1]
    BY <1>5
  <2> QED BY <2>1
<1>7. ASSUME NEW n \in Nat PROVE Power[n] \in Nat \ {0}
  <2> DEFINE wrong == {i \in Nat : Power[i] \notin Nat \ {0}}
  <2>1. wrong = {}
    <3> SUFFICES ASSUME wrong # {} PROVE FALSE
      OBVIOUS
    <3>1. PICK i \in wrong : \A j \in wrong : i <= j
      <4>1. wrong \in SUBSET Nat
        OBVIOUS
      <4> HIDE DEF wrong
      <4> QED BY <4>1, LeastNatural
    <3>2. i # 0 /\ i - 1 \in Nat /\ Power[i - 1] \in Nat \ {0}
      BY <1>6, <3>1
    <3>3. Power[(i - 1) + 1] = Base * Power[i - 1]
      BY <1>6, <3>2
    <3>4. Base * Power[i - 1] \in Nat \ {0}
      BY <1>b, <3>2
    <3> QED BY <3>1, <3>2, <3>3, <3>4
  <2> QED BY <2>1
<1> QED BY <1>6, <1>7

\* A word has a lowest bit, and a halves place.
LEMMA WordHalves == Word \in Nat /\ Word >= 2 /\ Half \in Nat /\ Word = 2 * Half /\ Half >= 1
<1>1. Digits - 1 \in Nat /\ Word = Power[(Digits - 1) + 1]
  BY WordAssumption DEF Word
<1>2. PICK p \in Nat \ {0} : Word = Base * p
  BY <1>1, Powers
<1>3. PICK b \in Nat \ {0} : Base = 2 * b
  <2>1. Base \div 2 \in Nat /\ Base = 2 * (Base \div 2)
    BY WordAssumption
  <2>2. Base \div 2 # 0
    BY <2>1, WordAssumption
  <2> QED BY <2>1, <2>2
<1>4. PICK m : m = b * p
  OBVIOUS
<1>5. m \in Nat \ {0}
  BY <1>4
<1>6. Word = 2 * m
  BY <1>2, <1>3, <1>4
<1> QED BY <1>5, <1>6 DEF Half

-----------------------------------------------------------------------------
(***************************************************************************)
(* Arithmetic: what a value stands for, without its sign.                  *)
(***************************************************************************)
Mag(v) == v.whole_p * Word + v.frac_p

\* A number of two words: its order is that of the words.
LEMMA TwoWords ==
  ASSUME NEW a \in Nat, NEW b \in Nat, NEW f \in 0 .. Word - 1, NEW g \in 0 .. Word - 1
  PROVE  /\ a * Word + f \in Nat
         /\ a > b => a * Word + f > b * Word + g
         /\ a * Word + f > b * Word + g => a > b \/ (a = b /\ f > g)
<1>1. Word \in Nat /\ Word >= 2
  BY WordHalves
<1>2. PICK w : w = Word
  OBVIOUS
<1>3. a * w \in Nat /\ b * w \in Nat
  BY <1>1, <1>2
<1>4. ASSUME NEW x \in Nat, NEW y \in Nat, x > y PROVE x * w >= y * w + w
  <2>1. PICK d \in Nat : x = y + 1 + d
    <3>1. x - y - 1 \in Nat /\ x = y + 1 + (x - y - 1)
      BY <1>4
    <3> QED BY <3>1
  <2>2. (y + 1 + d) * w = y * w + w + d * w /\ d * w \in Nat /\ y * w \in Nat
    BY <1>1, <1>2, <2>1, SMT
  <2>3. x * w = y * w + w + d * w
    BY <2>1, <2>2
  <2>4. PICK p, q, e : p = x * w /\ q = y * w /\ e = d * w
    OBVIOUS
  <2>5. p = q + w + e /\ e \in Nat /\ q \in Nat /\ w \in Nat
    BY <1>1, <1>2, <2>2, <2>3, <2>4
  <2>6. p >= q + w
    BY <2>5
  <2> QED BY <2>4, <2>6
<1>5. f \in Nat /\ g \in Nat /\ f < w /\ g < w /\ w \in Nat
  BY <1>1, <1>2
<1>6. a > b => a * w >= b * w + w
  BY <1>4
<1>7. b > a => b * w >= a * w + w
  BY <1>4
<1>8. PICK p, q : p = a * w /\ q = b * w
  OBVIOUS
<1>9. p + f \in Nat /\ (a > b => p + f > q + g) /\ (p + f > q + g => a > b \/ (a = b /\ f > g))
  <2>1. p \in Nat /\ q \in Nat /\ (a > b => p >= q + w) /\ (b > a => q >= p + w) /\ (a = b => p = q)
    BY <1>3, <1>6, <1>7, <1>8
  <2> QED BY <1>5, <2>1
<1> QED BY <1>2, <1>8, <1>9

\* The words of a value, and its sign.
LEMMA WordsOf ==
  ASSUME NEW v \in Fixedpoint
  PROVE  /\ v.whole_p \in Nat /\ v.whole_p < Word /\ v.frac_p \in Nat /\ v.frac_p < Word
         /\ Mag(v) \in Nat /\ Mag(v) <= Word * Word - 1
         /\ Num(v) = IF is_neg(v) THEN -Mag(v) ELSE Mag(v)
         /\ is_zero(v) <=> Mag(v) = 0
<1>1. /\ v.whole_p \in Nat /\ v.whole_p < Word /\ v.frac_p \in Nat /\ v.frac_p < Word
      /\ Word \in Nat /\ Word >= 2
  BY WordHalves DEF Fixedpoint, Words
<1>2. PICK w, x, f : w = Word /\ x = v.whole_p /\ f = v.frac_p
  OBVIOUS
<1>3. x \in Nat /\ x <= w - 1 /\ f \in Nat /\ f <= w - 1 /\ w \in Nat /\ w >= 2
  BY <1>1, <1>2
<1>4. /\ x * w \in Nat /\ x * w <= w * w - w /\ w * w \in Nat
      /\ x > 0 => x * w >= w
  <2>1. PICK d \in Nat : w = x + 1 + d
    <3>1. w - x - 1 \in Nat /\ w = x + 1 + (w - x - 1)
      BY <1>3
    <3> QED BY <3>1
  <2>2. (x + 1 + d) * w = x * w + w + d * w /\ d * w \in Nat /\ x * w \in Nat
    BY <1>3, <2>1, SMT
  <2>3. ASSUME x > 0 PROVE x * w >= w
    <3>1. (x - 1) * w = x * w - w /\ (x - 1) * w \in Nat
      BY <1>3, <2>3, SMT
    <3> QED BY <2>2, <3>1, <1>3
  <2>4. w * w = x * w + w + d * w
    BY <2>1, <2>2
  <2> QED BY <1>3, <2>2, <2>3, <2>4
<1>5. PICK p, q : p = x * w /\ q = w * w
  OBVIOUS
<1>6. /\ p \in Nat /\ p + f \in Nat /\ p + f <= q - 1
      /\ (x = 0 => p = 0) /\ (x > 0 => p > 0) /\ q \in Nat
  BY <1>3, <1>4, <1>5
<1>7. Mag(v) = p + f /\ Word * Word = q
  BY <1>2, <1>5 DEF Mag
<1>8. Num(v) = IF is_neg(v) THEN -Mag(v) ELSE Mag(v)
  <2>1. Num(v) = (IF is_neg(v) THEN -1 ELSE 1) * Mag(v)
    BY DEF Num, Mag
  <2>2. PICK m : m = Mag(v)
    OBVIOUS
  <2>3. m \in Nat /\ (-1) * m = -m /\ 1 * m = m
    BY <1>6, <1>7, <2>2
  <2> QED BY <2>1, <2>2, <2>3
<1>9. is_zero(v) <=> x = 0 /\ f = 0
  BY <1>2 DEF is_zero
<1>10. x = 0 /\ f = 0 <=> p + f = 0
  BY <1>3, <1>6
<1> QED BY <1>1, <1>6, <1>7, <1>8, <1>9, <1>10

\* Order is the order of the magnitudes.
LEMMA OrderOfMagnitudes ==
  ASSUME NEW a \in Fixedpoint, NEW b \in Fixedpoint
  PROVE  /\ Order(a, b) \in {-1, 0, 1}
         /\ Order(a, b) = 1 <=> Mag(a) > Mag(b)
         /\ Order(a, b) = -1 <=> Mag(b) > Mag(a)
         /\ Order(a, b) = 0 <=> Mag(a) = Mag(b)
         /\ Order(a, b) = 0 <=> a.whole_p = b.whole_p /\ a.frac_p = b.frac_p
<1>1. /\ a.whole_p \in Nat /\ a.frac_p \in 0 .. Word - 1 /\ a.frac_p \in Nat
      /\ b.whole_p \in Nat /\ b.frac_p \in 0 .. Word - 1 /\ b.frac_p \in Nat
      /\ Mag(a) \in Nat /\ Mag(b) \in Nat
  BY WordsOf, WordHalves
<1>2. PICK wa, fa, wb, fb : wa = a.whole_p /\ fa = a.frac_p /\ wb = b.whole_p /\ fb = b.frac_p
  OBVIOUS
<1>3. Order(a, b) = CASE wa > wb -> 1 [] wa < wb -> -1
                      [] OTHER -> IF fa > fb THEN 1 ELSE IF fa < fb THEN -1 ELSE 0
  BY <1>2 DEF Order
<1>4. /\ wa > wb => Mag(a) > Mag(b)
      /\ wb > wa => Mag(b) > Mag(a)
      /\ Mag(a) > Mag(b) => wa > wb \/ (wa = wb /\ fa > fb)
      /\ Mag(b) > Mag(a) => wb > wa \/ (wa = wb /\ fb > fa)
  BY <1>1, <1>2, TwoWords DEF Mag
<1>5. ASSUME wa = wb PROVE (fa > fb => Mag(a) > Mag(b)) /\ (fb > fa => Mag(b) > Mag(a))
                           /\ (fa = fb => Mag(a) = Mag(b))
  <2>1. PICK p : p = wa * Word
    OBVIOUS
  <2>2. Mag(a) = p + fa /\ Mag(b) = p + fb
    BY <1>2, <1>5, <2>1 DEF Mag
  <2>3. p \in Nat
    BY <1>1, <1>2, <2>1, WordHalves
  <2> QED BY <1>1, <1>2, <2>2, <2>3
<1>6. wa \in Nat /\ fa \in Nat /\ wb \in Nat /\ fb \in Nat
  BY <1>1, <1>2
<1>7. PICK m, n, o : m = Mag(a) /\ n = Mag(b) /\ o = Order(a, b)
  OBVIOUS
<1>8. /\ o \in {-1, 0, 1} /\ (o = 1 <=> m > n) /\ (o = -1 <=> n > m) /\ (o = 0 <=> m = n)
      /\ o = 0 <=> wa = wb /\ fa = fb
  <2>1. m \in Nat /\ n \in Nat
    BY <1>1, <1>7
  <2>2. CASE wa > wb
    BY <1>3, <1>4, <1>6, <1>7, <2>1, <2>2
  <2>3. CASE wa < wb
    BY <1>3, <1>4, <1>6, <1>7, <2>1, <2>3
  <2>4. CASE wa = wb
    <3>1. o = IF fa > fb THEN 1 ELSE IF fa < fb THEN -1 ELSE 0
      BY <1>3, <1>6, <1>7, <2>4
    <3> QED BY <1>5, <1>6, <1>7, <2>1, <2>4, <3>1
  <2> QED BY <1>6, <2>2, <2>3, <2>4
<1> QED BY <1>2, <1>7, <1>8

-----------------------------------------------------------------------------
(***************************************************************************)
(* Words that wrap, and their carries.                                     *)
(***************************************************************************)
\* A number is its quotient and its remainder.
LEMMA Quotient ==
  ASSUME NEW w \in Nat, w >= 1, NEW x \in Int
  PROVE  /\ x \div w \in Int /\ x % w \in 0 .. w - 1
         /\ x = w * (x \div w) + (x % w)
BY Z3

\* Quotient and remainder are the only ones there are.
LEMMA QuotientIs ==
  ASSUME NEW w \in Nat, w >= 1, NEW x \in Int, NEW q \in Int, NEW r \in 0 .. w - 1,
         x = w * q + r
  PROVE  x \div w = q /\ x % w = r
<1>1. PICK d, m : d = x \div w /\ m = x % w
  OBVIOUS
<1>2. d \in Int /\ m \in 0 .. w - 1 /\ x = w * d + m
  BY <1>1, Quotient
<1>3. w * (d - q) = w * d - w * q /\ w * d \in Int /\ w * q \in Int
  BY <1>2, SMT
<1>4. w * (d - q) = r - m
  BY <1>2, <1>3
<1>5. d - q < 1
  <2> SUFFICES ASSUME d - q >= 1 PROVE FALSE
    BY <1>2
  <2>1. w * (d - q) >= w
    BY <1>2, SMT
  <2> QED BY <1>2, <1>4, <2>1
<1>6. d - q > -1
  <2> SUFFICES ASSUME d - q <= -1 PROVE FALSE
    BY <1>2
  <2>1. w * (d - q) <= -w
    BY <1>2, SMT
  <2> QED BY <1>2, <1>4, <2>1
<1>7. d = q
  BY <1>2, <1>5, <1>6
<1> QED BY <1>1, <1>2, <1>7

\* What a sum or a difference of two words wraps around to.
LEMMA Wraps ==
  ASSUME NEW x \in Int
  PROVE  /\ 0 <= x /\ x < Word => x % Word = x
         /\ Word <= x /\ x < 2 * Word => x % Word = x - Word
         /\ -Word <= x /\ x < 0 => x % Word = x + Word
         /\ x % Word \in Words
<1>1. PICK w : w = Word
  OBVIOUS
<1>2. w \in Nat /\ w >= 2
  BY <1>1, WordHalves
<1>3. ASSUME 0 <= x, x < w PROVE x % w = x
  BY <1>2, <1>3, QuotientIs, x = w * 0 + x, x \in 0 .. w - 1
<1>4. ASSUME w <= x, x < 2 * w PROVE x % w = x - w
  <2>1. x = w * 1 + (x - w) /\ x - w \in 0 .. w - 1
    BY <1>2, <1>4
  <2> QED BY <1>2, <2>1, QuotientIs
<1>5. ASSUME -w <= x, x < 0 PROVE x % w = x + w
  <2>1. x = w * (-1) + (x + w) /\ x + w \in 0 .. w - 1 /\ -1 \in Int
    BY <1>2, <1>5
  <2> QED BY <1>2, <2>1, QuotientIs
<1>6. x % w \in 0 .. w - 1
  BY <1>2, Quotient
<1> QED BY <1>1, <1>3, <1>4, <1>5, <1>6 DEF Words

\* The greater magnitude less the other, with the sign of the greater.
LEMMA MinusExact ==
  ASSUME NEW a \in Fixedpoint, NEW b \in Fixedpoint, Mag(a) >= Mag(b)
  PROVE  /\ Minus(a, b) \in Fixedpoint /\ Minus(a, b).tag = a.tag
         /\ Mag(Minus(a, b)) = Mag(a) - Mag(b)
<1>1. PICK w, wa, fa, wb, fb : /\ w = Word /\ wa = a.whole_p /\ fa = a.frac_p
                               /\ wb = b.whole_p /\ fb = b.frac_p
  OBVIOUS
<1>2. /\ w \in Nat /\ w >= 2 /\ wa \in Nat /\ wa < w /\ fa \in Nat /\ fa < w
      /\ wb \in Nat /\ wb < w /\ fb \in Nat /\ fb < w
  BY <1>1, WordsOf, WordHalves
<1>3. wa > wb \/ (wa = wb /\ fa >= fb)
  <2>1. Order(a, b) # -1
    BY OrderOfMagnitudes, WordsOf
  <2> QED BY <1>1, <1>2, <2>1 DEF Order
<1>4. PICK c : c = IF fb > fa THEN 1 ELSE 0
  OBVIOUS
<1>5. PICK wm, fm : wm = (wa - wb - c) % w /\ fm = (fa - fb) % w
  OBVIOUS
<1>6. wm = wa - wb - c /\ fm = fa - fb + c * w
  <2>1. 0 <= wa - wb - c /\ wa - wb - c < w /\ wa - wb - c \in Int
    BY <1>2, <1>3, <1>4
  <2>2. wm = wa - wb - c
    BY <1>1, <1>5, <2>1, Wraps
  <2>3. CASE c = 0
    <3>1. /\ fm = (fa - fb) % Word /\ fa - fb \in Int
          /\ 0 <= fa - fb /\ fa - fb < Word
      BY <1>1, <1>2, <1>4, <1>5, <2>3
    <3>2. fm = fa - fb
      BY <3>1, Wraps
    <3>3. c * w = 0
      BY <1>2, <2>3
    <3> QED BY <1>2, <2>2, <3>2, <3>3
  <2>4. CASE c = 1
    <3>1. /\ fm = (fa - fb) % Word /\ fa - fb \in Int
          /\ -Word <= fa - fb /\ fa - fb < 0
      BY <1>1, <1>2, <1>4, <1>5, <2>4
    <3>2. fm = fa - fb + Word
      BY <3>1, Wraps
    <3>3. c * w = w
      BY <1>2, <2>4
    <3> QED BY <1>1, <1>2, <2>2, <3>2, <3>3
  <2> QED BY <1>4, <2>2, <2>3, <2>4
<1>7. Minus(a, b) = Value(wm, fm, a.tag)
  BY <1>1, <1>4, <1>5 DEF Minus
<1>8. wm \in Words /\ fm \in Words
  BY <1>1, <1>2, <1>4, <1>5, Wraps
<1>9. a.tag \in Tags
  BY DEF Fixedpoint
<1>10. Minus(a, b) \in Fixedpoint /\ Minus(a, b).tag = a.tag /\ Mag(Minus(a, b)) = wm * w + fm
  BY <1>1, <1>7, <1>8, <1>9 DEF Value, Fixedpoint, Mag
<1>11. wm * w + fm = (wa * w + fa) - (wb * w + fb)
  <2>1. (wa - wb - c) * w = wa * w - wb * w - c * w
    BY <1>2, <1>4, SMT
  <2>2. PICK p, q, r : p = wa * w /\ q = wb * w /\ r = c * w
    OBVIOUS
  <2>3. p \in Nat /\ q \in Nat /\ r \in Nat
    BY <1>2, <1>4, <2>2
  <2>4. (p - q - r) + (fa - fb + r) = (p + fa) - (q + fb)
    BY <1>2, <2>3
  <2> QED BY <1>6, <2>1, <2>2, <2>4
<1> QED BY <1>1, <1>10, <1>11 DEF Mag

\* The sum of two magnitudes, if two words hold it.
LEMMA PlusExact ==
  ASSUME NEW a \in Fixedpoint, NEW b \in Fixedpoint
  PROVE  /\ Plus(a, b) \in Fixedpoint
         /\ Mag(a) + Mag(b) <= Word * Word - 1 =>
              Plus(a, b).tag = a.tag /\ Mag(Plus(a, b)) = Mag(a) + Mag(b)
         /\ Mag(a) + Mag(b) > Word * Word - 1 =>
              Plus(a, b).tag = IF is_neg(a) THEN "NEG_OVERFLOW" ELSE "POS_OVERFLOW"
<1>1. PICK w, wa, fa, wb, fb : /\ w = Word /\ wa = a.whole_p /\ fa = a.frac_p
                               /\ wb = b.whole_p /\ fb = b.frac_p
  OBVIOUS
<1>2. /\ w \in Nat /\ w >= 2 /\ wa \in Nat /\ wa < w /\ fa \in Nat /\ fa < w
      /\ wb \in Nat /\ wb < w /\ fb \in Nat /\ fb < w
  BY <1>1, WordsOf, WordHalves
<1>3. PICK f : f = (fa + fb) % w
  OBVIOUS
<1>4. PICK c : c = IF f < fa THEN 1 ELSE 0
  OBVIOUS
<1>5. PICK x : x = (wa + wb + c) % w
  OBVIOUS
<1>6. f = fa + fb - c * w /\ f \in Nat /\ f < w
  <2>1. CASE fa + fb < w
    <3>1. f = fa + fb
      <4>1. fa + fb \in Int /\ 0 <= fa + fb /\ fa + fb < Word /\ f = (fa + fb) % Word
        BY <1>1, <1>2, <1>3, <2>1
      <4> QED BY <4>1, Wraps
    <3>2. c = 0
      BY <1>2, <1>4, <3>1
    <3>3. c * w = 0
      BY <1>2, <3>2
    <3> QED BY <1>2, <2>1, <3>1, <3>3
  <2>2. CASE fa + fb >= w
    <3>1. f = fa + fb - w
      <4>1. /\ fa + fb \in Int /\ Word <= fa + fb /\ fa + fb < 2 * Word
            /\ f = (fa + fb) % Word
        BY <1>1, <1>2, <1>3, <2>2
      <4>2. f = (fa + fb) - Word
        BY <4>1, Wraps
      <4> QED BY <1>1, <1>2, <4>2
    <3>2. c = 1
      BY <1>2, <1>4, <3>1
    <3>3. c * w = w
      BY <1>2, <3>2
    <3> QED BY <1>2, <2>2, <3>1, <3>3
  <2> QED BY <1>2, <2>1, <2>2
<1>7. PICK overflow : overflow = (x < wa \/ (x = wa /\ wb # 0))
  OBVIOUS
<1>8. /\ wa + wb + c < w => x = wa + wb + c /\ ~(x < wa \/ (x = wa /\ wb # 0))
      /\ wa + wb + c >= w => x < wa \/ (x = wa /\ wb # 0)
      /\ x \in Nat
  <2>1. CASE wa + wb + c < w
    <3>1. x = wa + wb + c
      BY <1>1, <1>2, <1>4, <1>5, <2>1, Wraps
    <3> QED BY <1>2, <1>4, <2>1, <3>1
  <2>2. CASE wa + wb + c >= w
    <3>1. x = wa + wb + c - w
      BY <1>1, <1>2, <1>4, <1>5, <2>2, Wraps
    <3> QED BY <1>2, <1>4, <2>2, <3>1
  <2> QED BY <1>2, <1>4, <2>1, <2>2
<1>9. PICK t : t = IF ~(x < wa \/ (x = wa /\ wb # 0)) THEN a.tag
                   ELSE IF is_neg(a) THEN "NEG_OVERFLOW" ELSE "POS_OVERFLOW"
  OBVIOUS
<1>10. Plus(a, b) = Value(x, f, t)
  BY <1>1, <1>3, <1>4, <1>5, <1>9 DEF Plus
<1>11. x \in Words /\ f \in Words /\ t \in Tags
  <2>1. x \in Words /\ f \in Words
    BY <1>1, <1>2, <1>3, <1>4, <1>5, Wraps
  <2>2. a.tag \in Tags
    BY DEF Fixedpoint
  <2> QED BY <1>9, <2>1, <2>2 DEF Tags
<1>12. Plus(a, b) \in Fixedpoint /\ Plus(a, b).tag = t /\ Mag(Plus(a, b)) = x * w + f
  BY <1>1, <1>10, <1>11 DEF Value, Fixedpoint, Mag
<1>13. PICK p, q, r, s : p = wa * w /\ q = wb * w /\ r = c * w /\ s = w * w
  OBVIOUS
<1>14. /\ p \in Nat /\ q \in Nat /\ r \in Nat /\ s \in Nat
       /\ (wa + wb + c) * w = p + q + r
       /\ Mag(a) = p + fa /\ Mag(b) = q + fb
  BY <1>1, <1>2, <1>4, <1>13, SMT DEF Mag
<1>15. /\ wa + wb + c < w => p + q + r + w <= s
       /\ wa + wb + c >= w => p + q + r >= s
  <2>1. PICK y : y = wa + wb + c
    OBVIOUS
  <2>2. y \in Nat /\ y * w = p + q + r
    BY <1>2, <1>4, <1>14, <2>1
  <2>3. ASSUME y < w PROVE y * w + w <= w * w
    <3>1. PICK d \in Nat : w = y + 1 + d
      <4>1. w - y - 1 \in Nat /\ w = y + 1 + (w - y - 1)
        BY <1>2, <2>2, <2>3
      <4> QED BY <4>1
    <3>2. (y + 1 + d) * w = y * w + w + d * w /\ d * w \in Nat /\ y * w \in Nat
      BY <1>2, <2>2, <3>1, SMT
    <3>3. w * w = y * w + w + d * w
      BY <3>1, <3>2
    <3> QED BY <1>2, <3>2, <3>3
  <2>4. ASSUME y >= w PROVE y * w >= w * w
    <3>1. (y - w) * w = y * w - w * w /\ (y - w) * w \in Nat /\ y * w \in Nat
      BY <1>2, <2>2, <2>4, SMT
    <3>2. PICK g, h, i : g = (y - w) * w /\ h = y * w /\ i = w * w
      OBVIOUS
    <3>3. g = h - i /\ g \in Nat /\ h \in Nat /\ i \in Nat
      BY <1>2, <3>1, <3>2
    <3> QED BY <3>2, <3>3
  <2> QED BY <1>13, <2>1, <2>2, <2>3, <2>4
<1>16. CASE wa + wb + c < w
  <2>1. t = a.tag /\ x * w = p + q + r
    BY <1>8, <1>9, <1>14, <1>16
  <2>2. p + q + r + f = (p + fa) + (q + fb) /\ (p + fa) + (q + fb) <= s - 1
    BY <1>2, <1>6, <1>13, <1>14, <1>15, <1>16
  <2>3. Mag(a) + Mag(b) <= Word * Word - 1 /\ Mag(Plus(a, b)) = Mag(a) + Mag(b)
    BY <1>1, <1>12, <1>13, <1>14, <2>1, <2>2
  <2>4. PICK m : m = Mag(a) + Mag(b)
    OBVIOUS
  <2>5. m \in Nat /\ ~(m > Word * Word - 1)
    BY <1>1, <1>2, <1>13, <1>14, <2>3, <2>4
  <2> QED BY <1>12, <2>1, <2>3, <2>4, <2>5
<1>17. CASE wa + wb + c >= w
  <2>1. t = IF is_neg(a) THEN "NEG_OVERFLOW" ELSE "POS_OVERFLOW"
    BY <1>8, <1>9, <1>17
  <2>2. (p + fa) + (q + fb) > s - 1
    BY <1>2, <1>6, <1>13, <1>14, <1>15, <1>17
  <2>3. PICK m, n : m = Mag(a) + Mag(b) /\ n = Word * Word
    OBVIOUS
  <2>4. m > n - 1 /\ ~(m <= n - 1)
    BY <1>1, <1>2, <1>13, <1>14, <2>2, <2>3
  <2> QED BY <1>12, <2>1, <2>3, <2>4
<1> QED BY <1>2, <1>4, <1>16, <1>17

-----------------------------------------------------------------------------
(***************************************************************************)
(* The operations.                                                         *)
(***************************************************************************)
\* Another sign and the same words, but for zero.
LEMMA NegateExact ==
  ASSUME NEW v \in Valid
  PROVE  /\ negate(v) \in Valid /\ Num(negate(v)) = -Num(v) /\ Mag(negate(v)) = Mag(v)
         /\ ~is_zero(v) => (is_neg(negate(v)) <=> ~is_neg(v))
         /\ is_zero(v) => negate(v) = v
<1>1. v \in Fixedpoint /\ v.tag \in {"VALID_NEG", "VALID_NONNEG"} /\ Mag(v) \in Nat
  BY WordsOf DEF Valid, is_valid
<1>2. CASE is_zero(v)
  <2>1. negate(v) = v /\ Mag(v) = 0
    BY <1>1, <1>2, WordsOf DEF negate
  <2> QED BY <1>1, <1>2, <2>1, WordsOf
<1>3. CASE ~is_zero(v)
  <2>1. PICK t : t = IF is_neg(v) THEN "VALID_NONNEG" ELSE "VALID_NEG"
    OBVIOUS
  <2>2. negate(v) = [v EXCEPT !.tag = t]
    BY <1>3, <2>1 DEF negate
  <2>3. /\ negate(v).whole_p = v.whole_p /\ negate(v).frac_p = v.frac_p /\ negate(v).tag = t
        /\ negate(v) \in Fixedpoint
    BY <1>1, <2>1, <2>2 DEF Fixedpoint, Tags
  <2>4. negate(v) \in Valid /\ Mag(negate(v)) = Mag(v) /\ (is_neg(negate(v)) <=> ~is_neg(v))
    BY <1>1, <2>1, <2>3 DEF Valid, is_valid, is_neg, Mag
  <2>5. Num(negate(v)) = -Num(v)
    <3>1. PICK m : m = Mag(v)
      OBVIOUS
    <3>2. Num(v) = IF is_neg(v) THEN -m ELSE m
      BY <1>1, <3>1, WordsOf
    <3>3. Num(negate(v)) = IF is_neg(v) THEN m ELSE -m
      BY <2>3, <2>4, <3>1, WordsOf
    <3> QED BY <1>1, <3>1, <3>2, <3>3
  <2> QED BY <1>3, <2>4, <2>5
<1> QED BY <1>2, <1>3

\* What compare says.
LEMMA CompareExact ==
  ASSUME NEW a \in Valid, NEW b \in Valid
  PROVE  /\ a.tag # b.tag => compare(a, b) = IF is_neg(b) THEN 1 ELSE -1
         /\ a.tag = b.tag => compare(a, b) = Sign(Num(a) - Num(b))
<1>1. /\ a \in Fixedpoint /\ b \in Fixedpoint /\ a.tag \in {"VALID_NEG", "VALID_NONNEG"}
      /\ b.tag \in {"VALID_NEG", "VALID_NONNEG"}
  BY DEF Valid, is_valid
<1>2. CASE a.tag # b.tag
  BY <1>2 DEF compare
<1>3. CASE a.tag = b.tag
  <2>1. PICK m, n, o : m = Mag(a) /\ n = Mag(b) /\ o = Order(a, b)
    OBVIOUS
  <2>2. /\ m \in Nat /\ n \in Nat /\ o \in {-1, 0, 1} /\ (o = 1 <=> m > n)
        /\ (o = -1 <=> n > m) /\ (o = 0 <=> m = n)
    BY <1>1, <2>1, WordsOf, OrderOfMagnitudes
  <2>3. compare(a, b) = IF is_neg(a) THEN -o ELSE o
    BY <1>3, <2>1 DEF compare
  <2>4. Num(a) - Num(b) = IF is_neg(a) THEN n - m ELSE m - n
    <3>1. is_neg(a) <=> is_neg(b)
      BY <1>3 DEF is_neg
    <3> QED BY <1>1, <2>1, <2>2, <3>1, WordsOf
  <2> QED BY <1>3, <2>2, <2>3, <2>4 DEF Sign
<1> QED BY <1>2, <1>3

\* The contract of add, sub and double: the number, or the side of the overflow.
IsExactly(v, n) == IF InRange(n) THEN is_valid(v) /\ Num(v) = n
                   ELSE v.tag = IF n < 0 THEN "NEG_OVERFLOW" ELSE "POS_OVERFLOW"

\* add keeps the contract, for operands that are valid.
LEMMA AddExact ==
  ASSUME NEW a \in Valid, NEW b \in Valid
  PROVE  /\ add(a, b) \in Fixedpoint
         /\ IsExactly(add(a, b), Num(a) + Num(b))
         /\ NegativeZero(add(a, b)) => NegativeZero(a)
<1>1. /\ a \in Fixedpoint /\ b \in Fixedpoint /\ a.tag \in {"VALID_NEG", "VALID_NONNEG"}
      /\ b.tag \in {"VALID_NEG", "VALID_NONNEG"}
  BY DEF Valid, is_valid
<1>2. PICK m, n, top : m = Mag(a) /\ n = Mag(b) /\ top = Word * Word - 1
  OBVIOUS
<1>3. m \in Nat /\ n \in Nat /\ top \in Nat /\ m <= top /\ n <= top
  <2>1. Word * Word - 1 \in Int
    BY WordHalves
  <2> QED BY <1>1, <1>2, <2>1, WordsOf
<1>4. /\ Num(a) = IF is_neg(a) THEN -m ELSE m
      /\ Num(b) = IF is_neg(b) THEN -n ELSE n
      /\ \A k : InRange(k) <=> k \in -top .. top
  BY <1>1, <1>2, WordsOf DEF InRange
<1>5. CASE a.tag = b.tag
  <2>1. PICK r : r = Plus(a, b)
    OBVIOUS
  <2>2. add(a, b) = r
    BY <1>5, <2>1 DEF add
  <2>3. /\ r \in Fixedpoint
        /\ m + n <= top => r.tag = a.tag /\ Mag(r) = m + n
        /\ m + n > top => r.tag = IF is_neg(a) THEN "NEG_OVERFLOW" ELSE "POS_OVERFLOW"
    BY <1>1, <1>2, <2>1, PlusExact
  <2>4. is_neg(a) <=> is_neg(b)
    BY <1>5 DEF is_neg
  <2>5. PICK s : s = Num(a) + Num(b)
    OBVIOUS
  <2>6. s = IF is_neg(a) THEN -(m + n) ELSE m + n
    BY <1>3, <1>4, <2>4, <2>5
  <2>7. CASE m + n <= top
    <3>1. s \in -top .. top
      BY <1>3, <2>6, <2>7
    <3>2. is_valid(r) /\ (is_neg(r) <=> is_neg(a)) /\ Mag(r) = m + n
      BY <1>1, <2>3, <2>7 DEF is_valid, is_neg
    <3>3. Num(r) = s
      BY <2>3, <2>6, <3>2, WordsOf
    <3>4. NegativeZero(r) => NegativeZero(a)
      <4>1. is_zero(r) => m = 0
        BY <1>3, <2>3, <3>2, WordsOf
      <4> QED BY <1>1, <1>2, <3>2, <4>1, WordsOf DEF NegativeZero
    <3> QED BY <1>4, <2>2, <2>3, <2>5, <3>1, <3>2, <3>3, <3>4 DEF IsExactly
  <2>8. CASE m + n > top
    <3>1. ~(s \in -top .. top) /\ (s < 0 <=> is_neg(a))
      BY <1>3, <2>6, <2>8
    <3>2. ~ is_neg(r)
      BY <2>3, <2>8 DEF is_neg
    <3> QED BY <1>4, <2>2, <2>3, <2>5, <2>8, <3>1, <3>2 DEF IsExactly, NegativeZero
  <2> QED BY <1>3, <2>7, <2>8
<1>6. CASE a.tag # b.tag
  <2>1. is_neg(a) <=> ~is_neg(b)
    BY <1>1, <1>6 DEF is_neg
  <2>2. PICK s : s = Num(a) + Num(b)
    OBVIOUS
  <2>3. s = (IF is_neg(a) THEN n - m ELSE m - n) /\ s \in -top .. top
    BY <1>3, <1>4, <2>1, <2>2
  <2>4. PICK order : order = IF is_neg(a) THEN compare(negate(a), b) ELSE compare(a, negate(b))
    OBVIOUS
  <2>5. add(a, b) = CASE order = 0 -> Value(0, 0, "VALID_NONNEG")
                      [] order = 1 -> Minus(a, b)
                      [] order = -1 -> Minus(b, a)
    BY <1>6, <2>4 DEF add
  <2>6. /\ order \in {-1, 0, 1} /\ (order = 0 => m = n)
        /\ order = 1 => m >= n /\ (m = n => ~is_neg(a))
        /\ order = -1 => n >= m /\ (m = n => ~is_neg(b))
    <3>1. PICK p, q : p = (IF is_neg(a) THEN negate(a) ELSE a)
                      /\ q = (IF is_neg(a) THEN b ELSE negate(b))
      OBVIOUS
    <3>2. order = compare(p, q) /\ p \in Valid /\ q \in Valid
      BY <2>4, <3>1, NegateExact
    <3>3. Mag(p) = m /\ Mag(q) = n
      BY <1>2, <3>1, NegateExact
    <3>4. CASE p.tag = q.tag
      <4>1. ~is_neg(p) /\ ~is_neg(q)
        BY <2>1, <3>1, <3>4 DEF is_neg
      <4>2. Num(p) = m /\ Num(q) = n
        BY <3>2, <3>3, <4>1, WordsOf DEF Valid
      <4>3. order = Sign(m - n)
        BY <3>2, <3>4, <4>2, CompareExact
      <4> QED BY <1>3, <4>3 DEF Sign
    <3>5. CASE p.tag # q.tag
      <4>1. order = IF is_neg(q) THEN 1 ELSE -1
        BY <3>2, <3>5, CompareExact
      <4>2. CASE is_neg(a)
        <5>1. p = negate(a) /\ q = b /\ ~is_neg(b)
          BY <2>1, <3>1, <4>2
        <5>2. is_zero(a)
          <6> SUFFICES ASSUME ~is_zero(a) PROVE FALSE
            OBVIOUS
          <6>1. ~is_neg(p)
            BY <4>2, <5>1, NegateExact
          <6>2. p.tag = "VALID_NONNEG" /\ q.tag = "VALID_NONNEG"
            BY <3>2, <5>1, <6>1 DEF Valid, is_valid, is_neg
          <6> QED BY <3>5, <6>2
        <5>3. m = 0
          BY <1>1, <1>2, <5>2, WordsOf
        <5> QED BY <1>3, <4>1, <5>1, <5>3
      <4>3. CASE ~is_neg(a)
        <5>1. p = a /\ q = negate(b) /\ is_neg(b)
          BY <2>1, <3>1, <4>3
        <5>2. is_zero(b)
          <6> SUFFICES ASSUME ~is_zero(b) PROVE FALSE
            OBVIOUS
          <6>1. ~is_neg(q)
            BY <5>1, NegateExact
          <6>2. p.tag = "VALID_NONNEG" /\ q.tag = "VALID_NONNEG"
            BY <3>2, <4>3, <5>1, <6>1 DEF Valid, is_valid, is_neg
          <6> QED BY <3>5, <6>2
        <5>3. n = 0 /\ q = b
          BY <1>1, <1>2, <5>1, <5>2, WordsOf, NegateExact
        <5> QED BY <1>3, <4>1, <4>3, <5>1, <5>3
      <4> QED BY <4>2, <4>3
    <3> QED BY <3>4, <3>5
  <2>7. CASE order = 0
    <3>1. PICK r : r = Value(0, 0, "VALID_NONNEG")
      OBVIOUS
    <3>2. r \in Fixedpoint /\ is_valid(r) /\ ~is_neg(r) /\ is_zero(r)
      BY <3>1, WordHalves DEF Value, Fixedpoint, Tags, Words, is_valid, is_neg, is_zero
    <3>3. Num(r) = 0 /\ s = 0
      BY <1>3, <2>3, <2>6, <2>7, <3>2, WordsOf
    <3> QED BY <1>4, <2>2, <2>3, <2>5, <2>7, <3>1, <3>2, <3>3 DEF IsExactly, NegativeZero
  <2>8. CASE order = 1
    <3>1. PICK r : r = Minus(a, b)
      OBVIOUS
    <3>2. r \in Fixedpoint /\ r.tag = a.tag /\ Mag(r) = m - n
      BY <1>1, <1>2, <2>6, <2>8, <3>1, MinusExact
    <3>3. is_valid(r) /\ (is_neg(r) <=> is_neg(a))
      BY <1>1, <3>2 DEF is_valid, is_neg
    <3>4. Num(r) = s
      BY <1>3, <2>3, <3>2, <3>3, WordsOf
    <3>5. ~NegativeZero(r)
      <4>1. is_zero(r) => m = n
        BY <1>3, <3>2, WordsOf
      <4> QED BY <2>6, <2>8, <3>3, <4>1 DEF NegativeZero
    <3> QED BY <1>4, <2>2, <2>3, <2>5, <2>8, <3>1, <3>2, <3>3, <3>4, <3>5 DEF IsExactly
  <2>9. CASE order = -1
    <3>1. PICK r : r = Minus(b, a)
      OBVIOUS
    <3>2. r \in Fixedpoint /\ r.tag = b.tag /\ Mag(r) = n - m
      BY <1>1, <1>2, <2>6, <2>9, <3>1, MinusExact
    <3>3. is_valid(r) /\ (is_neg(r) <=> is_neg(b))
      BY <1>1, <3>2 DEF is_valid, is_neg
    <3>4. Num(r) = s
      BY <1>3, <2>1, <2>3, <3>2, <3>3, WordsOf
    <3>5. ~NegativeZero(r)
      <4>1. is_zero(r) => m = n
        BY <1>3, <3>2, WordsOf
      <4> QED BY <2>6, <2>9, <3>3, <4>1 DEF NegativeZero
    <3> QED BY <1>4, <2>2, <2>3, <2>5, <2>9, <3>1, <3>2, <3>3, <3>4, <3>5 DEF IsExactly
  <2> QED BY <2>6, <2>7, <2>8, <2>9
<1> QED BY <1>5, <1>6

\* The contract of sub: a zero with a sign changes nothing.
LEMMA SubExact ==
  ASSUME NEW a \in Valid, NEW b \in Valid
  PROVE  /\ sub(a, b) \in Fixedpoint
         /\ IsExactly(sub(a, b), Num(a) - Num(b))
         /\ NegativeZero(sub(a, b)) => NegativeZero(a)
<1>1. negate(b) \in Valid /\ Num(negate(b)) = -Num(b)
  BY NegateExact
<1>2. Num(a) \in Int /\ Num(b) \in Int
  BY WordsOf DEF Valid
<1>3. Num(a) + Num(negate(b)) = Num(a) - Num(b)
  BY <1>1, <1>2
<1> QED BY <1>1, <1>3, AddExact DEF sub

\* The contract of double.
LEMMA DoubleExact ==
  ASSUME NEW a \in Valid
  PROVE  /\ double(a) \in Fixedpoint
         /\ IsExactly(double(a), 2 * Num(a))
         /\ NegativeZero(double(a)) => NegativeZero(a)
<1>1. Num(a) \in Int
  BY WordsOf DEF Valid
<1>2. Num(a) + Num(a) = 2 * Num(a)
  BY <1>1
<1> QED BY <1>2, AddExact DEF double

\* Half of a magnitude: a bit that leaves the whole is the halves place of the
\* fraction, and one that leaves the fraction is lost.
LEMMA HalveExact ==
  ASSUME NEW v \in Valid
  PROVE  /\ halve(v) \in Fixedpoint
         /\ IF Num(v) % 2 = 0
            THEN is_valid(halve(v)) /\ 2 * Num(halve(v)) = Num(v)
            ELSE halve(v).tag = IF is_neg(v) THEN "NEG_UNDERFLOW" ELSE "POS_UNDERFLOW"
         /\ NegativeZero(halve(v)) => NegativeZero(v)
<1>1. v \in Fixedpoint /\ v.tag \in {"VALID_NEG", "VALID_NONNEG"}
  BY DEF Valid, is_valid
<1>2. PICK w, h, x, f : w = Word /\ h = Half /\ x = v.whole_p /\ f = v.frac_p
  OBVIOUS
<1>3. /\ h \in Nat /\ h >= 1 /\ w = 2 * h
      /\ x \in Nat /\ x < w /\ f \in Nat /\ f < w
  BY <1>1, <1>2, WordsOf, WordHalves
<1>4. PICK xq, xr, fq, fr : xq = x \div 2 /\ xr = x % 2 /\ fq = f \div 2 /\ fr = f % 2
  OBVIOUS
<1>5. /\ xq \in Nat /\ xr \in {0, 1} /\ x = 2 * xq + xr
      /\ fq \in Nat /\ fr \in {0, 1} /\ f = 2 * fq + fr
  BY <1>3, <1>4
<1>6. PICK t : t = IF fr = 0 THEN v.tag
                   ELSE IF is_neg(v) THEN "NEG_UNDERFLOW" ELSE "POS_UNDERFLOW"
  OBVIOUS
<1>7. PICK g : g = fq + xr * h
  OBVIOUS
<1>8. g = (IF xr = 0 THEN fq ELSE fq + h) /\ g \in Nat /\ g < w /\ xq < w
  BY <1>3, <1>5, <1>7
<1>9. halve(v) = Value(xq, g, t)
  BY <1>2, <1>4, <1>6, <1>7 DEF halve
<1>10. PICK r : r = halve(v)
  OBVIOUS
<1>11. r \in Fixedpoint /\ r.tag = t /\ Mag(r) = xq * w + g
  <2>1. t \in Tags
    BY <1>1, <1>6 DEF Tags
  <2>2. xq \in Words /\ g \in Words
    BY <1>2, <1>3, <1>5, <1>8 DEF Words
  <2> QED BY <1>2, <1>9, <1>10, <2>1, <2>2 DEF Value, Fixedpoint, Mag
<1>12. Mag(v) = 2 * (xq * w + g) + fr
  <2>1. x * w = 2 * (xq * w) + xr * w /\ xr * w = 2 * (xr * h)
    BY <1>3, <1>5, SMT
  <2>2. Mag(v) = x * w + f
    BY <1>2 DEF Mag
  <2>3. PICK p, q, y : p = xq * w /\ q = xr * h /\ y = x * w
    OBVIOUS
  <2>4. p \in Int /\ q \in Int /\ y = 2 * p + 2 * q
    BY <1>3, <1>5, <2>1, <2>3
  <2>5. y + f = 2 * (p + g) + fr
    BY <1>5, <1>7, <2>3, <2>4
  <2> QED BY <2>2, <2>3, <2>5
<1>13. PICK m, k : m = Mag(v) /\ k = Mag(r)
  OBVIOUS
<1>14. m = 2 * k + fr /\ k \in Nat /\ m \in Nat
  BY <1>1, <1>11, <1>12, <1>13, WordsOf
<1>15. Num(v) = IF is_neg(v) THEN -m ELSE m
  BY <1>1, <1>13, WordsOf
<1>16. CASE fr = 0
  <2>1. r.tag = v.tag /\ is_valid(r) /\ (is_neg(r) <=> is_neg(v))
    BY <1>1, <1>6, <1>11, <1>16 DEF is_valid, is_neg
  <2>2. Num(r) = IF is_neg(v) THEN -k ELSE k
    BY <1>11, <1>13, <2>1, WordsOf
  <2>3. 2 * Num(r) = Num(v) /\ Num(v) % 2 = 0
    BY <1>14, <1>15, <1>16, <2>2
  <2>4. is_zero(r) => is_zero(v)
    <3>1. (is_zero(r) <=> k = 0) /\ (is_zero(v) <=> m = 0)
      BY <1>1, <1>11, <1>13, WordsOf
    <3> QED BY <1>14, <1>16, <3>1
  <2> QED BY <1>10, <1>11, <2>1, <2>3, <2>4 DEF NegativeZero
<1>17. CASE fr = 1
  <2>1. Num(v) % 2 # 0
    BY <1>14, <1>15, <1>17
  <2>2. r.tag = (IF is_neg(v) THEN "NEG_UNDERFLOW" ELSE "POS_UNDERFLOW") /\ ~is_neg(r)
    BY <1>6, <1>11, <1>17 DEF is_neg
  <2> QED BY <1>10, <1>11, <2>1, <2>2 DEF NegativeZero
<1> QED BY <1>5, <1>16, <1>17

-----------------------------------------------------------------------------
(***************************************************************************)
(* Digits.                                                                 *)
(***************************************************************************)
\* The digits there are, and what each is worth.
LEMMA DigitFacts ==
  /\ \A d \in 0 .. Base - 1 : /\ DigitChars[d + 1] \in ToSet(DigitChars)
                              /\ DigitValue(DigitChars[d + 1]) = d
  /\ \A c \in ToSet(DigitChars) : /\ DigitValue(c) \in 0 .. Base - 1
                                  /\ DigitChars[DigitValue(c) + 1] = c
                                  /\ c # "." /\ c # "-"
  /\ DigitChars[1] = "0" /\ "0" \in ToSet(DigitChars) /\ DigitValue("0") = 0
<1> DEFINE all == <<"0", "1", "2", "3", "4", "5", "6", "7", "8", "9", "a", "b", "c", "d", "e", "f">>
<1>1. Base \in 1 .. 16
  BY WordAssumption
<1>2. /\ Len(all) = 16 /\ all \in Seq({all[i] : i \in 1 .. 16})
      /\ \A i, j \in 1 .. 16 : all[i] = all[j] => i = j
      /\ \A i \in 1 .. 16 : all[i] # "." /\ all[i] # "-"
      /\ all[1] = "0"
  <2>1. Len(all) = 16
    OBVIOUS
  <2>5. all \in Seq({all[i] : i \in 1 .. 16})
    <3>1. DOMAIN all = 1 .. 16 /\ all = [i \in 1 .. 16 |-> all[i]]
      OBVIOUS
    <3> HIDE DEF all
    <3> QED BY <3>1, SeqDef
  <2>2. \A i \in 1 .. 16 : all[i] # "." /\ all[i] # "-"
    OBVIOUS
  <2>3. /\ all[1] = "0" /\ all[2] = "1" /\ all[3] = "2" /\ all[4] = "3" /\ all[5] = "4"
        /\ all[6] = "5" /\ all[7] = "6" /\ all[8] = "7" /\ all[9] = "8" /\ all[10] = "9"
        /\ all[11] = "a" /\ all[12] = "b" /\ all[13] = "c" /\ all[14] = "d" /\ all[15] = "e"
        /\ all[16] = "f"
    OBVIOUS
  <2> HIDE DEF all
  <2>4. \A i, j \in 1 .. 16 : all[i] = all[j] => i = j
    BY <2>3
  <2> QED BY <2>1, <2>2, <2>3, <2>4, <2>5
<1>3. DigitChars = SubSeq(all, 1, Base)
  BY DEF DigitChars
<1> HIDE DEF all
<1>4. Len(DigitChars) = Base /\ \A i \in 1 .. Base : DigitChars[i] = all[i]
  BY <1>1, <1>2, <1>3
<1>5. DOMAIN DigitChars = 1 .. Base
  BY <1>1, <1>2, <1>3, <1>4
<1>6. ToSet(DigitChars) = {DigitChars[i] : i \in 1 .. Base}
  BY <1>5 DEF ToSet
<1>7. ASSUME NEW d \in 0 .. Base - 1
      PROVE  DigitChars[d + 1] \in ToSet(DigitChars) /\ DigitValue(DigitChars[d + 1]) = d
  <2>1. d + 1 \in 1 .. Base
    BY <1>1
  <2>2. ASSUME NEW e \in 0 .. Base - 1, DigitChars[e + 1] = DigitChars[d + 1]
        PROVE  e = d
    <3>1. e + 1 \in 1 .. Base /\ e + 1 \in 1 .. 16 /\ d + 1 \in 1 .. 16
      BY <1>1
    <3>2. all[e + 1] = all[d + 1]
      BY <1>4, <2>1, <2>2, <3>1
    <3>3. e + 1 = d + 1
      BY <1>2, <3>1, <3>2
    <3> QED BY <3>3
  <2> QED BY <1>6, <2>1, <2>2 DEF DigitValue
<1>8. ASSUME NEW c \in ToSet(DigitChars)
      PROVE  \E d \in 0 .. Base - 1 : c = DigitChars[d + 1] /\ c # "." /\ c # "-"
  <2>1. PICK i \in 1 .. Base : c = DigitChars[i]
    BY <1>6
  <2>2. i - 1 \in 0 .. Base - 1 /\ (i - 1) + 1 = i
    BY <1>1, <2>1
  <2>3. c # "." /\ c # "-"
    BY <1>1, <1>2, <1>4, <2>1
  <2> QED BY <2>1, <2>2, <2>3
<1>9. 0 \in 0 .. Base - 1 /\ DigitChars[0 + 1] = "0"
  BY <1>1, <1>2, <1>4
<1> QED BY <1>7, <1>8, <1>9

\* What the fold of Number computes, one digit more at a time: there is a function
\* that solves its recursion over the sets of the first k places, for every k.
LEMMA NumberIs ==
  ASSUME NEW s \in Seq(ToSet(DigitChars))
  PROVE  \E N \in [0 .. Len(s) -> Nat] :
           /\ N[0] = 0
           /\ \A k \in 1 .. Len(s) : N[k] = N[k - 1] * Base + DigitValue(s[k])
           /\ Number(s) = N[Len(s)]
<1> DEFINE D == 1 .. Len(s)
           Fold(h, t) == IF t = {} THEN 0 ELSE h[t \ {Max(t)}] * Base + DigitValue(s[Max(t)])
           Solves(h, T) == \A t \in SUBSET T : h[t] = Fold(h, t)
<1>1. Number(s) = (CHOOSE h : h = [t \in SUBSET D |-> Fold(h, t)])[D]
  <2>1. DOMAIN s = D
    OBVIOUS
  <2> QED BY <2>1 DEF Number, FoldLeft, MapThenFoldSet
<1>2. Len(s) \in Nat /\ Base \in Nat
  BY WordAssumption
<1>3. ASSUME NEW k \in 1 .. Len(s)
      PROVE  DigitValue(s[k]) \in Nat
  <2>1. s[k] \in ToSet(DigitChars)
    BY <1>2
  <2>2. DigitValue(s[k]) \in 0 .. Base - 1
    BY <2>1, DigitFacts
  <2> QED BY <2>2
<1>4. ASSUME NEW k \in Nat, NEW t \in SUBSET (1 .. k), k \in t
      PROVE  Max(t) = k /\ t \ {Max(t)} \in SUBSET (1 .. k - 1)
  <2>1. Max(t) = k
    <3>1. \A i \in t : i \in 1 .. k
      OBVIOUS
    <3>2. \A i \in t : k >= i
      BY <3>1
    <3>3. \A m \in t : (\A i \in t : m >= i) => m = k
      BY <1>4, <3>1, <3>2
    <3> QED BY <1>4, <3>2, <3>3 DEF Max
  <2>2. ASSUME NEW i \in t, i # k PROVE i \in 1 .. k - 1
    BY <2>2
  <2> QED BY <2>1, <2>2
<1>5. ASSUME NEW k \in 0 .. Len(s)
      PROVE  \E h \in [SUBSET (1 .. k) -> Nat] : Solves(h, 1 .. k)
  <2> DEFINE solved(j) == \E h \in [SUBSET (1 .. j) -> Nat] : Solves(h, 1 .. j)
             none == {j \in 0 .. Len(s) : ~solved(j)}
  <2>1. none = {}
    <3> SUFFICES ASSUME none # {} PROVE FALSE
      OBVIOUS
    <3>1. PICK j \in none : \A i \in none : j <= i
      <4>1. none \in SUBSET Nat
        BY <1>2
      <4> HIDE DEF none
      <4> QED BY <4>1, LeastNatural
    <3>2. CASE j = 0
      <4>1. SUBSET (1 .. 0) = {{}}
        OBVIOUS
      <4>2. PICK h : h = [t \in SUBSET (1 .. 0) |-> 0]
        OBVIOUS
      <4>3. h \in [SUBSET (1 .. 0) -> Nat] /\ Solves(h, 1 .. 0)
        BY <4>1, <4>2
      <4> HIDE DEF Solves
      <4> QED BY <3>1, <3>2, <4>3
    <3>3. CASE j # 0
      <4>1. j \in 1 .. Len(s) /\ j \in Nat /\ j - 1 \in 0 .. Len(s) /\ j - 1 < j
        BY <1>2, <3>1, <3>3
      <4>2. solved(j - 1)
        <5> HIDE DEF solved
        <5> QED BY <1>2, <3>1, <4>1
      <4>3. PICK h \in [SUBSET (1 .. j - 1) -> Nat] : Solves(h, 1 .. j - 1)
        BY <4>2
      <4>4. PICK v : v = DigitValue(s[j]) /\ v \in Nat
        BY <1>3, <4>1
      <4>5. PICK g : g = [t \in SUBSET (1 .. j) |->
                            IF j \in t THEN h[t \ {j}] * Base + v ELSE h[t]]
        OBVIOUS
      <4>6. ASSUME NEW t \in SUBSET (1 .. j)
            PROVE  g[t] \in Nat /\ g[t] = Fold(g, t)
        <5>1. CASE j \in t
          <6>1. PICK u : u = t \ {j}
            OBVIOUS
          <6>2. Max(t) = j /\ u \in SUBSET (1 .. j - 1)
            BY <1>4, <4>1, <5>1, <6>1
          <6>3. u \in SUBSET (1 .. j) /\ j \notin u
            BY <4>1, <6>2
          <6>4. g[u] = h[u] /\ h[u] \in Nat
            BY <4>3, <4>5, <6>2, <6>3
          <6>5. g[t] = h[u] * Base + v
            BY <4>5, <5>1, <6>1
          <6>6. Fold(g, t) = g[u] * Base + v
            BY <4>4, <5>1, <6>1, <6>2
          <6>7. h[u] * Base + v \in Nat
            BY <1>2, <4>4, <6>4
          <6> QED BY <6>4, <6>5, <6>6, <6>7
        <5>2. CASE j \notin t
          <6>1. t \in SUBSET (1 .. j - 1)
            BY <4>1, <5>2
          <6>2. g[t] = h[t] /\ h[t] \in Nat /\ h[t] = Fold(h, t)
            BY <4>3, <4>5, <5>2, <6>1
          <6>3. t \ {Max(t)} \in SUBSET (1 .. j) /\ t \ {Max(t)} \in SUBSET (1 .. j - 1)
                /\ j \notin t \ {Max(t)}
            BY <5>2, <6>1
          <6>4. g[t \ {Max(t)}] = h[t \ {Max(t)}]
            BY <4>5, <6>3
          <6> QED BY <6>2, <6>4
        <5> QED BY <5>1, <5>2
      <4>7. g \in [SUBSET (1 .. j) -> Nat]
        <5>1. g = [t \in SUBSET (1 .. j) |-> g[t]]
          BY <4>5
        <5> QED BY <4>6, <5>1
      <4>8. Solves(g, 1 .. j)
        BY <4>6
      <4> HIDE DEF Solves
      <4> QED BY <3>1, <4>7, <4>8
    <3> QED BY <3>2, <3>3
  <2>2. solved(k)
    <3> HIDE DEF solved
    <3> QED BY <2>1
  <2> QED BY <2>2
<1> DEFINE Eq(h) == h = [t \in SUBSET D |-> Fold(h, t)]
<1>6. \E h : Eq(h)
  <2>1. PICK h \in [SUBSET D -> Nat] : Solves(h, D)
    <3>1. Len(s) \in 0 .. Len(s)
      BY <1>2
    <3> HIDE DEF Solves
    <3> QED BY <1>5, <3>1
  <2>2. h = [t \in SUBSET D |-> h[t]]
    BY <2>1
  <2>3. \A t \in SUBSET D : h[t] = Fold(h, t)
    BY <2>1
  <2> HIDE DEF Fold
  <2> QED BY <2>2, <2>3
<1>7. PICK H : Number(s) = H[D] /\ Eq(H)
  <2>1. Number(s) = (CHOOSE h : Eq(h))[D]
    BY <1>1
  <2> HIDE DEF Eq
  <2> QED BY <1>6, <2>1
<1>8. \A t \in SUBSET D : H[t] = Fold(H, t)
  <2> HIDE DEF Fold
  <2> QED BY <1>7
<1>9. PICK N : N = [k \in 0 .. Len(s) |-> H[1 .. k]]
  OBVIOUS
<1>10. N[0] = 0
  <2>1. 1 .. 0 = {} /\ {} \in SUBSET D /\ 0 \in 0 .. Len(s)
    BY <1>2
  <2> QED BY <1>8, <1>9, <2>1
<1>11. ASSUME NEW k \in 1 .. Len(s) PROVE N[k] = N[k - 1] * Base + DigitValue(s[k])
  <2>1. /\ k \in Nat /\ 1 .. k \in SUBSET D /\ k \in 1 .. k /\ 1 .. k # {}
        /\ (1 .. k) \ {k} = 1 .. k - 1 /\ k \in 0 .. Len(s) /\ k - 1 \in 0 .. Len(s)
    <3>1. k \in Nat /\ k \in 1 .. k /\ k \in 0 .. Len(s) /\ k - 1 \in 0 .. Len(s)
      BY <1>2
    <3>2. 1 .. k \in SUBSET D /\ 1 .. k # {}
      <4>1. k <= Len(s) /\ k \in Nat /\ Len(s) \in Nat
        BY <1>2
      <4>2. \A i \in 1 .. k : i \in 1 .. Len(s)
        BY <4>1
      <4>3. k \in 1 .. k
        BY <3>1
      <4> QED BY <4>2, <4>3
    <3>3. (1 .. k) \ {k} = 1 .. k - 1
      <4>1. \A i \in Nat : i \in 1 .. k /\ i # k <=> i \in 1 .. k - 1
        BY <3>1
      <4>2. \A i \in (1 .. k) \cup (1 .. k - 1) : i \in Nat
        BY <3>1
      <4> QED BY <4>1, <4>2
    <3> QED BY <3>1, <3>2, <3>3
  <2>2. Max(1 .. k) = k
    BY <1>4, <2>1
  <2>3. H[1 .. k] = H[1 .. k - 1] * Base + DigitValue(s[k])
    BY <1>8, <2>1, <2>2
  <2> QED BY <1>9, <2>1, <2>3
<1>12. ASSUME NEW k \in 0 .. Len(s) PROVE N[k] \in Nat
  <2> DEFINE wrong == {j \in 0 .. Len(s) : N[j] \notin Nat}
  <2>1. wrong = {}
    <3> SUFFICES ASSUME wrong # {} PROVE FALSE
      OBVIOUS
    <3>1. PICK j \in wrong : \A i \in wrong : j <= i
      <4>1. wrong \in SUBSET Nat
        BY <1>2
      <4> HIDE DEF wrong
      <4> QED BY <4>1, LeastNatural
    <3>2. j # 0 /\ j \in 1 .. Len(s) /\ N[j - 1] \in Nat
      BY <1>2, <1>10, <3>1
    <3>3. N[j] \in Nat
      <4>1. N[j] = N[j - 1] * Base + DigitValue(s[j]) /\ DigitValue(s[j]) \in Nat
        BY <1>3, <1>11, <3>2
      <4>2. PICK n, v : n = N[j - 1] /\ v = DigitValue(s[j])
        OBVIOUS
      <4>3. n * Base + v \in Nat
        BY <1>2, <3>2, <4>1, <4>2
      <4> QED BY <4>1, <4>2, <4>3
    <3> QED BY <3>1, <3>3
  <2> QED BY <2>1
<1>13. N \in [0 .. Len(s) -> Nat]
  BY <1>9, <1>12
<1>14. Number(s) = N[Len(s)]
  BY <1>2, <1>7, <1>9
<1> QED BY <1>10, <1>11, <1>13, <1>14

\* What solves the recursion of Number is Number.
LEMMA NumberBy ==
  ASSUME NEW s \in Seq(ToSet(DigitChars)), NEW f, f[0] = 0,
         \A k \in 1 .. Len(s) : f[k] = f[k - 1] * Base + DigitValue(s[k])
  PROVE  Number(s) = f[Len(s)]
<1>1. PICK N \in [0 .. Len(s) -> Nat] :
        /\ N[0] = 0
        /\ \A k \in 1 .. Len(s) : N[k] = N[k - 1] * Base + DigitValue(s[k])
        /\ Number(s) = N[Len(s)]
  BY NumberIs
<1> DEFINE wrong == {k \in 0 .. Len(s) : N[k] # f[k]}
<1>2. Len(s) \in Nat
  OBVIOUS
<1>3. wrong = {}
  <2> SUFFICES ASSUME wrong # {} PROVE FALSE
    OBVIOUS
  <2>1. PICK k \in wrong : \A i \in wrong : k <= i
    <3>1. wrong \in SUBSET Nat
      BY <1>2
    <3> HIDE DEF wrong
    <3> QED BY <3>1, LeastNatural
  <2>2. k \in 1 .. Len(s) /\ k - 1 \in 0 .. Len(s) /\ k - 1 < k
    BY <1>1, <1>2, <2>1
  <2>3. N[k - 1] = f[k - 1]
    BY <1>2, <2>1, <2>2
  <2>4. N[k] = N[k - 1] * Base + DigitValue(s[k]) /\ f[k] = f[k - 1] * Base + DigitValue(s[k])
    BY <1>1, <2>2
  <2> QED BY <2>1, <2>3, <2>4
<1> QED BY <1>1, <1>2, <1>3

\* Powers grow.
LEMMA PowersGrow ==
  ASSUME NEW m \in Nat, NEW n \in Nat, n <= m
  PROVE  Power[n] <= Power[m]
<1> DEFINE wrong == {k \in Nat : n <= k /\ ~(Power[n] <= Power[k])}
<1>1. wrong = {}
  <2> SUFFICES ASSUME wrong # {} PROVE FALSE
    OBVIOUS
  <2>1. PICK k \in wrong : \A i \in wrong : k <= i
    <3>1. wrong \in SUBSET Nat
      OBVIOUS
    <3> HIDE DEF wrong
    <3> QED BY <3>1, LeastNatural
  <2>2. PICK p, q, r : p = Power[n] /\ q = Power[k - 1] /\ r = Power[k]
    OBVIOUS
  <2>3. k # n
    <3>1. p \in Nat
      BY <2>2, Powers
    <3> QED BY <2>1, <2>2, <3>1
  <2>4. k - 1 \in Nat /\ n <= k - 1 /\ k = (k - 1) + 1
    BY <2>1, <2>3
  <2>5. p <= q
    BY <2>1, <2>2, <2>4
  <2>6. p \in Nat /\ q \in Nat /\ r = Base * q
    BY <2>2, <2>4, Powers
  <2>7. Base * q >= q
    BY <2>6, WordAssumption
  <2>8. r \in Nat /\ p <= r
    BY <2>5, <2>6, <2>7, WordAssumption
  <2> QED BY <2>1, <2>2, <2>8
<1> QED BY <1>1

\* A number of k digits is below the k-th power.
LEMMA NumberBelow ==
  ASSUME NEW s \in Seq(ToSet(DigitChars)), Len(s) <= Digits
  PROVE  Number(s) \in Words
<1>1. PICK N \in [0 .. Len(s) -> Nat] :
        /\ N[0] = 0
        /\ \A k \in 1 .. Len(s) : N[k] = N[k - 1] * Base + DigitValue(s[k])
        /\ Number(s) = N[Len(s)]
  BY NumberIs
<1> DEFINE wrong == {k \in 0 .. Len(s) : ~(N[k] < Power[k])}
<1>2. Len(s) \in Nat
  OBVIOUS
<1>3. wrong = {}
  <2> SUFFICES ASSUME wrong # {} PROVE FALSE
    OBVIOUS
  <2>1. PICK k \in wrong : \A i \in wrong : k <= i
    <3>1. wrong \in SUBSET Nat
      BY <1>2
    <3> HIDE DEF wrong
    <3> QED BY <3>1, LeastNatural
  <2>2. k \in 1 .. Len(s) /\ k - 1 \in 0 .. Len(s) /\ k - 1 < k /\ k - 1 \in Nat
    <3>1. N[0] < Power[0]
      BY <1>1, Powers
    <3>2. k # 0 /\ k \in 0 .. Len(s)
      BY <2>1, <3>1
    <3> QED BY <1>2, <3>2
  <2>3. PICK m, n, p, q, v : /\ m = N[k - 1] /\ n = N[k] /\ p = Power[k - 1] /\ q = Power[k]
                             /\ v = DigitValue(s[k])
    OBVIOUS
  <2>4. m < p /\ m \in Nat
    BY <1>1, <1>2, <2>1, <2>2, <2>3
  <2>5. n = m * Base + v
    BY <1>1, <2>2, <2>3
  <2>6. p \in Nat /\ q = Base * p
    <3>1. k = (k - 1) + 1
      BY <2>2
    <3>2. Power[(k - 1) + 1] = Base * Power[k - 1]
      BY <2>2, Powers
    <3> QED BY <2>2, <2>3, <3>1, <3>2, Powers
  <2>7. v \in 0 .. Base - 1
    <3>1. s[k] \in ToSet(DigitChars)
      BY <1>2, <2>2
    <3> QED BY <2>3, <3>1, DigitFacts
  <2>8. PICK b : b = Base /\ b \in Nat /\ v \in Nat /\ v < b
    BY <2>7, WordAssumption
  <2>9. m * b + b <= b * p
    <3>1. PICK d \in Nat : p = m + 1 + d
      <4>1. p - m - 1 \in Nat /\ p = m + 1 + (p - m - 1)
        BY <2>4, <2>6
      <4> QED BY <4>1
    <3>2. b * (m + 1 + d) = m * b + b + d * b /\ d * b \in Nat /\ m * b \in Nat
      BY <2>4, <2>8, <3>1, SMT
    <3>3. PICK x, y, z : x = m * b /\ y = d * b /\ z = b * p
      OBVIOUS
    <3>4. z = x + b + y /\ x \in Nat /\ y \in Nat
      BY <3>1, <3>2, <3>3
    <3>5. x + b <= z
      BY <2>8, <3>4
    <3> QED BY <3>3, <3>5
  <2>10. n < q
    <3>1. PICK x, z : x = m * b /\ z = b * p
      OBVIOUS
    <3>2. x \in Nat /\ z \in Nat /\ x + b <= z /\ n = x + v /\ q = z
      BY <2>4, <2>5, <2>6, <2>8, <2>9, <3>1
    <3> QED BY <2>8, <3>2
  <2> QED BY <2>1, <2>3, <2>10
<1>4. Number(s) \in Nat /\ Number(s) < Power[Len(s)]
  BY <1>1, <1>2, <1>3
<1>5. Power[Len(s)] <= Word
  BY <1>2, WordAssumption, PowersGrow DEF Word
<1>6. Power[Len(s)] \in Nat /\ Word \in Nat
  BY <1>2, Powers, WordHalves
<1> QED BY <1>4, <1>5, <1>6 DEF Words

\* Zeroes are digits, and worth nothing.
LEMMA ZeroesAre ==
  ASSUME NEW n \in Nat
  PROVE  /\ Zeroes(n) \in Seq(ToSet(DigitChars)) /\ Len(Zeroes(n)) = n
         /\ \A i \in 1 .. n : Zeroes(n)[i] = "0"
         /\ Number(Zeroes(n)) = 0
<1>1. "0" \in ToSet(DigitChars)
  BY DigitFacts
<1>2. PICK z : z = Zeroes(n)
  OBVIOUS
<1>3. /\ z \in Seq(ToSet(DigitChars)) /\ Len(z) = n
      /\ \A i \in 1 .. n : z[i] = "0"
  BY <1>1, <1>2 DEF Zeroes
<1>4. PICK f : f = [k \in 0 .. n |-> 0]
  OBVIOUS
<1>5. f[0] = 0 /\ f[n] = 0
  BY <1>4
<1>6. ASSUME NEW k \in 1 .. n PROVE f[k] = f[k - 1] * Base + DigitValue(z[k])
  <2>1. f[k] = 0 /\ f[k - 1] = 0 /\ DigitValue(z[k]) = 0
    BY <1>3, <1>4, DigitFacts
  <2> QED BY <2>1, WordAssumption
<1>7. Number(z) = f[n]
  BY <1>3, <1>5, <1>6, NumberBy
<1> QED BY <1>2, <1>3, <1>5, <1>7

\* The digits of a word are worth the word.
LEMMA DigitsOfWord ==
  ASSUME NEW n \in Words
  PROVE  /\ DigitsOf(n) \in Seq(ToSet(DigitChars)) /\ Len(DigitsOf(n)) = Digits
         /\ Number(DigitsOf(n)) = n
<1>1. n \in Nat /\ n < Power[Digits] /\ Digits \in Nat /\ Base \in Nat /\ Base >= 1
  BY WordHalves, WordAssumption DEF Words, Word
<1>2. PICK s : s = DigitsOf(n)
  OBVIOUS
<1>3. PICK f : f = [k \in 0 .. Digits |-> n \div Power[Digits - k]]
  OBVIOUS
<1>4. ASSUME NEW k \in 1 .. Digits
      PROVE  /\ s[k] \in ToSet(DigitChars) /\ f[k] = f[k - 1] * Base + DigitValue(s[k])
  <2>1. PICK j : j = Digits - k
    OBVIOUS
  <2>2. /\ j \in Nat /\ Digits - (k - 1) = j + 1 /\ k \in 0 .. Digits /\ k - 1 \in 0 .. Digits
        /\ k \in 1 .. Digits
    BY <1>1, <2>1
  <2>3. PICK p : p = Power[j] /\ p \in Nat /\ p >= 1 /\ Power[j + 1] = Base * p
    BY <2>2, Powers
  <2>4. PICK q, r : q = n \div p /\ r = n % p
    OBVIOUS
  <2>5. q \in Nat /\ r \in 0 .. p - 1 /\ n = p * q + r
    <3>1. p \in Nat \ {0}
      BY <2>3
    <3>2. n = p * (n \div p) + (n % p) /\ n % p \in 0 .. p - 1 /\ n \div p \in Nat
      BY <1>1, <3>1, Z3
    <3> QED BY <2>4, <3>2
  <2>6. PICK x, d : x = q \div Base /\ d = q % Base
    OBVIOUS
  <2>7. x \in Nat /\ d \in 0 .. Base - 1 /\ q = Base * x + d
    <3>1. PICK b : b = Base /\ b \in Nat /\ b >= 1
      BY <1>1
    <3> QED BY <2>5, <2>6, <3>1, Z3
  <2>8. n \div (Base * p) = x
    <3>1. PICK b, m : b = Base /\ m = b * p
      OBVIOUS
    <3>2. m \in Nat /\ m >= 1
      BY <1>1, <2>3, <3>1
    <3>3. PICK e : e = p * d + r
      OBVIOUS
    <3>4. n = m * x + e
      <4>1. p * (b * x + d) = (b * p) * x + p * d
        BY <1>1, <2>3, <2>7, <3>1, SMT
      <4>2. p * q = m * x + p * d
        BY <2>7, <3>1, <4>1
      <4>3. PICK g, h, i : g = p * q /\ h = m * x /\ i = p * d
        OBVIOUS
      <4>4. g \in Int /\ h \in Int /\ i \in Int
        BY <2>3, <2>5, <2>7, <3>2, <4>3
      <4> QED BY <2>5, <3>3, <4>2, <4>3, <4>4
    <3>5. e \in 0 .. m - 1
      <4>1. PICK c \in Nat : b = d + 1 + c
        <5>1. b - d - 1 \in Nat /\ b = d + 1 + (b - d - 1)
          BY <1>1, <2>7, <3>1
        <5> QED BY <5>1
      <4>2. (d + 1 + c) * p = p * d + p + c * p /\ c * p \in Nat /\ p * d \in Nat
        BY <2>3, <2>7, <4>1, SMT
      <4>3. PICK g, h : g = p * d /\ h = c * p
        OBVIOUS
      <4>4. m = g + p + h /\ g \in Nat /\ h \in Nat /\ e = g + r
        BY <3>1, <3>3, <4>1, <4>2, <4>3
      <4> QED BY <2>3, <2>5, <4>4
    <3>6. n \div m = x
      BY <1>1, <2>7, <3>2, <3>4, <3>5, QuotientIs
    <3> QED BY <3>1, <3>6
  <2>9. f[k] = q /\ f[k - 1] = x
    BY <1>3, <2>1, <2>2, <2>3, <2>4, <2>8
  <2>10. s[k] = DigitChars[d + 1]
    BY <1>2, <2>1, <2>2, <2>3, <2>4, <2>6 DEF DigitsOf
  <2>11. s[k] \in ToSet(DigitChars) /\ DigitValue(s[k]) = d
    BY <2>7, <2>10, DigitFacts
  <2>12. q = x * Base + d
    BY <1>1, <2>7
  <2> QED BY <2>9, <2>11, <2>12
<1>5. s \in Seq(ToSet(DigitChars)) /\ Len(s) = Digits
  <2>1. s = [i \in 1 .. Digits |-> s[i]]
    BY <1>2 DEF DigitsOf
  <2>2. s \in [1 .. Digits -> ToSet(DigitChars)]
    BY <1>4, <2>1
  <2> QED BY <1>1, <2>2
<1>6. f[0] = 0
  <2>1. f[0] = n \div Power[Digits]
    BY <1>1, <1>3
  <2>2. PICK w : w = Power[Digits] /\ w \in Nat /\ w >= 1
    BY <1>1, Powers
  <2>3. n = w * 0 + n /\ n \in 0 .. w - 1 /\ 0 \in Int /\ n \in Int
    BY <1>1, <2>2
  <2>4. n \div w = 0
    BY <2>2, <2>3, QuotientIs
  <2> QED BY <2>1, <2>2, <2>4
<1>7. f[Digits] = n
  <2>1. f[Digits] = n \div Power[0] /\ Power[0] = 1
    <3>1. Digits - Digits = 0 /\ Digits \in 0 .. Digits
      BY <1>1
    <3> QED BY <1>3, <3>1, Powers
  <2> QED BY <1>1, <2>1
<1>8. Number(s) = f[Digits]
  BY <1>4, <1>5, <1>6, NumberBy
<1> QED BY <1>2, <1>5, <1>7, <1>8

-----------------------------------------------------------------------------
(***************************************************************************)
(* Texts.                                                                  *)
(***************************************************************************)
\* What stands before a character is of the same characters.
LEMMA BeforeType ==
  ASSUME NEW C, NEW s \in Seq(C), NEW c
  PROVE  Before(s, c) \in Seq(C) /\ Len(Before(s, c)) <= Len(s)
<1> DEFINE at == {i \in 1 .. Len(s) : s[i] = c}
<1>1. CASE at = {}
  BY <1>1 DEF Before
<1>2. CASE at # {}
  <2>1. PICK p : p = CHOOSE i \in at : \A j \in at : i <= j
    OBVIOUS
  <2>2. \E i \in at : \A j \in at : i <= j
    <3>1. at \in SUBSET Nat
      OBVIOUS
    <3> HIDE DEF at
    <3> QED BY <1>2, <3>1, LeastNatural
  <2>3. p \in at
    <3> HIDE DEF at
    <3> QED BY <2>1, <2>2
  <2>4. p \in 1 .. Len(s)
    BY <2>3
  <2>5. Before(s, c) = SubSeq(s, 1, p - 1)
    BY <1>2, <2>1 DEF Before
  <2>6. SubSeq(s, 1, p - 1) \in Seq(C) /\ Len(SubSeq(s, 1, p - 1)) = p - 1
    BY <2>4
  <2> QED BY <2>4, <2>5, <2>6
<1> QED BY <1>1, <1>2

\* What precedes the first of a character.
LEMMA BeforeIs ==
  ASSUME NEW C, NEW s \in Seq(C), NEW c, NEW n \in 1 .. Len(s), s[n] = c,
         \A i \in 1 .. n - 1 : s[i] # c
  PROVE  Before(s, c) = SubSeq(s, 1, n - 1)
<1> DEFINE at == {i \in 1 .. Len(s) : s[i] = c}
<1>1. n \in at /\ \A j \in at : n <= j
  OBVIOUS
<1>2. PICK p : p = CHOOSE i \in at : \A j \in at : i <= j
  OBVIOUS
<1>3. p \in at /\ \A j \in at : p <= j
  <2> HIDE DEF at
  <2> QED BY <1>1, <1>2
<1>4. p = n
  BY <1>1, <1>3
<1>5. at # {}
  BY <1>1
<1> QED BY <1>2, <1>4, <1>5 DEF Before

\* A text of digits.
LEMMA OfDigits ==
  ASSUME NEW C, NEW s \in Seq(C), \A i \in 1 .. Len(s) : IsDigit(s[i])
  PROVE  s \in Seq(ToSet(DigitChars))
BY DEF IsDigit

\* A fraction is a word.
LEMMA FractionType ==
  ASSUME NEW s \in Seq(ToSet(DigitChars)), Len(s) <= Digits
  PROVE  Fraction(s) \in Words
<1>1. PICK z : z = Zeroes(Digits - Len(s))
  OBVIOUS
<1>2. Digits - Len(s) \in Nat /\ Len(s) \in Nat
  BY WordAssumption
<1>3. z \in Seq(ToSet(DigitChars)) /\ Len(z) = Digits - Len(s)
  BY <1>1, <1>2, ZeroesAre
<1>4. s \o z \in Seq(ToSet(DigitChars)) /\ Len(s \o z) <= Digits
  BY <1>2, <1>3, WordAssumption
<1> QED BY <1>1, <1>4, NumberBelow DEF Fraction

\* Whatever is read, the value has two words and a tag.
LEMMA ParseType ==
  ASSUME NEW C, NEW text \in Seq(C)
  PROVE  create_from_hex(text) \in Fixedpoint
<1>1. PICK negative : negative = (Len(text) > 0 /\ text[1] = "-")
  OBVIOUS
<1>2. PICK body : body = IF Len(text) > 0 /\ text[1] = "-" THEN Tail(text) ELSE text
  OBVIOUS
<1>3. PICK whole : whole = Before(body, ".")
  OBVIOUS
<1>4. PICK frac : frac = SubSeq(body, Len(whole) + 2, Len(body))
  OBVIOUS
<1>5. PICK t : t = IF Len(text) > 0 /\ text[1] = "-" THEN "VALID_NEG" ELSE "VALID_NONNEG"
  OBVIOUS
<1>6. create_from_hex(text) =
        IF \/ \E c \in ToSet(whole \o frac) : ~IsDigit(c)
           \/ TooLong(whole) \/ TooLong(frac)
           \/ whole = <<>> /\ frac = <<>>
        THEN ErrorValue ELSE Value(Number(whole), Fraction(frac), t)
  BY <1>2, <1>3, <1>4, <1>5 DEF create_from_hex
<1>7. body \in Seq(C)
  BY <1>2
<1>8. whole \in Seq(C)
  BY <1>3, <1>7, BeforeType
<1>9. frac \in Seq(C)
  BY <1>4, <1>7, <1>8
<1>10. ErrorValue \in Fixedpoint
  BY WordHalves DEF ErrorValue, Value, Fixedpoint, Tags, Words
<1>11. ASSUME \A c \in ToSet(whole \o frac) : IsDigit(c), ~TooLong(whole), ~TooLong(frac)
       PROVE  Value(Number(whole), Fraction(frac), t) \in Fixedpoint
  <2>1. PICK s : s = whole \o frac
    OBVIOUS
  <2>2. /\ s \in Seq(C) /\ Len(s) = Len(whole) + Len(frac)
        /\ \A i \in 1 .. Len(whole) : s[i] = whole[i]
        /\ \A i \in 1 .. Len(frac) : s[Len(whole) + i] = frac[i]
    BY <1>8, <1>9, <2>1
  <2>3. \A i \in 1 .. Len(s) : IsDigit(s[i])
    BY <1>11, <2>1, <2>2 DEF ToSet
  <2>4. \A i \in 1 .. Len(whole) : i \in 1 .. Len(s)
    BY <1>8, <1>9, <2>2
  <2>5. \A i \in 1 .. Len(frac) : Len(whole) + i \in 1 .. Len(s)
    BY <1>8, <1>9, <2>2
  <2>6. whole \in Seq(ToSet(DigitChars)) /\ frac \in Seq(ToSet(DigitChars))
    BY <1>8, <1>9, <2>2, <2>3, <2>4, <2>5, OfDigits
  <2>7. Len(whole) <= Digits /\ Len(frac) <= Digits
    BY <1>8, <1>9, <1>11, WordAssumption DEF TooLong
  <2>8. Number(whole) \in Words /\ Fraction(frac) \in Words /\ t \in Tags
    BY <1>5, <2>6, <2>7, NumberBelow, FractionType DEF Tags
  <2> QED BY <2>8 DEF Value, Fixedpoint
<1> QED BY <1>6, <1>10, <1>11

\* Leading zeroes are worth nothing.
LEMMA LeadingIs ==
  ASSUME NEW s \in Seq(ToSet(DigitChars)), Len(s) = Digits
  PROVE  /\ WithoutLeading(s) \in Seq(ToSet(DigitChars))
         /\ Len(WithoutLeading(s)) \in 1 .. Digits
         /\ Number(WithoutLeading(s)) = Number(s)
<1> DEFINE at == {i \in 1 .. Len(s) : s[i] # "0"} \cup {Len(s)}
<1>1. Len(s) \in Nat /\ Len(s) >= 1
  BY WordAssumption
<1>2. PICK i : i = CHOOSE k \in at : \A j \in at : k <= j
  OBVIOUS
<1>3. i \in at /\ \A j \in at : i <= j
  <2>1. at \in SUBSET Nat /\ at # {}
    BY <1>1
  <2> HIDE DEF at
  <2>2. \E k \in at : \A j \in at : k <= j
    BY <2>1, LeastNatural
  <2> QED BY <1>2, <2>2
<1>4. i \in 1 .. Len(s) /\ \A j \in 1 .. i - 1 : s[j] = "0"
  BY <1>1, <1>3
<1>5. PICK w : w = WithoutLeading(s)
  OBVIOUS
<1>6. w = SubSeq(s, i, Len(s))
  BY <1>2, <1>5 DEF WithoutLeading
<1>7. /\ w \in Seq(ToSet(DigitChars)) /\ Len(w) = Len(s) - i + 1
      /\ \A k \in 1 .. Len(w) : w[k] = s[k + i - 1]
  BY <1>1, <1>4, <1>6
<1>8. PICK N \in [0 .. Len(s) -> Nat] :
        /\ N[0] = 0
        /\ \A k \in 1 .. Len(s) : N[k] = N[k - 1] * Base + DigitValue(s[k])
        /\ Number(s) = N[Len(s)]
  BY NumberIs
<1>9. \A j \in 0 .. i - 1 : N[j] = 0
  <2> DEFINE wrong == {j \in 0 .. i - 1 : N[j] # 0}
  <2>1. wrong = {}
    <3> SUFFICES ASSUME wrong # {} PROVE FALSE
      OBVIOUS
    <3>1. PICK j \in wrong : \A k \in wrong : j <= k
      <4>1. wrong \in SUBSET Nat
        BY <1>4
      <4> HIDE DEF wrong
      <4> QED BY <4>1, LeastNatural
    <3>2. j \in 1 .. i - 1 /\ j - 1 \in 0 .. i - 1 /\ j - 1 < j /\ j \in 1 .. Len(s)
      BY <1>1, <1>4, <1>8, <3>1
    <3>3. N[j - 1] = 0
      BY <3>1, <3>2
    <3>4. DigitValue(s[j]) = 0
      BY <1>4, <3>2, DigitFacts
    <3>5. N[j] = 0 * Base + 0
      BY <1>8, <3>2, <3>3, <3>4
    <3>6. 0 * Base + 0 = 0
      BY WordAssumption
    <3> QED BY <3>1, <3>5, <3>6
  <2> QED BY <2>1
<1>10. PICK f : f = [k \in 0 .. Len(w) |-> N[k + i - 1]]
  OBVIOUS
<1>11. f[0] = 0 /\ f[Len(w)] = N[Len(s)]
  <2>1. /\ 0 \in 0 .. Len(w) /\ Len(w) \in 0 .. Len(w)
        /\ 0 + i - 1 = i - 1 /\ i - 1 \in 0 .. i - 1 /\ Len(w) + i - 1 = Len(s)
    BY <1>1, <1>4, <1>7
  <2> QED BY <1>9, <1>10, <2>1
<1>12. ASSUME NEW k \in 1 .. Len(w) PROVE f[k] = f[k - 1] * Base + DigitValue(w[k])
  <2>1. /\ k \in 0 .. Len(w) /\ k - 1 \in 0 .. Len(w)
        /\ k + i - 1 \in 1 .. Len(s) /\ (k - 1) + i - 1 = (k + i - 1) - 1
    BY <1>1, <1>4, <1>7
  <2>2. f[k] = N[k + i - 1] /\ f[k - 1] = N[(k + i - 1) - 1]
    BY <1>10, <2>1
  <2> QED BY <1>7, <1>8, <2>1, <2>2
<1>13. Number(w) = Number(s)
  BY <1>7, <1>8, <1>11, <1>12, NumberBy
<1>14. Len(w) \in 1 .. Digits
  BY <1>1, <1>4, <1>7
<1> QED BY <1>5, <1>7, <1>13, <1>14

\* Zeroes at the end of a fraction are put back when it is read.
LEMMA TrailingIs ==
  ASSUME NEW s \in Seq(ToSet(DigitChars)), Len(s) = Digits, Number(s) # 0
  PROVE  /\ WithoutTrailing(s) \in Seq(ToSet(DigitChars))
         /\ Len(WithoutTrailing(s)) \in 1 .. Digits
         /\ Fraction(WithoutTrailing(s)) = Number(s)
<1> DEFINE last(i) == s[i] # "0" /\ \A j \in i + 1 .. Len(s) : s[j] = "0"
           after == {k \in 0 .. Len(s) - 1 : s[Len(s) - k] # "0"}
<1>1. Len(s) \in Nat /\ Len(s) >= 1
  BY WordAssumption
<1>2. after # {}
  <2> SUFFICES ASSUME after = {} PROVE FALSE
    OBVIOUS
  <2>1. ASSUME NEW k \in 1 .. Len(s) PROVE s[k] = "0"
    <3>1. Len(s) - k \in 0 .. Len(s) - 1 /\ Len(s) - (Len(s) - k) = k
      BY <1>1
    <3> QED BY <3>1
  <2>2. PICK f : f = [k \in 0 .. Len(s) |-> 0]
    OBVIOUS
  <2>3. ASSUME NEW k \in 1 .. Len(s) PROVE f[k] = f[k - 1] * Base + DigitValue(s[k])
    <3>1. f[k] = 0 /\ f[k - 1] = 0 /\ DigitValue(s[k]) = 0
      BY <1>1, <2>1, <2>2, DigitFacts
    <3> QED BY <3>1, WordAssumption
  <2>4. f[0] = 0 /\ f[Len(s)] = 0
    BY <1>1, <2>2
  <2>5. Number(s) = f[Len(s)]
    BY <2>3, <2>4, NumberBy
  <2> QED BY <2>4, <2>5
<1>3. \E i \in 1 .. Len(s) : last(i)
  <2>1. PICK k \in after : \A j \in after : k <= j
    <3>1. after \in SUBSET Nat
      BY <1>1
    <3> HIDE DEF after
    <3> QED BY <1>2, <3>1, LeastNatural
  <2>2. PICK i : i = Len(s) - k
    OBVIOUS
  <2>3. i \in 1 .. Len(s) /\ s[i] # "0"
    BY <1>1, <2>1, <2>2
  <2>4. ASSUME NEW j \in i + 1 .. Len(s) PROVE s[j] = "0"
    <3>1. Len(s) - j \in 0 .. Len(s) - 1 /\ Len(s) - (Len(s) - j) = j /\ ~(k <= Len(s) - j)
      BY <1>1, <2>1, <2>2, <2>3
    <3> QED BY <2>1, <3>1
  <2> QED BY <2>3, <2>4
<1>4. PICK i : i = CHOOSE k \in 1 .. Len(s) : last(k)
  OBVIOUS
<1>5. i \in 1 .. Len(s) /\ last(i)
  <2> HIDE DEF last
  <2> QED BY <1>3, <1>4
<1>6. PICK t : t = WithoutTrailing(s)
  OBVIOUS
<1>7. t = SubSeq(s, 1, i)
  BY <1>4, <1>6 DEF WithoutTrailing
<1>8. /\ t \in Seq(ToSet(DigitChars)) /\ Len(t) = i
      /\ \A k \in 1 .. i : t[k] = s[k]
  BY <1>1, <1>5, <1>7
<1>9. PICK z : z = Zeroes(Digits - Len(t))
  OBVIOUS
<1>10. Digits - Len(t) \in Nat
  BY <1>1, <1>5, <1>8
<1>11. /\ z \in Seq(ToSet(DigitChars)) /\ Len(z) = Digits - i
       /\ \A k \in 1 .. Digits - i : z[k] = "0"
  BY <1>8, <1>9, <1>10, ZeroesAre
<1>12. t \o z = s
  <2>1. PICK u : u = t \o z
    OBVIOUS
  <2>2. /\ u \in Seq(ToSet(DigitChars)) /\ Len(u) = Len(s)
        /\ \A k \in 1 .. i : u[k] = t[k]
        /\ \A k \in i + 1 .. Len(s) : u[k] = z[k - i]
    BY <1>1, <1>5, <1>8, <1>11, <2>1
  <2>3. ASSUME NEW k \in 1 .. Len(s) PROVE u[k] = s[k]
    <3>1. CASE k \in 1 .. i
      BY <1>8, <2>2, <3>1
    <3>2. CASE k \in i + 1 .. Len(s)
      <4>1. k - i \in 1 .. Digits - i
        BY <1>1, <1>5, <3>2
      <4> QED BY <1>5, <1>11, <2>2, <3>2, <4>1
    <3> QED BY <1>1, <1>5, <3>1, <3>2
  <2>4. u = s
    BY <2>2, <2>3
  <2> QED BY <2>1, <2>4
<1>13. Fraction(t) = Number(s)
  BY <1>9, <1>12 DEF Fraction
<1>14. Len(t) \in 1 .. Digits
  BY <1>1, <1>5, <1>8
<1> QED BY <1>6, <1>8, <1>13, <1>14

\* What stands before a text comes off it again.
LEMMA HeadAndTail ==
  ASSUME NEW C, NEW c \in C, NEW s \in Seq(C)
  PROVE  /\ (<<c>> \o s)[1] = c /\ Len(<<c>> \o s) = 1 + Len(s)
         /\ Tail(<<c>> \o s) = s
<1>1. PICK h, t : h = <<c>> /\ t = h \o s
  OBVIOUS
<1>2. h \in Seq(C) /\ Len(h) = 1 /\ h[1] = c /\ Len(s) \in Nat
  BY <1>1
<1>3. t \in Seq(C) /\ Len(t) = 1 + Len(s)
      /\ \A i \in 1 .. 1 + Len(s) : t[i] = IF i <= 1 THEN h[i] ELSE s[i - 1]
  BY <1>1, <1>2, ConcatProperties
<1>4. t # <<>> /\ t[1] = c
  BY <1>2, <1>3
<1>5. PICK u : u = Tail(t)
  OBVIOUS
<1>6. u \in Seq(C) /\ Len(u) = Len(t) - 1 /\ \A i \in 1 .. Len(u) : u[i] = t[i + 1]
  BY <1>3, <1>4, <1>5, HeadTailProperties
<1>7. ASSUME NEW i \in 1 .. Len(u) PROVE u[i] = s[i]
  <2>1. i + 1 \in 1 .. 1 + Len(s) /\ ~(i + 1 <= 1) /\ (i + 1) - 1 = i
    BY <1>2, <1>3, <1>6
  <2> QED BY <1>3, <1>6, <2>1
<1>8. u = s
  BY <1>2, <1>3, <1>6, <1>7, SeqEqual
<1> QED BY <1>1, <1>3, <1>4, <1>5, <1>8

\* What a text of a sign, a whole part and perhaps a point and a fraction is read as.
LEMMA ReadsBack ==
  ASSUME NEW w \in Seq(ToSet(DigitChars)), NEW f \in Seq(ToSet(DigitChars)),
         NEW negative \in BOOLEAN, Len(w) \in 1 .. Digits, Len(f) \in 0 .. Digits
  PROVE  create_from_hex((IF negative THEN <<"-">> ELSE <<>>) \o w
                           \o (IF f = <<>> THEN <<>> ELSE <<".">> \o f)) =
           Value(Number(w), Fraction(f), IF negative THEN "VALID_NEG" ELSE "VALID_NONNEG")
<1>1. PICK C : C = ToSet(DigitChars) \cup {".", "-"}
  OBVIOUS
<1>2. Digits \in Nat /\ Len(w) \in Nat /\ Len(f) \in Nat
  BY WordAssumption
<1>3. w \in Seq(C) /\ f \in Seq(C) /\ <<".">> \in Seq(C) /\ <<"-">> \in Seq(C) /\ <<>> \in Seq(C)
  BY <1>1
<1>4. \A c \in ToSet(DigitChars) : IsDigit(c) /\ c # "." /\ c # "-"
  BY DigitFacts DEF IsDigit
<1>5. PICK text : text = (IF negative THEN <<"-">> ELSE <<>>) \o w
                           \o (IF f = <<>> THEN <<>> ELSE <<".">> \o f)
  OBVIOUS
<1>6. PICK rest : rest = IF f = <<>> THEN <<>> ELSE <<".">> \o f
  OBVIOUS
<1>7. /\ rest \in Seq(C) /\ (f = <<>> => Len(rest) = 0)
      /\ f # <<>> => /\ Len(rest) = Len(f) + 1 /\ rest[1] = "."
                     /\ \A i \in 1 .. Len(f) : rest[i + 1] = f[i]
  BY <1>3, <1>6
<1>8. PICK body : body = w \o rest
  OBVIOUS
<1>9. /\ body \in Seq(C) /\ Len(body) = Len(w) + Len(rest)
      /\ \A i \in 1 .. Len(w) : body[i] = w[i]
      /\ \A i \in 1 .. Len(rest) : body[Len(w) + i] = rest[i]
  BY <1>3, <1>7, <1>8
<1>10. body[1] = w[1] /\ w[1] \in ToSet(DigitChars) /\ Len(body) \in Nat /\ Len(body) > 0
  BY <1>2, <1>9, <1>7
<1>11. PICK sign : sign = IF negative THEN <<"-">> ELSE <<>>
  OBVIOUS
<1>12. text = sign \o body
  <2>1. text = (sign \o w) \o rest
    BY <1>5, <1>6, <1>11
  <2>2. sign \in Seq(C)
    BY <1>3, <1>11
  <2>3. w \in Seq(C) /\ rest \in Seq(C)
    BY <1>3, <1>7
  <2>4. (sign \o w) \o rest = sign \o (w \o rest)
    BY <2>2, <2>3, ConcatAssociative
  <2> QED BY <1>8, <2>1, <2>4, Zenon
<1>13. /\ Len(text) > 0 /\ text[1] = "-" <=> negative
       /\ body = IF Len(text) > 0 /\ text[1] = "-" THEN Tail(text) ELSE text
  <2>1. CASE negative
    <3>1. text = <<"-">> \o body
      BY <1>11, <1>12, <2>1
    <3>2. body \in Seq(C) /\ "-" \in C
      BY <1>1, <1>9
    <3>3. text[1] = "-" /\ Len(text) = 1 + Len(body) /\ Tail(text) = body
      BY <3>1, <3>2, HeadAndTail
    <3>4. Len(text) > 0
      BY <1>10, <3>3
    <3> QED BY <2>1, <3>3, <3>4
  <2>2. CASE ~negative
    <3>1. text = body
      BY <1>9, <1>11, <1>12, <2>2, ConcatEmptySeq
    <3> QED BY <1>4, <1>10, <2>2, <3>1
  <2> QED BY <2>1, <2>2
<1>14. w = Before(body, ".")
  <2>0. \A i \in 1 .. Len(w) : body[i] # "."
    BY <1>4, <1>9
  <2>1. CASE f = <<>>
    <3>1. body = w
      BY <1>3, <1>6, <1>8, <2>1, ConcatEmptySeq
    <3>2. {i \in 1 .. Len(body) : body[i] = "."} = {}
      BY <2>0, <3>1
    <3> QED BY <3>1, <3>2 DEF Before
  <2>2. CASE f # <<>>
    <3>1. PICK n : n = Len(w) + 1
      OBVIOUS
    <3>2. n \in 1 .. Len(body) /\ body[n] = "." /\ n - 1 = Len(w)
      BY <1>2, <1>7, <1>9, <2>2, <3>1
    <3>3. Before(body, ".") = SubSeq(body, 1, Len(w))
      BY <1>9, <2>0, <3>2, BeforeIs
    <3>4. PICK u : u = SubSeq(body, 1, Len(w))
      OBVIOUS
    <3>5. u \in Seq(C) /\ Len(u) = Len(w) /\ \A i \in 1 .. Len(w) : u[i] = body[i]
      BY <1>2, <1>9, <3>2, <3>4
    <3>6. u = w
      BY <1>3, <1>9, <3>5
    <3> QED BY <3>3, <3>4, <3>6
  <2> QED BY <2>1, <2>2
<1>15. f = SubSeq(body, Len(w) + 2, Len(body))
  <2>1. PICK u : u = SubSeq(body, Len(w) + 2, Len(body))
    OBVIOUS
  <2>2. CASE f = <<>>
    <3>1. Len(body) = Len(w)
      BY <1>2, <1>7, <1>9, <2>2
    <3>2. PICK p, q : p = Len(w) + 2 /\ q = Len(body)
      OBVIOUS
    <3>3. p \in Int /\ q \in Int /\ q < p
      BY <1>2, <3>1, <3>2
    <3>4. SubSeq(body, p, q) = <<>>
      BY <3>3, SubSeqEmpty
    <3> QED BY <2>2, <3>2, <3>4
  <2>3. CASE f # <<>>
    <3>1. Len(body) = Len(w) + 1 + Len(f)
      <4>1. Len(rest) = Len(f) + 1
        BY <1>7, <2>3
      <4>2. Len(body) = Len(w) + Len(rest)
        BY <1>9
      <4> QED BY <1>2, <4>1, <4>2
    <3>2. u \in Seq(C) /\ Len(u) = Len(f)
          /\ \A i \in 1 .. Len(f) : u[i] = body[Len(w) + (i + 1)]
      <4>1. PICK p, q : p = Len(w) + 2 /\ q = Len(body)
        OBVIOUS
      <4>2. /\ p \in Int /\ q \in Int /\ q - p + 1 = Len(f) /\ (p <= q <=> Len(f) # 0)
            /\ \A i \in 1 .. Len(f) : p + i - 1 = Len(w) + (i + 1)
            /\ \A i \in p .. q : i \in 1 .. Len(body)
        BY <1>2, <3>1, <4>1
      <4>3. \A i \in p .. q : body[i] \in C
        BY <1>9, <4>2
      <4>4. /\ SubSeq(body, p, q) \in Seq(C)
            /\ Len(SubSeq(body, p, q)) = IF p <= q THEN q - p + 1 ELSE 0
            /\ \A i \in 1 .. q - p + 1 : SubSeq(body, p, q)[i] = body[p + i - 1]
        BY <4>2, <4>3, SubSeqProperties
      <4>5. u = SubSeq(body, p, q)
        BY <2>1, <4>1
      <4>6. /\ u \in Seq(C) /\ Len(u) = Len(f)
            /\ \A i \in 1 .. Len(f) : u[i] = body[p + i - 1]
        BY <4>2, <4>4, <4>5
      <4> QED BY <4>2, <4>6
    <3>3. ASSUME NEW i \in 1 .. Len(f) PROVE u[i] = f[i]
      <4>1. i + 1 \in 1 .. Len(rest)
        BY <1>2, <1>7, <2>3
      <4> QED BY <1>7, <1>9, <2>3, <3>2, <4>1
    <3>4. u = f
      BY <1>3, <3>2, <3>3
    <3> QED BY <2>1, <3>4
  <2> QED BY <2>2, <2>3
<1>16. \A c \in ToSet(w \o f) : IsDigit(c)
  <2>1. w \o f \in Seq(ToSet(DigitChars))
    OBVIOUS
  <2>2. \A c \in ToSet(w \o f) : c \in ToSet(DigitChars)
    <3>1. PICK u : u = w \o f
      OBVIOUS
    <3>2. \A i \in DOMAIN u : u[i] \in ToSet(DigitChars)
      BY <2>1, <3>1
    <3>3. \A c \in {u[i] : i \in DOMAIN u} : c \in ToSet(DigitChars)
      BY <3>2
    <3>4. ToSet(u) = {u[i] : i \in DOMAIN u}
      BY DEF ToSet
    <3> QED BY <3>1, <3>3, <3>4
  <2> QED BY <1>4, <2>2
<1>17. ~TooLong(w) /\ ~TooLong(f) /\ w # <<>>
  BY <1>2 DEF TooLong
<1>18. PICK t : t = IF Len(text) > 0 /\ text[1] = "-" THEN "VALID_NEG" ELSE "VALID_NONNEG"
  OBVIOUS
<1>19. create_from_hex(text) =
         IF \/ \E c \in ToSet(w \o f) : ~IsDigit(c)
            \/ TooLong(w) \/ TooLong(f)
            \/ w = <<>> /\ f = <<>>
         THEN ErrorValue ELSE Value(Number(w), Fraction(f), t)
  BY <1>13, <1>14, <1>15, <1>18 DEF create_from_hex
<1>20. create_from_hex(text) = Value(Number(w), Fraction(f), t)
  BY <1>16, <1>17, <1>19
<1> QED BY <1>5, <1>13, <1>18, <1>20

\* The value a text was made of is read back from it.
LEMMA FormatExact ==
  ASSUME NEW v \in Valid
  PROVE  create_from_hex(format_as_hex(v)) = v
<1>1. v \in Fixedpoint /\ v.tag \in {"VALID_NEG", "VALID_NONNEG"}
  BY DEF Valid, is_valid
<1>2. v.whole_p \in Words /\ v.frac_p \in Words
  BY <1>1 DEF Fixedpoint
<1>3. PICK s : s = DigitsOf(v.whole_p)
  OBVIOUS
<1>4. s \in Seq(ToSet(DigitChars)) /\ Len(s) = Digits /\ Number(s) = v.whole_p
  BY <1>2, <1>3, DigitsOfWord
<1>5. PICK w : w = WithoutLeading(s)
  OBVIOUS
<1>6. w \in Seq(ToSet(DigitChars)) /\ Len(w) \in 1 .. Digits /\ Number(w) = v.whole_p
  BY <1>4, <1>5, LeadingIs
<1>7. PICK g : g = DigitsOf(v.frac_p)
  OBVIOUS
<1>8. g \in Seq(ToSet(DigitChars)) /\ Len(g) = Digits /\ Number(g) = v.frac_p
  BY <1>2, <1>7, DigitsOfWord
<1>9. PICK f : f = IF v.frac_p = 0 THEN <<>> ELSE WithoutTrailing(g)
  OBVIOUS
<1>10. /\ f \in Seq(ToSet(DigitChars)) /\ Len(f) \in 0 .. Digits /\ Fraction(f) = v.frac_p
       /\ (f = <<>> <=> v.frac_p = 0)
  <2>1. CASE v.frac_p = 0
    <3>1. f = <<>>
      BY <1>9, <2>1
    <3>2. Digits \in Nat /\ Digits - 0 = Digits
      BY WordAssumption
    <3>3. PICK z : z = Zeroes(Digits)
      OBVIOUS
    <3>4. z \in Seq(ToSet(DigitChars)) /\ Number(z) = 0
      BY <3>2, <3>3, ZeroesAre
    <3>5. f \o Zeroes(Digits - Len(f)) = z
      BY <3>1, <3>2, <3>3, <3>4
    <3>6. Fraction(f) = 0
      BY <3>4, <3>5 DEF Fraction
    <3> QED BY <2>1, <3>1, <3>2, <3>6
  <2>2. CASE v.frac_p # 0
    <3>1. f = WithoutTrailing(g)
      BY <1>9, <2>2
    <3>2. f \in Seq(ToSet(DigitChars)) /\ Len(f) \in 1 .. Digits /\ Fraction(f) = v.frac_p
      BY <1>8, <2>2, <3>1, TrailingIs
    <3>3. f # <<>> /\ Len(f) \in 0 .. Digits
      BY <3>2, WordAssumption
    <3> QED BY <2>2, <3>2, <3>3
  <2> QED BY <2>1, <2>2
<1>11. PICK text : text = format_as_hex(v)
  OBVIOUS
<1>12. PICK negative \in BOOLEAN : negative = is_neg(v)
  BY DEF is_neg
<1>13. text = (IF negative THEN <<"-">> ELSE <<>>) \o w
                \o (IF f = <<>> THEN <<>> ELSE <<".">> \o f)
  BY <1>3, <1>5, <1>7, <1>9, <1>10, <1>11, <1>12 DEF format_as_hex
<1>14. create_from_hex(text) =
         Value(Number(w), Fraction(f), IF negative THEN "VALID_NEG" ELSE "VALID_NONNEG")
  BY <1>6, <1>10, <1>13, ReadsBack
<1>15. v.tag = IF negative THEN "VALID_NEG" ELSE "VALID_NONNEG"
  BY <1>1, <1>12 DEF is_neg
<1>16. v = Value(v.whole_p, v.frac_p, v.tag)
  BY <1>1 DEF Fixedpoint, Value
<1> QED BY <1>6, <1>10, <1>11, <1>14, <1>15, <1>16

\* What is parsed is a sequence of characters.
LEMMA TextsAre ==
  ASSUME NEW text \in Texts
  PROVE  create_from_hex(text) \in Fixedpoint
<1>1. PICK C : C = ToSet(DigitChars) \cup {".", "-", "1", "x"}
  OBVIOUS
<1>2. PICK signs, tails :
        /\ signs = {<<>>, <<"-">>}
        /\ tails = {<<>>} \cup {<<".">> \o frac : frac \in DigitRuns}
                    \cup {<<".", "1", ".">>, <<"x">>, <<".", "x">>}
  OBVIOUS
<1>3. Texts = {sign \o whole \o rest : sign \in signs, whole \in DigitRuns, rest \in tails}
  BY <1>2 DEF Texts
<1>4. PICK sign \in signs, whole \in DigitRuns, rest \in tails : text = sign \o whole \o rest
  BY <1>3
<1>5. \A run \in DigitRuns : run \in Seq(C)
  <2>1. \A run \in DigitRuns : \E n \in 0 .. Digits + 1 : run \in [1 .. n -> ToSet(DigitChars)]
    BY DEF DigitRuns
  <2>2. \A n \in 0 .. Digits + 1 : n \in Nat
    BY WordAssumption
  <2>3. ASSUME NEW run \in DigitRuns PROVE run \in Seq(C)
    <3>1. PICK n \in 0 .. Digits + 1 : run \in [1 .. n -> ToSet(DigitChars)]
      BY <2>1
    <3>2. run \in [1 .. n -> C]
      BY <1>1, <3>1
    <3> QED BY <2>2, <3>2
  <2> QED BY <2>3
<1>6. <<>> \in Seq(C) /\ <<"-">> \in Seq(C)
  BY <1>1
<1>7. <<".", "1", ".">> \in Seq(C) /\ <<"x">> \in Seq(C) /\ <<".", "x">> \in Seq(C)
  BY <1>1
<1>8. sign \in Seq(C) /\ whole \in Seq(C)
  BY <1>2, <1>4, <1>5, <1>6
<1>9. rest \in Seq(C)
  <2>1. CASE rest \in {<<>>, <<".", "1", ".">>, <<"x">>, <<".", "x">>}
    BY <1>6, <1>7, <2>1
  <2>2. CASE \E frac \in DigitRuns : rest = <<".">> \o frac
    <3>1. PICK frac \in DigitRuns : rest = <<".">> \o frac
      BY <2>2
    <3>2. <<".">> \in Seq(C)
      BY <1>1
    <3>3. frac \in Seq(C)
      BY <1>5
    <3> QED BY <3>1, <3>2, <3>3, ConcatProperties
  <2> QED BY <1>2, <1>4, <2>1, <2>2
<1>10. text \in Seq(C)
  <2>1. sign \o whole \in Seq(C)
    BY <1>8, ConcatProperties
  <2> QED BY <1>4, <1>9, <2>1, ConcatProperties
<1> QED BY <1>10, ParseType

-----------------------------------------------------------------------------
(***************************************************************************)
(* Every call.                                                             *)
(***************************************************************************)
\* What the last call returned, by what it was called with: exact arithmetic, the
\* order of the numbers, and a text that reads back.
Answers == ArithmeticExact /\ ComparesNumbers /\ RoundTrip

\* A call whose result is as its name asks answers as it should.
LEMMA AnswerIs ==
  ASSUME NEW op, NEW left, NEW right, NEW result,
         Return(op, left, right, result), val' \in Fixedpoint,
         op \in {"create_from_hex", "add", "sub", "negate", "halve", "double", "compare",
                 "format_as_hex"},
         op = "add" => IsExactly(result, Num(left) + Num(right)),
         op = "sub" => IsExactly(result, Num(left) - Num(right)),
         op = "double" => IsExactly(result, 2 * Num(left)),
         op = "halve" =>
           IF Num(left) % 2 = 0
           THEN is_valid(result) /\ 2 * Num(result) = Num(left)
           ELSE result.tag = IF is_neg(left) THEN "NEG_UNDERFLOW" ELSE "POS_UNDERFLOW",
         op \in {"add", "sub", "negate", "halve", "double"} /\ NegativeZero(result) =>
           NegativeZero(left),
         op = "compare" /\ ~NegativeZero(left) /\ ~NegativeZero(right) =>
           result = Sign(Num(left) - Num(right)),
         op = "format_as_hex" => create_from_hex(result) = left
  PROVE  Answers'
<1>1. PICK c : c = [op |-> op, left |-> left, right |-> right, result |-> result]
  OBVIOUS
<1>2. c.op = op /\ c.left = left /\ c.right = right /\ c.result = result
  BY <1>1
<1>3. call' = c
  BY <1>1 DEF Return
<1>4. TypeOK'
  BY <1>2, <1>3 DEF TypeOK
<1>5. SumsExact'
  <2>1. /\ op = "add" => IsExactly(c.result, Num(c.left) + Num(c.right))
        /\ op = "sub" => IsExactly(c.result, Num(c.left) - Num(c.right))
        /\ op = "double" => IsExactly(c.result, 2 * Num(c.left))
    BY <1>2
  <2> QED BY <1>2, <1>3, <2>1 DEF SumsExact, Exactly, IsExactly
<1>6. HalvesExact'
  BY <1>2, <1>3 DEF HalvesExact
<1>7. NoNewNegativeZero'
  BY <1>2, <1>3 DEF NoNewNegativeZero
<1>8. ComparesNumbers'
  BY <1>2, <1>3 DEF ComparesNumbers
<1>9. RoundTrip'
  BY <1>2, <1>3 DEF RoundTrip
<1> QED BY <1>4, <1>5, <1>6, <1>7, <1>8, <1>9 DEF Answers, ArithmeticExact

\* Where there is no call, or the call stays as it is, only the value matters.
LEMMA NoAnswer ==
  ASSUME val \in Fixedpoint, call = NoCall
  PROVE  Answers
<1>1. call.op = "none"
  BY DEF NoCall
<1> QED BY <1>1 DEF Answers, ArithmeticExact, TypeOK, SumsExact, HalvesExact, NoNewNegativeZero,
                    ComparesNumbers, RoundTrip

\* compare orders numbers, but for a zero with a sign.
LEMMA CompareNumbers ==
  ASSUME NEW a \in Valid, NEW b \in Valid, ~NegativeZero(a), ~NegativeZero(b)
  PROVE  compare(a, b) = Sign(Num(a) - Num(b))
<1>1. CASE a.tag = b.tag
  BY <1>1, CompareExact
<1>2. CASE a.tag # b.tag
  <2>1. /\ a \in Fixedpoint /\ b \in Fixedpoint /\ a.tag \in {"VALID_NEG", "VALID_NONNEG"}
        /\ b.tag \in {"VALID_NEG", "VALID_NONNEG"}
    BY DEF Valid, is_valid
  <2>2. is_neg(a) <=> ~is_neg(b)
    BY <1>2, <2>1 DEF is_neg
  <2>3. PICK m, n : m = Mag(a) /\ n = Mag(b)
    OBVIOUS
  <2>4. /\ m \in Nat /\ n \in Nat /\ (is_neg(a) => m # 0) /\ (is_neg(b) => n # 0)
        /\ Num(a) = (IF is_neg(a) THEN -m ELSE m) /\ Num(b) = (IF is_neg(b) THEN -n ELSE n)
    BY <2>1, <2>3, WordsOf DEF NegativeZero
  <2>5. Num(a) - Num(b) = IF is_neg(b) THEN m + n ELSE -(m + n)
    BY <2>2, <2>4
  <2>6. PICK d : d = Num(a) - Num(b)
    OBVIOUS
  <2>7. IF is_neg(b) THEN d > 0 ELSE d < 0 /\ ~(d > 0)
    BY <2>2, <2>4, <2>5, <2>6
  <2>8. compare(a, b) = IF is_neg(b) THEN 1 ELSE -1
    BY <1>2, CompareExact
  <2> QED BY <2>6, <2>7, <2>8 DEF Sign
<1> QED BY <1>1, <1>2

\* The first value is zero, of no call.
LEMMA InitAnswers == Init => Answers
<1> SUFFICES ASSUME Init PROVE Answers
  OBVIOUS
<1>1. val \in Fixedpoint
  BY WordHalves DEF Init, Value, Fixedpoint, Tags, Words
<1> QED BY <1>1, NoAnswer DEF Init

\* Every call answers as it should.
LEMMA NextAnswers == Answers /\ [Next]_vars => Answers'
<1> SUFFICES ASSUME Answers, [Next]_vars PROVE Answers'
  OBVIOUS
<1>1. val \in Fixedpoint
  BY DEF Answers, ArithmeticExact, TypeOK
<1>2. is_valid(val) => val \in Valid
  BY <1>1 DEF Valid
<1>3. ASSUME NEW w \in Words, NEW f \in Words, Create2(w, f) PROVE Answers'
  <2>1. val' \in Fixedpoint /\ call' = NoCall
    BY <1>3 DEF Create2, Value, Fixedpoint, Tags
  <2>2. call'.op = "none"
    BY <2>1 DEF NoCall
  <2> QED BY <2>1, <2>2 DEF Answers, ArithmeticExact, TypeOK, SumsExact, HalvesExact,
             NoNewNegativeZero, ComparesNumbers, RoundTrip
<1>4. ASSUME NEW text \in Texts, Parse(text) PROVE Answers'
  <2>1. PICK r : r = create_from_hex(text)
    OBVIOUS
  <2>2. r \in Fixedpoint
    BY <2>1, TextsAre
  <2>3. Return("create_from_hex", text, text, r) /\ val' = r
    BY <1>4, <2>1 DEF Parse
  <2>4. val' \in Fixedpoint
    BY <2>2, <2>3
  <2> QED BY <2>3, <2>4, AnswerIs
<1>5. ASSUME NEW x \in Valid, Add(x) PROVE Answers'
  <2>1. PICK r : r = add(val, x)
    OBVIOUS
  <2>2. /\ r \in Fixedpoint /\ IsExactly(r, Num(val) + Num(x))
        /\ NegativeZero(r) => NegativeZero(val)
    BY <1>2, <1>5, <2>1, AddExact DEF Add
  <2>3. Return("add", val, x, r) /\ val' = r
    BY <1>5, <2>1 DEF Add, Yields
  <2>4. val' \in Fixedpoint
    BY <2>2, <2>3
  <2> QED BY <2>2, <2>3, <2>4, AnswerIs
<1>6. ASSUME NEW x \in Valid, Subtract(x) PROVE Answers'
  <2>1. PICK r : r = sub(val, x)
    OBVIOUS
  <2>2. /\ r \in Fixedpoint /\ IsExactly(r, Num(val) - Num(x))
        /\ NegativeZero(r) => NegativeZero(val)
    BY <1>2, <1>6, <2>1, SubExact DEF Subtract
  <2>3. Return("sub", val, x, r) /\ val' = r
    BY <1>6, <2>1 DEF Subtract, Yields
  <2>4. val' \in Fixedpoint
    BY <2>2, <2>3
  <2> QED BY <2>2, <2>3, <2>4, AnswerIs
<1>7. ASSUME NEW x \in Valid, Compare(x) PROVE Answers'
  <2>1. PICK r : r = compare(val, x)
    OBVIOUS
  <2>2. ~NegativeZero(val) /\ ~NegativeZero(x) => r = Sign(Num(val) - Num(x))
    BY <1>2, <1>7, <2>1, CompareNumbers DEF Compare
  <2>3. Return("compare", val, x, r) /\ val' = val
    BY <1>7, <2>1 DEF Compare
  <2>4. val' \in Fixedpoint
    BY <1>1, <2>3
  <2> QED BY <2>2, <2>3, <2>4, AnswerIs
<1>8. ASSUME Negate PROVE Answers'
  <2>1. PICK r : r = negate(val)
    OBVIOUS
  <2>2. r \in Fixedpoint /\ (NegativeZero(r) => NegativeZero(val))
    <3>1. r \in Valid /\ (is_zero(val) => r = val) /\ Mag(r) = Mag(val)
      BY <1>2, <1>8, <2>1, NegateExact DEF Negate
    <3>2. is_zero(r) => is_zero(val)
      BY <1>1, <3>1, WordsOf DEF Valid
    <3> QED BY <3>1, <3>2 DEF NegativeZero, Valid
  <2>3. Return("negate", val, val, r) /\ val' = r
    BY <1>8, <2>1 DEF Negate, Yields
  <2>4. val' \in Fixedpoint
    BY <2>2, <2>3
  <2> QED BY <2>2, <2>3, <2>4, AnswerIs
<1>9. ASSUME Halve PROVE Answers'
  <2>1. PICK r : r = halve(val)
    OBVIOUS
  <2>2. /\ r \in Fixedpoint
        /\ IF Num(val) % 2 = 0
           THEN is_valid(r) /\ 2 * Num(r) = Num(val)
           ELSE r.tag = IF is_neg(val) THEN "NEG_UNDERFLOW" ELSE "POS_UNDERFLOW"
        /\ NegativeZero(r) => NegativeZero(val)
    BY <1>2, <1>9, <2>1, HalveExact DEF Halve
  <2>3. Return("halve", val, val, r) /\ val' = r
    BY <1>9, <2>1 DEF Halve, Yields
  <2>4. val' \in Fixedpoint
    BY <2>2, <2>3
  <2> QED BY <2>2, <2>3, <2>4, AnswerIs
<1>10. ASSUME Double PROVE Answers'
  <2>1. PICK r : r = double(val)
    OBVIOUS
  <2>2. /\ r \in Fixedpoint /\ IsExactly(r, 2 * Num(val))
        /\ NegativeZero(r) => NegativeZero(val)
    BY <1>2, <1>10, <2>1, DoubleExact DEF Double
  <2>3. Return("double", val, val, r) /\ val' = r
    BY <1>10, <2>1 DEF Double, Yields
  <2>4. val' \in Fixedpoint
    BY <2>2, <2>3
  <2> QED BY <2>2, <2>3, <2>4, AnswerIs
<1>11. ASSUME Format PROVE Answers'
  <2>1. PICK r : r = format_as_hex(val)
    OBVIOUS
  <2>2. create_from_hex(r) = val
    BY <1>2, <1>11, <2>1, FormatExact DEF Format
  <2>3. Return("format_as_hex", val, val, r) /\ val' = val
    BY <1>11, <2>1 DEF Format
  <2>4. val' \in Fixedpoint
    BY <1>1, <2>3
  <2> QED BY <2>2, <2>3, <2>4, AnswerIs
<1>12. ASSUME Returned PROVE Answers'
  <2>1. val' \in Fixedpoint /\ call' = NoCall
    BY <1>1, <1>12 DEF Returned
  <2>2. call'.op = "none"
    BY <2>1 DEF NoCall
  <2> QED BY <2>1, <2>2 DEF Answers, ArithmeticExact, TypeOK, SumsExact, HalvesExact,
             NoNewNegativeZero, ComparesNumbers, RoundTrip
<1>13. CASE UNCHANGED vars
  BY <1>13 DEF vars, Answers, ArithmeticExact, TypeOK, SumsExact, HalvesExact, Exactly,
               NoNewNegativeZero, ComparesNumbers, RoundTrip
<1> QED BY <1>3, <1>4, <1>5, <1>6, <1>7, <1>8, <1>9, <1>10, <1>11, <1>12, <1>13 DEF Next

\* Every call answers as it should, always.
LEMMA AlwaysAnswers == Spec => []Answers
BY InitAnswers, NextAnswers, PTL DEF Spec

\* Sums, differences, doubles and halves are exact or say what was lost, with which
\* sign, and make no negative zero (fixedpoint.c:86-185).
THEOREM FixedArithmetic == Spec => []ArithmeticExact
<1>1. Answers => ArithmeticExact
  BY DEF Answers
<1> QED BY <1>1, AlwaysAnswers, PTL

\* compare orders values as their numbers are ordered (fixedpoint.c:187-215).
THEOREM FixedCompare == Spec => []ComparesNumbers
<1>1. Answers => ComparesNumbers
  BY DEF Answers
<1> QED BY <1>1, AlwaysAnswers, PTL

\* create_from_hex reads back what format_as_hex prints (fixedpoint.c:21-74, 254-282).
THEOREM FixedRoundTrip == Spec => []RoundTrip
<1>1. Answers => RoundTrip
  BY DEF Answers
<1> QED BY <1>1, AlwaysAnswers, PTL
=============================================================================
