---------------------------- MODULE CodecProofs ----------------------------
(***************************************************************************)
(* What the encodings of Codec compute, for every value they are given:    *)
(* numbers and bitmaps, length-encoded strings, rows and parameters are    *)
(* read as they were written.                                              *)
(***************************************************************************)
EXTENDS Codec, SequenceTheorems, NaturalsInduction, WellFoundedInduction, TLAPS

-----------------------------------------------------------------------------
(* Induction and recursion over the naturals, with sets and functions in the
   place of predicates and operators. *)

(* Induction: a set with 0 and with the successor of each of its numbers has
   them all, since there is no least one that it lacks. *)
LEMMA Induction ==
    ASSUME NEW T, 0 \in T, \A n \in Nat : n \in T => n + 1 \in T
    PROVE  \A n \in Nat : n \in T
<1> DEFINE Less == {x \in Nat \X Nat : x[1] < x[2]}
           Out  == {n \in Nat : n \notin T}
<1>1. IsWellFoundedOn(Less, Nat)
  <2>1. Less = OpToRel(<, Nat)
    BY DEF OpToRel
  <2> QED BY <2>1, NatLessThanWellFounded
<1>2. SUFFICES ASSUME Out # {} PROVE FALSE
  OBVIOUS
<1>3. PICK n \in Out : \A m \in Out : <<m, n>> \notin Less
  <2> HIDE DEF Less
  <2> QED BY <1>1, <1>2, WFMin
<1>4. n # 0 /\ n - 1 \in Nat
  BY <1>3
<1>5. n - 1 \notin Out
  <2>1. SUFFICES ASSUME n - 1 \in Out PROVE FALSE
    OBVIOUS
  <2>2. <<n - 1, n>> \in Less
    BY <1>4
  <2> HIDE DEF Less
  <2> QED BY <1>3, <2>1, <2>2
<1> QED BY <1>3, <1>4, <1>5

(* Recursion: there is a function with a given first value and given steps. *)
IsRecursion(f, V, b, step) ==
    /\ f \in [Nat -> V]
    /\ \A n \in Nat : f[n] = IF n = 0 THEN b ELSE step[n][f[n - 1]]

LEMMA Recursion ==
    ASSUME NEW V, NEW b \in V, NEW step \in [Nat -> [V -> V]]
    PROVE  \E f : IsRecursion(f, V, b, step)
<1> DEFINE Starts(n) == {g \in [0 .. n -> V] :
                            \A i \in 0 .. n : g[i] = IF i = 0 THEN b ELSE step[i][g[i - 1]]}
           T == {n \in Nat : Starts(n) # {}}
<1>1. 0 \in T
  <2>1. [i \in 0 .. 0 |-> b] \in Starts(0)
    OBVIOUS
  <2> QED BY <2>1
<1>2. ASSUME NEW n \in Nat, n \in T PROVE n + 1 \in T
  <2>1. PICK g \in Starts(n) : TRUE
    BY <1>2
  <2> DEFINE h == [i \in 0 .. n + 1 |-> IF i <= n THEN g[i] ELSE step[n + 1][g[n]]]
  <2>2. \A i \in 0 .. n : g[i] \in V
    BY <2>1
  <2>3. step[n + 1][g[n]] \in V
    BY <2>2
  <2>4. h \in [0 .. n + 1 -> V]
    BY <2>2, <2>3
  <2>5. ASSUME NEW i \in 0 .. n + 1
        PROVE  h[i] = IF i = 0 THEN b ELSE step[i][h[i - 1]]
    <3>1. CASE i <= n
      <4>1. g[i] = IF i = 0 THEN b ELSE step[i][g[i - 1]]
        BY <2>1, <3>1
      <4> QED BY <3>1, <4>1
    <3>2. CASE i = n + 1
      BY <3>2
    <3> QED BY <3>1, <3>2
  <2>6. h \in Starts(n + 1)
    BY <2>4, <2>5
  <2> HIDE DEF Starts, h
  <2>7. Starts(n + 1) # {}
    BY <2>6
  <2> QED BY <2>7
<1>3. \A n \in Nat : n \in T
  <2> HIDE DEF T
  <2> QED BY <1>1, <1>2, Induction
<1>4. ASSUME NEW n \in Nat, NEW m \in Nat, NEW g \in Starts(n), NEW h \in Starts(m)
      PROVE  \A i \in Nat : i <= n /\ i <= m => g[i] = h[i]
  <2> DEFINE U == {i \in Nat : i <= n /\ i <= m => g[i] = h[i]}
  <2>1. 0 \in U
    OBVIOUS
  <2>2. ASSUME NEW i \in Nat, i \in U PROVE i + 1 \in U
    <3>1. SUFFICES ASSUME i + 1 <= n, i + 1 <= m PROVE g[i + 1] = h[i + 1]
      OBVIOUS
    <3>2. g[i] = h[i]
      BY <2>2, <3>1
    <3>3. g[i + 1] = step[i + 1][g[i]] /\ h[i + 1] = step[i + 1][h[i]]
      <4>1. i + 1 \in 0 .. n /\ i + 1 \in 0 .. m /\ i + 1 # 0 /\ (i + 1) - 1 = i
        BY <3>1
      <4> QED BY <4>1
    <3> QED BY <3>2, <3>3
  <2> HIDE DEF U
  <2>3. \A i \in Nat : i \in U
    BY <2>1, <2>2, Induction
  <2> QED BY <2>3 DEF U
<1> DEFINE pick == [n \in Nat |-> CHOOSE g : g \in Starts(n)]
           f == [n \in Nat |-> pick[n][n]]
<1>5. ASSUME NEW n \in Nat PROVE pick[n] \in Starts(n)
  <2>1. \E g : g \in Starts(n)
    BY <1>3
  <2> HIDE DEF Starts
  <2> QED BY <2>1
<1> HIDE DEF pick
<1>6. f \in [Nat -> V]
  BY <1>5
<1>7. ASSUME NEW n \in Nat PROVE f[n] = IF n = 0 THEN b ELSE step[n][f[n - 1]]
  <2>1. pick[n][n] = IF n = 0 THEN b ELSE step[n][pick[n][n - 1]]
    BY <1>5
  <2>2. CASE n # 0
    <3>1. n - 1 \in Nat
      BY <2>2
    <3>2. pick[n][n - 1] = pick[n - 1][n - 1]
      <4> HIDE DEF Starts
      <4> QED BY <1>4, <1>5, <3>1
    <3> QED BY <2>1, <3>1, <3>2
  <2> QED BY <2>1, <2>2
<1> QED BY <1>6, <1>7 DEF IsRecursion

-----------------------------------------------------------------------------
(* Power, Numeral and FlattenSeq satisfy their recursive equations. *)

LEMMA PowerRec ==
    ASSUME NEW b \in Nat
    PROVE  /\ Power(b, 0) = 1
           /\ \A n \in Nat : Power(b, n) \in Nat /\ Power(b, n + 1) = b * Power(b, n)
<1> DEFINE p[i \in Nat] == IF i = 0 THEN 1 ELSE b * p[i - 1]
           step == [i \in Nat |-> [x \in Nat |-> b * x]]
<1>1. PICK f : IsRecursion(f, Nat, 1, step)
  <2>1. step \in [Nat -> [Nat -> Nat]]
    OBVIOUS
  <2> HIDE DEF step
  <2> QED BY <2>1, Recursion
<1>2. f = [i \in Nat |-> IF i = 0 THEN 1 ELSE b * f[i - 1]]
  <2>1. \A n \in Nat : n # 0 => f[n - 1] \in Nat
    BY <1>1 DEF IsRecursion
  <2> QED BY <1>1, <2>1 DEF IsRecursion
<1>3. p = [i \in Nat |-> IF i = 0 THEN 1 ELSE b * p[i - 1]]
  <2> HIDE <1>1
  <2> QED BY <1>2
<1>4. \A n \in Nat : Power(b, n) = p[n]
  BY DEF Power
<1> HIDE DEF p
<1> DEFINE T == {n \in Nat : p[n] \in Nat}
<1>5. 0 \in T
  BY <1>3
<1>6. ASSUME NEW n \in Nat, n \in T PROVE n + 1 \in T
  BY <1>3, <1>6
<1>7. \A n \in Nat : n \in T
  <2> HIDE DEF T
  <2> QED BY <1>5, <1>6, Induction
<1> QED BY <1>3, <1>4, <1>7

LEMMA Division ==
    ASSUME NEW x \in Nat, NEW p \in Nat, p > 0
    PROVE  x = p * (x \div p) + (x % p) /\ x % p \in 0 .. p - 1 /\ x \div p \in Nat
OBVIOUS

LEMMA DivisionUnique ==
    ASSUME NEW q \in Nat, NEW p \in Nat, NEW r \in Nat, r < p
    PROVE  (q * p + r) \div p = q /\ (q * p + r) % p = r
OBVIOUS

LEMMA Products ==
    ASSUME NEW x \in Nat, NEW y \in Nat
    PROVE  x * y \in Nat /\ x * y = y * x /\ \A z \in Nat : z < x => z * y + y <= x * y
<1>1. ASSUME NEW z \in Nat, z < x PROVE z * y + y <= x * y
  <2>1. x * y = z * y + (x - z) * y
    OBVIOUS
  <2>2. (x - z) * y = y + (x - z - 1) * y
    OBVIOUS
  <2>3. (x - z - 1) * y \in Nat
    BY <1>1
  <2>4. z * y \in Int
    OBVIOUS
  <2> DEFINE w == (x - z - 1) * y
             v == z * y
  <2>5. x * y = v + (y + w) /\ w \in Nat /\ v \in Int
    BY <2>1, <2>2, <2>3, <2>4
  <2> HIDE DEF w, v
  <2>6. v + y <= v + (y + w)
    BY <2>5
  <2> QED BY <2>5, <2>6 DEF v
<1> QED BY <1>1

LEMMA SmallRemainder ==
    ASSUME NEW x \in Nat, NEW p \in Nat, x < p
    PROVE  x % p = x
OBVIOUS

LEMMA PowerAdd ==
    ASSUME NEW b \in Nat, NEW m \in Nat
    PROVE  \A n \in Nat : Power(b, m + n) = Power(b, m) * Power(b, n)
<1> DEFINE T == {n \in Nat : Power(b, m + n) = Power(b, m) * Power(b, n)}
<1>1. 0 \in T
  BY PowerRec
<1>2. ASSUME NEW n \in Nat, n \in T PROVE n + 1 \in T
  <2>1. Power(b, m + (n + 1)) = b * Power(b, m + n)
    <3>1. m + n \in Nat /\ m + (n + 1) = (m + n) + 1
      OBVIOUS
    <3> QED BY <3>1, PowerRec
  <2>2. /\ Power(b, n + 1) = b * Power(b, n)
        /\ Power(b, m) \in Nat /\ Power(b, n) \in Nat
    BY PowerRec
  <2>3. Power(b, m + n) = Power(b, m) * Power(b, n)
    BY <1>2
  <2>4. \A x, y \in Nat : b * (x * y) = x * (b * y)
    OBVIOUS
  <2> QED BY <2>1, <2>2, <2>3, <2>4
<1> HIDE DEF T
<1>3. \A n \in Nat : n \in T
  BY <1>1, <1>2, Induction
<1> QED BY <1>3 DEF T

LEMMA PowerPositive ==
    ASSUME NEW b \in Nat, b > 0
    PROVE  \A n \in Nat : Power(b, n) \in Nat /\ Power(b, n) > 0
<1> DEFINE T == {n \in Nat : Power(b, n) > 0}
<1>1. 0 \in T
  BY PowerRec
<1>2. ASSUME NEW n \in Nat, n \in T PROVE n + 1 \in T
  <2>1. Power(b, n) \in Nat /\ Power(b, n) > 0 /\ Power(b, n + 1) = b * Power(b, n)
    BY <1>2, PowerRec
  <2> QED BY <2>1
<1> HIDE DEF T
<1>3. \A n \in Nat : n \in T
  BY <1>1, <1>2, Induction
<1> QED BY <1>3, PowerRec DEF T

(* The partial sums of a numeral. *)
LEMMA NumeralSums ==
    ASSUME NEW base \in Nat, NEW d \in Seq(Nat)
    PROVE  \E s \in [0 .. Len(d) -> Nat] :
              /\ s[0] = 0
              /\ \A i \in 1 .. Len(d) : s[i] = s[i - 1] + d[i] * Power(base, i - 1)
              /\ Numeral(d, base) = s[Len(d)]
<1> DEFINE sum[i \in 0 .. Len(d)] == IF i = 0 THEN 0 ELSE sum[i - 1] + d[i] * Power(base, i - 1)
           add(i, x) == IF i \in 1 .. Len(d) THEN x + d[i] * Power(base, i - 1) ELSE 0
           step == [i \in Nat |-> [x \in Nat |-> add(i, x)]]
<1>0. Len(d) \in Nat /\ \A i \in 1 .. Len(d) : d[i] \in Nat /\ i - 1 \in Nat
  OBVIOUS
<1>1. PICK f : IsRecursion(f, Nat, 0, step)
  <2>1. ASSUME NEW i \in Nat, NEW x \in Nat PROVE add(i, x) \in Nat
    <3>1. ASSUME i \in 1 .. Len(d) PROVE d[i] * Power(base, i - 1) \in Nat
      <4>1. d[i] \in Nat /\ Power(base, i - 1) \in Nat
        BY <1>0, <3>1, PowerRec
      <4> QED BY <4>1, Products
    <3> QED BY <3>1
  <2>2. step \in [Nat -> [Nat -> Nat]]
    BY <2>1
  <2> HIDE DEF step
  <2> QED BY <2>2, Recursion
<1> HIDE DEF step
<1> DEFINE g == [i \in 0 .. Len(d) |-> f[i]]
<1>2. \A i \in 1 .. Len(d) : g[i] = g[i - 1] + d[i] * Power(base, i - 1)
  <2> SUFFICES ASSUME NEW i \in 1 .. Len(d) PROVE f[i] = f[i - 1] + d[i] * Power(base, i - 1)
    BY <1>0
  <2>0. i \in Nat /\ i # 0 /\ i - 1 \in Nat
    BY <1>0
  <2>1. i \in Nat /\ i # 0 /\ i - 1 \in Nat /\ f[i - 1] \in Nat
    BY <1>1, <2>0 DEF IsRecursion
  <2>2. f[i] = step[i][f[i - 1]]
    BY <1>1, <2>1 DEF IsRecursion
  <2> QED BY <2>1, <2>2 DEF step
<1>3. g[0] = 0 /\ g \in [0 .. Len(d) -> Nat]
  <2>1. 0 .. Len(d) \subseteq Nat /\ 0 \in 0 .. Len(d)
    BY <1>0
  <2>2. f[0] = 0 /\ \A i \in 0 .. Len(d) : f[i] \in Nat
    BY <1>1, <2>1 DEF IsRecursion
  <2> QED BY <2>1, <2>2
<1> HIDE DEF g
<1>4. g = [i \in 0 .. Len(d) |-> IF i = 0 THEN 0 ELSE g[i - 1] + d[i] * Power(base, i - 1)]
  <2>1. \A i \in 0 .. Len(d) : g[i] = IF i = 0 THEN 0 ELSE g[i - 1] + d[i] * Power(base, i - 1)
    BY <1>0, <1>2, <1>3
  <2> QED BY <1>3, <2>1
<1>5. sum = [i \in 0 .. Len(d) |-> IF i = 0 THEN 0 ELSE sum[i - 1] + d[i] * Power(base, i - 1)]
  BY <1>4
<1>6. Numeral(d, base) = sum[Len(d)]
  BY DEF Numeral
<1> HIDE DEF sum
<1> DEFINE T == {i \in Nat : i <= Len(d) => sum[i] \in Nat}
<1>7. 0 \in T
  BY <1>0, <1>5
<1>8. ASSUME NEW i \in Nat, i \in T PROVE i + 1 \in T
  <2>1. SUFFICES ASSUME i + 1 <= Len(d) PROVE sum[i + 1] \in Nat
    OBVIOUS
  <2>2. sum[i] \in Nat /\ d[i + 1] * Power(base, i) \in Nat
    <3>1. Power(base, i) \in Nat
      BY PowerRec
    <3>2. sum[i] \in Nat /\ d[i + 1] \in Nat
      BY <1>0, <1>8, <2>1
    <3> QED BY <3>1, <3>2, Products
  <2>3. sum[i + 1] = sum[i] + d[i + 1] * Power(base, i)
    <3>1. i + 1 \in 0 .. Len(d) /\ i + 1 # 0 /\ (i + 1) - 1 = i
      BY <1>0, <2>1
    <3> QED BY <1>5, <3>1
  <2> QED BY <2>2, <2>3
<1>9. \A i \in Nat : i \in T
  <2> HIDE DEF T
  <2> QED BY <1>7, <1>8, Induction
<1>10. sum \in [0 .. Len(d) -> Nat]
  <2>1. \A i \in 0 .. Len(d) : i \in T
    BY <1>0, <1>9
  <2>2. \A i \in 0 .. Len(d) : sum[i] \in Nat
    BY <1>0, <2>1
  <2>3. sum = [i \in 0 .. Len(d) |-> sum[i]]
    BY <1>5
  <2> QED BY <2>2, <2>3
<1>11. sum[0] = 0 /\ \A i \in 1 .. Len(d) : sum[i] = sum[i - 1] + d[i] * Power(base, i - 1)
  BY <1>0, <1>5
<1> QED BY <1>6, <1>10, <1>11

(* A number is what its digits say, ... *)
LEMMA NumeralOfDigits ==
    ASSUME NEW base \in Nat, base > 0, NEW k \in Nat, NEW n \in Nat, n < Power(base, k)
    PROVE  Numeral([i \in 1 .. k |-> Digit(n, base, i - 1)], base) = n
<1> DEFINE d == [i \in 1 .. k |-> Digit(n, base, i - 1)]
<1>1. \A i \in Nat : Power(base, i) \in Nat /\ Power(base, i) > 0
  BY PowerPositive
<1>2. \A i \in Nat : Digit(n, base, i) \in Nat
  BY <1>1 DEF Digit
<1>3. d \in Seq(Nat) /\ Len(d) = k
  BY <1>2
<1>4. PICK s \in [0 .. k -> Nat] :
         /\ s[0] = 0
         /\ \A i \in 1 .. k : s[i] = s[i - 1] + d[i] * Power(base, i - 1)
         /\ Numeral(d, base) = s[k]
  <2> HIDE DEF d
  <2> QED BY <1>3, NumeralSums
<1> DEFINE T == {i \in Nat : i <= k => s[i] = n % Power(base, i)}
<1>5. 0 \in T
  BY <1>4, PowerRec
<1>6. ASSUME NEW i \in Nat, i \in T PROVE i + 1 \in T
  <2>1. SUFFICES ASSUME i + 1 <= k PROVE s[i + 1] = n % Power(base, i + 1)
    OBVIOUS
  <2> DEFINE p == Power(base, i)
  <2>2. s[i] = n % p
    BY <1>6, <2>1
  <2>3. s[i + 1] = s[i] + ((n \div p) % base) * p
    <3>1. i + 1 \in 1 .. k /\ (i + 1) - 1 = i
      BY <2>1
    <3>2. s[i + 1] = s[i] + d[i + 1] * p
      BY <1>4, <3>1
    <3> QED BY <3>1, <3>2 DEF Digit
  <2>4. Power(base, i + 1) = base * p /\ p \in Nat /\ p > 0
    BY <1>1, PowerRec
  <2> HIDE DEF p
  <2> DEFINE q == n \div p
  <2>5. n = p * q + (n % p) /\ n % p \in 0 .. p - 1 /\ q \in Nat
    BY <2>4, Division
  <2> HIDE DEF q
  <2>6. q = base * (q \div base) + (q % base) /\ q % base \in 0 .. base - 1 /\ q \div base \in Nat
    BY <2>5, Division
  <2> DEFINE h == q \div base
             l == q % base
             r == n % p
  <2>7. /\ h \in Nat /\ l \in Nat /\ l < base /\ r \in Nat /\ r < p
        /\ q = base * h + l /\ n = p * q + r
    <3>1. l \in 0 .. base - 1 /\ r \in 0 .. p - 1
      BY <2>5, <2>6
    <3>2. /\ q = base * h + l /\ n = p * q + r /\ h \in Nat
      BY <2>5, <2>6
    <3> HIDE DEF l, r, h
    <3> QED BY <2>4, <3>1, <3>2
  <2> HIDE DEF h, l, r
  <2>8. n = h * (base * p) + (r + l * p)
    <3>1. p * (base * h + l) = h * (base * p) + l * p
      BY <2>4, <2>7
    <3> QED BY <2>4, <2>7, <3>1
  <2>9. r + l * p < base * p /\ r + l * p \in Nat /\ base * p \in Nat
    <3>1. l * p + p <= base * p /\ l * p \in Nat /\ base * p \in Nat
      BY <2>4, <2>7, Products
    <3> QED BY <2>4, <2>7, <3>1
  <2>10. n % (base * p) = r + l * p
    <3> DEFINE m == base * p
               u == r + l * p
    <3>1. m \in Nat /\ u \in Nat /\ u < m /\ n = h * m + u /\ h \in Nat
      BY <2>7, <2>8, <2>9
    <3> HIDE DEF m, u
    <3>2. n % m = u
      BY <3>1, DivisionUnique
    <3> QED BY <3>2 DEF m, u
  <2> QED BY <2>2, <2>3, <2>4, <2>10 DEF q, l, r
<1>7. \A i \in Nat : i \in T
  <2> HIDE DEF T
  <2> QED BY <1>5, <1>6, Induction
<1>8. s[k] = n % Power(base, k)
  BY <1>7
<1>9. n % Power(base, k) = n
  BY <1>1, SmallRemainder
<1> QED BY <1>4, <1>8, <1>9

(* ... and its digits are the ones it was made of. *)
LEMMA Below ==
    ASSUME NEW a \in Nat, NEW p \in Nat, NEW x \in Nat, NEW b \in Nat, a < p, x + p <= b
    PROVE  a + x < b
OBVIOUS

LEMMA DigitsOfNumeral ==
    ASSUME NEW base \in Nat, base > 0, NEW d \in Seq(0 .. base - 1)
    PROVE  /\ Numeral(d, base) \in Nat
           /\ \A i \in 1 .. Len(d) : Digit(Numeral(d, base), base, i - 1) = d[i]
<1> DEFINE k == Len(d)
<1>1. \A i \in Nat : Power(base, i) \in Nat /\ Power(base, i) > 0
  BY PowerPositive
<1>2. d \in Seq(Nat) /\ k \in Nat /\ \A i \in 1 .. k : d[i] \in 0 .. base - 1
  OBVIOUS
<1>3. PICK s \in [0 .. k -> Nat] :
         /\ s[0] = 0
         /\ \A i \in 1 .. k : s[i] = s[i - 1] + d[i] * Power(base, i - 1)
         /\ Numeral(d, base) = s[k]
  BY <1>2, NumeralSums
<1> HIDE DEF k
<1> DEFINE T == {m \in Nat : m <= k =>
                    /\ s[m] < Power(base, m)
                    /\ \A i \in 1 .. m : (s[m] \div Power(base, i - 1)) % base = d[i]}
<1>4. 0 \in T
  <2>1. Power(base, 0) = 1
    BY PowerRec
  <2> QED BY <1>2, <1>3, <2>1
<1>5. ASSUME NEW m \in Nat, m \in T PROVE m + 1 \in T
  <2>1. SUFFICES ASSUME m + 1 <= k
                 PROVE  /\ s[m + 1] < Power(base, m + 1)
                        /\ \A i \in 1 .. m + 1 : (s[m + 1] \div Power(base, i - 1)) % base = d[i]
    OBVIOUS
  <2> DEFINE p == Power(base, m)
             x == d[m + 1]
  <2>2. /\ s[m] \in Nat /\ s[m] < p
        /\ \A i \in 1 .. m : (s[m] \div Power(base, i - 1)) % base = d[i]
    BY <1>2, <1>3, <1>5, <2>1
  <2>3. s[m + 1] = s[m] + x * p
    <3>1. m + 1 \in 1 .. k /\ (m + 1) - 1 = m
      BY <1>2, <2>1
    <3> QED BY <1>3, <3>1
  <2>4. p \in Nat /\ p > 0 /\ x \in Nat /\ x < base /\ Power(base, m + 1) = base * p
    <3>1. p \in Nat /\ p > 0 /\ Power(base, m + 1) = base * p
      BY <1>1, PowerRec
    <3>2. x \in 0 .. base - 1
      BY <1>2, <2>1
    <3> QED BY <3>1, <3>2
  <2> HIDE DEF p, x
  <2>5. s[m + 1] < Power(base, m + 1)
    <3>1. x * p + p <= base * p /\ x * p \in Nat /\ base * p \in Nat
      BY <2>4, Products
    <3> DEFINE xp == x * p
               bp == base * p
    <3>2. xp + p <= bp /\ xp \in Nat /\ bp \in Nat /\ s[m + 1] = s[m] + xp
          /\ Power(base, m + 1) = bp
      BY <2>3, <2>4, <3>1
    <3> HIDE DEF xp, bp
    <3>3. s[m] \in Nat /\ s[m] < p
      BY <2>2
    <3>4. s[m] + xp < bp
      BY <2>4, <3>2, <3>3, Below
    <3> QED BY <3>2, <3>4
  <2>6. (s[m + 1] \div p) % base = x
    <3>1. s[m + 1] = x * p + s[m]
      <4>1. x * p \in Nat
        BY <2>4, Products
      <4> QED BY <2>2, <2>3, <4>1
    <3>2. s[m + 1] \div p = x
      <4>1. s[m] \in Nat /\ s[m] < p
        BY <2>2
      <4>2. (x * p + s[m]) \div p = x
        BY <2>4, <4>1, DivisionUnique
      <4> QED BY <3>1, <4>2
    <3>3. x % base = x
      BY <2>4, SmallRemainder
    <3> QED BY <3>2, <3>3
  <2>7. ASSUME NEW i \in 1 .. m PROVE (s[m + 1] \div Power(base, i - 1)) % base = d[i]
    <3> DEFINE q == Power(base, i - 1)
               c == Power(base, m - i)
    <3>1. q \in Nat /\ q > 0 /\ c \in Nat
      <4>1. i - 1 \in Nat /\ m - i \in Nat
        OBVIOUS
      <4> QED BY <1>1, <4>1
    <3>2. p = base * (q * c)
      <4>1. m - i \in Nat /\ i - 1 \in Nat /\ (i - 1) + (m - i) = m - 1 /\ m - 1 \in Nat
        OBVIOUS
      <4>2. Power(base, m - 1) = q * c
        BY <4>1, PowerAdd
      <4>3. Power(base, (m - 1) + 1) = base * Power(base, m - 1)
        BY <4>1, PowerRec
      <4> QED BY <4>1, <4>2, <4>3 DEF p
    <3> HIDE DEF q, c
    <3> DEFINE h == s[m] \div q
               r == s[m] % q
    <3>3. h \in Nat /\ r \in Nat /\ r < q /\ s[m] = h * q + r
      <4>1. s[m] = q * h + r /\ r \in 0 .. q - 1 /\ h \in Nat
        BY <2>2, <3>1, Division
      <4>2. q * h = h * q
        BY <3>1, <4>1
      <4> QED BY <3>1, <4>1, <4>2
    <3>4. h % base = d[i]
      BY <2>2 DEF q
    <3> HIDE DEF h, r
    <3>5. s[m + 1] = (h + base * (x * c)) * q + r
      <4>1. x * (base * (q * c)) = (base * (x * c)) * q
        BY <2>4, <3>1
      <4>2. (h + base * (x * c)) * q = h * q + (base * (x * c)) * q
        BY <2>4, <3>1, <3>3
      <4>3. x * p = (base * (x * c)) * q
        BY <3>2, <4>1
      <4> DEFINE hq == h * q
                 w  == (base * (x * c)) * q
      <4>4. hq \in Nat /\ w \in Nat
        BY <2>4, <3>1, <3>3, Products
      <4> DEFINE z == (h + base * (x * c)) * q
      <4>5. s[m + 1] = (hq + r) + w /\ z = hq + w
        BY <2>3, <3>3, <4>2, <4>3
      <4>6. r \in Nat
        BY <3>3
      <4> HIDE DEF hq, w, z
      <4>7. s[m + 1] = z + r
        BY <4>4, <4>5, <4>6
      <4> QED BY <4>7 DEF z
    <3> DEFINE y == x * c
    <3>6. y \in Nat
      BY <2>4, <3>1
    <3>7. s[m + 1] = (h + base * y) * q + r
      BY <3>5
    <3> HIDE DEF y
    <3>8. s[m + 1] \div q = h + base * y
      <4> DEFINE z == h + base * y
      <4>0. base * y \in Nat
        BY <3>6, Products
      <4>1. z \in Nat /\ s[m + 1] = z * q + r
        BY <3>3, <3>7, <4>0
      <4> HIDE DEF z
      <4>2. s[m + 1] \div q = z
        BY <3>1, <3>3, <4>1
      <4> QED BY <4>2 DEF z
    <3>9. (h + base * y) % base = h % base
      <4> DEFINE u == h \div base
                 v == h % base
      <4>1. h = base * u + v /\ v \in 0 .. base - 1 /\ u \in Nat
        BY <3>3, Division
      <4> HIDE DEF u, v
      <4>2. h + base * y = (u + y) * base + v
        BY <3>6, <4>1
      <4>3. u + y \in Nat /\ v \in Nat /\ v < base
        BY <3>6, <4>1
      <4> HIDE <4>1
      <4>4. ((u + y) * base + v) % base = v
        BY <4>3, DivisionUnique
      <4> QED BY <4>2, <4>4 DEF v
    <3> QED BY <3>4, <3>8, <3>9 DEF q
  <2>8. ASSUME NEW i \in 1 .. m + 1 PROVE (s[m + 1] \div Power(base, i - 1)) % base = d[i]
    <3>1. CASE i = m + 1
      BY <2>6, <3>1 DEF p, x
    <3>2. CASE i \in 1 .. m
      BY <2>7, <3>2
    <3> QED BY <3>1, <3>2
  <2> QED BY <2>5, <2>8
<1>6. \A m \in Nat : m \in T
  <2> HIDE DEF T
  <2> QED BY <1>4, <1>5, Induction
<1>7. \A i \in 1 .. k : (s[k] \div Power(base, i - 1)) % base = d[i]
  BY <1>2, <1>6
<1> QED BY <1>2, <1>3, <1>7 DEF Digit, k

-----------------------------------------------------------------------------
(* Sequences and concatenation under names of their own, so that the provers
   use the laws below and not what a sequence is. *)
Str(S) == Seq(S)
Cat(s, t) == s \o t

LEMMA StrLen ==
    ASSUME NEW S, NEW s \in Str(S)
    PROVE  Len(s) \in Nat /\ \A i \in 1 .. Len(s) : s[i] \in S
BY DEF Str

LEMMA StrEmpty ==
    ASSUME NEW S
    PROVE  <<>> \in Str(S) /\ Len(<<>>) = 0 /\ \A s \in Str(S) : Len(s) = 0 <=> s = <<>>
BY DEF Str

LEMMA StrEqual ==
    ASSUME NEW S, NEW s \in Str(S), NEW t \in Str(S),
           Len(s) = Len(t), \A i \in 1 .. Len(s) : s[i] = t[i]
    PROVE  s = t
BY SeqEqual DEF Str

LEMMA StrOf ==
    ASSUME NEW S, NEW n \in Nat, NEW f, f = [i \in 1 .. n |-> f[i]], \A i \in 1 .. n : f[i] \in S
    PROVE  f \in Str(S) /\ Len(f) = n
BY DEF Str

LEMMA CatAssociative ==
    ASSUME NEW S, NEW s \in Str(S), NEW t \in Str(S), NEW u \in Str(S)
    PROVE  Cat(s, Cat(t, u)) = Cat(Cat(s, t), u)
BY DEF Cat, Str

LEMMA CatType ==
    ASSUME NEW S, NEW s \in Str(S), NEW t \in Str(S)
    PROVE  Cat(s, t) \in Str(S) /\ Len(Cat(s, t)) = Len(s) + Len(t)
BY DEF Cat, Str

LEMMA CatEmpty ==
    ASSUME NEW S, NEW s \in Str(S)
    PROVE  Cat(s, <<>>) = s /\ Cat(<<>>, s) = s
BY ConcatEmptySeq DEF Cat, Str

LEMMA CatElements ==
    ASSUME NEW S, NEW s \in Str(S), NEW t \in Str(S)
    PROVE  /\ \A i \in 1 .. Len(s) : Cat(s, t)[i] = s[i]
           /\ \A i \in 1 .. Len(t) : Cat(s, t)[Len(s) + i] = t[i]
BY DEF Cat, Str

LEMMA PartElements ==
    ASSUME NEW S, NEW s \in Str(S), NEW i \in 0 .. Len(s), NEW j \in i .. Len(s)
    PROVE  /\ Part(s, i, j) \in Str(S) /\ Len(Part(s, i, j)) = j - i
           /\ \A k \in 1 .. j - i : Part(s, i, j)[k] = s[i + k]
BY DEF Part, Str

LEMMA FromPart ==
    ASSUME NEW S, NEW s \in Str(S), NEW i \in 0 .. Len(s)
    PROVE  From(s, i) = Part(s, i, Len(s))
BY DEF Part, From

(* What stands before a position and what stands behind it. *)
LEMMA CatParts ==
    ASSUME NEW S, NEW s \in Str(S), NEW t \in Str(S)
    PROVE  Part(Cat(s, t), 0, Len(s)) = s /\ From(Cat(s, t), Len(s)) = t
<1> DEFINE u == Cat(s, t)
<1>1. /\ Len(s) \in Nat /\ Len(t) \in Nat /\ u \in Str(S) /\ Len(u) = Len(s) + Len(t)
      /\ \A i \in 1 .. Len(s) : u[i] = s[i]
      /\ \A i \in 1 .. Len(t) : u[Len(s) + i] = t[i]
  <2>1. Len(s) \in Nat /\ Len(t) \in Nat
    BY StrLen
  <2>2. u \in Str(S) /\ Len(u) = Len(s) + Len(t)
    BY CatType
  <2>3. /\ \A i \in 1 .. Len(s) : u[i] = s[i]
        /\ \A i \in 1 .. Len(t) : u[Len(s) + i] = t[i]
    BY CatElements
  <2> QED BY <2>1, <2>2, <2>3
<1> HIDE DEF u
<1>2. Part(u, 0, Len(s)) = s
  <2> DEFINE p == Part(u, 0, Len(s))
  <2>1. p \in Str(S) /\ Len(p) = Len(s) /\ \A i \in 1 .. Len(s) : p[i] = u[i]
    <3>1. 0 \in 0 .. Len(u) /\ Len(s) \in 0 .. Len(u)
      BY <1>1
    <3>2. /\ p \in Str(S) /\ Len(p) = Len(s) - 0
          /\ \A k \in 1 .. Len(s) - 0 : p[k] = u[0 + k]
      BY <1>1, <3>1, PartElements
    <3> HIDE DEF p
    <3> QED BY <1>1, <3>2
  <2> HIDE DEF p
  <2>2. p = s
    BY <1>1, <2>1, StrEqual
  <2> QED BY <2>2 DEF p
<1>3. From(u, Len(s)) = t
  <2> DEFINE p == Part(u, Len(s), Len(u))
  <2>1. p \in Str(S) /\ Len(p) = Len(t) /\ \A i \in 1 .. Len(t) : p[i] = u[Len(s) + i]
    <3>1. PICK a, c, x : a = Len(s) /\ c = Len(t) /\ x = Len(u)
      OBVIOUS
    <3>2. u \in Str(S) /\ a \in Nat /\ c \in Nat /\ x = a + c /\ x <= Len(u)
      BY <1>1, <3>1
    <3>3. /\ Part(u, a, x) \in Str(S) /\ Len(Part(u, a, x)) = c
          /\ \A i \in 1 .. c : Part(u, a, x)[i] = u[a + i]
      BY <3>2, SMTT(30) DEF Part, Str
    <3> QED BY <3>1, <3>3
  <2>2. From(u, Len(s)) = p
    BY <1>1, FromPart
  <2> HIDE DEF p
  <2>3. p = t
    BY <1>1, <2>1, StrEqual
  <2> QED BY <2>2, <2>3
<1> QED BY <1>2, <1>3 DEF u

(* Any sequence is its first n elements and the others. *)
LEMMA PartFrom ==
    ASSUME NEW S, NEW s \in Str(S), NEW n \in 0 .. Len(s)
    PROVE  /\ Part(s, 0, n) \in Str(S) /\ Len(Part(s, 0, n)) = n
           /\ From(s, n) \in Str(S) /\ Len(From(s, n)) = Len(s) - n
           /\ s = Cat(Part(s, 0, n), From(s, n))
<1> DEFINE p == Part(s, 0, n)
           q == From(s, n)
           u == Cat(p, q)
<1>0. Len(s) \in Nat
  BY StrLen
<1>1. p \in Str(S) /\ Len(p) = n /\ \A i \in 1 .. n : p[i] = s[i]
  <2>1. 0 \in 0 .. Len(s) /\ n \in 0 .. Len(s)
    BY <1>0
  <2>2. p \in Str(S) /\ Len(p) = n - 0 /\ \A i \in 1 .. n - 0 : p[i] = s[0 + i]
    BY <2>1, PartElements
  <2> HIDE DEF p
  <2> QED BY <1>0, <2>2
<1>2. q \in Str(S) /\ Len(q) = Len(s) - n /\ \A i \in 1 .. Len(s) - n : q[i] = s[n + i]
  <2>1. Len(s) \in n .. Len(s) /\ q = Part(s, n, Len(s))
    BY <1>0, FromPart
  <2> HIDE DEF q
  <2> QED BY <1>0, <2>1, PartElements
<1> HIDE DEF p, q
<1>3. /\ u \in Str(S) /\ Len(u) = Len(s)
      /\ \A i \in 1 .. n : u[i] = p[i]
      /\ \A i \in 1 .. Len(s) - n : u[n + i] = q[i]
  <2>1. u \in Str(S) /\ Len(u) = n + (Len(s) - n)
    BY <1>1, <1>2, CatType
  <2>2. /\ \A i \in 1 .. n : u[i] = p[i]
        /\ \A i \in 1 .. Len(s) - n : u[n + i] = q[i]
    <3>0. p \in Str(S) /\ q \in Str(S)
      BY <1>1, <1>2
    <3>1. /\ \A i \in 1 .. Len(p) : u[i] = p[i]
          /\ \A i \in 1 .. Len(q) : u[Len(p) + i] = q[i]
      BY <3>0, CatElements
    <3> HIDE DEF u
    <3> QED BY <1>1, <1>2, <3>1
  <2> HIDE DEF u
  <2> QED BY <1>0, <2>1, <2>2
<1> HIDE DEF u
<1>4. ASSUME NEW i \in 1 .. Len(s) PROVE u[i] = s[i]
  <2>1. CASE i <= n
    BY <1>0, <1>1, <1>3, <2>1
  <2>2. CASE ~(i <= n)
    <3> DEFINE j == i - n
    <3>1. j \in 1 .. Len(s) - n /\ i = n + j
      BY <1>0, <2>2
    <3> HIDE DEF j
    <3> QED BY <1>2, <1>3, <3>1
  <2> QED BY <2>1, <2>2
<1>5. u = s
  BY <1>3, <1>4, StrEqual
<1> QED BY <1>1, <1>2, <1>5 DEF u, p, q

-----------------------------------------------------------------------------
(* FlattenSeq, and what it makes of a concatenation. *)

(* The results for the first sequences of q. *)
Joins(s, q, S) ==
    /\ s \in [0 .. Len(q) -> Seq(S)]
    /\ s[0] = <<>>
    /\ \A i \in 1 .. Len(q) : s[i] = s[i - 1] \o q[i]

LEMMA JoinsExist ==
    ASSUME NEW S, NEW q \in Seq(Seq(S))
    PROVE  \E s : Joins(s, q, S)
<1> DEFINE add(i, x) == IF i \in 1 .. Len(q) THEN x \o q[i] ELSE <<>>
           step == [i \in Nat |-> [x \in Seq(S) |-> add(i, x)]]
<1>0. Len(q) \in Nat /\ (\A i \in 1 .. Len(q) : q[i] \in Seq(S)) /\ <<>> \in Seq(S)
  OBVIOUS
<1>1. PICK f : IsRecursion(f, Seq(S), <<>>, step)
  <2>1. ASSUME NEW i \in Nat, NEW x \in Seq(S) PROVE add(i, x) \in Seq(S)
    <3>1. CASE i \in 1 .. Len(q)
      BY <1>0, <3>1, ConcatProperties
    <3> QED BY <1>0, <3>1
  <2> HIDE DEF add
  <2>2. step \in [Nat -> [Seq(S) -> Seq(S)]]
    BY <2>1
  <2> HIDE DEF step
  <2> QED BY <1>0, <2>2, Recursion
<1> HIDE DEF step
<1> DEFINE s == [i \in 0 .. Len(q) |-> f[i]]
<1>2. s \in [0 .. Len(q) -> Seq(S)] /\ s[0] = <<>>
  <2>1. 0 .. Len(q) \subseteq Nat /\ 0 \in 0 .. Len(q)
    BY <1>0
  <2>2. f[0] = <<>> /\ \A i \in 0 .. Len(q) : f[i] \in Seq(S)
    BY <1>1, <2>1 DEF IsRecursion
  <2> QED BY <2>1, <2>2
<1>3. ASSUME NEW i \in 1 .. Len(q) PROVE s[i] = s[i - 1] \o q[i]
  <2>1. i \in Nat /\ i # 0 /\ i - 1 \in Nat
    BY <1>0
  <2>2. f[i] = step[i][f[i - 1]] /\ f[i - 1] \in Seq(S)
    BY <1>1, <2>1 DEF IsRecursion
  <2>3. step[i][f[i - 1]] = f[i - 1] \o q[i]
    BY <2>1, <2>2 DEF step
  <2>4. s[i] = f[i] /\ s[i - 1] = f[i - 1]
    BY <1>0
  <2> QED BY <2>2, <2>3, <2>4
<1> QED BY <1>2, <1>3 DEF Joins

LEMMA JoinsUnique ==
    ASSUME NEW S, NEW q \in Seq(Seq(S)), NEW s, Joins(s, q, S), NEW t, Joins(t, q, S)
    PROVE  s = t
<1> DEFINE T == {i \in Nat : i <= Len(q) => s[i] = t[i]}
<1>1. 0 \in T
  BY DEF Joins
<1>2. ASSUME NEW i \in Nat, i \in T PROVE i + 1 \in T
  <2>1. SUFFICES ASSUME i + 1 <= Len(q) PROVE s[i + 1] = t[i + 1]
    OBVIOUS
  <2>2. i + 1 \in 1 .. Len(q) /\ (i + 1) - 1 = i
    BY <2>1
  <2>3. s[i] = t[i]
    BY <1>2, <2>1
  <2> QED BY <2>2, <2>3 DEF Joins
<1> HIDE DEF T
<1>3. \A i \in Nat : i \in T
  BY <1>1, <1>2, Induction
<1>4. \A i \in 0 .. Len(q) : s[i] = t[i]
  BY <1>3 DEF T
<1> QED BY <1>4 DEF Joins

LEMMA FlattenJoins ==
    ASSUME NEW S, NEW q \in Seq(Seq(S)), NEW s, Joins(s, q, S)
    PROVE  FlattenSeq(q) = s[Len(q)]
<1> DEFINE n == Len(q)
           flatten[i \in 1 .. n] == IF i = 1 THEN q[i] ELSE flatten[i - 1] \o q[i]
<1>0. n \in Nat /\ \A i \in 1 .. n : q[i] \in Seq(S)
  OBVIOUS
<1>1. CASE n = 0
  BY <1>1 DEF FlattenSeq, Joins
<1>2. CASE n # 0
  <2> DEFINE g == [i \in 1 .. n |-> s[i]]
  <2>1. \A i \in 1 .. n : g[i] = IF i = 1 THEN q[i] ELSE g[i - 1] \o q[i]
    <3> SUFFICES ASSUME NEW i \in 1 .. n PROVE g[i] = IF i = 1 THEN q[i] ELSE g[i - 1] \o q[i]
      OBVIOUS
    <3>1. s[i] = s[i - 1] \o q[i]
      BY DEF Joins
    <3>2. CASE i = 1
      <4>0. s[0] = <<>> /\ i - 1 = 0 /\ q[i] \in Seq(S)
        BY <1>0, <3>2 DEF Joins
      <4>1. s[1] = <<>> \o q[1] /\ q[1] \in Seq(S)
        BY <3>1, <3>2, <4>0
      <4>2. s[1] = q[1]
        BY <4>1, ConcatEmptySeq
      <4> QED BY <3>2, <4>2
    <3>3. CASE i # 1
      <4>1. i - 1 \in 1 .. n
        BY <1>0, <3>3
      <4> QED BY <3>1, <3>3, <4>1
    <3> QED BY <3>2, <3>3
  <2> HIDE DEF g
  <2>2. g = [i \in 1 .. n |-> IF i = 1 THEN q[i] ELSE g[i - 1] \o q[i]]
    BY <2>1 DEF g
  <2>3. flatten = [i \in 1 .. n |-> IF i = 1 THEN q[i] ELSE flatten[i - 1] \o q[i]]
    BY <2>2
  <2>4. FlattenSeq(q) = flatten[n]
    BY <1>2 DEF FlattenSeq
  <2> HIDE DEF flatten
  <2> DEFINE T == {i \in Nat : i + 1 <= n => flatten[i + 1] = g[i + 1]}
  <2>5. 0 \in T
    BY <1>0, <1>2, <2>2, <2>3
  <2>6. ASSUME NEW i \in Nat, i \in T PROVE i + 1 \in T
    <3>1. SUFFICES ASSUME i + 2 <= n PROVE flatten[i + 2] = g[i + 2]
      OBVIOUS
    <3>2. i + 2 \in 1 .. n /\ i + 2 # 1 /\ (i + 2) - 1 = i + 1
      BY <1>0, <3>1
    <3>3. flatten[i + 1] = g[i + 1]
      BY <1>0, <2>6, <3>1 DEF T
    <3>4. \A k \in 1 .. n : k # 1 => /\ flatten[k] = flatten[k - 1] \o q[k]
                                     /\ g[k] = g[k - 1] \o q[k]
      BY <2>2, <2>3
    <3> QED BY <3>2, <3>3, <3>4
  <2> HIDE DEF T
  <2>7. \A i \in Nat : i \in T
    BY <2>5, <2>6, Induction
  <2>8. n - 1 \in T
    BY <1>0, <1>2, <2>7
  <2>9. flatten[n] = g[n]
    BY <1>0, <1>2, <2>8 DEF T
  <2> QED BY <1>0, <1>2, <2>4, <2>9 DEF g
<1> QED BY <1>1, <1>2

LEMMA FlattenType ==
    ASSUME NEW S, NEW q \in Seq(Seq(S))
    PROVE  FlattenSeq(q) \in Seq(S)
<1>1. PICK s : Joins(s, q, S)
  BY JoinsExist
<1>2. FlattenSeq(q) = s[Len(q)]
  BY <1>1, FlattenJoins
<1> QED BY <1>1, <1>2 DEF Joins

LEMMA FlattenEmpty == FlattenSeq(<<>>) = <<>>
BY DEF FlattenSeq

LEMMA FlattenConcat ==
    ASSUME NEW S, NEW q \in Seq(Seq(S)), NEW r \in Seq(Seq(S))
    PROVE  FlattenSeq(q \o r) = FlattenSeq(q) \o FlattenSeq(r)
<1>1. PICK s : Joins(s, q, S)
  BY JoinsExist
<1>2. PICK t : Joins(t, r, S)
  BY JoinsExist
<1> DEFINE u == [i \in 0 .. Len(q \o r) |->
                    IF i <= Len(q) THEN s[i] ELSE s[Len(q)] \o t[i - Len(q)]]
<1>3. /\ Len(q) \in Nat /\ Len(r) \in Nat /\ Len(q \o r) = Len(q) + Len(r)
      /\ q \o r \in Seq(Seq(S))
      /\ \A i \in 1 .. Len(q) : (q \o r)[i] = q[i] /\ q[i] \in Seq(S)
      /\ \A i \in 1 .. Len(r) : (q \o r)[Len(q) + i] = r[i] /\ r[i] \in Seq(S)
  OBVIOUS
<1>4. u \in [0 .. Len(q \o r) -> Seq(S)]
  <2>1. ASSUME NEW i \in 0 .. Len(q \o r), ~(i <= Len(q))
        PROVE  s[Len(q)] \o t[i - Len(q)] \in Seq(S)
    <3>1. i - Len(q) \in 0 .. Len(r) /\ Len(q) \in 0 .. Len(q)
      BY <1>3, <2>1
    <3>2. s[Len(q)] \in Seq(S) /\ t[i - Len(q)] \in Seq(S)
      BY <1>1, <1>2, <3>1 DEF Joins
    <3> QED BY <3>2, ConcatProperties
  <2>2. ASSUME NEW i \in 0 .. Len(q \o r), i <= Len(q) PROVE s[i] \in Seq(S)
    <3>1. i \in 0 .. Len(q)
      BY <1>3, <2>2
    <3> QED BY <1>1, <3>1 DEF Joins
  <2> QED BY <2>1, <2>2
<1>5. u[0] = <<>>
  BY <1>1, <1>3 DEF Joins
<1>6. ASSUME NEW i \in 1 .. Len(q \o r) PROVE u[i] = u[i - 1] \o (q \o r)[i]
  <2>0. i - 1 \in 0 .. Len(q \o r) /\ i \in 0 .. Len(q \o r)
    BY <1>3
  <2>1. CASE i <= Len(q)
    <3>1. i \in 1 .. Len(q)
      BY <1>3, <2>1
    <3>2. u[i] = s[i] /\ u[i - 1] = s[i - 1]
      BY <1>3, <2>0, <2>1
    <3> QED BY <1>1, <1>3, <3>1, <3>2 DEF Joins
  <2>2. CASE ~(i <= Len(q))
    <3> DEFINE j == i - Len(q)
    <3>1. j \in 1 .. Len(r) /\ i = Len(q) + j /\ Len(q) \in 0 .. Len(q) /\ j - 1 \in 0 .. Len(r)
      BY <1>3, <2>2
    <3>2. u[i] = s[Len(q)] \o t[j] /\ t[j] = t[j - 1] \o r[j]
      BY <1>2, <2>0, <2>2, <3>1 DEF Joins
    <3>3. u[i - 1] = s[Len(q)] \o t[j - 1]
      <4>1. CASE j = 1
        <5>1. u[i - 1] = s[Len(q)]
          BY <1>3, <2>0, <3>1, <4>1
        <5>2. s[Len(q)] \in Seq(S) /\ t[0] = <<>>
          BY <1>1, <1>2, <3>1 DEF Joins
        <5>3. s[Len(q)] \o <<>> = s[Len(q)]
          BY <5>2, ConcatEmptySeq
        <5>4. j - 1 = 0
          BY <4>1
        <5> HIDE DEF j, u
        <5> QED BY <5>1, <5>2, <5>3, <5>4
      <4>2. CASE j # 1
        <5>1. ~(i - 1 <= Len(q)) /\ (i - 1) - Len(q) = j - 1
          BY <1>3, <3>1, <4>2
        <5> QED BY <2>0, <5>1
      <4> QED BY <4>1, <4>2
    <3>4. s[Len(q)] \in Seq(S) /\ t[j - 1] \in Seq(S) /\ r[j] \in Seq(S)
      BY <1>1, <1>2, <1>3, <3>1 DEF Joins
    <3>5. s[Len(q)] \o (t[j - 1] \o r[j]) = (s[Len(q)] \o t[j - 1]) \o r[j]
      <4>1. Cat(s[Len(q)], Cat(t[j - 1], r[j])) = Cat(Cat(s[Len(q)], t[j - 1]), r[j])
        BY <3>4, CatAssociative DEF Str
      <4> QED BY <4>1 DEF Cat
    <3>6. (q \o r)[i] = r[j]
      BY <1>3, <3>1
    <3> HIDE DEF u, j
    <3> QED BY <3>2, <3>3, <3>5, <3>6
  <2> QED BY <2>1, <2>2
<1>7. Joins(u, q \o r, S)
  <2> HIDE DEF u
  <2> QED BY <1>4, <1>5, <1>6 DEF Joins
<1>8. /\ FlattenSeq(q \o r) = u[Len(q) + Len(r)]
      /\ FlattenSeq(q) = s[Len(q)] /\ FlattenSeq(r) = t[Len(r)]
  <2> HIDE DEF u
  <2> QED BY <1>1, <1>2, <1>3, <1>7, FlattenJoins
<1>9. u[Len(q) + Len(r)] = s[Len(q)] \o t[Len(r)]
  <2>1. CASE Len(r) = 0
    <3>1. s[Len(q)] \in Seq(S) /\ t[0] = <<>>
      <4>1. Len(q) \in 0 .. Len(q)
        BY <1>3
      <4> QED BY <1>1, <1>2, <4>1 DEF Joins
    <3>2. s[Len(q)] \o <<>> = s[Len(q)]
      BY <3>1, ConcatEmptySeq
    <3>3. u[Len(q)] = s[Len(q)]
      BY <1>3
    <3> QED BY <1>3, <2>1, <3>1, <3>2, <3>3
  <2>2. CASE Len(r) # 0
    <3>1. /\ Len(q) + Len(r) \in 0 .. Len(q \o r) /\ ~(Len(q) + Len(r) <= Len(q))
          /\ (Len(q) + Len(r)) - Len(q) = Len(r)
      BY <1>3, <2>2
    <3> QED BY <3>1
  <2> QED BY <2>1, <2>2
<1> QED BY <1>8, <1>9

LEMMA FlattenOne ==
    ASSUME NEW S, NEW x \in Seq(S)
    PROVE  FlattenSeq(<<x>>) = x
<1> DEFINE s == [i \in 0 .. 1 |-> IF i = 0 THEN <<>> ELSE x]
<1>1. <<x>> \in Seq(Seq(S)) /\ Len(<<x>>) = 1 /\ <<x>>[1] = x
  OBVIOUS
<1>2. Joins(s, <<x>>, S)
  <2>1. s \in [0 .. 1 -> Seq(S)]
    OBVIOUS
  <2>2. s[1] = s[0] \o x
    BY ConcatEmptySeq
  <2> HIDE DEF s
  <2>3. \A i \in 1 .. 1 : s[i] = s[i - 1] \o <<x>>[i]
    BY <1>1, <2>2
  <2>4. s[0] = <<>>
    BY DEF s
  <2> QED BY <1>1, <2>1, <2>3, <2>4 DEF Joins
<1>3. FlattenSeq(<<x>>) = s[1]
  <2> HIDE DEF s
  <2> QED BY <1>1, <1>2, FlattenJoins
<1> QED BY <1>3

(* The same of sequences and concatenations that are not looked into. *)
LEMMA FlatType ==
    ASSUME NEW S, NEW q \in Str(Str(S))
    PROVE  FlattenSeq(q) \in Str(S)
BY FlattenType DEF Str

LEMMA FlatCat ==
    ASSUME NEW S, NEW q \in Str(Str(S)), NEW r \in Str(Str(S))
    PROVE  FlattenSeq(Cat(q, r)) = Cat(FlattenSeq(q), FlattenSeq(r))
BY FlattenConcat DEF Str, Cat

LEMMA FlatOne ==
    ASSUME NEW S, NEW x \in Str(S)
    PROVE  FlattenSeq(<<x>>) = x
BY FlattenOne DEF Str

LEMMA StrOne ==
    ASSUME NEW S, NEW x \in S
    PROVE  <<x>> \in Str(S) /\ Len(<<x>>) = 1 /\ <<x>>[1] = x
BY DEF Str

(* One more element at the end of a part, one at the head of what is left. *)
LEMMA PartNext ==
    ASSUME NEW S, NEW s \in Str(S), NEW n \in Nat, n < Len(s)
    PROVE  Part(s, 0, n + 1) = Cat(Part(s, 0, n), <<s[n + 1]>>)
<1> DEFINE p == Part(s, 0, n)
           x == <<s[n + 1]>>
           u == Part(s, 0, n + 1)
           v == Cat(p, x)
<1>1. Len(s) \in Nat /\ n + 1 \in 1 .. Len(s) /\ s[n + 1] \in S
  BY StrLen
<1>2. p \in Str(S) /\ Len(p) = n /\ \A i \in 1 .. n : p[i] = s[i]
  <2>1. 0 \in 0 .. Len(s) /\ n \in 0 .. Len(s)
    BY <1>1
  <2>2. p \in Str(S) /\ Len(p) = n - 0 /\ \A i \in 1 .. n - 0 : p[i] = s[0 + i]
    BY <2>1, PartElements
  <2> HIDE DEF p
  <2> QED BY <2>2
<1>3. u \in Str(S) /\ Len(u) = n + 1 /\ \A i \in 1 .. n + 1 : u[i] = s[i]
  <2>1. 0 \in 0 .. Len(s) /\ n + 1 \in 0 .. Len(s)
    BY <1>1
  <2>2. u \in Str(S) /\ Len(u) = (n + 1) - 0 /\ \A i \in 1 .. (n + 1) - 0 : u[i] = s[0 + i]
    BY <2>1, PartElements
  <2> HIDE DEF u
  <2> QED BY <2>2
<1>4. x \in Str(S) /\ Len(x) = 1 /\ x[1] = s[n + 1]
  BY <1>1, StrOne
<1> HIDE DEF p, x, u
<1>5. v \in Str(S) /\ Len(v) = n + 1
  <2>1. p \in Str(S) /\ x \in Str(S)
    BY <1>2, <1>4
  <2>2. Cat(p, x) \in Str(S) /\ Len(Cat(p, x)) = Len(p) + Len(x)
    BY <2>1, CatType
  <2> QED BY <1>2, <1>4, <2>2
<1>6. (\A i \in 1 .. Len(p) : v[i] = p[i]) /\ \A i \in 1 .. Len(x) : v[Len(p) + i] = x[i]
  <2>1. p \in Str(S) /\ x \in Str(S)
    BY <1>2, <1>4
  <2> QED BY <2>1, CatElements
<1> HIDE DEF v
<1>7. ASSUME NEW i \in 1 .. n + 1 PROVE u[i] = v[i]
  <2>1. CASE i \in 1 .. n
    BY <1>2, <1>3, <1>6, <2>1
  <2>2. CASE i = n + 1
    BY <1>2, <1>3, <1>4, <1>6, <2>2
  <2> QED BY <2>1, <2>2
<1>8. u = v
  <2>1. Len(u) = Len(v) /\ \A i \in 1 .. Len(u) : u[i] = v[i]
    BY <1>3, <1>5, <1>7
  <2> QED BY <1>3, <1>5, <2>1, StrEqual
<1> QED BY <1>8 DEF u, v, p, x

LEMMA FromNext ==
    ASSUME NEW S, NEW s \in Str(S), NEW n \in Nat, n < Len(s)
    PROVE  From(s, n) = Cat(<<s[n + 1]>>, From(s, n + 1))
<1> DEFINE q == From(s, n + 1)
           x == <<s[n + 1]>>
           u == From(s, n)
           v == Cat(x, q)
<1>1. Len(s) \in Nat /\ n + 1 \in 1 .. Len(s) /\ s[n + 1] \in S
  BY StrLen
<1>2. q \in Str(S) /\ Len(q) = Len(s) - n - 1 /\ \A i \in 1 .. Len(s) - n - 1 : q[i] = s[n + 1 + i]
  <2>1. n + 1 \in 0 .. Len(s) /\ Len(s) \in n + 1 .. Len(s) /\ q = Part(s, n + 1, Len(s))
    BY <1>1, FromPart
  <2> HIDE DEF q
  <2>2. /\ q \in Str(S) /\ Len(q) = Len(s) - (n + 1)
        /\ \A i \in 1 .. Len(s) - (n + 1) : q[i] = s[(n + 1) + i]
    BY <2>1, PartElements
  <2> QED BY <1>1, <2>2
<1>3. u \in Str(S) /\ Len(u) = Len(s) - n /\ \A i \in 1 .. Len(s) - n : u[i] = s[n + i]
  <2>1. n \in 0 .. Len(s) /\ Len(s) \in n .. Len(s) /\ u = Part(s, n, Len(s))
    BY <1>1, FromPart
  <2> HIDE DEF u
  <2> QED BY <2>1, PartElements
<1>4. x \in Str(S) /\ Len(x) = 1 /\ x[1] = s[n + 1]
  BY <1>1, StrOne
<1> HIDE DEF q, x, u
<1>5. v \in Str(S) /\ Len(v) = 1 + (Len(s) - n - 1)
  <2>1. q \in Str(S) /\ x \in Str(S)
    BY <1>2, <1>4
  <2>2. v \in Str(S) /\ Len(v) = Len(x) + Len(q)
    BY <2>1, CatType
  <2> QED BY <1>2, <1>4, <2>2
<1>6. (\A i \in 1 .. Len(x) : v[i] = x[i]) /\ \A i \in 1 .. Len(q) : v[Len(x) + i] = q[i]
  <2>1. q \in Str(S) /\ x \in Str(S)
    BY <1>2, <1>4
  <2> QED BY <2>1, CatElements
<1> HIDE DEF v
<1>7. ASSUME NEW i \in 1 .. Len(s) - n PROVE u[i] = v[i]
  <2>1. CASE i = 1
    BY <1>1, <1>3, <1>4, <1>6, <2>1
  <2>2. CASE i # 1
    <3> DEFINE j == i - 1
    <3>1. j \in 1 .. Len(s) - n - 1 /\ i = 1 + j /\ n + i = n + 1 + j
      BY <1>1, <2>2
    <3> HIDE DEF j
    <3>2. u[i] = s[n + i]
      BY <1>3
    <3>3. q[j] = s[(n + 1) + j]
      BY <1>2, <3>1
    <3>4. v[1 + j] = q[j]
      <4>1. j \in 1 .. Len(q)
        BY <1>2, <3>1
      <4> QED BY <1>4, <1>6, <4>1
    <3>5. (n + 1) + j = n + i
      BY <1>1, <3>1
    <3> QED BY <3>1, <3>2, <3>3, <3>4, <3>5
  <2> QED BY <2>1, <2>2
<1>8. u = v
  <2>1. Len(u) = Len(v) /\ \A i \in 1 .. Len(u) : u[i] = v[i]
    BY <1>1, <1>3, <1>5, <1>7
  <2> QED BY <1>3, <1>5, <2>1, StrEqual
<1> QED BY <1>8 DEF u, v, q, x

LEMMA FromAll ==
    ASSUME NEW S, NEW s \in Str(S)
    PROVE  From(s, 0) = s /\ From(s, Len(s)) = <<>> /\ Part(s, 0, 0) = <<>>
           /\ Part(s, 0, Len(s)) = s
<1>1. Len(s) \in Nat
  BY StrLen
<1>2. From(s, 0) = s /\ Part(s, 0, Len(s)) = s
  BY SubSeqFull DEF From, Part, Str
<1>3. /\ From(s, Len(s)) \in Str(S) /\ Len(From(s, Len(s))) = Len(s) - Len(s)
      /\ Part(s, 0, 0) \in Str(S) /\ Len(Part(s, 0, 0)) = 0
  <2>1. Len(s) \in 0 .. Len(s) /\ 0 \in 0 .. Len(s)
    BY <1>1
  <2> QED BY <2>1, PartFrom
<1>4. From(s, Len(s)) = <<>> /\ Part(s, 0, 0) = <<>>
  <2>1. Len(From(s, Len(s))) = 0
    BY <1>1, <1>3
  <2> QED BY <1>3, <2>1, StrEmpty
<1> QED BY <1>2, <1>4

(* The flattened sequence before and after its n-th member. *)
LEMMA FlatNext ==
    ASSUME NEW S, NEW q \in Str(Str(S)), NEW n \in Nat, n < Len(q)
    PROVE  /\ q[n + 1] \in Str(S)
           /\ FlattenSeq(Part(q, 0, n + 1)) = Cat(FlattenSeq(Part(q, 0, n)), q[n + 1])
           /\ FlattenSeq(From(q, n)) = Cat(q[n + 1], FlattenSeq(From(q, n + 1)))
<1>1. Len(q) \in Nat /\ n + 1 \in 1 .. Len(q)
  BY StrLen
<1>2. q[n + 1] \in Str(S)
  BY <1>1, StrLen
<1>3. <<q[n + 1]>> \in Str(Str(S)) /\ FlattenSeq(<<q[n + 1]>>) = q[n + 1]
  BY <1>2, StrOne, FlatOne
<1>4. Part(q, 0, n) \in Str(Str(S)) /\ From(q, n + 1) \in Str(Str(S))
  <2>1. n \in 0 .. Len(q) /\ n + 1 \in 0 .. Len(q)
    BY <1>1
  <2> QED BY <2>1, PartFrom
<1>5. Part(q, 0, n + 1) = Cat(Part(q, 0, n), <<q[n + 1]>>)
  BY PartNext
<1>6. From(q, n) = Cat(<<q[n + 1]>>, From(q, n + 1))
  BY FromNext
<1>7. /\ FlattenSeq(Cat(Part(q, 0, n), <<q[n + 1]>>)) = Cat(FlattenSeq(Part(q, 0, n)), FlattenSeq(<<q[n + 1]>>))
      /\ FlattenSeq(Cat(<<q[n + 1]>>, From(q, n + 1))) = Cat(FlattenSeq(<<q[n + 1]>>), FlattenSeq(From(q, n + 1)))
  BY <1>3, <1>4, FlatCat
<1> QED BY <1>2, <1>3, <1>5, <1>6, <1>7

LEMMA FlatAt ==
    ASSUME NEW S, NEW q \in Str(Str(S)), NEW n \in 0 .. Len(q)
    PROVE  FlattenSeq(q) = Cat(FlattenSeq(Part(q, 0, n)), FlattenSeq(From(q, n)))
<1>1. Part(q, 0, n) \in Str(Str(S)) /\ From(q, n) \in Str(Str(S)) /\ q = Cat(Part(q, 0, n), From(q, n))
  BY PartFrom
<1> QED BY <1>1, FlatCat

-----------------------------------------------------------------------------
(* Fields are read one after the other as they were written, when each of them
   is read at the head of whatever follows it. *)
Reads(types, enc, vals) ==
    /\ Len(types) = Len(enc)
    /\ vals = [i \in 1 .. Len(enc) |-> vals[i]]
    /\ \A i \in 1 .. Len(enc) : \A rest \in Str(Nat) :
          Field(types[i], Cat(enc[i], rest)) = [value |-> vals[i], n |-> Len(enc[i])]

LEMMA FieldsRead ==
    ASSUME NEW pre \in Str(Nat), NEW enc \in Str(Str(Nat)), NEW types, NEW vals,
           Reads(types, enc, vals)
    PROVE  Fields(Cat(pre, FlattenSeq(enc)), Len(pre), types) = vals
<1> DEFINE n    == Len(enc)
           data == Cat(pre, FlattenSeq(enc))
           at(i) == Cat(pre, FlattenSeq(Part(enc, 0, i)))
           pos[i \in 0 .. n] ==
               IF i = 0 THEN Len(pre)
               ELSE pos[i - 1] + Field(types[i], From(data, pos[i - 1])).n
<1>1. n \in Nat /\ Len(pre) \in Nat
  BY StrLen
<1>0. /\ Len(types) = n /\ vals = [i \in 1 .. n |-> vals[i]]
      /\ \A i \in 1 .. n : \A rest \in Str(Nat) :
            Field(types[i], Cat(enc[i], rest)) = [value |-> vals[i], n |-> Len(enc[i])]
  BY DEF Reads
<1>2. ASSUME NEW i \in 0 .. n
      PROVE  /\ at(i) \in Str(Nat) /\ Len(at(i)) \in Nat
             /\ FlattenSeq(From(enc, i)) \in Str(Nat)
             /\ data = Cat(at(i), FlattenSeq(From(enc, i)))
  <2> DEFINE p == FlattenSeq(Part(enc, 0, i))
             q == FlattenSeq(From(enc, i))
  <2>1. Part(enc, 0, i) \in Str(Str(Nat)) /\ From(enc, i) \in Str(Str(Nat))
    BY PartFrom
  <2>2. p \in Str(Nat) /\ q \in Str(Nat) /\ FlattenSeq(enc) = Cat(p, q)
    BY <2>1, FlatType, FlatAt
  <2> HIDE DEF p, q
  <2>3. Cat(pre, Cat(p, q)) = Cat(Cat(pre, p), q)
    BY <2>2, CatAssociative
  <2>4. Cat(pre, p) \in Str(Nat)
    BY <2>2, CatType
  <2>5. Len(Cat(pre, p)) \in Nat
    BY <2>4, StrLen
  <2> QED BY <2>2, <2>3, <2>4, <2>5 DEF p, q
<1>3. Len(at(0)) = Len(pre)
  BY FromAll, FlattenEmpty, CatEmpty
<1>4. ASSUME NEW i \in 1 .. n
      PROVE  /\ Field(types[i], From(data, Len(at(i - 1)))) = [value |-> vals[i], n |-> Len(enc[i])]
             /\ Len(at(i)) = Len(at(i - 1)) + Len(enc[i])
  <2> DEFINE j == i - 1
             rest == FlattenSeq(From(enc, i))
  <2>1. j \in Nat /\ j < n /\ j + 1 = i /\ j \in 0 .. n /\ i \in 0 .. n
    BY <1>1
  <2>2. /\ enc[i] \in Str(Nat)
        /\ FlattenSeq(Part(enc, 0, i)) = Cat(FlattenSeq(Part(enc, 0, j)), enc[i])
        /\ FlattenSeq(From(enc, j)) = Cat(enc[i], rest)
    <3> HIDE DEF j
    <3>1. /\ enc[j + 1] \in Str(Nat)
          /\ FlattenSeq(Part(enc, 0, j + 1)) = Cat(FlattenSeq(Part(enc, 0, j)), enc[j + 1])
          /\ FlattenSeq(From(enc, j)) = Cat(enc[j + 1], FlattenSeq(From(enc, j + 1)))
      BY <2>1, FlatNext
    <3> QED BY <2>1, <3>1
  <2>3. at(j) \in Str(Nat) /\ rest \in Str(Nat) /\ data = Cat(at(j), Cat(enc[i], rest))
    <3> HIDE DEF j
    <3> QED BY <1>2, <2>1, <2>2
  <2>4. Cat(enc[i], rest) \in Str(Nat)
    BY <2>2, <2>3, CatType
  <2>5. From(data, Len(at(j))) = Cat(enc[i], rest)
    <3> HIDE DEF at, data, rest, j
    <3> QED BY <2>3, <2>4, CatParts
  <2>6. at(i) = Cat(at(j), enc[i])
    <3> DEFINE p == FlattenSeq(Part(enc, 0, j))
    <3>1. p \in Str(Nat)
      <4> HIDE DEF j
      <4>1. Part(enc, 0, j) \in Str(Str(Nat))
        BY <2>1, PartFrom
      <4> QED BY <4>1, FlatType
    <3>2. Cat(pre, Cat(p, enc[i])) = Cat(Cat(pre, p), enc[i])
      <4> HIDE DEF p
      <4> QED BY <2>2, <3>1, CatAssociative
    <3> QED BY <2>2, <3>2
  <2>7. Len(at(i)) = Len(at(j)) + Len(enc[i])
    <3> HIDE DEF at, data, rest, j
    <3> QED BY <2>2, <2>3, <2>6, CatType
  <2> QED BY <1>0, <2>3, <2>4, <2>5, <2>7
<1> HIDE DEF at, data
<1> DEFINE g == [i \in 0 .. n |-> Len(at(i))]
<1>5. g = [i \in 0 .. n |-> IF i = 0 THEN Len(pre)
                            ELSE g[i - 1] + Field(types[i], From(data, g[i - 1])).n]
  <2>1. ASSUME NEW i \in 0 .. n, i # 0
        PROVE  Len(at(i)) = g[i - 1] + Field(types[i], From(data, g[i - 1])).n
    <3>1. i \in 1 .. n /\ i - 1 \in 0 .. n
      BY <1>1, <2>1
    <3>2. g[i - 1] = Len(at(i - 1))
      BY <3>1
    <3>3. Field(types[i], From(data, Len(at(i - 1)))) = [value |-> vals[i], n |-> Len(enc[i])]
      BY <1>4, <3>1
    <3>4. Field(types[i], From(data, Len(at(i - 1)))).n = Len(enc[i])
      BY <3>3
    <3> QED BY <1>4, <3>1, <3>2, <3>4
  <2> QED BY <1>3, <2>1
<1> HIDE DEF g
<1>6. pos = [i \in 0 .. n |-> IF i = 0 THEN Len(pre)
                              ELSE pos[i - 1] + Field(types[i], From(data, pos[i - 1])).n]
  BY <1>5
<1>7. Fields(data, Len(pre), types) = [i \in 1 .. n |-> Field(types[i], From(data, pos[i - 1])).value]
  BY <1>0 DEF Fields
<1> HIDE DEF pos
<1> DEFINE T == {i \in Nat : i <= n => pos[i] = g[i]}
<1>8. 0 \in T
  BY <1>1, <1>5, <1>6
<1>9. ASSUME NEW i \in Nat, i \in T PROVE i + 1 \in T
  <2>1. SUFFICES ASSUME i + 1 <= n PROVE pos[i + 1] = g[i + 1]
    OBVIOUS
  <2>2. i + 1 \in 0 .. n /\ i + 1 # 0 /\ (i + 1) - 1 = i
    BY <1>1, <2>1
  <2>3. pos[i] = g[i]
    BY <1>1, <1>9, <2>1
  <2>4. \A k \in 0 .. n : k # 0 =>
           /\ pos[k] = pos[k - 1] + Field(types[k], From(data, pos[k - 1])).n
           /\ g[k] = g[k - 1] + Field(types[k], From(data, g[k - 1])).n
    BY <1>5, <1>6
  <2> QED BY <2>2, <2>3, <2>4
<1> HIDE DEF T
<1>10. \A i \in Nat : i \in T
  BY <1>8, <1>9, Induction
<1>11. ASSUME NEW i \in 1 .. n PROVE Field(types[i], From(data, pos[i - 1])).value = vals[i]
  <2>1. i - 1 \in Nat /\ i - 1 <= n /\ i - 1 \in 0 .. n
    BY <1>1
  <2>2. pos[i - 1] = Len(at(i - 1))
    BY <1>10, <2>1 DEF T, g
  <2>3. Field(types[i], From(data, Len(at(i - 1)))) = [value |-> vals[i], n |-> Len(enc[i])]
    BY <1>4
  <2>4. Field(types[i], From(data, Len(at(i - 1)))).value = vals[i]
    BY <2>3
  <2> QED BY <2>2, <2>4
<1>12. [i \in 1 .. n |-> Field(types[i], From(data, pos[i - 1])).value] = [i \in 1 .. n |-> vals[i]]
  BY <1>11
<1> QED BY <1>0, <1>7, <1>12 DEF data

-----------------------------------------------------------------------------
LEMMA RadixFacts ==
    /\ Radix \in Nat /\ Radix >= 8
    /\ Power(2, ByteBits) = Radix
    /\ {iOK, iEOF, iERR, NullMark, TwoMark, ThreeMark, EightMark} \subseteq Nat
    /\ Byte \subseteq Nat
<1>1. ByteBits \in Nat /\ ByteBits >= 3
  BY ByteAssumption
<1>2. Power(2, 0) = 1 /\ Power(2, 1) = 2 /\ Power(2, 2) = 4 /\ Power(2, 3) = 8
  <2>1. \A n \in Nat : Power(2, n) \in Nat /\ Power(2, n + 1) = 2 * Power(2, n)
    BY PowerRec
  <2>2. Power(2, 0) = 1
    BY PowerRec
  <2>3. 0 + 1 = 1 /\ 1 + 1 = 2 /\ 2 + 1 = 3
    OBVIOUS
  <2> QED BY <2>1, <2>2, <2>3
<1> DEFINE d == ByteBits - 3
<1>3. d \in Nat /\ ByteBits = 3 + d
  BY <1>1
<1> HIDE DEF d
<1>4. Power(2, d) \in Nat /\ Power(2, d) > 0
  BY <1>3, PowerPositive
<1>5. Radix = 8 * Power(2, d)
  BY <1>2, <1>3, PowerAdd DEF Radix
<1>6. Radix \in Nat /\ Radix >= 8
  BY <1>4, <1>5
<1> QED BY <1>6 DEF Radix, iOK, iEOF, iERR, NullMark, TwoMark, ThreeMark, EightMark, Byte

LEMMA StrWider ==
    ASSUME NEW S, NEW T, S \subseteq T, NEW s \in Str(S)
    PROVE  s \in Str(T)
<1>1. s \in [1 .. Len(s) -> T] /\ Len(s) \in Nat
  BY DEF Str
<1> QED BY <1>1 DEF Str

LEMMA CatSecond ==
    ASSUME NEW S, NEW s \in Str(S), NEW t \in Str(S)
    PROVE  \A i \in 1 .. Len(t) : Cat(s, t)[Len(s) + i] = t[i]
BY CatElements

LEMMA LittleEndianRead ==
    ASSUME NEW k \in Nat, NEW n \in Nat, n < Power(Radix, k)
    PROVE  /\ LittleEndian(n, k) \in Str(Nat) /\ Len(LittleEndian(n, k)) = k
           /\ Number(LittleEndian(n, k)) = n
<1> DEFINE R == Radix
<1>1. R \in Nat /\ R > 0
  BY RadixFacts
<1>2. ASSUME NEW i \in 1 .. k PROVE Digit(n, R, i - 1) \in Nat
  <2>1. i - 1 \in Nat
    OBVIOUS
  <2>2. Power(R, i - 1) \in Nat /\ Power(R, i - 1) > 0
    BY <1>1, <2>1, PowerPositive
  <2> DEFINE q == n \div Power(R, i - 1)
  <2>3. q \in Nat
    BY <2>2, Division
  <2> HIDE DEF q
  <2>4. (q % R) \in Nat
    BY <1>1, <2>3, Division
  <2> QED BY <2>4 DEF q, Digit
<1> HIDE DEF R
<1>3. Numeral([i \in 1 .. k |-> Digit(n, R, i - 1)], R) = n
  BY <1>1, NumeralOfDigits DEF R
<1>4. [i \in 1 .. k |-> Digit(n, R, i - 1)] \in Str(Nat)
  BY <1>2 DEF Str
<1>5. Len([i \in 1 .. k |-> Digit(n, R, i - 1)]) = k
  OBVIOUS
<1> QED BY <1>3, <1>4, <1>5 DEF LittleEndian, Number, R

(* A number behind a mark, whatever follows. *)
LEMMA MarkedRead ==
    ASSUME NEW mark \in Nat, NEW k \in Nat, NEW n \in Nat, n < Power(Radix, k), NEW rest \in Str(Nat)
    PROVE  LET e == Cat(<<mark>>, LittleEndian(n, k))
               b == Cat(e, rest)
           IN  /\ e \in Str(Nat) /\ Len(e) = k + 1 /\ e[1] = mark
               /\ b # <<>> /\ b[1] = mark
               /\ Number(Part(b, 1, 1 + k)) = n
<1> DEFINE d == LittleEndian(n, k)
           m == <<mark>>
           e == Cat(m, d)
           b == Cat(e, rest)
<1>1. d \in Str(Nat) /\ Len(d) = k /\ Number(d) = n
  BY LittleEndianRead
<1>2. m \in Str(Nat) /\ Len(m) = 1 /\ m[1] = mark
  BY StrOne
<1> HIDE DEF d, m
<1>3. e \in Str(Nat) /\ Len(e) = 1 + k
  BY <1>1, <1>2, CatType
<1>4. e[1] = mark
  <2>1. \A i \in 1 .. Len(m) : e[i] = m[i]
    BY <1>1, <1>2, CatElements
  <2> QED BY <1>2, <2>1
<1>5. \A i \in 1 .. k : e[1 + i] = d[i]
  <2>1. \A i \in 1 .. Len(d) : e[Len(m) + i] = d[i]
    BY <1>1, <1>2, CatSecond
  <2> QED BY <1>1, <1>2, <2>1
<1> HIDE DEF e
<1>6. b \in Str(Nat) /\ Len(b) = Len(e) + Len(rest) /\ Len(rest) \in Nat
  BY <1>3, CatType, StrLen
<1>7. \A i \in 1 .. Len(e) : b[i] = e[i]
  BY <1>3, CatElements
<1> HIDE DEF b
<1>8. b # <<>> /\ b[1] = mark
  <2>1. 1 \in 1 .. Len(e)
    BY <1>3
  <2>2. Len(b) # 0
    BY <1>3, <1>6
  <2>3. b # <<>>
    BY <1>6, <2>2, StrEmpty
  <2> QED BY <1>4, <1>7, <2>1, <2>3
<1>9. Part(b, 1, 1 + k) = d
  <2>1. 1 \in 0 .. Len(b) /\ 1 + k \in 1 .. Len(b)
    BY <1>3, <1>6
  <2> DEFINE h == 1 + k
             p == Part(b, 1, h)
  <2>2. h - 1 = k
    OBVIOUS
  <2> HIDE DEF h
  <2>3. p \in Str(Nat) /\ Len(p) = h - 1 /\ \A i \in 1 .. h - 1 : p[i] = b[1 + i]
    BY <1>6, <2>1, PartElements DEF h
  <2> HIDE DEF p
  <2>4. \A i \in 1 .. k : p[i] = d[i]
    BY <1>3, <1>5, <1>7, <2>2, <2>3
  <2>5. p = d
    BY <1>1, <2>2, <2>3, <2>4, StrEqual
  <2> QED BY <2>5 DEF p, h
<1>10. e \in Str(Nat) /\ Len(e) = k + 1 /\ e[1] = mark
  BY <1>3, <1>4
<1>11. Number(Part(b, 1, 1 + k)) = n
  BY <1>1, <1>9
<1> QED BY <1>8, <1>10, <1>11 DEF d, e, b, m

IntBytes(n) ==
    IF n < NullMark THEN <<n>>
    ELSE IF n < Power(Radix, 2) THEN Cat(<<TwoMark>>, LittleEndian(n, 2))
    ELSE IF n < Power(Radix, 3) THEN Cat(<<ThreeMark>>, LittleEndian(n, 3))
    ELSE Cat(<<EightMark>>, LittleEndian(n, 8))

LEMMA Marks ==
    /\ NullMark \in Nat /\ TwoMark \in Nat /\ ThreeMark \in Nat /\ EightMark \in Nat
    /\ NullMark < TwoMark /\ TwoMark < ThreeMark /\ ThreeMark < EightMark /\ EightMark < iERR
    /\ iEOF = EightMark /\ 1 < NullMark
BY RadixFacts DEF NullMark, TwoMark, ThreeMark, EightMark, iEOF, iERR

(* What is read at the head of a length-encoded integer and what follows. *)
LEMMA IntRead ==
    ASSUME NEW n \in Nat, n < Power(Radix, 8), NEW rest \in Str(Nat)
    PROVE  /\ IntBytes(n) \in Str(Nat) /\ Len(IntBytes(n)) > 0 /\ Len(IntBytes(n)) \in Nat
           /\ IntBytes(n)[1] # iERR /\ IntBytes(n)[1] \in Nat
           /\ IntBytes(n)[1] = iEOF => Len(IntBytes(n)) > 5
           /\ ReadLengthEncodedInteger(Cat(IntBytes(n), rest))
                = [num |-> n, isNull |-> FALSE, n |-> Len(IntBytes(n))]
<1>1. CASE n < NullMark
  <2> DEFINE e == <<n>>
             b == Cat(e, rest)
  <2>1. e \in Str(Nat) /\ Len(e) = 1 /\ e[1] = n
    BY StrOne
  <2> HIDE DEF e
  <2>2. b \in Str(Nat) /\ Len(b) = Len(e) + Len(rest) /\ Len(rest) \in Nat
    BY <2>1, CatType, StrLen
  <2>3. \A i \in 1 .. Len(e) : b[i] = e[i]
    BY <2>1, CatElements
  <2> HIDE DEF b
  <2>4. b # <<>>
    <3>1. Len(b) # 0
      BY <2>1, <2>2
    <3> QED BY <3>1, <2>2, StrEmpty
  <2>5. b[1] = n
    BY <2>1, <2>3
  <2>6. n # NullMark /\ n # TwoMark /\ n # ThreeMark /\ n # EightMark /\ n # iERR /\ n # iEOF
    BY <1>1, Marks
  <2>7. ReadLengthEncodedInteger(b) = [num |-> n, isNull |-> FALSE, n |-> 1]
    BY <2>4, <2>5, <2>6 DEF ReadLengthEncodedInteger
  <2>8. IntBytes(n) = e
    BY <1>1 DEF IntBytes, e
  <2>9. e \in Str(Nat) /\ Len(e) > 0 /\ Len(e) \in Nat /\ e[1] # iERR /\ e[1] \in Nat /\ e[1] # iEOF
    BY <2>1, <2>6
  <2>10. ReadLengthEncodedInteger(Cat(e, rest)) = [num |-> n, isNull |-> FALSE, n |-> Len(e)]
    BY <2>1, <2>7 DEF b
  <2> QED BY <2>8, <2>9, <2>10
<1>2. ASSUME NEW mark \in Nat, NEW k \in {2, 3, 8}, n < Power(Radix, k),
             IntBytes(n) = Cat(<<mark>>, LittleEndian(n, k)),
             mark = IF k = 2 THEN TwoMark ELSE IF k = 3 THEN ThreeMark ELSE EightMark
      PROVE  /\ IntBytes(n) \in Str(Nat) /\ Len(IntBytes(n)) > 0 /\ Len(IntBytes(n)) \in Nat
             /\ IntBytes(n)[1] # iERR /\ IntBytes(n)[1] \in Nat
             /\ IntBytes(n)[1] = iEOF => Len(IntBytes(n)) > 5
             /\ ReadLengthEncodedInteger(Cat(IntBytes(n), rest))
                  = [num |-> n, isNull |-> FALSE, n |-> Len(IntBytes(n))]
  <2> DEFINE e == IntBytes(n)
             b == Cat(e, rest)
  <2>1. /\ e \in Str(Nat) /\ Len(e) = k + 1 /\ e[1] = mark
        /\ b # <<>> /\ b[1] = mark
        /\ Number(Part(b, 1, 1 + k)) = n
    <3> DEFINE c == Cat(<<mark>>, LittleEndian(n, k))
    <3>1. /\ c \in Str(Nat) /\ Len(c) = k + 1 /\ c[1] = mark
          /\ Cat(c, rest) # <<>> /\ Cat(c, rest)[1] = mark
          /\ Number(Part(Cat(c, rest), 1, 1 + k)) = n
      <4>1. k \in Nat /\ n < Power(Radix, k)
        BY <1>2
      <4> QED BY <4>1, MarkedRead
    <3>2. e = c
      BY <1>2
    <3> HIDE DEF c, e
    <3> QED BY <3>1, <3>2
  <2> HIDE DEF b, e
  <2>2. mark # NullMark /\ mark # iERR
    BY <1>2, Marks
  <2>3. mark = TwoMark <=> k = 2
    BY <1>2, Marks
  <2>4. mark = ThreeMark <=> k = 3
    BY <1>2, Marks
  <2>5. mark = EightMark <=> k = 8
    BY <1>2, Marks
  <2>6. mark = iEOF => k = 8
    BY <2>5, Marks
  <2>7. ReadLengthEncodedInteger(b) = [num |-> n, isNull |-> FALSE, n |-> k + 1]
    <3>1. CASE k = 2
      BY <2>1, <2>2, <2>3, <3>1 DEF ReadLengthEncodedInteger
    <3>2. CASE k = 3
      BY <2>1, <2>2, <2>3, <2>4, <3>2 DEF ReadLengthEncodedInteger
    <3>3. CASE k = 8
      BY <2>1, <2>2, <2>3, <2>4, <2>5, <3>3 DEF ReadLengthEncodedInteger
    <3> QED BY <1>2, <3>1, <3>2, <3>3
  <2>8. k \in Nat /\ Len(e) \in Nat /\ Len(e) > 0 /\ (k = 8 => Len(e) > 5)
    BY <2>1
  <2>9. e \in Str(Nat) /\ Len(e) > 0 /\ Len(e) \in Nat /\ e[1] # iERR /\ e[1] \in Nat
        /\ (e[1] = iEOF => Len(e) > 5)
    BY <2>1, <2>2, <2>6, <2>8
  <2>10. ReadLengthEncodedInteger(Cat(e, rest)) = [num |-> n, isNull |-> FALSE, n |-> Len(e)]
    BY <2>1, <2>7 DEF b
  <2> QED BY <2>9, <2>10 DEF e
<1>3. CASE n >= NullMark
  <2> DEFINE k == IF n < Power(Radix, 2) THEN 2 ELSE IF n < Power(Radix, 3) THEN 3 ELSE 8
             mark == IF k = 2 THEN TwoMark ELSE IF k = 3 THEN ThreeMark ELSE EightMark
  <2>1. ~(n < NullMark)
    BY <1>3, Marks
  <2>2. IntBytes(n) = Cat(<<mark>>, LittleEndian(n, k))
    BY <2>1 DEF IntBytes
  <2>3. mark \in Nat /\ k \in {2, 3, 8}
    BY Marks
  <2>4. n < Power(Radix, k)
    OBVIOUS
  <2>5. mark = IF k = 2 THEN TwoMark ELSE IF k = 3 THEN ThreeMark ELSE EightMark
    OBVIOUS
  <2> HIDE DEF mark, k
  <2> QED BY <1>2, <2>2, <2>3, <2>4, <2>5
<1> QED BY <1>1, <1>3, Marks

StringBytes(v) == AppendLengthEncodedString(<<>>, v)

LEMMA StringRead ==
    ASSUME NEW v \in Str(Nat), Len(v) < Power(Radix, 8), NEW rest \in Str(Nat)
    PROVE  /\ StringBytes(v) \in Str(Nat) /\ Len(StringBytes(v)) > 0
           /\ StringBytes(v)[1] # iERR /\ StringBytes(v)[1] \in Nat
           /\ StringBytes(v)[1] = iEOF => Len(StringBytes(v)) > 5
           /\ Field("string", Cat(StringBytes(v), rest)) = [value |-> Val(v), n |-> Len(StringBytes(v))]
<1> DEFINE n == Len(v)
           h == IntBytes(n)
           e == Cat(h, v)
           b == Cat(e, rest)
<1>1. n \in Nat /\ Len(rest) \in Nat
  BY StrLen
<1>2. h \in Str(Nat) /\ Len(h) > 0 /\ Len(h) \in Nat /\ h[1] # iERR /\ h[1] \in Nat
      /\ (h[1] = iEOF => Len(h) > 5)
  BY <1>1, IntRead
<1>3. \A r \in Str(Nat) :
         ReadLengthEncodedInteger(Cat(h, r)) = [num |-> n, isNull |-> FALSE, n |-> Len(h)]
  BY <1>1, IntRead
<1>4. StringBytes(v) = e
  <2>1. <<>> \o h = h
    <3>1. Cat(<<>>, h) = h
      <4> HIDE DEF h
      <4> QED BY <1>2, CatEmpty
    <3> QED BY <3>1 DEF Cat
  <2>2. AppendLengthEncodedInteger(<<>>, n) = <<>> \o h
    BY DEF AppendLengthEncodedInteger, IntBytes, Cat
  <2> HIDE DEF h, n
  <2> QED BY <2>1, <2>2 DEF StringBytes, AppendLengthEncodedString, Cat, n
<1> HIDE DEF h
<1>5. e \in Str(Nat) /\ Len(e) = Len(h) + n
  BY <1>2, CatType
<1>6. e[1] = h[1]
  <2>1. \A i \in 1 .. Len(h) : e[i] = h[i]
    BY <1>2, CatElements
  <2> QED BY <1>2, <2>1
<1>7. b = Cat(h, Cat(v, rest))
  BY <1>2, CatAssociative
<1>8. Cat(v, rest) \in Str(Nat)
  BY CatType
<1>9. ReadLengthEncodedInteger(b) = [num |-> n, isNull |-> FALSE, n |-> Len(h)]
  <2> HIDE DEF n, b
  <2> QED BY <1>3, <1>7, <1>8
<1> HIDE DEF e
<1>10. b \in Str(Nat) /\ Len(b) = Len(e) + Len(rest)
  BY <1>5, CatType
<1>11. \A i \in 1 .. Len(e) : b[i] = e[i]
  BY <1>5, CatElements
<1>12. \A i \in 1 .. Len(v) : e[Len(h) + i] = v[i]
  BY <1>2, CatSecond DEF e
<1> HIDE DEF b
<1>13. Part(b, Len(h), Len(h) + n) = v
  <2> DEFINE j == Len(h) + n
             p == Part(b, Len(h), j)
  <2>1. Len(h) \in 0 .. Len(b) /\ j \in Len(h) .. Len(b) /\ j - Len(h) = n
    BY <1>1, <1>2, <1>5, <1>10
  <2>2. \A i \in 1 .. n : Len(h) + i \in 1 .. Len(e)
    BY <1>1, <1>2, <1>5
  <2> HIDE DEF j
  <2>3. p \in Str(Nat) /\ Len(p) = j - Len(h) /\ \A i \in 1 .. j - Len(h) : p[i] = b[Len(h) + i]
    BY <1>10, <2>1, PartElements
  <2> HIDE DEF p
  <2>4. \A i \in 1 .. n : p[i] = v[i]
    BY <1>11, <1>12, <2>1, <2>2, <2>3
  <2>5. Len(p) = Len(v)
    BY <2>1, <2>3
  <2>6. p = v
    BY <2>3, <2>4, <2>5, StrEqual
  <2> QED BY <2>6 DEF p, j
<1>14. Len(h) + n <= Len(b)
  BY <1>1, <1>5, <1>10
<1>15. /\ ReadLengthEncodedString(b).str = v
       /\ ReadLengthEncodedString(b).isNull = FALSE
       /\ ReadLengthEncodedString(b).n = Len(h) + n
  <2> HIDE DEF n
  <2> QED BY <1>9, <1>13, <1>14 DEF ReadLengthEncodedString
<1>16. Field("string", b) = [value |-> Val(v), n |-> Len(h) + n]
  BY <1>15 DEF Field
<1>17. Len(e) > 0 /\ (e[1] = iEOF => Len(e) > 5)
  BY <1>1, <1>2, <1>5, <1>6
<1> QED BY <1>2, <1>4, <1>5, <1>6, <1>16, <1>17 DEF b

LEMMA NullRead ==
    ASSUME NEW rest \in Str(Nat)
    PROVE  /\ <<NullMark>> \in Str(Nat) /\ Len(<<NullMark>>) = 1 /\ <<NullMark>>[1] = NullMark
           /\ Field("string", Cat(<<NullMark>>, rest)) = [value |-> NullValue, n |-> 1]
<1> DEFINE e == <<NullMark>>
           b == Cat(e, rest)
<1>1. e \in Str(Nat) /\ Len(e) = 1 /\ e[1] = NullMark
  BY Marks, StrOne
<1> HIDE DEF e
<1>2. b \in Str(Nat) /\ Len(b) = Len(e) + Len(rest) /\ Len(rest) \in Nat
  BY <1>1, CatType, StrLen
<1>3. \A i \in 1 .. Len(e) : b[i] = e[i]
  BY <1>1, CatElements
<1> HIDE DEF b
<1>4. b[1] = NullMark
  BY <1>1, <1>3
<1>5. ReadLengthEncodedInteger(b) = [num |-> 0, isNull |-> TRUE, n |-> 1]
  BY <1>4 DEF ReadLengthEncodedInteger
<1>6. 1 + 0 <= Len(b) /\ Part(b, 1, 1 + 0) = <<>>
  <2>1. Len(b) \in Nat /\ 1 <= Len(b)
    BY <1>1, <1>2
  <2> QED BY <2>1 DEF Part
<1>7. ReadLengthEncodedString(b).isNull = TRUE /\ ReadLengthEncodedString(b).n = 1
  BY <1>5 DEF ReadLengthEncodedString
<1>8. Field("string", b) = [value |-> NullValue, n |-> 1]
  BY <1>7 DEF Field
<1> QED BY <1>1, <1>8 DEF e, b

LEMMA WidthFacts ==
    ASSUME NEW type \in DOMAIN Widths
    PROVE  Widths[type] \in Nat /\ Widths[type] > 0 /\ type # "string" /\ type # "none"
           /\ type \in {"tiny", "utiny", "short", "ushort"}
BY DEF Widths

LEMMA NumberRead ==
    ASSUME NEW type \in DOMAIN Widths, NEW n \in Numbers(type), NEW rest \in Str(Nat)
    PROVE  LET e == EncodedNumber(n, Widths[type])
           IN  /\ e \in Str(Nat)
               /\ Field(type, Cat(e, rest)) = [value |-> Val(<<n>>), n |-> Len(e)]
<1> DEFINE w == Widths[type]
           size == Power(Radix, w)
           m == (n + size) % size
           e == EncodedNumber(n, w)
           b == Cat(e, rest)
           h == size \div 2
<1>1. w \in Nat /\ w > 0 /\ type # "string" /\ type # "none"
  BY WidthFacts
<1> HIDE DEF w
<1>2. size \in Nat /\ size > 0
  <2>1. Radix \in Nat /\ Radix > 0
    BY RadixFacts
  <2>2. \A k \in Nat : Power(Radix, k) \in Nat /\ Power(Radix, k) > 0
    BY <2>1, PowerPositive
  <2> QED BY <1>1, <2>2
<1>3. h \in Nat /\ h <= size /\ size <= 2 * h + 1
  <2> HIDE DEF size
  <2> QED BY <1>2
<1>4. n \in Int /\ IF type \in {"utiny", "ushort"} THEN 0 <= n /\ n < size ELSE -h <= n /\ n < h
  BY <1>2, <1>3 DEF Numbers, w
<1> HIDE DEF size, h
<1>5. /\ m \in Nat /\ m < size
      /\ n >= 0 => m = n
      /\ n < 0 => m = n + size
  <2>1. n < size /\ -size <= n
    BY <1>2, <1>3, <1>4
  <2>2. CASE n >= 0
    <3>1. n \in Nat /\ n + size = 1 * size + n
      BY <1>2, <1>4, <2>2
    <3>2. ((1 * size + n) % size) = n
      BY <1>2, <2>1, <3>1, DivisionUnique
    <3> QED BY <2>1, <2>2, <3>1, <3>2
  <2>3. CASE n < 0
    <3>1. n + size \in Nat /\ n + size < size
      BY <1>2, <1>4, <2>1, <2>3
    <3>2. ((n + size) % size) = n + size
      BY <1>2, <3>1, SmallRemainder
    <3> QED BY <1>2, <1>4, <2>3, <3>1, <3>2
  <2> QED BY <1>4, <2>2, <2>3
<1>6. e = LittleEndian(m, w)
  BY DEF EncodedNumber, size
<1> HIDE DEF m
<1>7. e \in Str(Nat) /\ Len(e) = w /\ Number(e) = m
  BY <1>1, <1>5, <1>6, LittleEndianRead DEF size
<1> HIDE DEF e
<1>8. Part(b, 0, w) = e
  BY <1>7, CatParts
<1>9. ReadNumber(type, e) = n
  <2>1. CASE type \in {"utiny", "ushort"}
    BY <1>4, <1>5, <1>7, <2>1 DEF ReadNumber
  <2>2. CASE type \notin {"utiny", "ushort"}
    <3>1. Signed(m, w) = n
      BY <1>2, <1>3, <1>4, <1>5, <2>2 DEF Signed, size, h
    <3> QED BY <1>7, <2>2, <3>1 DEF ReadNumber, w
  <2> QED BY <2>1, <2>2
<1>10. Field(type, b) = [value |-> Val(<<n>>), n |-> w]
  <2> HIDE DEF b
  <2> QED BY <1>1, <1>8, <1>9 DEF Field, w
<1> QED BY <1>7, <1>10 DEF e, b, w

LEMMA NoneRead ==
    ASSUME NEW rest \in Str(Nat)
    PROVE  Field("none", Cat(<<>>, rest)) = [value |-> NullValue, n |-> Len(<<>>)]
BY StrEmpty DEF Field

LEMMA BitmapType ==
    ASSUME NEW bits, NEW bytes \in Nat
    PROVE  /\ Bitmap(bits, bytes) \in Str(Nat) /\ Len(Bitmap(bits, bytes)) = bytes
           /\ \A k \in 1 .. bytes : \A r \in 0 .. ByteBits - 1 :
                 Digit(Bitmap(bits, bytes)[k], 2, r) = IF (k - 1) * ByteBits + r \in bits THEN 1 ELSE 0
<1> DEFINE d(k) == [b \in 1 .. ByteBits |-> IF (k - 1) * ByteBits + b - 1 \in bits THEN 1 ELSE 0]
<1>1. ByteBits \in Nat /\ ByteBits > 0
  BY ByteAssumption
<1>2. ASSUME NEW k \in 1 .. bytes
      PROVE  /\ Numeral(d(k), 2) \in Nat
             /\ \A r \in 0 .. ByteBits - 1 :
                   Digit(Numeral(d(k), 2), 2, r) = IF (k - 1) * ByteBits + r \in bits THEN 1 ELSE 0
  <2>1. d(k) \in Seq(0 .. 2 - 1) /\ Len(d(k)) = ByteBits
    BY <1>1
  <2>2. \A b \in 1 .. ByteBits : d(k)[b] = IF (k - 1) * ByteBits + b - 1 \in bits THEN 1 ELSE 0
    OBVIOUS
  <2> DEFINE e == d(k)
  <2> HIDE DEF d
  <2>3. /\ Numeral(e, 2) \in Nat
        /\ \A i \in 1 .. Len(e) : Digit(Numeral(e, 2), 2, i - 1) = e[i]
    BY <2>1, DigitsOfNumeral
  <2>4. ASSUME NEW r \in 0 .. ByteBits - 1
        PROVE  Digit(Numeral(e, 2), 2, r) = IF (k - 1) * ByteBits + r \in bits THEN 1 ELSE 0
    <3>1. r + 1 \in 1 .. Len(e) /\ (r + 1) - 1 = r
      BY <1>1, <2>1
    <3>2. Digit(Numeral(e, 2), 2, r) = e[r + 1]
      BY <2>3, <3>1
    <3> DEFINE z == (k - 1) * ByteBits
    <3>3. z \in Int
      BY <1>1
    <3> HIDE DEF z
    <3>4. z + (r + 1) - 1 = z + r
      BY <3>3
    <3>5. e[r + 1] = IF z + (r + 1) - 1 \in bits THEN 1 ELSE 0
      BY <2>1, <2>2, <3>1 DEF z
    <3> QED BY <3>2, <3>4, <3>5 DEF z
  <2> QED BY <2>3, <2>4
<1>3. Bitmap(bits, bytes) = [k \in 1 .. bytes |-> Numeral(d(k), 2)]
  BY DEF Bitmap
<1> HIDE DEF d
<1> QED BY <1>2, <1>3 DEF Str

LEMMA BitmapRead ==
    ASSUME NEW bits, NEW bytes \in Nat, NEW pre \in Str(Nat), NEW rest \in Str(Nat),
           NEW i \in Nat, i < bytes * ByteBits
    PROVE  BitSet(Cat(pre, Cat(Bitmap(bits, bytes), rest)), Len(pre), i) <=> i \in bits
<1> DEFINE B == ByteBits
           q == i \div B
           r == i % B
           m == Bitmap(bits, bytes)
           t == Cat(m, rest)
           data == Cat(pre, t)
<1>1. B \in Nat /\ B > 0
  BY ByteAssumption
<1> HIDE DEF B
<1>2. i = B * q + r /\ r \in 0 .. B - 1 /\ q \in Nat
  BY <1>1, Division
<1> HIDE DEF q, r
<1>3. B * q \in Nat /\ B * q = q * B
  BY <1>1, <1>2, Products
<1>4. q < bytes
  <2>1. SUFFICES ASSUME q >= bytes PROVE FALSE
    BY <1>2
  <2>2. bytes * B <= q * B
    <3>1. CASE q = bytes
      BY <1>1, <1>3, <3>1
    <3>2. CASE q # bytes
      <4>1. bytes < q
        BY <1>2, <2>1, <3>2
      <4>2. bytes * B + B <= q * B
        BY <1>1, <1>2, <4>1, Products
      <4>3. bytes * B \in Nat
        BY <1>1, Products
      <4> QED BY <1>1, <1>3, <4>2, <4>3
    <3> QED BY <3>1, <3>2
  <2>3. i < bytes * B /\ bytes * B \in Nat
    BY <1>1, Products DEF B
  <2> QED BY <1>2, <1>3, <2>2, <2>3
<1>5. /\ m \in Str(Nat) /\ Len(m) = bytes
      /\ Digit(m[q + 1], 2, r) = IF ((q + 1) - 1) * B + r \in bits THEN 1 ELSE 0
  <2>1. q + 1 \in 1 .. bytes
    BY <1>2, <1>4
  <2> QED BY <1>2, <2>1, BitmapType DEF B
<1>6. ((q + 1) - 1) * B + r = i
  <2>1. (q + 1) - 1 = q
    BY <1>2
  <2> QED BY <1>2, <1>3, <2>1
<1> HIDE DEF m
<1>7. t \in Str(Nat) /\ Len(t) = Len(m) + Len(rest) /\ Len(rest) \in Nat /\ Len(pre) \in Nat
  BY <1>5, CatType, StrLen
<1>8. \A j \in 1 .. Len(m) : t[j] = m[j]
  BY <1>5, CatElements
<1> HIDE DEF t
<1>9. \A j \in 1 .. Len(t) : data[Len(pre) + j] = t[j]
  BY <1>7, CatSecond
<1> HIDE DEF data
<1>10. data[Len(pre) + q + 1] = m[q + 1]
  <2>1. q + 1 \in 1 .. Len(m) /\ q + 1 \in 1 .. Len(t) /\ Len(pre) + q + 1 = Len(pre) + (q + 1)
    BY <1>2, <1>4, <1>5, <1>7
  <2> QED BY <1>8, <1>9, <2>1
<1>11. BitSet(data, Len(pre), i) <=> Digit(m[q + 1], 2, r) = 1
  BY <1>10 DEF BitSet, q, r, B
<1> QED BY <1>5, <1>6, <1>11 DEF data, t, m

-----------------------------------------------------------------------------
(* Values, as they stand in a row of text. *)
ValueBytes(v) == IF v.null THEN <<NullMark>> ELSE StringBytes(v.val)

LEMMA HeldString ==
    ASSUME NEW v, Holds("string", v)
    PROVE  \/ v = NullValue /\ v.null = TRUE
           \/ v = Val(v.val) /\ v.null = FALSE /\ v.val \in Str(Nat) /\ Len(v.val) < Power(Radix, 8)
<1>1. CASE v = NullValue
  BY <1>1 DEF NullValue
<1>2. CASE v # NullValue
  <2>1. v = Val(v.val) /\ v.val \in Seq(Byte) /\ Len(v.val) < Power(Radix, 8)
    BY <1>2 DEF Holds
  <2>2. v.null = FALSE
    BY <2>1 DEF Val
  <2>3. v.val \in Str(Byte)
    BY <2>1 DEF Str
  <2>4. v.val \in Str(Nat)
    BY <2>3, RadixFacts, StrWider
  <2> QED BY <2>1, <2>2, <2>4
<1> QED BY <1>1, <1>2

LEMMA ValueRead ==
    ASSUME NEW v, Holds("string", v), NEW rest \in Str(Nat)
    PROVE  /\ ValueBytes(v) \in Str(Nat) /\ Len(ValueBytes(v)) > 0
           /\ ValueBytes(v)[1] # iERR
           /\ ValueBytes(v)[1] = iEOF => Len(ValueBytes(v)) > 5
           /\ Field("string", Cat(ValueBytes(v), rest)) = [value |-> v, n |-> Len(ValueBytes(v))]
<1>1. CASE v.null
  <2>1. v = NullValue
    BY <1>1, HeldString
  <2>2. /\ <<NullMark>> \in Str(Nat) /\ Len(<<NullMark>>) = 1 /\ <<NullMark>>[1] = NullMark
        /\ Field("string", Cat(<<NullMark>>, rest)) = [value |-> NullValue, n |-> 1]
    BY NullRead
  <2>3. ValueBytes(v) = <<NullMark>>
    BY <1>1 DEF ValueBytes
  <2>4. NullMark # iERR /\ NullMark # iEOF
    BY Marks
  <2> DEFINE e == <<NullMark>>
  <2> HIDE DEF e
  <2>5. e \in Str(Nat) /\ Len(e) = 1 /\ e[1] = NullMark /\ ValueBytes(v) = e
        /\ Field("string", Cat(e, rest)) = [value |-> NullValue, n |-> 1]
    BY <2>2, <2>3 DEF e
  <2> QED BY <2>1, <2>4, <2>5
<1>2. CASE ~v.null
  <2>1. v = Val(v.val) /\ v.val \in Str(Nat) /\ Len(v.val) < Power(Radix, 8)
    BY <1>2, HeldString
  <2>2. ValueBytes(v) = StringBytes(v.val)
    BY <1>2 DEF ValueBytes
  <2> DEFINE s == v.val
  <2> HIDE DEF s
  <2>3. s \in Str(Nat) /\ Len(s) < Power(Radix, 8) /\ v = Val(s) /\ ValueBytes(v) = StringBytes(s)
    BY <2>1, <2>2 DEF s
  <2>4. /\ StringBytes(s) \in Str(Nat) /\ Len(StringBytes(s)) > 0
        /\ StringBytes(s)[1] # iERR
        /\ StringBytes(s)[1] = iEOF => Len(StringBytes(s)) > 5
        /\ Field("string", Cat(StringBytes(s), rest)) = [value |-> Val(s), n |-> Len(StringBytes(s))]
    BY <2>3, StringRead
  <2> QED BY <2>3, <2>4
<1> QED BY <1>1, <1>2

(* The first element of what is joined. *)
LEMMA FlatHead ==
    ASSUME NEW S, NEW q \in Str(Str(S)), Len(q) > 0, Len(q[1]) > 0
    PROVE  /\ FlattenSeq(q) \in Str(S)
           /\ Len(FlattenSeq(q)) >= Len(q[1]) /\ FlattenSeq(q)[1] = q[1][1]
<1>1. Len(q) \in Nat /\ 0 < Len(q) /\ 0 + 1 = 1
  BY StrLen
<1>2. q[1] \in Str(S)
  BY <1>1, StrLen
<1> DEFINE r == From(q, 1)
           t == FlattenSeq(r)
           h == q[1]
           f == FlattenSeq(q)
<1>3. r \in Str(Str(S))
  BY <1>1, PartFrom
<1> HIDE DEF r
<1>4. t \in Str(S)
  BY <1>3, FlatType
<1>5. f = Cat(h, t)
  <2>1. FlattenSeq(From(q, 0)) = Cat(q[0 + 1], FlattenSeq(From(q, 0 + 1)))
    BY <1>1, FlatNext
  <2>2. From(q, 0) = q
    BY FromAll
  <2> QED BY <1>1, <2>1, <2>2 DEF r
<1> HIDE DEF t, h
<1>6. h \in Str(S) /\ Len(h) > 0 /\ Len(h) \in Nat
  BY <1>2, StrLen DEF h
<1>7. f \in Str(S) /\ Len(f) = Len(h) + Len(t) /\ Len(t) \in Nat
  <2> HIDE DEF f
  <2>1. Cat(h, t) \in Str(S) /\ Len(Cat(h, t)) = Len(h) + Len(t)
    BY <1>4, <1>6, CatType
  <2> QED BY <1>4, <1>5, <2>1, StrLen
<1>8. \A i \in 1 .. Len(h) : Cat(h, t)[i] = h[i]
  BY <1>4, <1>6, CatElements
<1>9. f[1] = h[1]
  <2> HIDE DEF f
  <2> QED BY <1>5, <1>6, <1>8
<1> HIDE DEF f
<1> QED BY <1>6, <1>7, <1>9 DEF f, h

LEMMA NoEndOfRows ==
    ASSUME NEW q \in Str(Str(Nat)), Len(q) > 0, Len(q[1]) > 0, q[1][1] # iERR,
           q[1][1] = iEOF => Len(q[1]) > 5
    PROVE  LET f == FlattenSeq(q)
           IN  f \in Str(Nat) /\ Len(f) > 0 /\ f[1] # iERR /\ (f[1] = iEOF => Len(f) > 5)
<1> DEFINE f == FlattenSeq(q)
           e == q[1]
<1>1. f \in Str(Nat) /\ Len(f) >= Len(e) /\ f[1] = e[1]
  BY FlatHead
<1>2. Len(f) \in Nat
  <2> HIDE DEF f
  <2> QED BY <1>1, StrLen
<1>3. Len(e) \in Nat
  <2>1. q[1] \in Str(Nat)
    BY StrLen
  <2> QED BY <2>1, StrLen
<1>4. Len(e) > 0 /\ e[1] # iERR /\ (e[1] = iEOF => Len(e) > 5)
  OBVIOUS
<1> HIDE DEF f, e
<1>5. Len(f) > 0
  BY <1>1, <1>2, <1>3, <1>4
<1>6. ASSUME f[1] = iEOF PROVE Len(f) > 5
  BY <1>1, <1>2, <1>3, <1>4, <1>6
<1> QED BY <1>1, <1>4, <1>5, <1>6 DEF f

(* A row of text is read as it was written, and taken neither for the end of
   the rows nor for an error: readRow of textRows gives back every row. *)
THEOREM TextRoundTrip ==
    ASSUME NEW S, NEW row \in Seq(S), NEW types, Len(types) = Len(row), row # <<>>,
           \A i \in 1 .. Len(row) : Holds("string", row[i])
    PROVE  /\ TextRow(EncodedText(row), types) = row
           /\ EncodedText(row) \in Str(Nat) /\ Len(EncodedText(row)) > 0
           /\ EncodedText(row)[1] # iERR
           /\ EncodedText(row)[1] = iEOF => Len(EncodedText(row)) > 5
<1> DEFINE n == Len(types)
           enc == [i \in 1 .. n |-> ValueBytes(row[i])]
           strings == [i \in 1 .. n |-> "string"]
           pre == <<>>
<1>1. n \in Nat /\ n > 0 /\ DOMAIN row = 1 .. n /\ row = [i \in 1 .. n |-> row[i]]
  OBVIOUS
<1>2. n = Len(row) /\ n = Len(types)
  OBVIOUS
<1> HIDE DEF n
<1>20. EncodedText(row) = FlattenSeq(enc)
  BY <1>1 DEF EncodedText, ValueBytes, StringBytes
<1>3. \A i \in 1 .. n :
         /\ enc[i] \in Str(Nat) /\ Len(enc[i]) > 0 /\ enc[i][1] # iERR
         /\ enc[i][1] = iEOF => Len(enc[i]) > 5
  BY <1>2, ValueRead, StrEmpty
<1>4. \A i \in 1 .. n : \A rest \in Str(Nat) :
         Field(strings[i], Cat(enc[i], rest)) = [value |-> row[i], n |-> Len(enc[i])]
  BY <1>2, ValueRead
<1>5. enc \in Str(Str(Nat)) /\ Len(enc) = n /\ Len(strings) = n
  BY <1>1, <1>3, StrOf
<1> HIDE DEF enc, strings
<1>6. pre \in Str(Nat) /\ Len(pre) = 0
  BY StrEmpty
<1>7. FlattenSeq(enc) \in Str(Nat) /\ Cat(pre, FlattenSeq(enc)) = FlattenSeq(enc)
  BY <1>5, FlatType, CatEmpty
<1> HIDE DEF pre
<1>8. Fields(Cat(pre, FlattenSeq(enc)), Len(pre), strings) = row
  <2>1. Reads(strings, enc, row)
    BY <1>1, <1>4, <1>5 DEF Reads
  <2> QED BY <1>5, <1>6, <2>1, FieldsRead
<1>9. TextRow(EncodedText(row), types) = row
  <2>1. Fields(EncodedText(row), 0, strings) = row
    BY <1>1, <1>20, <1>5, <1>6, <1>7, <1>8
  <2> QED BY <1>2, <2>1 DEF TextRow, strings
<1>10. Len(enc) > 0 /\ Len(enc[1]) > 0 /\ enc[1][1] # iERR /\ (enc[1][1] = iEOF => Len(enc[1]) > 5)
  BY <1>1, <1>3, <1>5
<1> DEFINE f == FlattenSeq(enc)
<1>13. f \in Str(Nat) /\ Len(f) > 0 /\ f[1] # iERR /\ (f[1] = iEOF => Len(f) > 5)
  BY <1>5, <1>10, NoEndOfRows
<1> QED BY <1>20, <1>9, <1>13

(* Values, as they stand in a binary row. *)
FieldBytes(type, v) ==
    IF v.null THEN <<>>
    ELSE IF type = "string" THEN StringBytes(v.val)
    ELSE EncodedNumber(v.val[1], Widths[type])

LEMMA FieldRead ==
    ASSUME NEW type \in Types, NEW v, Holds(type, v), NEW rest \in Str(Nat)
    PROVE  /\ v.null \in BOOLEAN
           /\ FieldBytes(type, v) \in Str(Nat)
           /\ Field(IF v.null THEN "none" ELSE type, Cat(FieldBytes(type, v), rest))
                = [value |-> v, n |-> Len(FieldBytes(type, v))]
<1>1. CASE v = NullValue
  <2>1. v.null = TRUE
    BY <1>1 DEF NullValue
  <2>2. FieldBytes(type, v) = <<>>
    BY <2>1 DEF FieldBytes
  <2> DEFINE e == <<>>
  <2>3. e \in Str(Nat) /\ Field("none", Cat(e, rest)) = [value |-> NullValue, n |-> Len(e)]
    BY NoneRead, StrEmpty
  <2> HIDE DEF e
  <2>4. FieldBytes(type, v) = e
    BY <2>2 DEF e
  <2> QED BY <1>1, <2>1, <2>3, <2>4
<1>2. CASE v # NullValue /\ type = "string"
  <2>1. v = Val(v.val) /\ v.null = FALSE /\ v.val \in Str(Nat) /\ Len(v.val) < Power(Radix, 8)
    BY <1>2, HeldString
  <2>2. FieldBytes(type, v) = StringBytes(v.val)
    BY <1>2, <2>1 DEF FieldBytes
  <2> DEFINE s == v.val
  <2> HIDE DEF s
  <2>3. s \in Str(Nat) /\ Len(s) < Power(Radix, 8) /\ v = Val(s) /\ FieldBytes(type, v) = StringBytes(s)
    BY <2>1, <2>2 DEF s
  <2>4. /\ StringBytes(s) \in Str(Nat)
        /\ Field("string", Cat(StringBytes(s), rest)) = [value |-> Val(s), n |-> Len(StringBytes(s))]
    BY <2>3, StringRead
  <2> QED BY <1>2, <2>1, <2>3, <2>4
<1>3. CASE v # NullValue /\ type # "string"
  <2>1. type \in DOMAIN Widths
    BY <1>3 DEF Types
  <2>2. v = Val(v.val) /\ v.val \in {<<n>> : n \in Numbers(type)}
    BY <1>3 DEF Holds
  <2>3. PICK n \in Numbers(type) : v.val = <<n>>
    BY <2>2
  <2>4. v.null = FALSE /\ v = Val(<<n>>) /\ v.val[1] = n
    BY <2>2, <2>3 DEF Val
  <2> DEFINE e == EncodedNumber(n, Widths[type])
  <2>5. e \in Str(Nat) /\ Field(type, Cat(e, rest)) = [value |-> Val(<<n>>), n |-> Len(e)]
    BY <2>1, NumberRead
  <2>6. FieldBytes(type, v) = e
    BY <1>3, <2>4 DEF FieldBytes
  <2> HIDE DEF e
  <2> QED BY <2>4, <2>5, <2>6
<1> QED BY <1>1, <1>2, <1>3

(* A bitmap of so many bytes has room for so many bits. *)
LEMMA Room ==
    ASSUME NEW n \in Nat
    PROVE  (n + ByteBits - 1) \div ByteBits \in Nat
           /\ n <= ((n + ByteBits - 1) \div ByteBits) * ByteBits
<1> DEFINE B == ByteBits
           x == n + B - 1
           q == x \div B
<1>1. B \in Nat /\ B > 0
  BY ByteAssumption
<1> HIDE DEF B
<1>2. x \in Nat /\ x = n + B - 1
  BY <1>1
<1> HIDE DEF x
<1>3. x = B * q + (x % B) /\ (x % B) \in 0 .. B - 1 /\ q \in Nat
  BY <1>1, <1>2, Division
<1> HIDE DEF q
<1>4. B * q \in Nat /\ B * q = q * B
  BY <1>1, <1>3, Products
<1>5. n <= q * B
  BY <1>1, <1>2, <1>3, <1>4
<1> QED BY <1>3, <1>5 DEF q, x, B

(* A binary row is read as it was written: readRow of binaryRows gives back
   every row of values that fit its columns, and takes it for a row. *)
THEOREM BinaryRoundTrip ==
    ASSUME NEW S, NEW row \in Seq(S), NEW types \in Seq(Types), Len(types) = Len(row),
           \A i \in 1 .. Len(row) : Holds(types[i], row[i])
    PROVE  /\ BinaryRow(EncodedBinary(row, types), types) = row
           /\ EncodedBinary(row, types) \in Str(Nat) /\ Len(EncodedBinary(row, types)) > 0
           /\ EncodedBinary(row, types)[1] = iOK
<1> DEFINE n == Len(row)
           bytes == (n + ByteBits + 1) \div ByteBits
           nulls == {i + 1 : i \in {j \in 1 .. n : row[j].null}}
           enc == [i \in 1 .. n |-> FieldBytes(types[i], row[i])]
           kinds == [i \in 1 .. n |-> IF row[i].null THEN "none" ELSE types[i]]
           flat == FlattenSeq(enc)
           map == Bitmap(nulls, bytes)
           ok == <<iOK>>
           pre == Cat(ok, map)
           data == Cat(pre, flat)
<1>1. n \in Nat /\ DOMAIN row = 1 .. n /\ row = [i \in 1 .. n |-> row[i]] /\ Len(types) = n
      /\ \A i \in 1 .. n : types[i] \in Types /\ Holds(types[i], row[i])
  OBVIOUS
<1> HIDE DEF n
<1>2. bytes \in Nat /\ n + 2 <= bytes * ByteBits /\ (Len(types) + ByteBits - 1 + 2) \div ByteBits = bytes
  <2>1. n + 2 \in Nat
    BY <1>1
  <2>2. (n + 2) + ByteBits - 1 = n + ByteBits + 1 /\ Len(types) + ByteBits - 1 + 2 = n + ByteBits + 1
    BY <1>1, ByteAssumption
  <2>3. /\ ((n + 2) + ByteBits - 1) \div ByteBits \in Nat
        /\ n + 2 <= (((n + 2) + ByteBits - 1) \div ByteBits) * ByteBits
    BY <2>1, Room
  <2> QED BY <2>2, <2>3
<1>3. \A i \in 1 .. n : enc[i] \in Str(Nat)
  BY <1>1, FieldRead, StrEmpty
<1>4. \A i \in 1 .. n : \A rest \in Str(Nat) :
         Field(kinds[i], Cat(enc[i], rest)) = [value |-> row[i], n |-> Len(enc[i])]
  BY <1>1, FieldRead
<1>5. enc \in Str(Str(Nat)) /\ Len(enc) = n /\ Len(kinds) = n
  BY <1>1, <1>3, StrOf
<1>6. EncodedBinary(row, types) = Cat(Cat(ok, map), flat)
  BY <1>1 DEF EncodedBinary, FieldBytes, StringBytes, Cat, n
<1>7. Reads(kinds, enc, row)
  <2> HIDE DEF enc, kinds
  <2> QED BY <1>1, <1>4, <1>5 DEF Reads
<1>8. \A i \in 1 .. n : i + 1 \in nulls <=> row[i].null
  <2>1. ASSUME NEW i \in 1 .. n, i + 1 \in nulls PROVE row[i].null
    <3>1. PICK j \in 1 .. n : row[j].null /\ i + 1 = j + 1
      BY <2>1
    <3>2. i = j
      BY <3>1
    <3> QED BY <3>1, <3>2
  <2> QED BY <2>1
<1> HIDE DEF bytes, nulls
<1>9. map \in Str(Nat) /\ Len(map) = bytes
  BY <1>2, BitmapType
<1>10. ok \in Str(Nat) /\ Len(ok) = 1 /\ ok[1] = iOK
  BY StrOne, RadixFacts
<1> HIDE DEF enc
<1>11. flat \in Str(Nat)
  BY <1>5, FlatType
<1> HIDE DEF flat, ok
<1>12. \A i \in 1 .. n : BitSet(Cat(ok, Cat(map, flat)), 1, i + 1) <=> i + 1 \in nulls
  <2>1. ASSUME NEW i \in 1 .. n PROVE BitSet(Cat(ok, Cat(map, flat)), Len(ok), i + 1) <=> i + 1 \in nulls
    <3> DEFINE k == i + 1
    <3>1. bytes * ByteBits \in Nat
      BY <1>2, ByteAssumption, Products
    <3>2. k \in Nat /\ k < bytes * ByteBits
      BY <1>1, <1>2, <3>1
    <3> HIDE DEF k
    <3>3. BitSet(Cat(ok, Cat(map, flat)), Len(ok), k) <=> k \in nulls
      BY <1>2, <1>10, <1>11, <3>2, BitmapRead
    <3> QED BY <3>3 DEF k
  <2> QED BY <1>10, <2>1
<1> HIDE DEF map
<1>13. data = Cat(ok, Cat(map, flat))
  BY <1>9, <1>10, <1>11, CatAssociative
<1>14. pre \in Str(Nat) /\ Len(pre) = 1 + bytes /\ pre[1] = iOK
  <2>1. pre \in Str(Nat) /\ Len(pre) = Len(ok) + Len(map)
    BY <1>9, <1>10, CatType
  <2>2. \A i \in 1 .. Len(ok) : pre[i] = ok[i]
    BY <1>9, <1>10, CatElements
  <2> QED BY <1>2, <1>9, <1>10, <2>1, <2>2
<1> HIDE DEF pre
<1>15. data \in Str(Nat) /\ Len(data) = Len(pre) + Len(flat) /\ Len(flat) \in Nat
  BY <1>11, <1>14, CatType, StrLen
<1>16. \A i \in 1 .. Len(pre) : data[i] = pre[i]
  BY <1>11, <1>14, CatElements
<1>17. Fields(data, Len(pre), kinds) = row
  <2> HIDE DEF kinds
  <2> QED BY <1>5, <1>7, <1>14, FieldsRead DEF flat
<1> HIDE DEF data
<1>18. [i \in 1 .. Len(types) |-> IF BitSet(data, 1, i + 1) THEN "none" ELSE types[i]] = kinds
  <2>1. \A i \in 1 .. n : (IF BitSet(data, 1, i + 1) THEN "none" ELSE types[i])
                           = (IF row[i].null THEN "none" ELSE types[i])
    BY <1>8, <1>12, <1>13
  <2> QED BY <1>1, <2>1
<1> HIDE DEF kinds
<1>19. BinaryRow(data, types) = row
  BY <1>2, <1>14, <1>17, <1>18 DEF BinaryRow
<1>20. Len(data) > 0 /\ data[1] = iOK
  BY <1>2, <1>14, <1>15, <1>16
<1> QED BY <1>6, <1>15, <1>19, <1>20 DEF data, pre

(* The parameters are read as they were written, and those that were sent
   ahead are put in their places: the two sides agree on every bit of the
   bitmap and on where each value starts. *)
THEOREM ParametersRoundTrip ==
    ASSUME NEW S, NEW args \in Seq(S), \A i \in 1 .. Len(args) : Holds("string", args[i]),
           NEW ahead, NEW long,
           \A i \in 1 .. Len(args) :
              /\ i \in ahead => ~args[i].null /\ args[i].val # <<>>
              /\ long[i] = IF i \in ahead THEN args[i].val ELSE <<>>
    PROVE  /\ BoundParameters(Parameters(args, ahead), Len(args), long) = args
           /\ Parameters(args, ahead) \in Str(Nat)
<1> DEFINE n == Len(args)
           bytes == (n + ByteBits - 1) \div ByteBits
           nulls == {i - 1 : i \in {j \in 1 .. n : args[j].null}}
           enc == [i \in 1 .. n |-> IF args[i].null \/ i \in ahead THEN <<>> ELSE StringBytes(args[i].val)]
           kinds == [i \in 1 .. n |-> IF args[i].null \/ i \in ahead THEN "none" ELSE "string"]
           vals == [i \in 1 .. n |-> IF args[i].null \/ i \in ahead THEN NullValue ELSE args[i]]
           tys == [i \in 1 .. n |-> IF args[i].null THEN TypeNULL ELSE TypeString]
           flat == FlattenSeq(enc)
           map == Bitmap(nulls, bytes)
           one == <<1>>
           rest == Cat(one, Cat(tys, flat))
           pre == Cat(Cat(map, one), tys)
           data == Cat(pre, flat)
           empty == <<>>
<1>1. n \in Nat /\ DOMAIN args = 1 .. n /\ args = [i \in 1 .. n |-> args[i]]
      /\ \A i \in 1 .. n : Holds("string", args[i])
  OBVIOUS
<1>2. \A i \in 1 .. n :
         /\ i \in ahead => ~args[i].null /\ args[i].val # <<>>
         /\ long[i] = IF i \in ahead THEN args[i].val ELSE <<>>
  OBVIOUS
<1>0. args = <<>> <=> n = 0
  OBVIOUS
<1> HIDE DEF n
<1>3. bytes \in Nat /\ n <= bytes * ByteBits /\ MaskLen(args) = bytes
  BY <1>1, Room DEF MaskLen, n
<1>4. ASSUME NEW i \in 1 .. n
      PROVE  /\ args[i].null \in BOOLEAN /\ (args[i].null => args[i] = NullValue)
             /\ ~args[i].null => args[i] = Val(args[i].val)
             /\ enc[i] \in Str(Nat)
             /\ \A r \in Str(Nat) : Field(kinds[i], Cat(enc[i], r)) = [value |-> vals[i], n |-> Len(enc[i])]
  <2>1. \/ args[i] = NullValue /\ args[i].null = TRUE
        \/ args[i] = Val(args[i].val) /\ args[i].null = FALSE
    BY <1>1, HeldString
  <2>2. CASE args[i].null \/ i \in ahead
    <3>1. enc[i] = empty /\ kinds[i] = "none" /\ vals[i] = NullValue
      BY <2>2
    <3>2. empty \in Str(Nat) /\ \A r \in Str(Nat) : Field("none", Cat(empty, r)) = [value |-> NullValue, n |-> Len(empty)]
      BY NoneRead, StrEmpty
    <3> HIDE DEF enc, kinds, vals, empty
    <3> QED BY <2>1, <3>1, <3>2
  <2>3. CASE ~(args[i].null \/ i \in ahead)
    <3> DEFINE v == args[i]
    <3>1. enc[i] = ValueBytes(v) /\ kinds[i] = "string" /\ vals[i] = v /\ Holds("string", v)
      BY <1>1, <2>3 DEF ValueBytes
    <3> HIDE DEF enc, kinds, vals, v
    <3>2. \A r \in Str(Nat) :
             /\ ValueBytes(v) \in Str(Nat)
             /\ Field("string", Cat(ValueBytes(v), r)) = [value |-> v, n |-> Len(ValueBytes(v))]
      BY <3>1, ValueRead
    <3>3. ValueBytes(v) \in Str(Nat)
      BY <3>2, StrEmpty
    <3> QED BY <2>1, <3>1, <3>2, <3>3
  <2> QED BY <2>2, <2>3
<1>5. enc \in Str(Str(Nat)) /\ Len(enc) = n /\ Len(kinds) = n
  <2>1. \A i \in 1 .. n : enc[i] \in Str(Nat)
    BY <1>4
  <2> DEFINE e(i) == IF args[i].null \/ i \in ahead THEN <<>> ELSE StringBytes(args[i].val)
  <2>2. enc = [i \in 1 .. n |-> e(i)]
    OBVIOUS
  <2>3. \A i \in 1 .. n : e(i) \in Str(Nat)
    BY <2>1
  <2>4. Len(kinds) = n
    BY <1>1
  <2> HIDE DEF e, kinds, enc
  <2> QED BY <1>1, <2>2, <2>3, <2>4 DEF Str
<1>6. Reads(kinds, enc, vals)
  <2>1. vals = [i \in 1 .. n |-> vals[i]]
    OBVIOUS
  <2> HIDE DEF enc, kinds, vals
  <2> QED BY <1>1, <1>4, <1>5, <2>1 DEF Reads
<1>7. tys \in Str(Nat) /\ Len(tys) = n
  BY <1>1 DEF Str, TypeNULL, TypeString
<1>8. \A i \in 1 .. n : i - 1 \in nulls <=> args[i].null
  <2>1. ASSUME NEW i \in 1 .. n, i - 1 \in nulls PROVE args[i].null
    <3>1. PICK j \in 1 .. n : args[j].null /\ i - 1 = j - 1
      BY <2>1
    <3>2. i = j
      BY <3>1
    <3> QED BY <3>1, <3>2
  <2> QED BY <2>1
<1>9. args # <<>> => Parameters(args, ahead) = Cat(Cat(Cat(map, one), tys), flat)
  BY <1>1, <1>3 DEF Parameters, StringBytes, Cat
<1> HIDE DEF bytes, nulls, tys
<1>10. map \in Str(Nat) /\ Len(map) = bytes
  BY <1>3, BitmapType
<1>11. one \in Str(Nat) /\ Len(one) = 1
  BY StrOne
<1> HIDE DEF enc, map, one
<1>12. flat \in Str(Nat)
  BY <1>5, FlatType
<1> HIDE DEF flat
<1>13. Cat(tys, flat) \in Str(Nat)
  BY <1>7, <1>12, CatType
<1>14. rest \in Str(Nat)
  BY <1>11, <1>13, CatType
<1>15. Cat(map, one) \in Str(Nat) /\ Len(Cat(map, one)) = bytes + 1
  BY <1>10, <1>11, CatType
<1>16. pre \in Str(Nat) /\ Len(pre) = bytes + 1 + n
  <2> DEFINE m == Cat(map, one)
  <2> HIDE DEF m
  <2>1. m \in Str(Nat) /\ Len(m) = bytes + 1
    BY <1>15 DEF m
  <2>2. Cat(m, tys) \in Str(Nat) /\ Len(Cat(m, tys)) = Len(m) + Len(tys)
    BY <1>7, <2>1, CatType
  <2> QED BY <1>7, <2>1, <2>2 DEF m
<1>17. data = Cat(map, rest)
  <2> DEFINE m == Cat(map, one)
             t == Cat(tys, flat)
  <2>1. Cat(m, t) = Cat(Cat(m, tys), flat)
    BY <1>7, <1>12, <1>15, CatAssociative
  <2>2. Cat(map, Cat(one, t)) = Cat(m, t)
    BY <1>10, <1>11, <1>13, CatAssociative
  <2> HIDE DEF m
  <2> QED BY <2>1, <2>2 DEF m
<1>18. empty \in Str(Nat) /\ Len(empty) = 0 /\ Cat(empty, Cat(map, rest)) = Cat(map, rest)
  <2>1. Cat(map, rest) \in Str(Nat)
    BY <1>10, <1>14, CatType
  <2> QED BY <2>1, StrEmpty, CatEmpty
<1> HIDE DEF rest, pre, empty
<1>19. data \in Str(Nat)
  BY <1>12, <1>16, CatType
<1>20. Fields(data, Len(pre), kinds) = vals
  <2> HIDE DEF kinds, vals
  <2> QED BY <1>5, <1>6, <1>16, FieldsRead DEF flat
<1> HIDE DEF data
<1>21. \A i \in 1 .. n : BitSet(data, 0, i - 1) <=> args[i].null
  <2>1. ASSUME NEW i \in 1 .. n PROVE BitSet(data, 0, i - 1) <=> i - 1 \in nulls
    <3> DEFINE k == i - 1
    <3>1. bytes * ByteBits \in Nat
      BY <1>3, ByteAssumption, Products
    <3>2. k \in Nat /\ k < bytes * ByteBits
      BY <1>1, <1>3, <3>1
    <3> HIDE DEF k
    <3>3. BitSet(Cat(empty, Cat(map, rest)), Len(empty), k) <=> k \in nulls
      BY <1>3, <1>14, <1>18, <3>2, BitmapRead DEF map
    <3> QED BY <1>17, <1>18, <3>3 DEF k
  <2> QED BY <1>8, <2>1
<1>22. [i \in 1 .. n |-> IF BitSet(data, 0, i - 1) \/ long[i] # <<>> THEN "none" ELSE "string"] = kinds
  BY <1>2, <1>4, <1>21
<1>23. (n + ByteBits - 1) \div ByteBits + 1 + n = Len(pre)
  BY <1>16 DEF bytes
<1>24. BoundParameters(data, n, long)
         = [i \in 1 .. n |-> IF BitSet(data, 0, i - 1) \/ long[i] = <<>> THEN vals[i] ELSE Val(long[i])]
  <2> HIDE DEF kinds, vals
  <2> QED BY <1>20, <1>22, <1>23 DEF BoundParameters
<1>25. ASSUME NEW i \in 1 .. n
       PROVE  (IF BitSet(data, 0, i - 1) \/ long[i] = <<>> THEN vals[i] ELSE Val(long[i])) = args[i]
  <2>1. CASE args[i].null
    BY <1>4, <1>21, <2>1
  <2>2. CASE ~args[i].null /\ i \in ahead
    BY <1>2, <1>4, <1>21, <2>2
  <2>3. CASE ~args[i].null /\ i \notin ahead
    BY <1>2, <1>4, <1>21, <2>3
  <2> QED BY <2>1, <2>2, <2>3
<1>26. BoundParameters(data, n, long) = args
  <2> HIDE DEF vals
  <2> QED BY <1>1, <1>24, <1>25
<1>27. CASE args # <<>>
  <2>1. Parameters(args, ahead) = data
    BY <1>9, <1>27 DEF data, pre
  <2> QED BY <1>19, <1>26, <2>1 DEF n
<1>28. CASE args = <<>>
  <2>1. Parameters(args, ahead) = <<>> /\ n = 0
    BY <1>0, <1>28 DEF Parameters
  <2>2. BoundParameters(<<>>, 0, long) = <<>>
    BY DEF BoundParameters
  <2> QED BY <1>28, <2>1, <2>2, StrEmpty DEF n
<1> QED BY <1>27, <1>28
=============================================================================
