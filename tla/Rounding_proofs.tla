--------------------------- MODULE Rounding_proofs --------------------------
(***************************************************************************)
(* Proofs about Rounding for every window size and every whole minimum,    *)
(* and about the arithmetic of Float64 it rests on.                        *)
(***************************************************************************)
EXTENDS Rounding, WellFoundedInduction, TLAPS

-----------------------------------------------------------------------------
(* Quotients and remainders.                                               *)

LEMMA Division ==
    ASSUME NEW n \in Nat, NEW d \in Nat \ {0}
    PROVE  /\ n \div d \in Nat /\ n % d \in 0..(d - 1)
           /\ n = d * (n \div d) + (n % d)
  BY Z3

\* There is one way to write n as a multiple of d and a rest below d.
LEMMA DivisionUnique ==
    ASSUME NEW d \in Nat \ {0}, NEW f \in Nat, NEW r \in 0..(d - 1), NEW n,
           n = d * f + r
    PROVE  n \div d = f /\ n % d = r
  <1>1. n \in Nat
    BY Z3
  <1> DEFINE g == n \div d
             t == n % d
  <1>2. g \in Nat /\ t \in 0..(d - 1) /\ n = d * g + t
    BY <1>1, Division
  <1> HIDE DEF g, t
  <1>3. ASSUME NEW x \in Nat, NEW y \in Nat, x < y
        PROVE  d * x + d <= d * y
    <2>1. d * (x + 1) <= d * y
      BY <1>3, Z3
    <2> QED BY <2>1, Z3
  <1>4. g = f
    BY <1>2, <1>3
  <1>5. t = r
    BY <1>2, <1>4
  <1> QED BY <1>4, <1>5 DEF g, t

\* The whole part of the percentage.
LEMMA WholePart ==
    ASSUME NEW l \in Nat \ {0}, NEW s \in 0..l
    PROVE  /\ (100 * s) \div l \in 0..100
           /\ l * ((100 * s) \div l) <= 100 * s
           /\ 100 * s < l * ((100 * s) \div l + 1)
           /\ (100 * s) % l = 0 <=> 100 * s = l * ((100 * s) \div l)
  <1> DEFINE m == (100 * s) \div l
             r == (100 * s) % l
  <1>1. m \in Nat /\ r \in 0..(l - 1) /\ 100 * s = l * m + r
    <2>1. 100 * s \in Nat
      OBVIOUS
    <2> QED BY <2>1, Division
  <1> HIDE DEF m, r
  <1>2. l * (m + 1) = l * m + l
    BY <1>1
  <1>3. m <= 100
    <2> SUFFICES ASSUME m >= 101 PROVE FALSE
      BY <1>1
    <2>1. l * m >= l * 101
      BY <1>1, Z3
    <2> QED BY <1>1, <2>1
  <1> QED BY <1>1, <1>2, <1>3 DEF m, r

\* Percent64 is the whole part, or one less when that is exact.
LEMMA PercentRange ==
    ASSUME NEW l \in Nat \ {0}, NEW s \in 0..l
    PROVE  LET m == (100 * s) \div l
           IN  /\ Percent64(s, l) \in {m, m - 1}
               /\ Percent64(s, l) # m => s > 0 /\ 100 * s = l * m
  BY WholePart DEF Percent64

\* More successes out of as many results never make a smaller percentage:
\* what AlertMachine assumes of Percent (its PercentAssumption) holds of the
\* arithmetic of window.go Availability for windows of every size.
THEOREM PercentMonotone ==
    ASSUME NEW l \in Nat \ {0}, NEW s \in 0..l, NEW r \in 0..s
    PROVE  Percent64(s, l) \in Int /\ Percent64(r, l) <= Percent64(s, l)
  <1> DEFINE m == (100 * s) \div l
             k == (100 * r) \div l
  <1>1. r \in 0..l
    OBVIOUS
  <1>2. /\ m \in Int /\ l * m <= 100 * s /\ 100 * s < l * (m + 1)
        /\ Percent64(s, l) \in {m, m - 1}
        /\ Percent64(s, l) # m => 100 * s = l * m
    BY WholePart, PercentRange
  <1>3. k \in Int /\ l * k <= 100 * r /\ Percent64(r, l) \in {k, k - 1}
    BY <1>1, WholePart, PercentRange
  <1> HIDE DEF m, k
  <1>4. CASE r = s
    BY <1>2, <1>4
  <1>5. CASE r < s
    <2>1. 100 * r < 100 * s
      BY <1>5
    <2>2. l * k < l * (m + 1)
      BY <1>2, <1>3, <2>1
    <2>3. k < m + 1
      BY <1>2, <1>3, <2>2
    <2>4. CASE Percent64(s, l) = m
      BY <1>2, <1>3, <2>3, <2>4
    <2>5. CASE Percent64(s, l) # m
      <3>1. l * k < l * m
        BY <1>2, <1>3, <2>1, <2>5
      <3>2. k < m
        BY <1>2, <1>3, <3>1
      <3> QED BY <1>2, <1>3, <2>5, <3>2
    <2> QED BY <2>4, <2>5
  <1> QED BY <1>4, <1>5

-----------------------------------------------------------------------------
(* Powers of two.                                                          *)

\* A set of natural numbers has a least element.
LEMMA Least ==
    ASSUME NEW T, T \subseteq Nat, T # {}
    PROVE  \E x \in T : \A y \in T : x <= y
  <1> DEFINE Below == {ss \in Nat \X Nat : ss[1] < ss[2]}
  <1>1. IsWellFoundedOn(Below, Nat)
    BY NatLessThanWellFounded, Zenon DEF OpToRel
  <1>2. \A x, y \in Nat : <<y, x>> \in Below <=> y < x
    OBVIOUS
  <1> HIDE DEF Below
  <1>3. PICK x \in T : \A y \in T : ~(<<y, x>> \in Below)
    BY <1>1, WFMin
  <1>4. x \in Nat /\ \A y \in T : y \in Nat /\ ~(y < x)
    BY <1>2, <1>3
  <1> QED BY <1>4

\* What holds of k and passes on from n to n + 1 holds of all of k..m.
LEMMA FromTo ==
    ASSUME NEW k \in Nat, NEW m \in Nat, NEW S, k \in S,
           \A n \in k..m : n \in S /\ n < m => n + 1 \in S
    PROVE  \A n \in k..m : n \in S
  <1> DEFINE T == {n \in k..m : n \notin S}
  <1> SUFFICES ASSUME T # {} PROVE FALSE
    OBVIOUS
  <1>1. T \subseteq Nat
    OBVIOUS
  <1> HIDE DEF T
  <1>2. PICK x \in T : \A y \in T : x <= y
    BY <1>1, Least
  <1>3. x \in k..m /\ x \notin S /\ x # k
    BY <1>2 DEF T
  <1>4. x - 1 \in k..m /\ x - 1 < m /\ x - 1 \notin T /\ (x - 1) + 1 = x
    BY <1>1, <1>2, <1>3
  <1> QED BY <1>3, <1>4 DEF T

LEMMA NextPower == \A n, k \in 0..30 : k = n + 1 => 2^k = 2 * 2^n
  <1> SUFFICES ASSUME NEW n \in 0..30, NEW k \in 0..30, k = n + 1
               PROVE  2^k = 2 * 2^n
    OBVIOUS
  <1>1. n \in 0..29
    OBVIOUS
  <1>2. 2^(n + 1) = 2 * 2^n
    BY <1>1, Doubling
  <1> QED BY <1>2

\* The powers of two that occur by name.
LEMMA Powers ==
    /\ 2^0 = 1 /\ 2^1 = 2 /\ 2^2 = 4 /\ 2^3 = 8 /\ 2^4 = 16 /\ 2^5 = 32
    /\ 2^6 = 64 /\ 2^7 = 128 /\ 2^26 = 67108864 /\ 2^30 = 1073741824
  <1>1. 2^1 = 2
    BY Doubling, NextPower
  <1>2. 2^2 = 4
    BY <1>1, NextPower
  <1>3. 2^3 = 8
    BY <1>2, NextPower
  <1>4. 2^4 = 16
    BY <1>3, NextPower
  <1>5. 2^5 = 32
    BY <1>4, NextPower
  <1>6. 2^6 = 64
    BY <1>5, NextPower
  <1>7. 2^7 = 128
    BY <1>6, NextPower
  <1>8. 2^8 = 256
    BY <1>7, NextPower
  <1>9. 2^9 = 512
    BY <1>8, NextPower
  <1>10. 2^10 = 1024
    BY <1>9, NextPower
  <1>11. 2^11 = 2048
    BY <1>10, NextPower
  <1>12. 2^12 = 4096
    BY <1>11, NextPower
  <1>13. 2^13 = 8192
    BY <1>12, NextPower
  <1>14. 2^14 = 16384
    BY <1>13, NextPower
  <1>15. 2^15 = 32768
    BY <1>14, NextPower
  <1>16. 2^16 = 65536
    BY <1>15, NextPower
  <1>17. 2^17 = 131072
    BY <1>16, NextPower
  <1>18. 2^18 = 262144
    BY <1>17, NextPower
  <1>19. 2^19 = 524288
    BY <1>18, NextPower
  <1>20. 2^20 = 1048576
    BY <1>19, NextPower
  <1>21. 2^21 = 2097152
    BY <1>20, NextPower
  <1>22. 2^22 = 4194304
    BY <1>21, NextPower
  <1>23. 2^23 = 8388608
    BY <1>22, NextPower
  <1>24. 2^24 = 16777216
    BY <1>23, NextPower
  <1>25. 2^25 = 33554432
    BY <1>24, NextPower
  <1>26. 2^26 = 67108864
    BY <1>25, NextPower
  <1>27. 2^27 = 134217728
    BY <1>26, NextPower
  <1>28. 2^28 = 268435456
    BY <1>27, NextPower
  <1>29. 2^29 = 536870912
    BY <1>28, NextPower
  <1>30. 2^30 = 1073741824
    BY <1>29, NextPower
  <1> QED BY <1>1, <1>2, <1>3, <1>4, <1>5, <1>6, <1>7, <1>26, <1>30, Doubling

LEMMA PowersPositive == \A n \in 0..30 : 2^n \in Nat /\ 2^n > 0
  <1> DEFINE S == {n \in Nat : 2^n \in Nat /\ 2^n > 0}
  <1>1. 0 \in S
    BY Powers, SMTT(20)
  <1>2. ASSUME NEW n \in 0..30, n \in S, n < 30
        PROVE  n + 1 \in S
    <2>0. n \in 0..29
      BY <1>2
    <2>1. 2^(n + 1) = 2 * 2^n
      BY <2>0, Doubling
    <2> QED BY <1>2, <2>1
  <1> HIDE DEF S
  <1>3. \A n \in 0..30 : n \in S
    BY <1>1, <1>2, FromTo
  <1> QED BY <1>3 DEF S

\* A larger power is at least twice as large.
LEMMA PowersGrow ==
    ASSUME NEW a \in 0..30, NEW b \in 0..30, a < b
    PROVE  2^b >= 2 * 2^a
  <1> DEFINE S == {n \in Nat : 2^n >= 2 * 2^a}
  <1>0. a \in 0..29 /\ 2^a \in Nat
    <2>1. a \in 0..29
      OBVIOUS
    <2>2. 2^a \in Nat
      BY PowersPositive
    <2> QED BY <2>1, <2>2
  <1>1. a + 1 \in S
    <2>1. 2^(a + 1) = 2 * 2^a
      BY <1>0, Doubling
    <2> QED BY <1>0, <2>1, SMTT(20)
  <1>2. ASSUME NEW n \in (a + 1)..30, n \in S, n < 30
        PROVE  n + 1 \in S
    <2>1. n \in 0..29 /\ n \in 0..30
      BY <1>2
    <2>2. 2^(n + 1) = 2 * 2^n /\ 2^n \in Nat
      BY <2>1, Doubling, PowersPositive
    <2> QED BY <1>0, <1>2, <2>1, <2>2, SMTT(20)
  <1> HIDE DEF S
  <1>3. a + 1 \in Nat /\ b \in (a + 1)..30
    OBVIOUS
  <1>4. \A n \in (a + 1)..30 : n \in S
    BY <1>1, <1>2, <1>3, FromTo
  <1> QED BY <1>3, <1>4 DEF S

-----------------------------------------------------------------------------
(* What Scale and Log2 choose.                                             *)

Scales(s, l, a) == l <= s * 2^a /\ s * 2^a < 2 * l

LEMMA ScaleUnique ==
    ASSUME NEW l \in Nat \ {0}, NEW s \in 1..l, NEW a \in 0..30, Scales(s, l, a)
    PROVE  Scale(s, l) = a
  <1>1. ASSUME NEW b \in 0..30, NEW c \in 0..30, Scales(s, l, b), Scales(s, l, c)
        PROVE  ~(b < c)
    <2> SUFFICES ASSUME b < c PROVE FALSE
      OBVIOUS
    <2> DEFINE x == 2^b
               y == 2^c
    <2>1. x \in Nat /\ y \in Nat /\ y >= 2 * x
      BY PowersGrow, PowersPositive
    <2>2. l <= s * x /\ s * y < 2 * l
      BY <1>1 DEF Scales
    <2> HIDE DEF x, y
    <2>3. s * y >= s * (2 * x)
      BY <2>1
    <2> QED BY <2>1, <2>2, <2>3
  <1>2. \A b \in 0..30 : Scales(s, l, b) => b = a
    BY <1>1
  <1>3. Scale(s, l) = CHOOSE b \in 0..30 : Scales(s, l, b)
    BY DEF Scale, Scales
  <1> QED BY <1>2, <1>3

(* The numbers of results for which the scale is found.                    *)
Results == {n \in Nat \ {0} : n <= 2^30}

LEMMA ScaleExists ==
    ASSUME NEW l \in Results, NEW s \in 1..l
    PROVE  Scale(s, l) \in 0..30 /\ Scales(s, l, Scale(s, l))
  <1>0. l \in Nat \ {0} /\ l <= 2^30
    BY DEF Results
  <1> DEFINE T == {a \in 0..30 : l <= s * 2^a}
  <1>1. 30 \in T
    <2> DEFINE G == 2^30
    <2>1. G \in Nat /\ 30 \in 0..30
      BY PowersPositive
    <2>2. l <= G
      BY <1>0
    <2> HIDE DEF G
    <2>3. 1 * G <= s * G
      BY <1>0, <2>1
    <2>4. l <= s * G
      BY <1>0, <2>1, <2>2, <2>3
    <2> QED BY <2>1, <2>4 DEF G
  <1>2. PICK a \in T : \A b \in T : a <= b
    <2>1. T \subseteq Nat /\ T # {}
      <3>1. \A x \in T : x \in 0..30
        OBVIOUS
      <3> HIDE DEF T
      <3> QED BY <1>1, <3>1
    <2> HIDE DEF T
    <2> QED BY <2>1, Least
  <1>3. a \in 0..30 /\ l <= s * 2^a
    BY <1>2
  <1>4. s * 2^a < 2 * l
    <2>1. CASE a = 0
      BY <1>0, <2>1, Powers, SMTT(20)
    <2>2. CASE a > 0
      <3> DEFINE x == 2^(a - 1)
      <3>1. a - 1 \in 0..30 /\ a - 1 \notin T
        BY <1>2, <1>3, <2>2
      <3>2. x \in Nat /\ 2^a = 2 * x
        <4>1. a - 1 \in 0..29 /\ (a - 1) + 1 = a
          BY <1>3, <2>2
        <4>2. 2^((a - 1) + 1) = 2 * 2^(a - 1)
          BY <4>1, Doubling
        <4> QED BY <3>1, <4>1, <4>2, PowersPositive
      <3>3. ~(l <= s * x)
        BY <3>1
      <3> HIDE DEF x
      <3>4. s * (2 * x) = 2 * (s * x)
        BY <3>2
      <3> QED BY <1>0, <3>2, <3>3, <3>4, SMTT(20)
    <2> QED BY <1>3, <2>1, <2>2
  <1>5. Scales(s, l, a)
    BY <1>3, <1>4 DEF Scales
  <1> QED BY <1>0, <1>3, <1>5, ScaleUnique, SMTT(20)

LEMMA Log2Bounds ==
    ASSUME NEW m \in 1..100
    PROVE  Log2(m) \in 0..6 /\ 2^Log2(m) <= m /\ m < 2^(Log2(m) + 1)
  <1>1. \E b \in 0..6 : 2^b <= m /\ m < 2^(b + 1)
    <2>1. CASE 1 <= m /\ m < 2
      <3>1. 0 \in 0..6 /\ 2^0 <= m /\ m < 2^(0 + 1)
        BY <2>1, Powers, SMTT(20)
      <3> QED BY <3>1
    <2>2. CASE 2 <= m /\ m < 4
      <3>1. 1 \in 0..6 /\ 2^1 <= m /\ m < 2^(1 + 1)
        BY <2>2, Powers, SMTT(20)
      <3> QED BY <3>1
    <2>3. CASE 4 <= m /\ m < 8
      <3>1. 2 \in 0..6 /\ 2^2 <= m /\ m < 2^(2 + 1)
        BY <2>3, Powers, SMTT(20)
      <3> QED BY <3>1
    <2>4. CASE 8 <= m /\ m < 16
      <3>1. 3 \in 0..6 /\ 2^3 <= m /\ m < 2^(3 + 1)
        BY <2>4, Powers, SMTT(20)
      <3> QED BY <3>1
    <2>5. CASE 16 <= m /\ m < 32
      <3>1. 4 \in 0..6 /\ 2^4 <= m /\ m < 2^(4 + 1)
        BY <2>5, Powers, SMTT(20)
      <3> QED BY <3>1
    <2>6. CASE 32 <= m /\ m < 64
      <3>1. 5 \in 0..6 /\ 2^5 <= m /\ m < 2^(5 + 1)
        BY <2>6, Powers, SMTT(20)
      <3> QED BY <3>1
    <2>7. CASE 64 <= m /\ m < 128
      <3>1. 6 \in 0..6 /\ 2^6 <= m /\ m < 2^(6 + 1)
        BY <2>7, Powers, SMTT(20)
      <3> QED BY <3>1
    <2> QED BY <2>1, <2>2, <2>3, <2>4, <2>5, <2>6, <2>7
  <1> QED BY <1>1 DEF Log2

LEMMA Log2Unique ==
    ASSUME NEW m \in Nat, NEW b \in 0..6, 2^b <= m, m < 2^(b + 1)
    PROVE  Log2(m) = b
  <1>1. ASSUME NEW c \in 0..6, NEW d \in 0..6, c < d, 2^d <= m, m < 2^(c + 1)
        PROVE  FALSE
    <2>1. c \in 0..30 /\ d \in 0..30 /\ c \in 0..29
      OBVIOUS
    <2>2. 2^(c + 1) = 2 * 2^c
      BY <2>1, Doubling
    <2>3. 2^d >= 2 * 2^c
      BY <1>1, <2>1, PowersGrow
    <2>4. 2^c \in Nat /\ 2^d \in Nat
      BY <2>1, PowersPositive
    <2> QED BY <1>1, <2>2, <2>3, <2>4
  <1>2. ASSUME NEW c \in 0..6, 2^c <= m, m < 2^(c + 1)
        PROVE  c = b
    <2>1. ~(c < b) /\ ~(b < c)
      BY <1>1, <1>2, Zenon
    <2> QED BY <2>1
  <1> QED BY <1>2 DEF Log2

LEMMA PowerModuloNat ==
    ASSUME NEW l \in Nat \ {0}, NEW a \in 0..30
    PROVE  PowerModulo(a, l) \in Nat
  <1> DEFINE x == 2^26 % l
             y == 2^a % l
             z == (x * x) % l
  <1>1. x \in Nat /\ y \in Nat
    BY Powers, PowersPositive, Division, SMTT(20)
  <1> HIDE DEF x, y
  <1>2. z \in Nat
    BY <1>1, Division
  <1> HIDE DEF z
  <1>3. z * y \in Nat
    BY <1>1, <1>2
  <1>4. (z * y) % l \in Nat
    BY <1>3, Division
  <1> QED BY <1>4 DEF PowerModulo, x, y, z

\* Without a failure the percentage is 100: neither rounding errs.
LEMMA PercentOfAll ==
    ASSUME NEW l \in Nat \ {0}
    PROVE  Percent64(l, l) = 100
  <1>1. (100 * l) \div l = 100
    <2>1. 100 * l = l * 100 + 0 /\ 0 \in 0..(l - 1)
      OBVIOUS
    <2> QED BY <2>1, DivisionUnique
  <1>2. Scale(l, l) = 0
    <2>1. Scales(l, l, 0)
      BY Powers, SMTT(20) DEF Scales
    <2> QED BY <2>1, ScaleUnique
  <1>3. Error(l, l) = 0
    <2> DEFINE x == PowerModulo(0, l)
    <2>1. x \in Nat
      BY PowerModuloNat
    <2>2. (l * x) % l = 0
      <3> HIDE DEF x
      <3>1. l * x = l * x + 0 /\ 0 \in 0..(l - 1)
        BY <2>1
      <3> QED BY <2>1, <3>1, DivisionUnique
    <2> QED BY <1>2, <2>2 DEF Error
  <1>4. ~FallsShort(l, l, 100)
    <2> DEFINE x == 2^Log2(100)
    <2>1. x \in Nat
      <3>1. 100 \in 1..100 /\ \A b \in 0..6 : b \in 0..30
        OBVIOUS
      <3>2. Log2(100) \in 0..30
        BY <3>1, Log2Bounds
      <3> QED BY <3>2, PowersPositive
    <2>2. FallsShort(l, l, 100) = (-200 * 0 * (IF 100 = x THEN 2 ELSE 1) > l * 1 * x)
      BY <1>2, <1>3, Powers, SMTT(20) DEF FallsShort
    <2> HIDE DEF x
    <2>3. ~(-200 * 0 * (IF 100 = x THEN 2 ELSE 1) > l * 1 * x)
      BY <2>1
    <2> QED BY <2>2, <2>3
  <1> QED BY <1>1, <1>4 DEF Percent64

-----------------------------------------------------------------------------
(* The arithmetic of float64, as IEEE 754 defines it: an operation yields  *)
(* the nearest of the numbers with a significand of 53 bits, and of two    *)
(* that are equally near the one with an even significand.                 *)

Nearest(n, d) ==
    LET f == n \div d
        r == n % d
    IN  IF 2 * r < d \/ (2 * r = d /\ f % 2 = 0) THEN f ELSE f + 1

TwoTo52 == 4503599627370496

LEMMA TwoTo52Size ==
    TwoTo52 \in Nat /\ TwoTo52 > 1000 /\ \E v \in Nat : TwoTo52 = 256 * v
  <1> DEFINE v == 17592186044416
  <1>1. TwoTo52 \in Nat /\ TwoTo52 > 1000 /\ v \in Nat /\ TwoTo52 = 256 * v
    BY SMTT(20) DEF TwoTo52
  <1> HIDE DEF v
  <1> QED BY <1>1

LEMMA ResultsBelow ==
    ASSUME NEW l \in Results
    PROVE  l \in Nat \ {0} /\ 1000 * l < TwoTo52
  <1>1. l \in Nat \ {0} /\ l <= 2^30
    BY DEF Results
  <1>2. 2^30 \in Nat /\ 1000 * 2^30 < TwoTo52 /\ TwoTo52 \in Nat
    BY Powers, SMTT(20) DEF TwoTo52
  <1> DEFINE G == 2^30
  <1> HIDE DEF G
  <1> QED BY <1>1, <1>2 DEF G

(* float64(s) / float64(l) is Quotient(s, l) / Unit(s, l).                 *)
Unit(s, l) == TwoTo52 * 2^Scale(s, l)
Quotient(s, l) == Nearest(s * Unit(s, l), l)

(* Times 100, that is Product(s, l) * Ulp(s, l) / Unit(s, l).              *)
Ulp(s, l) == IF 100 * Quotient(s, l) < 128 * TwoTo52 THEN 64 ELSE 128
Product(s, l) == Nearest(100 * Quotient(s, l), Ulp(s, l))

(* The largest whole number that is not above it.                          *)
WholePercent(s, l) == (Product(s, l) * Ulp(s, l)) \div Unit(s, l)

\* The remainder of a product depends on that of a factor only.
LEMMA ModuloFactor ==
    ASSUME NEW l \in Nat \ {0}, NEW x \in Nat, NEW y \in Nat
    PROVE  (x * (y % l)) % l = (x * y) % l
  <1> DEFINE f == y \div l
             r == y % l
  <1>1. f \in Nat /\ r \in Nat /\ y = l * f + r
    BY Division
  <1> HIDE DEF f, r
  <1> DEFINE g == (x * r) \div l
             t == (x * r) % l
  <1>2. x * r \in Nat
    BY <1>1
  <1>3. g \in Nat /\ t \in 0..(l - 1) /\ x * r = l * g + t
    BY <1>2, Division
  <1> HIDE DEF g, t
  <1>4. x * y = x * (l * f) + x * r
    BY <1>1
  <1>5. x * (l * f) = l * (x * f)
    BY <1>1
  <1>6. l * (x * f) + l * g = l * (x * f + g) /\ x * f \in Nat
    BY <1>1, <1>3
  <1>7. x * y = l * (x * f + g) + t /\ x * f + g \in Nat
    BY <1>1, <1>2, <1>3, <1>4, <1>5, <1>6
  <1>8. (x * y) % l = t
    BY <1>3, <1>7, DivisionUnique
  <1> QED BY <1>8 DEF r, t

\* PowerModulo is what its name says.
LEMMA PowerModuloCorrect ==
    ASSUME NEW l \in Nat \ {0}, NEW a \in 0..30, NEW s \in Nat
    PROVE  (s * PowerModulo(a, l)) % l = (s * (TwoTo52 * 2^a)) % l
  <1>0. 2^26 \in Nat /\ 2^26 * 2^26 = TwoTo52
    BY Powers, SMTT(20) DEF TwoTo52
  <1>1. 2^a \in Nat
    BY PowersPositive
  <1> DEFINE A == 2^26
             B == 2^a
             T == TwoTo52
             A2 == (A % l) * (A % l)
  <1>2. PowerModulo(a, l) = ((A2 % l) * (B % l)) % l
    BY DEF PowerModulo
  <1>3. A \in Nat /\ B \in Nat /\ T \in Nat /\ A * A = T
    BY <1>0, <1>1
  <1> HIDE DEF A, B, T
  <1>4. A % l \in Nat /\ T % l \in Nat
    BY <1>3, Division
  <1>5. A2 % l = T % l
    <2>1. ((A % l) * (A % l)) % l = ((A % l) * A) % l
      BY <1>3, <1>4, ModuloFactor
    <2>2. (A % l) * A = A * (A % l)
      BY <1>3, <1>4
    <2>3. (A * (A % l)) % l = (A * A) % l
      BY <1>3, ModuloFactor
    <2> QED BY <1>3, <2>1, <2>2, <2>3
  <1>6. ((T % l) * (B % l)) % l = (T * B) % l
    <2>1. ((T % l) * (B % l)) % l = ((T % l) * B) % l
      BY <1>3, <1>4, ModuloFactor
    <2>2. (T % l) * B = B * (T % l) /\ B * T = T * B
      BY <1>3, <1>4
    <2>3. (B * (T % l)) % l = (B * T) % l
      BY <1>3, ModuloFactor
    <2> QED BY <2>1, <2>2, <2>3
  <1>7. PowerModulo(a, l) = (T * B) % l /\ T * B \in Nat
    BY <1>2, <1>3, <1>5, <1>6
  <1>8. (s * ((T * B) % l)) % l = (s * (T * B)) % l
    BY <1>7, ModuloFactor
  <1> QED BY <1>7, <1>8 DEF T, B

\* If an odd number times y is even, y is.
LEMMA EvenFactor ==
    ASSUME NEW f \in Nat, NEW o \in Nat, o = 2 * f + 1,
           NEW y \in Nat, NEW w \in Nat, o * y = 2 * w
    PROVE  y \div 2 \in Nat /\ y = 2 * (y \div 2)
  <1> DEFINE h == y \div 2
             r == y % 2
  <1>1. h \in Nat /\ r \in 0..1 /\ y = 2 * h + r
    BY Division
  <1> HIDE DEF h, r
  <1>2. CASE r = 1
    <2>1. (2 * f + 1) * y = 2 * (f * y) + y /\ f * y \in Nat
      OBVIOUS
    <2>2. 2 * (f * y) + 2 * h + 1 = 2 * w
      BY <1>1, <1>2, <2>1
    <2> QED BY <1>1, <2>1, <2>2
  <1> QED BY <1>1, <1>2 DEF h

\* A quotient is never in the middle between two float64s: that would take a
\* divisor with more factors of two than there are numbers of results.
LEMMA NoTie ==
    ASSUME NEW l \in Results, NEW s \in Nat, NEW a \in 0..30
    PROVE  2 * ((s * (TwoTo52 * 2^a)) % l) # l
  <1>split. PICK C \in Nat : TwoTo52 = 2^30 * C
    <2> DEFINE C == 4194304
    <2>1. C \in Nat /\ TwoTo52 = 2^30 * C
      BY Powers, SMTT(20) DEF TwoTo52
    <2> HIDE DEF C
    <2> QED BY <2>1
  <1> DEFINE n == s * (TwoTo52 * 2^a)
             f == n \div l
             r == n % l
             z == s * (C * 2^a)
             o == 2 * f + 1
             G == 2^30
  <1> SUFFICES ASSUME 2 * r = l PROVE FALSE
    OBVIOUS
  <1>0. l \in Nat \ {0} /\ G \in Nat /\ l <= G
    <2>1. 30 \in 0..30
      OBVIOUS
    <2> QED BY <2>1, PowersPositive DEF Results
  <1>1. 2^a \in Nat /\ z \in Nat /\ n \in Nat /\ n = G * z
    <2>1. 2^a \in Nat
      BY PowersPositive
    <2> DEFINE x == 2^a
    <2>2. TwoTo52 = G * C
      BY <1>split
    <2> HIDE DEF x, G
    <2>3. C * x \in Nat /\ (G * C) * x = G * (C * x)
      BY <1>0, <2>1 DEF x
    <2> DEFINE v == C * x
    <2> HIDE DEF v
    <2>4. s * (G * v) = G * (s * v) /\ s * v \in Nat /\ G * (s * v) \in Nat
      BY <1>0, <2>3 DEF v
    <2> QED BY <2>1, <2>2, <2>3, <2>4 DEF v, x
  <1> HIDE DEF n, z, G
  <1>2. f \in Nat /\ r \in Nat /\ n = l * f + r
    <2>1. f \in Nat /\ r \in 0..(l - 1) /\ n = l * f + r
      BY <1>0, <1>1, Division
    <2> HIDE DEF f, r
    <2> QED BY <1>0, <2>1
  <1> HIDE DEF f, r
  <1>3. o * l = G * (2 * z)
    <2>1. o * l = 2 * (l * f) + l /\ l * f \in Nat
      BY <1>0, <1>2
    <2>2. G * (2 * z) = 2 * (G * z)
      BY <1>0, <1>1
    <2> QED BY <1>0, <1>1, <1>2, <2>1, <2>2
  <1>4. o \in Nat
    BY <1>2
  <1> DEFINE S == {k \in 0..30 : \E y \in Nat : l = 2^k * y /\ o * y = 2^(30 - k) * (2 * z)}
  <1>5. 0 \in S
    <2>1. l = 2^0 * l /\ o * l = 2^(30 - 0) * (2 * z)
      <3>1. 2^0 = 1 /\ 30 - 0 = 30
        BY Doubling
      <3>2. l = 1 * l
        BY <1>0
      <3> QED BY <1>3, <3>1, <3>2 DEF G
    <2> QED BY <1>0, <2>1
  <1>6. ASSUME NEW k \in 0..30, k \in S, k < 30
        PROVE  k + 1 \in S
    <2> DEFINE P == 2^k
               R == 2^(30 - (k + 1))
    <2>1. PICK y \in Nat : l = P * y /\ o * y = 2^(30 - k) * (2 * z)
      BY <1>6
    <2>2. P \in Nat /\ R \in Nat /\ 2^(k + 1) = 2 * P /\ 2^(30 - k) = 2 * R
      <3>1. k \in 0..29 /\ 30 - (k + 1) \in 0..29 /\ (30 - (k + 1)) + 1 = 30 - k
        BY <1>6
      <3>2. \A i \in 0..29 : i \in 0..30
        OBVIOUS
      <3> QED BY <3>1, <3>2, Doubling, PowersPositive
    <2> HIDE DEF P, R, o
    <2>3. o * y = 2 * (R * (2 * z)) /\ R * (2 * z) \in Nat
      BY <1>1, <2>1, <2>2
    <2>4. PICK h \in Nat : y = 2 * h
      <3> DEFINE w == R * (2 * z)
      <3>1. o * y = 2 * w /\ w \in Nat /\ o = 2 * f + 1
        BY <2>3 DEF o
      <3> HIDE DEF w
      <3>2. y \div 2 \in Nat /\ y = 2 * (y \div 2)
        BY <1>2, <1>4, <3>1, EvenFactor
      <3> QED BY <3>2
    <2>5. l = (2 * P) * h
      BY <2>1, <2>2, <2>4
    <2>6. o * h = R * (2 * z)
      <3>1. o * (2 * h) = 2 * (o * h) /\ o * h \in Nat
        BY <1>4, <2>4
      <3> QED BY <2>3, <2>4, <3>1
    <2>7. l = 2^(k + 1) * h /\ o * h = 2^(30 - (k + 1)) * (2 * z)
      BY <2>2, <2>5, <2>6 DEF R
    <2>8. k + 1 \in 0..30
      BY <1>6
    <2> QED BY <2>7, <2>8
  <1> HIDE DEF S, o
  <1>7. 30 \in S
    <2>1. 0 \in Nat /\ 30 \in Nat /\ 30 \in 0..30
      OBVIOUS
    <2> QED BY <1>5, <1>6, <2>1, FromTo
  <1>8. PICK y \in Nat : l = 2^30 * y /\ o * y = 2^(30 - 30) * (2 * z)
    BY <1>7 DEF S
  <1>9. l = G * y /\ o * y = 2 * z
    <2>1. 2^(30 - 30) = 1
      BY Doubling
    <2> QED BY <1>1, <1>8, <2>1 DEF G
  <1>10. PICK h \in Nat : y = 2 * h
    <2>1. o = 2 * f + 1
      BY DEF o
    <2>2. y \div 2 \in Nat /\ y = 2 * (y \div 2)
      BY <1>1, <1>2, <1>4, <1>9, <2>1, EvenFactor
    <2> QED BY <2>2
  <1>11. CASE h = 0
    BY <1>0, <1>9, <1>10, <1>11
  <1>12. CASE h >= 1
    <2>1. G * (2 * h) = 2 * (G * h) /\ G * h >= G * 1 /\ G * h \in Nat
      BY <1>0, <1>12
    <2> QED BY <1>0, <1>9, <1>10, <2>1
  <1> QED BY <1>11, <1>12

LEMMA NearestError ==
    ASSUME NEW n \in Nat, NEW d \in Nat \ {0}
    PROVE  /\ Nearest(n, d) \in Nat
           /\ -d <= 2 * (d * Nearest(n, d) - n) /\ 2 * (d * Nearest(n, d) - n) <= d
  <1> DEFINE f == n \div d
             r == n % d
  <1>1. f \in Nat /\ r \in 0..(d - 1) /\ n = d * f + r
    BY Division
  <1>2. Nearest(n, d) = IF 2 * r < d \/ (2 * r = d /\ f % 2 = 0) THEN f ELSE f + 1
    BY DEF Nearest
  <1> HIDE DEF f, r
  <1>3. CASE Nearest(n, d) = f /\ 2 * r <= d
    <2>1. d * f \in Nat
      BY <1>1
    <2> QED BY <1>1, <1>3, <2>1
  <1>4. CASE Nearest(n, d) = f + 1 /\ 2 * r >= d
    <2>1. d * f \in Nat /\ d * (f + 1) = d * f + d
      BY <1>1
    <2> QED BY <1>1, <1>4, <2>1
  <1> QED BY <1>1, <1>2, <1>3, <1>4

\* The first rounding: the significand has 53 bits, and Error is the error.
LEMMA QuotientError ==
    ASSUME NEW l \in Results, NEW s \in 1..l
    PROVE  /\ Quotient(s, l) \in TwoTo52..(2 * TwoTo52)
           /\ Error(s, l) \in Int
           /\ l * Quotient(s, l) = s * Unit(s, l) + Error(s, l)
           /\ -l <= 2 * Error(s, l) /\ 2 * Error(s, l) <= l
  <1> DEFINE a == Scale(s, l)
             x == 2^a
             T == TwoTo52
             n == s * Unit(s, l)
             q == Quotient(s, l)
             f == n \div l
             r == n % l
             E == Error(s, l)
  <1>0. l \in Nat \ {0} /\ s \in Nat /\ T \in Nat /\ T > 0
    <2>1. l \in Nat \ {0}
      BY ResultsBelow
    <2>2. T \in Nat /\ T > 1000
      BY TwoTo52Size
    <2> HIDE DEF T
    <2> QED BY <2>1, <2>2
  <1>1. a \in 0..30 /\ Scales(s, l, a)
    BY ScaleExists
  <1>2. x \in Nat /\ l <= s * x /\ s * x < 2 * l
    BY <1>1, PowersPositive DEF Scales
  <1>3. n = s * (T * x)
    BY DEF Unit
  <1>4. (s * PowerModulo(a, l)) % l = (s * (T * x)) % l
    BY <1>0, <1>1, PowerModuloCorrect
  <1>5. 2 * ((s * (T * x)) % l) # l
    BY <1>0, <1>1, NoTie
  <1>6. E = IF 2 * ((s * PowerModulo(a, l)) % l) < l THEN -((s * PowerModulo(a, l)) % l)
            ELSE l - ((s * PowerModulo(a, l)) % l)
    BY DEF Error
  <1>7. q = IF 2 * r < l \/ (2 * r = l /\ f % 2 = 0) THEN f ELSE f + 1
    BY DEF Quotient, Nearest
  <1> HIDE DEF a, x, T, q, E
  <1>8. n \in Nat /\ n = T * (s * x)
    BY <1>0, <1>2, <1>3
  <1>9. f \in Nat /\ r \in 0..(l - 1) /\ n = l * f + r
    <2> HIDE DEF n
    <2> QED BY <1>0, <1>8, Division
  <1>10. 2 * r # l /\ E = IF 2 * r < l THEN -r ELSE l - r
    BY <1>3, <1>4, <1>5, <1>6
  <1> HIDE DEF n, f, r
  <1>11. E \in Int /\ -l <= 2 * E /\ 2 * E <= l
    BY <1>0, <1>9, <1>10
  <1>12. q \in Nat /\ l * q = n + E
    <2>1. l * (f + 1) = l * f + l /\ l * f \in Nat
      BY <1>0, <1>9
    <2>2. CASE 2 * r < l
      BY <1>7, <1>9, <1>10, <2>1, <2>2
    <2>3. CASE ~(2 * r < l)
      BY <1>0, <1>7, <1>9, <1>10, <2>1, <2>3
    <2> QED BY <2>2, <2>3
  <1>13. q >= T /\ q <= 2 * T
    <2> DEFINE y == s * x
    <2>1. y \in Nat /\ l <= y /\ y < 2 * l /\ n = T * y
      BY <1>0, <1>2, <1>8
    <2> HIDE DEF y
    <2>2. T * l \in Nat /\ T * l <= T * y /\ T * y <= T * (2 * l) /\ T * (2 * l) = 2 * (T * l)
      BY <1>0, <2>1
    <2>3. ASSUME q <= T - 1 PROVE FALSE
      <3>1. l * q <= l * (T - 1) /\ l * (T - 1) = T * l - l
        BY <1>0, <1>12, <2>3
      <3> QED BY <1>0, <1>11, <1>12, <2>1, <2>2, <3>1
    <2>4. ASSUME q >= 2 * T + 1 PROVE FALSE
      <3>1. l * q >= l * (2 * T + 1) /\ l * (2 * T + 1) = 2 * (T * l) + l
        BY <1>0, <1>12, <2>4
      <3> QED BY <1>0, <1>11, <1>12, <2>1, <2>2, <3>1
    <2> QED BY <1>0, <1>12, <2>3, <2>4
  <1>14. q \in T..(2 * T)
    BY <1>0, <1>12, <1>13
  <1> QED BY <1>11, <1>12, <1>14 DEF q, n, T, E

\* The second rounding: the significand has 53 bits again.
LEMMA ProductError ==
    ASSUME NEW l \in Results, NEW s \in 1..l
    PROVE  LET q == Quotient(s, l)
               u == Ulp(s, l)
               p == Product(s, l)
           IN  /\ u \in {64, 128} /\ p \in TwoTo52..(2 * TwoTo52)
               /\ -u <= 2 * (u * p - 100 * q) /\ 2 * (u * p - 100 * q) <= u
  <1> DEFINE q == Quotient(s, l)
             u == Ulp(s, l)
             p == Product(s, l)
             T == TwoTo52
  <1>0. T \in Nat /\ T > 1000
    BY TwoTo52Size
  <1>1. q \in T..(2 * T)
    BY QuotientError
  <1>2. u = IF 100 * q < 128 * T THEN 64 ELSE 128
    BY DEF Ulp
  <1>3. p = Nearest(100 * q, u)
    BY DEF Product
  <1> HIDE DEF q, u, p, T
  <1>4. q \in Nat /\ 100 * q \in Nat /\ u \in Nat \ {0}
    BY <1>0, <1>1, <1>2
  <1>5. p \in Nat /\ -u <= 2 * (u * p - 100 * q) /\ 2 * (u * p - 100 * q) <= u
    BY <1>3, <1>4, NearestError
  <1>6. p \in T..(2 * T)
    <2>1. CASE u = 64
      <3>1. u * p = 64 * p
        BY <2>1
      <3> QED BY <1>0, <1>1, <1>2, <1>4, <1>5, <2>1, <3>1
    <2>2. CASE u = 128
      <3>1. u * p = 128 * p
        BY <2>2
      <3> QED BY <1>0, <1>1, <1>2, <1>4, <1>5, <2>2, <3>1
    <2> QED BY <1>2, <2>1, <2>2
  <1>7. u \in {64, 128}
    BY <1>2
  <1> QED BY <1>5, <1>6, <1>7 DEF q, u, p, T

\* When the percentage is no whole number the two roundings together move it
\* by less than its distance from the whole numbers around it.
LEMMA InexactCase ==
    ASSUME NEW l \in Nat \ {0}, NEW s \in Nat, NEW Q \in Nat, 1000 * l < Q,
           NEW q \in Nat, NEW E \in Int, l * q = s * Q + E, -l <= 2 * E, 2 * E <= l,
           NEW D \in Int, -128 <= 2 * D, 2 * D <= 128,
           NEW m \in Nat, NEW t \in 1..(l - 1), 100 * s = l * m + t,
           NEW W \in Nat, W = 100 * q + D
    PROVE  W \div Q = m
  <1> DEFINE M == m * Q
             S == s * Q
             tQ == t * Q
             lD == l * D
  <1>1. M \in Nat /\ S \in Nat /\ tQ \in Nat /\ lD \in Int
    OBVIOUS
  <1>2. l * W = 100 * (l * q) + lD
    OBVIOUS
  <1>3. 100 * S = l * M + tQ
    <2>1. 100 * S = (100 * s) * Q
      OBVIOUS
    <2>2. (l * m + t) * Q = l * (m * Q) + t * Q
      OBVIOUS
    <2> QED BY <2>1, <2>2
  <1>4. l * W = l * M + tQ + 100 * E + lD
    <2>1. l * q = S + E
      OBVIOUS
    <2>2. l * M \in Nat /\ l * W \in Nat /\ l * q \in Nat
      BY <1>1
    <2> HIDE DEF M, S, tQ, lD
    <2> QED BY <1>1, <1>2, <1>3, <2>1, <2>2
  <1>5. -(64 * l) <= lD /\ lD <= 64 * l
    <2>1. -64 <= D /\ D <= 64
      OBVIOUS
    <2>2. l * (-64) <= l * D /\ l * D <= l * 64
      BY <2>1
    <2> QED BY <2>2
  <1>6. Q <= tQ /\ tQ <= l * Q - Q
    <2>1. 1 * Q <= t * Q /\ t * Q <= (l - 1) * Q
      OBVIOUS
    <2>2. (l - 1) * Q = l * Q - Q
      OBVIOUS
    <2> QED BY <2>1, <2>2
  <1> HIDE DEF M, S, tQ, lD
  <1>7. l * M < l * W /\ l * W < l * (M + Q)
    <2>1. l * (M + Q) = l * M + l * Q /\ l * M \in Nat /\ l * Q \in Nat /\ l * W \in Nat
      BY <1>1
    <2> QED BY <1>1, <1>4, <1>5, <1>6, <2>1
  <1>8. M < W /\ W < M + Q
    BY <1>1, <1>7
  <1> DEFINE r == W - M
  <1>9. W = Q * m + r /\ r \in 0..(Q - 1) /\ Q \in Nat \ {0}
    <2>1. Q * m = M
      BY DEF M
    <2> QED BY <1>1, <1>8, <2>1
  <1> HIDE DEF r
  <1> QED BY <1>9, DivisionUnique

\* The power of two at or below m, of which half a unit in the last place of
\* the product is a fixed part: 64 or 128 units of the quotient.
LEMMA Binade ==
    ASSUME NEW x \in {1, 2, 4, 8, 16, 32, 64, 128}, NEW y \in {1, 2, 4, 8, 16, 32, 64},
           NEW m \in Nat, y <= m, m < 2 * y, 100 <= m * x, m * x < 200
    PROVE  /\ m = y => m * x = 128 /\ x * y = 128
           /\ m # y => \/ x * y = 64 /\ m * x < 128
                       \/ x * y = 128 /\ m * x > 128
  <1>1. CASE x = 1
    BY <1>1
  <1>2. CASE x = 2
    BY <1>2
  <1>3. CASE x = 4
    BY <1>3
  <1>4. CASE x = 8
    BY <1>4
  <1>5. CASE x = 16
    BY <1>5
  <1>6. CASE x = 32
    BY <1>6
  <1>7. CASE x = 64
    BY <1>7
  <1>8. CASE x = 128
    BY <1>8
  <1> QED BY <1>1, <1>2, <1>3, <1>4, <1>5, <1>6, <1>7, <1>8

\* The powers of two below 256.
LEMMA SmallPowers ==
    ASSUME NEW a \in 0..30, 2^a < 256
    PROVE  a \in 0..7 /\ 2^a \in {1, 2, 4, 8, 16, 32, 64, 128}
  <1>1. a <= 7
    <2> SUFFICES ASSUME 7 < a PROVE FALSE
      OBVIOUS
    <2>1. 7 \in 0..30
      OBVIOUS
    <2>2. 2^a >= 2 * 2^7
      BY <2>1, PowersGrow
    <2>3. 2^7 = 128
      BY Powers
    <2>4. 2^a \in Nat
      BY PowersPositive
    <2> QED BY <2>2, <2>3, <2>4
  <1>2. a \in {0, 1, 2, 3, 4, 5, 6, 7}
    BY <1>1
  <1>3. /\ 2^0 = 1 /\ 2^1 = 2 /\ 2^2 = 4 /\ 2^3 = 8
        /\ 2^4 = 16 /\ 2^5 = 32 /\ 2^6 = 64 /\ 2^7 = 128
    BY Powers, SMTT(20)
  <1>4. 2^a \in {1, 2, 4, 8, 16, 32, 64, 128}
    <2>1. CASE a = 0
      BY <1>3, <2>1
    <2>2. CASE a = 1
      BY <1>3, <2>2
    <2>3. CASE a = 2
      BY <1>3, <2>3
    <2>4. CASE a = 3
      BY <1>3, <2>4
    <2>5. CASE a = 4
      BY <1>3, <2>5
    <2>6. CASE a = 5
      BY <1>3, <2>6
    <2>7. CASE a = 6
      BY <1>3, <2>7
    <2>8. CASE a = 7
      BY <1>3, <2>8
    <2> QED BY <1>2, <2>1, <2>2, <2>3, <2>4, <2>5, <2>6, <2>7, <2>8
  <1> QED BY <1>1, <1>4

\* A percentage that is a whole number m, by the sign of the first error.
LEMMA ExactCase ==
    ASSUME NEW l \in Results, NEW s \in 1..l,
           NEW m \in 1..100, 100 * s = l * m
    PROVE  WholePercent(s, l) = IF FallsShort(s, l, m) THEN m - 1 ELSE m
  <1> DEFINE a == Scale(s, l)
             b == Log2(m)
             x == 2^a
             y == 2^b
             T == TwoTo52
             Q == Unit(s, l)
             q == Quotient(s, l)
             E == Error(s, l)
             u == Ulp(s, l)
             p == Product(s, l)
             half == IF m = y THEN 2 ELSE 1
  <1>1. l \in Nat \ {0} /\ s \in Nat \ {0}
    <2>1. l \in Nat \ {0}
      BY ResultsBelow
    <2> QED BY <2>1
  <1>2. PICK V \in Nat : T \in Nat /\ T > 1000 /\ T = 256 * V
    BY TwoTo52Size
  <1>3. a \in 0..30 /\ x \in Nat \ {0} /\ l <= s * x /\ s * x < 2 * l
    <2>1. a \in 0..30 /\ Scales(s, l, a)
      BY ScaleExists
    <2>2. x \in Nat /\ x > 0
      BY <2>1, PowersPositive, Zenon
    <2>3. l <= s * x /\ s * x < 2 * l
      BY <2>1 DEF Scales
    <2> HIDE DEF x, a
    <2> QED BY <2>1, <2>2, <2>3
  <1>4. b \in 0..6 /\ b \in 0..30 /\ y \in Nat \ {0} /\ y <= m /\ m < 2 * y
    <2>1. b \in 0..6 /\ y <= m /\ m < 2^(b + 1)
      BY Log2Bounds
    <2>2. b \in 0..29 /\ b \in 0..30
      BY <2>1
    <2>3. 2^(b + 1) = 2 * y
      BY <2>2, Doubling
    <2> QED BY <2>1, <2>2, <2>3, PowersPositive
  <1>5. Q = T * x
    BY DEF Unit
  <1>6. q \in Nat /\ E \in Int /\ l * q = s * Q + E /\ -l <= 2 * E /\ 2 * E <= l
    <2>1. q \in T..(2 * T)
      BY QuotientError
    <2>2. q \in Nat
      <3> HIDE DEF q, T
      <3> QED BY <1>2, <2>1
    <2> QED BY <2>2, QuotientError
  <1>7. u = IF 100 * q < 128 * T THEN 64 ELSE 128
    BY DEF Ulp
  <1>8. p = LET f == (100 * q) \div u
                r == (100 * q) % u
            IN  IF 2 * r < u \/ (2 * r = u /\ f % 2 = 0) THEN f ELSE f + 1
    BY DEF Product, Nearest
  <1>9. FallsShort(s, l, m) <=> -200 * E * half > l * x * y
    BY DEF FallsShort
  <1>10. WholePercent(s, l) = (p * u) \div Q
    BY DEF WholePercent
  <1>11. x \in {1, 2, 4, 8, 16, 32, 64, 128} /\ y \in {1, 2, 4, 8, 16, 32, 64}
         /\ 100 <= m * x /\ m * x < 200
    <2>1. 100 <= m * x /\ m * x < 200
      <3> HIDE DEF x
      <3>1. l * (m * x) = (l * m) * x /\ (100 * s) * x = 100 * (s * x)
        BY <1>1, <1>3
      <3>2. l * 100 <= l * (m * x) /\ l * (m * x) < l * 200
        BY <1>1, <1>3, <3>1
      <3>3. m * x \in Nat
        BY <1>3
      <3> QED BY <1>1, <3>2, <3>3
    <2>2. x < 256
      <3> HIDE DEF x
      <3>1. 1 * x <= m * x
        BY <1>3
      <3> QED BY <1>3, <2>1, <3>1
    <2>3. y < 128
      <3> HIDE DEF y
      <3> QED BY <1>4
    <2>4. x \in {1, 2, 4, 8, 16, 32, 64, 128}
      BY <1>3, <2>2, SmallPowers
    <2>5. y \in {1, 2, 4, 8, 16, 32, 64}
      <3>1. y < 256
        <4> HIDE DEF y
        <4> QED BY <1>4, <2>3
      <3>2. y \in {1, 2, 4, 8, 16, 32, 64, 128}
        BY <1>4, <3>1, SmallPowers
      <3> HIDE DEF y
      <3> QED BY <2>3, <3>2
    <2> QED BY <2>1, <2>4, <2>5
  <1> HIDE DEF a, b, x, y, T, Q, q, E, u, p
  <1>12. /\ m = y => m * x = 128 /\ x * y = 128
         /\ m # y => \/ x * y = 64 /\ m * x < 128
                     \/ x * y = 128 /\ m * x > 128
    BY <1>4, <1>11, Binade
  <1>13. Q \in Nat \ {0} /\ Q > 1000
    <2>1. T * 1 <= T * x
      BY <1>2, <1>3
    <2>2. T * x \in Nat
      BY <1>2, <1>3
    <2> QED BY <1>2, <1>5, <2>1, <2>2
  <1> DEFINE d == 100 * q - m * Q
  <1>14. d \in Int /\ 100 * q = m * Q + d /\ m * Q \in Nat
    BY <1>6, <1>13
  <1>15. l * d = 100 * E
    <2>1. l * d = 100 * (l * q) - l * (m * Q)
      BY <1>1, <1>6, <1>13
    <2>2. l * (m * Q) = (l * m) * Q /\ (100 * s) * Q = 100 * (s * Q)
      BY <1>1, <1>13
    <2>3. s * Q \in Nat
      BY <1>1, <1>13
    <2> QED BY <1>6, <2>1, <2>2, <2>3
  <1> HIDE DEF d
  <1>16. -50 <= d /\ d <= 50
    <2>1. l * (-50) <= l * d /\ l * d <= l * 50
      BY <1>1, <1>6, <1>15
    <2> QED BY <1>1, <1>14, <2>1
  \* The exact product is a number of float64, with an even significand.
  <1>17. PICK N \in Nat : m * Q = u * (2 * N)
    <2> DEFINE W == V * (x * m)
    <2>1. W \in Nat
      BY <1>2, <1>3
    <2>2. m * Q = 256 * W
      <3>1. m * (T * x) = T * (x * m)
        BY <1>2, <1>3
      <3>2. (256 * V) * (x * m) = 256 * (V * (x * m))
        BY <1>2, <1>3
      <3> QED BY <1>2, <1>5, <3>1, <3>2
    <2> HIDE DEF W
    <2>3. CASE u = 64
      <3>1. m * Q = u * (2 * (2 * W)) /\ 2 * W \in Nat
        BY <2>1, <2>2, <2>3
      <3> QED BY <3>1
    <2>4. CASE u = 128
      <3>1. m * Q = u * (2 * W)
        BY <2>1, <2>2, <2>4
      <3> QED BY <2>1, <3>1
    <2> QED BY <1>7, <2>3, <2>4
  <1>18. u \in Nat \ {0} /\ u > 50 /\ u <= 128
    BY <1>7
  <1>19. CASE d >= 0
    <2>1. ~FallsShort(s, l, m)
      <3>1. E >= 0
        <4>1. l * d >= 0
          BY <1>1, <1>14, <1>19
        <4> QED BY <1>6, <1>15, <4>1
      <3>2. l * x * y \in Nat
        BY <1>1, <1>3, <1>4
      <3>3. -200 * E * half <= 0
        BY <1>6, <3>1
      <3> QED BY <1>6, <1>9, <3>2, <3>3
    <2>2. (100 * q) \div u = 2 * N
      <3> DEFINE n == 100 * q
                 f == 2 * N
      <3>1. n = u * f + d /\ d \in 0..(u - 1) /\ f \in Nat
        BY <1>14, <1>16, <1>17, <1>18, <1>19
      <3> HIDE DEF n, f
      <3>2. n \div u = f
        BY <1>18, <3>1, DivisionUnique
      <3> QED BY <3>2 DEF n, f
    <2>3. p = 2 * N \/ p = 2 * N + 1
      BY <1>8, <2>2
    <2>4. p * u = Q * m \/ p * u = Q * m + u
      <3>1. (2 * N) * u = u * (2 * N) /\ (2 * N + 1) * u = u * (2 * N) + u
        BY <1>18
      <3>2. Q * m = m * Q
        BY <1>13
      <3> QED BY <1>17, <2>3, <3>1, <3>2
    <2>5. \E r \in 0..(Q - 1) : p * u = Q * m + r
      <3>1. 0 \in 0..(Q - 1) /\ u \in 0..(Q - 1) /\ Q * m + 0 = Q * m
        BY <1>13, <1>18
      <3> QED BY <2>4, <3>1
    <2>6. (p * u) \div Q = m
      <3>1. PICK r \in 0..(Q - 1) : p * u = Q * m + r
        BY <2>5
      <3>2. m \in Nat
        OBVIOUS
      <3> DEFINE W == p * u
      <3>3. W = Q * m + r
        BY <3>1
      <3> HIDE DEF W
      <3>4. W \div Q = m
        BY <1>13, <3>2, <3>3, DivisionUnique
      <3> QED BY <3>4 DEF W
    <2> QED BY <1>10, <2>1, <2>6
  <1>20. CASE d < 0
    <2>1. u = 64 <=> m * x <= 128
      <3>1. m * Q = T * (m * x) /\ m * x \in Nat
        BY <1>2, <1>3, <1>5
      <3>2. CASE m * x <= 128
        <4>1. T * (m * x) <= T * 128
          BY <1>2, <3>1, <3>2
        <4> QED BY <1>2, <1>6, <1>7, <1>14, <1>20, <3>1, <3>2, <4>1
      <3>3. CASE m * x >= 129
        <4>1. T * (m * x) >= T * 129
          BY <1>2, <3>1, <3>3
        <4>2. 100 * q >= 128 * T
          BY <1>2, <1>6, <1>14, <1>16, <3>1, <4>1
        <4> QED BY <1>2, <1>6, <1>7, <3>1, <3>3, <4>2
      <3> QED BY <3>1, <3>2, <3>3
    <2>2. x * y = u * half
      <3>1. CASE m = y
        <4>1. x * y = 128 /\ u = 64 /\ half = 2
          BY <1>12, <2>1, <3>1
        <4> QED BY <4>1
      <3>2. CASE m # y /\ x * y = 64 /\ m * x < 128
        <4>1. u = 64 /\ half = 1
          BY <1>3, <2>1, <3>2
        <4> QED BY <3>2, <4>1
      <3>3. CASE m # y /\ x * y = 128 /\ m * x > 128
        <4>1. ~(m * x <= 128)
          BY <1>3, <3>3
        <4>2. u = 128 /\ half = 1
          BY <1>7, <2>1, <3>3, <4>1
        <4> QED BY <3>3, <4>2
      <3> QED BY <1>12, <3>1, <3>2, <3>3
    <2>3. FallsShort(s, l, m) <=> l * u < -200 * E
      <3>1. l * x * y = l * (x * y)
        BY <1>1, <1>3, <1>4
      <3>2. CASE half = 2
        <4>1. l * (x * y) = 2 * (l * u) /\ l * u \in Nat
          BY <1>1, <1>18, <2>2, <3>2
        <4> QED BY <1>6, <1>9, <3>1, <3>2, <4>1
      <3>3. CASE half = 1
        <4>1. l * (x * y) = l * u /\ l * u \in Nat
          BY <1>1, <1>18, <2>2, <3>3
        <4> QED BY <1>6, <1>9, <3>1, <3>3, <4>1
      <3> QED BY <3>2, <3>3
    <2>4. FallsShort(s, l, m) <=> u < -(2 * d)
      <3>1. -200 * E = l * (-(2 * d))
        <4>1. l * (-(2 * d)) = -(2 * (l * d))
          BY <1>1, <1>14
        <4> QED BY <1>6, <1>15, <4>1
      <3>2. l * u < l * (-(2 * d)) <=> u < -(2 * d)
        BY <1>1, <1>14, <1>18
      <3> QED BY <2>3, <3>1, <3>2
    <2>5. N >= 1
      <3>1. m * Q >= 1 * Q
        BY <1>13
      <3>2. N = 0 => u * (2 * N) = 0
        BY <1>18
      <3> QED BY <1>13, <1>14, <1>17, <3>1, <3>2
    <2> DEFINE f == 2 * N - 1
               r == u + d
    <2>6. f \in Nat /\ r \in 0..(u - 1) /\ 100 * q = u * f + r
      <3>1. u * (2 * N - 1) = u * (2 * N) - u
        BY <1>18
      <3> QED BY <1>14, <1>16, <1>17, <1>18, <1>20, <2>5, <3>1
    <2>7. (100 * q) \div u = f /\ (100 * q) % u = r
      <3> DEFINE n == 100 * q
      <3>1. n = u * f + r /\ f \in Nat /\ r \in 0..(u - 1)
        BY <2>6
      <3> HIDE DEF f, r, n
      <3>2. n \div u = f /\ n % u = r
        BY <1>18, <3>1, DivisionUnique
      <3> QED BY <3>2 DEF n
    <2>8. f % 2 = 1
      <3>1. f = 2 * (N - 1) + 1 /\ N - 1 \in Nat /\ 1 \in 0..(2 - 1) /\ 2 \in Nat \ {0}
        BY <2>5
      <3> HIDE DEF f
      <3> QED BY <3>1, DivisionUnique
    <2>9. p = IF 2 * r < u THEN f ELSE f + 1
      <3> HIDE DEF f, r
      <3> QED BY <1>8, <2>7, <2>8
    <2>10. p = IF FallsShort(s, l, m) THEN 2 * N - 1 ELSE 2 * N
      BY <1>14, <1>18, <2>4, <2>9
    <2>11. Q * m = m * Q /\ Q * (m - 1) = Q * m - Q /\ m - 1 \in Nat /\ m \in Nat
      BY <1>13
    <2>12. CASE FallsShort(s, l, m)
      <3>1. p * u = u * (2 * N) - u
        BY <1>18, <2>10, <2>12
      <3>2. p * u = Q * (m - 1) + (Q - u) /\ Q - u \in 0..(Q - 1)
        BY <1>13, <1>14, <1>17, <1>18, <2>11, <3>1
      <3>3. (p * u) \div Q = m - 1
        BY <1>13, <2>11, <3>2, DivisionUnique
      <3> QED BY <1>10, <2>12, <3>3
    <2>13. CASE ~FallsShort(s, l, m)
      <3>1. p * u = u * (2 * N)
        BY <1>18, <2>10, <2>13
      <3>2. p * u = Q * m + 0 /\ 0 \in 0..(Q - 1)
        BY <1>13, <1>14, <1>17, <2>11, <3>1
      <3>3. (p * u) \div Q = m
        BY <1>13, <2>11, <3>2, DivisionUnique
      <3> QED BY <1>10, <2>13, <3>3
    <2> QED BY <2>12, <2>13
  <1> QED BY <1>14, <1>19, <1>20

\* Percent64 is the whole part of what window.go Availability computes in
\* float64, division and product each rounded to the nearest number of 53
\* significant bits, for every window of up to 2^30 results: the shortcut with
\* small integers that the models and the runs use loses nothing.
THEOREM Percent64Correct ==
    ASSUME NEW l \in Results, NEW s \in 1..l
    PROVE  /\ Quotient(s, l) \in TwoTo52..(2 * TwoTo52)
           /\ Product(s, l) \in TwoTo52..(2 * TwoTo52)
           /\ Percent64(s, l) = WholePercent(s, l)
  <1> DEFINE n == 100 * s
             m == n \div l
             t == n % l
  <1>1. l \in Nat \ {0} /\ 1000 * l < TwoTo52
    BY ResultsBelow
  <1>2. s \in Nat \ {0} /\ s \in 0..l
    BY <1>1
  <1>3. m \in 0..100 /\ t \in 0..(l - 1) /\ n = l * m + t
    <2>1. m \in 0..100
      BY <1>1, <1>2, WholePart
    <2>2. n \in Nat
      BY <1>2
    <2> HIDE DEF n
    <2>3. t \in 0..(l - 1) /\ n = l * m + t
      BY <1>1, <2>2, Division
    <2> QED BY <2>1, <2>3
  <1>4. Percent64(s, l) = IF s > 0 /\ t = 0 /\ FallsShort(s, l, m) THEN m - 1 ELSE m
    BY DEF Percent64
  <1> HIDE DEF m, t
  <1>5. CASE t = 0
    <2>1. 100 * s = l * m
      BY <1>1, <1>3, <1>5
    <2>2. m # 0
      BY <1>1, <1>2, <2>1
    <2>3. m \in 1..100
      BY <1>3, <2>2
    <2>4. WholePercent(s, l) = IF FallsShort(s, l, m) THEN m - 1 ELSE m
      BY <2>1, <2>3, ExactCase
    <2>5. s > 0
      BY <1>2
    <2>6. Percent64(s, l) = WholePercent(s, l)
      BY <1>4, <1>5, <2>4, <2>5
    <2> QED BY <2>6, QuotientError, ProductError
  <1>6. CASE t # 0
    <2> DEFINE x == 2^Scale(s, l)
               T == TwoTo52
               Q == Unit(s, l)
               q == Quotient(s, l)
               E == Error(s, l)
               u == Ulp(s, l)
               p == Product(s, l)
    <2>1. x \in Nat \ {0}
      <3>1. Scale(s, l) \in 0..30
        BY ScaleExists
      <3>2. x \in Nat /\ x > 0
        BY <3>1, PowersPositive, Zenon
      <3> HIDE DEF x
      <3> QED BY <3>2
    <2>2. T \in Nat
      BY TwoTo52Size
    <2>3. Q = T * x
      BY DEF Unit
    <2>4. q \in T..(2 * T) /\ E \in Int /\ l * q = s * Q + E /\ -l <= 2 * E /\ 2 * E <= l
      BY QuotientError
    <2>5. u \in {64, 128} /\ p \in T..(2 * T)
          /\ -u <= 2 * (u * p - 100 * q) /\ 2 * (u * p - 100 * q) <= u
      BY ProductError
    <2>6. 1000 * l < T
      BY <1>1
    <2>7. WholePercent(s, l) = (p * u) \div Q
      BY DEF WholePercent
    <2> HIDE DEF x, T, Q, q, E, u, p
    <2>8. q \in Nat /\ p \in Nat /\ u \in Nat /\ u <= 128
      BY <2>2, <2>4, <2>5
    <2>9. Q \in Nat /\ 1000 * l < Q
      <3>1. T * 1 <= T * x /\ T * x \in Nat
        BY <2>1, <2>2
      <3> QED BY <1>1, <2>2, <2>3, <2>6, <3>1
    <2> DEFINE W == p * u
               D == u * p - 100 * q
    <2>10. W \in Nat /\ D \in Int /\ W = 100 * q + D /\ -128 <= 2 * D /\ 2 * D <= 128
      <3>1. p * u = u * p /\ u * p \in Nat
        BY <2>8
      <3> QED BY <2>5, <2>8, <3>1
    <2>11. t \in 1..(l - 1) /\ m \in Nat /\ 100 * s = l * m + t
      BY <1>1, <1>3, <1>6
    <2> HIDE DEF W, D
    <2>12. W \div Q = m
      BY <1>1, <1>2, <2>4, <2>8, <2>9, <2>10, <2>11, InexactCase
    <2>13. Percent64(s, l) = WholePercent(s, l)
      BY <1>4, <1>6, <2>7, <2>12 DEF W
    <2> QED BY <2>4, <2>5, <2>13 DEF T, q, p
  <1> QED BY <1>5, <1>6

-----------------------------------------------------------------------------
(* The windows of size `size' with n successes on top of failures.         *)
Climbing(size, n) ==
    {w \in [buf : [0..(size - 1) -> BOOLEAN], size : {size}, len : {size}, sum : {n},
            head : {IF n = size THEN 0 ELSE n}] :
       \A i \in n..(size - 1) : ~w.buf[i]}

(* The machine has come to n successes in a window of size `size', and its *)
(* state is the verdict on them.                                           *)
Machines(size, n) ==
    [failureThreshold : {1}, trigger : {TriggerAvailability}, minAvailability : Minima,
     state : State, consecutive : Nat, window : Climbing(size, n), lastSuccess : Nat]

At(size, n) ==
    /\ sm \in Machines(size, n)
    /\ sm.state = Healthy <=> Percent64(n, size) >= sm.minAvailability

RInv == \E size \in WindowSizes : \E n \in 0..size : At(size, n)

\* Without a success the percentage is 0.
LEMMA PercentOfNone ==
    ASSUME NEW l \in Nat \ {0}
    PROVE  Percent64(0, l) = 0
  <1>1. 100 * 0 = l * 0 + 0 /\ 0 \in 0..(l - 1)
    OBVIOUS
  <1>2. (100 * 0) \div l = 0
    BY <1>1, DivisionUnique
  <1> QED BY <1>2 DEF Percent64

LEMMA RInit == Init => RInv
  <1> SUFFICES ASSUME Init PROVE RInv
    OBVIOUS
  <1>1. PICK size \in WindowSizes, min \in Minima :
          sm = [NewWithConfig([FailureThreshold |-> 1, WindowSize |-> size,
                               Trigger |-> TriggerAvailability,
                               MinAvailability |-> min])
                EXCEPT !.state = Unhealthy, !.consecutive = size, !.window.len = size]
    BY DEF Init
  <1> DEFINE w == [buf |-> [i \in 0..(size - 1) |-> FALSE], size |-> size, head |-> 0,
                   len |-> size, sum |-> 0]
  <1>2. size \in Nat \ {0} /\ min \in 1..100
    BY RoundingAssumption
  <1>3. w \in Climbing(size, 0)
    BY <1>2 DEF Climbing
  <1>4. sm = [failureThreshold |-> 1, trigger |-> TriggerAvailability,
              minAvailability |-> min, state |-> Unhealthy, consecutive |-> size,
              window |-> w, lastSuccess |-> 0]
    BY <1>1, Zenon DEF NewWithConfig, newWindow, ZeroTime
  <1> HIDE DEF w
  <1>5. Percent64(0, size) = 0
    BY <1>2, PercentOfNone
  <1> QED BY <1>2, <1>3, <1>4, <1>5 DEF RInv, At, Machines, Healthy, Unhealthy, State

\* One more success: the failure at the head leaves the window.
LEMMA AddClimbs ==
    ASSUME NEW size \in Nat \ {0}, NEW n \in 0..(size - 1), NEW w \in Climbing(size, n)
    PROVE  Add(w, TRUE) \in Climbing(size, n + 1)
  <1> DEFINE a == Add(w, TRUE)
  <1>1. /\ w.buf \in [0..(size - 1) -> BOOLEAN] /\ w.size = size /\ w.len = size
        /\ w.sum = n /\ w.head = n /\ ~w.buf[n]
        /\ \A i \in n..(size - 1) : ~w.buf[i]
    BY DEF Climbing
  <1>2. One(Full(w) /\ w.buf[w.head]) = 0 /\ One(TRUE) = 1
    BY <1>1 DEF One
  <1>3. (n + 1) % size = IF n + 1 = size THEN 0 ELSE n + 1
    BY SMT
  <1>4. a = [w EXCEPT !.buf[n] = TRUE, !.head = (n + 1) % size, !.len = size,
                      !.sum = n - 0 + 1]
    BY <1>1, <1>2 DEF Add, Full
  <1>5. a \in [buf : [0..(size - 1) -> BOOLEAN], size : {size}, len : {size}, sum : {n + 1},
               head : {IF n + 1 = size THEN 0 ELSE n + 1}]
    <2>1. PICK h : h = (n + 1) % size
      OBVIOUS
    <2>2. a = [w EXCEPT !.buf = [w.buf EXCEPT ![n] = TRUE], !.head = h, !.len = size,
                        !.sum = n + 1]
      <3>1. n - 0 + 1 = n + 1
        OBVIOUS
      <3> HIDE DEF a
      <3> QED BY <1>4, <2>1, <3>1, Zenon
    <2>3. [w.buf EXCEPT ![n] = TRUE] \in [0..(size - 1) -> BOOLEAN]
      BY <1>1
    <2>4. w \in [buf : [0..(size - 1) -> BOOLEAN], size : {size}, len : {size}, sum : {n},
                 head : {n}]
      BY <1>1 DEF Climbing
    <2>5. h = IF n + 1 = size THEN 0 ELSE n + 1
      BY <1>3, <2>1
    <2> HIDE DEF a
    <2> QED BY <2>2, <2>3, <2>4, <2>5
  <1>6. a.buf = [w.buf EXCEPT ![n] = TRUE]
    BY <1>1, <1>4 DEF Climbing
  <1> HIDE DEF a
  <1>7. \A i \in (n + 1)..(size - 1) : ~a.buf[i]
    BY <1>1, <1>6
  <1> QED BY <1>5, <1>7 DEF Climbing, a

LEMMA RStep == RInv /\ [Next]_sm => RInv'
  <1> SUFFICES ASSUME RInv, Succeed PROVE RInv'
    BY DEF RInv, At, Next
  <1>0. PICK size \in WindowSizes : \E n \in 0..size : At(size, n)
    BY DEF RInv
  <1>1. PICK n \in 0..size : At(size, n)
    BY <1>0, SMTT(20)
  <1> DEFINE v == Add(sm.window, TRUE)
             c == count(sm, TRUE, 1)
             avail == Percent64(n + 1, size)
             min == sm.minAvailability
  <1>2. size \in Nat \ {0} /\ min \in Int /\ n \in 0..(size - 1)
    <2>1. sm.window \in Climbing(size, n) /\ min \in Minima
      BY <1>1 DEF At, Machines
    <2>2. sm.window.sum = n /\ sm.window.size = size
      BY <2>1 DEF Climbing
    <2>3. n < size
      BY <2>2 DEF Succeed
    <2>4. size \in Nat \ {0} /\ min \in Int
      <3> HIDE DEF min
      <3> QED BY <2>1, RoundingAssumption
    <2> QED BY <2>3, <2>4
  <1>3. v \in Climbing(size, n + 1)
    BY <1>1, <1>2, AddClimbs DEF At, Machines
  <1>4. HasWindow(sm)
    BY <1>1, <1>2 DEF At, Machines, HasWindow, IsNil, Climbing
  <1>5. c = [sm EXCEPT !.consecutive = 0, !.lastSuccess = 1, !.window = v]
    BY <1>4, Zenon DEF count
  <1>6. /\ c \in Machines(size, n + 1)
        /\ c.state = sm.state /\ c.window = v /\ c.minAvailability = min
    <2> HIDE DEF c, v
    <2> QED BY <1>1, <1>3, <1>5 DEF At, Machines
  <1>7. HasWindow(c) /\ Full(c.window) /\ Availability(c.window) = avail
    <2>1. v.size = size /\ v.len = size /\ v.sum = n + 1 /\ n + 1 \in 0..size
      <3> HIDE DEF v
      <3> QED BY <1>2, <1>3 DEF Climbing
    <2>2. Percent(n + 1, size) = avail
      BY <2>1, PercentAssumption
    <2> QED BY <1>2, <1>6, <2>1, <2>2 DEF HasWindow, IsNil, Full, Availability
  <1>8. sm' = transitionAvailability(c).sm
    BY <1>1 DEF At, Machines, Succeed, Observe
  <1>9. avail \in Int
    BY <1>2, PercentMonotone
  <1> HIDE DEF c, v, avail, min
  <1>10. sm' = [c EXCEPT !.state = IF avail >= min THEN Healthy ELSE Unhealthy]
    <2>1. c.state \in State
      BY <1>6 DEF Machines
    <2>2. CASE c.state = Healthy
      BY <1>2, <1>6, <1>7, <1>8, <1>9, <2>2
        DEF transitionAvailability, Enter, Healthy, Unhealthy
    <2>3. CASE c.state = Unhealthy
      BY <1>2, <1>6, <1>7, <1>8, <1>9, <2>3
        DEF transitionAvailability, Enter, Healthy, Unhealthy
    <2> QED BY <2>1, <2>2, <2>3 DEF State
  <1>11. At(size, n + 1)'
    BY <1>6, <1>10 DEF At, Machines, State, Healthy, Unhealthy, avail
  <1>12. n + 1 \in 0..size
    BY <1>2
  <1> QED BY <1>11, <1>12 DEF RInv

\* The machine always has come to some number of successes, and its state is
\* the verdict that statemachine.go transitionAvailability makes of them.
THEOREM Invariance == Spec => []RInv
  BY RInit, RStep, PTL DEF Spec

-----------------------------------------------------------------------------
(* The window of 20 results.                                               *)

(* n successes out of 20 are rounded up, or down by too little to matter.  *)
DefaultCase(n, a, b) ==
    LET rest == (n * ((16 * (2^a % 20)) % 20)) % 20
    IN  /\ 20 <= n * 2^a /\ n * 2^a < 40
        /\ 2^b < 5 * n /\ 5 * n < 2^(b + 1)
        /\ rest \in Nat /\ (2 * rest < 20 => 200 * rest <= 20 * 2^a * 2^b)

LEMMA DefaultRounds ==
    ASSUME NEW n \in 1..20, NEW a \in 0..6, NEW b \in 0..6, DefaultCase(n, a, b)
    PROVE  Percent64(n, 20) = 5 * n
  <1> DEFINE rest == (n * ((16 * (2^a % 20)) % 20)) % 20
  <1>1. (100 * n) \div 20 = 5 * n
    <2>1. 100 * n = 20 * (5 * n) + 0 /\ 0 \in 0..19 /\ 5 * n \in Nat
      OBVIOUS
    <2> QED BY <2>1, DivisionUnique
  <1>2. Scale(n, 20) = a
    <2>1. Scales(n, 20, a) /\ a \in 0..30
      BY DEF Scales, DefaultCase
    <2> QED BY <2>1, ScaleUnique
  <1>3. Log2(5 * n) = b /\ 5 * n # 2^b
    <2>0. b \in 0..30 /\ 5 * n \in Nat
      OBVIOUS
    <2>1. 2^b \in Nat
      BY <2>0, PowersPositive
    <2>2. 2^b < 5 * n /\ 5 * n < 2^(b + 1)
      BY DEF DefaultCase
    <2>3. 2^b <= 5 * n /\ 5 * n # 2^b
      BY <2>0, <2>1, <2>2
    <2> QED BY <2>0, <2>2, <2>3, Log2Unique
  <1>4. PowerModulo(a, 20) = (16 * (2^a % 20)) % 20
    <2>1. ((2^26 % 20) * (2^26 % 20)) % 20 = 16
      BY Powers, SMTT(20)
    <2> QED BY <2>1 DEF PowerModulo
  <1>5. Error(n, 20) = IF 2 * rest < 20 THEN -rest ELSE 20 - rest
    BY <1>2, <1>4 DEF Error
  <1>6. rest \in 0..19
    <2>1. rest \in Nat
      BY DEF DefaultCase
    <2> QED BY <2>1
  <1>7. 2 * rest < 20 => 200 * rest <= 20 * 2^a * 2^b
    BY DEF DefaultCase
  <1>8. 2^a \in Nat /\ 2^b \in Nat
    <2>1. a \in 0..30 /\ b \in 0..30
      OBVIOUS
    <2> QED BY <2>1, PowersPositive
  <1>9. 20 * 2^a * 2^b \in Nat
    BY <1>8
  <1> HIDE DEF rest
  <1>10. FallsShort(n, 20, 5 * n) = (-200 * Error(n, 20) * 1 > 20 * 2^a * 2^b)
    BY <1>2, <1>3 DEF FallsShort
  <1>11. ~(-200 * Error(n, 20) * 1 > 20 * 2^a * 2^b)
    <2> DEFINE y == 20 * 2^a * 2^b
    <2> HIDE DEF y
    <2> QED BY <1>5, <1>6, <1>7, <1>9 DEF y
  <1> QED BY <1>1, <1>10, <1>11 DEF Percent64

LEMMA DefaultPercent == \A n \in 0..20 : Percent64(n, 20) = 5 * n
  <1>0. Percent64(0, 20) = 0
    BY PercentOfNone
  <1>1. Percent64(1, 20) = 5
    <2>1. DefaultCase(1, 5, 2)
      BY Powers, SMTT(20) DEF DefaultCase
    <2> QED BY <2>1, DefaultRounds
  <1>2. Percent64(2, 20) = 10
    <2>1. DefaultCase(2, 4, 3)
      BY Powers, SMTT(20) DEF DefaultCase
    <2> QED BY <2>1, DefaultRounds
  <1>3. Percent64(3, 20) = 15
    <2>1. DefaultCase(3, 3, 3)
      BY Powers, SMTT(20) DEF DefaultCase
    <2> QED BY <2>1, DefaultRounds
  <1>4. Percent64(4, 20) = 20
    <2>1. DefaultCase(4, 3, 4)
      BY Powers, SMTT(20) DEF DefaultCase
    <2> QED BY <2>1, DefaultRounds
  <1>5. Percent64(5, 20) = 25
    <2>1. DefaultCase(5, 2, 4)
      BY Powers, SMTT(20) DEF DefaultCase
    <2> QED BY <2>1, DefaultRounds
  <1>6. Percent64(6, 20) = 30
    <2>1. DefaultCase(6, 2, 4)
      BY Powers, SMTT(20) DEF DefaultCase
    <2> QED BY <2>1, DefaultRounds
  <1>7. Percent64(7, 20) = 35
    <2>1. DefaultCase(7, 2, 5)
      BY Powers, SMTT(20) DEF DefaultCase
    <2> QED BY <2>1, DefaultRounds
  <1>8. Percent64(8, 20) = 40
    <2>1. DefaultCase(8, 2, 5)
      BY Powers, SMTT(20) DEF DefaultCase
    <2> QED BY <2>1, DefaultRounds
  <1>9. Percent64(9, 20) = 45
    <2>1. DefaultCase(9, 2, 5)
      BY Powers, SMTT(20) DEF DefaultCase
    <2> QED BY <2>1, DefaultRounds
  <1>10. Percent64(10, 20) = 50
    <2>1. DefaultCase(10, 1, 5)
      BY Powers, SMTT(20) DEF DefaultCase
    <2> QED BY <2>1, DefaultRounds
  <1>11. Percent64(11, 20) = 55
    <2>1. DefaultCase(11, 1, 5)
      BY Powers, SMTT(20) DEF DefaultCase
    <2> QED BY <2>1, DefaultRounds
  <1>12. Percent64(12, 20) = 60
    <2>1. DefaultCase(12, 1, 5)
      BY Powers, SMTT(20) DEF DefaultCase
    <2> QED BY <2>1, DefaultRounds
  <1>13. Percent64(13, 20) = 65
    <2>1. DefaultCase(13, 1, 6)
      BY Powers, SMTT(20) DEF DefaultCase
    <2> QED BY <2>1, DefaultRounds
  <1>14. Percent64(14, 20) = 70
    <2>1. DefaultCase(14, 1, 6)
      BY Powers, SMTT(20) DEF DefaultCase
    <2> QED BY <2>1, DefaultRounds
  <1>15. Percent64(15, 20) = 75
    <2>1. DefaultCase(15, 1, 6)
      BY Powers, SMTT(20) DEF DefaultCase
    <2> QED BY <2>1, DefaultRounds
  <1>16. Percent64(16, 20) = 80
    <2>1. DefaultCase(16, 1, 6)
      BY Powers, SMTT(20) DEF DefaultCase
    <2> QED BY <2>1, DefaultRounds
  <1>17. Percent64(17, 20) = 85
    <2>1. DefaultCase(17, 1, 6)
      BY Powers, SMTT(20) DEF DefaultCase
    <2> QED BY <2>1, DefaultRounds
  <1>18. Percent64(18, 20) = 90
    <2>1. DefaultCase(18, 1, 6)
      BY Powers, SMTT(20) DEF DefaultCase
    <2> QED BY <2>1, DefaultRounds
  <1>19. Percent64(19, 20) = 95
    <2>1. DefaultCase(19, 1, 6)
      BY Powers, SMTT(20) DEF DefaultCase
    <2> QED BY <2>1, DefaultRounds
  <1>20. Percent64(20, 20) = 100
    <2>1. DefaultCase(20, 0, 6)
      BY Powers, SMTT(20) DEF DefaultCase
    <2> QED BY <2>1, DefaultRounds
  <1> QED BY <1>0, <1>1, <1>2, <1>3, <1>4, <1>5, <1>6, <1>7, <1>8, <1>9, <1>10, <1>11,
             <1>12, <1>13, <1>14, <1>15, <1>16, <1>17, <1>18, <1>19, <1>20, SMTT(20)

\* RecoversWithinOne holds for windows of every size and every whole minimum:
\* window.go Availability never lifts a percentage to a minimum that is not
\* reached and delays a recovery by one success at most, and a window without
\* failures is healthy.
THEOREM RecoveryPrompt == Spec => []RecoversWithinOne
  <1>1. RInv => RecoversWithinOne
    <2> SUFFICES ASSUME RInv PROVE RecoversWithinOne
      OBVIOUS
    <2>0. PICK size \in WindowSizes : \E n \in 0..size : At(size, n)
      BY DEF RInv
    <2>1. PICK n \in 0..size : At(size, n)
      BY <2>0
    <2> DEFINE p == Percent64(n, size)
               m == (100 * n) \div size
               min == sm.minAvailability
    <2>2. /\ sm.window.size = size /\ sm.window.sum = n /\ min \in Minima
          /\ sm.state = Healthy <=> p >= min
      BY <2>1 DEF At, Machines, Climbing
    <2>3. size \in Nat \ {0} /\ n \in Nat /\ min \in 1..100
      <3> HIDE DEF min
      <3> QED BY <2>1, <2>2, RoundingAssumption
    <2>4. /\ m \in 0..100 /\ size * m <= 100 * n /\ 100 * n < size * (m + 1)
          /\ p \in {m, m - 1} /\ (p # m => 100 * n = size * m)
      <3>1. n \in 0..size
        OBVIOUS
      <3> HIDE DEF min
      <3>2. m \in 0..100 /\ size * m <= 100 * n /\ 100 * n < size * (m + 1)
        BY <2>3, <3>1, WholePart
      <3>3. p \in {m, m - 1} /\ (p # m => 100 * n = size * m)
        BY <2>3, <3>1, PercentRange
      <3> QED BY <3>2, <3>3
    <2>5. n = size => p = 100
      BY <2>3, PercentOfAll
    <2> HIDE DEF p, m, min
    <2>6. p >= min => 100 * (n - 0) >= min * size
      <3> SUFFICES ASSUME p >= min PROVE 100 * (n - 0) >= min * size
        OBVIOUS
      <3>1. m >= min
        BY <2>3, <2>4
      <3>2. size * m >= size * min
        BY <2>3, <2>4, <3>1
      <3> QED BY <2>3, <2>4, <3>2
    <2>7. 100 * (n - 1) >= min * size => p >= min
      <3> SUFFICES ASSUME 100 * (n - 1) >= min * size PROVE p >= min
        OBVIOUS
      <3>1. 100 * n > size * min
        BY <2>3
      <3>2. CASE p = m
        <4>1. size * min < size * (m + 1)
          BY <2>3, <2>4, <3>1
        <4>2. min < m + 1
          BY <2>3, <2>4, <4>1
        <4> QED BY <2>3, <2>4, <3>2, <4>2
      <3>3. CASE p # m
        <4>1. size * min < size * m
          BY <2>3, <2>4, <3>1, <3>3
        <4>2. min < m
          BY <2>3, <2>4, <4>1
        <4> QED BY <2>3, <2>4, <4>2
      <3> QED BY <3>2, <3>3
    <2> QED BY <2>2, <2>3, <2>5, <2>6, <2>7 DEF RecoversWithinOne, ReachesMinimum, min
  <1> QED BY <1>1, Invariance, PTL

\* DefaultWindowExact holds: in a window of the default size the roundings of
\* window.go Availability never matter.
THEOREM DefaultExact == Spec => []DefaultWindowExact
  <1>1. RInv => DefaultWindowExact
    <2> SUFFICES ASSUME RInv, sm.window.size = 20
                 PROVE  sm.state = Healthy <=> ReachesMinimum(0)
      BY DEF DefaultWindowExact
    <2>0. PICK size \in WindowSizes : \E n \in 0..size : At(size, n)
      BY DEF RInv
    <2>1. PICK n \in 0..size : At(size, n)
      BY <2>0
    <2>2. /\ sm.window.sum = n /\ size = 20 /\ sm.minAvailability \in Minima
          /\ sm.state = Healthy <=> Percent64(n, size) >= sm.minAvailability
      BY <2>1 DEF At, Machines, Climbing
    <2>3. sm.minAvailability \in 1..100 /\ n \in 0..20
      BY <2>1, <2>2, RoundingAssumption
    <2>4. Percent64(n, 20) = 5 * n
      BY <2>3, DefaultPercent
    <2> QED BY <2>2, <2>3, <2>4 DEF ReachesMinimum
  <1> QED BY <1>1, Invariance, PTL

=============================================================================
