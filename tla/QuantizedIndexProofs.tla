------------------------ MODULE QuantizedIndexProofs ------------------------
(***************************************************************************)
(* Proofs about QuantizedIndex, for any number of clients, vectors and     *)
(* batches, and any number of requests of each kind: every row decodes to  *)
(* the vector inserted, a compaction loses none, a search returns what is  *)
(* there, and no insert is lost to a compaction.  They rest on what the    *)
(* quantizer does to numbers, which comes first.                           *)
(***************************************************************************)
EXTENDS QuantizedIndex, IndexStoreProofs
-----------------------------------------------------------------------------
(* Rounding and ranges                                                     *)

(* Round() finds a number no further than one half from the quotient.      *)
LEMMA RoundIsNear ==
  ASSUME NEW a \in Int, NEW b \in Nat \ {0}
  PROVE  /\ Round(a, b) \in Int
         /\ 2 * a - b <= 2 * (b * Round(a, b))
         /\ 2 * (b * Round(a, b)) <= 2 * a + b
<1> DEFINE d == a \div b
           m == a % b
<1>1. d \in Int /\ m \in 0..(b - 1) /\ a = b * d + m
  OBVIOUS
<1>2. Round(a, b) = IF 2 * m < b \/ (2 * m = b /\ d % 2 = 0) THEN d ELSE d + 1
  BY DEF Round
<1> HIDE DEF d, m
<1>3. b * (d + 1) = b * d + b /\ b * d \in Int
  BY <1>1
<1>4. CASE Round(a, b) = d /\ 2 * m <= b
  BY <1>4, <1>1, <1>3
<1>5. CASE Round(a, b) = d + 1 /\ 2 * m >= b
  BY <1>5, <1>1, <1>3
<1>6. QED
  BY <1>1, <1>2, <1>4, <1>5

(* A number far less than one half from an integer is rounded to it.       *)
LEMMA RoundsTo ==
  ASSUME NEW x \in Int, NEW v \in Int, 2 * x - 5100 * v < 2550, 5100 * v - 2 * x < 2550
  PROVE  Round(x, 2550) = v
<1>1. /\ Round(x, 2550) \in Int
      /\ 2 * x - 2550 <= 2 * (2550 * Round(x, 2550))
      /\ 2 * (2550 * Round(x, 2550)) <= 2 * x + 2550
  BY RoundIsNear
<1>2. QED
  BY <1>1

(* A non-empty set of integers within bounds has its maximum and minimum.  *)
LEMMA MinMax ==
  ASSUME NEW S \in SUBSET Int, S # {}, NEW low \in Int, NEW high \in Int,
         \A x \in S : low <= x /\ x <= high
  PROVE  /\ Min(S) \in S /\ \A x \in S : Min(S) <= x
         /\ Max(S) \in S /\ \A x \in S : x <= Max(S)
<1>1. \E x \in S : \A y \in S : x <= y
  <2> DEFINE T == {x - low : x \in S}
  <2>1. \A x \in S : x \in Int /\ x - low \in Nat
    OBVIOUS
  <2>2. T \in SUBSET Nat /\ T # {}
    BY <2>1
  <2>3. PICK m \in T : \A k \in T : m <= k
    <3> HIDE DEF T
    <3>1. QED
      BY <2>2, LeastNumber
  <2>4. PICK x \in S : m = x - low
    OBVIOUS
  <2>5. ASSUME NEW y \in S
        PROVE  x <= y
    <3>1. x - low <= y - low
      BY <2>3, <2>4
    <3>2. x \in Int /\ y \in Int
      OBVIOUS
    <3>3. QED
      BY <3>1, <3>2
  <2>6. QED
    BY <2>5
<1>2. \E x \in S : \A y \in S : x >= y
  <2> DEFINE T == {high - x : x \in S}
  <2>1. \A x \in S : x \in Int /\ high - x \in Nat
    OBVIOUS
  <2>2. T \in SUBSET Nat /\ T # {}
    BY <2>1
  <2>3. PICK m \in T : \A k \in T : m <= k
    <3> HIDE DEF T
    <3>1. QED
      BY <2>2, LeastNumber
  <2>4. PICK x \in S : m = high - x
    OBVIOUS
  <2>5. ASSUME NEW y \in S
        PROVE  x >= y
    <3>1. high - x <= high - y
      BY <2>3, <2>4
    <3>2. x \in Int /\ y \in Int
      OBVIOUS
    <3>3. QED
      BY <3>1, <3>2
  <2>6. QED
    BY <2>5
<1>3. Min(S) \in S /\ \A y \in S : Min(S) <= y
  BY <1>1, Zenon DEF Min
<1>4. Max(S) \in S /\ \A y \in S : Max(S) >= y
  BY <1>2, Zenon DEF Max
<1>5. QED
  BY <1>3, <1>4

LEMMA MinMaxOfTwo ==
  ASSUME NEW a \in Int, NEW b \in Int
  PROVE  /\ Min({a, b}) = IF a <= b THEN a ELSE b
         /\ Max({a, b}) = IF a <= b THEN b ELSE a
<1> DEFINE low == IF a <= b THEN a ELSE b
           high == IF a <= b THEN b ELSE a
           S == {a, b}
<1>1. low \in Int /\ high \in Int /\ S \in SUBSET Int /\ S # {} /\ \A x \in S : low <= x /\ x <= high
  OBVIOUS
<1>2. /\ Min(S) \in S /\ \A x \in S : Min(S) <= x
      /\ Max(S) \in S /\ \A x \in S : x <= Max(S)
  <2> HIDE DEF low, high, S
  <2>1. QED
    BY <1>1, MinMax
<1>3. QED
  BY <1>2

(* A quantizer, as core/quantization.py keeps it.                          *)
IsQuantizer(q) ==
  /\ q \in [fitted : BOOLEAN, min : Int, max : Int, clipped : Nat, total : Nat]
  /\ q.min <= q.max /\ q.clipped <= q.total

(* encode() gives a byte, which is the bucket if that is one.              *)
LEMMA EncodeIsCode ==
  ASSUME NEW q, IsQuantizer(q), NEW v \in Int
  PROVE  /\ Bucket(q, v) \in Int /\ Encode(q, v) \in Codes
         /\ Bucket(q, v) \in Codes => Encode(q, v) = Bucket(q, v)
<1> DEFINE B == Bucket(q, v)
           m == Min({255, B})
           e == Max({0, m})
<1>1. B \in Int
  <2>1. CASE q.max > q.min
    <3>1. (10 * v - q.min) * 255 \in Int /\ q.max - q.min \in Nat \ {0}
      BY <2>1 DEF IsQuantizer
    <3>2. QED
      BY <3>1, <2>1, RoundIsNear DEF Bucket
  <2>2. CASE ~ q.max > q.min
    BY <2>2 DEF Bucket
  <2>3. QED
    BY <2>1, <2>2
<1>2. Encode(q, v) = e
  BY DEF Encode
<1> HIDE DEF B
<1>3. m = IF 255 <= B THEN 255 ELSE B
  BY <1>1, MinMaxOfTwo
<1> HIDE DEF m
<1>4. e = IF 0 <= m THEN m ELSE 0
  <2>1. m \in Int
    BY <1>1, <1>3
  <2>2. QED
    BY <2>1, MinMaxOfTwo
<1> HIDE DEF e
<1>5. QED
  BY <1>1, <1>2, <1>3, <1>4 DEF B, Codes

(* A number's place between two ends, in buckets, and back again.           *)
LEMMA ThereAndBack ==
  ASSUME NEW low \in Int, NEW w \in Nat \ {0}, w < 2550, NEW v \in Int, NEW t \in Int,
         t = (10 * v - low) * 255, NEW e \in Int, e = Round(t, w)
  PROVE  Round(255 * low + e * w, 2550) = v
<1> DEFINE p == w * e
           x == 255 * low + p
<1>1. 2 * t - w <= 2 * p /\ 2 * p <= 2 * t + w
  BY RoundIsNear
<1>2. e * w = p /\ p \in Int
  OBVIOUS
<1> HIDE DEF p
<1>3. x \in Int /\ 2 * x - 5100 * v <= w /\ 5100 * v - 2 * x <= w
  BY <1>1, <1>2
<1> HIDE DEF x
<1>4. 2 * x - 5100 * v < 2550 /\ 5100 * v - 2 * x < 2550
  BY <1>3
<1>5. Round(x, 2550) = v
  BY <1>3, <1>4, RoundsTo
<1>6. QED
  BY <1>5, <1>2 DEF x

(* What is not clipped is read back as it was (core/quantization.py:46-66).*)
LEMMA RoundTrip ==
  ASSUME NEW q, IsQuantizer(q), q.max - q.min < 2550, NEW v \in Int, Bucket(q, v) \in Codes
  PROVE  Decode(q, Encode(q, v)) = v
<1> DEFINE w == q.max - q.min
           e == Encode(q, v)
<1>1. e = Bucket(q, v) /\ e \in 0..255
  BY EncodeIsCode DEF Codes
<1>2. q.min \in Int /\ q.max \in Int /\ q.min <= q.max /\ w \in 0..2549
  BY DEF IsQuantizer
<1>3. Decode(q, e) = Round(255 * q.min + e * w, 2550)
  BY DEF Decode
<1>4. CASE q.max > q.min
  <2> DEFINE t == (10 * v - q.min) * 255
  <2>1. e = Round(t, w)
    BY <1>1, <1>4 DEF Bucket
  <2>2. w \in Nat \ {0} /\ w < 2550 /\ t \in Int /\ e \in Int /\ q.min \in Int
    BY <1>1, <1>2, <1>4
  <2>3. t = (10 * v - q.min) * 255
    OBVIOUS
  <2> HIDE DEF e, w, t
  <2>4. Round(255 * q.min + e * w, 2550) = v
    BY <2>1, <2>2, <2>3, ThereAndBack
  <2>5. QED
    BY <2>4, <1>3 DEF e
<1>5. CASE ~ q.max > q.min
  <2>1. w = 0
    BY <1>2, <1>5
  <2>2. 10 * v = q.min
    BY <1>1, <1>5 DEF Bucket
  <2> DEFINE x == 255 * q.min + e * w
  <2>3. x = 2550 * v
    BY <2>1, <2>2, <1>1, <1>2
  <2> HIDE DEF x
  <2>4. Round(x, 2550) = v
    BY <2>3, RoundsTo
  <2>5. QED
    BY <2>4, <1>3 DEF x
<1>6. QED
  BY <1>4, <1>5

(* The range that fit() takes has a margin on either side of the sample    *)
(* (core/quantization.py:29-44), and every member its bucket.              *)
LEMMA MarginSuffices ==
  ASSUME NEW pad \in Nat \ {0}, NEW d \in 0..pad, NEW t \in Int, t = 255 * (10 * d + pad),
         NEW w \in Nat \ {0}, w = 12 * pad
  PROVE  Round(t, w) \in Codes
<1> DEFINE e == Round(t, w)
           p == pad * e
<1>1. e \in Int /\ 2 * t - w <= 2 * (w * e) /\ 2 * (w * e) <= 2 * t + w
  BY RoundIsNear
<1> HIDE DEF e
<1>2. w * e = 12 * p /\ p \in Int
  BY <1>1
<1>3. e < 0 => p <= - pad
  <2>1. ASSUME e < 0
        PROVE  p <= - pad
    <3>1. e + 1 <= 0
      BY <2>1, <1>1
    <3>2. pad * (e + 1) <= 0
      BY <3>1, <1>1
    <3>3. pad * (e + 1) = p + pad
      BY <1>1
    <3>4. QED
      BY <3>2, <3>3, <1>2
  <2>2. QED
    BY <2>1
<1>4. e > 255 => p >= 256 * pad
  <2>1. ASSUME e > 255
        PROVE  p >= 256 * pad
    <3>1. e - 256 >= 0
      BY <2>1, <1>1
    <3>2. pad * (e - 256) >= 0
      BY <3>1, <1>1
    <3>3. pad * (e - 256) = p - 256 * pad
      BY <1>1
    <3>4. QED
      BY <3>2, <3>3, <1>2
  <2>2. QED
    BY <2>1
<1> HIDE DEF p
<1>5. 2 * t - w <= 24 * p /\ 24 * p <= 2 * t + w
  BY <1>1, <1>2
<1>6. e >= 0 /\ e <= 255
  BY <1>1, <1>2, <1>3, <1>4, <1>5
<1>7. QED
  BY <1>1, <1>6 DEF e, Codes

LEMMA FitHoldsSample ==
  ASSUME NEW S \in SUBSET Int, S # {}, NEW W \in Nat, \A x, y \in S : 12 * (x - y) <= W
  PROVE  LET q == Fit(S) IN
         /\ IsQuantizer(q) /\ q.fitted /\ q.clipped = 0 /\ q.total = 0
         /\ q.max - q.min <= W
         /\ \A v \in S : Bucket(q, v) \in Codes
<1> DEFINE q == Fit(S)
           a == Min(S)
           b == Max(S)
<1>1. /\ a \in S /\ \A x \in S : a <= x
      /\ b \in S /\ \A x \in S : x <= b
  <2>1. PICK z \in S : TRUE
    OBVIOUS
  <2>2. \A x \in S : x \in Int /\ 12 * (x - z) <= W /\ 12 * (z - x) <= W
    OBVIOUS
  <2>3. z \in Int /\ z - W \in Int /\ z + W \in Int
    BY <2>2
  <2>4. \A x \in S : z - W <= x /\ x <= z + W
    BY <2>2, <2>3
  <2>5. QED
    BY <2>3, <2>4, MinMax
<1> HIDE DEF a, b
<1>2. a \in Int /\ b \in Int /\ a <= b /\ 12 * (b - a) <= W
  BY <1>1
<1> DEFINE pad == b - a
<1>3. pad \in Nat
  BY <1>2
<1>4. q = [fitted |-> TRUE, min |-> 10 * a - pad, max |-> 10 * b + pad, clipped |-> 0, total |-> 0]
  <2>1. q = [Unfitted EXCEPT !.fitted = TRUE, !.min = 10 * a - pad, !.max = 10 * b + pad]
    BY DEF Fit, a, b
  <2> HIDE DEF pad, q
  <2>2. QED
    BY <2>1 DEF Unfitted
<1> HIDE DEF q
<1>5. q.fitted /\ q.min = 10 * a - pad /\ q.max = 10 * b + pad /\ q.clipped = 0 /\ q.total = 0
  BY <1>4
<1>6. q.max - q.min = 12 * pad
  BY <1>2, <1>5
<1>7. IsQuantizer(q)
  BY <1>2, <1>3, <1>4, <1>5 DEF IsQuantizer
<1>8. ASSUME NEW v \in S
      PROVE  Bucket(q, v) \in Codes
  <2>1. v \in Int /\ a <= v /\ v <= b
    BY <1>1
  <2>2. CASE pad = 0
    <3>1. q.max = q.min /\ 10 * v = q.min
      BY <2>1, <2>2, <1>2, <1>5
    <3>2. q.min \in Int
      BY <1>7 DEF IsQuantizer
    <3>3. QED
      BY <3>1, <3>2 DEF Bucket, Codes
  <2>3. CASE pad # 0
    <3> DEFINE d == v - a
               t == (10 * v - q.min) * 255
               w == q.max - q.min
    <3>1. q.max > q.min
      BY <2>3, <1>2, <1>3, <1>5
    <3>2. d \in 0..pad /\ pad \in Nat \ {0} /\ w = 12 * pad /\ w \in Nat \ {0}
      BY <2>1, <2>3, <1>2, <1>3, <1>6
    <3>3. t \in Int /\ t = 255 * (10 * d + pad)
      BY <2>1, <1>2, <1>5
    <3>4. Bucket(q, v) = Round(t, w)
      BY <3>1 DEF Bucket
    <3> HIDE DEF d, t, w, pad
    <3>5. pad \in Nat \ {0} /\ d \in 0..pad /\ t \in Int /\ t = 255 * (10 * d + pad)
          /\ w \in Nat \ {0} /\ w = 12 * pad
      BY <3>2, <3>3
    <3>6. Round(t, w) \in Codes
      BY <3>5, MarginSuffices
    <3>7. QED
      BY <3>4, <3>6
  <2>4. QED
    BY <2>2, <2>3
<1>9. QED
  BY <1>2, <1>5, <1>6, <1>7, <1>8 DEF q

(* Two numbers read with one quantizer are not much further apart than its *)
(* ends.                                                                   *)
LEMMA ReadWithinRange ==
  ASSUME NEW q, IsQuantizer(q), NEW c \in Codes, NEW d \in Codes
  PROVE  /\ Decode(q, c) \in Int
         /\ 10 * (Decode(q, c) - Decode(q, d)) <= (q.max - q.min) + 10
<1> DEFINE w == q.max - q.min
           m == q.min
           x == 255 * m + c * w
           y == 255 * m + d * w
<1>1. m \in Int /\ w \in Nat /\ c \in 0..255 /\ d \in 0..255
  BY DEF IsQuantizer, Codes
<1>2. Decode(q, c) = Round(x, 2550) /\ Decode(q, d) = Round(y, 2550)
  BY DEF Decode
<1> HIDE DEF w, m
<1>3. x \in Int /\ y \in Int /\ c * w \in Int /\ d * w \in Int
  BY <1>1
<1>4. x - y = c * w - d * w
  BY <1>1, <1>3
<1>5. c * w <= 255 * w /\ 0 <= d * w
  <2>1. (255 - c) * w >= 0 /\ d * w >= 0
    BY <1>1
  <2>2. (255 - c) * w = 255 * w - c * w
    BY <1>1
  <2>3. QED
    BY <2>1, <2>2, <1>1, <1>3
<1> HIDE DEF x, y
<1>6. /\ Round(x, 2550) \in Int /\ 2 * (2550 * Round(x, 2550)) <= 2 * x + 2550
      /\ Round(y, 2550) \in Int /\ 2 * y - 2550 <= 2 * (2550 * Round(y, 2550))
  BY <1>3, RoundIsNear
<1>7. x - y <= 255 * w
  BY <1>1, <1>3, <1>4, <1>5
<1>8. 10 * (Round(x, 2550) - Round(y, 2550)) <= w + 10
  BY <1>1, <1>3, <1>6, <1>7
<1>9. QED
  BY <1>2, <1>6, <1>8 DEF w

(* The widths that compactions can reach grow, and stay below that of a    *)
(* bucket: with WidthAssumption.                                           *)
Width == [0..MaxCompactions -> Nat]

LEMMA WidestGrows ==
  /\ Widest \in Width /\ Widest[0] = 12 * Largest
  /\ \A k \in 1..MaxCompactions : Widest[k] = (6 * Widest[k - 1]) \div 5 + 12
<1> DEFINE n == MaxCompactions
           With(k, x) == (6 * x) \div 5 + 12
           step == [k \in 1..n |-> [x \in Nat |-> With(k, x)]]
           Defines(g) == g = [k \in 0..n |-> IF k = 0 THEN 12 * Largest ELSE With(k, g[k - 1])]
<1>1. n \in Nat /\ 12 * Largest \in Nat
  BY QuantizedAssumption
<1>2. step \in Steps(n, Nat)
  <2>1. \A k \in 1..n, x \in Nat : With(k, x) \in Nat
    OBVIOUS
  <2> HIDE DEF With, n
  <2>2. QED
    BY <2>1 DEF Steps
<1>3. PICK f : Follows(f, n, Nat, 12 * Largest, step)
  <2> DEFINE c == 12 * Largest
  <2> HIDE DEF n, step, c
  <2>1. \E f : Follows(f, n, Nat, c, step)
    BY <1>1, <1>2, Recursion DEF c
  <2>2. QED
    BY <2>1 DEF c
<1>4. f \in [0..n -> Nat] /\ f[0] = 12 * Largest /\ \A k \in 1..n : f[k] = With(k, f[k - 1])
  <2>1. \A k \in 1..n : f[k - 1] \in Nat
    BY <1>1, <1>3 DEF Follows
  <2>2. QED
    BY <1>3, <2>1 DEF Follows
<1>5. Defines(f)
  <2>1. \A k \in 0..n : k # 0 => k \in 1..n
    BY <1>1
  <2> HIDE DEF With, n
  <2>2. QED
    BY <1>4, <2>1
<1>6. Widest = CHOOSE g : Defines(g)
  BY DEF Widest
<1>7. Defines(Widest)
  <2> HIDE DEF Defines
  <2>1. QED
    BY <1>5, <1>6, Zenon
<1>8. /\ DOMAIN Widest = 0..n /\ Widest[0] = 12 * Largest
      /\ \A k \in 1..n : Widest[k] = With(k, Widest[k - 1])
  <2>1. 0 \in 0..n /\ \A k \in 1..n : k \in 0..n /\ k # 0
    BY <1>1
  <2> HIDE DEF With, n
  <2>2. QED
    BY <1>7, <2>1
<1> DEFINE T == {k \in 0..n : Widest[k] \in Nat}
<1>9. 0..n \subseteq T
  <2>1. 0 \in T
    BY <1>1, <1>8
  <2>2. ASSUME NEW k \in 1..n, k - 1 \in T
        PROVE  k \in T
    BY <1>1, <1>8, <2>2
  <2> HIDE DEF T
  <2>3. QED
    BY <1>1, <2>1, <2>2, UpTo
<1>10. Widest \in Width
  <2> HIDE DEF With
  <2>1. Widest = [k \in 0..n |-> Widest[k]]
    BY <1>7
  <2>2. QED
    BY <2>1, <1>9 DEF Width
<1>11. QED
  BY <1>8, <1>10

LEMMA WidestIsNarrow ==
  /\ \A k \in 0..MaxCompactions :
       Widest[k] \in Nat /\ Widest[k] < 2550 /\ 12 * Largest <= Widest[k]
  /\ \A k \in 1..MaxCompactions : Widest[k - 1] <= Widest[k]
<1> DEFINE n == MaxCompactions
           Up == {k \in 0..n : 12 * Largest <= Widest[k]}
           Down == {j \in 0..n : Widest[n - j] <= Widest[n]}
<1>1. n \in Nat /\ Largest \in Nat /\ Widest[n] < 2550
  BY QuantizedAssumption, WidthAssumption
<1>2. \A k \in 0..n : Widest[k] \in Nat
  BY WidestGrows DEF Width
<1>3. ASSUME NEW k \in 1..n
      PROVE  Widest[k - 1] <= Widest[k]
  <2>1. k - 1 \in 0..n
    BY <1>1
  <2>2. Widest[k - 1] \in Nat /\ Widest[k] = (6 * Widest[k - 1]) \div 5 + 12
    BY <1>2, <2>1, WidestGrows
  <2>3. QED
    BY <2>2
<1>4. 0..n \subseteq Up
  <2>1. 0 \in Up
    BY <1>1, WidestGrows
  <2>2. ASSUME NEW k \in 1..n, k - 1 \in Up
        PROVE  k \in Up
    <3>1. k \in 0..n /\ k - 1 \in 0..n
      BY <1>1
    <3>2. 12 * Largest \in Nat /\ Widest[k] \in Nat /\ Widest[k - 1] \in Nat
      BY <3>1, <1>1, <1>2
    <3>3. QED
      BY <3>1, <3>2, <1>3, <2>2
  <2> HIDE DEF Up
  <2>3. QED
    BY <1>1, <2>1, <2>2, UpTo
<1>5. 0..n \subseteq Down
  <2>1. 0 \in Down
    BY <1>1, <1>2
  <2>2. ASSUME NEW j \in 1..n, j - 1 \in Down
        PROVE  j \in Down
    <3> DEFINE k == n - (j - 1)
    <3>1. k \in 1..n /\ k \in 0..n /\ k - 1 \in 0..n /\ k - 1 = n - j /\ n \in 0..n /\ j \in 0..n
      BY <1>1
    <3>2. Widest[k] \in Nat /\ Widest[k - 1] \in Nat /\ Widest[n] \in Nat
      BY <3>1, <1>2
    <3>3. Widest[k - 1] <= Widest[k] /\ Widest[k] <= Widest[n]
      BY <3>1, <1>3, <2>2
    <3> HIDE DEF k
    <3>4. QED
      BY <3>1, <3>2, <3>3
  <2> HIDE DEF Down
  <2>3. QED
    BY <1>1, <2>1, <2>2, UpTo
<1>6. ASSUME NEW k \in 0..n
      PROVE  Widest[k] < 2550
  <2>1. n - k \in 0..n /\ n - (n - k) = k /\ n \in 0..n
    BY <1>1
  <2>2. Widest[k] <= Widest[n] /\ Widest[k] \in Nat /\ Widest[n] \in Nat
    BY <2>1, <1>2, <1>5
  <2>3. QED
    BY <2>2, <1>1
<1>7. QED
  BY <1>2, <1>3, <1>4, <1>6
-----------------------------------------------------------------------------
(* Indexes of codes                                                        *)

(* An index between any two steps of the endpoints: its rows hold bytes,   *)
(* and it is without an entry point only when nothing is live.             *)
Usable(ix) ==
  /\ Formed(ix) /\ ix.maxLayer \in Int
  /\ \A i \in DOMAIN ix.vectors : ix.vectors[i] \in Codes
  /\ ix.entryPoint = None => Live(ix) = {}

LEMMA Constants ==
  /\ None \notin Nat /\ None \notin Clients /\ 0 \in Codes /\ Zero = 0 /\ Codes \subseteq Nat
  /\ Values \subseteq Nat /\ Values \subseteq Codes
<1>1. Largest \in Nat /\ Values \subseteq 0..Largest /\ MaxCompactions \in Nat
  BY QuantizedAssumption
<1>2. 12 * Largest < 2550
  <2>1. MaxCompactions \in 0..MaxCompactions
    BY <1>1
  <2>2. /\ Widest[MaxCompactions] \in Nat /\ Widest[MaxCompactions] < 2550
        /\ 12 * Largest <= Widest[MaxCompactions]
    BY <2>1, WidestIsNarrow
  <2>3. QED
    BY <2>2, <1>1
<1>3. Values \subseteq Codes
  BY <1>1, <1>2 DEF Codes
<1>4. QED
  BY <1>1, <1>3, QuantizedAssumption DEF Codes

(* Links and entry points change nothing else.                             *)
LEMMA StillUsable ==
  ASSUME NEW ix, Usable(ix), NEW jx, Formed(jx), jx.vectors = ix.vectors, jx.maxLayer \in Int,
         jx.entryPoint = None => Live(jx) = {}
  PROVE  Usable(jx)
BY DEF Usable

LEMMA EmptyIsUsable == Usable(EmptyIndex) /\ DOMAIN EmptyIndex.nodes = {}
<1>1. /\ EmptyIndex.maxLayer = -1 /\ DOMAIN EmptyIndex.vectors = {} /\ DOMAIN EmptyIndex.nodes = {}
  BY DEF EmptyIndex
<1>2. Live(EmptyIndex) = {}
  BY <1>1 DEF Live
<1>3. QED
  BY <1>1, <1>2, EmptyIsFormed DEF Usable

(* A new index is usable.                                                  *)
LEMMA SoundIsUsable ==
  ASSUME NEW ix, Sound(ix), \A i \in DOMAIN ix.vectors : ix.vectors[i] \in Codes
  PROVE  Usable(ix)
<1>1. /\ IsRecord(ix) /\ ix.nextId \in Nat /\ ix.nodes \in [0..(ix.nextId - 1) -> AnyNode]
      /\ ix.vectors = [i \in 0..(ix.nextId - 1) |-> ix.vectors[i]]
  BY DEF Sound, Tables
<1>2. InOrder(ix, ix.nextId)
  <2>1. DOMAIN ix.nodes = 0..(ix.nextId - 1)
    BY <1>1
  <2>2. QED
    BY <2>1 DEF Sound, Enumerated, InOrder
<1>3. Live(ix) \subseteq DOMAIN ix.nodes
  BY DEF Live
<1>4. ix.entryPoint \in DOMAIN ix.nodes \cup {None}
  BY <1>3 DEF Sound, Entry
<1>5. ix.maxLayer \in Int
  BY <1>1, <1>3 DEF Sound, Entry, AnyNode
<1>6. ix.entryPoint = None => Live(ix) = {}
  BY <1>1, <1>3, Constants DEF Sound, Entry
<1>7. Formed(ix)
  BY <1>1, <1>2, <1>4 DEF Formed
<1>8. QED
  BY <1>5, <1>6, <1>7 DEF Usable

(* reserve(), or a record of the log with an id that was not there.        *)
LEMMA AddUsable ==
  ASSUME NEW ix, Usable(ix), NEW id \in Nat, id \notin DOMAIN ix.nodes, NEW v \in Codes
  PROVE  LET r == AddNode(ix, id, v, 0) IN
         /\ Usable(r) /\ DOMAIN r.nodes = DOMAIN ix.nodes \cup {id}
         /\ r.vectors[id] = v /\ \A i \in DOMAIN ix.nodes : r.vectors[i] = ix.vectors[i]
         /\ Live(r) = Live(ix) \cup {id} /\ r.entryPoint # None
<1> DEFINE r == AddNode(ix, id, v, 0)
           n == ix.nextId
           size == IF id >= n THEN id + 1 ELSE n
<1>1. Formed(ix) /\ IsRecord(ix) /\ ix.maxLayer \in Int
  BY DEF Usable, Formed
<1>2. /\ r.vectors = [i \in 0..(size - 1) |-> IF i = id THEN v ELSE Row(ix, i)]
      /\ r.maxLayer \in {0, ix.maxLayer}
  BY <1>1, EnterFields DEF AddNode, IsRecord, Fields, Enter
<1>3. /\ Formed(r) /\ Keeps(ix, r) /\ Holds(r, id, v) /\ DOMAIN r.nodes = DOMAIN ix.nodes \cup {id}
      /\ r.entryPoint = IF ix.entryPoint = None THEN id ELSE ix.entryPoint
  BY <1>1, AddNodeKeeps
<1>4. /\ \A i \in DOMAIN ix.nodes : r.nodes[i] = ix.nodes[i]
      /\ ~ r.nodes[id].tombstone
  BY <1>1, AddNodeLinks
<1> HIDE DEF r, size
<1>5. r.maxLayer \in Int
  BY <1>1, <1>2
<1>6. \A i \in DOMAIN r.vectors : r.vectors[i] \in Codes
  <2>1. \A i : Row(ix, i) \in Codes
    BY Constants DEF Row, Usable
  <2>2. QED
    BY <2>1, <1>2
<1>7. Live(r) = Live(ix) \cup {id}
  BY <1>3, <1>4 DEF Live
<1>8. r.entryPoint # None
  BY <1>3, Constants
<1>9. Usable(r)
  BY <1>3, <1>5, <1>6, <1>8 DEF Usable
<1>10. QED
  BY <1>3, <1>7, <1>8, <1>9 DEF r, Keeps, Holds

(* link()                                                                  *)
LEMMA LinkUsable ==
  ASSUME NEW ix, Usable(ix), NEW id \in DOMAIN ix.nodes, ix.entryPoint # None
  PROVE  LET r == Link(ix, id) IN
         Usable(r) /\ Same(ix, r) /\ Live(r) = Live(ix) /\ r.entryPoint # None
<1> DEFINE r == Link(ix, id)
<1>1. Formed(ix) /\ IsRecord(ix) /\ ix.maxLayer \in Int
  BY DEF Usable, Formed
<1>2. CASE id = ix.entryPoint
  BY <1>2 DEF Link, Same
<1>3. CASE id # ix.entryPoint
  <2>0. ASSUME NEW jx, IsRecord(jx), NEW ids, NEW links
        PROVE  /\ IsRecord(Relinked(jx, ids, links))
               /\ Relinked(jx, ids, links).maxLayer = jx.maxLayer
    BY <2>0 DEF Relinked, IsRecord, Fields
  <2>1. Tied(ix, r) /\ r.entryPoint \in {ix.entryPoint, id}
    BY <1>1, <1>3, LinkLinks
  <2>2. r.maxLayer \in Int
    <3> DEFINE chosen == Chosen(ix, id)
               a == LinkOut(ix, id, chosen)
               b == LinkBack(a, id, chosen)
               level == ix.nodes[id].level
    <3>1. r = Promote(b, id, level)
      BY <1>3 DEF Link
    <3>2. level \in Int
      BY DEF Usable, Formed, AnyNode
    <3> HIDE DEF chosen, level, r
    <3>3. IsRecord(a) /\ a.maxLayer = ix.maxLayer
      <4>1. a = ix \/ \E links : a = Relinked(ix, {id}, links)
        BY DEF LinkOut
      <4>2. QED
        BY <4>1, <2>0, <1>1
    <3> HIDE DEF a
    <3>4. IsRecord(b) /\ b.maxLayer = ix.maxLayer
      <4>1. b = a \/ b = Relinked(a, chosen \cup {id}, "full")
        BY DEF LinkBack
      <4>2. QED
        BY <4>1, <2>0, <3>3
    <3> HIDE DEF b
    <3>5. r.maxLayer \in {ix.maxLayer, level}
      BY <3>1, <3>4, EnterFields DEF Promote
    <3>6. QED
      BY <3>2, <3>5, <1>1
  <2>3. Live(r) = Live(ix) /\ Same(ix, r)
    <3>1. Live(r) = DOMAIN r.nodes \ Dead(r) /\ Live(ix) = DOMAIN ix.nodes \ Dead(ix)
      BY <1>1, <2>1, LiveNotDead DEF Tied
    <3>2. QED
      BY <3>1, <2>1 DEF Tied, Same
  <2>4. r.entryPoint # None
    BY <2>1, Constants DEF Usable, Formed
  <2> HIDE DEF r
  <2>5. Usable(r)
    BY <2>1, <2>2, <2>3, <2>4, StillUsable DEF Tied, Same
  <2>6. QED
    BY <2>3, <2>4, <2>5 DEF r
<1>4. QED
  BY <1>2, <1>3

(* delete()                                                                *)
LEMMA DeleteUsable ==
  ASSUME NEW ix, Usable(ix), NEW id \in Live(ix)
  PROVE  LET r == Tombstone(ix, id) IN
         Usable(r) /\ Same(ix, r) /\ Live(r) = Live(ix) \ {id}
<1> DEFINE r == Tombstone(ix, id)
           b == Buried(ix, id)
<1>1. Formed(ix) /\ IsRecord(ix) /\ ix.maxLayer \in Int /\ id \in DOMAIN ix.nodes
  BY DEF Usable, Formed, Live
<1>2. /\ Formed(r) /\ Same(ix, r) /\ Dead(r) = Dead(ix) \cup {id}
      /\ id # ix.entryPoint => r.entryPoint = ix.entryPoint
      /\ id = ix.entryPoint => r.entryPoint \in Live(r) \/ (r.entryPoint = None /\ Live(r) = {})
  BY <1>1, TombstoneLinks, Constants
<1>3. Live(r) = Live(ix) \ {id}
  <2>1. Live(r) = DOMAIN r.nodes \ Dead(r) /\ Live(ix) = DOMAIN ix.nodes \ Dead(ix)
    BY <1>1, <1>2, LiveNotDead
  <2>2. QED
    BY <2>1, <1>2 DEF Same
<1>4. r.maxLayer \in Int
  <2>1. /\ IsRecord(b) /\ b.maxLayer = ix.maxLayer
        /\ b.nodes = [ix.nodes EXCEPT ![id].tombstone = TRUE]
        /\ b.order = ix.order
    BY <1>1, BuriedFields
  <2>2. r = IF id = ix.entryPoint THEN Reassigned(b) ELSE b
    BY DEF Tombstone
  <2> HIDE DEF b, r
  <2>3. DOMAIN b.nodes = DOMAIN ix.nodes /\ \A i \in DOMAIN b.nodes : b.nodes[i].level \in Int
    BY <2>1, <1>1 DEF Formed, AnyNode
  <2>4. PICK c \in Nat : InOrder(ix, c)
    BY <1>1 DEF Formed
  <2>5. InOrder(b, c)
    BY <2>1, <2>3, <2>4 DEF InOrder
  <2>6. Live(b) # {} => Head(LiveIds(b)) \in DOMAIN b.nodes
    <3>1. LiveIds(b) \in Seq(Live(b)) /\ ToSet(LiveIds(b)) = Live(b)
      BY <2>5, LiveIdsInOrder
    <3>2. Live(b) # {} => LiveIds(b) # << >>
      BY <3>1 DEF ToSet
    <3>3. Live(b) # {} => Head(LiveIds(b)) \in Live(b)
      BY <3>1, <3>2
    <3>4. QED
      BY <3>3 DEF Live
  <2>7. Reassigned(b).maxLayer \in Int
    BY <2>1, <2>3, <2>6, EnterFields DEF Reassigned
  <2>8. QED
    BY <2>1, <2>2, <2>7, <1>1
<1> HIDE DEF r
<1>5. r.entryPoint = None => Live(r) = {}
  <2>1. id # ix.entryPoint => r.entryPoint = ix.entryPoint
    BY <1>2
  <2>2. CASE id # ix.entryPoint
    BY <2>1, <2>2, <1>3 DEF Usable
  <2>3. CASE id = ix.entryPoint
    <3>1. None \notin Live(r)
      BY <1>2, Constants DEF Live, Formed
    <3>2. QED
      BY <2>3, <3>1, <1>2
  <2>4. QED
    BY <2>2, <2>3
<1>6. Usable(r)
  BY <1>2, <1>4, <1>5, StillUsable DEF Same
<1>7. QED
  BY <1>2, <1>3, <1>6 DEF r
-----------------------------------------------------------------------------
(* The inductive invariant                                                 *)

CallFields == {"at", "job", "id", "vec", "row", "range", "todo", "rows", "found", "hits",
               "mixed", "live", "missed"}
IsCall(k) == k = [f \in CallFields |-> k[f]]

PastFields == {"submitted", "acked", "erased", "spoilt", "unfit", "emptied", "crossed", "broken",
               "fits", "compactions", "searches", "restarts"}

Swaps    == {"nodes", "entry", "quantizer"}
Searches == {"reading", "decoding", "expanding", "answering", "answered"}

(* Which request can be at which place.                                    *)
Jobs == [at : {"idle"}, job : {"none"}] \cup
        [at : {"encoded", "reserved"}, job : {"insert", "compact"}] \cup
        [at : {"done"}, job : {"insert", "delete"}] \cup
        [at : {"rebuilding", "replaying"} \cup Swaps, job : {"compact"}] \cup
        [at : Searches, job : {"search"}]

(* A row that a compaction has copied.                                     *)
Copied == [id : Nat, vec : Int, meta : Values]

(* What a row stands for, by the range that it is read with.               *)
Means(range, row) ==
  IF quantized THEN Decode([min |-> range[1], max |-> range[2]], row) ELSE row

(* What is stored for a vector is that vector, or known to be spoilt.      *)
Right(v, m) == m \in past.spoilt \/ v = m

(* What every index is, even one that is half swapped.                     *)
Shelved(ix) ==
  /\ IsRecord(ix)
  /\ DOMAIN ix.nodes \subseteq Nat /\ ix.nextId \in Nat /\ ix.entryPoint \in Nat \cup {None}
  /\ \A i \in DOMAIN ix.vectors : ix.vectors[i] \in Codes

PastInv ==
  /\ past = [f \in PastFields |-> past[f]]
  /\ past.submitted \subseteq Values
  /\ past.unfit \in BOOLEAN /\ past.emptied \in BOOLEAN /\ past.crossed \in BOOLEAN
  /\ past.restarts \in Nat /\ past.compactions \in 0..MaxCompactions

QuantizerInv ==
  /\ quantized \in BOOLEAN /\ up \in BOOLEAN /\ writes \in 0..SnapshotEvery
  /\ IsQuantizer(quantizer) /\ (quantizer.fitted => quantized)
  /\ quantizer.max - quantizer.min <= Widest[past.compactions]

IndexInv ==
  /\ Shelved(index) /\ DOMAIN meta = DOMAIN index.nodes /\ meta = [i \in DOMAIN meta |-> meta[i]]
  /\ \A i \in DOMAIN meta : meta[i] \in past.submitted
  /\ Unlocked => Usable(index)

(* The records of the log.                                                 *)
Lines == [op : {"insert", "delete"}, id : Nat, vec : Values \cup {Zero}, ended : BOOLEAN]

DiskInv ==
  /\ disk = [f \in {"exists", "saved", "meta", "log"} |-> disk[f]]
  /\ disk.exists \in BOOLEAN
  /\ Usable(disk.saved) /\ DOMAIN disk.meta = DOMAIN disk.saved.nodes
  /\ disk.meta = [i \in DOMAIN disk.meta |-> disk.meta[i]]
  /\ \A i \in DOMAIN disk.meta : disk.meta[i] \in past.submitted
  /\ disk.log \in Seq(Lines)
  /\ \A k \in DOMAIN disk.log : disk.log[k].op = "insert" => disk.log[k].vec \in past.submitted

(* What a request holds, and that a compaction holds rows of one range.    *)
CallInv(c) ==
  LET k == call[c] IN
  /\ IsCall(k) /\ [at |-> k.at, job |-> k.job] \in Jobs
  /\ k.id \in Nat /\ k.vec \in Values \cup {Zero} /\ k.row \in Codes
  /\ k.job = "insert" \/ k.at = "encoded" => k.vec \in past.submitted
  /\ k.live \in Seq(Copied)
  /\ \A j \in DOMAIN k.live : /\ k.live[j].meta \in past.submitted
                              /\ quantized \/ k.live[j].vec \in Codes
  /\ quantized => \A i, j \in DOMAIN k.live :
                     12 * (k.live[i].vec - k.live[j].vec) <= Widest[past.compactions]
  /\ \A row \in k.missed : /\ row = [vec |-> row.vec, meta |-> row.meta]
                           /\ row.vec \in Int /\ row.meta \in past.submitted
                           /\ quantized \/ row.vec \in Codes

(* NewQuantizer() and NewIndex(), by the flag that they read.              *)
QuantizerOf(flag, live) ==
  IF ~ flag \/ live = << >> THEN Unfitted
  ELSE LET q == Fit({live[k].vec : k \in DOMAIN live})
       IN  [q EXCEPT !.total = Len(live),
                     !.clipped = Cardinality({k \in DOMAIN live : Bucket(q, live[k].vec) \notin Codes})]

IndexOf(flag, live) ==
  LET q == QuantizerOf(flag, live) IN
  Rebuilt([k \in DOMAIN live |->
             [vec |-> IF flag THEN Encode(q, live[k].vec) ELSE live[k].vec]],
          [k \in DOMAIN live |-> 0])

(* The lock, and how far the swap that it covers has come.                 *)
Relabelled(live) == [i \in 0..(Len(live) - 1) |-> live[i + 1].meta]

Swapped(c) ==
  LET k   == call[c]
      new == IndexOf(quantized, k.live)
  IN  /\ index.vectors = new.vectors
      /\ k.at # "nodes" => /\ index.nodes = new.nodes /\ index.order = new.order
                           /\ meta = Relabelled(k.live)
      /\ k.at = "quantizer" => /\ index.entryPoint = new.entryPoint
                               /\ index.maxLayer = new.maxLayer
                               /\ index.nextId = new.nextId

SwapInv ==
  /\ writer \in Clients \cup {None}
  /\ \A c \in Clients : call[c].at \in Swaps <=> writer = c
  /\ \A c \in Clients : call[c].at \in Swaps => Swapped(c)

TypeInv ==
  /\ PastInv /\ QuantizerInv /\ IndexInv /\ DiskInv /\ SwapInv
  /\ call = [c \in Clients |-> call[c]] /\ \A c \in Clients : CallInv(c)

(* Every vector on its way is right, wherever it is.                       *)
HeldRight(c) ==
  LET k == call[c] IN
  /\ k.at = "encoded" => Right(Means(k.range, k.row), k.vec)
  /\ \A j \in DOMAIN k.live : Right(k.live[j].vec, k.live[j].meta)
  /\ \A row \in k.missed : Right(row.vec, row.meta)

RowsRight == \A i \in DOMAIN meta : Right(Value(quantizer, index.vectors[i]), meta[i])

DataInv ==
  /\ Unlocked => RowsRight
  /\ \A c \in Clients : HeldRight(c)

(* As long as nothing is lost, what was inserted can be decoded.           *)
FittedInv ==
  /\ past.restarts = 0 => quantized
  /\ past.restarts = 0 /\ ~ past.unfit /\ past.submitted # {} => quantizer.fitted

(* What a search knows under which the index was not exchanged.            *)
SearchInv(c) ==
  LET k == call[c] IN
  k.job = "search" /\ ~ k.mixed =>
    /\ Unlocked /\ past.submitted # {}
    /\ k.todo \subseteq DOMAIN meta /\ DOMAIN k.found \subseteq DOMAIN meta
    /\ k.at = "decoding" => \A i \in k.todo : k.rows[i] = index.vectors[i]
    /\ \A i \in DOMAIN k.found : Right(k.found[i], meta[i])
    /\ \A hit \in k.hits : Right(hit.distanceOf, hit.meta)

ReadInv == FittedInv /\ ~ past.broken /\ \A c \in Clients : SearchInv(c)

(* Nothing has happened that the inserts kept are excepted from.           *)
Calm == ~ (past.unfit \/ past.emptied \/ past.crossed \/ past.restarts > 0)

LiveMetas  == {meta[i] : i \in Live(index)}
Metas(k)   == {row.meta : row \in k.missed}
Copies(k)  == {k.live[j].meta : j \in DOMAIN k.live}
Promised   == past.acked \cup
              {call[c].vec : c \in {d \in Clients : call[d].job = "insert"
                                                    /\ call[d].at \in {"reserved", "done"}}}

(* Where the vectors are that were acknowledged, or will be.               *)
InHands(k) == Metas(k) \cup {v \in {k.vec} : k.at = "encoded"}
InCompaction == UNION {InHands(call[c]) : c \in {d \in Clients : call[d].job = "compact"}}

CompactInv(c) ==
  LET k == call[c] IN
  /\ k.at = "rebuilding" => k.missed = {} /\
       \A j \in DOMAIN k.live : /\ k.live[j].id \in DOMAIN meta
                                /\ meta[k.live[j].id] = k.live[j].meta
  /\ k.at = "nodes" => LiveMetas \subseteq Copies(k) \cup Metas(k)
  /\ k.at = "reserved" => k.id \in DOMAIN meta /\ Live(index) # {}

KeepInv ==
  /\ Promised \ past.erased \subseteq LiveMetas \cup InCompaction
  /\ \A c, d \in Clients : call[c].job = "compact" /\ call[d].job = "compact" => c = d
  /\ \A c \in Clients : call[c].job = "compact" => CompactInv(c)

IInv == TypeInv /\ DataInv /\ ReadInv /\ (Calm => KeepInv)
-----------------------------------------------------------------------------
(* Rows, what they stand for, and what a compaction makes of them          *)

LEMMA ValueBySpan ==
  ASSUME NEW q, NEW row
  PROVE  Value(q, row) = Means(Span(q), row)
BY DEF Value, Means, Span, Decode

(* insert() has the quantizer count the vector.                            *)
LEMMA TrackedStays ==
  ASSUME NEW q, IsQuantizer(q), NEW v
  PROVE  /\ IsQuantizer(Tracked(q, v)) /\ Span(Tracked(q, v)) = Span(q)
         /\ Tracked(q, v).fitted = q.fitted
<1> DEFINE m == IF Bucket(q, v) \in Codes THEN q.clipped ELSE q.clipped + 1
<1>1. q \in [fitted : BOOLEAN, min : Int, max : Int, clipped : Nat, total : Nat]
      /\ q.min <= q.max /\ q.clipped <= q.total
  BY DEF IsQuantizer
<1>2. Tracked(q, v) = [q EXCEPT !.total = q.total + 1, !.clipped = m]
  BY <1>1 DEF Tracked
<1>3. m \in Nat /\ m <= q.total + 1
  BY <1>1
<1> HIDE DEF m
<1>4. Tracked(q, v) = [fitted |-> q.fitted, min |-> q.min, max |-> q.max,
                       clipped |-> m, total |-> q.total + 1]
  BY <1>1, <1>2
<1>5. QED
  BY <1>1, <1>3, <1>4 DEF IsQuantizer, Span

(* Where the rows of a usable index are.                                   *)
LEMMA RowsOfUsable ==
  ASSUME NEW ix, Usable(ix)
  PROVE  /\ ix.nextId \in Nat /\ DOMAIN ix.nodes \subseteq 0..(ix.nextId - 1)
         /\ ix.nextId \notin DOMAIN ix.nodes
         /\ Shelved(ix) /\ Live(ix) \subseteq DOMAIN ix.nodes
         /\ Findable(ix) \subseteq DOMAIN ix.nodes
         /\ \A i \in DOMAIN ix.nodes : Row(ix, i) = ix.vectors[i] /\ ix.vectors[i] \in Codes
         /\ LiveIds(ix) \in Seq(Live(ix)) /\ ToSet(LiveIds(ix)) = Live(ix)
<1>1. Formed(ix) /\ ix.nextId \in Nat /\ DOMAIN ix.nodes \subseteq 0..(ix.nextId - 1)
  BY DEF Usable, Formed
<1>2. Live(ix) \subseteq DOMAIN ix.nodes
  BY DEF Live
<1>3. Findable(ix) \subseteq DOMAIN ix.nodes
  BY <1>2 DEF Findable
<1>4. DOMAIN ix.vectors = 0..(ix.nextId - 1)
  BY <1>1 DEF Formed
<1>5. \A i \in DOMAIN ix.nodes : Row(ix, i) = ix.vectors[i] /\ ix.vectors[i] \in Codes
  BY <1>1, <1>4 DEF Row, Usable
<1>6. Shelved(ix)
  <2>1. IsRecord(ix) /\ ix.entryPoint \in DOMAIN ix.nodes \cup {None}
    BY <1>1 DEF Formed
  <2>2. DOMAIN ix.nodes \subseteq Nat
    BY <1>1
  <2>3. QED
    BY <2>1, <2>2, <1>1 DEF Shelved, Usable
<1>7. PICK n \in Nat : InOrder(ix, n)
  BY <1>1 DEF Formed
<1>8. LiveIds(ix) \in Seq(Live(ix)) /\ ToSet(LiveIds(ix)) = Live(ix)
  BY <1>7, LiveIdsInOrder
<1>9. ix.nextId \notin DOMAIN ix.nodes
  BY <1>1
<1>10. QED
  BY <1>1, <1>2, <1>3, <1>5, <1>6, <1>8, <1>9

(* The quantizer of a rebuilt index clips nothing, and reads every vector  *)
(* back as it was (core/index.py:489-513).                                 *)
LEMMA NewQuantizerIsExact ==
  ASSUME QuantizerInv, NEW live \in Seq(Copied), NEW n \in 0..MaxCompactions,
         quantized => \A i, j \in DOMAIN live : 12 * (live[i].vec - live[j].vec) <= Widest[n]
  PROVE  LET q == NewQuantizer(live) IN
         /\ IsQuantizer(q) /\ q.max - q.min <= Widest[n]
         /\ q.clipped = 0 /\ (q.fitted <=> quantized /\ live # << >>)
         /\ quantized => \A k \in DOMAIN live :
               Encode(q, live[k].vec) \in Codes /\ Decode(q, Encode(q, live[k].vec)) = live[k].vec
<1> DEFINE q == NewQuantizer(live)
           S == {live[k].vec : k \in DOMAIN live}
           f == Fit(S)
           W == Widest[n]
           out == {k \in DOMAIN live : Bucket(f, live[k].vec) \notin Codes}
<1>1. W \in Nat /\ W < 2550
  BY WidestIsNarrow
<1>2. CASE ~ quantized \/ live = << >>
  <2>1. q = [fitted |-> FALSE, min |-> 0, max |-> 0, clipped |-> 0, total |-> 0]
    BY <1>2 DEF NewQuantizer, Unfitted
  <2> HIDE DEF q, W
  <2>2. IsQuantizer(q) /\ q.max - q.min <= W /\ q.clipped = 0 /\ ~ q.fitted
    BY <2>1, <1>1 DEF IsQuantizer
  <2>3. live = << >> => DOMAIN live = {}
    OBVIOUS
  <2>4. QED
    BY <2>2, <2>3, <1>2 DEF q, W
<1>3. CASE quantized /\ live # << >>
  <2>1. \A k \in DOMAIN live : live[k].vec \in Int
    <3>1. \A k \in DOMAIN live : live[k] \in Copied
      OBVIOUS
    <3>2. QED
      BY <3>1 DEF Copied
  <2>2. S \in SUBSET Int /\ S # {}
    <3>1. 1 \in DOMAIN live
      BY <1>3
    <3>2. QED
      BY <2>1, <3>1
  <2>3. \A x, y \in S : 12 * (x - y) <= W
    BY <1>3
  <2> HIDE DEF W
  <2>4. /\ IsQuantizer(f) /\ f.fitted /\ f.clipped = 0 /\ f.total = 0 /\ f.max - f.min <= W
        /\ \A v \in S : Bucket(f, v) \in Codes
    <3> HIDE DEF S
    <3>1. S \in SUBSET Int /\ S # {} /\ W \in Nat
      BY <1>1, <2>2
    <3>2. QED
      BY <3>1, <2>3, FitHoldsSample, Zenon
  <2>5. out = {}
    BY <2>4
  <2>6. Cardinality(out) = 0
    BY <2>5, FS_EmptySet
  <2>7. q = [f EXCEPT !.total = Len(live), !.clipped = Cardinality(out)]
    BY <1>3 DEF NewQuantizer
  <2> HIDE DEF q, f, out
  <2>8. /\ IsQuantizer(q) /\ q.fitted /\ q.clipped = 0 /\ q.min = f.min /\ q.max = f.max
    <3>1. Len(live) \in Nat
      OBVIOUS
    <3>2. f \in [fitted : BOOLEAN, min : Int, max : Int, clipped : Nat, total : Nat]
          /\ f.min <= f.max
      BY <2>4 DEF IsQuantizer
    <3>3. q = [fitted |-> TRUE, min |-> f.min, max |-> f.max, clipped |-> 0, total |-> Len(live)]
      BY <3>2, <2>4, <2>6, <2>7
    <3>4. QED
      BY <3>1, <3>2, <3>3 DEF IsQuantizer
  <2>9. q.max - q.min < 2550 /\ q.max - q.min <= W
    BY <2>4, <2>8, <1>1 DEF IsQuantizer
  <2>10. ASSUME NEW k \in DOMAIN live
         PROVE  Encode(q, live[k].vec) \in Codes /\ Decode(q, Encode(q, live[k].vec)) = live[k].vec
    <3> DEFINE v == live[k].vec
    <3>1. v \in Int /\ Bucket(f, v) \in Codes
      BY <2>1, <2>4
    <3> HIDE DEF v
    <3>2. Bucket(q, v) = Bucket(f, v)
      BY <2>8 DEF Bucket
    <3>3. Encode(q, v) \in Codes
      BY <3>1, <2>8, EncodeIsCode
    <3>4. Decode(q, Encode(q, v)) = v
      BY <3>1, <3>2, <2>8, <2>9, RoundTrip
    <3>5. QED
      BY <3>3, <3>4 DEF v
  <2>11. QED
    BY <1>3, <2>8, <2>9, <2>10 DEF q, W
<1>4. QED
  BY <1>2, <1>3

(* The rebuilt index has the rows copied, in their order.                  *)
LEMMA NewIndexIsExact ==
  ASSUME QuantizerInv, NEW live \in Seq(Copied), NEW n \in 0..MaxCompactions,
         quantized => \A i, j \in DOMAIN live : 12 * (live[i].vec - live[j].vec) <= Widest[n],
         \A j \in DOMAIN live : quantized \/ live[j].vec \in Codes
  PROVE  LET new == NewIndex(live) IN
         /\ Usable(new) /\ IsRecord(new)
         /\ DOMAIN new.nodes = 0..(Len(live) - 1) /\ Live(new) = 0..(Len(live) - 1)
         /\ \A i \in 0..(Len(live) - 1) :
              Value(NewQuantizer(live), new.vectors[i]) = live[i + 1].vec
<1> DEFINE q == NewQuantizer(live)
           Code(k) == IF quantized THEN Encode(q, live[k].vec) ELSE live[k].vec
           rows == [k \in DOMAIN live |-> [vec |-> Code(k)]]
           levels == [k \in DOMAIN live |-> 0]
           m == Len(live)
           new == Rebuilt(rows, levels)
<1>1. m \in Nat /\ DOMAIN live = 1..m
  OBVIOUS
<1>2. \A k \in 1..m : Code(k) \in Codes /\ Value(q, Code(k)) = live[k].vec
  BY <1>1, NewQuantizerIsExact DEF Value
<1>3. NewIndex(live) = new
  BY DEF NewIndex
<1> HIDE DEF q, Code
<1>4. Len(rows) = m /\ \A k \in 1..m : rows[k].vec = Code(k) /\ levels[k] \in Nat
  BY <1>1
<1> HIDE DEF rows, levels
<1>5. /\ Sound(new) /\ new.nextId = m /\ Live(new) = 0..(m - 1)
      /\ new.vectors = [i \in 0..(m - 1) |-> rows[i + 1].vec]
  BY <1>1, <1>4, RebuiltIsSound, Constants
<1> HIDE DEF new
<1>6. \A i \in 0..(m - 1) : i + 1 \in 1..m
  BY <1>1
<1>7. \A i \in 0..(m - 1) : new.vectors[i] = Code(i + 1)
  BY <1>4, <1>5, <1>6
<1>8. DOMAIN new.vectors = 0..(m - 1) /\ DOMAIN new.nodes = 0..(m - 1) /\ IsRecord(new)
  BY <1>5 DEF Sound, Tables
<1>9. Usable(new)
  BY <1>2, <1>5, <1>6, <1>7, <1>8, SoundIsUsable
<1>10. \A i \in 0..(m - 1) : Value(q, new.vectors[i]) = live[i + 1].vec
  BY <1>2, <1>6, <1>7
<1>11. QED
  BY <1>3, <1>5, <1>8, <1>9, <1>10 DEF q

LEMMA NewIsOf ==
  ASSUME NEW live
  PROVE  NewQuantizer(live) = QuantizerOf(quantized, live) /\ NewIndex(live) = IndexOf(quantized, live)
<1>1. NewQuantizer(live) = QuantizerOf(quantized, live)
  BY DEF NewQuantizer, QuantizerOf
<1>2. QED
  BY <1>1 DEF NewIndex, IndexOf
-----------------------------------------------------------------------------
(* Steps that leave most of the state alone                                *)

(* A request that goes on as it was, at most with another index under it.  *)
Stays(d) ==
  /\ IsCall(call'[d])
  /\ \A f \in CallFields \ {"mixed"} : call'[d][f] = call[d][f]
  /\ call[d].job = "search" /\ ~ call'[d].mixed => ~ call[d].mixed

LEMMA StaysFields ==
  ASSUME NEW d, Stays(d)
  PROVE  /\ IsCall(call'[d]) /\ call'[d].at = call[d].at /\ call'[d].job = call[d].job
         /\ call'[d].id = call[d].id /\ call'[d].vec = call[d].vec /\ call'[d].row = call[d].row
         /\ call'[d].range = call[d].range /\ call'[d].todo = call[d].todo
         /\ call'[d].rows = call[d].rows /\ call'[d].found = call[d].found
         /\ call'[d].hits = call[d].hits
         /\ call'[d].live = call[d].live /\ call'[d].missed = call[d].missed
<1> DEFINE F == CallFields \ {"mixed"}
<1>1. F = {"at", "job", "id", "vec", "row", "range", "todo", "rows", "found", "hits", "live", "missed"}
  BY DEF CallFields
<1>2. \A f \in F : call'[d][f] = call[d][f]
  BY DEF Stays
<1> HIDE DEF F
<1>3. QED
  BY <1>1, <1>2 DEF Stays

LEMMA EqualStays ==
  ASSUME NEW d, IsCall(call[d]), call'[d] = call[d]
  PROVE  Stays(d)
BY DEF Stays

(* What has happened stays so.                                             *)
Grows ==
  /\ past.submitted \subseteq past'.submitted /\ past.spoilt \subseteq past'.spoilt
  /\ past'.compactions \in {past.compactions, past.compactions + 1}

LEMMA WidthGrows ==
  ASSUME PastInv, PastInv', Grows
  PROVE  /\ Widest[past.compactions] \in Nat /\ Widest[past'.compactions] \in Nat
         /\ Widest[past.compactions] <= Widest[past'.compactions]
<1>1. past.compactions \in 0..MaxCompactions /\ past'.compactions \in 0..MaxCompactions
  BY DEF PastInv
<1>2. CASE past'.compactions = past.compactions
  BY <1>1, <1>2, WidestIsNarrow
<1>3. CASE past'.compactions = past.compactions + 1
  <2> DEFINE k == past'.compactions
  <2>1. k \in 1..MaxCompactions /\ k - 1 = past.compactions
    BY <1>1, <1>3, Constants, QuantizedAssumption
  <2>2. Widest[k - 1] <= Widest[k]
    BY <2>1, WidestIsNarrow
  <2>3. QED
    BY <1>1, <2>1, <2>2, WidestIsNarrow
<1>4. QED
  BY <1>2, <1>3 DEF Grows

LEMMA CallStays ==
  ASSUME TypeInv, PastInv', Grows, quantized' = quantized, NEW d \in Clients, Stays(d)
  PROVE  CallInv(d)'
<1> DEFINE k == call[d]
           W == Widest[past.compactions]
           X == Widest[past'.compactions]
<1>1. CallInv(d)
  BY DEF TypeInv
<1>2. W \in Nat /\ X \in Nat /\ W <= X /\ past.submitted \subseteq past'.submitted
  BY WidthGrows DEF TypeInv, Grows
<1>3. /\ IsCall(call'[d]) /\ call'[d].at = k.at /\ call'[d].job = k.job
      /\ call'[d].id = k.id /\ call'[d].vec = k.vec /\ call'[d].row = k.row
      /\ call'[d].live = k.live /\ call'[d].missed = k.missed
  BY StaysFields
<1>4. ASSUME quantized, NEW i \in DOMAIN k.live, NEW j \in DOMAIN k.live
      PROVE  12 * (k.live[i].vec - k.live[j].vec) <= X
  <2>1. 12 * (k.live[i].vec - k.live[j].vec) <= W
    BY <1>1, <1>4 DEF CallInv
  <2>2. k.live[i] \in Copied /\ k.live[j] \in Copied
    BY <1>1, <1>4 DEF CallInv
  <2>3. k.live[i].vec \in Int /\ k.live[j].vec \in Int
    BY <2>2 DEF Copied
  <2> HIDE DEF W, X
  <2>4. QED
    BY <2>1, <2>3, <1>2
<1> HIDE DEF W
<1>5. /\ \A j \in DOMAIN k.live : /\ k.live[j].meta \in past'.submitted
                                  /\ quantized \/ k.live[j].vec \in Codes
      /\ \A row \in k.missed : /\ row = [vec |-> row.vec, meta |-> row.meta]
                               /\ row.vec \in Int /\ row.meta \in past'.submitted
                               /\ quantized \/ row.vec \in Codes
      /\ [at |-> k.at, job |-> k.job] \in Jobs
      /\ k.id \in Nat /\ k.vec \in Values \cup {Zero} /\ k.row \in Codes
      /\ k.job = "insert" \/ k.at = "encoded" => k.vec \in past'.submitted
      /\ k.live \in Seq(Copied)
  BY <1>1, <1>2 DEF CallInv
<1> HIDE DEF k
<1>6. /\ k.live = call'[d].live /\ k.missed = call'[d].missed /\ k.at = call'[d].at
      /\ k.job = call'[d].job /\ k.id = call'[d].id /\ k.vec = call'[d].vec /\ k.row = call'[d].row
  BY <1>3
<1>7. QED
  BY <1>3, <1>4, <1>5, <1>6 DEF CallInv, X

LEMMA SwapStays ==
  ASSUME TypeInv, NEW c \in Clients, call[c].at \notin Swaps, call'[c].at \notin Swaps,
         \A d \in Clients \ {c} : Stays(d), writer' = writer, quantized' = quantized,
         Unlocked \/ (index' = index /\ meta' = meta)
  PROVE  SwapInv'
<1>1. SwapInv /\ writer \in Clients \cup {None} /\ None \notin Clients
  BY Constants DEF TypeInv, SwapInv
<1>2. \A d \in Clients : call'[d].at \in Swaps <=> call[d].at \in Swaps
  BY StaysFields
<1>3. \A d \in Clients : call'[d].at \in Swaps <=> writer' = d
  BY <1>1, <1>2 DEF SwapInv
<1>4. ASSUME NEW d \in Clients, call'[d].at \in Swaps
      PROVE  Swapped(d)'
  <2>1. d # c /\ call[d].at \in Swaps /\ writer = d
    BY <1>1, <1>2, <1>4 DEF SwapInv
  <2>2. Swapped(d) /\ ~ Unlocked
    BY <1>1, <2>1 DEF SwapInv, Unlocked
  <2>3. call'[d].live = call[d].live /\ call'[d].at = call[d].at /\ index' = index /\ meta' = meta
    BY <2>1, <2>2, StaysFields
  <2>4. QED
    BY <2>2, <2>3 DEF Swapped
<1>5. QED
  BY <1>1, <1>3, <1>4 DEF SwapInv

(* All that remains to be shown of a step of c.                            *)
LEMMA TypeStep ==
  ASSUME TypeInv, NEW c \in Clients, call[c].at \notin Swaps, call'[c].at \notin Swaps,
         call' = [d \in Clients |-> call'[d]], \A d \in Clients \ {c} : Stays(d),
         writer' = writer, quantized' = quantized,
         Unlocked \/ (index' = index /\ meta' = meta),
         Grows, PastInv', QuantizerInv', IndexInv', DiskInv', CallInv(c)'
  PROVE  TypeInv'
<1>1. SwapInv'
  BY SwapStays
<1>2. \A d \in Clients : CallInv(d)'
  BY CallStays
<1>3. QED
  BY <1>1, <1>2 DEF TypeInv

LEMMA QuantizerStays ==
  ASSUME TypeInv, PastInv', Grows, UNCHANGED <<quantized, up, writes>>,
         quantizer' = quantizer \/
           (IsQuantizer(quantizer)' /\ Span(quantizer') = Span(quantizer)
            /\ quantizer'.fitted = quantizer.fitted)
  PROVE  QuantizerInv'
<1>1. quantizer'.min = quantizer.min /\ quantizer'.max = quantizer.max
      /\ quantizer'.fitted = quantizer.fitted /\ IsQuantizer(quantizer)'
  BY DEF Span, TypeInv, QuantizerInv
<1>2. quantizer.min \in Int /\ quantizer.max \in Int
      /\ quantizer.max - quantizer.min <= Widest[past.compactions]
  BY DEF TypeInv, QuantizerInv, IsQuantizer
<1>3. quantizer.max - quantizer.min <= Widest[past'.compactions]
  BY <1>2, WidthGrows DEF TypeInv
<1>4. QED
  BY <1>1, <1>3 DEF TypeInv, QuantizerInv

LEMMA IndexStays ==
  ASSUME TypeInv, Grows, index' = index, meta' = meta, writer' = writer
  PROVE  IndexInv'
BY DEF TypeInv, IndexInv, Grows, Unlocked

LEMMA DiskStays ==
  ASSUME TypeInv, Grows, disk' = disk
  PROVE  DiskInv'
BY DEF TypeInv, DiskInv, Grows

(* Only the request of c goes on.                                          *)
LEMMA OneMoves ==
  ASSUME TypeInv, NEW c \in Clients, call' = [call EXCEPT ![c] = call'[c]]
  PROVE  call' = [d \in Clients |-> call'[d]] /\ \A d \in Clients \ {c} : Stays(d)
<1>1. call = [d \in Clients |-> call[d]] /\ \A d \in Clients : IsCall(call[d])
  BY DEF TypeInv, CallInv
<1>2. call' = [d \in Clients |-> call'[d]]
  <2>1. call' = [d \in Clients |-> IF d = c THEN call'[c] ELSE call[d]]
    BY <1>1
  <2>2. QED
    BY <2>1, Zenon
<1>3. \A d \in Clients \ {c} : call'[d] = call[d]
  BY <1>1
<1>4. QED
  BY <1>1, <1>2, <1>3, EqualStays

LEMMA IdleInv ==
  ASSUME NEW c, call'[c] = Idle
  PROVE  CallInv(c)'
<1>1. /\ IsCall(Idle) /\ Idle.at = "idle" /\ Idle.job = "none" /\ Idle.id = 0 /\ Idle.vec = Zero
      /\ Idle.row = Zero /\ Idle.live = << >> /\ Idle.missed = {}
  BY DEF Idle, IsCall, CallFields
<1>2. [at |-> "idle", job |-> "none"] \in Jobs
  BY DEF Jobs
<1>3. << >> \in Seq(Copied) /\ DOMAIN << >> = {}
  OBVIOUS
<1>4. Zero \in Codes
  BY Constants
<1>5. QED
  BY <1>1, <1>2, <1>3, <1>4 DEF CallInv

(* A step of c that leaves the server alone.                               *)
LEMMA PrivateStep ==
  ASSUME TypeInv, NEW c \in Clients, call[c].at \notin Swaps, call'[c].at \notin Swaps,
         call' = [call EXCEPT ![c] = call'[c]],
         UNCHANGED <<storage, writer, service>>, Grows, PastInv', CallInv(c)'
  PROVE  TypeInv'
<1>1. UNCHANGED <<index, meta, quantized, quantizer, writer, disk, writes, up>>
  BY DEF storage, service
<1>2. call' = [d \in Clients |-> call'[d]] /\ \A d \in Clients \ {c} : Stays(d)
  BY OneMoves
<1>3. IndexInv' /\ DiskInv' /\ QuantizerInv'
  BY <1>1, IndexStays, DiskStays, QuantizerStays
<1>4. QED
  BY <1>1, <1>2, <1>3, TypeStep

(* The request keeps the vectors that it holds.                            *)
LEMMA CallMoves ==
  ASSUME TypeInv, NEW c \in Clients, PastInv', Grows, quantized' = quantized,
         IsCall(call'[c]), [at |-> call'[c].at, job |-> call'[c].job] \in Jobs,
         call'[c].job = call[c].job, call'[c].at # "encoded",
         call'[c].id \in Nat, call'[c].vec = call[c].vec, call'[c].row = call[c].row,
         call'[c].live = call[c].live, call'[c].missed = call[c].missed
  PROVE  CallInv(c)'
<1> DEFINE k == call[c]
           X == Widest[past'.compactions]
<1>1. ASSUME quantized, NEW i \in DOMAIN k.live, NEW j \in DOMAIN k.live
      PROVE  12 * (k.live[i].vec - k.live[j].vec) <= X
  <2> DEFINE W == Widest[past.compactions]
  <2>1. 12 * (k.live[i].vec - k.live[j].vec) <= W
    BY <1>1 DEF TypeInv, CallInv
  <2>2. k.live[i] \in Copied /\ k.live[j] \in Copied
    <3>1. k.live \in Seq(Copied)
      BY DEF TypeInv, CallInv
    <3> HIDE DEF k
    <3>2. QED
      BY <3>1, <1>1
  <2>3. k.live[i].vec \in Int /\ k.live[j].vec \in Int
    BY <2>2 DEF Copied
  <2>4. W \in Nat /\ X \in Nat /\ W <= X
    BY WidthGrows DEF TypeInv
  <2> HIDE DEF W, X
  <2>5. QED
    BY <2>1, <2>3, <2>4
<1>2. past.submitted \subseteq past'.submitted
  BY DEF Grows
<1>3. /\ \A j \in DOMAIN k.live : /\ k.live[j].meta \in past'.submitted
                                  /\ quantized \/ k.live[j].vec \in Codes
      /\ \A row \in k.missed : /\ row = [vec |-> row.vec, meta |-> row.meta]
                               /\ row.vec \in Int /\ row.meta \in past'.submitted
                               /\ quantized \/ row.vec \in Codes
      /\ k.vec \in Values \cup {Zero} /\ k.row \in Codes
      /\ k.job = "insert" => k.vec \in past'.submitted
      /\ k.live \in Seq(Copied)
  BY <1>2 DEF TypeInv, CallInv
<1> HIDE DEF k
<1>4. /\ k.live = call'[c].live /\ k.missed = call'[c].missed
      /\ k.job = call'[c].job /\ k.vec = call'[c].vec /\ k.row = call'[c].row
  BY DEF k
<1>5. QED
  BY <1>1, <1>3, <1>4 DEF CallInv, X
-----------------------------------------------------------------------------
(* Searches                                                                *)

LEMMA PastMoves ==
  ASSUME PastInv, past' = [past EXCEPT !.searches = past'.searches, !.broken = past'.broken]
  PROVE  PastInv' /\ Grows
BY DEF PastInv, PastFields, Grows

LEMMA SearchType ==
  ASSUME TypeInv, NEW c \in Clients, Search(c)
  PROVE  TypeInv'
<1>1. /\ UNCHANGED <<storage, writer, service>> /\ call[c].at = "idle"
      /\ call' = [call EXCEPT ![c] = [Idle EXCEPT !.at = "reading", !.job = "search",
                                       !.todo = {index.entryPoint}, !.mixed = ~ Unlocked]]
      /\ past' = [past EXCEPT !.searches = @ + 1]
  BY DEF Search, At
<1>2. past' = [past EXCEPT !.searches = past'.searches, !.broken = past'.broken]
  BY <1>1 DEF TypeInv, PastInv, PastFields
<1>3. PastInv' /\ Grows
  BY <1>2, PastMoves DEF TypeInv
<1>4. call' = [call EXCEPT ![c] = call'[c]]
      /\ call'[c] = [Idle EXCEPT !.at = "reading", !.job = "search",
                                       !.todo = {index.entryPoint}, !.mixed = ~ Unlocked]
  BY <1>1 DEF TypeInv
<1>5. CallInv(c)'
  <2>1. /\ IsCall(call'[c]) /\ call'[c].at = "reading" /\ call'[c].job = "search"
        /\ call'[c].id = 0 /\ call'[c].vec = Zero
        /\ call'[c].row = Zero /\ call'[c].live = << >> /\ call'[c].missed = {}
    BY <1>4 DEF Idle, IsCall, CallFields
  <2>2. [at |-> "reading", job |-> "search"] \in Jobs
    BY DEF Jobs, Searches
  <2>3. << >> \in Seq(Copied) /\ DOMAIN << >> = {}
    OBVIOUS
  <2>4. QED
    BY <2>1, <2>2, <2>3, Constants DEF CallInv
<1>6. call'[c].at \notin Swaps /\ call[c].at \notin Swaps
  BY <1>1, <1>4 DEF Swaps, Idle
<1>7. QED
  BY <1>1, <1>3, <1>4, <1>5, <1>6, PrivateStep

(* A request that goes on, or ends, with the server as it is.              *)
LEMMA PrivateMove ==
  ASSUME TypeInv, NEW c \in Clients, call[c].at \notin Swaps, call'[c].at \notin Swaps,
         call' = [call EXCEPT ![c] = call'[c]], UNCHANGED <<storage, writer, service>>,
         past' = [past EXCEPT !.searches = past'.searches, !.broken = past'.broken],
         quantized' = quantized,
         \/ call'[c] = Idle
         \/ /\ IsCall(call'[c]) /\ [at |-> call'[c].at, job |-> call'[c].job] \in Jobs
            /\ call'[c].job = call[c].job /\ call'[c].at # "encoded"
            /\ call'[c].id = call[c].id /\ call'[c].vec = call[c].vec /\ call'[c].row = call[c].row
            /\ call'[c].live = call[c].live /\ call'[c].missed = call[c].missed
  PROVE  TypeInv'
<1>1. PastInv' /\ Grows
  BY PastMoves DEF TypeInv
<1>2. call[c].id \in Nat
  BY DEF TypeInv, CallInv
<1>3. CallInv(c)'
  <2>1. CASE call'[c] = Idle
    BY <2>1, IdleInv
  <2>2. CASE call'[c] # Idle
    BY <2>2, <1>1, <1>2, CallMoves
  <2>3. QED
    BY <2>1, <2>2
<1>4. QED
  BY <1>1, <1>3, PrivateStep

(* What the steps of a search do to its request.                           *)
LEMMA SearchSteps ==
  ASSUME TypeInv, NEW c \in Clients, ReadRows(c) \/ DecodeRows(c) \/ Expand(c) \/ Answer(c)
  PROVE  /\ UNCHANGED <<storage, writer, service, past>>
         /\ call[c].job = "search" /\ call[c].at \in Searches
         /\ call' = [call EXCEPT ![c] = call'[c]]
         /\ IsCall(call'[c]) /\ call'[c].job = "search" /\ call'[c].at \in Searches
         /\ call'[c].id = call[c].id /\ call'[c].vec = call[c].vec /\ call'[c].row = call[c].row
         /\ call'[c].live = call[c].live /\ call'[c].missed = call[c].missed
         /\ call'[c].mixed = call[c].mixed
<1> DEFINE k == call[c]
<1>1. IsCall(k) /\ [at |-> k.at, job |-> k.job] \in Jobs
  BY DEF TypeInv, CallInv
<1>2. call = [d \in Clients |-> call[d]]
  BY DEF TypeInv
<1>3. UNCHANGED <<storage, writer, service, past>> /\ k.at \in Searches /\ k.at # "answered"
  BY DEF ReadRows, DecodeRows, Expand, Answer, At, Searches
<1>4. k.job = "search"
  BY <1>1, <1>3 DEF Jobs, Searches, Swaps
<1>5. CASE ReadRows(c)
  <2> DEFINE new == [k EXCEPT !.at = "decoding", !.rows = [i \in k.todo |-> Row(index, i)]]
  <2>1. call' = [call EXCEPT ![c] = new]
    BY <1>5 DEF ReadRows
  <2>2. call'[c] = new
    BY <1>2, <2>1
  <2>3. IsCall(new)
    BY <1>1 DEF IsCall, CallFields
  <2>4. /\ new.job = k.job /\ new.at \in Searches
        /\ new.id = k.id /\ new.vec = k.vec /\ new.row = k.row
        /\ new.live = k.live /\ new.missed = k.missed /\ new.mixed = k.mixed
    BY <1>1 DEF IsCall, CallFields, Searches
  <2> HIDE DEF new
  <2>5. QED
    BY <1>3, <1>4, <2>1, <2>2, <2>3, <2>4
<1>6. CASE DecodeRows(c)
  <2> DEFINE found == [i \in DOMAIN k.found \cup k.todo |->
                         IF i \in k.todo THEN Value(quantizer, k.rows[i]) ELSE k.found[i]]
             new == [k EXCEPT !.at = "expanding", !.rows = << >>, !.found = found]
  <2>1. call' = [call EXCEPT ![c] = new]
    BY <1>6, <1>1 DEF DecodeRows, IsCall, CallFields
  <2>2. call'[c] = new
    BY <1>2, <2>1
  <2> HIDE DEF found
  <2>3. IsCall(new)
    BY <1>1 DEF IsCall, CallFields
  <2>4. /\ new.job = k.job /\ new.at \in Searches
        /\ new.id = k.id /\ new.vec = k.vec /\ new.row = k.row
        /\ new.live = k.live /\ new.missed = k.missed /\ new.mixed = k.mixed
    BY <1>1 DEF IsCall, CallFields, Searches
  <2> HIDE DEF new
  <2>5. QED
    BY <1>3, <1>4, <2>1, <2>2, <2>3, <2>4
<1>7. CASE Expand(c)
  <2> DEFINE next == Findable(index) \ DOMAIN k.found
             new == IF next # {}
                    THEN [k EXCEPT !.at = "reading", !.todo = next]
                    ELSE [k EXCEPT !.at = "answering", !.todo = {},
                            !.found = [i \in DOMAIN k.found \cap Live(index) |-> k.found[i]]]
  <2>1. call' = [call EXCEPT ![c] = new]
    BY <1>7, <1>1 DEF Expand, IsCall, CallFields
  <2>2. call'[c] = new
    BY <1>2, <2>1
  <2> HIDE DEF next
  <2>3. IsCall(new)
    BY <1>1 DEF IsCall, CallFields
  <2>4. /\ new.job = k.job /\ new.at \in Searches
        /\ new.id = k.id /\ new.vec = k.vec /\ new.row = k.row
        /\ new.live = k.live /\ new.missed = k.missed /\ new.mixed = k.mixed
    BY <1>1 DEF IsCall, CallFields, Searches
  <2> HIDE DEF new
  <2>5. QED
    BY <1>3, <1>4, <2>1, <2>2, <2>3, <2>4
<1>8. CASE Answer(c)
  <2> DEFINE hits == {[distanceOf |-> k.found[i], meta |-> meta[i]] : i \in DOMAIN k.found}
             new == [k EXCEPT !.at = "answered", !.found = << >>, !.hits = hits]
  <2>1. call' = [call EXCEPT ![c] = new]
    BY <1>8 DEF Answer
  <2>2. call'[c] = new
    BY <1>2, <2>1
  <2> HIDE DEF hits
  <2>3. IsCall(new)
    BY <1>1 DEF IsCall, CallFields
  <2>4. /\ new.job = k.job /\ new.at \in Searches
        /\ new.id = k.id /\ new.vec = k.vec /\ new.row = k.row
        /\ new.live = k.live /\ new.missed = k.missed /\ new.mixed = k.mixed
    BY <1>1 DEF IsCall, CallFields, Searches
  <2> HIDE DEF new
  <2>5. QED
    BY <1>3, <1>4, <2>1, <2>2, <2>3, <2>4
<1>9. QED
  BY <1>5, <1>6, <1>7, <1>8

LEMMA SearchStepsType ==
  ASSUME TypeInv, NEW c \in Clients, ReadRows(c) \/ DecodeRows(c) \/ Expand(c) \/ Answer(c)
  PROVE  TypeInv'
<1>1. /\ UNCHANGED <<storage, writer, service, past>>
      /\ call[c].job = "search" /\ call[c].at \in Searches
      /\ call' = [call EXCEPT ![c] = call'[c]]
      /\ IsCall(call'[c]) /\ call'[c].job = "search" /\ call'[c].at \in Searches
      /\ call'[c].id = call[c].id /\ call'[c].vec = call[c].vec /\ call'[c].row = call[c].row
      /\ call'[c].live = call[c].live /\ call'[c].missed = call[c].missed
  BY SearchSteps
<1>2. call'[c].at \notin Swaps /\ call[c].at \notin Swaps /\ call'[c].at # "encoded"
      /\ [at |-> call'[c].at, job |-> call'[c].job] \in Jobs
  BY <1>1 DEF Swaps, Searches, Jobs
<1>3. past' = [past EXCEPT !.searches = past'.searches, !.broken = past'.broken]
      /\ quantized' = quantized
  BY <1>1 DEF storage, TypeInv, PastInv, PastFields
<1>4. QED
  BY <1>1, <1>2, <1>3, PrivateMove

(* The requests that end, with nothing done.                               *)
LEMMA LeavesType ==
  ASSUME TypeInv, NEW c \in Clients, SearchRaises(c) \/ EndSearch(c) \/ CompactRaises(c)
  PROVE  /\ TypeInv' /\ UNCHANGED <<storage, writer, service>> /\ call[c].at # "idle"
         /\ call' = [call EXCEPT ![c] = call'[c]] /\ call'[c] = Idle
         /\ past' = [past EXCEPT !.searches = past'.searches, !.broken = past'.broken]
<1>1. UNCHANGED <<storage, writer, service>> /\ Leave(c)
      /\ call[c].at \in Searches \cup {"rebuilding", "replaying"}
  BY DEF SearchRaises, EndSearch, CompactRaises, At, Searches
<1>2. past' = [past EXCEPT !.searches = past'.searches, !.broken = past'.broken]
  BY DEF SearchRaises, EndSearch, CompactRaises, TypeInv, PastInv, PastFields
<1>3. call' = [call EXCEPT ![c] = call'[c]] /\ call'[c] = Idle
  BY <1>1 DEF Leave, TypeInv
<1>4. call'[c].at \notin Swaps /\ call[c].at \notin Swaps /\ call[c].at # "idle"
  BY <1>1, <1>3 DEF Swaps, Searches, Idle
<1>5. TypeInv'
  BY <1>1, <1>2, <1>3, <1>4, PrivateMove DEF storage
<1>6. QED
  BY <1>1, <1>2, <1>3, <1>4, <1>5
-----------------------------------------------------------------------------
(* Inserts and deletes                                                     *)

LEMMA InsertType ==
  ASSUME TypeInv, NEW c \in Clients, Insert(c)
  PROVE  TypeInv' /\ Grows /\ past'.submitted # {}
<1>1. PICK v \in Values \ past.submitted :
        /\ quantizer' = Tracked(quantizer, v)
        /\ call' = [call EXCEPT ![c] = [Idle EXCEPT !.at = "encoded", !.job = "insert",
                       !.vec = v, !.row = Encode(quantizer, v), !.range = Span(quantizer)]]
        /\ past' = [past EXCEPT !.submitted = @ \cup {v},
                       !.spoilt = IF Bucket(quantizer, v) \in Codes THEN @ ELSE @ \cup {v}]
  BY DEF Insert
<1>2. /\ UNCHANGED <<index, meta, quantized, writer, service>> /\ call[c].at = "idle"
      /\ disk' = disk /\ writes' = writes /\ up' = up
  BY DEF Insert, At, service
<1>3. v \in Int /\ Encode(quantizer, v) \in Codes /\ v \in Values
  <2>1. v \in Int
    BY QuantizedAssumption
  <2>2. QED
    BY <2>1, EncodeIsCode DEF TypeInv, QuantizerInv
<1>4. PastInv' /\ Grows /\ v \in past'.submitted
  <2> DEFINE S == IF Bucket(quantizer, v) \in Codes THEN past.spoilt ELSE past.spoilt \cup {v}
  <2>1. PastInv
    BY DEF TypeInv
  <2>2. past' = [past EXCEPT !.submitted = @ \cup {v}, !.spoilt = S] /\ past.spoilt \subseteq S
    BY <1>1, <2>1 DEF PastInv, PastFields
  <2> HIDE DEF S
  <2>3. QED
    BY <2>1, <2>2 DEF PastInv, PastFields, Grows
<1>5. /\ call' = [call EXCEPT ![c] = call'[c]]
      /\ call'[c] = [Idle EXCEPT !.at = "encoded", !.job = "insert",
                       !.vec = v, !.row = Encode(quantizer, v), !.range = Span(quantizer)]
  BY <1>1 DEF TypeInv
<1>6. CallInv(c)' /\ call'[c].at = "encoded"
  <2>1. /\ IsCall(call'[c]) /\ call'[c].at = "encoded" /\ call'[c].job = "insert"
        /\ call'[c].id = 0 /\ call'[c].vec = v
        /\ call'[c].row = Encode(quantizer, v) /\ call'[c].live = << >> /\ call'[c].missed = {}
    BY <1>5 DEF Idle, IsCall, CallFields
  <2>2. [at |-> "encoded", job |-> "insert"] \in Jobs
    BY DEF Jobs
  <2>3. << >> \in Seq(Copied) /\ DOMAIN << >> = {}
    OBVIOUS
  <2>4. QED
    BY <2>1, <2>2, <2>3, <1>3, <1>4 DEF CallInv
<1>7. IsQuantizer(quantizer)' /\ Span(quantizer') = Span(quantizer)
      /\ quantizer'.fitted = quantizer.fitted
  BY <1>1, <1>3, TrackedStays DEF TypeInv, QuantizerInv
<1>8. QuantizerInv' /\ IndexInv' /\ DiskInv'
  BY <1>2, <1>4, <1>7, QuantizerStays, IndexStays, DiskStays
<1>9. call' = [d \in Clients |-> call'[d]] /\ \A d \in Clients \ {c} : Stays(d)
  BY <1>5, OneMoves
<1>10. TypeInv'
  BY <1>2, <1>4, <1>6, <1>8, <1>9, TypeStep DEF Swaps
<1>11. QED
  BY <1>10, <1>4

(* How the request of c is changed, field by field.                        *)
LEMMA RequestGoes ==
  ASSUME TypeInv, NEW c \in Clients, NEW new, call' = [call EXCEPT ![c] = new]
  PROVE  /\ call'[c] = new /\ call' = [call EXCEPT ![c] = call'[c]]
         /\ call' = [d \in Clients |-> call'[d]] /\ \A d \in Clients \ {c} : Stays(d)
<1>1. call'[c] = new
  BY DEF TypeInv
<1>2. call' = [call EXCEPT ![c] = call'[c]]
  BY <1>1
<1>3. QED
  BY <1>1, <1>2, OneMoves

LEMMA ReserveType ==
  ASSUME TypeInv, NEW c \in Clients, ReserveNode(c)
  PROVE  /\ TypeInv' /\ Grows /\ Usable(index) /\ index.nextId \notin DOMAIN index.nodes
         /\ index' = AddNode(index, index.nextId, call[c].row, 0)
         /\ call[c].at = "encoded" /\ call[c].vec \in past.submitted /\ call[c].row \in Codes
         /\ IsCall(call'[c]) /\ call'[c].at = "reserved" /\ call'[c].id = index.nextId
         /\ call'[c].job = call[c].job /\ call'[c].vec = call[c].vec
         /\ call'[c].live = call[c].live /\ call'[c].missed = call[c].missed
         /\ \A d \in Clients \ {c} : Stays(d)
         /\ past' = [past EXCEPT !.spoilt = past'.spoilt]
<1> DEFINE k == call[c]
           n == index.nextId
           new == [k EXCEPT !.at = "reserved", !.id = n]
<1>1. /\ index' = AddNode(index, n, k.row, 0)
      /\ meta' = [i \in DOMAIN meta \cup {n} |-> IF i = n THEN k.vec ELSE meta[i]]
      /\ call' = [call EXCEPT ![c] = new]
      /\ k.at = "encoded" /\ Unlocked
      /\ UNCHANGED <<quantized, quantizer, writer, service>>
  BY DEF ReserveNode, ReserveRow, Reserve, At
<1>2. /\ IsCall(k) /\ [at |-> k.at, job |-> k.job] \in Jobs /\ k.vec \in past.submitted /\ k.row \in Codes
      /\ k.vec \in Values
  BY <1>1 DEF TypeInv, CallInv, PastInv
<1>3. Usable(index) /\ n \in Nat /\ n \notin DOMAIN index.nodes
  BY <1>1, RowsOfUsable DEF TypeInv, IndexInv
<1>4. /\ Usable(index') /\ DOMAIN index'.nodes = DOMAIN index.nodes \cup {n}
      /\ index'.vectors[n] = k.row
  <2> HIDE DEF n, k
  <2>1. QED
    BY <1>1, <1>2, <1>3, AddUsable
<1>5. /\ past' = [past EXCEPT !.spoilt = past'.spoilt] /\ past.spoilt \subseteq past'.spoilt
  BY DEF ReserveNode, ReserveRow, TypeInv, PastInv, PastFields
<1>6. PastInv' /\ Grows
  BY <1>5 DEF TypeInv, PastInv, PastFields, Grows
<1>7. IndexInv'
  <2>1. Shelved(index')
    BY <1>4, RowsOfUsable
  <2>2. DOMAIN meta' = DOMAIN index'.nodes
    BY <1>1, <1>4 DEF TypeInv, IndexInv
  <2>3. \A i \in DOMAIN meta' : meta'[i] \in past'.submitted
    BY <1>1, <1>2, <1>6 DEF TypeInv, IndexInv, Grows
  <2>4. meta' = [i \in DOMAIN meta' |-> meta'[i]]
    BY <1>1
  <2>5. QED
    BY <2>1, <2>2, <2>3, <2>4, <1>4 DEF IndexInv, Shelved, Usable, Formed
<1>8. /\ IsCall(new) /\ new.at = "reserved" /\ new.id = n /\ new.job = k.job /\ new.vec = k.vec
      /\ new.row = k.row /\ new.live = k.live /\ new.missed = k.missed
  BY <1>2 DEF IsCall, CallFields
<1>9. [at |-> "reserved", job |-> k.job] \in Jobs
  BY <1>1, <1>2 DEF Jobs, Swaps, Searches
<1> HIDE DEF new, k, n
<1>10. /\ call'[c] = new /\ call' = [d \in Clients |-> call'[d]]
       /\ \A d \in Clients \ {c} : Stays(d)
  BY <1>1, RequestGoes
<1>11. /\ IsCall(call'[c]) /\ call'[c].at = "reserved" /\ call'[c].id = n
       /\ call'[c].job = call[c].job /\ call'[c].vec = call[c].vec /\ call'[c].row = call[c].row
       /\ call'[c].live = call[c].live /\ call'[c].missed = call[c].missed
  BY <1>8, <1>10 DEF k
<1>12. CallInv(c)'
  BY <1>1, <1>3, <1>6, <1>9, <1>11, CallMoves DEF k
<1>13. disk' = disk /\ writes' = writes /\ up' = up
  BY <1>1 DEF service
<1>14. DiskInv' /\ QuantizerInv'
  BY <1>1, <1>6, <1>13, DiskStays, QuantizerStays
<1>15. call[c].at \notin Swaps /\ call'[c].at \notin Swaps
  BY <1>1, <1>11 DEF Swaps, k
<1>16. TypeInv'
  BY <1>1, <1>6, <1>7, <1>10, <1>12, <1>14, <1>15, TypeStep
<1>17. QED
  BY <1>1, <1>2, <1>3, <1>5, <1>6, <1>10, <1>11, <1>16 DEF k, n

LEMMA LogGrows ==
  ASSUME TypeInv, Grows, NEW r \in Lines, r.op = "insert" => r.vec \in past'.submitted,
         disk' = [disk EXCEPT !.log = Append(@, r)]
  PROVE  DiskInv'
<1> DEFINE log == disk.log
<1>1. DiskInv /\ past.submitted \subseteq past'.submitted
  BY DEF TypeInv, Grows
<1>2. /\ disk' = [f \in {"exists", "saved", "meta", "log"} |-> disk'[f]]
      /\ disk'.exists = disk.exists /\ disk'.saved = disk.saved /\ disk'.meta = disk.meta
      /\ disk'.log = Append(log, r)
  BY <1>1 DEF DiskInv
<1>3. log \in Seq(Lines) /\ \A k \in DOMAIN log : log[k].op = "insert" => log[k].vec \in past.submitted
  BY <1>1 DEF DiskInv
<1> HIDE DEF log
<1>4. Append(log, r) \in Seq(Lines)
  BY <1>3
<1>5. \A k \in DOMAIN Append(log, r) :
        Append(log, r)[k].op = "insert" => Append(log, r)[k].vec \in past'.submitted
  <2>1. \A k \in DOMAIN Append(log, r) : (k \in DOMAIN log /\ Append(log, r)[k] = log[k])
                                         \/ Append(log, r)[k] = r
    BY <1>3
  <2>2. QED
    BY <2>1, <1>1, <1>3
<1>6. QED
  BY <1>1, <1>2, <1>4, <1>5 DEF DiskInv

LEMMA SavedType ==
  ASSUME TypeInv, Grows, Unlocked, disk' = Saved
  PROVE  DiskInv'
<1>1. /\ disk' = [f \in {"exists", "saved", "meta", "log"} |-> disk'[f]]
      /\ disk'.exists = TRUE /\ disk'.saved = index /\ disk'.meta = meta /\ disk'.log = << >>
  BY DEF Saved
<1>2. << >> \in Seq(Lines) /\ DOMAIN << >> = {}
  OBVIOUS
<1>3. IndexInv /\ past.submitted \subseteq past'.submitted
  BY DEF TypeInv, Grows
<1>4. QED
  BY <1>1, <1>2, <1>3 DEF DiskInv, IndexInv

LEMMA LineOfInsert ==
  ASSUME NEW id \in Nat, NEW v \in Values
  PROVE  InsertRecord(id, v) \in Lines /\ InsertRecord(id, v).vec = v /\ DeleteRecord(id) \in Lines
         /\ DeleteRecord(id).op = "delete"
BY DEF InsertRecord, DeleteRecord, Record, Lines

LEMMA LinkType ==
  ASSUME TypeInv, NEW c \in Clients, LinkInsert(c) \/ LinkMissed(c)
  PROVE  /\ TypeInv' /\ Grows /\ Usable(index) /\ Unlocked /\ Same(index, index')
         /\ Live(index') = Live(index) /\ UNCHANGED <<meta, quantized, quantizer, writer, past>>
         /\ call[c].at = "reserved" /\ call[c].job \in {"insert", "compact"}
         /\ call[c].job = "insert" => call'[c].at = "done"
         /\ call[c].job = "compact" => call'[c].at = "replaying"
         /\ IsCall(call'[c]) /\ call'[c].job = call[c].job /\ call'[c].vec = call[c].vec
         /\ call'[c].live = call[c].live /\ call'[c].missed = call[c].missed
         /\ \A d \in Clients \ {c} : Stays(d)
<1> DEFINE k == call[c]
           after == IF k.job = "insert" THEN "done" ELSE "replaying"
           new == [k EXCEPT !.at = after]
<1>1. /\ LinkNode(c, after) /\ k.job \in {"insert", "compact"}
      /\ \/ k.job = "insert" /\ WriteRecord(c)
         \/ k.job = "compact" /\ UNCHANGED disk
  BY DEF LinkInsert, LinkMissed
<1>2. /\ index' = Link(index, k.id) /\ k.id \in DOMAIN index.nodes /\ index.entryPoint \in DOMAIN index.nodes
      /\ call' = [call EXCEPT ![c] = new]
      /\ k.at = "reserved" /\ Unlocked
      /\ UNCHANGED <<meta, quantized, quantizer, writer, writes, up, past>>
  BY <1>1 DEF LinkNode, At
<1>3. IsCall(k) /\ k.id \in Nat /\ (k.job = "insert" => k.vec \in past.submitted)
  BY DEF TypeInv, CallInv
<1>4. PastInv' /\ Grows
  BY <1>2 DEF TypeInv, PastInv, Grows
<1>5. Usable(index) /\ index.entryPoint # None
  BY <1>2, Constants DEF TypeInv, IndexInv, Shelved
<1>6. Usable(index') /\ Same(index, index') /\ Live(index') = Live(index)
  BY <1>2, <1>5, LinkUsable
<1>7. IndexInv'
  BY <1>2, <1>6, RowsOfUsable DEF TypeInv, IndexInv, Same
<1>8. DiskInv'
  <2>1. CASE k.job = "insert"
    <3>1. k.vec \in Values /\ k.vec \in past'.submitted
      BY <1>2, <1>3, <2>1 DEF TypeInv, PastInv
    <3>2. InsertRecord(k.id, k.vec) \in Lines /\ InsertRecord(k.id, k.vec).vec = k.vec
      BY <1>3, <3>1, LineOfInsert
    <3>3. WriteRecord(c)
      BY <1>1, <2>1
    <3>4. disk' = [disk EXCEPT !.log = Append(@, InsertRecord(k.id, k.vec))]
      BY <3>3 DEF WriteRecord
    <3>5. QED
      BY <1>4, <3>1, <3>2, <3>4, LogGrows
  <2>2. CASE k.job # "insert"
    BY <1>1, <1>4, <2>2, DiskStays
  <2>3. QED
    BY <2>1, <2>2
<1>9. /\ IsCall(new) /\ new.at = after /\ new.id = k.id /\ new.job = k.job /\ new.vec = k.vec
      /\ new.row = k.row /\ new.live = k.live /\ new.missed = k.missed
  BY <1>3 DEF IsCall, CallFields
<1>10. [at |-> after, job |-> k.job] \in Jobs /\ after \notin Swaps /\ after # "encoded"
       /\ k.at \notin Swaps
  BY <1>1, <1>2 DEF Jobs, Swaps, Searches
<1>11. QuantizerInv'
  BY <1>2, <1>4, QuantizerStays
<1> HIDE DEF new, k, after
<1>12. /\ call'[c] = new /\ call' = [d \in Clients |-> call'[d]]
       /\ \A d \in Clients \ {c} : Stays(d)
  BY <1>2, RequestGoes
<1>13. /\ IsCall(call'[c]) /\ call'[c].at = after /\ call'[c].id = k.id
       /\ call'[c].job = call[c].job /\ call'[c].vec = call[c].vec /\ call'[c].row = call[c].row
       /\ call'[c].live = call[c].live /\ call'[c].missed = call[c].missed
  BY <1>9, <1>12 DEF k
<1>14. CallInv(c)'
  BY <1>2, <1>3, <1>4, <1>10, <1>13, CallMoves DEF k
<1>15. TypeInv'
  BY <1>2, <1>4, <1>7, <1>8, <1>10, <1>11, <1>12, <1>13, <1>14, TypeStep DEF k
<1>16. after = IF k.job = "insert" THEN "done" ELSE "replaying"
  BY DEF after
<1>17. QED
  BY <1>1, <1>2, <1>4, <1>5, <1>6, <1>12, <1>13, <1>15, <1>16 DEF k

(* The requests that end with something written to the disk.               *)
LEMMA EndsType ==
  ASSUME TypeInv, NEW c \in Clients, LinkRaises(c) \/ Acknowledge(c) \/ EndCompact(c)
  PROVE  /\ TypeInv' /\ Grows /\ UNCHANGED <<storage, writer, up>>
         /\ call'[c] = Idle /\ \A d \in Clients \ {c} : Stays(d)
         /\ past' = [past EXCEPT !.acked = past'.acked]
<1> DEFINE k == call[c]
<1>1. /\ UNCHANGED <<storage, writer, up>> /\ call' = [call EXCEPT ![c] = Idle]
      /\ k.at \in {"reserved", "done", "replaying"}
  BY DEF LinkRaises, Acknowledge, EndCompact, At, Leave
<1>2. /\ call'[c] = Idle /\ call' = [d \in Clients |-> call'[d]]
      /\ \A d \in Clients \ {c} : Stays(d)
  BY <1>1, RequestGoes
<1>3. /\ past' = [past EXCEPT !.acked = past'.acked]
  BY DEF LinkRaises, Acknowledge, EndCompact, TypeInv, PastInv, PastFields
<1>4. PastInv' /\ Grows
  BY <1>3 DEF TypeInv, PastInv, PastFields, Grows
<1>5. UNCHANGED <<index, meta, quantized, quantizer>>
  BY <1>1 DEF storage
<1>6. SnapshotEvery \in Nat /\ writes \in 0..SnapshotEvery
  BY QuantizedAssumption DEF TypeInv, QuantizerInv
<1>7. writes' \in 0..SnapshotEvery
  BY <1>6 DEF LinkRaises, Acknowledge, EndCompact
<1>8. DiskInv'
  <2>1. CASE LinkRaises(c)
    <3>1. CASE k.job = "insert"
      <4>1. k.id \in Nat /\ k.vec \in past'.submitted /\ k.vec \in Values
        BY <3>1, <1>4 DEF TypeInv, CallInv, Grows, PastInv
      <4>2. InsertRecord(k.id, k.vec) \in Lines /\ InsertRecord(k.id, k.vec).vec = k.vec
        BY <4>1, LineOfInsert
      <4>3. disk' = [disk EXCEPT !.log = Append(@, InsertRecord(k.id, k.vec))]
        BY <2>1, <3>1 DEF LinkRaises, WriteRecord
      <4>4. QED
        BY <1>4, <4>1, <4>2, <4>3, LogGrows
    <3>2. CASE k.job # "insert"
      BY <1>4, <2>1, <3>2, DiskStays DEF LinkRaises
    <3>3. QED
      BY <3>1, <3>2
  <2>2. CASE Acknowledge(c)
    BY <1>4, <2>2, DiskStays, SavedType DEF Acknowledge
  <2>3. CASE EndCompact(c)
    BY <1>4, <2>3, SavedType DEF EndCompact
  <2>4. QED
    BY <2>1, <2>2, <2>3
<1>9. IndexInv' /\ CallInv(c)'
  BY <1>1, <1>2, <1>4, <1>5, IndexStays, IdleInv
<1>10. QuantizerInv'
  <2>1. past'.compactions = past.compactions
    BY <1>3 DEF TypeInv, PastInv, PastFields
  <2>2. QED
    BY <2>1, <1>1, <1>5, <1>7 DEF TypeInv, QuantizerInv
<1>11. k.at \notin Swaps /\ call'[c].at \notin Swaps
  BY <1>1, <1>2 DEF Swaps, Idle
<1>12. TypeInv'
  BY <1>1, <1>2, <1>4, <1>5, <1>8, <1>9, <1>10, <1>11, TypeStep
<1>13. QED
  BY <1>1, <1>2, <1>3, <1>4, <1>12

LEMMA DeleteType ==
  ASSUME TypeInv, NEW c \in Clients, Delete(c)
  PROVE  /\ TypeInv' /\ Grows /\ Usable(index) /\ Unlocked /\ call[c].at = "idle"
         /\ UNCHANGED <<meta, quantized, quantizer, writer>>
         /\ \E id \in Live(index) :
              /\ Same(index, index') /\ Live(index') = Live(index) \ {id}
              /\ past' = [past EXCEPT !.erased = @ \cup {meta[id]},
                            !.emptied = @ \/ (Compacting /\ Live(index) = {id})]
         /\ IsCall(call'[c]) /\ call'[c].at = "done" /\ call'[c].job = "delete"
         /\ call'[c].live = call[c].live /\ call'[c].missed = call[c].missed
         /\ \A d \in Clients \ {c} : Stays(d)
<1> DEFINE k == call[c]
           new == [k EXCEPT !.at = "done", !.job = "delete"]
<1>1. PICK id \in Live(index) :
        /\ index' = Tombstone(index, id)
        /\ disk' = [disk EXCEPT !.log = Append(@, DeleteRecord(id))]
        /\ past' = [past EXCEPT !.erased = @ \cup {meta[id]},
                      !.emptied = @ \/ (Compacting /\ Live(index) = {id})]
  BY DEF Delete
<1>2. /\ call' = [call EXCEPT ![c] = new] /\ k.at = "idle" /\ Unlocked
      /\ UNCHANGED <<meta, quantized, quantizer, writer, writes, up>>
  BY DEF Delete, At
<1>3. Usable(index) /\ id \in DOMAIN index.nodes /\ id \in Nat
  BY <1>2, RowsOfUsable DEF TypeInv, IndexInv, Shelved
<1>4. Usable(index') /\ Same(index, index') /\ Live(index') = Live(index) \ {id}
  BY <1>1, <1>3, DeleteUsable
<1>5. PastInv' /\ Grows
  <2>1. past.emptied \/ (Compacting /\ Live(index) = {id}) \in BOOLEAN
    BY DEF TypeInv, PastInv
  <2>2. PastInv
    BY DEF TypeInv
  <2>3. QED
    BY <1>1, <2>1, <2>2 DEF PastInv, PastFields, Grows
<1>6. IndexInv'
  <2>1. past'.submitted = past.submitted
    BY <1>1 DEF TypeInv, PastInv, PastFields
  <2>2. QED
    BY <2>1, <1>2, <1>4, RowsOfUsable DEF TypeInv, IndexInv, Same
<1>7. DiskInv'
  <2>1. DeleteRecord(id) \in Lines /\ DeleteRecord(id).op = "delete"
    BY <1>3 DEF DeleteRecord, Record, Lines
  <2>2. QED
    BY <2>1, <1>1, <1>5, LogGrows
<1>8. QuantizerInv'
  BY <1>2, <1>5, QuantizerStays
<1>9. IsCall(k) /\ k.vec \in Values \cup {Zero} /\ k.id \in Nat /\ k.row \in Codes
  BY DEF TypeInv, CallInv
<1>10. /\ IsCall(new) /\ new.at = "done" /\ new.job = "delete" /\ new.id = k.id /\ new.vec = k.vec
       /\ new.row = k.row /\ new.live = k.live /\ new.missed = k.missed
  BY <1>9 DEF IsCall, CallFields
<1> HIDE DEF new, k
<1>11. /\ call'[c] = new /\ call' = [d \in Clients |-> call'[d]]
       /\ \A d \in Clients \ {c} : Stays(d)
  BY <1>2, RequestGoes
<1>12. CallInv(c)'
  <2>1. call'[c].live = call[c].live /\ call'[c].missed = call[c].missed
        /\ call'[c].at = "done" /\ call'[c].job = "delete" /\ IsCall(call'[c])
        /\ call'[c].vec \in Values \cup {Zero} /\ call'[c].id \in Nat /\ call'[c].row \in Codes
    BY <1>9, <1>10, <1>11 DEF k
  <2>2. past'.submitted = past.submitted /\ past'.compactions = past.compactions
        /\ quantized' = quantized
    BY <1>1, <1>2 DEF TypeInv, PastInv, PastFields
  <2>3. [at |-> "done", job |-> "delete"] \in Jobs
    BY DEF Jobs
  <2>4. CallInv(c)
    BY DEF TypeInv
  <2>5. QED
    BY <2>1, <2>2, <2>3, <2>4 DEF CallInv
<1>13. k.at \notin Swaps /\ call'[c].at \notin Swaps
  BY <1>2, <1>10, <1>11 DEF Swaps
<1>14. TypeInv'
  BY <1>2, <1>5, <1>6, <1>7, <1>8, <1>11, <1>12, <1>13, TypeStep DEF k
<1>15. QED
  BY <1>1, <1>2, <1>3, <1>4, <1>5, <1>10, <1>11, <1>14 DEF k
-----------------------------------------------------------------------------
(* /fit_quantizer, and the requests of a compaction                        *)

LEMMA DisturbedStays ==
  ASSUME TypeInv, call' = Disturbed
  PROVE  /\ call' = [d \in Clients |-> call'[d]] /\ \A d \in Clients : Stays(d)
         /\ \A d \in Clients : call'[d].job = "search" => call'[d].mixed
<1>1. \A d \in Clients : call'[d] = [call[d] EXCEPT !.mixed = (call[d].job = "search")]
  BY DEF Disturbed
<1>2. call' = [d \in Clients |-> call'[d]]
  BY DEF Disturbed
<1>3. ASSUME NEW d \in Clients
      PROVE  Stays(d) /\ (call'[d].job = "search" => call'[d].mixed)
  <2> DEFINE k == call[d]
             m == (k.job = "search")
             new == [k EXCEPT !.mixed = m]
  <2>1. IsCall(k)
    BY DEF TypeInv, CallInv
  <2> HIDE DEF m
  <2>2. IsCall(new) /\ new.mixed = m /\ \A f \in CallFields \ {"mixed"} : new[f] = k[f]
    BY <2>1 DEF IsCall, CallFields
  <2>3. call'[d] = new
    BY <1>1 DEF m
  <2> HIDE DEF new, k
  <2>4. Stays(d)
    BY <2>2, <2>3 DEF Stays, k, m
  <2>5. call'[d].job = k.job
    BY <2>4, StaysFields DEF k
  <2>6. QED
    BY <2>2, <2>3, <2>4, <2>5 DEF m
<1>4. QED
  BY <1>2, <1>3

LEMMA FitType ==
  ASSUME TypeInv, NEW c \in Clients, FitQuantizer(c)
  PROVE  /\ TypeInv' /\ Grows /\ quantizer'.fitted
         /\ UNCHANGED <<index, meta, quantized, writer>>
         /\ \A d \in Clients : Stays(d)
         /\ \A d \in Clients : call'[d].job = "search" => call'[d].mixed
         /\ past' = [past EXCEPT !.fits = past'.fits, !.spoilt = past'.spoilt]
         /\ Span(quantizer) # Span(quantizer') => past.submitted \subseteq past'.spoilt
<1>1. PICK sample \in Samples :
        /\ quantizer' = Fit(sample)
        /\ past' = [past EXCEPT !.fits = @ + 1,
             !.spoilt = IF Span(quantizer) # Span(Fit(sample)) THEN @ \cup past.submitted ELSE @]
  BY DEF FitQuantizer
<1>2. /\ call[c].at = "idle" /\ quantized /\ call' = Disturbed
      /\ UNCHANGED <<index, meta, quantized, writer, service>>
      /\ disk' = disk /\ writes' = writes /\ up' = up
  BY DEF FitQuantizer, At, service
<1>3. /\ call' = [d \in Clients |-> call'[d]] /\ \A d \in Clients : Stays(d)
      /\ \A d \in Clients : call'[d].job = "search" => call'[d].mixed
  BY <1>2, DisturbedStays
<1>4. /\ past' = [past EXCEPT !.fits = past'.fits, !.spoilt = past'.spoilt]
      /\ past.spoilt \subseteq past'.spoilt
      /\ Span(quantizer) # Span(quantizer') => past.submitted \subseteq past'.spoilt
  <2> DEFINE S == IF Span(quantizer) # Span(Fit(sample)) THEN past.spoilt \cup past.submitted
                  ELSE past.spoilt
  <2>1. past' = [past EXCEPT !.fits = past'.fits, !.spoilt = S] /\ past'.spoilt = S
    BY <1>1 DEF TypeInv, PastInv, PastFields
  <2>2. QED
    BY <1>1, <2>1
<1>5. PastInv' /\ Grows /\ past'.compactions = past.compactions
  BY <1>4 DEF TypeInv, PastInv, PastFields, Grows
<1>6. IsQuantizer(quantizer)' /\ quantizer'.fitted
      /\ quantizer'.max - quantizer'.min <= Widest[past.compactions]
  <2> DEFINE W == Widest[past.compactions]
             m == Largest
  <2>1. W \in Nat /\ 12 * m <= W /\ m \in Nat
    BY WidestIsNarrow, QuantizedAssumption DEF TypeInv, PastInv
  <2>2. sample \in SUBSET Int /\ sample # {} /\ sample \subseteq 0..m
    BY QuantizedAssumption
  <2> HIDE DEF W, m
  <2>3. \A x, y \in sample : 12 * (x - y) <= W
    <3>1. \A x, y \in sample : x \in 0..m /\ y \in 0..m
      BY <2>2
    <3>2. QED
      BY <3>1, <2>1
  <2>4. QED
    BY <1>1, <2>1, <2>2, <2>3, FitHoldsSample DEF IsQuantizer, W
<1>7. QuantizerInv'
  BY <1>2, <1>5, <1>6 DEF TypeInv, QuantizerInv
<1>8. IndexInv' /\ DiskInv' /\ CallInv(c)'
  BY <1>2, <1>3, <1>5, IndexStays, DiskStays, CallStays
<1>9. call[c].at \notin Swaps /\ call'[c].at \notin Swaps
  BY <1>2, <1>3, StaysFields DEF Swaps
<1>10. TypeInv'
  BY <1>2, <1>3, <1>5, <1>7, <1>8, <1>9, TypeStep
<1>11. QED
  BY <1>2, <1>3, <1>4, <1>5, <1>6, <1>10

LEMMA ReinsertType ==
  ASSUME TypeInv, NEW c \in Clients, Reinsert(c)
  PROVE  /\ TypeInv' /\ Grows /\ UNCHANGED <<index, meta, quantized, writer>>
         /\ Span(quantizer') = Span(quantizer) /\ quantizer'.fitted = quantizer.fitted
         /\ call[c].at = "replaying" /\ call[c].job = "compact"
         /\ \A d \in Clients \ {c} : Stays(d)
         /\ IsCall(call'[c]) /\ call'[c].at = "encoded" /\ call'[c].job = "compact"
         /\ call'[c].live = call[c].live /\ call'[c].range = Span(quantizer)
         /\ \E row \in call[c].missed :
              /\ row.vec \in Int /\ call'[c].vec = row.meta
              /\ call'[c].missed = call[c].missed \ {row}
              /\ call'[c].row = IF quantized THEN Encode(quantizer, row.vec) ELSE row.vec
              /\ past' = [past EXCEPT !.spoilt =
                     IF quantized /\ Bucket(quantizer, row.vec) \notin Codes
                     THEN @ \cup {row.meta} ELSE @]
<1> DEFINE k == call[c]
<1>1. PICK row \in k.missed :
       /\ quantizer' = IF quantized THEN Tracked(quantizer, row.vec) ELSE quantizer
       /\ call' = [call EXCEPT ![c].at = "encoded", ![c].vec = row.meta,
                     ![c].row = IF quantized THEN Encode(quantizer, row.vec) ELSE row.vec,
                     ![c].range = Span(quantizer), ![c].missed = @ \ {row}]
       /\ past' = [past EXCEPT !.spoilt =
                     IF quantized /\ Bucket(quantizer, row.vec) \notin Codes
                     THEN @ \cup {row.meta} ELSE @]
  BY DEF Reinsert
<1>2. /\ k.at = "replaying" /\ UNCHANGED <<index, meta, quantized, writer, service>>
      /\ disk' = disk /\ writes' = writes /\ up' = up
  BY DEF Reinsert, At, service
<1>3. /\ IsCall(k) /\ [at |-> k.at, job |-> k.job] \in Jobs
      /\ row.vec \in Int /\ row.meta \in past.submitted /\ (quantized \/ row.vec \in Codes)
      /\ k.id \in Nat
  BY DEF TypeInv, CallInv
<1>4. k.job = "compact"
  BY <1>2, <1>3 DEF Jobs, Searches, Swaps
<1> DEFINE code == IF quantized THEN Encode(quantizer, row.vec) ELSE row.vec
           new == [k EXCEPT !.at = "encoded", !.vec = row.meta, !.row = code,
                     !.range = Span(quantizer), !.missed = k.missed \ {row}]
<1>5. code \in Codes
  BY <1>3, EncodeIsCode DEF TypeInv, QuantizerInv
<1>6. call' = [call EXCEPT ![c] = new]
  BY <1>1, <1>3 DEF IsCall, CallFields
<1> HIDE DEF code
<1>7. /\ IsCall(new) /\ new.at = "encoded" /\ new.job = "compact" /\ new.vec = row.meta
      /\ new.row = code /\ new.range = Span(quantizer) /\ new.missed = k.missed \ {row}
      /\ new.id = k.id /\ new.live = k.live
  BY <1>3, <1>4 DEF IsCall, CallFields
<1> HIDE DEF new, k
<1>8. /\ call'[c] = new /\ call' = [d \in Clients |-> call'[d]]
      /\ \A d \in Clients \ {c} : Stays(d)
  BY <1>6, RequestGoes
<1>9. PastInv' /\ Grows /\ past'.submitted = past.submitted /\ past'.compactions = past.compactions
  <2> DEFINE S == IF quantized /\ Bucket(quantizer, row.vec) \notin Codes
                  THEN past.spoilt \cup {row.meta} ELSE past.spoilt
  <2>1. past' = [past EXCEPT !.spoilt = S] /\ past.spoilt \subseteq S
    BY <1>1 DEF TypeInv, PastInv, PastFields
  <2> HIDE DEF S
  <2>2. QED
    BY <2>1 DEF TypeInv, PastInv, PastFields, Grows
<1>10. IsQuantizer(quantizer)' /\ Span(quantizer') = Span(quantizer)
       /\ quantizer'.fitted = quantizer.fitted
  BY <1>1, TrackedStays DEF TypeInv, QuantizerInv
<1>11. QuantizerInv' /\ IndexInv' /\ DiskInv'
  BY <1>2, <1>9, <1>10, QuantizerStays, IndexStays, DiskStays
<1>12. CallInv(c)'
  <2>1. [at |-> "encoded", job |-> "compact"] \in Jobs
    BY DEF Jobs
  <2>2. row.meta \in Values \cup {Zero}
    BY <1>3 DEF TypeInv, PastInv
  <2>3. CallInv(c)
    BY DEF TypeInv
  <2>4. \A x \in new.missed : x \in k.missed
    BY <1>7
  <2>5. QED
    BY <2>1, <2>2, <2>3, <2>4, <1>2, <1>3, <1>5, <1>7, <1>8, <1>9 DEF CallInv, k
<1>13. call[c].at \notin Swaps /\ call'[c].at \notin Swaps
  BY <1>2, <1>7, <1>8 DEF Swaps, k
<1>14. TypeInv'
  BY <1>2, <1>8, <1>9, <1>11, <1>12, <1>13, TypeStep
<1>15. call'[c].live = call[c].live
  BY <1>7, <1>8 DEF k
<1>16. QED
  BY <1>1, <1>2, <1>3, <1>4, <1>7, <1>8, <1>9, <1>10, <1>14, <1>15 DEF code, k

(* Numbers read from one index, refitted, stay within the next width.      *)
LEMMA NextWidth ==
  ASSUME NEW d \in Int, NEW w \in Int, NEW W \in Nat, w <= W, 10 * d <= w + 10
  PROVE  12 * d <= (6 * W) \div 5 + 12
<1> DEFINE e == (6 * W) \div 5
<1>1. e \in Int /\ 6 * W < 5 * e + 5
  OBVIOUS
<1> HIDE DEF e
<1>2. 60 * d <= 6 * W + 60
  OBVIOUS
<1>3. 12 * d < e + 13
  BY <1>1, <1>2
<1>4. QED
  BY <1>1, <1>3 DEF e

(* What a compaction copies.                                               *)
CopyOf(ix, live) ==
  /\ live \in Seq(Copied) /\ DOMAIN live = DOMAIN LiveIds(ix)
  /\ \A j \in DOMAIN live : /\ live[j].id = LiveIds(ix)[j] /\ live[j].id \in Live(ix)
                            /\ live[j].id \in DOMAIN meta /\ live[j].meta = meta[live[j].id]
                            /\ live[j].vec = Value(quantizer, ix.vectors[live[j].id])
                            /\ ix.vectors[live[j].id] \in Codes

LEMMA RowsCopied ==
  ASSUME TypeInv, Unlocked
  PROVE  LET rows == LiveRows(index) IN
         CopyOf(index, [k \in DOMAIN rows |-> [id   |-> rows[k].id,
                                               vec  |-> Value(quantizer, rows[k].vec),
                                               meta |-> meta[rows[k].id]]])
<1> DEFINE ids == LiveIds(index)
           rows == LiveRows(index)
           live == [k \in DOMAIN rows |-> [id   |-> rows[k].id,
                                           vec  |-> Value(quantizer, rows[k].vec),
                                           meta |-> meta[rows[k].id]]]
<1>1. Usable(index) /\ DOMAIN meta = DOMAIN index.nodes /\ \A i \in DOMAIN meta : meta[i] \in Values
  BY DEF TypeInv, IndexInv, PastInv
<1>2. /\ Live(index) \subseteq DOMAIN index.nodes /\ DOMAIN index.nodes \subseteq Nat
      /\ \A i \in DOMAIN index.nodes : Row(index, i) = index.vectors[i] /\ index.vectors[i] \in Codes
      /\ ids \in Seq(Live(index))
  BY <1>1, RowsOfUsable DEF Shelved
<1>3. \A k \in DOMAIN ids : ids[k] \in Live(index)
  BY <1>2
<1>4. /\ DOMAIN rows = DOMAIN ids
      /\ \A k \in DOMAIN ids : rows[k].id = ids[k] /\ rows[k].vec = Row(index, ids[k])
  BY Zenon DEF LiveRows
<1>5. \A code \in Codes : Value(quantizer, code) \in Int
  BY ReadWithinRange, Constants DEF Value, TypeInv, QuantizerInv
<1>6. ids \in Seq(Live(index))
  BY <1>2
<1> HIDE DEF ids, rows
<1>7. \A k \in DOMAIN ids :
        /\ live[k] = [id |-> ids[k], vec |-> Value(quantizer, index.vectors[ids[k]]), meta |-> meta[ids[k]]]
        /\ live[k] \in Copied
  BY <1>1, <1>2, <1>3, <1>4, <1>5 DEF Copied
<1>8. live \in Seq(Copied) /\ DOMAIN live = DOMAIN ids
  <2>1. DOMAIN live = DOMAIN ids
    BY <1>4
  <2>2. PICK n \in Nat : DOMAIN ids = 1..n
    BY <1>6
  <2>3. live \in [1..n -> Copied]
    BY <2>1, <2>2, <1>7, Zenon
  <2> HIDE DEF live
  <2>4. QED
    BY <2>1, <2>2, <2>3
<1> HIDE DEF live
<1>9. CopyOf(index, live)
  BY <1>1, <1>2, <1>3, <1>7, <1>8 DEF CopyOf, ids
<1>10. QED
  BY <1>9 DEF live, rows

LEMMA BeginType ==
  ASSUME TypeInv, NEW c \in Clients, BeginCompact(c)
  PROVE  /\ TypeInv' /\ Grows /\ Unlocked /\ Usable(index) /\ UNCHANGED <<storage, writer, service>>
         /\ call[c].at = "idle" /\ (Live(index) # {} => ~ CannotDecode)
         /\ \A d \in Clients \ {c} : Stays(d)
         /\ IsCall(call'[c]) /\ call'[c].at = "rebuilding" /\ call'[c].job = "compact"
         /\ call'[c].missed = {} /\ CopyOf(index, call'[c].live)
         /\ past' = [past EXCEPT !.compactions = @ + 1, !.crossed = @ \/ Compacting]
<1> DEFINE k == call[c]
           n == past.compactions
           rows == LiveRows(index)
           live == [j \in DOMAIN rows |-> [id   |-> rows[j].id,
                                           vec  |-> Value(quantizer, rows[j].vec),
                                           meta |-> meta[rows[j].id]]]
           new == [Idle EXCEPT !.at = "rebuilding", !.job = "compact", !.live = live]
<1>1. /\ k.at = "idle" /\ Unlocked /\ n < MaxCompactions /\ (Live(index) # {} => ~ CannotDecode)
      /\ call' = [call EXCEPT ![c] = new]
      /\ past' = [past EXCEPT !.compactions = @ + 1, !.crossed = @ \/ Compacting]
      /\ UNCHANGED <<storage, writer, service>>
  BY DEF BeginCompact, At
<1>2. UNCHANGED <<index, meta, quantized, quantizer, writer, disk, writes, up>>
  BY <1>1 DEF storage, service
<1>3. CopyOf(index, live)
  BY <1>1, RowsCopied
<1> HIDE DEF live
<1>4. /\ IsCall(new) /\ new.at = "rebuilding" /\ new.job = "compact" /\ new.live = live
      /\ new.missed = {} /\ new.id = 0 /\ new.vec = Zero /\ new.row = Zero
  BY DEF Idle, IsCall, CallFields
<1> HIDE DEF new, k
<1>5. /\ call'[c] = new /\ call' = [d \in Clients |-> call'[d]]
      /\ \A d \in Clients \ {c} : Stays(d)
  BY <1>1, RequestGoes
<1>6. /\ PastInv' /\ Grows /\ past'.submitted = past.submitted
      /\ n + 1 \in 1..MaxCompactions /\ past'.compactions = n + 1
  <2> DEFINE b == past.crossed \/ Compacting
  <2>1. n \in 0..MaxCompactions /\ MaxCompactions \in Nat
    BY QuantizedAssumption DEF TypeInv, PastInv
  <2>2. b \in BOOLEAN
    BY DEF TypeInv, PastInv
  <2>3. past' = [past EXCEPT !.compactions = n + 1, !.crossed = b]
    BY <1>1
  <2> HIDE DEF b
  <2>4. /\ past'.compactions = n + 1 /\ past'.submitted = past.submitted
        /\ past'.spoilt = past.spoilt /\ past'.unfit = past.unfit /\ past'.emptied = past.emptied
        /\ past'.crossed = b /\ past'.restarts = past.restarts
        /\ past' = [f \in PastFields |-> past'[f]]
    BY <2>3 DEF TypeInv, PastInv, PastFields
  <2>5. n + 1 \in 1..MaxCompactions /\ n + 1 \in 0..MaxCompactions
    BY <2>1, <1>1
  <2>6. QED
    BY <2>2, <2>4, <2>5 DEF TypeInv, PastInv, Grows
<1>7. IndexInv' /\ DiskInv' /\ QuantizerInv'
  BY <1>2, <1>6, IndexStays, DiskStays, QuantizerStays
<1>8. ASSUME quantized, NEW i \in DOMAIN live, NEW j \in DOMAIN live
      PROVE  12 * (live[i].vec - live[j].vec) <= Widest[n + 1]
  <2> DEFINE w == quantizer.max - quantizer.min
             W == Widest[n]
             x == index.vectors[live[i].id]
             y == index.vectors[live[j].id]
  <2>1. x \in Codes /\ y \in Codes /\ live[i].vec = Decode(quantizer, x) /\ live[j].vec = Decode(quantizer, y)
    BY <1>3, <1>8 DEF CopyOf, Value
  <2>2. IsQuantizer(quantizer) /\ w <= W
    BY DEF TypeInv, QuantizerInv
  <2>3. w \in Int
    BY <2>2 DEF IsQuantizer
  <2>4. W \in Nat /\ Widest[n + 1] = (6 * W) \div 5 + 12
    <3> DEFINE m == n + 1
    <3>1. n \in 0..MaxCompactions /\ m - 1 = n
      BY DEF TypeInv, PastInv
    <3>2. m \in 1..MaxCompactions
      BY <1>6
    <3> HIDE DEF m
    <3>3. Widest[m] = (6 * Widest[m - 1]) \div 5 + 12
      BY <3>2, WidestGrows, Zenon
    <3>4. Widest[n] \in Nat
      BY <3>1, WidestIsNarrow
    <3>5. QED
      BY <3>1, <3>3, <3>4 DEF m
  <2>5. /\ live[i].vec \in Int /\ live[j].vec \in Int
        /\ 10 * (live[i].vec - live[j].vec) <= w + 10
    <3> HIDE DEF x, y
    <3>1. QED
      BY <2>1, <2>2, ReadWithinRange
  <2> HIDE DEF w, W
  <2>6. live[i].vec - live[j].vec \in Int
    BY <2>5
  <2>7. 12 * (live[i].vec - live[j].vec) <= (6 * W) \div 5 + 12
    BY <2>2, <2>3, <2>4, <2>5, <2>6, NextWidth
  <2>8. QED
    BY <2>4, <2>7
<1>9. CallInv(c)'
  <2>1. [at |-> "rebuilding", job |-> "compact"] \in Jobs
    BY DEF Jobs
  <2>2. live \in Seq(Copied) /\ \A j \in DOMAIN live : live[j].meta \in past.submitted
    BY <1>3 DEF CopyOf, TypeInv, IndexInv
  <2>3. \A j \in DOMAIN live : quantized \/ live[j].vec \in Codes
    BY <1>3 DEF CopyOf, Value
  <2>4. \A j \in DOMAIN live : live[j].meta \in past'.submitted
    BY <2>2, <1>6
  <2> HIDE DEF n
  <2>5. QED
    BY <1>2, <1>4, <1>5, <1>6, <1>8, <2>1, <2>2, <2>3, <2>4, Constants DEF CallInv
<1>10. call[c].at \notin Swaps /\ call'[c].at \notin Swaps
  BY <1>1, <1>4, <1>5 DEF Swaps, k
<1>11. TypeInv'
  BY <1>2, <1>5, <1>6, <1>7, <1>9, <1>10, TypeStep
<1>12. Usable(index)
  BY <1>1 DEF TypeInv, IndexInv
<1>13. QED
  BY <1>1, <1>3, <1>4, <1>5, <1>6, <1>11, <1>12 DEF k
-----------------------------------------------------------------------------
(* The swap                                                                *)

(* What every step of it is about: its request and the new index.          *)
LEMMA SwapFacts ==
  ASSUME TypeInv, NEW c \in Clients, call[c].at \in Swaps \cup {"rebuilding"}
  PROVE  LET k == call[c]
             new == NewIndex(k.live) IN
         /\ k.job = "compact" /\ IsCall(k)
         /\ Usable(new) /\ IsRecord(new) /\ Shelved(new)
         /\ DOMAIN new.nodes = 0..(Len(k.live) - 1) /\ Live(new) = 0..(Len(k.live) - 1)
         /\ \A i \in 0..(Len(k.live) - 1) :
              Value(NewQuantizer(k.live), new.vectors[i]) = k.live[i + 1].vec
         /\ IsQuantizer(NewQuantizer(k.live))
         /\ NewQuantizer(k.live).max - NewQuantizer(k.live).min <= Widest[past.compactions]
         /\ (NewQuantizer(k.live).fitted <=> quantized /\ k.live # << >>)
         /\ k.live \in Seq(Copied) /\ Len(k.live) \in Nat
<1> DEFINE k == call[c]
           n == past.compactions
<1>1. /\ IsCall(k) /\ [at |-> k.at, job |-> k.job] \in Jobs /\ k.live \in Seq(Copied)
      /\ quantized => \A i, j \in DOMAIN k.live : 12 * (k.live[i].vec - k.live[j].vec) <= Widest[n]
      /\ \A j \in DOMAIN k.live : quantized \/ k.live[j].vec \in Codes
      /\ n \in 0..MaxCompactions /\ QuantizerInv
  BY DEF TypeInv, CallInv, PastInv
<1>2. k.job = "compact"
  BY <1>1 DEF Jobs, Swaps, Searches
<1> HIDE DEF k, n
<1>3. LET new == NewIndex(k.live) IN
      /\ Usable(new) /\ IsRecord(new)
      /\ DOMAIN new.nodes = 0..(Len(k.live) - 1) /\ Live(new) = 0..(Len(k.live) - 1)
      /\ \A i \in 0..(Len(k.live) - 1) :
           Value(NewQuantizer(k.live), new.vectors[i]) = k.live[i + 1].vec
  BY <1>1, NewIndexIsExact
<1>4. LET q == NewQuantizer(k.live) IN
      IsQuantizer(q) /\ q.max - q.min <= Widest[n] /\ (q.fitted <=> quantized /\ k.live # << >>)
  BY <1>1, NewQuantizerIsExact
<1>5. Shelved(NewIndex(k.live))
  BY <1>3, RowsOfUsable
<1>6. Len(k.live) \in Nat
  BY <1>1
<1>7. QED
  BY <1>1, <1>2, <1>3, <1>4, <1>5, <1>6 DEF k, n

(* All that remains to be shown of a step of the swap.                     *)
LEMMA SwapStep ==
  ASSUME TypeInv, NEW c \in Clients, call[c].at \in Swaps \cup {"rebuilding"},
         call[c].at = "rebuilding" => Unlocked,
         call' = [d \in Clients |-> call'[d]], \A d \in Clients \ {c} : Stays(d),
         call'[c].at \in Swaps \cup {"replaying"}, call'[c].job = "compact",
         IsCall(call'[c]), call'[c].id = call[c].id, call'[c].vec = call[c].vec,
         call'[c].row = call[c].row,
         call'[c].live = call[c].live \/ call'[c].live = << >>,
         \A row \in call'[c].missed : /\ row = [vec |-> row.vec, meta |-> row.meta]
                                      /\ row.vec \in Int /\ row.meta \in past.submitted
                                      /\ quantized \/ row.vec \in Codes,
         writer' = IF call'[c].at \in Swaps THEN c ELSE None,
         call'[c].at \in Swaps => Swapped(c)',
         UNCHANGED <<quantized, service>>, PastInv', Grows,
         past'.submitted = past.submitted, past'.compactions = past.compactions,
         QuantizerInv', IndexInv'
  PROVE  TypeInv'
<1> DEFINE k == call[c]
           l == call'[c]
           n == past.compactions
<1>1. SwapInv /\ CallInv(c) /\ None \notin Clients
  BY Constants DEF TypeInv
<1>2. disk' = disk /\ quantized' = quantized
  BY DEF service
<1>3. DiskInv'
  BY <1>2, DiskStays
<1>4. \A d \in Clients \ {c} : ~ (call[d].at \in Swaps)
  <2>1. CASE k.at = "rebuilding"
    <3>1. writer = None
      BY <2>1 DEF Unlocked
    <3>2. QED
      BY <1>1, <3>1 DEF SwapInv
  <2>2. CASE k.at \in Swaps
    BY <1>1, <2>2 DEF SwapInv
  <2>3. QED
    BY <2>1, <2>2
<1>5. \A d \in Clients \ {c} : call'[d].at = call[d].at
  BY StaysFields
<1>6. SwapInv'
  BY <1>1, <1>4, <1>5 DEF SwapInv
<1>7. CallInv(c)'
  <2>1. /\ k.id \in Nat /\ k.vec \in Values \cup {Zero} /\ k.row \in Codes
        /\ k.live \in Seq(Copied) /\ << >> \in Seq(Copied) /\ DOMAIN << >> = {}
        /\ \A j \in DOMAIN k.live : k.live[j].meta \in past.submitted /\ (quantized \/ k.live[j].vec \in Codes)
        /\ quantized => \A i, j \in DOMAIN k.live : 12 * (k.live[i].vec - k.live[j].vec) <= Widest[n]
    BY <1>1 DEF CallInv
  <2>2. [at |-> l.at, job |-> l.job] \in Jobs /\ l.at # "encoded" /\ l.job # "insert"
    BY DEF Jobs, Swaps
  <2> HIDE DEF k
  <2>3. l.live \in {k.live, << >>}
    BY DEF k
  <2>4. /\ l.live \in Seq(Copied)
        /\ \A j \in DOMAIN l.live : l.live[j].meta \in past.submitted /\ (quantized \/ l.live[j].vec \in Codes)
        /\ quantized => \A i, j \in DOMAIN l.live : 12 * (l.live[i].vec - l.live[j].vec) <= Widest[n]
    <3>1. CASE l.live = k.live
      BY <2>1, <3>1
    <3>2. CASE l.live = << >>
      BY <2>1, <3>2
    <3>3. QED
      BY <2>3, <3>1, <3>2
  <2>5. l.id \in Nat /\ l.vec \in Values \cup {Zero} /\ l.row \in Codes
    BY <2>1 DEF k
  <2> HIDE DEF l, n
  <2>6. IsCall(l)
    BY DEF l
  <2>7. past'.submitted = past.submitted /\ Widest[past'.compactions] = Widest[n]
    BY DEF n
  <2>8. \A row \in l.missed : /\ row = [vec |-> row.vec, meta |-> row.meta]
                              /\ row.vec \in Int /\ row.meta \in past.submitted
                              /\ quantized \/ row.vec \in Codes
    BY DEF l
  <2>9. QED
    BY <1>2, <2>2, <2>4, <2>5, <2>6, <2>7, <2>8 DEF CallInv, l
<1>8. \A d \in Clients : CallInv(d)'
  BY <1>2, <1>7, CallStays
<1>9. QED
  BY <1>3, <1>6, <1>8 DEF TypeInv

(* Vectors that raced the rebuild.                                         *)
LEMMA MissedRows ==
  ASSUME TypeInv, Unlocked, NEW c, NEW row \in Missed(c, quantizer)
  PROVE  /\ row = [vec |-> row.vec, meta |-> row.meta]
         /\ row.vec \in Int /\ row.meta \in past.submitted /\ (quantized \/ row.vec \in Codes)
         /\ \E i \in Live(index) : /\ i \in DOMAIN meta /\ row.meta = meta[i]
                                   /\ row.vec = Value(quantizer, index.vectors[i])
<1>1. PICK i \in Live(index) : row = [vec |-> Value(quantizer, Row(index, i)), meta |-> meta[i]]
  BY DEF Missed
<1>2. Usable(index) /\ DOMAIN meta = DOMAIN index.nodes /\ \A j \in DOMAIN meta : meta[j] \in past.submitted
  BY DEF TypeInv, IndexInv
<1>3. i \in DOMAIN meta /\ Row(index, i) = index.vectors[i] /\ index.vectors[i] \in Codes
  BY <1>2, RowsOfUsable
<1>4. Value(quantizer, index.vectors[i]) \in Int
  BY <1>3, ReadWithinRange, Constants DEF Value, TypeInv, QuantizerInv
<1>5. quantized \/ Value(quantizer, index.vectors[i]) \in Codes
  BY <1>3 DEF Value
<1>6. QED
  BY <1>1, <1>2, <1>3, <1>4, <1>5

LEMMA SwapVectorsType ==
  ASSUME TypeInv, NEW c \in Clients, SwapVectors(c)
  PROVE  /\ TypeInv' /\ Unlocked /\ ~ Unlocked'
         /\ call[c].at = "rebuilding" /\ call[c].job = "compact"
         /\ CannotDecode => Missed(c, quantizer) = {}
         /\ \A d \in Clients : d # c => Stays(d)
         /\ \A d \in Clients : call'[d].job = "search" => call'[d].mixed
         /\ IsCall(call'[c]) /\ call'[c].at = "nodes" /\ call'[c].job = "compact"
         /\ call'[c].live = call[c].live /\ call'[c].missed = Missed(c, quantizer)
         /\ index'.nodes = index.nodes
         /\ UNCHANGED <<meta, quantized, quantizer, past>>
<1> DEFINE k == call[c]
           new == NewIndex(k.live)
           missed == Missed(c, quantizer)
           m == (k.job = "search")
           mid == [k EXCEPT !.mixed = m]
           req == [mid EXCEPT !.at = "nodes", !.missed = missed]
<1>1. /\ k.at = "rebuilding" /\ Unlocked /\ (CannotDecode => missed = {}) /\ writer' = c
      /\ index' = [index EXCEPT !.vectors = new.vectors]
      /\ call' = [Disturbed EXCEPT ![c].at = "nodes", ![c].missed = missed]
      /\ UNCHANGED <<meta, quantized, quantizer, service, past>>
  BY DEF SwapVectors, At
<1>2. /\ IsCall(k) /\ \A d \in Clients : IsCall(call[d])
      /\ \A d \in Clients : call'[d] = IF d = c THEN [Disturbed[c] EXCEPT !.at = "nodes", !.missed = missed]
                                       ELSE Disturbed[d]
      /\ call' = [d \in Clients |-> call'[d]]
  <2>1. Disturbed = [d \in Clients |-> Disturbed[d]]
    BY DEF Disturbed
  <2> HIDE DEF missed
  <2>2. \A d \in Clients : IsCall(call[d])
    BY DEF TypeInv, CallInv
  <2>3. QED
    BY <1>1, <2>1, <2>2
<1>3. \A d \in Clients : Disturbed[d] = [call[d] EXCEPT !.mixed = (call[d].job = "search")]
  BY DEF Disturbed
<1>4. /\ k.job = "compact" /\ Shelved(new) /\ IsRecord(new) /\ \A i \in DOMAIN new.vectors : new.vectors[i] \in Codes
      /\ new = IndexOf(quantized, k.live)
  BY <1>1, SwapFacts, NewIsOf DEF Shelved
<1>5. \A row \in missed : /\ row = [vec |-> row.vec, meta |-> row.meta]
                          /\ row.vec \in Int /\ row.meta \in past.submitted
                          /\ quantized \/ row.vec \in Codes
  BY <1>1, MissedRows
<1>6. /\ IsRecord(index') /\ index'.vectors = new.vectors /\ index'.nodes = index.nodes
      /\ index'.entryPoint = index.entryPoint /\ index'.nextId = index.nextId
  BY <1>1 DEF TypeInv, IndexInv, Shelved, IsRecord, Fields
<1>7. ~ Unlocked'
  BY <1>1, Constants DEF Unlocked
<1>8. PastInv' /\ Grows /\ past' = past
  BY <1>1 DEF TypeInv, PastInv, Grows
<1> HIDE DEF new, missed, m
<1>9. IndexInv'
  BY <1>1, <1>4, <1>6, <1>7 DEF TypeInv, IndexInv, Shelved
<1>10. call'[c] = req
  BY <1>2, <1>3 DEF m
<1>11. /\ IsCall(req) /\ req.at = "nodes" /\ req.job = "compact" /\ req.missed = missed /\ req.mixed = m
       /\ req.id = k.id /\ req.vec = k.vec /\ req.row = k.row /\ req.live = k.live
  <2>1. /\ IsCall(mid) /\ mid.job = "compact" /\ mid.mixed = m /\ mid.id = k.id /\ mid.vec = k.vec
        /\ mid.row = k.row /\ mid.live = k.live
    BY <1>2, <1>4 DEF IsCall, CallFields
  <2> HIDE DEF mid
  <2>2. QED
    BY <2>1 DEF IsCall, CallFields
<1> HIDE DEF req
<1>12. ASSUME NEW d \in Clients, d # c
       PROVE  Stays(d) /\ (call'[d].job = "search" => call'[d].mixed)
  <2> DEFINE b == (call[d].job = "search")
             r == [call[d] EXCEPT !.mixed = b]
  <2>1. call'[d] = r
    BY <1>2, <1>3, <1>12
  <2> HIDE DEF b
  <2>2. IsCall(r) /\ r.mixed = b /\ \A f \in CallFields \ {"mixed"} : r[f] = call[d][f]
    BY <1>2 DEF IsCall, CallFields
  <2> HIDE DEF r
  <2>3. Stays(d)
    BY <2>1, <2>2 DEF Stays, b
  <2>4. QED
    BY <2>1, <2>2, <2>3, StaysFields DEF b
<1>13. Swapped(c)'
  BY <1>1, <1>4, <1>6, <1>10, <1>11 DEF Swapped
<1>14. QuantizerInv'
  <2>1. writes' = writes /\ up' = up
    BY <1>1 DEF service
  <2>2. QED
    BY <2>1, <1>1, <1>8, QuantizerStays
<1>15. TypeInv'
  BY <1>1, <1>2, <1>5, <1>8, <1>9, <1>10, <1>11, <1>12, <1>13, <1>14, SwapStep DEF Swaps, k
<1>16. QED
  BY <1>1, <1>4, <1>6, <1>7, <1>8, <1>10, <1>11, <1>12, <1>15 DEF missed, k

(* The two steps in the middle.                                            *)
LEMMA SwapMiddleType ==
  ASSUME TypeInv, NEW c \in Clients, SwapNodes(c) \/ SwapEntry(c)
  PROVE  /\ TypeInv' /\ ~ Unlocked /\ ~ Unlocked'
         /\ call[c].job = "compact" /\ call[c].at \in {"nodes", "entry"}
         /\ call[c].at = "nodes" => SwapNodes(c)
         /\ call[c].at = "entry" => UNCHANGED <<meta, index.nodes>>
         /\ \A d \in Clients \ {c} : Stays(d)
         /\ IsCall(call'[c]) /\ call'[c].at \in {"entry", "quantizer"} /\ call'[c].job = "compact"
         /\ call'[c].live = call[c].live /\ call'[c].missed = call[c].missed
         /\ UNCHANGED <<quantized, quantizer, past, writer>>
<1> DEFINE k == call[c]
           new == NewIndex(k.live)
           after == IF k.at = "nodes" THEN "entry" ELSE "quantizer"
           req == [k EXCEPT !.at = after]
<1>1. /\ k.at \in {"nodes", "entry"} /\ call' = [call EXCEPT ![c] = req]
      /\ UNCHANGED <<quantized, quantizer, writer, service, past>>
      /\ k.at = "nodes" => SwapNodes(c)
      /\ k.at = "nodes" => /\ index' = [index EXCEPT !.nodes = new.nodes, !.order = new.order]
                           /\ meta' = Relabelled(k.live)
      /\ k.at = "entry" => /\ index' = [index EXCEPT !.entryPoint = new.entryPoint,
                                          !.maxLayer = new.maxLayer, !.nextId = new.nextId]
                           /\ meta' = meta
  BY DEF SwapNodes, SwapEntry, At, Relabelled
<1>2. /\ IsCall(k) /\ k.at \in Swaps /\ writer = c /\ Swapped(c)
  BY <1>1 DEF TypeInv, CallInv, SwapInv, Swaps
<1>3. /\ k.job = "compact" /\ Shelved(new) /\ IsRecord(new) /\ Usable(new)
      /\ DOMAIN new.nodes = 0..(Len(k.live) - 1) /\ k.live \in Seq(Copied)
  BY <1>2, SwapFacts
<1>4. new = IndexOf(quantized, k.live)
  BY NewIsOf
<1>5. ~ Unlocked /\ ~ Unlocked'
  BY <1>1, <1>2, Constants DEF Unlocked
<1>6. PastInv' /\ Grows /\ past' = past
  BY <1>1 DEF TypeInv, PastInv, Grows
<1>7. IsRecord(index) /\ index.vectors = new.vectors /\ Shelved(index)
  BY <1>2, <1>4 DEF TypeInv, IndexInv, Shelved, Swapped
<1> HIDE DEF new
<1>8. /\ DOMAIN Relabelled(k.live) = DOMAIN new.nodes
      /\ \A i \in DOMAIN Relabelled(k.live) : Relabelled(k.live)[i] \in past.submitted
      /\ Relabelled(k.live) = [i \in DOMAIN Relabelled(k.live) |-> Relabelled(k.live)[i]]
  <2> DEFINE live == k.live
  <2>1. live \in Seq(Copied) /\ \A j \in DOMAIN live : live[j].meta \in past.submitted
    BY DEF TypeInv, CallInv
  <2> HIDE DEF live
  <2>2. Len(live) \in Nat /\ DOMAIN live = 1..Len(live)
    BY <2>1
  <2>3. \A i \in 0..(Len(live) - 1) : i + 1 \in DOMAIN live
    BY <2>2
  <2>4. \A i \in DOMAIN Relabelled(live) : Relabelled(live)[i] = live[i + 1].meta
                                           /\ i \in 0..(Len(live) - 1)
    BY DEF Relabelled
  <2>5. QED
    BY <1>3, <2>1, <2>3, <2>4 DEF Relabelled, live
<1>9. IndexInv' /\ Swapped(c)'
  <2>1. call'[c] = req
    BY <1>1, RequestGoes
  <2>2. req.live = k.live /\ req.at = after
    BY <1>2 DEF IsCall, CallFields
  <2> HIDE DEF req
  <2>3. CASE k.at = "nodes"
    <3>1. /\ IsRecord(index') /\ index'.vectors = new.vectors /\ index'.nodes = new.nodes
          /\ index'.order = new.order
          /\ index'.entryPoint = index.entryPoint /\ index'.nextId = index.nextId
      BY <1>1, <1>7, <2>3 DEF IsRecord, Fields
    <3>2. meta' = Relabelled(k.live)
      BY <1>1, <2>3
    <3>3. IndexInv'
      <4>0. meta' = Relabelled(k.live)
        BY <3>2
      <4>1. /\ DOMAIN meta' = DOMAIN index'.nodes /\ meta' = [i \in DOMAIN meta' |-> meta'[i]]
            /\ \A i \in DOMAIN meta' : meta'[i] \in past'.submitted
        <5>1. meta' = [i \in DOMAIN meta' |-> meta'[i]]
          BY <4>0 DEF Relabelled
        <5>2. \A i \in DOMAIN meta' : meta'[i] \in past'.submitted
          BY <4>0, <1>6, <1>8
        <5>3. DOMAIN meta' = DOMAIN index'.nodes
          BY <4>0, <3>1, <1>8
        <5>4. QED
          BY <5>1, <5>2, <5>3
      <4>2. Shelved(index')
        BY <3>1, <1>3, <1>7 DEF Shelved
      <4>3. QED
        BY <4>1, <4>2, <1>5 DEF IndexInv, Shelved
    <3>4. Swapped(c)'
      BY <3>1, <3>2, <1>1, <1>4, <2>1, <2>2, <2>3 DEF Swapped
    <3>5. QED
      BY <3>3, <3>4
  <2>4. CASE k.at = "entry"
    <3>0. index.nodes = new.nodes /\ index.order = new.order /\ meta = Relabelled(k.live)
      BY <1>2, <1>4, <2>4 DEF Swapped
    <3>1. /\ IsRecord(index') /\ index'.vectors = index.vectors /\ index'.nodes = index.nodes
          /\ index'.order = index.order /\ index'.entryPoint = new.entryPoint
          /\ index'.maxLayer = new.maxLayer /\ index'.nextId = new.nextId
      BY <1>1, <1>7, <2>4 DEF IsRecord, Fields
    <3>2. meta' = meta
      BY <1>1, <2>4
    <3>3. IndexInv'
      <4>0. meta' = Relabelled(k.live)
        BY <3>0, <3>2
      <4>1. /\ DOMAIN meta' = DOMAIN index'.nodes /\ meta' = [i \in DOMAIN meta' |-> meta'[i]]
            /\ \A i \in DOMAIN meta' : meta'[i] \in past'.submitted
        <5>1. meta' = [i \in DOMAIN meta' |-> meta'[i]]
          BY <4>0 DEF Relabelled
        <5>2. \A i \in DOMAIN meta' : meta'[i] \in past'.submitted
          BY <4>0, <1>6, <1>8
        <5>3. DOMAIN meta' = DOMAIN index'.nodes
          BY <3>0, <4>0, <3>1, <1>8
        <5>4. QED
          BY <5>1, <5>2, <5>3
      <4>2. Shelved(index')
        BY <3>0, <3>1, <1>3, <1>7 DEF Shelved
      <4>3. QED
        BY <4>1, <4>2, <1>5 DEF IndexInv, Shelved
    <3>4. Swapped(c)'
      BY <3>0, <3>1, <3>2, <1>1, <1>4, <1>7, <2>1, <2>2, <2>4 DEF Swapped
    <3>5. QED
      BY <3>3, <3>4
  <2>5. QED
    BY <1>1, <2>3, <2>4
<1>10. k.at = "entry" => UNCHANGED <<meta, index.nodes>>
  BY <1>1, <1>7 DEF IsRecord, Fields
<1>11. /\ IsCall(req) /\ req.at = after /\ req.job = "compact" /\ req.missed = k.missed
       /\ req.id = k.id /\ req.vec = k.vec /\ req.row = k.row /\ req.live = k.live
  BY <1>2, <1>3 DEF IsCall, CallFields
<1>12. after \in {"entry", "quantizer"}
  OBVIOUS
<1> HIDE DEF req, after
<1>13. /\ call'[c] = req /\ call' = [d \in Clients |-> call'[d]]
       /\ \A d \in Clients \ {c} : Stays(d)
  BY <1>1, RequestGoes
<1>14. QuantizerInv'
  <2>1. writes' = writes /\ up' = up
    BY <1>1 DEF service
  <2>2. QED
    BY <2>1, <1>1, <1>6, QuantizerStays
<1>15. \A row \in req.missed : /\ row = [vec |-> row.vec, meta |-> row.meta]
                               /\ row.vec \in Int /\ row.meta \in past.submitted
                               /\ quantized \/ row.vec \in Codes
  BY <1>11 DEF TypeInv, CallInv
<1>16. TypeInv'
  BY <1>1, <1>2, <1>6, <1>9, <1>11, <1>12, <1>13, <1>14, <1>15, SwapStep DEF Swaps, k
<1>17. QED
  BY <1>1, <1>3, <1>5, <1>6, <1>10, <1>11, <1>12, <1>13, <1>16 DEF k

LEMMA SwapQuantizerType ==
  ASSUME TypeInv, NEW c \in Clients, SwapQuantizer(c)
  PROVE  /\ TypeInv' /\ ~ Unlocked /\ Unlocked'
         /\ call[c].job = "compact" /\ call[c].at = "quantizer"
         /\ \A d \in Clients \ {c} : Stays(d)
         /\ IsCall(call'[c]) /\ call'[c].at = "replaying" /\ call'[c].job = "compact"
         /\ call'[c].live = << >> /\ call'[c].missed = call[c].missed
         /\ index = NewIndex(call[c].live) /\ meta = Relabelled(call[c].live)
         /\ quantizer' = NewQuantizer(call[c].live)
         /\ past' = [past EXCEPT !.unfit = @ \/ (quantized /\ ~ quantizer'.fitted)]
         /\ past'.unfit = (past.unfit \/ (quantized /\ ~ quantizer'.fitted))
         /\ UNCHANGED <<index, meta, quantized>>
<1> DEFINE k == call[c]
           new == NewIndex(k.live)
           q == NewQuantizer(k.live)
           req == [k EXCEPT !.at = "replaying", !.live = << >>]
<1>1. /\ k.at = "quantizer" /\ call' = [call EXCEPT ![c] = req]
      /\ quantizer' = q /\ writer' = None
      /\ past' = [past EXCEPT !.unfit = @ \/ (quantized /\ ~ quantizer'.fitted)]
      /\ UNCHANGED <<index, meta, quantized, service>>
  BY DEF SwapQuantizer, At
<1>2. /\ IsCall(k) /\ k.at \in Swaps /\ writer = c /\ Swapped(c)
  BY <1>1 DEF TypeInv, CallInv, SwapInv, Swaps
<1>3. /\ k.job = "compact" /\ Shelved(new) /\ IsRecord(new) /\ Usable(new)
      /\ IsQuantizer(q) /\ q.max - q.min <= Widest[past.compactions]
      /\ (q.fitted <=> quantized /\ k.live # << >>)
  BY <1>2, SwapFacts
<1>4. new = IndexOf(quantized, k.live)
  BY NewIsOf
<1>5. ~ Unlocked /\ Unlocked'
  BY <1>1, <1>2, Constants DEF Unlocked
<1>6. PastInv' /\ Grows /\ past'.submitted = past.submitted /\ past'.compactions = past.compactions
      /\ past'.unfit = (past.unfit \/ (quantized /\ ~ quantizer'.fitted))
  <2> DEFINE b == past.unfit \/ (quantized /\ ~ quantizer'.fitted)
  <2>1. b \in BOOLEAN /\ past' = [past EXCEPT !.unfit = b]
    BY <1>1 DEF TypeInv, PastInv
  <2> HIDE DEF b
  <2>2. past'.unfit = b /\ PastInv' /\ Grows /\ past'.submitted = past.submitted
        /\ past'.compactions = past.compactions
    BY <2>1 DEF TypeInv, PastInv, PastFields, Grows
  <2>3. QED
    BY <2>2 DEF b
<1>7. index = new /\ meta = Relabelled(k.live)
  <2>1. IsRecord(index)
    BY DEF TypeInv, IndexInv, Shelved
  <2>2. /\ index.vectors = new.vectors /\ index.nodes = new.nodes /\ index.order = new.order
        /\ index.entryPoint = new.entryPoint /\ index.maxLayer = new.maxLayer
        /\ index.nextId = new.nextId /\ meta = Relabelled(k.live)
    BY <1>1, <1>2, <1>4 DEF Swapped
  <2> HIDE DEF new
  <2>3. index = new
    BY <1>3, <2>1, <2>2 DEF IsRecord, Fields
  <2>4. QED
    BY <2>2, <2>3
<1> HIDE DEF new, q
<1>8. IndexInv'
  <2>1. Usable(index') /\ Shelved(index')
    BY <1>1, <1>3, <1>7
  <2>2. QED
    BY <2>1, <1>1, <1>6 DEF TypeInv, IndexInv
<1>9. QuantizerInv'
  <2>1. writes' = writes /\ up' = up
    BY <1>1 DEF service
  <2>2. quantizer'.max - quantizer'.min <= Widest[past'.compactions]
    BY <1>1, <1>3, <1>6
  <2>3. IsQuantizer(quantizer') /\ (quantizer'.fitted => quantized)
    BY <1>1, <1>3
  <2>4. QED
    BY <2>1, <2>2, <2>3, <1>1 DEF TypeInv, QuantizerInv, IsQuantizer
<1>10. /\ IsCall(req) /\ req.at = "replaying" /\ req.job = "compact" /\ req.missed = k.missed
       /\ req.id = k.id /\ req.vec = k.vec /\ req.row = k.row /\ req.live = << >>
  BY <1>2, <1>3 DEF IsCall, CallFields
<1> HIDE DEF req
<1>11. /\ call'[c] = req /\ call' = [d \in Clients |-> call'[d]]
       /\ \A d \in Clients \ {c} : Stays(d)
  BY <1>1, RequestGoes
<1>12. \A row \in req.missed : /\ row = [vec |-> row.vec, meta |-> row.meta]
                               /\ row.vec \in Int /\ row.meta \in past.submitted
                               /\ quantized \/ row.vec \in Codes
  BY <1>10 DEF TypeInv, CallInv
<1>13. TypeInv'
  BY <1>1, <1>2, <1>6, <1>8, <1>9, <1>10, <1>11, <1>12, SwapStep DEF Swaps, k
<1>14. QED
  BY <1>1, <1>3, <1>5, <1>6, <1>7, <1>10, <1>11, <1>13 DEF k, new, q
-----------------------------------------------------------------------------
(* Starts                                                                  *)

LEMMA UnfittedIsQuantizer ==
  ASSUME NEW n \in 0..MaxCompactions
  PROVE  /\ IsQuantizer(Unfitted) /\ ~ Unfitted.fitted /\ Unfitted.max - Unfitted.min <= Widest[n]
         /\ Unfitted.clipped = 0 /\ Unfitted.total = 0
<1>1. Unfitted = [fitted |-> FALSE, min |-> 0, max |-> 0, clipped |-> 0, total |-> 0]
  BY DEF Unfitted
<1>2. Widest[n] \in Nat
  BY WidestIsNarrow
<1>3. QED
  BY <1>1, <1>2 DEF IsQuantizer

LEMMA InitType ==
  ASSUME Init
  PROVE  TypeInv
<1>1. /\ index = EmptyIndex /\ meta = << >> /\ quantized = TRUE /\ quantizer = Unfitted
      /\ writer = None /\ writes = 0 /\ up = TRUE /\ call = [c \in Clients |-> Idle]
      /\ disk = [exists |-> FALSE, saved |-> EmptyIndex, meta |-> << >>, log |-> << >>]
      /\ past = [submitted |-> {}, acked |-> {}, erased |-> {}, spoilt |-> {},
                 unfit |-> FALSE, emptied |-> FALSE, crossed |-> FALSE, broken |-> FALSE,
                 fits |-> 0, compactions |-> 0, searches |-> 0, restarts |-> 0]
  BY DEF Init
<1>2. MaxCompactions \in Nat /\ SnapshotEvery \in Nat
  BY QuantizedAssumption
<1>3. PastInv
  BY <1>1, <1>2 DEF PastInv, PastFields
<1>4. Usable(EmptyIndex) /\ DOMAIN EmptyIndex.nodes = {} /\ DOMAIN << >> = {} /\ Shelved(EmptyIndex)
  BY EmptyIsUsable, RowsOfUsable
<1>5. QuantizerInv
  <2>1. past.compactions = 0 /\ 0 \in 0..MaxCompactions
    BY <1>1, <1>2
  <2>2. QED
    BY <1>1, <1>2, <2>1, UnfittedIsQuantizer DEF QuantizerInv
<1>6. IndexInv
  BY <1>1, <1>4 DEF IndexInv
<1>7. DiskInv
  <2>1. << >> \in Seq(Lines)
    OBVIOUS
  <2>2. QED
    BY <1>1, <1>4, <2>1 DEF DiskInv
<1>8. SwapInv
  <2>1. \A c \in Clients : call[c].at \notin Swaps /\ writer # c
    BY <1>1, Constants DEF Idle, Swaps
  <2>2. QED
    BY <1>1, <2>1 DEF SwapInv
<1>9. ASSUME NEW c \in Clients
      PROVE  CallInv(c)
  <2>1. call[c] = Idle
    BY <1>1
  <2>2. /\ IsCall(Idle) /\ Idle.at = "idle" /\ Idle.job = "none" /\ Idle.id = 0 /\ Idle.vec = Zero
        /\ Idle.row = Zero /\ Idle.live = << >> /\ Idle.missed = {}
    BY DEF Idle, IsCall, CallFields
  <2>3. [at |-> "idle", job |-> "none"] \in Jobs
    BY DEF Jobs
  <2>4. << >> \in Seq(Copied) /\ DOMAIN << >> = {} /\ Zero \in Codes
    BY Constants
  <2>5. QED
    BY <2>1, <2>2, <2>3, <2>4 DEF CallInv
<1>10. call = [c \in Clients |-> call[c]]
  BY <1>1
<1>11. QED
  BY <1>3, <1>5, <1>6, <1>7, <1>8, <1>9, <1>10 DEF TypeInv

(* What a start has made of the snapshot and the log so far: every row is  *)
(* one of the snapshot, or holds the vector itself.                        *)
Starting(state) ==
  /\ state = [index |-> state.index, meta |-> state.meta, raised |-> state.raised]
  /\ state.raised \in BOOLEAN
  /\ Usable(state.index) /\ DOMAIN state.meta = DOMAIN state.index.nodes
  /\ state.meta = [i \in DOMAIN state.meta |-> state.meta[i]]
  /\ \A i \in DOMAIN state.meta :
       /\ state.meta[i] \in past.submitted
       /\ \/ \E j \in DOMAIN disk.meta : state.meta[i] = disk.meta[j]
          \/ state.index.vectors[i] = state.meta[i]

Partial(V) == UNION {[D -> V] : D \in SUBSET Nat}
UsableShapes == [vectors : Partial(Codes), nodes : Partial(AnyNode), order : Seq(Nat),
                 entryPoint : Nat \cup {None}, maxLayer : Int, nextId : Nat]
StartingStates ==
  {state \in [index : UsableShapes, meta : Partial(Values), raised : BOOLEAN] : Starting(state)}

LEMMA UsableOnesAreASet ==
  ASSUME NEW ix, Usable(ix)
  PROVE  ix \in UsableShapes
<1>1. Formed(ix) /\ ix.maxLayer \in Int /\ ix.nextId \in Nat
  BY DEF Usable, Formed
<1>2. ix.vectors \in Partial(Codes)
  <2>1. ix.vectors \in [0..(ix.nextId - 1) -> Codes]
    BY <1>1 DEF Formed, Usable
  <2>2. 0..(ix.nextId - 1) \in SUBSET Nat
    BY <1>1
  <2>3. QED
    BY <2>1, <2>2 DEF Partial
<1>3. ix.nodes \in Partial(AnyNode) /\ DOMAIN ix.nodes \subseteq Nat
  <2>1. ix.nodes \in [DOMAIN ix.nodes -> AnyNode] /\ DOMAIN ix.nodes \in SUBSET Nat
    BY <1>1 DEF Formed
  <2>2. QED
    BY <2>1 DEF Partial
<1>4. ix.order \in Seq(Nat)
  <2> DEFINE s == ix.order
  <2>1. PICK n \in Nat : s \in [1..n -> DOMAIN ix.nodes]
    BY <1>1 DEF Formed, InOrder
  <2> HIDE DEF s
  <2>2. s \in Seq(Nat)
    BY <2>1, <1>3
  <2>3. QED
    BY <2>2 DEF s
<1>5. ix.entryPoint \in Nat \cup {None}
  BY <1>1, <1>3 DEF Formed
<1>6. ix = [vectors |-> ix.vectors, nodes |-> ix.nodes, order |-> ix.order,
            entryPoint |-> ix.entryPoint, maxLayer |-> ix.maxLayer, nextId |-> ix.nextId]
  BY <1>1 DEF Formed, IsRecord, Fields
<1> HIDE DEF Partial
<1>7. QED
  BY <1>1, <1>2, <1>3, <1>4, <1>5, <1>6 DEF UsableShapes

(* A record of the log, read at a start.                                   *)
LEMMA ReplayOneStarts ==
  ASSUME TypeInv, NEW st, Starting(st), NEW record \in Lines,
         record.op = "insert" => record.vec \in past.submitted
  PROVE  Starting(ReplayOne(st, record))
<1> DEFINE ix == st.index
           id == record.id
           v == record.vec
           jx == ReplayRecord(ix, record, 0)
           known == IF record.op # "insert" \/ id \in DOMAIN st.meta THEN st.meta
                    ELSE [i \in DOMAIN st.meta \cup {id} |-> IF i = id THEN v ELSE st.meta[i]]
           bad == st.raised \/ ReplayRaises(ix, record) \/ ReplayDecodes(ix, record)
           end == ReplayOne(st, record)
<1>1. /\ record.op \in {"insert", "delete"} /\ id \in Nat
      /\ st = [index |-> ix, meta |-> st.meta, raised |-> st.raised] /\ st.raised \in BOOLEAN
      /\ Usable(ix) /\ DOMAIN st.meta = DOMAIN ix.nodes
      /\ st.meta = [i \in DOMAIN st.meta |-> st.meta[i]]
      /\ \A i \in DOMAIN st.meta :
           /\ st.meta[i] \in past.submitted
           /\ (\E j \in DOMAIN disk.meta : st.meta[i] = disk.meta[j]) \/ ix.vectors[i] = st.meta[i]
  BY DEF Lines, Starting
<1>2. CASE bad
  <2>1. end = [index |-> ix, meta |-> st.meta, raised |-> TRUE]
    <3>1. end = [st EXCEPT !.raised = TRUE]
      BY <1>2 DEF ReplayOne
    <3> HIDE DEF end
    <3>2. QED
      BY <3>1, <1>1
  <2> HIDE DEF end, ix
  <2>2. QED
    BY <1>1, <2>1 DEF Starting, end
<1>3. CASE ~ bad
  <2>1. end = [index |-> jx, meta |-> known, raised |-> st.raised]
    <3>1. end = [st EXCEPT !.index = jx, !.meta = known]
      BY <1>3 DEF ReplayOne
    <3> HIDE DEF end, jx, known
    <3>2. QED
      BY <3>1, <1>1
  <2>2. /\ Usable(jx)
        /\ DOMAIN known = DOMAIN jx.nodes /\ known = [i \in DOMAIN known |-> known[i]]
        /\ \A i \in DOMAIN known :
             /\ known[i] \in past.submitted
             /\ (\E j \in DOMAIN disk.meta : known[i] = disk.meta[j]) \/ jx.vectors[i] = known[i]
    <3>1. CASE record.op = "insert" /\ id \notin DOMAIN ix.nodes
      <4> DEFINE ax == AddNode(ix, id, v, 0)
      <4>1. v \in past.submitted /\ v \in Codes
        BY <3>1, Constants DEF TypeInv, PastInv
      <4>2. /\ Usable(ax) /\ DOMAIN ax.nodes = DOMAIN ix.nodes \cup {id}
            /\ ax.vectors[id] = v /\ \A i \in DOMAIN ix.nodes : ax.vectors[i] = ix.vectors[i]
            /\ ax.entryPoint # None
        <5> HIDE DEF ix, id, v
        <5>1. QED
          BY <1>1, <3>1, <4>1, AddUsable
      <4>3. jx = Link(ax, id)
        BY <3>1 DEF ReplayRecord, ReplayInsert
      <4> HIDE DEF ax
      <4>4. Usable(jx) /\ Same(ax, jx)
        <5>1. id \in DOMAIN ax.nodes
          BY <4>2
        <5>2. QED
          BY <4>2, <4>3, <5>1, LinkUsable
      <4>5. known = [i \in DOMAIN st.meta \cup {id} |-> IF i = id THEN v ELSE st.meta[i]]
        BY <1>1, <3>1
      <4> HIDE DEF jx, known
      <4>6. jx.vectors = ax.vectors /\ DOMAIN jx.nodes = DOMAIN ax.nodes
        BY <4>4 DEF Same
      <4>7. QED
        BY <1>1, <4>1, <4>2, <4>4, <4>5, <4>6
    <3>2. CASE record.op = "insert" /\ id \in DOMAIN ix.nodes
      <4>1. known = st.meta
        BY <1>1, <3>2
      <4>2. jx = IF Unlinked(ix, id) THEN Link(ix, id) ELSE ix
        BY <3>2 DEF ReplayRecord, ReplayInsert
      <4>3. Unlinked(ix, id) => ix.entryPoint # None
        <5>1. Unlinked(ix, id) => ix.entryPoint \in DOMAIN ix.nodes
          BY <1>3, <3>2 DEF ReplayRaises
        <5>2. DOMAIN ix.nodes \subseteq Nat
          BY <1>1, RowsOfUsable DEF Shelved
        <5>3. QED
          BY <5>1, <5>2, Constants
      <4> HIDE DEF ix, jx, known
      <4>4. Usable(jx) /\ jx.vectors = ix.vectors /\ DOMAIN jx.nodes = DOMAIN ix.nodes
        <5>1. CASE Unlinked(ix, id)
          BY <1>1, <3>2, <4>2, <4>3, <5>1, LinkUsable DEF Same
        <5>2. CASE ~ Unlinked(ix, id)
          BY <1>1, <4>2, <5>2
        <5>3. QED
          BY <5>1, <5>2
      <4>5. QED
        BY <1>1, <4>1, <4>4
    <3>3. CASE record.op = "delete"
      <4>1. known = st.meta
        BY <1>1, <3>3
      <4>2. jx = DeleteOf(ix, id)
        BY <3>3 DEF ReplayRecord
      <4> HIDE DEF ix, jx, known
      <4>3. Usable(jx) /\ jx.vectors = ix.vectors /\ DOMAIN jx.nodes = DOMAIN ix.nodes
        <5>1. CASE id \in Live(ix)
          BY <1>1, <4>2, <5>1, DeleteUsable DEF Same, DeleteOf
        <5>2. CASE id \notin Live(ix)
          BY <1>1, <4>2, <5>2 DEF DeleteOf
        <5>3. QED
          BY <5>1, <5>2
      <4>4. QED
        BY <1>1, <4>1, <4>3
    <3>4. QED
      BY <1>1, <3>1, <3>2, <3>3
  <2> HIDE DEF jx, known, end
  <2>3. QED
    BY <1>1, <2>1, <2>2 DEF Starting, end
<1>4. QED
  BY <1>2, <1>3

(* The start ends with such a state, whatever was logged.                  *)
LEMMA StartedIsStarting ==
  ASSUME TypeInv
  PROVE  Starting(Started)
<1> DEFINE log == disk.log
           n == Len(log)
           S == StartingStates
           With(k, st) == ReplayOne(st, log[k])
           step == [k \in 1..n |-> [st \in S |-> With(k, st)]]
           c == Loading
<1>1. /\ log \in Seq(Lines) /\ n \in Nat /\ DiskInv
      /\ \A k \in 1..n : log[k] \in Lines /\ (log[k].op = "insert" => log[k].vec \in past.submitted)
  BY DEF TypeInv, DiskInv
<1>2. \A st : Starting(st) => st \in S
  <2> SUFFICES ASSUME NEW st, Starting(st)
               PROVE  st \in S
    OBVIOUS
  <2>1. st.index \in UsableShapes /\ DOMAIN st.index.nodes \subseteq Nat
    BY UsableOnesAreASet, RowsOfUsable DEF Starting, Shelved
  <2>2. st.meta \in Partial(Values)
    <3>1. st.meta \in [DOMAIN st.meta -> Values]
      BY DEF Starting, TypeInv, PastInv
    <3>2. DOMAIN st.meta \in SUBSET Nat
      BY <2>1 DEF Starting
    <3>3. QED
      BY <3>1, <3>2 DEF Partial
  <2> HIDE DEF UsableShapes
  <2>3. st = [index |-> st.index, meta |-> st.meta, raised |-> st.raised] /\ st.raised \in BOOLEAN
    BY DEF Starting
  <2>4. st \in [index : UsableShapes, meta : Partial(Values), raised : BOOLEAN]
    BY <2>1, <2>2, <2>3
  <2>5. QED
    BY <2>4 DEF StartingStates
<1>3. \A st \in S : Starting(st)
  BY DEF StartingStates
<1>4. Starting(c)
  <2>1. c = [index |-> disk.saved, meta |-> disk.meta, raised |-> FALSE]
    BY DEF Loading
  <2> HIDE DEF c
  <2>2. QED
    BY <1>1, <2>1 DEF Starting, DiskInv
<1>5. \A k \in 1..n : \A st \in S : With(k, st) \in S
  <2> SUFFICES ASSUME NEW k \in 1..n, NEW st \in S
               PROVE  With(k, st) \in S
    OBVIOUS
  <2>1. Starting(st) /\ log[k] \in Lines /\ (log[k].op = "insert" => log[k].vec \in past.submitted)
    BY <1>1, <1>3
  <2>2. Starting(With(k, st))
    <3> HIDE DEF log
    <3>1. QED
      BY <2>1, ReplayOneStarts
  <2>3. QED
    BY <1>2, <2>2
<1> HIDE DEF S
<1>6. step \in Steps(n, S) /\ c \in S
  <2> HIDE DEF With
  <2>1. QED
    BY <1>2, <1>4, <1>5 DEF Steps
<1>7. PICK f : Follows(f, n, S, c, step)
  <2> HIDE DEF step, c, n
  <2>1. QED
    BY <1>1, <1>6, Recursion
<1> HIDE DEF c
<1> DEFINE Defines(g) == g = [k \in 0..n |-> IF k = 0 THEN c ELSE With(k, g[k - 1])]
<1>8. Defines(f)
  <2> HIDE DEF With
  <2>1. \A k \in 1..n : f[k - 1] \in S
    BY <1>1, <1>7 DEF Follows
  <2>2. \A k \in 1..n : f[k] = With(k, f[k - 1])
    BY <1>7, <2>1 DEF Follows
  <2>3. f \in [0..n -> S] /\ f[0] = c
    BY <1>7 DEF Follows
  <2>4. \A k \in 0..n : k # 0 => k \in 1..n
    BY <1>1
  <2> HIDE DEF n
  <2>5. QED
    BY <2>2, <2>3, <2>4
<1> DEFINE state == CHOOSE g : Defines(g)
<1>9. Defines(state)
  <2> HIDE DEF Defines
  <2>1. QED
    BY <1>8, Zenon
<1>10. Started = state[n]
  BY Zenon DEF Started, c
<1> HIDE DEF state
<1> DEFINE T == {k \in 0..n : state[k] \in S}
<1>11. 0..n \subseteq T
  <2>1. 0 \in 0..n /\ \A k \in 1..n : k \in 0..n /\ k # 0
    BY <1>1
  <2>2. \A k \in 0..n : state[k] = IF k = 0 THEN c ELSE With(k, state[k - 1])
    <3> HIDE DEF With, n
    <3>1. QED
      BY <1>9, Zenon
  <2> HIDE DEF With, n
  <2>3. 0 \in T
    BY <1>6, <2>1, <2>2
  <2>4. \A k \in 1..n : k - 1 \in T => k \in T
    BY <1>5, <2>1, <2>2
  <2> HIDE DEF T
  <2>5. QED
    BY <1>1, <2>3, <2>4, UpTo DEF n
<1>12. n \in T
  BY <1>1, <1>11
<1>13. QED
  BY <1>3, <1>10, <1>12

LEMMA RestartType ==
  ASSUME TypeInv, Restart
  PROVE  /\ TypeInv' /\ Unlocked' /\ \A c \in Clients : call'[c] = Idle
         /\ quantized' = (~ disk.exists)
         /\ past'.submitted = past.submitted
         /\ past'.restarts = past.restarts + 1 /\ past'.broken = past.broken
         /\ past'.spoilt = IF disk.exists THEN past.spoilt \cup {disk.meta[i] : i \in DOMAIN disk.meta}
                           ELSE past.submitted
         /\ \A i \in DOMAIN meta' : /\ meta'[i] \in past.submitted
                                    /\ \/ \E j \in DOMAIN disk.meta : meta'[i] = disk.meta[j]
                                       \/ index'.vectors[i] = meta'[i]
<1> DEFINE end == Started
           S == IF disk.exists THEN past.spoilt \cup {disk.meta[i] : i \in DOMAIN disk.meta}
                ELSE past.submitted
<1>1. /\ index' = end.index /\ meta' = end.meta /\ up' = (~ end.raised)
      /\ quantized' = (~ disk.exists) /\ quantizer' = Unfitted /\ writer' = None /\ writes' = 0
      /\ call' = [c \in Clients |-> Idle] /\ disk' = disk
      /\ past' = [past EXCEPT !.restarts = @ + 1, !.spoilt = S]
  BY DEF Restart
<1>2. Starting(end)
  BY StartedIsStarting
<1> HIDE DEF end, S
<1>3. /\ past' = [f \in PastFields |-> past'[f]] /\ past'.submitted = past.submitted
      /\ past'.restarts = past.restarts + 1 /\ past'.broken = past.broken /\ past'.spoilt = S
      /\ past'.unfit = past.unfit /\ past'.emptied = past.emptied /\ past'.crossed = past.crossed
      /\ past'.compactions = past.compactions
  BY <1>1 DEF TypeInv, PastInv, PastFields
<1>4. PastInv'
  <2>1. past.restarts + 1 \in Nat
    BY DEF TypeInv, PastInv
  <2>2. QED
    BY <1>3, <2>1 DEF TypeInv, PastInv
<1>5. QuantizerInv'
  <2>1. past.compactions \in 0..MaxCompactions /\ 0 \in 0..SnapshotEvery
    BY QuantizedAssumption DEF TypeInv, PastInv
  <2>2. IsQuantizer(quantizer') /\ ~ quantizer'.fitted
        /\ quantizer'.max - quantizer'.min <= Widest[past'.compactions]
    BY <1>1, <1>3, <2>1, UnfittedIsQuantizer
  <2>3. up' \in BOOLEAN /\ quantized' \in BOOLEAN
    BY <1>1
  <2>4. QED
    BY <1>1, <2>1, <2>2, <2>3 DEF QuantizerInv, IsQuantizer
<1>6. IndexInv'
  <2>1. Usable(index') /\ Shelved(index') /\ DOMAIN meta' = DOMAIN index'.nodes
        /\ meta' = [i \in DOMAIN meta' |-> meta'[i]] /\ \A i \in DOMAIN meta' : meta'[i] \in past.submitted
    BY <1>1, <1>2, RowsOfUsable DEF Starting
  <2>2. QED
    BY <2>1, <1>3 DEF IndexInv, Shelved, Usable, Formed
<1>7. DiskInv'
  BY <1>1, <1>3 DEF TypeInv, DiskInv
<1>8. \A c \in Clients : call'[c] = Idle
  BY <1>1
<1>9. SwapInv'
  <2>1. \A c \in Clients : call'[c].at \notin Swaps /\ writer' # c
    BY <1>1, <1>8, Constants DEF Idle, Swaps
  <2>2. QED
    BY <1>1, <2>1 DEF SwapInv
<1>10. \A c \in Clients : CallInv(c)'
  BY <1>8, IdleInv
<1>11. call' = [c \in Clients |-> call'[c]]
  BY <1>1
<1>12. TypeInv'
  BY <1>4, <1>5, <1>6, <1>7, <1>9, <1>10, <1>11 DEF TypeInv
<1>13. Unlocked'
  BY <1>1 DEF Unlocked
<1>14. QED
  BY <1>1, <1>2, <1>3, <1>8, <1>12, <1>13 DEF Starting, S
-----------------------------------------------------------------------------
(* Every step keeps the vectors right                                      *)

LEMMA HeldStays ==
  ASSUME DataInv, Grows, quantized' = quantized, NEW d \in Clients, Stays(d)
  PROVE  HeldRight(d)'
<1>1. HeldRight(d) /\ past.spoilt \subseteq past'.spoilt
  BY DEF DataInv, Grows
<1>2. /\ call'[d].at = call[d].at /\ call'[d].vec = call[d].vec /\ call'[d].row = call[d].row
      /\ call'[d].range = call[d].range /\ call'[d].live = call[d].live
      /\ call'[d].missed = call[d].missed
  BY StaysFields
<1>3. QED
  BY <1>1, <1>2 DEF HeldRight, Right, Means

LEMMA RowsStay ==
  ASSUME RowsRight, Grows, UNCHANGED <<meta, quantized>>, index'.vectors = index.vectors,
         Span(quantizer') = Span(quantizer)
  PROVE  RowsRight'
<1>1. past.spoilt \subseteq past'.spoilt
  BY DEF Grows
<1>2. ASSUME NEW row
      PROVE  Value(quantizer, row)' = Value(quantizer, row)
  <2>1. quantizer'.min = quantizer.min /\ quantizer'.max = quantizer.max
    BY DEF Span
  <2>2. QED
    BY <2>1 DEF Value, Decode
<1>3. QED
  BY <1>1, <1>2 DEF RowsRight, Right

(* All that remains to be shown of a step of c.                            *)
LEMMA DataStep ==
  ASSUME DataInv, Grows, quantized' = quantized, NEW c \in Clients,
         \A d \in Clients \ {c} : Stays(d), HeldRight(c)', Unlocked' => RowsRight'
  PROVE  DataInv'
BY HeldStays DEF DataInv

(* A request that holds what it held, and has nothing encoded.             *)
LEMMA HeldKept ==
  ASSUME DataInv, Grows, quantized' = quantized, NEW c \in Clients,
         call'[c].at # "encoded", call'[c].live \in {call[c].live, << >>},
         call'[c].missed \in {call[c].missed, {}}
  PROVE  HeldRight(c)'
<1>1. /\ \A j \in DOMAIN call[c].live : Right(call[c].live[j].vec, call[c].live[j].meta)
      /\ \A row \in call[c].missed : Right(row.vec, row.meta)
      /\ past.spoilt \subseteq past'.spoilt
  BY DEF DataInv, HeldRight, Grows
<1>2. \A j \in DOMAIN call'[c].live : /\ j \in DOMAIN call[c].live
                                      /\ call'[c].live[j] = call[c].live[j]
  <2>1. DOMAIN << >> = {}
    OBVIOUS
  <2>2. QED
    BY <2>1
<1>3. \A row \in call'[c].missed : row \in call[c].missed
  OBVIOUS
<1>4. QED
  BY <1>1, <1>2, <1>3 DEF HeldRight, Right

LEMMA RangeIsNarrow ==
  ASSUME TypeInv
  PROVE  IsQuantizer(quantizer) /\ quantizer.max - quantizer.min < 2550
<1> DEFINE w == quantizer.max - quantizer.min
           W == Widest[past.compactions]
<1>1. IsQuantizer(quantizer) /\ w <= W /\ W \in Nat /\ W < 2550
  BY WidestIsNarrow DEF TypeInv, QuantizerInv, PastInv
<1>2. w \in Int
  BY <1>1 DEF IsQuantizer
<1> HIDE DEF w, W
<1>3. w < 2550
  BY <1>1, <1>2
<1>4. QED
  BY <1>1, <1>3 DEF w

(* Nothing but requests changes.                                           *)
LEMMA PrivateData ==
  ASSUME TypeInv, DataInv, NEW c \in Clients,
         \/ Search(c) \/ ReadRows(c) \/ DecodeRows(c) \/ Expand(c) \/ Answer(c)
         \/ SearchRaises(c) \/ EndSearch(c) \/ CompactRaises(c) \/ BeginCompact(c)
         \/ LinkRaises(c) \/ Acknowledge(c) \/ EndCompact(c)
  PROVE  DataInv'
<1>1. UNCHANGED <<index, meta, quantized, quantizer, writer>>
  BY DEF Search, ReadRows, DecodeRows, Expand, Answer, SearchRaises, EndSearch, CompactRaises,
         BeginCompact, LinkRaises, Acknowledge, EndCompact, storage
<1>2. Grows /\ \A d \in Clients \ {c} : Stays(d)
  <2>1. CASE Search(c)
    <3>1. call' = [call EXCEPT ![c] = [Idle EXCEPT !.at = "reading", !.job = "search",
                                       !.todo = {index.entryPoint}, !.mixed = ~ Unlocked]]
          /\ past' = [past EXCEPT !.searches = @ + 1]
      BY <2>1 DEF Search
    <3>2. Grows
      BY <3>1 DEF TypeInv, PastInv, PastFields, Grows
    <3>3. QED
      BY <3>1, <3>2, RequestGoes
  <2>2. CASE ReadRows(c) \/ DecodeRows(c) \/ Expand(c) \/ Answer(c)
    <3>1. call' = [call EXCEPT ![c] = call'[c]] /\ past' = past
      BY <2>2, SearchSteps
    <3>2. Grows
      BY <3>1 DEF Grows, TypeInv, PastInv
    <3>3. QED
      BY <3>1, <3>2, OneMoves
  <2>3. CASE SearchRaises(c) \/ EndSearch(c) \/ CompactRaises(c)
    <3>1. call' = [call EXCEPT ![c] = call'[c]]
          /\ past' = [past EXCEPT !.searches = past'.searches, !.broken = past'.broken]
      BY <2>3, LeavesType
    <3>2. Grows
      BY <3>1, PastMoves DEF TypeInv
    <3>3. QED
      BY <3>1, <3>2, OneMoves
  <2>4. CASE BeginCompact(c)
    BY <2>4, BeginType
  <2>5. CASE LinkRaises(c) \/ Acknowledge(c) \/ EndCompact(c)
    BY <2>5, EndsType
  <2>6. QED
    BY <2>1, <2>2, <2>3, <2>4, <2>5
<1>3. Unlocked' => RowsRight'
  BY <1>1, <1>2, RowsStay DEF Unlocked, DataInv
<1>4. HeldRight(c)'
  <2>1. CASE Search(c)
    <3>1. call' = [call EXCEPT ![c] = [Idle EXCEPT !.at = "reading", !.job = "search",
                                       !.todo = {index.entryPoint}, !.mixed = ~ Unlocked]]
      BY <2>1 DEF Search
    <3>2. call'[c].at = "reading" /\ call'[c].live = << >> /\ call'[c].missed = {}
      BY <3>1 DEF TypeInv, Idle
    <3>3. QED
      BY <1>1, <1>2, <3>2, HeldKept
  <2>2. CASE ReadRows(c) \/ DecodeRows(c) \/ Expand(c) \/ Answer(c)
    <3>1. call'[c].at \in Searches /\ call'[c].live = call[c].live /\ call'[c].missed = call[c].missed
      BY <2>2, SearchSteps
    <3>2. call'[c].at # "encoded"
      BY <3>1 DEF Searches
    <3>3. QED
      BY <1>1, <1>2, <3>1, <3>2, HeldKept
  <2>3. CASE SearchRaises(c) \/ EndSearch(c) \/ CompactRaises(c)
             \/ LinkRaises(c) \/ Acknowledge(c) \/ EndCompact(c)
    <3>1. call'[c] = Idle
      BY <2>3, LeavesType, EndsType
    <3>2. call'[c].at = "idle" /\ call'[c].live = << >> /\ call'[c].missed = {}
      BY <3>1 DEF Idle
    <3>3. QED
      BY <1>1, <1>2, <3>2, HeldKept
  <2>4. CASE BeginCompact(c)
    <3> DEFINE live == call'[c].live
    <3>1. Unlocked /\ call'[c].at = "rebuilding" /\ call'[c].missed = {} /\ CopyOf(index, live)
      BY <2>4, BeginType
    <3>2. RowsRight
      BY <3>1 DEF DataInv
    <3>3. \A j \in DOMAIN live : Right(live[j].vec, live[j].meta)
      BY <3>1, <3>2 DEF CopyOf, RowsRight
    <3>4. QED
      BY <3>1, <3>3, <1>2 DEF HeldRight, Right, Grows
  <2>5. QED
    BY <2>1, <2>2, <2>3, <2>4
<1>5. QED
  BY <1>1, <1>2, <1>3, <1>4, DataStep

(* What is encoded can be read, or it has been clipped.                    *)
LEMMA EncodedIsRight ==
  ASSUME TypeInv, quantized, NEW v \in Int, Bucket(quantizer, v) \in Codes
  PROVE  Means(Span(quantizer), Encode(quantizer, v)) = v
<1>1. Decode(quantizer, Encode(quantizer, v)) = v
  BY RangeIsNarrow, RoundTrip
<1>2. Value(quantizer, Encode(quantizer, v)) = v
  BY <1>1 DEF Value
<1>3. QED
  BY <1>2, ValueBySpan

LEMMA InsertData ==
  ASSUME TypeInv, DataInv, NEW c \in Clients, Insert(c)
  PROVE  DataInv'
<1>1. PICK v \in Values \ past.submitted :
        /\ quantizer' = Tracked(quantizer, v)
        /\ call' = [call EXCEPT ![c] = [Idle EXCEPT !.at = "encoded", !.job = "insert",
                       !.vec = v, !.row = Encode(quantizer, v), !.range = Span(quantizer)]]
        /\ past' = [past EXCEPT !.submitted = @ \cup {v},
                       !.spoilt = IF Bucket(quantizer, v) \in Codes THEN @ ELSE @ \cup {v}]
  BY DEF Insert
<1>2. /\ UNCHANGED <<index, meta, quantized, writer>> /\ quantized /\ v \in Int
  BY QuantizedAssumption DEF Insert
<1>3. Grows /\ \A d \in Clients \ {c} : Stays(d)
  BY <1>1, InsertType, RequestGoes
<1>4. Span(quantizer') = Span(quantizer)
  BY <1>1, TrackedStays DEF TypeInv, QuantizerInv
<1>5. /\ call'[c].vec = v /\ call'[c].row = Encode(quantizer, v) /\ call'[c].range = Span(quantizer)
      /\ call'[c].live = << >> /\ call'[c].missed = {}
  <2>1. call'[c] = [Idle EXCEPT !.at = "encoded", !.job = "insert", !.vec = v,
                      !.row = Encode(quantizer, v), !.range = Span(quantizer)]
    BY <1>1, RequestGoes
  <2>2. QED
    BY <2>1 DEF Idle
<1>6. Right(Means(call[c].range, call[c].row), call[c].vec)'
  <2>1. CASE Bucket(quantizer, v) \in Codes
    <3>1. Means(Span(quantizer), Encode(quantizer, v)) = v
      BY <1>2, <2>1, EncodedIsRight
    <3>2. QED
      BY <1>2, <1>5, <3>1 DEF Right, Means
  <2>2. CASE Bucket(quantizer, v) \notin Codes
    <3>1. v \in past'.spoilt
      BY <1>1, <2>2 DEF TypeInv, PastInv, PastFields
    <3>2. QED
      BY <1>5, <3>1 DEF Right
  <2>3. QED
    BY <2>1, <2>2
<1>7. HeldRight(c)'
  <2>1. DOMAIN << >> = {}
    OBVIOUS
  <2>2. QED
    BY <1>5, <1>6, <2>1 DEF HeldRight
<1>8. Unlocked' => RowsRight'
  BY <1>2, <1>3, <1>4, RowsStay DEF DataInv, Unlocked
<1>9. QED
  BY <1>2, <1>3, <1>7, <1>8, DataStep

LEMMA ReserveData ==
  ASSUME TypeInv, DataInv, NEW c \in Clients, ReserveNode(c)
  PROVE  DataInv'
<1> DEFINE k == call[c]
           n == index.nextId
<1>1. /\ TypeInv' /\ Grows /\ Usable(index) /\ n \notin DOMAIN index.nodes
      /\ index' = AddNode(index, n, k.row, 0) /\ k.at = "encoded" /\ k.row \in Codes
      /\ call'[c].at = "reserved" /\ call'[c].live = k.live /\ call'[c].missed = k.missed
      /\ \A d \in Clients \ {c} : Stays(d)
  BY ReserveType
<1>2. /\ meta' = [i \in DOMAIN meta \cup {n} |-> IF i = n THEN k.vec ELSE meta[i]]
      /\ UNCHANGED <<quantized, quantizer, writer>> /\ Unlocked
      /\ k.range # Span(quantizer) => k.vec \in past'.spoilt
  <2>1. past' = [past EXCEPT !.spoilt = IF k.range = Span(quantizer) THEN @ ELSE @ \cup {k.vec}]
    BY DEF ReserveNode, ReserveRow
  <2>2. k.range # Span(quantizer) => k.vec \in past'.spoilt
    BY <2>1 DEF TypeInv, PastInv, PastFields
  <2>3. QED
    BY <2>2 DEF ReserveNode, ReserveRow
<1>3. index'.vectors[n] = k.row /\ \A i \in DOMAIN index.nodes : index'.vectors[i] = index.vectors[i]
  <2>1. n \in Nat
    BY <1>1, RowsOfUsable
  <2> HIDE DEF k, n
  <2>2. QED
    BY <1>1, <2>1, AddUsable
<1>4. RowsRight /\ DOMAIN meta = DOMAIN index.nodes /\ past.spoilt \subseteq past'.spoilt
  BY <1>1, <1>2 DEF DataInv, TypeInv, IndexInv, Grows
<1>5. ASSUME NEW row
      PROVE  Value(quantizer, row)' = Value(quantizer, row)
  BY <1>2 DEF Value, Decode
<1>6. Right(Value(quantizer, k.row), k.vec) \/ k.vec \in past'.spoilt
  <2>1. Right(Means(k.range, k.row), k.vec)
    BY <1>1 DEF DataInv, HeldRight
  <2>2. QED
    BY <1>2, <2>1, ValueBySpan
<1>7. RowsRight'
  BY <1>1, <1>2, <1>3, <1>4, <1>5, <1>6 DEF RowsRight, Right
<1>8. HeldRight(c)'
  BY <1>1, <1>2, HeldKept
<1>9. QED
  BY <1>1, <1>2, <1>7, <1>8, DataStep

LEMMA LinkData ==
  ASSUME TypeInv, DataInv, NEW c \in Clients, LinkInsert(c) \/ LinkMissed(c)
  PROVE  DataInv'
<1>1. /\ Grows /\ Unlocked /\ Same(index, index')
      /\ UNCHANGED <<meta, quantized, quantizer, writer, past>>
      /\ call[c].job \in {"insert", "compact"}
      /\ call[c].job = "insert" => call'[c].at = "done"
      /\ call[c].job = "compact" => call'[c].at = "replaying"
      /\ call'[c].live = call[c].live /\ call'[c].missed = call[c].missed
      /\ \A d \in Clients \ {c} : Stays(d)
  BY LinkType
<1>2. RowsRight'
  BY <1>1, RowsStay DEF Same, DataInv
<1>3. HeldRight(c)'
  BY <1>1, HeldKept
<1>4. QED
  BY <1>1, <1>2, <1>3, DataStep

LEMMA DeleteData ==
  ASSUME TypeInv, DataInv, NEW c \in Clients, Delete(c)
  PROVE  DataInv'
<1>1. /\ Grows /\ Unlocked /\ Same(index, index')
      /\ UNCHANGED <<meta, quantized, quantizer, writer>>
      /\ call'[c].at = "done"
      /\ call'[c].live = call[c].live /\ call'[c].missed = call[c].missed
      /\ \A d \in Clients \ {c} : Stays(d)
  BY DeleteType
<1>2. RowsRight'
  BY <1>1, RowsStay DEF Same, DataInv
<1>3. HeldRight(c)'
  BY <1>1, HeldKept
<1>4. QED
  BY <1>1, <1>2, <1>3, DataStep

LEMMA FitData ==
  ASSUME TypeInv, DataInv, NEW c \in Clients, FitQuantizer(c)
  PROVE  DataInv'
<1>1. /\ Grows /\ UNCHANGED <<index, meta, quantized, writer>> /\ \A d \in Clients : Stays(d)
      /\ Span(quantizer) # Span(quantizer') => past.submitted \subseteq past'.spoilt
  BY FitType
<1>2. Unlocked' => RowsRight'
  <2>1. CASE Span(quantizer) = Span(quantizer')
    BY <1>1, <2>1, RowsStay DEF DataInv, Unlocked
  <2>2. CASE Span(quantizer) # Span(quantizer')
    BY <1>1, <2>2 DEF RowsRight, Right, TypeInv, IndexInv
  <2>3. QED
    BY <2>1, <2>2
<1>3. QED
  BY <1>1, <1>2, HeldStays DEF DataInv

LEMMA ReinsertData ==
  ASSUME TypeInv, DataInv, NEW c \in Clients, Reinsert(c)
  PROVE  DataInv'
<1> DEFINE k == call[c]
<1>1. /\ Grows /\ UNCHANGED <<index, meta, quantized, writer>>
      /\ Span(quantizer') = Span(quantizer)
      /\ \A d \in Clients \ {c} : Stays(d)
      /\ call'[c].live = k.live /\ call'[c].range = Span(quantizer)
  BY ReinsertType
<1>2. PICK row \in k.missed :
        /\ row.vec \in Int /\ call'[c].vec = row.meta /\ call'[c].missed = k.missed \ {row}
        /\ call'[c].row = IF quantized THEN Encode(quantizer, row.vec) ELSE row.vec
        /\ past' = [past EXCEPT !.spoilt = IF quantized /\ Bucket(quantizer, row.vec) \notin Codes
                                           THEN @ \cup {row.meta} ELSE @]
  BY ReinsertType
<1>3. /\ Right(row.vec, row.meta) /\ past.spoilt \subseteq past'.spoilt
      /\ \A j \in DOMAIN k.live : Right(k.live[j].vec, k.live[j].meta)
      /\ \A x \in k.missed : Right(x.vec, x.meta)
  BY <1>1 DEF DataInv, HeldRight, Grows
<1>4. Right(Means(call[c].range, call[c].row), call[c].vec)'
  <2>1. CASE ~ quantized
    BY <1>1, <1>2, <1>3, <2>1 DEF Right, Means
  <2>2. CASE quantized /\ Bucket(quantizer, row.vec) \in Codes
    <3>1. Means(Span(quantizer), Encode(quantizer, row.vec)) = row.vec
      BY <1>2, <2>2, EncodedIsRight
    <3>2. QED
      BY <1>1, <1>2, <1>3, <2>2, <3>1 DEF Right, Means
  <2>3. CASE quantized /\ Bucket(quantizer, row.vec) \notin Codes
    <3>1. row.meta \in past'.spoilt
      BY <1>2, <2>3 DEF TypeInv, PastInv, PastFields
    <3>2. QED
      BY <1>2, <3>1 DEF Right
  <2>4. QED
    BY <2>1, <2>2, <2>3
<1>5. HeldRight(c)'
  <2>1. \A j \in DOMAIN k.live : Right(k.live[j].vec, k.live[j].meta)'
    BY <1>1, <1>3 DEF Right
  <2>2. \A x \in k.missed : x.meta \in past'.spoilt \/ x.vec = x.meta
    BY <1>3 DEF Right
  <2>3. \A j \in DOMAIN k.live : k.live[j].meta \in past'.spoilt \/ k.live[j].vec = k.live[j].meta
    BY <1>3 DEF Right
  <2> HIDE DEF k
  <2>4. QED
    BY <1>1, <1>2, <1>4, <2>2, <2>3 DEF HeldRight, Right
<1>6. Unlocked' => RowsRight'
  BY <1>1, RowsStay DEF DataInv, Unlocked
<1>7. QED
  BY <1>1, <1>5, <1>6, DataStep

LEMMA SwapData ==
  ASSUME TypeInv, DataInv, NEW c \in Clients,
         SwapVectors(c) \/ SwapNodes(c) \/ SwapEntry(c) \/ SwapQuantizer(c)
  PROVE  DataInv'
<1>1. CASE SwapVectors(c)
  <2>1. /\ Unlocked /\ ~ Unlocked' /\ call'[c].at = "nodes" /\ call'[c].live = call[c].live
        /\ call'[c].missed = Missed(c, quantizer) /\ UNCHANGED <<meta, quantized, quantizer, past>>
        /\ \A d \in Clients : d # c => Stays(d)
    BY <1>1, SwapVectorsType
  <2>2. Grows
    BY <2>1 DEF Grows, TypeInv, PastInv
  <2>3. \A row \in Missed(c, quantizer) : Right(row.vec, row.meta)
    <3>1. RowsRight
      BY <2>1 DEF DataInv
    <3>2. QED
      BY <2>1, <3>1, MissedRows DEF RowsRight
  <2>4. HeldRight(c)'
    BY <2>1, <2>3 DEF DataInv, HeldRight, Right
  <2>5. QED
    BY <2>1, <2>2, <2>4, DataStep
<1>2. CASE SwapNodes(c) \/ SwapEntry(c)
  <2>1. /\ ~ Unlocked' /\ call'[c].at \in {"entry", "quantizer"} /\ call'[c].live = call[c].live
        /\ call'[c].missed = call[c].missed /\ UNCHANGED <<quantized, past>>
        /\ \A d \in Clients \ {c} : Stays(d)
    BY <1>2, SwapMiddleType
  <2>2. Grows
    BY <2>1 DEF Grows, TypeInv, PastInv
  <2>3. HeldRight(c)'
    BY <2>1, <2>2, HeldKept
  <2>4. QED
    BY <2>1, <2>2, <2>3, DataStep
<1>3. CASE SwapQuantizer(c)
  <2> DEFINE live == call[c].live
             m == Len(live)
  <2>1. /\ call[c].at = "quantizer" /\ call'[c].at = "replaying" /\ call'[c].live = << >>
        /\ call'[c].missed = call[c].missed
        /\ index = NewIndex(live) /\ meta = Relabelled(live) /\ quantizer' = NewQuantizer(live)
        /\ UNCHANGED <<index, meta, quantized>>
        /\ \A d \in Clients \ {c} : Stays(d)
        /\ past' = [past EXCEPT !.unfit = @ \/ (quantized /\ ~ quantizer'.fitted)]
    BY <1>3, SwapQuantizerType
  <2>2. Grows
    <3> DEFINE b == past.unfit \/ (quantized /\ ~ quantizer'.fitted)
    <3>1. past' = [past EXCEPT !.unfit = b]
      BY <2>1
    <3> HIDE DEF b
    <3>2. QED
      BY <3>1 DEF TypeInv, PastInv, PastFields, Grows
  <2>3. HeldRight(c)'
    BY <2>1, <2>2, HeldKept
  <2>4. /\ m \in Nat /\ DOMAIN live = 1..m
        /\ \A i \in 0..(m - 1) : Value(NewQuantizer(live), index.vectors[i]) = live[i + 1].vec
    <3>1. call[c].at \in Swaps
      BY <2>1 DEF Swaps
    <3>2. live \in Seq(Copied)
      BY <3>1, SwapFacts
    <3>3. m \in Nat /\ DOMAIN live = 1..m
      BY <3>2
    <3>4. \A i \in 0..(m - 1) : Value(NewQuantizer(live), NewIndex(live).vectors[i]) = live[i + 1].vec
      BY <3>1, SwapFacts
    <3>5. QED
      BY <2>1, <3>3, <3>4
  <2>5. \A j \in DOMAIN live : Right(live[j].vec, live[j].meta)
    BY DEF DataInv, HeldRight
  <2>6. ASSUME NEW i \in DOMAIN meta'
        PROVE  Right(Value(quantizer, index.vectors[i]), meta[i])'
    <3>1. i \in 0..(m - 1) /\ meta'[i] = live[i + 1].meta
      BY <2>1, <2>6 DEF Relabelled
    <3>2. i + 1 \in DOMAIN live
      BY <2>4, <3>1
    <3> HIDE DEF live, m
    <3>3. Value(NewQuantizer(live), index.vectors[i]) = live[i + 1].vec
      BY <2>4, <3>1
    <3>4. Value(quantizer, index.vectors[i])' = Value(NewQuantizer(live), index.vectors[i])
      BY <2>1 DEF Value
    <3>5. live[i + 1].meta \in past'.spoilt \/ live[i + 1].vec = live[i + 1].meta
      BY <2>2, <2>5, <3>2 DEF Right, Grows
    <3>6. QED
      BY <3>1, <3>3, <3>4, <3>5 DEF Right
  <2>7. RowsRight'
    BY <2>6 DEF RowsRight
  <2>8. QED
    BY <2>1, <2>2, <2>3, <2>7, DataStep
<1>4. QED
  BY <1>1, <1>2, <1>3

LEMMA RestartData ==
  ASSUME TypeInv, Restart
  PROVE  DataInv'
<1>1. /\ \A c \in Clients : call'[c] = Idle
      /\ quantized' = (~ disk.exists)
      /\ past'.spoilt = IF disk.exists THEN past.spoilt \cup {disk.meta[i] : i \in DOMAIN disk.meta}
                        ELSE past.submitted
      /\ \A i \in DOMAIN meta' : /\ meta'[i] \in past.submitted
                                 /\ \/ \E j \in DOMAIN disk.meta : meta'[i] = disk.meta[j]
                                    \/ index'.vectors[i] = meta'[i]
  BY RestartType
<1>2. RowsRight'
  <2>1. CASE ~ disk.exists
    BY <1>1, <2>1 DEF RowsRight, Right
  <2>2. CASE disk.exists
    <3>1. \A row : Value(quantizer, row)' = row
      BY <1>1, <2>2 DEF Value
    <3>2. QED
      BY <1>1, <2>2, <3>1 DEF RowsRight, Right
  <2>3. QED
    BY <2>1, <2>2
<1>3. ASSUME NEW c \in Clients
      PROVE  HeldRight(c)'
  <2>1. call'[c].at = "idle" /\ call'[c].live = << >> /\ call'[c].missed = {}
    BY <1>1 DEF Idle
  <2>2. DOMAIN << >> = {}
    OBVIOUS
  <2>3. QED
    BY <2>1, <2>2 DEF HeldRight
<1>4. QED
  BY <1>2, <1>3 DEF DataInv

LEMMA InitData ==
  ASSUME Init
  PROVE  DataInv
<1>1. meta = << >> /\ DOMAIN << >> = {}
  BY DEF Init
<1>2. RowsRight
  BY <1>1 DEF RowsRight
<1>3. ASSUME NEW c \in Clients
      PROVE  HeldRight(c)
  <2>1. call[c].at = "idle" /\ call[c].live = << >> /\ call[c].missed = {}
    BY DEF Init, Idle
  <2>2. QED
    BY <1>1, <2>1 DEF HeldRight
<1>4. QED
  BY <1>2, <1>3 DEF DataInv
-----------------------------------------------------------------------------
(* Every step keeps what searches know                                     *)

(* What the index had while nothing was exchanged is still there.          *)
Extends ==
  Unlocked => /\ Unlocked'
              /\ \A i \in DOMAIN meta : /\ i \in DOMAIN meta' /\ meta'[i] = meta[i]
                                        /\ index'.vectors[i] = index.vectors[i]

LEMMA SearchStays ==
  ASSUME NEW d, SearchInv(d), Grows, Stays(d), Extends \/ ~ (call'[d].job = "search" /\ ~ call'[d].mixed)
  PROVE  SearchInv(d)'
<1> SUFFICES ASSUME call'[d].job = "search", ~ call'[d].mixed
             PROVE  SearchInv(d)'
  BY DEF SearchInv
<1>1. /\ call'[d].at = call[d].at /\ call'[d].job = call[d].job /\ call'[d].todo = call[d].todo
      /\ call'[d].rows = call[d].rows /\ call'[d].found = call[d].found
      /\ call'[d].hits = call[d].hits
  BY StaysFields
<1>2. ~ call[d].mixed /\ call[d].job = "search" /\ Extends
  BY <1>1 DEF Stays
<1>3. /\ Unlocked /\ past.submitted # {}
      /\ call[d].todo \subseteq DOMAIN meta /\ DOMAIN call[d].found \subseteq DOMAIN meta
      /\ call[d].at = "decoding" => \A i \in call[d].todo : call[d].rows[i] = index.vectors[i]
      /\ \A i \in DOMAIN call[d].found : Right(call[d].found[i], meta[i])
      /\ \A hit \in call[d].hits : Right(hit.distanceOf, hit.meta)
  BY <1>2 DEF SearchInv
<1>4. /\ Unlocked' /\ past'.submitted # {} /\ past.spoilt \subseteq past'.spoilt
      /\ \A i \in DOMAIN meta : /\ i \in DOMAIN meta' /\ meta'[i] = meta[i]
                                /\ index'.vectors[i] = index.vectors[i]
  BY <1>2, <1>3 DEF Extends, Grows
<1>5. QED
  BY <1>1, <1>3, <1>4 DEF SearchInv, Right

LEMMA NotSearching ==
  ASSUME NEW c, call'[c].job # "search"
  PROVE  SearchInv(c)'
BY DEF SearchInv

LEMMA ReadStep ==
  ASSUME ReadInv, Grows, NEW c \in Clients, \A d \in Clients \ {c} : Stays(d),
         \A d \in Clients \ {c} : Extends \/ ~ (call'[d].job = "search" /\ ~ call'[d].mixed),
         SearchInv(c)', ~ past'.broken, FittedInv'
  PROVE  ReadInv'
<1>1. \A d \in Clients \ {c} : SearchInv(d)'
  BY SearchStays DEF ReadInv
<1>2. QED
  BY <1>1 DEF ReadInv

LEMMA FittedStays ==
  ASSUME FittedInv, quantized' = quantized, quantizer'.fitted = quantizer.fitted,
         past'.restarts = past.restarts, past'.unfit = past.unfit,
         past'.submitted = past.submitted
  PROVE  FittedInv'
BY DEF FittedInv

(* A search that the index is not exchanged under can decode what it found *)
(* and looks up nodes that are there.                                      *)
LEMMA SearchWorks ==
  ASSUME TypeInv, ReadInv, NEW c \in Clients, call[c].job = "search", ~ call[c].mixed
  PROVE  /\ SearchInv(c) /\ Unlocked /\ Usable(index) /\ DOMAIN meta = DOMAIN index.nodes
         /\ past.restarts = 0 /\ ~ past.unfit => ~ CannotDecode
         /\ DOMAIN call[c].found \subseteq DOMAIN index.nodes
BY DEF ReadInv, SearchInv, TypeInv, IndexInv, FittedInv, CannotDecode

LEMMA SearchRead ==
  ASSUME TypeInv, DataInv, ReadInv, NEW c \in Clients,
         Search(c) \/ ReadRows(c) \/ DecodeRows(c) \/ Expand(c) \/ Answer(c)
  PROVE  ReadInv'
<1> DEFINE k == call[c]
           l == call'[c]
<1>1. UNCHANGED <<index, meta, quantized, quantizer, writer>>
  BY DEF Search, ReadRows, DecodeRows, Expand, Answer, storage
<1>2. /\ past' = [past EXCEPT !.searches = past'.searches]
  BY DEF Search, ReadRows, DecodeRows, Expand, Answer, TypeInv, PastInv, PastFields
<1>3. /\ past'.restarts = past.restarts /\ past'.unfit = past.unfit
      /\ past'.submitted = past.submitted /\ past'.broken = past.broken
      /\ past'.spoilt = past.spoilt /\ past'.compactions = past.compactions /\ Grows
  BY <1>2 DEF TypeInv, PastInv, PastFields, Grows
<1>4. Extends
  BY <1>1 DEF Extends, Unlocked
<1>5. FittedInv'
  BY <1>1, <1>3, FittedStays DEF ReadInv
<1>6. IsCall(k) /\ call = [d \in Clients |-> call[d]]
  BY DEF TypeInv, CallInv
<1>7. \A x, m : Right(x, m)' <=> Right(x, m)
  BY <1>3 DEF Right
<1>8. CASE Search(c)
  <2>1. /\ call' = [call EXCEPT ![c] = [Idle EXCEPT !.at = "reading", !.job = "search",
                                       !.todo = {index.entryPoint}, !.mixed = ~ Unlocked]]
        /\ index.entryPoint # None
    BY <1>8 DEF Search
  <2>2. /\ l.at = "reading" /\ l.todo = {index.entryPoint} /\ l.found = << >> /\ l.hits = {}
        /\ l.mixed = ~ Unlocked
    BY <2>1, <1>6 DEF Idle
  <2>3. Unlocked => index.entryPoint \in DOMAIN meta
    BY <2>1 DEF TypeInv, IndexInv, Usable, Formed
  <2>4. Unlocked => past.submitted # {}
    BY <2>3 DEF TypeInv, IndexInv
  <2>5. DOMAIN << >> = {}
    OBVIOUS
  <2> HIDE DEF l
  <2>6. SearchInv(c)'
    BY <1>1, <1>3, <2>2, <2>3, <2>4, <2>5 DEF SearchInv, Unlocked, l
  <2>7. \A d \in Clients \ {c} : Stays(d)
    BY <2>1, RequestGoes
  <2>8. QED
    BY <1>3, <1>4, <1>5, <2>6, <2>7, ReadStep DEF ReadInv
<1>9. CASE ReadRows(c) \/ DecodeRows(c) \/ Expand(c) \/ Answer(c)
  <2>1. /\ k.job = "search" /\ call' = [call EXCEPT ![c] = l] /\ l.mixed = k.mixed
        /\ l.job = "search"
    BY <1>9, SearchSteps
  <2>2. \A d \in Clients \ {c} : Stays(d)
    BY <2>1, OneMoves
  <2>3. SearchInv(c)'
    <3> SUFFICES ASSUME ~ l.mixed
                 PROVE  SearchInv(c)'
      BY DEF SearchInv
    <3>1. /\ Unlocked /\ Usable(index) /\ DOMAIN meta = DOMAIN index.nodes /\ past.submitted # {}
          /\ k.todo \subseteq DOMAIN meta /\ DOMAIN k.found \subseteq DOMAIN meta
          /\ k.at = "decoding" => \A i \in k.todo : k.rows[i] = index.vectors[i]
          /\ \A i \in DOMAIN k.found : Right(k.found[i], meta[i])
          /\ \A hit \in k.hits : Right(hit.distanceOf, hit.meta)
      BY <2>1, SearchWorks DEF SearchInv
    <3>2. Unlocked' /\ RowsRight
      BY <1>1, <3>1 DEF Unlocked, DataInv
    <3>3. /\ l.todo \subseteq DOMAIN meta /\ DOMAIN l.found \subseteq DOMAIN meta
          /\ l.at = "decoding" => \A i \in l.todo : l.rows[i] = index.vectors[i]
          /\ \A i \in DOMAIN l.found : Right(l.found[i], meta[i])
          /\ \A hit \in l.hits : Right(hit.distanceOf, hit.meta)
      <4>1. CASE ReadRows(c)
        <5>1. call' = [call EXCEPT ![c].at = "decoding",
                         ![c].rows = [i \in k.todo |-> Row(index, i)]]
          BY <4>1 DEF ReadRows
        <5>2. /\ l.todo = k.todo /\ l.found = k.found /\ l.hits = k.hits
              /\ l.rows = [i \in k.todo |-> Row(index, i)]
          BY <5>1, <1>6 DEF IsCall, CallFields
        <5>3. \A i \in k.todo : Row(index, i) = index.vectors[i]
          BY <3>1, RowsOfUsable
        <5> HIDE DEF l, k
        <5>4. QED
          BY <5>2, <5>3, <3>1
      <4>2. CASE DecodeRows(c)
        <5> DEFINE found == [i \in DOMAIN k.found \cup k.todo |->
                               IF i \in k.todo THEN Value(quantizer, k.rows[i]) ELSE k.found[i]]
        <5>1. /\ call' = [call EXCEPT ![c].at = "expanding", ![c].rows = << >>, ![c].found = found]
              /\ k.at = "decoding"
          BY <4>2, <1>6 DEF DecodeRows, At, IsCall, CallFields
        <5>2. l.at = "expanding" /\ l.todo = k.todo /\ l.found = found /\ l.hits = k.hits
          BY <5>1, <1>6 DEF IsCall, CallFields
        <5>3. \A i \in k.todo : Right(Value(quantizer, k.rows[i]), meta[i])
          BY <5>1, <3>1, <3>2 DEF RowsRight
        <5> HIDE DEF l, k
        <5>4. QED
          BY <5>2, <5>3, <3>1
      <4>3. CASE Expand(c)
        <5> DEFINE next == Findable(index) \ DOMAIN k.found
                   found == [i \in DOMAIN k.found \cap Live(index) |-> k.found[i]]
        <5>1. call' = IF next # {}
                      THEN [call EXCEPT ![c].at = "reading", ![c].todo = next]
                      ELSE [call EXCEPT ![c].at = "answering", ![c].todo = {}, ![c].found = found]
          BY <4>3, <1>6 DEF Expand, IsCall, CallFields
        <5>2. next \subseteq DOMAIN meta
          BY <3>1, RowsOfUsable
        <5> HIDE DEF next
        <5>3. /\ l.at \in {"reading", "answering"} /\ l.todo \in {next, {}}
              /\ l.found \in {k.found, found} /\ l.hits = k.hits
          BY <5>1, <1>6 DEF IsCall, CallFields
        <5>4. \A i \in DOMAIN found : i \in DOMAIN k.found /\ found[i] = k.found[i]
          OBVIOUS
        <5> HIDE DEF l, k, found
        <5>5. /\ DOMAIN l.found \subseteq DOMAIN meta
              /\ \A i \in DOMAIN l.found : Right(l.found[i], meta[i])
          BY <5>3, <5>4, <3>1
        <5>6. QED
          BY <5>2, <5>3, <5>5, <3>1
      <4>4. CASE Answer(c)
        <5> DEFINE hits == {[distanceOf |-> k.found[i], meta |-> meta[i]] : i \in DOMAIN k.found}
        <5>1. call' = [call EXCEPT ![c].at = "answered", ![c].found = << >>, ![c].hits = hits]
          BY <4>4 DEF Answer
        <5>2. \A hit \in hits : Right(hit.distanceOf, hit.meta)
          BY <3>1
        <5> HIDE DEF hits
        <5>3. l.at = "answered" /\ l.todo = k.todo /\ l.found = << >> /\ l.hits = hits
          BY <5>1, <1>6 DEF IsCall, CallFields
        <5>4. DOMAIN << >> = {}
          OBVIOUS
        <5> HIDE DEF l, k
        <5>5. QED
          BY <5>2, <5>3, <5>4, <3>1
      <4>5. QED
        BY <1>9, <4>1, <4>2, <4>3, <4>4
    <3> HIDE DEF l, k
    <3>4. QED
      BY <1>1, <1>3, <1>7, <3>1, <3>2, <3>3 DEF SearchInv, l
  <2>4. QED
    BY <1>3, <1>4, <1>5, <2>2, <2>3, ReadStep DEF ReadInv
<1>10. QED
  BY <1>8, <1>9

(* Requests that end.                                                      *)
LEMMA LeavesRead ==
  ASSUME TypeInv, ReadInv, NEW c \in Clients,
         SearchRaises(c) \/ EndSearch(c) \/ CompactRaises(c)
  PROVE  ReadInv'
<1>1. /\ UNCHANGED <<index, meta, quantized, quantizer, writer>> /\ call'[c] = Idle
      /\ past' = [past EXCEPT !.searches = past'.searches, !.broken = past'.broken]
      /\ call' = [call EXCEPT ![c] = call'[c]]
  BY LeavesType DEF storage
<1>2. Grows /\ \A d \in Clients \ {c} : Stays(d)
  BY <1>1, PastMoves, OneMoves DEF TypeInv
<1>3. /\ past'.restarts = past.restarts /\ past'.unfit = past.unfit
      /\ past'.submitted = past.submitted
  BY <1>1 DEF TypeInv, PastInv, PastFields
<1>4. Extends /\ FittedInv' /\ SearchInv(c)'
  <2>1. call'[c].job # "search"
    BY <1>1 DEF Idle
  <2>2. FittedInv'
    BY <1>1, <1>3, FittedStays DEF ReadInv
  <2>3. QED
    BY <1>1, <2>1, <2>2, NotSearching DEF Extends, Unlocked
<1>5. ~ past'.broken
  <2>1. CASE EndSearch(c) \/ CompactRaises(c)
    BY <2>1 DEF EndSearch, CompactRaises, ReadInv
  <2>2. CASE SearchRaises(c)
    <3>1. past' = [past EXCEPT !.broken = @ \/ ~ (call[c].mixed \/ past.unfit \/ past.restarts > 0)]
      BY <2>2 DEF SearchRaises
    <3>2. /\ \/ call[c].at = "decoding" /\ CannotDecode
             \/ /\ call[c].at \in {"expanding", "answering"}
                /\ ~ DOMAIN call[c].found \subseteq DOMAIN index.nodes
          /\ [at |-> call[c].at, job |-> call[c].job] \in Jobs
      BY <2>2 DEF SearchRaises, At, TypeInv, CallInv
    <3>3. call[c].job = "search"
      BY <3>2 DEF Jobs, Searches, Swaps
    <3>4. past.restarts \in Nat
      BY DEF TypeInv, PastInv
    <3>5. call[c].mixed \/ past.unfit \/ past.restarts > 0
      BY <3>2, <3>3, <3>4, SearchWorks
    <3>6. past'.broken = (past.broken \/ ~ (call[c].mixed \/ past.unfit \/ past.restarts > 0))
      BY <3>1 DEF TypeInv, PastInv, PastFields
    <3>7. QED
      BY <3>5, <3>6 DEF ReadInv
  <2>3. QED
    BY <2>1, <2>2
<1>6. QED
  BY <1>2, <1>4, <1>5, ReadStep

(* The graph only grows, and is exchanged by compactions alone.            *)
LEMMA WriteExtends ==
  ASSUME TypeInv, NEW c \in Clients,
         \/ Insert(c) \/ ReserveNode(c) \/ LinkInsert(c) \/ LinkMissed(c) \/ Delete(c)
         \/ Reinsert(c) \/ BeginCompact(c) \/ LinkRaises(c) \/ Acknowledge(c) \/ EndCompact(c)
  PROVE  Extends
<1>1. writer' = writer
  BY DEF Insert, ReserveNode, ReserveRow, LinkInsert, LinkMissed, LinkNode, Delete, Reinsert,
     BeginCompact, LinkRaises, Acknowledge, EndCompact
<1>2. CASE ReserveNode(c)
  <2> DEFINE n == index.nextId
  <2>1. /\ Usable(index) /\ n \notin DOMAIN index.nodes /\ call[c].row \in Codes
        /\ index' = AddNode(index, n, call[c].row, 0)
    BY <1>2, ReserveType
  <2>2. meta' = [i \in DOMAIN meta \cup {n} |-> IF i = n THEN call[c].vec ELSE meta[i]]
    BY <1>2 DEF ReserveNode, ReserveRow
  <2>3. n \in Nat
    BY <2>1, RowsOfUsable
  <2>4. \A i \in DOMAIN index.nodes : index'.vectors[i] = index.vectors[i]
    <3> HIDE DEF n
    <3>1. QED
      BY <2>1, <2>3, AddUsable
  <2>5. DOMAIN meta = DOMAIN index.nodes
    BY DEF TypeInv, IndexInv
  <2>6. QED
    BY <1>1, <2>1, <2>2, <2>4, <2>5 DEF Extends, Unlocked
<1>3. CASE LinkInsert(c) \/ LinkMissed(c) \/ Delete(c)
  <2>1. Same(index, index') /\ meta' = meta
    BY <1>3, LinkType, DeleteType
  <2>2. QED
    BY <1>1, <2>1 DEF Same, Extends, Unlocked
<1>4. CASE \/ Insert(c) \/ Reinsert(c) \/ BeginCompact(c)
           \/ LinkRaises(c) \/ Acknowledge(c) \/ EndCompact(c)
  <2>1. UNCHANGED <<index, meta>>
    BY <1>4 DEF Insert, Reinsert, BeginCompact, LinkRaises, Acknowledge, EndCompact, storage
  <2>2. QED
    BY <1>1, <2>1 DEF Extends, Unlocked
<1>5. QED
  BY <1>2, <1>3, <1>4

(* The other requests: the index grows, if anything.                       *)
LEMMA WriteRead ==
  ASSUME TypeInv, ReadInv, NEW c \in Clients,
         \/ Insert(c) \/ ReserveNode(c) \/ LinkInsert(c) \/ LinkMissed(c) \/ Delete(c)
         \/ Reinsert(c) \/ BeginCompact(c) \/ LinkRaises(c) \/ Acknowledge(c) \/ EndCompact(c)
  PROVE  ReadInv'
<1>1. /\ Grows /\ \A d \in Clients \ {c} : Stays(d)
      /\ call'[c].job # "search" /\ quantized' = quantized /\ writer' = writer
  <2>1. CASE Insert(c)
    <3>1. Grows /\ UNCHANGED <<quantized, writer>>
      BY <2>1, InsertType DEF Insert
    <3>2. PICK v : call' = [call EXCEPT ![c] = [Idle EXCEPT !.at = "encoded", !.job = "insert",
                       !.vec = v, !.row = Encode(quantizer, v), !.range = Span(quantizer)]]
      BY <2>1 DEF Insert
    <3>3. call'[c].job = "insert"
      BY <3>2 DEF TypeInv, Idle
    <3>4. QED
      BY <3>1, <3>2, <3>3, RequestGoes
  <2>2. CASE ReserveNode(c)
    <3>1. call[c].job # "search"
      <4>1. call[c].at = "encoded" /\ [at |-> call[c].at, job |-> call[c].job] \in Jobs
        BY <2>2, ReserveType DEF TypeInv, CallInv
      <4>2. QED
        BY <4>1 DEF Jobs, Searches, Swaps
    <3>2. UNCHANGED <<quantized, writer>>
      BY <2>2 DEF ReserveNode, ReserveRow
    <3>3. QED
      BY <2>2, <3>1, <3>2, ReserveType
  <2>3. CASE LinkInsert(c) \/ LinkMissed(c)
    BY <2>3, LinkType
  <2>4. CASE Delete(c)
    BY <2>4, DeleteType
  <2>5. CASE Reinsert(c)
    BY <2>5, ReinsertType
  <2>6. CASE BeginCompact(c)
    BY <2>6, BeginType DEF storage
  <2>7. CASE LinkRaises(c) \/ Acknowledge(c) \/ EndCompact(c)
    <3>1. call'[c] = Idle /\ Grows /\ UNCHANGED <<storage, writer, up>>
          /\ \A d \in Clients \ {c} : Stays(d)
      BY <2>7, EndsType
    <3>2. QED
      BY <3>1 DEF Idle, storage
  <2>8. QED
    BY <2>1, <2>2, <2>3, <2>4, <2>5, <2>6, <2>7
<1>2. Extends
  BY WriteExtends
<1>3. past'.restarts = past.restarts /\ past'.unfit = past.unfit /\ past'.broken = past.broken
  BY DEF Insert, ReserveNode, ReserveRow, LinkInsert, LinkMissed, LinkNode, Delete, Reinsert,
         BeginCompact, LinkRaises, Acknowledge, EndCompact, TypeInv, PastInv, PastFields
<1>4. FittedInv'
  <2>1. CASE Insert(c)
    <3>1. quantizer.fitted /\ quantizer'.fitted = quantizer.fitted
      BY <2>1, TrackedStays DEF Insert, TypeInv, QuantizerInv
    <3>2. QED
      BY <1>1, <1>3, <3>1 DEF ReadInv, FittedInv
  <2>2. CASE ~ Insert(c)
    <3>1. quantizer'.fitted = quantizer.fitted
      <4>1. CASE Reinsert(c)
        BY <4>1, ReinsertType
      <4>2. CASE ~ Reinsert(c)
        BY <2>2, <4>2 DEF ReserveNode, ReserveRow, LinkInsert, LinkMissed, LinkNode,
           Delete, BeginCompact, LinkRaises, Acknowledge, EndCompact, storage
      <4>3. QED
        BY <4>1, <4>2
    <3>2. past'.submitted = past.submitted
      BY <2>2 DEF ReserveNode, ReserveRow, LinkInsert, LinkMissed, LinkNode, Delete, Reinsert,
         BeginCompact, LinkRaises, Acknowledge, EndCompact, TypeInv, PastInv, PastFields
    <3>3. QED
      BY <1>1, <1>3, <3>1, <3>2, FittedStays DEF ReadInv
  <2>3. QED
    BY <2>1, <2>2
<1>5. QED
  BY <1>1, <1>2, <1>3, <1>4, NotSearching, ReadStep DEF ReadInv

LEMMA ExchangeRead ==
  ASSUME TypeInv, ReadInv, NEW c \in Clients,
         \/ FitQuantizer(c) \/ SwapVectors(c) \/ SwapNodes(c) \/ SwapEntry(c) \/ SwapQuantizer(c)
  PROVE  ReadInv'
<1>1. CASE FitQuantizer(c)
  <2>1. /\ Grows /\ \A d \in Clients : Stays(d) /\ quantizer'.fitted /\ quantized' = quantized
        /\ past' = [past EXCEPT !.fits = past'.fits, !.spoilt = past'.spoilt]
        /\ \A d \in Clients : call'[d].job = "search" => call'[d].mixed
    BY <1>1, FitType
  <2>2. past'.restarts = past.restarts /\ past'.unfit = past.unfit
        /\ past'.submitted = past.submitted /\ past'.broken = past.broken
    BY <2>1 DEF TypeInv, PastInv, PastFields
  <2>3. FittedInv' /\ ~ past'.broken
    BY <2>1, <2>2 DEF ReadInv, FittedInv
  <2>4. SearchInv(c)'
    BY <2>1 DEF SearchInv
  <2>5. QED
    BY <2>1, <2>3, <2>4, ReadStep
<1>2. CASE SwapVectors(c)
  <2>1. /\ UNCHANGED <<quantized, quantizer, past>> /\ \A d \in Clients : d # c => Stays(d)
        /\ call'[c].job = "compact"
        /\ \A d \in Clients : call'[d].job = "search" => call'[d].mixed
    BY <1>2, SwapVectorsType
  <2>2. Grows
    BY <2>1 DEF Grows, TypeInv, PastInv
  <2>3. FittedInv' /\ ~ past'.broken /\ SearchInv(c)'
    BY <2>1, NotSearching DEF ReadInv, FittedInv
  <2>4. QED
    BY <2>1, <2>2, <2>3, ReadStep
<1>3. CASE SwapNodes(c) \/ SwapEntry(c) \/ SwapQuantizer(c)
  <2>1. /\ (\A d \in Clients \ {c} : Stays(d)) /\ call'[c].job = "compact" /\ ~ Unlocked
        /\ quantized' = quantized
    BY <1>3, SwapMiddleType, SwapQuantizerType
  <2>2. Grows /\ FittedInv' /\ ~ past'.broken
    <3>1. CASE SwapNodes(c) \/ SwapEntry(c)
      <4>1. UNCHANGED <<quantized, quantizer, past>>
        BY <3>1, SwapMiddleType
      <4>2. QED
        BY <4>1 DEF Grows, TypeInv, PastInv, ReadInv, FittedInv
    <3>2. CASE SwapQuantizer(c)
      <4> DEFINE b == past.unfit \/ (quantized /\ ~ quantizer'.fitted)
      <4>1. past' = [past EXCEPT !.unfit = b] /\ quantized' = quantized /\ past'.unfit = b
        BY <3>2, SwapQuantizerType
      <4>2. /\ past'.restarts = past.restarts /\ past'.submitted = past.submitted
            /\ past'.broken = past.broken /\ Grows
        <5> HIDE DEF b
        <5>1. QED
          BY <4>1 DEF TypeInv, PastInv, PastFields, Grows
      <4>3. QED
        BY <4>1, <4>2 DEF ReadInv, FittedInv
    <3>3. QED
      BY <1>3, <3>1, <3>2
  <2>3. Extends /\ SearchInv(c)'
    <3>1. Extends
      BY <2>1 DEF Extends
    <3>2. call'[c].job # "search"
      BY <2>1
    <3>3. SearchInv(c)'
      BY <3>2, NotSearching
    <3>4. QED
      BY <3>1, <3>3
  <2>4. QED
    BY <2>1, <2>2, <2>3, ReadStep
<1>4. QED
  BY <1>1, <1>2, <1>3

LEMMA RestartRead ==
  ASSUME TypeInv, ReadInv, Restart
  PROVE  ReadInv'
<1>1. /\ \A c \in Clients : call'[c] = Idle
      /\ past'.restarts = past.restarts + 1 /\ past'.broken = past.broken
  BY RestartType
<1>2. past.restarts \in Nat
  BY DEF TypeInv, PastInv
<1>3. past'.restarts # 0
  BY <1>1, <1>2
<1>4. FittedInv' /\ ~ past'.broken
  BY <1>1, <1>3 DEF FittedInv, ReadInv
<1>5. \A c \in Clients : SearchInv(c)'
  BY <1>1, NotSearching DEF Idle
<1>6. QED
  BY <1>4, <1>5 DEF ReadInv

LEMMA InitRead ==
  ASSUME Init
  PROVE  ReadInv
BY DEF Init, ReadInv, FittedInv, SearchInv, Idle
-----------------------------------------------------------------------------
(* Every step keeps the inserts                                            *)

(* What the answer of one request promises, and what one compaction holds. *)
Owed(k) == {v \in {k.vec} : k.job = "insert" /\ k.at \in {"reserved", "done"}}
Held(k) == IF k.job = "compact" THEN InHands(k) ELSE {}

LEMMA PromisedAndHeld ==
  /\ \A v : v \in Promised <=> v \in past.acked \/ \E d \in Clients : v \in Owed(call[d])
  /\ \A v : v \in Promised' <=> v \in past'.acked \/ \E d \in Clients : v \in Owed(call'[d])
  /\ \A v : v \in InCompaction <=> \E d \in Clients : v \in Held(call[d])
  /\ \A v : v \in InCompaction' <=> \E d \in Clients : v \in Held(call'[d])
<1>1. /\ \A v : v \in Promised <=> v \in past.acked \/ \E d \in Clients : v \in Owed(call[d])
      /\ \A v : v \in Promised' <=> v \in past'.acked \/ \E d \in Clients : v \in Owed(call'[d])
  BY DEF Promised, Owed
<1>2. /\ \A v : v \in InCompaction <=> \E d \in Clients : v \in Held(call[d])
      /\ \A v : v \in InCompaction' <=> \E d \in Clients : v \in Held(call'[d])
  BY DEF InCompaction, Held
<1>3. QED
  BY <1>1, <1>2

LEMMA OwedStays ==
  ASSUME NEW d, Stays(d)
  PROVE  Owed(call'[d]) = Owed(call[d]) /\ Held(call'[d]) = Held(call[d])
<1>1. /\ call'[d].at = call[d].at /\ call'[d].job = call[d].job /\ call'[d].vec = call[d].vec
      /\ call'[d].missed = call[d].missed
  BY StaysFields
<1>2. QED
  BY <1>1 DEF Owed, Held, InHands, Metas

(* A compaction that goes on while another request takes a step.           *)
LEMMA CompactStays ==
  ASSUME TypeInv, KeepInv, NEW d \in Clients, call[d].job = "compact", Stays(d),
         Extends, ~ Unlocked => UNCHANGED <<index, meta>>, Live(index) # {} => Live(index') # {}
  PROVE  CompactInv(d)'
<1> DEFINE k == call[d]
           l == call'[d]
<1>1. /\ l.at = k.at /\ l.id = k.id /\ l.live = k.live /\ l.missed = k.missed
  BY StaysFields
<1>2. CompactInv(d)
  BY DEF KeepInv
<1>3. k.at \notin Swaps => Unlocked
  <2> SUFFICES ASSUME k.at \notin Swaps, writer # None
               PROVE  FALSE
    BY DEF Unlocked
  <2>1. writer \in Clients /\ call[writer].at \in Swaps
    BY DEF TypeInv, SwapInv
  <2>2. [at |-> call[writer].at, job |-> call[writer].job] \in Jobs
    BY <2>1 DEF TypeInv, CallInv
  <2>3. call[writer].job = "compact"
    BY <2>1, <2>2 DEF Jobs, Swaps, Searches
  <2>4. writer = d
    BY <2>1, <2>3 DEF KeepInv
  <2>5. QED
    BY <2>1, <2>4
<1>4. k.at = "nodes" => ~ Unlocked
  <2>1. k.at = "nodes" => writer = d /\ None \notin Clients
    BY Constants DEF TypeInv, SwapInv, Swaps
  <2>2. QED
    BY <2>1 DEF Unlocked
<1> HIDE DEF k, l
<1>5. CASE k.at = "rebuilding"
  <2>1. Unlocked
    BY <1>3, <1>5 DEF Swaps
  <2>2. l.missed = {} /\ \A j \in DOMAIN k.live : /\ k.live[j].id \in DOMAIN meta
                                                  /\ meta[k.live[j].id] = k.live[j].meta
    BY <1>1, <1>2, <1>5 DEF CompactInv, k
  <2>3. \A j \in DOMAIN l.live : l.live[j].id \in DOMAIN meta' /\ meta'[l.live[j].id] = l.live[j].meta
    BY <2>1, <2>2, <1>1 DEF Extends
  <2>4. QED
    BY <2>2, <2>3, <1>1, <1>5 DEF CompactInv, l
<1>6. CASE k.at = "nodes"
  <2>1. index' = index /\ meta' = meta /\ LiveMetas \subseteq Copies(k) \cup Metas(k)
    BY <1>2, <1>4, <1>6 DEF CompactInv, k
  <2>2. LiveMetas' = LiveMetas
    BY <2>1 DEF LiveMetas
  <2>3. Copies(l) = Copies(k) /\ Metas(l) = Metas(k)
    BY <1>1 DEF Copies, Metas
  <2>4. LiveMetas' \subseteq Copies(l) \cup Metas(l)
    BY <2>1, <2>2, <2>3
  <2>5. QED
    BY <2>4, <1>1, <1>6 DEF CompactInv, l
<1>7. CASE k.at = "reserved"
  <2>1. Unlocked
    BY <1>3, <1>7 DEF Swaps
  <2>2. l.id \in DOMAIN meta' /\ Live(index') # {}
    BY <2>1, <1>1, <1>2, <1>7 DEF Extends, CompactInv, k
  <2>3. QED
    BY <2>2, <1>1, <1>7 DEF CompactInv, l
<1>8. CASE k.at \notin {"rebuilding", "nodes", "reserved"}
  BY <1>1, <1>8 DEF CompactInv, l
<1>9. QED
  BY <1>5, <1>6, <1>7, <1>8

(* All that remains to be shown of a step of c.                            *)
LEMMA KeepStep ==
  ASSUME TypeInv, KeepInv, NEW c \in Clients, \A d \in Clients \ {c} : Stays(d),
         past.erased \subseteq past'.erased,
         past'.acked \cup Owed(call'[c])
           \subseteq past.acked \cup Owed(call[c]) \cup past'.erased \cup LiveMetas',
         LiveMetas \cup Held(call[c]) \subseteq LiveMetas' \cup Held(call'[c]) \cup past'.erased,
         call'[c].job = "compact" => (call[c].job = "compact" \/ ~ Compacting) /\ CompactInv(c)',
         \/ call[c].job = "compact"
         \/ /\ Extends /\ (~ Unlocked => UNCHANGED <<index, meta>>)
            /\ Compacting /\ Live(index) # {} => Live(index') # {}
  PROVE  KeepInv'
<1>1. ASSUME NEW v \in Promised' \ past'.erased
      PROVE  v \in LiveMetas' \cup InCompaction'
  <2>1. v \in past'.acked \/ \E d \in Clients : v \in Owed(call'[d])
    BY <1>1, PromisedAndHeld
  <2>2. v \in Promised \/ v \in LiveMetas'
    <3>1. CASE v \in past'.acked \cup Owed(call'[c])
      BY <3>1, PromisedAndHeld
    <3>2. CASE \E d \in Clients \ {c} : v \in Owed(call'[d])
      BY <3>2, OwedStays, PromisedAndHeld
    <3>3. QED
      BY <2>1, <3>1, <3>2
  <2>3. CASE v \in Promised
    <3>1. v \in LiveMetas \/ \E d \in Clients : v \in Held(call[d])
      BY <1>1, <2>3, PromisedAndHeld DEF KeepInv
    <3>2. CASE v \in LiveMetas \cup Held(call[c])
      <4>1. v \in LiveMetas' \/ v \in Held(call'[c])
        BY <3>2
      <4>2. v \in Held(call'[c]) => v \in InCompaction'
        BY PromisedAndHeld
      <4>3. QED
        BY <4>1, <4>2
    <3>3. CASE \E d \in Clients \ {c} : v \in Held(call[d])
      <4>1. PICK d \in Clients \ {c} : v \in Held(call'[d])
        BY <3>3, OwedStays
      <4>2. QED
        BY <4>1, PromisedAndHeld
    <3>4. QED
      BY <3>1, <3>2, <3>3
  <2>4. QED
    BY <2>2, <2>3
<1>2. \A d \in Clients \ {c} : call'[d].job = call[d].job
  BY StaysFields
<1>3. \A d, e \in Clients : call'[d].job = "compact" /\ call'[e].job = "compact" => d = e
  BY <1>2 DEF KeepInv, Compacting
<1>4. ASSUME NEW d \in Clients, call'[d].job = "compact"
      PROVE  CompactInv(d)'
  <2>1. CASE d = c
    BY <1>4, <2>1
  <2>2. CASE d # c
    <3>1. call[d].job = "compact" /\ Compacting /\ Stays(d)
      BY <1>2, <1>4, <2>2 DEF Compacting
    <3>2. call[c].job # "compact"
      BY <3>1, <2>2 DEF KeepInv
    <3>3. QED
      BY <3>1, <3>2, CompactStays
  <2>3. QED
    BY <2>1, <2>2
<1>5. QED
  BY <1>1, <1>3, <1>4 DEF KeepInv

(* Nothing that happened is forgotten.                                     *)
LEMMA CalmBefore ==
  ASSUME TypeInv, Calm', NEW c \in Clients,
         \/ FitQuantizer(c) \/ Insert(c) \/ ReserveNode(c) \/ LinkInsert(c) \/ LinkRaises(c)
         \/ Acknowledge(c) \/ Delete(c) \/ BeginCompact(c) \/ SwapVectors(c) \/ SwapNodes(c)
         \/ SwapEntry(c) \/ SwapQuantizer(c) \/ CompactRaises(c) \/ Reinsert(c) \/ LinkMissed(c)
         \/ EndCompact(c) \/ Search(c) \/ ReadRows(c) \/ DecodeRows(c) \/ Expand(c) \/ Answer(c)
         \/ SearchRaises(c) \/ EndSearch(c)
  PROVE  Calm /\ past.restarts = 0
<1>1. PastInv
  BY DEF TypeInv
<1>2. past'.restarts = past.restarts /\ (past.unfit => past'.unfit)
      /\ (past.emptied => past'.emptied) /\ (past.crossed => past'.crossed)
  <2>1. CASE FitQuantizer(c) \/ Insert(c) \/ ReserveNode(c) \/ LinkInsert(c) \/ LinkRaises(c)
             \/ Acknowledge(c)
    BY <1>1, <2>1 DEF FitQuantizer, Insert, ReserveNode, ReserveRow, LinkInsert, LinkNode, LinkRaises,
       Acknowledge, PastInv, PastFields
  <2>2. CASE Delete(c)
    BY <1>1, <2>2 DEF Delete, PastInv, PastFields
  <2>3. CASE BeginCompact(c)
    BY <1>1, <2>3 DEF BeginCompact, PastInv, PastFields
  <2>4. CASE SwapVectors(c) \/ SwapNodes(c) \/ SwapEntry(c) \/ CompactRaises(c) \/ Reinsert(c)
             \/ LinkMissed(c) \/ EndCompact(c)
    BY <1>1, <2>4 DEF SwapVectors, SwapNodes, SwapEntry, CompactRaises, Reinsert, LinkMissed, LinkNode,
       EndCompact, PastInv, PastFields
  <2>5. CASE SwapQuantizer(c)
    <3> DEFINE b == past.unfit \/ (quantized /\ ~ quantizer'.fitted)
    <3>1. past' = [past EXCEPT !.unfit = b]
      BY <2>5 DEF SwapQuantizer
    <3>2. past.unfit => b
      OBVIOUS
    <3> HIDE DEF b
    <3>3. QED
      BY <1>1, <3>1, <3>2 DEF PastInv, PastFields
  <2>6. CASE Search(c) \/ ReadRows(c) \/ DecodeRows(c) \/ Expand(c) \/ Answer(c)
             \/ SearchRaises(c) \/ EndSearch(c)
    BY <1>1, <2>6 DEF Search, ReadRows, DecodeRows, Expand, Answer, SearchRaises, EndSearch,
       PastInv, PastFields
  <2>7. QED
    BY <2>1, <2>2, <2>3, <2>4, <2>5, <2>6
<1>3. past.restarts \in Nat
  BY <1>1 DEF PastInv
<1>4. QED
  BY <1>2, <1>3 DEF Calm

(* While all is calm, what is inserted can be decoded.                     *)
LEMMA CalmDecodes ==
  ASSUME ReadInv, Calm, past.restarts = 0, past.submitted # {}
  PROVE  ~ CannotDecode
BY DEF ReadInv, FittedInv, Calm, CannotDecode


(* While one request compacts, it alone can hold the lock.                 *)
LEMMA OnlyCompaction ==
  ASSUME TypeInv, KeepInv, NEW d \in Clients, call[d].job = "compact", call[d].at \notin Swaps
  PROVE  Unlocked
<1> SUFFICES ASSUME writer # None
             PROVE  FALSE
  BY DEF Unlocked
<1>1. writer \in Clients /\ call[writer].at \in Swaps
  BY DEF TypeInv, SwapInv
<1>2. [at |-> call[writer].at, job |-> call[writer].job] \in Jobs
  BY <1>1 DEF TypeInv, CallInv
<1>3. call[writer].job = "compact"
  BY <1>1, <1>2 DEF Jobs, Swaps, Searches
<1>4. writer = d
  BY <1>1, <1>3 DEF KeepInv
<1>5. QED
  BY <1>1, <1>4

LEMMA IdleHasNothing ==
  ASSUME NEW k, k.job \notin {"insert", "compact"}
  PROVE  Owed(k) = {} /\ Held(k) = {}
BY DEF Owed, Held

LEMMA JobOf ==
  ASSUME TypeInv, NEW c \in Clients
  PROVE  /\ call[c].at = "idle" => call[c].job = "none"
         /\ call[c].at \in {"encoded", "reserved"} => call[c].job \in {"insert", "compact"}
         /\ call[c].at = "done" => call[c].job \in {"insert", "delete"}
         /\ call[c].at \in {"rebuilding", "replaying"} \cup Swaps => call[c].job = "compact"
         /\ call[c].at \in Searches => call[c].job = "search"
<1>1. [at |-> call[c].at, job |-> call[c].job] \in Jobs
  BY DEF TypeInv, CallInv
<1>2. QED
  BY <1>1 DEF Jobs, Swaps, Searches

(* Requests that change nothing in the index and end or begin outside of a *)
(* compaction.                                                             *)
LEMMA QuietKeep ==
  ASSUME TypeInv, KeepInv, NEW c \in Clients, \A d \in Clients \ {c} : Stays(d),
         UNCHANGED <<index, meta, writer>>, past'.acked = past.acked, past'.erased = past.erased,
         Owed(call'[c]) \subseteq Owed(call[c]),
         call[c].job # "compact", call'[c].job # "compact"
  PROVE  KeepInv'
<1>1. Extends
  BY DEF Extends, Unlocked
<1>2. Held(call[c]) = {} /\ LiveMetas' = LiveMetas
  BY DEF Held, LiveMetas
<1>3. QED
  BY <1>1, <1>2, KeepStep

LEMMA PastKept ==
  ASSUME TypeInv, NEW c \in Clients,
         \/ FitQuantizer(c) \/ Insert(c) \/ ReserveNode(c) \/ LinkInsert(c) \/ LinkRaises(c)
         \/ BeginCompact(c) \/ SwapVectors(c) \/ SwapNodes(c)
         \/ SwapEntry(c) \/ SwapQuantizer(c) \/ CompactRaises(c) \/ Reinsert(c) \/ LinkMissed(c)
         \/ EndCompact(c) \/ Search(c) \/ ReadRows(c) \/ DecodeRows(c) \/ Expand(c) \/ Answer(c)
         \/ SearchRaises(c) \/ EndSearch(c)
  PROVE  past'.acked = past.acked /\ past'.erased = past.erased
<1>1. PastInv
  BY DEF TypeInv
<1>2. CASE FitQuantizer(c) \/ Insert(c) \/ ReserveNode(c) \/ LinkInsert(c) \/ LinkRaises(c)
  BY <1>1, <1>2 DEF FitQuantizer, Insert, ReserveNode, ReserveRow, LinkInsert, LinkNode, LinkRaises,
     PastInv, PastFields
<1>3. CASE BeginCompact(c)
  BY <1>1, <1>3 DEF BeginCompact, PastInv, PastFields
<1>4. CASE SwapVectors(c) \/ SwapNodes(c) \/ SwapEntry(c) \/ CompactRaises(c) \/ Reinsert(c)
           \/ LinkMissed(c) \/ EndCompact(c)
  BY <1>1, <1>4 DEF SwapVectors, SwapNodes, SwapEntry, CompactRaises, Reinsert, LinkMissed, LinkNode,
     EndCompact, PastInv, PastFields
<1>5. CASE SwapQuantizer(c)
  <2> DEFINE b == past.unfit \/ (quantized /\ ~ quantizer'.fitted)
  <2>1. past' = [past EXCEPT !.unfit = b]
    BY <1>5 DEF SwapQuantizer
  <2> HIDE DEF b
  <2>2. QED
    BY <1>1, <2>1 DEF PastInv, PastFields
<1>6. CASE Search(c) \/ ReadRows(c) \/ DecodeRows(c) \/ Expand(c) \/ Answer(c)
           \/ SearchRaises(c) \/ EndSearch(c)
  BY <1>1, <1>6 DEF Search, ReadRows, DecodeRows, Expand, Answer, SearchRaises, EndSearch,
     PastInv, PastFields
<1>7. QED
  BY <1>2, <1>3, <1>4, <1>5, <1>6

LEMMA SearchKeep ==
  ASSUME TypeInv, KeepInv, NEW c \in Clients,
         \/ Search(c) \/ ReadRows(c) \/ DecodeRows(c) \/ Expand(c) \/ Answer(c)
         \/ SearchRaises(c) \/ EndSearch(c)
  PROVE  KeepInv'
<1>1. past'.acked = past.acked /\ past'.erased = past.erased
  BY PastKept
<1>2. /\ UNCHANGED <<index, meta, writer>> /\ call[c].at \in {"idle"} \cup Searches
      /\ \E new : call' = [call EXCEPT ![c] = new] /\ new.job \in {"none", "search"}
  <2>1. CASE Search(c)
    <3> DEFINE new == [Idle EXCEPT !.at = "reading", !.job = "search",
                                   !.todo = {index.entryPoint}, !.mixed = ~ Unlocked]
    <3>1. UNCHANGED <<index, meta, writer>> /\ call[c].at = "idle"
          /\ call' = [call EXCEPT ![c] = new]
      BY <2>1 DEF Search, At, storage
    <3>2. new.job = "search"
      BY DEF Idle
    <3>3. QED
      BY <3>1, <3>2
  <2>2. CASE ReadRows(c) \/ DecodeRows(c) \/ Expand(c) \/ Answer(c)
    <3>1. /\ UNCHANGED <<storage, writer>> /\ call[c].at \in Searches
          /\ call' = [call EXCEPT ![c] = call'[c]] /\ call'[c].job = "search"
      BY <2>2, SearchSteps
    <3>2. QED
      BY <3>1 DEF storage
  <2>3. CASE SearchRaises(c) \/ EndSearch(c)
    <3>1. call[c].at \in Searches
      BY <2>3 DEF SearchRaises, EndSearch, At, Searches
    <3>2. UNCHANGED <<storage, writer>> /\ call' = [call EXCEPT ![c] = call'[c]] /\ call'[c] = Idle
      BY <2>3, LeavesType
    <3>3. QED
      BY <3>1, <3>2 DEF storage, Idle
  <2>4. QED
    BY <2>1, <2>2, <2>3
<1>3. call[c].job \in {"none", "search"}
  BY <1>2, JobOf
<1>4. call'[c].job \in {"none", "search"} /\ \A d \in Clients \ {c} : Stays(d)
  BY <1>2, RequestGoes
<1>5. Owed(call'[c]) = {}
  BY <1>4, IdleHasNothing
<1>6. QED
  BY <1>1, <1>2, <1>3, <1>4, <1>5, QuietKeep

LEMMA InsertKeep ==
  ASSUME TypeInv, KeepInv, NEW c \in Clients, Insert(c) \/ FitQuantizer(c)
  PROVE  KeepInv'
<1>1. past'.acked = past.acked /\ past'.erased = past.erased
  BY PastKept
<1>2. UNCHANGED <<index, meta, writer>> /\ call[c].at = "idle" /\ call[c].job = "none"
  BY JobOf DEF Insert, FitQuantizer, At
<1>3. /\ \A d \in Clients \ {c} : Stays(d)
      /\ call'[c].job \in {"none", "insert"} /\ Owed(call'[c]) = {}
  <2>1. CASE Insert(c)
    <3>1. PICK v : call' = [call EXCEPT ![c] = [Idle EXCEPT !.at = "encoded", !.job = "insert",
                       !.vec = v, !.row = Encode(quantizer, v), !.range = Span(quantizer)]]
      BY <2>1 DEF Insert
    <3>2. call'[c].job = "insert" /\ call'[c].at = "encoded"
      BY <3>1 DEF TypeInv, Idle
    <3>3. QED
      BY <3>1, <3>2, RequestGoes DEF Owed
  <2>2. CASE FitQuantizer(c)
    <3>1. \A d \in Clients : Stays(d)
      BY <2>2, FitType
    <3>2. call'[c].job = "none"
      BY <3>1, <1>2, StaysFields
    <3>3. QED
      BY <3>1, <3>2, IdleHasNothing
  <2>3. QED
    BY <2>1, <2>2
<1>4. QED
  BY <1>1, <1>2, <1>3, QuietKeep

LEMMA ReserveKeep ==
  ASSUME TypeInv, KeepInv, NEW c \in Clients, ReserveNode(c)
  PROVE  KeepInv'
<1> DEFINE k == call[c]
           l == call'[c]
           n == index.nextId
<1>1. /\ Usable(index) /\ n \notin DOMAIN index.nodes /\ index' = AddNode(index, n, k.row, 0)
      /\ k.at = "encoded" /\ k.row \in Codes
      /\ l.at = "reserved" /\ l.id = n /\ l.job = k.job /\ l.vec = k.vec /\ l.missed = k.missed
      /\ \A d \in Clients \ {c} : Stays(d)
  BY ReserveType
<1>2. meta' = [i \in DOMAIN meta \cup {n} |-> IF i = n THEN k.vec ELSE meta[i]] /\ Unlocked
  BY DEF ReserveNode, ReserveRow
<1>3. past'.acked = past.acked /\ past'.erased = past.erased
  BY PastKept
<1>4. Extends
  BY WriteExtends
<1>5. DOMAIN meta = DOMAIN index.nodes
  BY DEF TypeInv, IndexInv
<1>6. n \in Nat
  BY <1>1, RowsOfUsable
<1> HIDE DEF k, l, n
<1>7. Live(index') = Live(index) \cup {n}
  BY <1>1, <1>6, AddUsable
<1>8. LiveMetas' = LiveMetas \cup {k.vec}
  <2>1. Live(index) \subseteq DOMAIN meta /\ n \notin DOMAIN meta
    BY <1>1, <1>5 DEF Live
  <2>2. \A i \in Live(index) : meta'[i] = meta[i]
    BY <2>1, <1>2
  <2>3. meta'[n] = k.vec
    BY <1>2
  <2>4. LiveMetas' = {meta'[i] : i \in Live(index')}
    BY DEF LiveMetas
  <2>5. QED
    BY <2>2, <2>3, <2>4, <1>7 DEF LiveMetas
<1>9. Owed(l) \subseteq LiveMetas' /\ Owed(k) = {}
  BY <1>1, <1>8 DEF Owed
<1>10. Held(k) \subseteq LiveMetas' \cup Held(l)
  BY <1>1, <1>8 DEF Held, InHands, Metas
<1>11. CompactInv(c)'
  <2>1. n \in DOMAIN meta' /\ Live(index') # {}
    BY <1>2, <1>7
  <2>2. QED
    BY <1>1, <2>1 DEF CompactInv, l
<1>12. Live(index) # {} => Live(index') # {}
  BY <1>7
<1>13. l.job = "compact" => k.job = "compact"
  BY <1>1
<1>14. QED
  BY <1>1, <1>2, <1>3, <1>4, <1>8, <1>9, <1>10, <1>11, <1>12, <1>13, KeepStep DEF k, l


LEMMA LinkKeep ==
  ASSUME TypeInv, KeepInv, NEW c \in Clients, LinkInsert(c) \/ LinkMissed(c)
  PROVE  KeepInv'
<1> DEFINE k == call[c]
           l == call'[c]
<1>1. /\ Unlocked /\ Live(index') = Live(index) /\ meta' = meta
      /\ k.at = "reserved" /\ k.job \in {"insert", "compact"}
      /\ k.job = "insert" => l.at = "done"
      /\ k.job = "compact" => l.at = "replaying"
      /\ l.job = k.job /\ l.vec = k.vec /\ l.missed = k.missed
      /\ \A d \in Clients \ {c} : Stays(d)
  BY LinkType
<1>2. past'.acked = past.acked /\ past'.erased = past.erased /\ Extends
  BY PastKept, WriteExtends
<1> HIDE DEF k, l
<1>3. LiveMetas' = LiveMetas
  BY <1>1 DEF LiveMetas
<1>4. Owed(l) \subseteq Owed(k) /\ Held(l) = Held(k)
  BY <1>1 DEF Owed, Held, InHands, Metas
<1>5. l.job = "compact" => k.job = "compact" /\ CompactInv(c)'
  BY <1>1 DEF CompactInv, l
<1>6. QED
  BY <1>1, <1>2, <1>3, <1>4, <1>5, KeepStep DEF k, l

(* While all is calm, link() finds what it needs, and a compaction can     *)
(* decode what it missed.                                                  *)
LEMMA NothingRaises ==
  ASSUME TypeInv, ReadInv, KeepInv, Calm, past.restarts = 0, NEW c \in Clients
  PROVE  /\ LinkRaises(c) => call[c].job = "insert"
         /\ ~ CompactRaises(c)
<1>1. ASSUME LinkRaises(c), call[c].job # "insert"
      PROVE  FALSE
  <2>1. /\ call[c].at = "reserved"
        /\ {call[c].id, index.entryPoint} \subseteq DOMAIN index.nodes => CannotDecode
    BY <1>1 DEF LinkRaises, At
  <2>2. call[c].job = "compact"
    BY <1>1, <2>1, JobOf
  <2>3. Unlocked
    BY <2>1, <2>2, OnlyCompaction DEF Swaps
  <2>4. call[c].id \in DOMAIN meta /\ Live(index) # {}
    BY <2>1, <2>2 DEF KeepInv, CompactInv
  <2>5. DOMAIN meta = DOMAIN index.nodes /\ Usable(index) /\ past.submitted # {}
    BY <2>3, <2>4 DEF TypeInv, IndexInv
  <2>6. index.entryPoint \in DOMAIN index.nodes
    BY <2>4, <2>5 DEF Usable, Formed
  <2>7. ~ CannotDecode
    BY <2>5, CalmDecodes
  <2>8. QED
    BY <2>1, <2>4, <2>5, <2>6, <2>7
<1>2. ASSUME CompactRaises(c)
      PROVE  FALSE
  <2>1. /\ CannotDecode
        /\ \/ call[c].at = "rebuilding" /\ Unlocked /\ Missed(c, quantizer) # {}
           \/ call[c].missed # {}
    BY <1>2 DEF CompactRaises, At
  <2>2. past.submitted # {}
    <3>1. CASE Unlocked /\ Missed(c, quantizer) # {}
      <4>1. PICK row : row \in Missed(c, quantizer)
        BY <3>1
      <4>2. row.meta \in past.submitted
        BY <3>1, <4>1, MissedRows
      <4>3. QED
        BY <4>2
    <3>2. CASE call[c].missed # {}
      BY <3>2 DEF TypeInv, CallInv
    <3>3. QED
      BY <2>1, <3>1, <3>2
  <2>3. QED
    BY <2>1, <2>2, CalmDecodes
<1>3. QED
  BY <1>1, <1>2

LEMMA EndsKeep ==
  ASSUME TypeInv, KeepInv, NEW c \in Clients,
         (LinkRaises(c) /\ call[c].job = "insert") \/ Acknowledge(c) \/ EndCompact(c)
  PROVE  KeepInv'
<1>1. /\ UNCHANGED <<index, meta, writer>> /\ call'[c] = Idle /\ \A d \in Clients \ {c} : Stays(d)
  BY EndsType DEF storage
<1>2. LiveMetas' = LiveMetas /\ Extends
  BY <1>1 DEF LiveMetas, Extends, Unlocked
<1>3. call'[c].job = "none" /\ Owed(call'[c]) = {}
  BY <1>1 DEF Idle, Owed
<1>4. CASE LinkRaises(c) /\ call[c].job = "insert"
  BY <1>1, <1>3, <1>4, PastKept, QuietKeep
<1>5. CASE Acknowledge(c)
  <2>1. /\ past'.erased = past.erased
        /\ past'.acked = IF call[c].job = "insert" THEN past.acked \cup {call[c].vec} ELSE past.acked
    BY <1>5 DEF Acknowledge, TypeInv, PastInv, PastFields
  <2>2. call[c].at = "done" /\ call[c].job \in {"insert", "delete"}
    BY <1>5, JobOf DEF Acknowledge, At
  <2>3. past'.acked \subseteq past.acked \cup Owed(call[c]) /\ Held(call[c]) = {}
    BY <2>1, <2>2 DEF Owed, Held
  <2>4. QED
    BY <1>1, <1>2, <1>3, <2>1, <2>3, KeepStep
<1>6. CASE EndCompact(c)
  <2>1. call[c].at = "replaying" /\ call[c].missed = {}
    BY <1>6 DEF EndCompact, At
  <2>2. call[c].job = "compact" /\ Held(call[c]) = {}
    BY <2>1, JobOf DEF Held, InHands, Metas
  <2>3. past'.acked = past.acked /\ past'.erased = past.erased
    BY <1>6, PastKept
  <2>4. QED
    BY <1>1, <1>2, <1>3, <2>2, <2>3, KeepStep
<1>7. QED
  BY <1>4, <1>5, <1>6

LEMMA DeleteKeep ==
  ASSUME TypeInv, KeepInv, Calm', NEW c \in Clients, Delete(c)
  PROVE  KeepInv'
<1>1. /\ Unlocked /\ call[c].at = "idle" /\ meta' = meta
      /\ call'[c].at = "done" /\ call'[c].job = "delete"
      /\ \A d \in Clients \ {c} : Stays(d)
  BY DeleteType
<1>2. PICK id \in Live(index) :
        /\ Live(index') = Live(index) \ {id}
        /\ past' = [past EXCEPT !.erased = @ \cup {meta[id]},
                      !.emptied = @ \/ (Compacting /\ Live(index) = {id})]
  BY DeleteType
<1>3. past'.erased = past.erased \cup {meta[id]} /\ past'.acked = past.acked
      /\ past'.emptied = (past.emptied \/ (Compacting /\ Live(index) = {id}))
  <2> DEFINE b == past.emptied \/ (Compacting /\ Live(index) = {id})
  <2>1. past' = [past EXCEPT !.erased = @ \cup {meta[id]}, !.emptied = b]
    BY <1>2
  <2> HIDE DEF b
  <2>2. past'.erased = past.erased \cup {meta[id]} /\ past'.acked = past.acked /\ past'.emptied = b
    BY <2>1 DEF TypeInv, PastInv, PastFields
  <2>3. QED
    BY <2>2 DEF b
<1>4. Compacting => Live(index') # {}
  BY <1>2, <1>3 DEF Calm
<1>5. LiveMetas \subseteq LiveMetas' \cup past'.erased
  BY <1>1, <1>2, <1>3 DEF LiveMetas
<1>6. Owed(call'[c]) = {} /\ Held(call[c]) = {}
  BY <1>1, JobOf DEF Owed, Held
<1>7. Extends
  BY WriteExtends
<1>8. QED
  BY <1>1, <1>3, <1>4, <1>5, <1>6, <1>7, KeepStep

LEMMA BeginKeep ==
  ASSUME TypeInv, KeepInv, Calm', NEW c \in Clients, BeginCompact(c)
  PROVE  KeepInv'
<1>1. /\ UNCHANGED <<index, meta, writer>> /\ call[c].at = "idle"
      /\ call'[c].at = "rebuilding" /\ call'[c].job = "compact"
      /\ call'[c].missed = {} /\ CopyOf(index, call'[c].live)
      /\ \A d \in Clients \ {c} : Stays(d)
      /\ past' = [past EXCEPT !.compactions = @ + 1, !.crossed = @ \/ Compacting]
  BY BeginType DEF storage
<1>2. past'.acked = past.acked /\ past'.erased = past.erased
  BY PastKept
<1>3. ~ Compacting
  <2> DEFINE b == past.crossed \/ Compacting
  <2>1. past' = [past EXCEPT !.compactions = @ + 1, !.crossed = b]
    BY <1>1
  <2> HIDE DEF b
  <2>2. past'.crossed = b
    BY <2>1 DEF TypeInv, PastInv, PastFields
  <2>3. QED
    BY <2>2 DEF Calm, b
<1>4. CompactInv(c)'
  <2>1. \A j \in DOMAIN call'[c].live : /\ call'[c].live[j].id \in DOMAIN meta'
                                        /\ meta'[call'[c].live[j].id] = call'[c].live[j].meta
    BY <1>1 DEF CopyOf
  <2>2. QED
    BY <1>1, <2>1 DEF CompactInv
<1>5. LiveMetas' = LiveMetas /\ Extends
  BY <1>1 DEF LiveMetas, Extends, Unlocked
<1>6. Owed(call'[c]) = {} /\ Held(call[c]) = {}
  BY <1>1, JobOf DEF Owed, Held
<1>7. QED
  BY <1>1, <1>2, <1>3, <1>4, <1>5, <1>6, KeepStep


LEMMA ReinsertKeep ==
  ASSUME TypeInv, KeepInv, NEW c \in Clients, Reinsert(c)
  PROVE  KeepInv'
<1>1. /\ UNCHANGED <<index, meta, writer>>
      /\ call[c].at = "replaying" /\ call[c].job = "compact"
      /\ call'[c].at = "encoded" /\ call'[c].job = "compact"
      /\ \A d \in Clients \ {c} : Stays(d)
      /\ \E row \in call[c].missed : /\ call'[c].vec = row.meta
                                     /\ call'[c].missed = call[c].missed \ {row}
  BY ReinsertType
<1>2. past'.acked = past.acked /\ past'.erased = past.erased
  BY PastKept
<1>3. LiveMetas' = LiveMetas
  BY <1>1 DEF LiveMetas
<1>4. Held(call[c]) \subseteq Held(call'[c]) /\ Owed(call'[c]) = {}
  BY <1>1 DEF Held, InHands, Metas, Owed
<1>5. CompactInv(c)'
  BY <1>1 DEF CompactInv
<1>6. QED
  BY <1>1, <1>2, <1>3, <1>4, <1>5, KeepStep

LEMMA SwapKeep ==
  ASSUME TypeInv, KeepInv, NEW c \in Clients,
         SwapVectors(c) \/ SwapNodes(c) \/ SwapEntry(c) \/ SwapQuantizer(c)
  PROVE  KeepInv'
<1> DEFINE k == call[c]
           l == call'[c]
<1>1. past'.acked = past.acked /\ past'.erased = past.erased
  BY PastKept
<1>2. ASSUME k.job = "compact", l.job = "compact", \A d \in Clients \ {c} : Stays(d),
             l.at # "encoded", Metas(k) \subseteq Metas(l), k.at # "encoded",
             LiveMetas \subseteq LiveMetas' \cup Metas(l), CompactInv(c)'
      PROVE  KeepInv'
  <2>1. Owed(l) = {} /\ Held(k) = Metas(k) /\ Held(l) = Metas(l)
    BY <1>2 DEF Owed, Held, InHands
  <2> HIDE DEF k, l
  <2>2. QED
    BY <1>1, <1>2, <2>1, KeepStep DEF k, l
<1>3. CASE SwapVectors(c)
  <2>1. /\ Unlocked /\ k.at = "rebuilding" /\ k.job = "compact"
        /\ \A d \in Clients \ {c} : Stays(d)
        /\ l.at = "nodes" /\ l.job = "compact" /\ l.live = k.live
        /\ l.missed = Missed(c, quantizer) /\ index'.nodes = index.nodes /\ meta' = meta
    BY <1>3, SwapVectorsType
  <2>2. k.missed = {} /\ \A j \in DOMAIN k.live : meta[k.live[j].id] = k.live[j].meta
    BY <2>1 DEF KeepInv, CompactInv
  <2>3. LiveMetas' = LiveMetas /\ Metas(k) = {}
    BY <2>1, <2>2 DEF LiveMetas, Live, Metas
  <2>4. ASSUME NEW i \in Live(index)
        PROVE  meta[i] \in Copies(l) \cup Metas(l)
    <3>1. CASE \E j \in DOMAIN k.live : k.live[j].id = i
      BY <3>1, <2>1, <2>2 DEF Copies
    <3>2. CASE \A j \in DOMAIN k.live : k.live[j].id # i
      <4> DEFINE row == [vec |-> Value(quantizer, Row(index, i)), meta |-> meta[i]]
      <4>1. row \in Missed(c, quantizer)
        BY <3>2 DEF Missed
      <4>2. row.meta = meta[i]
        OBVIOUS
      <4> HIDE DEF row
      <4>3. QED
        BY <4>1, <4>2, <2>1 DEF Metas
    <3>3. QED
      BY <3>1, <3>2
  <2>5. LiveMetas' \subseteq Copies(l) \cup Metas(l)
    BY <2>3, <2>4 DEF LiveMetas
  <2>6. CompactInv(c)'
    BY <2>1, <2>5 DEF CompactInv
  <2> HIDE DEF k, l
  <2>7. QED
    BY <2>1, <2>3, <2>6, <1>2
<1>4. CASE SwapNodes(c)
  <2> DEFINE new == NewIndex(k.live)
  <2>1. /\ k.job = "compact" /\ l.at \in {"entry", "quantizer"} /\ l.job = "compact"
        /\ l.live = k.live /\ l.missed = k.missed /\ \A d \in Clients \ {c} : Stays(d)
    BY <1>4, SwapMiddleType
  <2>2. /\ k.at = "nodes" /\ index' = [index EXCEPT !.nodes = new.nodes, !.order = new.order]
        /\ meta' = Relabelled(k.live)
    BY <1>4 DEF SwapNodes, At, Relabelled
  <2>3. /\ Live(new) = 0..(Len(k.live) - 1) /\ k.live \in Seq(Copied)
    BY <2>2, SwapFacts DEF Swaps
  <2>4. IsRecord(index)
    BY DEF TypeInv, IndexInv, Shelved
  <2>5. LiveMetas \subseteq Copies(k) \cup Metas(k)
    BY <2>1, <2>2 DEF KeepInv, CompactInv
  <2>6. CompactInv(c)'
    BY <2>1 DEF CompactInv
  <2> HIDE DEF k, l, new
  <2>7. index'.nodes = new.nodes
    BY <2>2, <2>4 DEF IsRecord, Fields
  <2>8. Live(index') = 0..(Len(k.live) - 1)
    BY <2>3, <2>7 DEF Live
  <2>9. Copies(k) \subseteq LiveMetas'
    <3>1. SUFFICES ASSUME NEW j \in DOMAIN k.live
                   PROVE  k.live[j].meta \in LiveMetas'
      BY DEF Copies
    <3>2. j \in 1..Len(k.live) /\ Len(k.live) \in Nat
      BY <2>3
    <3>3. j - 1 \in 0..(Len(k.live) - 1) /\ (j - 1) + 1 = j
      BY <3>2
    <3>4. meta'[j - 1] = k.live[j].meta
      BY <3>3, <2>2 DEF Relabelled
    <3>5. QED
      BY <3>3, <3>4, <2>8 DEF LiveMetas
  <2>10. Metas(l) = Metas(k)
    BY <2>1 DEF Metas
  <2>11. LiveMetas \subseteq LiveMetas' \cup Metas(l)
    BY <2>5, <2>9, <2>10
  <2>12. QED
    BY <2>1, <2>2, <2>6, <2>10, <2>11, <1>2
<1>5. CASE SwapEntry(c) \/ SwapQuantizer(c)
  <2>1. /\ k.job = "compact" /\ l.job = "compact" /\ l.at \in {"entry", "quantizer", "replaying"}
        /\ l.missed = k.missed /\ \A d \in Clients \ {c} : Stays(d)
        /\ k.at # "encoded" /\ meta' = meta /\ index'.nodes = index.nodes
    <3>1. CASE SwapEntry(c)
      <4>1. k.at = "entry"
        BY <3>1 DEF SwapEntry, At
      <4>2. QED
        BY <3>1, <4>1, SwapMiddleType
    <3>2. CASE SwapQuantizer(c)
      BY <3>2, SwapQuantizerType
    <3>3. QED
      BY <1>5, <3>1, <3>2
  <2>2. LiveMetas' = LiveMetas /\ Metas(l) = Metas(k)
    BY <2>1 DEF LiveMetas, Live, Metas
  <2>3. CompactInv(c)'
    BY <2>1 DEF CompactInv
  <2> HIDE DEF k, l
  <2>4. QED
    BY <2>1, <2>2, <2>3, <1>2
<1>6. QED
  BY <1>3, <1>4, <1>5

LEMMA InitKeep ==
  ASSUME Init
  PROVE  KeepInv
<1>1. \A c \in Clients : call[c].job = "none" /\ Owed(call[c]) = {}
  BY DEF Init, Idle, Owed
<1>2. past.acked = {}
  BY DEF Init
<1>3. Promised = {}
  BY <1>1, <1>2, PromisedAndHeld
<1>4. QED
  BY <1>1, <1>3 DEF KeepInv
-----------------------------------------------------------------------------
(* The invariant, and what follows from it                                 *)

LEMMA InitIInv == Init => IInv
BY InitType, InitData, InitRead, InitKeep DEF IInv

LEMMA ClientStep ==
  ASSUME IInv, NEW c \in Clients,
         \/ FitQuantizer(c) \/ Insert(c) \/ ReserveNode(c) \/ LinkInsert(c) \/ LinkRaises(c)
         \/ Acknowledge(c) \/ Delete(c) \/ BeginCompact(c) \/ SwapVectors(c) \/ SwapNodes(c)
         \/ SwapEntry(c) \/ SwapQuantizer(c) \/ CompactRaises(c) \/ Reinsert(c) \/ LinkMissed(c)
         \/ EndCompact(c) \/ Search(c) \/ ReadRows(c) \/ DecodeRows(c) \/ Expand(c) \/ Answer(c)
         \/ SearchRaises(c) \/ EndSearch(c)
  PROVE  IInv'
<1>1. TypeInv /\ DataInv /\ ReadInv
  BY DEF IInv
<1>2. TypeInv'
  BY <1>1, FitType, InsertType, ReserveType, LinkType, EndsType, DeleteType, BeginType,
     SwapVectorsType, SwapMiddleType, SwapQuantizerType, LeavesType, ReinsertType, SearchType,
     SearchStepsType
<1>3. DataInv'
  BY <1>1, PrivateData, InsertData, ReserveData, LinkData, DeleteData, FitData, ReinsertData, SwapData
<1>4. ReadInv'
  BY <1>1, SearchRead, LeavesRead, WriteRead, ExchangeRead
<1>5. ASSUME Calm'
      PROVE  KeepInv'
  <2>1. Calm /\ past.restarts = 0
    BY <1>1, <1>5, CalmBefore
  <2>2. KeepInv
    BY <2>1 DEF IInv
  <2>3. (LinkRaises(c) => call[c].job = "insert") /\ ~ CompactRaises(c)
    BY <1>1, <2>1, <2>2, NothingRaises
  <2>4. QED
    BY <1>1, <1>5, <2>2, <2>3, SearchKeep, InsertKeep, ReserveKeep, LinkKeep, EndsKeep, DeleteKeep,
       BeginKeep, ReinsertKeep, SwapKeep
<1>6. QED
  BY <1>2, <1>3, <1>4, <1>5 DEF IInv

LEMMA RestartStep == IInv /\ Restart => IInv'
<1> SUFFICES ASSUME IInv, Restart
             PROVE  IInv'
  OBVIOUS
<1>1. TypeInv' /\ DataInv' /\ ReadInv'
  BY RestartType, RestartData, RestartRead DEF IInv
<1>2. past'.restarts = past.restarts + 1 /\ past.restarts \in Nat
  BY RestartType DEF IInv, TypeInv, PastInv
<1>3. ~ Calm'
  BY <1>2 DEF Calm
<1>4. QED
  BY <1>1, <1>3 DEF IInv

LEMMA StutterStep == IInv /\ UNCHANGED vars => IInv'
<1> SUFFICES ASSUME IInv, UNCHANGED vars
             PROVE  IInv'
  OBVIOUS
<1>1. UNCHANGED <<index, meta, quantized, quantizer, writer, disk, writes, up, call, past>>
  BY DEF vars
<1>2. TypeInv'
  BY <1>1 DEF IInv, TypeInv, PastInv, QuantizerInv, IndexInv, DiskInv, SwapInv, CallInv, Swapped,
     Unlocked
<1>3. DataInv'
  BY <1>1 DEF IInv, DataInv, RowsRight, HeldRight, Right, Value, Means, Unlocked
<1>4. ReadInv'
  BY <1>1 DEF IInv, ReadInv, FittedInv, SearchInv, Right, Unlocked
<1>5. Calm' => KeepInv'
  BY <1>1 DEF IInv, Calm, KeepInv, Promised, LiveMetas, InCompaction, InHands, Metas, CompactInv, Copies
<1>6. QED
  BY <1>2, <1>3, <1>4, <1>5 DEF IInv

LEMMA NextIInv == IInv /\ [Next]_vars => IInv'
<1>1. ASSUME IInv, Next
      PROVE  IInv'
  <2>1. CASE Restart
    BY <1>1, <2>1, RestartStep
  <2>2. CASE ~ Restart
    BY <1>1, <2>2, ClientStep DEF Next
  <2>3. QED
    BY <2>1, <2>2
<1>2. QED
  BY <1>1, StutterStep

THEOREM Invariance == Spec => []IInv
<1>1. QED
  BY InitIInv, NextIInv, PTL DEF Spec
-----------------------------------------------------------------------------
(* Every field of the index, of its snapshot and of the requests has the   *)
(* type that the code gives it: rows are bytes, the snapshot counter stays *)
(* within snapshot_every_n_writes, the lock covers a swap and nothing else.*)
THEOREM TypeCorrect == Spec => []TypeOK
<1>1. IInv => TypeOK
  <2> SUFFICES ASSUME IInv
               PROVE  TypeOK
    OBVIOUS
  <2>1. Shelved(index) /\ Shelved(disk.saved)
    BY RowsOfUsable DEF IInv, TypeInv, IndexInv, DiskInv
  <2>2. \A ix \in {index, disk.saved} :
          /\ DOMAIN ix.nodes \subseteq Nat
          /\ \A i \in DOMAIN ix.vectors : ix.vectors[i] \in Codes
          /\ ix.entryPoint \in Nat \cup {None} /\ ix.nextId \in Nat
    BY <2>1 DEF Shelved
  <2>3. DOMAIN meta = DOMAIN index.nodes /\ \A i \in DOMAIN meta : meta[i] \in Values
    BY DEF IInv, TypeInv, IndexInv, PastInv
  <2>4. /\ quantized \in BOOLEAN /\ up \in BOOLEAN
        /\ quantizer.fitted => quantized /\ quantizer.min <= quantizer.max
        /\ quantizer.clipped \in 0..quantizer.total
        /\ writes \in 0..SnapshotEvery
    <3>1. IsQuantizer(quantizer) /\ QuantizerInv
      BY DEF IInv, TypeInv, QuantizerInv
    <3>2. quantizer.clipped \in Nat /\ quantizer.total \in Nat /\ quantizer.clipped <= quantizer.total
      BY <3>1 DEF IsQuantizer
    <3>3. QED
      BY <3>1, <3>2 DEF QuantizerInv, IsQuantizer
  <2>5. /\ writer \in Clients \cup {None}
        /\ writer # None => call[writer].at \in {"nodes", "entry", "quantizer"}
    BY DEF IInv, TypeInv, SwapInv, Swaps
  <2>6. ASSUME NEW c \in Clients
        PROVE  /\ call[c].at \in {"idle", "encoded", "reserved", "done", "rebuilding", "nodes",
                                  "entry", "quantizer", "replaying", "reading", "decoding",
                                  "expanding", "answering", "answered"}
               /\ call[c].job \in {"none", "insert", "delete", "compact", "search"}
               /\ call[c].id \in Nat /\ call[c].vec \in Values \cup {Zero} /\ call[c].row \in Codes
    <3>1. CallInv(c)
      BY DEF IInv, TypeInv
    <3>2. [at |-> call[c].at, job |-> call[c].job] \in Jobs
      BY <3>1 DEF CallInv
    <3>3. QED
      BY <3>1, <3>2 DEF CallInv, Jobs, Swaps, Searches
  <2>7. QED
    BY <2>2, <2>3, <2>4, <2>5, <2>6 DEF TypeOK
<1>2. QED
  BY <1>1, Invariance, PTL

(* Outside of a swap every live row decodes to the vector that was         *)
(* inserted (core/index.py:161-183, 489-540), however inserts, fits,       *)
(* deletes and compactions interleave, with the exceptions that `spoilt`   *)
(* names.                                                                  *)
THEOREM RowsReadable == Spec => []RowsAreReadable
<1>1. IInv => RowsAreReadable
  <2> SUFFICES ASSUME IInv, Unlocked, NEW i \in Live(index)
               PROVE  meta[i] \in past.spoilt \/ Value(quantizer, Row(index, i)) = meta[i]
    BY DEF RowsAreReadable
  <2>1. i \in DOMAIN meta /\ Row(index, i) = index.vectors[i]
    BY RowsOfUsable DEF IInv, TypeInv, IndexInv
  <2>2. Right(Value(quantizer, index.vectors[i]), meta[i])
    BY <2>1 DEF IInv, DataInv, RowsRight
  <2>3. QED
    BY <2>1, <2>2 DEF Right
<1>2. QED
  BY <1>1, Invariance, PTL

(* The quantizer that _compact_and_swap fits to the rows it has copied     *)
(* (core/index.py:489-513) clips none of them, reads each one back as it   *)
(* was, and does not call for another fit.                                 *)
THEOREM RebuildLosesNothing == Spec => []RebuildIsLossless
<1>1. IInv => RebuildIsLossless
  <2> SUFFICES ASSUME IInv, NEW c \in Clients, call[c].at = "rebuilding", quantized
               PROVE  LET q == NewQuantizer(call[c].live) IN
                      /\ q.clipped = 0 /\ ~ ShouldRefit(q)
                      /\ \A k \in DOMAIN call[c].live :
                           Decode(q, Encode(q, call[c].live[k].vec)) = call[c].live[k].vec
    BY DEF RebuildIsLossless
  <2> DEFINE q == NewQuantizer(call[c].live)
  <2>1. /\ QuantizerInv /\ call[c].live \in Seq(Copied) /\ past.compactions \in 0..MaxCompactions
        /\ \A i, j \in DOMAIN call[c].live :
             12 * (call[c].live[i].vec - call[c].live[j].vec) <= Widest[past.compactions]
    BY DEF IInv, TypeInv, CallInv, PastInv
  <2>2. /\ IsQuantizer(q) /\ q.clipped = 0
        /\ \A k \in DOMAIN call[c].live :
             Decode(q, Encode(q, call[c].live[k].vec)) = call[c].live[k].vec
    BY <2>1, NewQuantizerIsExact
  <2> HIDE DEF q
  <2>3. ~ ShouldRefit(q)
    BY <2>2 DEF ShouldRefit, IsQuantizer
  <2>4. QED
    BY <2>2, <2>3 DEF q
<1>2. QED
  BY <1>1, Invariance, PTL

(* A search without the lock (core/index.py:403-440) answers with          *)
(* the distances of the vectors that its metadata belong to, and raises    *)
(* nothing, as long as no compaction and no fit exchanges the index or its *)
(* quantizer under it.                                                     *)
THEOREM SearchSound == Spec => []SearchIsSound
<1>1. IInv => SearchIsSound
  <2> SUFFICES ASSUME IInv
               PROVE  SearchIsSound
    OBVIOUS
  <2>1. ~ past.broken /\ \A c \in Clients : SearchInv(c) /\ CallInv(c)
    BY DEF IInv, ReadInv, TypeInv
  <2>2. ASSUME NEW c \in Clients, At(c, "answered"), ~ call[c].mixed, NEW hit \in call[c].hits
        PROVE  hit.meta \in past.spoilt \/ hit.distanceOf = hit.meta
    <3>1. call[c].job = "search"
      BY <2>2, JobOf DEF At, IInv, Searches
    <3>2. Right(hit.distanceOf, hit.meta)
      BY <2>1, <2>2, <3>1 DEF SearchInv
    <3>3. QED
      BY <3>2 DEF Right
  <2>3. QED
    BY <2>1, <2>2 DEF SearchIsSound
<1>2. QED
  BY <1>1, Invariance, PTL

(* An insert that was acknowledged, and not deleted, is in the graph or    *)
(* with the thread that compacts (core/index.py:489-540),                  *)
(* unless one of the four accidents happened that the property names.      *)
THEOREM InsertsKept == Spec => []CompactionKeepsInserts
<1>1. IInv => CompactionKeepsInserts
  <2> SUFFICES ASSUME IInv, Calm
               PROVE  past.acked \ past.erased \subseteq
                        {meta[i] : i \in Live(index)} \cup
                        UNION {{call[c].vec} \cup {row.meta : row \in call[c].missed} : c \in Clients}
    BY DEF CompactionKeepsInserts, Calm
  <2>1. ASSUME NEW v \in past.acked \ past.erased
        PROVE  v \in LiveMetas \/ \E c \in Clients : v \in {call[c].vec} \cup Metas(call[c])
    <3>1. v \in LiveMetas \/ v \in InCompaction
      BY <2>1 DEF IInv, KeepInv, Promised
    <3>2. v \in InCompaction => \E c \in Clients : v \in InHands(call[c])
      BY DEF InCompaction
    <3>3. QED
      BY <3>1, <3>2 DEF InHands
  <2>2. QED
    BY <2>1 DEF LiveMetas, Metas
<1>2. QED
  BY <1>1, Invariance, PTL
=============================================================================
