-------------------------- MODULE DeviceStreamProofs --------------------------
(***************************************************************************)
(* The callback's arithmetic keeps its promises for every rate, number of  *)
(* channels, length of a callback and sample value.                        *)
(*                                                                         *)
(* What a sum over a frame is takes an induction on its length: a set of   *)
(* numbers that has 0 and, with each, the next is all of Nat (Induction).  *)
(***************************************************************************)
EXTENDS DeviceStream, SequenceTheorems, WellFoundedInduction, TLAPS

-----------------------------------------------------------------------------
(* Induction. *)

\* A set of numbers has a least one.
LEMMA Least ==
  ASSUME NEW T \in SUBSET Nat, T # {}
  PROVE  \E x \in T : \A y \in T : ~(y < x)
  <1>1. \E x \in T : \A y \in T : ~(<<y, x>> \in OpToRel(<, Nat))
    BY NatLessThanWellFounded, WFMin
  <1>2. QED
    BY <1>1 DEF OpToRel

\* What holds up to 0, and up to n + 1 if up to n < top, holds up to top.
LEMMA Induction ==
  ASSUME NEW top \in Nat, NEW Good \in SUBSET Nat, 0 \in Good,
         \A n \in Nat : n \in Good /\ n < top => n + 1 \in Good
  PROVE  top \in Good
  <1>1. SUFFICES ASSUME top \notin Good PROVE FALSE
    OBVIOUS
  <1>2. PICK x \in Nat \ Good : \A y \in Nat \ Good : ~(y < x)
    BY <1>1, Least
  <1>3. x - 1 \in Nat /\ x - 1 < x /\ (x - 1) + 1 = x
    BY <1>2
  <1>4. x - 1 < top
    BY <1>1, <1>2
  <1>5. QED
    BY <1>2, <1>3, <1>4

-----------------------------------------------------------------------------
(* Divisions. *)

\* Order is that of multiples.
LEMMA Times ==
  /\ \A a, b, n \in Int : n >= 0 /\ a <= b => n * a <= n * b
  /\ \A a, b, n \in Int : n > 0 /\ n * a < n * b => a < b
  <1>1. \A a, b, n \in Int : n >= 0 /\ a <= b => n * a <= n * b
    OBVIOUS
  <1>2. \A a, b, n \in Int : n > 0 /\ n * a < n * b => a < b
    OBVIOUS
  <1>3. QED
    BY <1>1, <1>2

\* \div rounds down.
LEMMA Floor ==
  ASSUME NEW a \in Int, NEW n \in Nat, n > 0
  PROVE  /\ a \div n \in Int
         /\ n * (a \div n) <= a
         /\ a < n * (a \div n) + n
  OBVIOUS

\* A quotient rounded down stays within bounds that are whole numbers.
LEMMA FloorBounds ==
  ASSUME NEW a \in Int, NEW n \in Nat, n > 0, NEW lo \in Int, NEW hi \in Int,
         n * lo <= a, a < n * hi + n
  PROVE  a \div n \in Int /\ lo <= a \div n /\ a \div n <= hi
  OBVIOUS

\* A quotient of natural numbers is one.
LEMMA FloorNat ==
  ASSUME NEW a \in Nat, NEW n \in Nat, n > 0
  PROVE  a \div n \in Int /\ 0 <= a \div n
  OBVIOUS

\* Rounding up loses nothing and adds less than one.
LEMMA Ceiling ==
  ASSUME NEW a \in Nat, NEW n \in Nat, n > 0
  PROVE  /\ CeilDiv(a, n) \in Nat
         /\ CeilDiv(a, n) * n >= a
         /\ CeilDiv(a, n) * n < a + n
  <1>1. (a + n - 1) \div n \in Int /\ n * ((a + n - 1) \div n) <= a + n - 1
        /\ a + n - 1 < n * ((a + n - 1) \div n) + n
    BY Floor
  <1>2. 0 <= (a + n - 1) \div n
    BY FloorBounds
  <1>3. QED
    BY <1>1, <1>2 DEF CeilDiv

\* An average lies between bounds of what is averaged.
LEMMA TruncBounds ==
  ASSUME NEW a \in Int, NEW n \in Nat, n > 0, NEW lo \in Int, NEW hi \in Int,
         n * lo <= a, a <= n * hi
  PROVE  TruncDiv(a, n) \in Int /\ lo <= TruncDiv(a, n) /\ TruncDiv(a, n) <= hi
  <1>1. CASE a >= 0
    BY <1>1, FloorBounds DEF TruncDiv
  <1>2. CASE a < 0
    <2>1. n * (-hi) <= -a /\ -a < n * (-lo) + n
      OBVIOUS
    <2>2. (-a) \div n \in Int /\ -hi <= (-a) \div n /\ (-a) \div n <= -lo
      BY <2>1, FloorBounds
    <2>3. QED
      BY <1>2, <2>2 DEF TruncDiv
  <1>3. QED
    BY <1>1, <1>2

\* f64::round gives an integer.
LEMMA RoundType ==
  ASSUME NEW a \in Int, NEW n \in Nat, n > 0
  PROVE  RoundDiv(a, n) \in Int
  BY DEF RoundDiv

\* So does what rounding makes of one.
LEMMA RoundBounds ==
  ASSUME NEW a \in Int, NEW n \in Nat, n > 0, NEW lo \in Int, NEW hi \in Int,
         n * lo <= a, a <= n * hi
  PROVE  lo <= RoundDiv(a, n) /\ RoundDiv(a, n) <= hi
  <1>1. 2 * n \in Nat /\ 2 * n > 0
    OBVIOUS
  <1>2. CASE a >= 0
    <2>1. (2 * n) * lo <= 2 * a + n /\ 2 * a + n < (2 * n) * hi + 2 * n
      OBVIOUS
    <2>2. QED
      BY <1>1, <1>2, <2>1, FloorBounds DEF RoundDiv
  <1>3. CASE a < 0
    <2>1. (2 * n) * (-hi) <= n - 2 * a /\ n - 2 * a < (2 * n) * (-lo) + 2 * n
      OBVIOUS
    <2>2. /\ (n - 2 * a) \div (2 * n) \in Int
          /\ -hi <= (n - 2 * a) \div (2 * n) /\ (n - 2 * a) \div (2 * n) <= -lo
      BY <1>1, <2>1, FloorBounds
    <2>3. QED
      BY <1>3, <2>2 DEF RoundDiv
  <1>4. QED
    BY <1>2, <1>3

\* Division is monotone, and so is rounding.
LEMMA FloorMonotone ==
  ASSUME NEW a \in Int, NEW b \in Int, NEW n \in Nat, n > 0, a <= b
  PROVE  a \div n <= b \div n
  OBVIOUS

\* Rounding is monotone.
LEMMA RoundMonotone ==
  ASSUME NEW a \in Int, NEW b \in Int, NEW n \in Nat, n > 0, a <= b
  PROVE  RoundDiv(a, n) <= RoundDiv(b, n)
  <1>1. 2 * n \in Nat /\ 2 * n > 0
    OBVIOUS
  <1>2. CASE a >= 0
    <2>1. (2 * a + n) \div (2 * n) <= (2 * b + n) \div (2 * n)
      BY <1>1, FloorMonotone
    <2>2. QED
      BY <1>2, <2>1 DEF RoundDiv
  <1>3. CASE b < 0
    <2>1. (n - 2 * b) \div (2 * n) <= (n - 2 * a) \div (2 * n)
      BY <1>1, FloorMonotone
    <2>2. QED
      BY <1>1, <1>3, <2>1 DEF RoundDiv
  <1>4. CASE a < 0 /\ b >= 0
    <2>1. 0 <= (n - 2 * a) \div (2 * n) /\ 0 <= (2 * b + n) \div (2 * n)
      BY <1>1, <1>4, FloorBounds
    <2>2. QED
      BY <1>1, <1>4, <2>1 DEF RoundDiv
  <1>5. QED
    BY <1>2, <1>3, <1>4

\* A fraction is what it is when both parts are scaled.
LEMMA FloorScaled ==
  ASSUME NEW a \in Int, NEW n \in Nat, n > 0, NEW c \in Nat, c > 0
  PROVE  (c * a) \div (c * n) = a \div n
  <1> DEFINE q == a \div n
  <1>1. q \in Int /\ n * q <= a /\ a < n * q + n
    BY Floor
  <1> HIDE DEF q
  <1>2. c * n \in Nat /\ c * n > 0 /\ c * a \in Int
    OBVIOUS
  <1>3. (c * n) * q <= c * a /\ c * a < (c * n) * q + c * n
    BY <1>1
  <1>4. (c * a) \div (c * n) = q
    BY <1>1, <1>2, <1>3, FloorBounds
  <1>5. QED
    BY <1>4 DEF q

\* A fraction rounds as it does when it is expanded.
LEMMA RoundScaled ==
  ASSUME NEW a \in Int, NEW n \in Nat, n > 0, NEW c \in Nat, c > 0
  PROVE  RoundDiv(c * a, c * n) = RoundDiv(a, n)
  <1>1. 2 * n \in Nat /\ 2 * n > 0 /\ 2 * a + n \in Int /\ n - 2 * a \in Int
    OBVIOUS
  <1>2. (c * (2 * a + n)) \div (c * (2 * n)) = (2 * a + n) \div (2 * n)
    BY <1>1, FloorScaled
  <1>3. (c * (n - 2 * a)) \div (c * (2 * n)) = (n - 2 * a) \div (2 * n)
    BY <1>1, FloorScaled
  <1>4. /\ c * (2 * a + n) = 2 * (c * a) + c * n
        /\ c * (n - 2 * a) = c * n - 2 * (c * a)
        /\ c * (2 * n) = 2 * (c * n)
        /\ c * a >= 0 <=> a >= 0
    OBVIOUS
  <1>5. QED
    BY <1>2, <1>3, <1>4 DEF RoundDiv

-----------------------------------------------------------------------------
(* Sums over a frame. *)

\* The sums SumFrom goes through.
Sums(f, offset) ==
  CHOOSE sum : sum = [n \in 0..Len(f) |->
                        IF n = 0 THEN 0 ELSE sum[n - 1] + (f[n] - offset)]

\* The sums of the first samples of a frame, 0 of them, 1, and so on, exist.
LEMMA SumsExist ==
  ASSUME NEW f \in Seq(Int), NEW offset \in Int
  PROVE  \E sum \in [0..Len(f) -> Int] :
           sum[0] = 0 /\ \A n \in 1..Len(f) : sum[n] = sum[n - 1] + (f[n] - offset)
  <1> DEFINE Partial(k) ==
               \E sum \in [0..k -> Int] :
                 sum[0] = 0 /\ \A n \in 1..k : sum[n] = sum[n - 1] + (f[n] - offset)
             Good == {k \in Nat : k <= Len(f) => Partial(k)}
  <1>1. Len(f) \in Nat
    OBVIOUS
  <1>2. 0 \in Good
    <2>1. [n \in 0..0 |-> 0] \in [0..0 -> Int] /\ [n \in 0..0 |-> 0][0] = 0
      OBVIOUS
    <2>2. \A n \in 1..0 : FALSE
      OBVIOUS
    <2>3. Partial(0)
      BY <2>1, <2>2
    <2>4. QED
      BY <2>3
  <1>3. ASSUME NEW k \in Nat, k \in Good, k < Len(f)
        PROVE  k + 1 \in Good
    <2>1. PICK sum \in [0..k -> Int] :
            sum[0] = 0 /\ \A n \in 1..k : sum[n] = sum[n - 1] + (f[n] - offset)
      BY <1>1, <1>3
    <2> DEFINE more == [n \in 0..(k + 1) |->
                          IF n = k + 1 THEN sum[k] + (f[k + 1] - offset) ELSE sum[n]]
    <2>2. f[k + 1] \in Int /\ sum[k] \in Int
      BY <1>1, <1>3, <2>1
    <2>3. more \in [0..(k + 1) -> Int] /\ more[0] = 0
      BY <2>1, <2>2
    <2>4. ASSUME NEW n \in 1..(k + 1)
          PROVE  more[n] = more[n - 1] + (f[n] - offset)
      <3>1. CASE n = k + 1
        BY <3>1
      <3>2. CASE n # k + 1
        <4>1. n \in 1..k /\ n \in 0..(k + 1) /\ n - 1 \in 0..(k + 1) /\ n - 1 # k + 1
          BY <3>2
        <4>2. QED
          BY <2>1, <3>2, <4>1
      <3>3. QED
        BY <3>1, <3>2
    <2> HIDE DEF more
    <2>5. \A n \in 1..(k + 1) : more[n] = more[n - 1] + (f[n] - offset)
      BY <2>4
    <2>6. Partial(k + 1)
      BY <2>3, <2>5, Zenon
    <2> HIDE DEF Partial
    <2>7. QED
      BY <2>6
  <1> HIDE DEF Good
  <1>4. Len(f) \in Good
    <2>1. Good \in SUBSET Nat
      BY DEF Good
    <2>2. QED
      BY <1>1, <1>2, <1>3, <2>1, Induction
  <1>5. QED
    BY <1>1, <1>4 DEF Good

\* So Sums are these, and SumFrom is their last.
LEMMA SumSteps ==
  ASSUME NEW f \in Seq(Int), NEW offset \in Int
  PROVE  /\ Sums(f, offset)[0] = 0
         /\ \A n \in 1..Len(f) :
              Sums(f, offset)[n] = Sums(f, offset)[n - 1] + (f[n] - offset)
         /\ SumFrom(f, offset) = Sums(f, offset)[Len(f)]
  <1>1. PICK sum \in [0..Len(f) -> Int] :
          sum[0] = 0 /\ \A n \in 1..Len(f) : sum[n] = sum[n - 1] + (f[n] - offset)
    BY SumsExist
  <1>2. Len(f) \in Nat
    OBVIOUS
  <1>3. sum = [n \in 0..Len(f) |-> IF n = 0 THEN 0 ELSE sum[n - 1] + (f[n] - offset)]
    BY <1>1, <1>2
  <1> DEFINE g == Sums(f, offset)
  <1>4. g = [n \in 0..Len(f) |-> IF n = 0 THEN 0 ELSE g[n - 1] + (f[n] - offset)]
    BY <1>3 DEF Sums
  <1>5. SumFrom(f, offset) = g[Len(f)]
    BY DEF SumFrom, Sums
  <1> HIDE DEF g
  <1>6. g[0] = 0 /\ \A n \in 1..Len(f) : g[n] = g[n - 1] + (f[n] - offset)
    <2>1. \A n \in 0..Len(f) : g[n] = IF n = 0 THEN 0 ELSE g[n - 1] + (f[n] - offset)
      BY <1>4, Zenon
    <2>2. 0 \in 0..Len(f) /\ \A n \in 1..Len(f) : n \in 0..Len(f) /\ n # 0
      BY <1>2
    <2>3. QED
      BY <2>1, <2>2, Zenon
  <1>7. QED
    BY <1>5, <1>6 DEF g

\* A sum lies between bounds of what is added, as often as there is one.
LEMMA SumBounds ==
  ASSUME NEW f \in Seq(Int), NEW offset \in Int, NEW lo \in Int, NEW hi \in Int,
         \A i \in 1..Len(f) : lo <= f[i] - offset /\ f[i] - offset <= hi
  PROVE  /\ SumFrom(f, offset) \in Int
         /\ Len(f) * lo <= SumFrom(f, offset) /\ SumFrom(f, offset) <= Len(f) * hi
  <1> DEFINE g == Sums(f, offset)
             Good == {k \in Nat : k <= Len(f) =>
                        g[k] \in Int /\ k * lo <= g[k] /\ g[k] <= k * hi}
  <1>1. /\ g[0] = 0
        /\ \A n \in 1..Len(f) : g[n] = g[n - 1] + (f[n] - offset)
        /\ SumFrom(f, offset) = g[Len(f)]
        /\ Len(f) \in Nat
    BY SumSteps
  <1> HIDE DEF g
  <1>2. 0 \in Good
    BY <1>1
  <1>3. ASSUME NEW k \in Nat, k \in Good, k < Len(f)
        PROVE  k + 1 \in Good
    <2> DEFINE x == f[k + 1] - offset
    <2>1. g[k + 1] = g[k] + x
      <3>1. k + 1 \in 1..Len(f) /\ (k + 1) - 1 = k
        BY <1>1, <1>3
      <3>2. QED
        BY <1>1, <3>1
    <2>2. x \in Int /\ lo <= x /\ x <= hi
      BY <1>1, <1>3
    <2> HIDE DEF x
    <2>3. g[k] \in Int /\ k * lo <= g[k] /\ g[k] <= k * hi
      BY <1>1, <1>3
    <2>4. (k + 1) * lo = k * lo + lo /\ (k + 1) * hi = k * hi + hi
      OBVIOUS
    <2>5. k * lo \in Int /\ k * hi \in Int
      OBVIOUS
    <2>6. g[k + 1] \in Int /\ (k + 1) * lo <= g[k + 1] /\ g[k + 1] <= (k + 1) * hi
      BY <2>1, <2>2, <2>3, <2>4, <2>5
    <2>7. QED
      BY <2>6
  <1> HIDE DEF Good
  <1>4. Len(f) \in Good
    <2>1. Good \in SUBSET Nat
      BY DEF Good
    <2>2. QED
      BY <1>1, <1>2, <1>3, <2>1, Induction
  <1>5. QED
    BY <1>1, <1>4 DEF Good

\* Some data have a lowest and a highest value.
LEMMA Extremes ==
  ASSUME NEW f \in Seq(Int), f # <<>>
  PROVE  \E lo, hi \in 1..Len(f) : \A i \in 1..Len(f) : f[lo] <= f[i] /\ f[i] <= f[hi]
  <1> DEFINE Known(k) == \E lo, hi \in 1..Len(f) :
                           \A i \in 1..(k + 1) : f[lo] <= f[i] /\ f[i] <= f[hi]
             Good == {k \in Nat : k <= Len(f) - 1 => Known(k)}
  <1>1. Len(f) \in Nat /\ Len(f) > 0 /\ Len(f) - 1 \in Nat /\ (Len(f) - 1) + 1 = Len(f)
    BY EmptySeq
  <1>2. \A i \in 1..Len(f) : f[i] \in Int
    BY ElementOfSeq
  <1>3. 0 \in Good
    <2>1. 1 \in 1..Len(f) /\ 1..(0 + 1) = {1} /\ f[1] \in Int
      BY <1>1, <1>2
    <2>2. Known(0)
      BY <2>1
    <2>3. QED
      BY <2>2
  <1>4. ASSUME NEW k \in Nat, k \in Good, k < Len(f) - 1
        PROVE  k + 1 \in Good
    <2>1. PICK lo \in 1..Len(f), hi \in 1..Len(f) :
            \A i \in 1..(k + 1) : f[lo] <= f[i] /\ f[i] <= f[hi]
      BY <1>1, <1>4
    <2> DEFINE n == k + 2
               low == IF f[n] < f[lo] THEN n ELSE lo
               high == IF f[n] > f[hi] THEN n ELSE hi
    <2>2. n \in 1..Len(f) /\ n = (k + 1) + 1
      BY <1>1, <1>4
    <2>3. f[n] \in Int /\ f[lo] \in Int /\ f[hi] \in Int
      BY <1>2, <2>2
    <2>4. /\ low \in 1..Len(f) /\ high \in 1..Len(f)
          /\ f[low] <= f[n] /\ f[n] <= f[high]
          /\ f[low] <= f[lo] /\ f[hi] <= f[high]
          /\ f[low] \in Int /\ f[high] \in Int
      BY <2>2, <2>3, SMTT(30)
    <2> HIDE DEF low, high
    <2>5. ASSUME NEW i \in 1..(k + 1 + 1)
          PROVE  f[low] <= f[i] /\ f[i] <= f[high]
      <3>1. CASE i = n
        BY <2>4, <3>1
      <3>2. CASE i # n
        <4>1. i \in 1..(k + 1) /\ i \in 1..Len(f)
          BY <1>1, <1>4, <3>2
        <4>2. f[lo] <= f[i] /\ f[i] <= f[hi] /\ f[i] \in Int
          BY <1>2, <2>1, <4>1
        <4> DEFINE v == f[i]
                   a == f[lo]
                   b == f[hi]
                   al == f[low]
                   bl == f[high]
        <4>3. /\ al <= a /\ a <= v /\ v <= b /\ b <= bl
              /\ al \in Int /\ a \in Int /\ v \in Int /\ b \in Int /\ bl \in Int
          BY <2>3, <2>4, <4>2
        <4> HIDE DEF v, a, b, al, bl
        <4>4. al <= v /\ v <= bl
          BY <4>3
        <4>5. QED
          BY <4>4 DEF v, al, bl
      <3>3. QED
        BY <3>1, <3>2
    <2>6. \A i \in 1..(k + 1 + 1) : f[low] <= f[i] /\ f[i] <= f[high]
      BY <2>5
    <2>7. Known(k + 1)
      BY <2>4, <2>6, Zenon
    <2> HIDE DEF Known
    <2>8. QED
      BY <2>7
  <1> HIDE DEF Good
  <1>5. Len(f) - 1 \in Good
    <2>1. Good \in SUBSET Nat
      BY DEF Good
    <2>2. QED
      BY <1>1, <1>3, <1>4, <2>1, Induction
  <1>6. QED
    BY <1>1, <1>5 DEF Good

-----------------------------------------------------------------------------
(* Levels. *)

\* What one sample of a device is worth.
Worth(x, d) ==
  IF d.format = "f32" THEN Clamp(RoundDiv(x * 32767, F32Unit)) ELSE x - Offset(d.format)

Devices == [format : Format, channels : Channels, rate : SourceRate]

\* (The prover knows an interval by its members only if its bounds have names.)
LEMMA SixteenBits ==
  ASSUME NEW x \in Int
  PROVE  x \in Int16 <=> -32768 <= x /\ x <= 32767
  <1> DEFINE lo == -32768
             hi == 32767
  <1>1. lo \in Int /\ hi \in Int
    OBVIOUS
  <1>2. Int16 = lo..hi
    BY DEF Int16
  <1>3. -32768 <= x /\ x <= 32767 <=> lo <= x /\ x <= hi
    OBVIOUS
  <1> HIDE DEF lo, hi
  <1>4. QED
    BY <1>1, <1>2, <1>3

\* A 16-bit sample is an integer.
LEMMA SixteenInt ==
  ASSUME NEW x \in Int16
  PROVE  x \in Int
  BY SMTT(30) DEF Int16

\* A u16 less its middle is a 16-bit sample.
LEMMA Centred ==
  ASSUME NEW x \in Int, 0 <= x, x <= 65535
  PROVE  x - 32768 \in Int16
  <1> DEFINE y == x - 32768
  <1>1. y \in Int /\ -32768 <= y /\ y <= 32767
    OBVIOUS
  <1> HIDE DEF y
  <1>2. y \in Int16
    BY <1>1, SixteenBits
  <1>3. QED
    BY <1>2 DEF y

\* Clamping gives 16 bits and is monotone.
LEMMA ClampMonotone ==
  /\ \A v \in Int : Clamp(v) \in Int16
  /\ \A v, w \in Int : v <= w => Clamp(v) <= Clamp(w)
  /\ \A v \in Int : Clamp(v) \in Int
  <1>1. ASSUME NEW v \in Int
        PROVE  /\ v < -32768 => Clamp(v) = -32768
               /\ v > 32767 => Clamp(v) = 32767
               /\ v >= -32768 /\ v <= 32767 => Clamp(v) = v
    BY DEF Clamp
  <1>2. \A v \in Int : Clamp(v) \in Int /\ -32768 <= Clamp(v) /\ Clamp(v) <= 32767
    BY <1>1
  <1>3. \A v \in Int : Clamp(v) \in Int16
    BY <1>2, SixteenBits
  <1>4. \A v, w \in Int : v <= w => Clamp(v) <= Clamp(w)
    BY <1>1
  <1>5. QED
    BY <1>2, <1>3, <1>4

\* Values of a format are integers, those of the integer formats within 16 bits of
\* the middle.
LEMMA ValuesAre ==
  ASSUME NEW format
  PROVE  /\ Values(format) \subseteq Int
         /\ format \in Format /\ format # "f32" =>
              \A x \in Values(format) : x - Offset(format) \in Int16
  <1>1. CASE format = "i16"
    <2>1. Values(format) = Int16 /\ Offset(format) = 0
      BY <1>1, SMTT(30) DEF Values, Offset
    <2>2. \A x \in Int16 : x \in Int /\ x - 0 = x
      BY SMTT(30) DEF Int16
    <2>3. QED
      BY <2>1, <2>2
  <1>2. CASE format = "u16"
    <2>1. Values(format) = 0..65535 /\ Offset(format) = 32768
      BY <1>2, SMTT(30) DEF Values, Offset
    <2> DEFINE S == 0..65535
               off == 32768
    <2>2. Values(format) = S /\ Offset(format) = off
      BY <2>1, SMTT(30)
    <2>3. ASSUME NEW x \in S
          PROVE  x \in Int /\ 0 <= x /\ x <= 65535
      BY SMTT(30)
    <2> HIDE DEF S
    <2>4. ASSUME NEW x \in S
          PROVE  x \in Int /\ x - off \in Int16
      BY <2>3, Centred
    <2> HIDE DEF off
    <2>5. \A x \in Values(format) : x \in Int /\ x - Offset(format) \in Int16
      BY <2>2, <2>4, Zenon
    <2>6. QED
      BY <2>5
  <1>3. CASE format = "u8"
    <2>1. Values(format) = 0..255 /\ Offset(format) = 128
      BY <1>3 DEF Values, Offset
    <2>2. ASSUME NEW x \in 0..255 PROVE x - 128 \in Int16
      BY SixteenBits
    <2>3. QED
      BY <2>1, <2>2
  <1>4. CASE format \notin {"i16", "u16", "u8"}
    <2>1. Values(format) = Int
      BY <1>4, SMTT(30) DEF Values
    <2>2. QED
      BY <1>4, <2>1 DEF Format
  <1>5. QED
    BY <1>1, <1>2, <1>3, <1>4

\* What a device is.
LEMMA DeviceParts ==
  ASSUME NEW d \in Devices
  PROVE  /\ d.format \in Format
         /\ d.channels \in Nat /\ d.channels > 0
         /\ d.rate[1] \in Nat /\ d.rate[1] > 0 /\ d.rate[2] \in Nat /\ d.rate[2] > 0
         /\ d.rate = <<d.rate[1], d.rate[2]>>
         /\ Offset(d.format) \in Int
         /\ F32Unit \in Nat /\ F32Unit > 0
         /\ \A x \in Sample(d.format) : x \in Int
  <1>1. d.format \in Format /\ d.channels \in Channels /\ d.rate \in SourceRate
    BY Zenon DEF Devices
  <1>2. d.channels \in Nat /\ d.channels > 0 /\ F32Unit \in Nat /\ F32Unit > 0
    <2>1. d.channels \in Nat \ {0} /\ F32Unit \in Nat \ {0}
      BY <1>1, DeviceAssumption, Zenon
    <2>2. QED
      BY <2>1
  <1>3. d.rate \in (Nat \ {0}) \X (Nat \ {0})
    BY <1>1, DeviceAssumption, Zenon
  <1>4. \A x \in Sample(d.format) : x \in Int
    <2>1. \A x \in Sample(d.format) : x \in Values(d.format)
      BY <1>1, DeviceAssumption, Zenon
    <2>2. QED
      BY <2>1, ValuesAre
  <1>5. Offset(d.format) \in Int
    BY DEF Offset
  <1>6. QED
    BY <1>1, <1>2, <1>3, <1>4, <1>5

\* What a sample is worth grows with the sample.
LEMMA WorthMonotone ==
  ASSUME NEW d \in Devices
  PROVE  /\ \A x \in Int : Worth(x, d) \in Int
         /\ \A x, y \in Int : x <= y => Worth(x, d) <= Worth(y, d)
  <1>1. F32Unit \in Nat /\ F32Unit > 0 /\ Offset(d.format) \in Int
    BY DeviceParts
  <1>2. \A x \in Int : RoundDiv(x * 32767, F32Unit) \in Int
    BY <1>1, RoundType
  <1>3. ASSUME NEW x \in Int, NEW y \in Int, x <= y
        PROVE  RoundDiv(x * 32767, F32Unit) <= RoundDiv(y * 32767, F32Unit)
    <2> DEFINE p == x * 32767
               q == y * 32767
    <2>1. p \in Int /\ q \in Int /\ p <= q
      BY <1>3
    <2> HIDE DEF p, q
    <2>2. RoundDiv(p, F32Unit) <= RoundDiv(q, F32Unit)
      BY <1>1, <2>1, RoundMonotone
    <2>3. QED
      BY <2>2 DEF p, q
  <1>4. \A x \in Int : Worth(x, d) \in Int
    BY <1>1, <1>2, ClampMonotone DEF Worth
  <1>5. \A x, y \in Int : x <= y => Worth(x, d) <= Worth(y, d)
    BY <1>1, <1>2, <1>3, ClampMonotone DEF Worth
  <1>6. QED
    BY <1>4, <1>5

\* What a device can deliver is worth 16 bits.
LEMMA WorthInRange ==
  ASSUME NEW d \in Devices, NEW x \in Sample(d.format)
  PROVE  Worth(x, d) \in Int16
  <1>1. d.format \in Format /\ F32Unit \in Nat /\ F32Unit > 0 /\ x \in Int
    BY DeviceParts
  <1>2. x \in Values(d.format)
    BY <1>1, DeviceAssumption
  <1>3. CASE d.format = "f32"
    <2>1. x * 32767 \in Int
      BY <1>1
    <2>2. RoundDiv(x * 32767, F32Unit) \in Int
      BY <1>1, <2>1, RoundType
    <2>3. QED
      BY <1>3, <2>2, ClampMonotone DEF Worth
  <1>4. CASE d.format # "f32"
    BY <1>1, <1>2, <1>4, ValuesAre DEF Worth
  <1>5. QED
    BY <1>3, <1>4

\* The samples of a frame are samples of the data.
LEMMA FrameOf ==
  ASSUME NEW data \in Seq(Int), NEW c \in Nat, c > 0, NEW i \in 1..(Len(data) \div c)
  PROVE  /\ Frame(data, c, i) \in Seq(Int)
         /\ Len(Frame(data, c, i)) = c
         /\ \A j \in 1..c : /\ (i - 1) * c + j \in 1..Len(data)
                            /\ Frame(data, c, i)[j] = data[(i - 1) * c + j]
  <1>1. /\ Len(data) \in Nat /\ Len(data) \div c \in Int
        /\ c * (Len(data) \div c) <= Len(data)
    BY Floor
  <1>2. i \in Nat /\ i >= 1 /\ i <= Len(data) \div c
    BY <1>1
  <1>3. i * c <= Len(data)
    <2>1. c * i <= c * (Len(data) \div c)
      BY <1>1, <1>2, Times
    <2>2. QED
      BY <1>1, <1>2, <2>1
  <1> DEFINE m == (i - 1) * c
             n == i * c
  <1>4. m \in Nat /\ n \in Nat /\ n = m + c /\ n <= Len(data)
    BY <1>2, <1>3
  <1>5. Frame(data, c, i) = SubSeq(data, m + 1, n)
    BY DEF Frame
  <1> HIDE DEF m, n
  <1>6. /\ SubSeq(data, m + 1, n) \in Seq(Int)
        /\ Len(SubSeq(data, m + 1, n)) = c
        /\ \A j \in 1..c : SubSeq(data, m + 1, n)[j] = data[m + j]
    BY <1>1, <1>4
  <1>7. \A j \in 1..c : m + j \in 1..Len(data)
    BY <1>1, <1>4
  <1>8. QED
    BY <1>5, <1>6, <1>7 DEF m

\* Mono samples lie between what the lowest and the highest sample are worth:
\* the sum does not wrap, the average truncates towards silence, and a float is
\* averaged before it is scaled.
LEMMA MonoBounds ==
  ASSUME NEW d \in Devices, NEW data \in Seq(Int), NEW lo \in Int, NEW hi \in Int,
         \A i \in 1..Len(data) : lo <= data[i] /\ data[i] <= hi,
         NEW i \in 1..Len(Mono(data, d))
  PROVE  /\ Mono(data, d)[i] \in Int
         /\ Worth(lo, d) <= Mono(data, d)[i] /\ Mono(data, d)[i] <= Worth(hi, d)
  <1> DEFINE c == d.channels
             off == Offset(d.format)
             f == Frame(data, c, i)
             sum == SumFrom(f, off)
  <1>1. /\ c \in Nat /\ c > 0 /\ off \in Int /\ F32Unit \in Nat /\ F32Unit > 0
    BY DeviceParts
  <1>2. Len(data) \in Nat /\ Len(data) \div c \in Int /\ 0 <= Len(data) \div c
    <2>1. Len(data) \in Nat
      OBVIOUS
    <2> DEFINE l == Len(data)
    <2>2. l \in Nat /\ l \in Int
      BY <2>1
    <2> HIDE DEF c, l
    <2>3. l \div c \in Int /\ 0 <= l \div c
      BY <1>1, <2>2, FloorNat
    <2>4. QED
      BY <2>2, <2>3 DEF l, c
  <1>3. Len(Mono(data, d)) = Len(data) \div c
    BY <1>2 DEF Mono
  <1>4. i \in 1..(Len(data) \div c)
    BY <1>3
  <1>5. /\ f \in Seq(Int) /\ Len(f) = c
        /\ \A j \in 1..c : lo <= f[j] /\ f[j] <= hi /\ f[j] \in Int
    <2>1. /\ f \in Seq(Int) /\ Len(f) = c
          /\ \A j \in 1..c : /\ (i - 1) * c + j \in 1..Len(data)
                             /\ f[j] = data[(i - 1) * c + j]
      BY <1>1, <1>4, FrameOf
    <2>2. \A j \in 1..c : f[j] \in Int
      BY <2>1, ElementOfSeq
    <2>3. QED
      BY <2>1, <2>2
  <1>6. Mono(data, d)[i] =
          IF d.format = "f32" THEN Scale(sum, c) ELSE TruncDiv(sum, c)
    BY <1>4 DEF Mono, ChannelSum
  <1> HIDE DEF c, off, f
  <1>7. \A j \in 1..Len(f) : lo - off <= f[j] - off /\ f[j] - off <= hi - off
    BY <1>1, <1>5
  <1>8. sum \in Int /\ c * (lo - off) <= sum /\ sum <= c * (hi - off)
    <2>1. lo - off \in Int /\ hi - off \in Int
      BY <1>1
    <2>2. QED
      BY <1>1, <1>5, <1>7, <2>1, SumBounds
  <1> HIDE DEF sum
  <1>9. CASE d.format = "f32"
    <2>1. off = 0
      BY <1>9 DEF off, Offset
    <2> DEFINE l == lo * 32767
               h == hi * 32767
               m == sum * 32767
               unit == c * F32Unit
    <2>2. /\ c * l <= m /\ m <= c * h /\ unit \in Nat /\ unit > 0
          /\ l \in Int /\ h \in Int /\ m \in Int
      BY <1>1, <1>8, <2>1
    <2>a. Scale(sum, c) = Clamp(RoundDiv(m, unit))
      BY DEF Scale
    <2>b. unit = c * F32Unit
      OBVIOUS
    <2> HIDE DEF l, h, m, unit
    <2>c. c * l \in Int /\ c * h \in Int
      BY <1>1, <2>2
    <2>3. /\ RoundDiv(c * l, unit) <= RoundDiv(m, unit)
          /\ RoundDiv(m, unit) <= RoundDiv(c * h, unit)
      BY <2>2, <2>c, RoundMonotone
    <2>4. /\ RoundDiv(c * l, unit) = RoundDiv(l, F32Unit)
          /\ RoundDiv(c * h, unit) = RoundDiv(h, F32Unit)
      BY <1>1, <2>2, <2>b, RoundScaled
    <2>5. /\ RoundDiv(l, F32Unit) \in Int /\ RoundDiv(h, F32Unit) \in Int
          /\ RoundDiv(m, unit) \in Int
      BY <1>1, <2>2, RoundType
    <2>6. /\ Scale(sum, c) \in Int
          /\ Clamp(RoundDiv(l, F32Unit)) <= Scale(sum, c)
          /\ Scale(sum, c) <= Clamp(RoundDiv(h, F32Unit))
      BY <2>a, <2>3, <2>4, <2>5, ClampMonotone
    <2>7. QED
      BY <1>6, <1>9, <2>6 DEF Worth, l, h
  <1>10. CASE d.format # "f32"
    <2>1. lo - off \in Int /\ hi - off \in Int
      BY <1>1
    <2>2. /\ TruncDiv(sum, c) \in Int
          /\ lo - off <= TruncDiv(sum, c) /\ TruncDiv(sum, c) <= hi - off
      BY <1>1, <1>8, <2>1, TruncBounds
    <2>3. QED
      BY <1>6, <1>10, <2>2 DEF Worth, off
  <1>11. QED
    BY <1>9, <1>10

\* The downmix gives one integer per frame.
LEMMA MonoType ==
  ASSUME NEW d \in Devices, NEW data \in Seq(Int)
  PROVE  /\ Mono(data, d) \in Seq(Int)
         /\ Len(Mono(data, d)) = Len(data) \div d.channels
         /\ Len(Mono(data, d)) \in Nat
  <1> DEFINE n == Len(data) \div d.channels
  <1>1. n \in Nat
    <2>1. Len(data) \in Nat /\ d.channels \in Nat /\ d.channels > 0
      BY DeviceParts
    <2>2. QED
      BY <2>1, FloorNat
  <1>2. Len(Mono(data, d)) = n /\ DOMAIN Mono(data, d) = 1..n
    BY <1>1 DEF Mono
  <1>3. ASSUME NEW i \in 1..n
        PROVE  Mono(data, d)[i] \in Int
    <2>1. i \in 1..Len(Mono(data, d))
      BY <1>2
    <2>2. data # <<>>
      <3>1. CASE data = <<>>
        <4>1. Len(data) = 0 /\ d.channels \in Nat /\ d.channels > 0
          BY <3>1, DeviceParts
        <4>2. n = 0
          BY <4>1, FloorBounds
        <4>3. QED
          BY <4>2
      <3>2. QED
        BY <3>1
    <2>3. PICK lo, hi \in 1..Len(data) :
            \A j \in 1..Len(data) : data[lo] <= data[j] /\ data[j] <= data[hi]
      BY <2>2, Extremes
    <2>4. data[lo] \in Int /\ data[hi] \in Int
      BY ElementOfSeq
    <2>5. QED
      BY <2>1, <2>3, <2>4, MonoBounds
  <1>4. Mono(data, d) = [i \in 1..n |-> Mono(data, d)[i]]
    BY <1>2 DEF Mono
  <1> HIDE DEF n
  <1>5. [i \in 1..n |-> Mono(data, d)[i]] \in Seq(Int)
    BY <1>1, <1>3
  <1>6. QED
    BY <1>1, <1>2, <1>4, <1>5 DEF n

-----------------------------------------------------------------------------
(* Resampling. *)

\* Output i starts at an input there is.
LEMMA SourceIndex ==
  ASSUME NEW len \in Nat, NEW num \in Nat, num > 0, NEW den \in Nat, den > 0,
         NEW i \in Nat, i < CeilDiv(len * den, num)
  PROVE  /\ (i * num) \div den \in Nat
         /\ (i * num) \div den < len
         /\ (i * num) % den \in Nat
         /\ (i * num) % den < den
  <1> DEFINE due == len * den
             made == CeilDiv(due, num)
             at == i * num
             src == at \div den
  <1>1. due \in Nat /\ at \in Nat
    OBVIOUS
  <1>2. made \in Nat /\ made * num < due + num
    <2> HIDE DEF due
    <2>1. QED
      BY <1>1, Ceiling
  <1>3. num * (i + 1) <= num * made
    <2> HIDE DEF made
    <2>1. i < made
      BY DEF made
    <2>2. QED
      BY <1>2, <2>1, Times
  <1>4. at < due
    <2>1. num * (i + 1) = at + num
      OBVIOUS
    <2>2. num * made = made * num
      BY <1>2
    <2> HIDE DEF at, due, made
    <2>3. QED
      BY <1>1, <1>2, <1>3, <2>1, <2>2
  <1>5. /\ src \in Int /\ 0 <= src /\ den * src <= at
        /\ at % den \in Nat /\ at % den < den
    <2> HIDE DEF at
    <2>1. QED
      BY <1>1, Floor, FloorNat
  <1>6. den * src < den * len
    <2>1. due = den * len
      OBVIOUS
    <2> HIDE DEF at, due, src
    <2>2. den * src \in Int
      BY <1>5
    <2>3. QED
      BY <1>1, <1>4, <1>5, <2>1, <2>2
  <1>7. src < len
    <2> HIDE DEF src
    <2>1. QED
      BY <1>5, <1>6, Times
  <1>8. QED
    BY <1>5, <1>7

\* A point between two values.
LEMMA Between ==
  ASSUME NEW a \in Int, NEW b \in Int, NEW lo \in Int, NEW hi \in Int,
         NEW den \in Nat, den > 0, NEW frac \in Nat, frac < den,
         lo <= a, a <= hi, lo <= b, b <= hi
  PROVE  /\ a * den + frac * (b - a) \in Int
         /\ den * lo <= a * den + frac * (b - a)
         /\ a * den + frac * (b - a) <= den * hi
  <1> DEFINE rest == den - frac
  <1>1. rest \in Nat
    OBVIOUS
  <1>2. a * den + frac * (b - a) = rest * a + frac * b
    OBVIOUS
  <1>3. den * lo = rest * lo + frac * lo /\ den * hi = rest * hi + frac * hi
    OBVIOUS
  <1> HIDE DEF rest
  <1>4. rest * lo <= rest * a /\ rest * a <= rest * hi
    BY <1>1, Times
  <1>5. frac * lo <= frac * b /\ frac * b <= frac * hi
    BY Times
  <1>6. /\ rest * a \in Int /\ rest * lo \in Int /\ rest * hi \in Int
        /\ frac * b \in Int /\ frac * lo \in Int /\ frac * hi \in Int
    BY <1>1
  <1>7. QED
    BY <1>2, <1>3, <1>4, <1>5, <1>6

\* Interpolation stays between the lowest and the highest sample.
LEMMA ResampledBounds ==
  ASSUME NEW s \in Seq(Int), NEW lo \in Int, NEW hi \in Int,
         \A k \in 1..Len(s) : lo <= s[k] /\ s[k] <= hi,
         NEW num \in Nat, num > 0, NEW den \in Nat, den > 0,
         NEW i \in Nat, i < CeilDiv(Len(s) * den, num)
  PROVE  /\ Resampled(s, <<num, den>>, i) \in Int
         /\ lo <= Resampled(s, <<num, den>>, i)
         /\ Resampled(s, <<num, den>>, i) <= hi
  <1> DEFINE src == (i * num) \div den
             frac == (i * num) % den
             a == s[src + 1]
             b == s[src + 2]
  <1>1. Len(s) \in Nat
    OBVIOUS
  <1>2. src \in Nat /\ src < Len(s) /\ frac \in Nat /\ frac < den
    BY <1>1, SourceIndex
  <1>3. Resampled(s, <<num, den>>, i) =
          IF src + 1 < Len(s) THEN RoundDiv(a * den + frac * (b - a), den) ELSE a
    BY DEF Resampled
  <1> HIDE DEF src, frac
  <1>4. a \in Int /\ lo <= a /\ a <= hi
    BY <1>1, <1>2, ElementOfSeq
  <1>5. CASE src + 1 < Len(s)
    <2>1. b \in Int /\ lo <= b /\ b <= hi
      <3>1. src + 2 \in 1..Len(s)
        BY <1>1, <1>2, <1>5
      <3>2. QED
        BY <3>1, ElementOfSeq
    <2> HIDE DEF a, b
    <2> DEFINE v == a * den + frac * (b - a)
    <2>2. v \in Int /\ den * lo <= v /\ v <= den * hi
      BY <1>2, <1>4, <2>1, Between
    <2> HIDE DEF v
    <2>3. RoundDiv(v, den) \in Int /\ lo <= RoundDiv(v, den) /\ RoundDiv(v, den) <= hi
      BY <2>2, RoundType, RoundBounds
    <2>4. QED
      BY <1>3, <1>5, <2>3 DEF v
  <1>6. CASE ~(src + 1 < Len(s))
    BY <1>3, <1>4, <1>6
  <1>7. QED
    BY <1>5, <1>6

\* The samples there are, and how many.
LEMMA ResampleBounds ==
  ASSUME NEW s \in Seq(Int), NEW lo \in Int, NEW hi \in Int,
         \A k \in 1..Len(s) : lo <= s[k] /\ s[k] <= hi,
         NEW num \in Nat, num > 0, NEW den \in Nat, den > 0
  PROVE  LET r == Resample(s, <<num, den>>) IN
         /\ r \in Seq(Int)
         /\ \A i \in 1..Len(r) : r[i] \in Int /\ lo <= r[i] /\ r[i] <= hi
         /\ Len(r) \in Nat
         /\ Len(r) * num >= Len(s) * den
         /\ Len(r) * num < Len(s) * den + num
  <1> DEFINE r == Resample(s, <<num, den>>)
             n == NumOutputSamples(Len(s), <<num, den>>)
  <1>1. Len(s) \in Nat /\ Len(s) * den \in Nat
    OBVIOUS
  <1>2. CASE <<num, den>> = <<1, 1>>
    <2>1. r = s /\ num = 1 /\ den = 1
      BY <1>2 DEF Resample
    <2>2. \A i \in 1..Len(s) : s[i] \in Int
      BY ElementOfSeq
    <2>3. Len(s) * num = Len(s) /\ Len(s) * den = Len(s)
      BY <1>1, <2>1
    <2> HIDE DEF r
    <2>4. QED
      BY <1>1, <2>1, <2>2, <2>3 DEF r
  <1>3. CASE <<num, den>> # <<1, 1>>
    <2>1. n = CeilDiv(Len(s) * den, num)
      BY DEF NumOutputSamples
    <2>2. n \in Nat /\ n * num >= Len(s) * den /\ n * num < Len(s) * den + num
      <3> DEFINE due == Len(s) * den
      <3>1. due \in Nat
        BY <1>1
      <3> HIDE DEF due, n
      <3>2. n = CeilDiv(due, num)
        BY <2>1 DEF due
      <3>3. QED
        BY <3>1, <3>2, Ceiling DEF due
    <2>3. r = [i \in 1..n |-> Resampled(s, <<num, den>>, i - 1)]
      BY <1>3 DEF Resample
    <2> HIDE DEF n, r
    <2>4. ASSUME NEW i \in 1..n
          PROVE  LET v == Resampled(s, <<num, den>>, i - 1) IN
                 v \in Int /\ lo <= v /\ v <= hi
      <3>1. i - 1 \in Nat /\ i - 1 < n
        BY <2>2
      <3> DEFINE j == i - 1
      <3>2. j \in Nat /\ j < CeilDiv(Len(s) * den, num)
        BY <2>1, <3>1
      <3> HIDE DEF j
      <3>3. LET v == Resampled(s, <<num, den>>, j) IN v \in Int /\ lo <= v /\ v <= hi
        BY <3>2, ResampledBounds
      <3>4. QED
        BY <3>3 DEF j
    <2> DEFINE f(i) == Resampled(s, <<num, den>>, i - 1)
    <2>a. \A i \in 1..n : f(i) \in Int
      BY <2>4
    <2>b. r = [i \in 1..n |-> f(i)]
      BY <2>3
    <2>5. r \in Seq(Int) /\ Len(r) = n
      <3> HIDE DEF f
      <3>1. QED
        BY <2>2, <2>a, <2>b
    <2>6. \A i \in 1..n : r[i] \in Int /\ lo <= r[i] /\ r[i] <= hi
      BY <2>3, <2>4
    <2>7. QED
      BY <2>2, <2>5, <2>6 DEF r
  <1>4. QED
    BY <1>2, <1>3

-----------------------------------------------------------------------------
(* Bytes. *)

\* Two's complement in two bytes, and back.
LEMMA Word ==
  ASSUME NEW x \in Int, -32768 <= x, x <= 32767
  PROVE  LET u == x % 65536 IN
         /\ u \in Nat
         /\ u % 256 \in 0..255 /\ u \div 256 \in 0..255
         /\ (u % 256) + 256 * (u \div 256) = u
         /\ x = IF u < 32768 THEN u ELSE u - 65536
  <1> DEFINE u == x % 65536
  <1>1. u \in Nat /\ u < 65536
    OBVIOUS
  <1>2. x >= 0 => u = x
    OBVIOUS
  <1>3. x < 0 => u = x + 65536
    OBVIOUS
  <1>4. x = IF u < 32768 THEN u ELSE u - 65536
    <2> HIDE DEF u
    <2>1. QED
      BY <1>1, <1>2, <1>3
  <1>5. u % 256 \in 0..255 /\ u \div 256 \in 0..255 /\ (u % 256) + 256 * (u \div 256) = u
    <2> HIDE DEF u
    <2>1. u % 256 \in Nat /\ u % 256 < 256 /\ (u % 256) + 256 * (u \div 256) = u
      BY <1>1
    <2>2. u \div 256 \in Int /\ 0 <= u \div 256 /\ u \div 256 <= 255
      BY <1>1
    <2> DEFINE low == u % 256
               high == u \div 256
    <2>3. /\ low \in Int /\ 0 <= low /\ low <= 255
          /\ high \in Int /\ 0 <= high /\ high <= 255
          /\ low + 256 * high = u
      BY <2>1, <2>2
    <2> HIDE DEF low, high
    <2>4. low \in 0..255 /\ high \in 0..255 /\ low + 256 * high = u
      BY <2>3
    <2>5. QED
      BY <2>4 DEF low, high
  <1>6. QED
    BY <1>1, <1>4, <1>5

\* Which byte is whose.
LEMMA Pairs ==
  ASSUME NEW i \in Int
  PROVE  /\ ((2 * i - 1) + 1) \div 2 = i /\ (2 * i - 1) % 2 = 1
         /\ ((2 * i) + 1) \div 2 = i /\ (2 * i) % 2 = 0
  OBVIOUS

\* The bytes decode to the samples.
LEMMA Bytes ==
  ASSUME NEW s \in Seq(Int16)
  PROVE  LET c == BytesLE(s) IN
         /\ Len(s) \in Nat
         /\ c \in Seq(0..255)
         /\ Len(c) = 2 * Len(s)
         /\ \A i \in 1..Len(s) :
              LET u == c[2 * i - 1] + 256 * c[2 * i] IN
              s[i] = IF u < 32768 THEN u ELSE u - 65536
  <1> DEFINE n == 2 * Len(s)
             Byte == 0..255
             u(k) == s[k] % 65536
             b(i) == IF i % 2 = 1 THEN u((i + 1) \div 2) % 256
                                  ELSE u((i + 1) \div 2) \div 256
             c == BytesLE(s)
  <1>1. Len(s) \in Nat /\ n \in Nat
    OBVIOUS
  <1>2. c = [i \in 1..n |-> b(i)]
    BY DEF BytesLE
  <1>3. ASSUME NEW k \in 1..Len(s)
        PROVE  /\ u(k) % 256 \in Byte /\ u(k) \div 256 \in Byte
               /\ s[k] = LET v == (u(k) % 256) + 256 * (u(k) \div 256) IN
                         IF v < 32768 THEN v ELSE v - 65536
    <2>1. s[k] \in Int16
      BY ElementOfSeq
    <2> DEFINE x == s[k]
    <2>2. x \in Int
      BY <2>1, SixteenInt
    <2>3. -32768 <= x /\ x <= 32767
      BY <2>1, <2>2, SixteenBits
    <2> HIDE DEF x
    <2>4. LET w == x % 65536 IN
          /\ w % 256 \in 0..255 /\ w \div 256 \in 0..255
          /\ (w % 256) + 256 * (w \div 256) = w
          /\ x = IF w < 32768 THEN w ELSE w - 65536
      BY <2>2, <2>3, Word
    <2>5. u(k) = x % 65536
      BY DEF x
    <2> HIDE DEF u, Byte
    <2>6. QED
      BY <2>4, <2>5, SMTT(30) DEF x, Byte
  <1>4. ASSUME NEW i \in 1..n
        PROVE  (i + 1) \div 2 \in 1..Len(s)
    BY <1>1
  <1>5. \A i \in 1..n : b(i) \in Byte
    <2> HIDE DEF u, Byte, n
    <2>1. QED
      BY <1>3, <1>4
  <1>6. c \in Seq(Byte) /\ Len(c) = n
    <2> HIDE DEF b, c, Byte, n
    <2>1. QED
      BY <1>1, <1>2, <1>5
  <1>7. ASSUME NEW k \in 1..Len(s)
        PROVE  c[2 * k - 1] = u(k) % 256 /\ c[2 * k] = u(k) \div 256
    <2>1. 2 * k - 1 \in 1..n /\ 2 * k \in 1..n
      BY <1>1
    <2>2. c[2 * k - 1] = b(2 * k - 1) /\ c[2 * k] = b(2 * k)
      <3> HIDE DEF b, c, n
      <3>1. QED
        BY <1>2, <2>1
    <2>3. b(2 * k - 1) = u(k) % 256 /\ b(2 * k) = u(k) \div 256
      <3> HIDE DEF u
      <3>1. k \in Int
        OBVIOUS
      <3>2. QED
        BY <3>1, Pairs
    <2> HIDE DEF b, c, u
    <2>4. QED
      BY <2>2, <2>3
  <1>8. \A k \in 1..Len(s) :
          s[k] = LET v == c[2 * k - 1] + 256 * c[2 * k] IN
                 IF v < 32768 THEN v ELSE v - 65536
    <2> HIDE DEF c, u, Byte
    <2>1. QED
      BY <1>3, <1>7
  <1>9. QED
    BY <1>1, <1>6, <1>8

\* No samples are no bytes.
LEMMA NoBytes == BytesLE(<<>>) \in Seq(0..255) /\ BytesLE(<<>>) = <<>>
  <1> DEFINE Byte == 0..255
             c == BytesLE(<<>>)
  <1>1. \A s \in Seq(Int16) : BytesLE(s) \in Seq(Byte) /\ Len(BytesLE(s)) = 2 * Len(s)
    BY Bytes
  <1> HIDE DEF Byte
  <1>2. <<>> \in Seq(Int16) /\ Len(<<>>) = 0
    BY EmptySeq
  <1>3. c \in Seq(Byte) /\ Len(c) = 2 * Len(<<>>)
    BY <1>1, <1>2, Zenon
  <1> HIDE DEF c
  <1>4. Len(c) = 0
    BY <1>2, <1>3
  <1>5. c = <<>>
    BY <1>3, <1>4, EmptySeq
  <1>6. QED
    BY <1>3, <1>5 DEF c, Byte

-----------------------------------------------------------------------------
(* A callback's samples and bytes. *)

\* A callback's data are samples of its format, and integers.
LEMMA DataAreInts ==
  ASSUME NEW d \in Devices, NEW data \in Seq(Sample(d.format))
  PROVE  data \in Seq(Int) /\ \A i \in 1..Len(data) : data[i] \in Sample(d.format)
  <1>1. \A x \in Sample(d.format) : x \in Int
    BY DeviceParts
  <1>2. Sample(d.format) \subseteq Int
    BY <1>1
  <1>3. QED
    BY <1>2, SeqMonotonic, ElementOfSeq

\* What a callback's data become: 16-bit samples between what the lowest and
\* what the highest of its data are worth, in the time of the data or less than
\* a sample more.
LEMMA Made ==
  ASSUME NEW d \in Devices, NEW data \in Seq(Sample(d.format))
  PROVE  LET r == Resample(Mono(data, d), d.rate)
             n == Len(data) \div d.channels
         IN  /\ r \in Seq(Int16)
             /\ Len(r) \in Nat
             /\ Len(r) * d.rate[1] >= n * d.rate[2]
             /\ Len(r) * d.rate[1] < n * d.rate[2] + d.rate[1]
             /\ data = <<>> => r = <<>>
             /\ data # <<>> =>
                  \E lo, hi \in 1..Len(data) :
                    \A i \in 1..Len(r) : /\ Worth(data[lo], d) <= r[i]
                                         /\ r[i] <= Worth(data[hi], d)
  <1> DEFINE num == d.rate[1]
             den == d.rate[2]
             m == Mono(data, d)
             r == Resample(m, d.rate)
             n == Len(data) \div d.channels
  <1>1. /\ num \in Nat /\ num > 0 /\ den \in Nat /\ den > 0 /\ d.rate = <<num, den>>
        /\ d.channels \in Nat /\ d.channels > 0
    BY DeviceParts
  <1>2. data \in Seq(Int) /\ \A i \in 1..Len(data) : data[i] \in Sample(d.format)
    BY DataAreInts
  <1>3. m \in Seq(Int) /\ Len(m) = n /\ n \in Nat
    BY <1>2, MonoType
  <1>4. r = Resample(m, <<num, den>>)
    BY <1>1
  <1> DEFINE Bounds(lo, hi) ==
               /\ r \in Seq(Int)
               /\ \A i \in 1..Len(r) : r[i] \in Int /\ lo <= r[i] /\ r[i] <= hi
               /\ Len(r) \in Nat
               /\ Len(r) * num >= n * den
               /\ Len(r) * num < n * den + num
  <1>5. ASSUME NEW lo \in Int, NEW hi \in Int,
               \A k \in 1..Len(m) : lo <= m[k] /\ m[k] <= hi
        PROVE  Bounds(lo, hi)
    <2> HIDE DEF num, den, m, n, r
    <2>1. QED
      BY <1>1, <1>3, <1>4, <1>5, ResampleBounds
  <1>6. CASE data = <<>>
    <2>1. n = 0
      <3>1. Len(data) = 0
        BY <1>6
      <3>2. QED
        BY <1>1, <3>1, FloorBounds
    <2>2. Bounds(0, 0)
      <3>1. \A k \in 1..Len(m) : FALSE
        BY <1>3, <2>1
      <3> HIDE DEF Bounds, m
      <3>2. QED
        BY <1>5, <3>1
    <2>3. Len(r) = 0
      <3> HIDE DEF num, den, m, n, r
      <3>1. n * den = 0
        BY <1>1, <2>1
      <3>2. Len(r) \in Nat /\ Len(r) * num < num
        BY <1>1, <2>2, <3>1
      <3>3. QED
        BY <1>1, <3>2
    <2>4. r = <<>>
      <3> HIDE DEF num, den, m, n, r
      <3>1. QED
        BY <2>2, <2>3, EmptySeq
    <2>5. r \in Seq(Int16)
      <3> HIDE DEF r
      <3>1. QED
        BY <2>4
    <2> HIDE DEF r, num, den, m
    <2>6. QED
      BY <1>6, <2>2, <2>4, <2>5 DEF r, num, den, m
  <1>7. CASE data # <<>>
    <2>1. PICK lo, hi \in 1..Len(data) :
            \A j \in 1..Len(data) : data[lo] <= data[j] /\ data[j] <= data[hi]
      BY <1>2, <1>7, Extremes
    <2> DEFINE low == Worth(data[lo], d)
               high == Worth(data[hi], d)
    <2>2. data[lo] \in Int /\ data[hi] \in Int
      BY <1>2, ElementOfSeq
    <2>3. low \in Int16 /\ high \in Int16
      BY <1>2, WorthInRange
    <2>4. low \in Int /\ high \in Int
      BY <2>3, SixteenInt
    <2>5. \A k \in 1..Len(m) : low <= m[k] /\ m[k] <= high
      BY <1>2, <2>1, <2>2, MonoBounds
    <2> HIDE DEF low, high
    <2>6. Bounds(low, high)
      <3> HIDE DEF Bounds, m
      <3>1. QED
        BY <1>5, <2>4, <2>5
    <2>7. -32768 <= low /\ high <= 32767
      BY <2>3, <2>4, SixteenBits
    <2>8. r \in Seq(Int16)
      <3> HIDE DEF r
      <3>1. \A i \in 1..Len(r) : r[i] \in Int /\ -32768 <= r[i] /\ r[i] <= 32767
        BY <2>4, <2>6, <2>7
      <3>2. \A i \in 1..Len(r) : r[i] \in Int16
        BY <3>1, SixteenBits
      <3> DEFINE l == Len(r)
                 f(i) == r[i]
      <3>3. l \in Nat /\ r = [i \in 1..l |-> f(i)]
        BY <2>6
      <3>4. \A i \in 1..l : f(i) \in Int16
        BY <3>2
      <3> HIDE DEF l, f
      <3>5. QED
        BY <3>3, <3>4
    <2> HIDE DEF r, num, den, m, n
    <2>9. \A i \in 1..Len(r) : low <= r[i] /\ r[i] <= high
      BY <2>6
    <2>10. \E l, h \in 1..Len(data) :
             \A i \in 1..Len(r) : /\ Worth(data[l], d) <= r[i]
                                  /\ r[i] <= Worth(data[h], d)
      BY <2>9, Zenon DEF low, high
    <2>11. QED
      BY <1>7, <2>6, <2>8, <2>10 DEF r, num, den, m, n
  <1>8. QED
    BY <1>6, <1>7

-----------------------------------------------------------------------------
(* The callback. *)

\* The data of n frames are a sequence of that length.
LEMMA DataOfFrames ==
  ASSUME NEW d \in Devices, NEW n \in 1..MaxFrames,
         NEW data \in [1..(n * d.channels) -> Sample(d.format)]
  PROVE  /\ data \in Seq(Sample(d.format))
         /\ Len(data) \div d.channels = n
  <1> DEFINE c == d.channels
             l == n * c
  <1>1. c \in Nat /\ c > 0 /\ n \in Nat
    BY DeviceParts, DeviceAssumption
  <1>2. l \in Nat /\ l = c * n
    BY <1>1
  <1>3. l \div c = n
    <2> HIDE DEF l, c
    <2>1. l \in Int /\ c * n <= l /\ l < c * n + c
      BY <1>1, <1>2
    <2>2. l \div c \in Int /\ n <= l \div c /\ l \div c <= n
      BY <1>1, <2>1, FloorBounds
    <2>3. QED
      BY <1>1, <2>2
  <1>4. data \in [1..l -> Sample(d.format)]
    OBVIOUS
  <1>5. data \in Seq(Sample(d.format)) /\ Len(data) = l
    <2> HIDE DEF l
    <2>1. QED
      BY <1>2, <1>4
  <1>6. QED
    BY <1>3, <1>5

\* DeviceInv holds before the first callback.
LEMMA InitInv == DeviceInit => DeviceInv
  <1>1. SUFFICES ASSUME DeviceInit PROVE DeviceInv
    OBVIOUS
  <1> DEFINE d == device
             r == Resample(Mono(<<>>, d), d.rate)
  <1>2. /\ d \in Devices
        /\ callbacks = 0 /\ frames = 0 /\ outputs = 0
        /\ input = <<>> /\ samples = <<>> /\ chunk = <<>>
    BY <1>1 DEF DeviceInit, Devices
  <1>3. <<>> \in Seq(Sample(d.format))
    OBVIOUS
  <1>4. r \in Seq(Int16) /\ r = <<>>
    BY <1>2, <1>3, Made
  <1>5. BytesLE(<<>>) \in Seq(0..255) /\ BytesLE(<<>>) = <<>>
    BY NoBytes
  <1>6. DeviceTypeOK
    <2>1. 0 \in 0..MaxCallbacks
      BY DeviceAssumption
    <2> HIDE DEF r
    <2>2. samples \in Seq(Int16) /\ chunk \in Seq(0..255)
      BY <1>2
    <2>3. QED
      BY <1>2, <1>3, <2>1, <2>2 DEF DeviceTypeOK, Devices
  <1>7. DriftBounded
    <2>1. d.rate[1] \in Nat /\ d.rate[2] \in Nat
      BY <1>2, DeviceParts
    <2>2. QED
      BY <1>2, <2>1 DEF DriftBounded
  <1>8. samples = Resample(Mono(input, device), device.rate) /\ chunk = BytesLE(samples)
    BY <1>2, <1>4, <1>5
  <1>9. QED
    BY <1>2, <1>6, <1>7, <1>8 DEF DeviceInv

\* A callback keeps it: it sends what the arithmetic makes, and less than one
\* sample too many.
LEMMA CallbackInv ==
  ASSUME DeviceInv, NEW n \in 1..MaxFrames,
         NEW data \in [1..(n * device.channels) -> Sample(device.format)],
         Callback(data)
  PROVE  DeviceInv'
  <1> DEFINE r == Resample(Mono(data, device), device.rate)
             num == device.rate[1]
             den == device.rate[2]
  <1>1. /\ device \in Devices /\ device' = device
        /\ callbacks \in 0..MaxCallbacks /\ callbacks < MaxCallbacks
        /\ callbacks' = callbacks + 1
        /\ frames \in Nat /\ outputs \in Nat
        /\ input' = data /\ samples' = r /\ chunk' = BytesLE(r)
    BY DEF DeviceInv, DeviceTypeOK, Callback, Devices
  <1>2. num \in Nat /\ num > 0 /\ den \in Nat /\ den > 0
    BY <1>1, DeviceParts
  <1>3. data \in Seq(Sample(device.format)) /\ Len(data) \div device.channels = n
    BY <1>1, DataOfFrames
  <1>4. /\ r \in Seq(Int16) /\ Len(r) \in Nat
        /\ Len(r) * num >= n * den
        /\ Len(r) * num < n * den + num
    BY <1>1, <1>3, Made
  <1>5. BytesLE(r) \in Seq(0..255)
    BY <1>4, Bytes
  <1>6. frames' = frames + n /\ outputs' = outputs + Len(r)
    <2>1. /\ frames' = frames + Len(data) \div device.channels
          /\ outputs' = outputs + Len(samples')
      BY DEF Callback
    <2>2. QED
      BY <1>1, <1>3, <2>1
  <1>7. DeviceTypeOK'
    <2>1. callbacks' \in 0..MaxCallbacks /\ frames' \in Nat /\ outputs' \in Nat
      BY <1>1, <1>4, <1>6, DeviceAssumption
    <2> HIDE DEF r
    <2>2. QED
      BY <1>1, <1>3, <1>4, <1>5, <2>1 DEF DeviceTypeOK, Devices
  <1>8. DriftBounded'
    <2> DEFINE k == Len(r)
    <2>1. /\ outputs * num >= frames * den
          /\ callbacks > 0 => outputs * num < frames * den + callbacks * num
          /\ callbacks = 0 => outputs = 0
      BY DEF DeviceInv, DriftBounded
    <2>2. k \in Nat /\ k * num >= n * den /\ k * num < n * den + num
      BY <1>4
    <2>3. outputs' = outputs + k /\ frames' = frames + n /\ callbacks' = callbacks + 1
      BY <1>1, <1>6
    <2> HIDE DEF r, num, den, k
    <2>4. /\ (outputs + k) * num = outputs * num + k * num
          /\ (frames + n) * den = frames * den + n * den
          /\ (callbacks + 1) * num = callbacks * num + num
          /\ outputs * num \in Nat /\ frames * den \in Nat /\ callbacks * num \in Nat
          /\ k * num \in Nat /\ n * den \in Nat
      BY <1>1, <1>2, <2>2
    <2>5. callbacks = 0 => outputs * num = 0
      BY <1>2, <2>1
    <2>6. /\ (outputs + k) * num >= (frames + n) * den
          /\ (outputs + k) * num < (frames + n) * den + (callbacks + 1) * num
      BY <1>1, <1>2, <2>1, <2>2, <2>4, <2>5
    <2>7. QED
      BY <1>1, <2>3, <2>6 DEF DriftBounded, num, den
  <1>9. callbacks' # 0
    BY <1>1
  <1>10. QED
    BY <1>1, <1>7, <1>8, <1>9 DEF DeviceInv

\* Its return keeps it.
LEMMA ReturnInv == DeviceInv /\ CallbackReturns => DeviceInv'
  <1>1. SUFFICES ASSUME DeviceInv, CallbackReturns PROVE DeviceInv'
    OBVIOUS
  <1> DEFINE r == Resample(Mono(<<>>, device), device.rate)
  <1>2. /\ device \in Devices /\ device' = device
        /\ callbacks' = callbacks /\ frames' = frames /\ outputs' = outputs
        /\ input' = <<>> /\ samples' = <<>> /\ chunk' = <<>>
    BY <1>1 DEF DeviceInv, DeviceTypeOK, CallbackReturns, Devices
  <1>3. <<>> \in Seq(Sample(device.format))
    OBVIOUS
  <1>4. r \in Seq(Int16) /\ r = <<>>
    BY <1>2, <1>3, Made
  <1>5. BytesLE(<<>>) \in Seq(0..255) /\ BytesLE(<<>>) = <<>>
    BY NoBytes
  <1>6. DeviceTypeOK'
    <2> HIDE DEF r
    <2>1. samples' \in Seq(Int16) /\ chunk' \in Seq(0..255)
      BY <1>2
    <2>2. QED
      BY <1>1, <1>2, <1>3, <2>1 DEF DeviceInv, DeviceTypeOK
  <1>7. DriftBounded' /\ (callbacks' = 0 => outputs' = 0)
    BY <1>1, <1>2 DEF DeviceInv, DriftBounded
  <1>8. QED
    BY <1>2, <1>4, <1>5, <1>6, <1>7 DEF DeviceInv

-----------------------------------------------------------------------------
(* Theorems. *)

\* What is sent is what the arithmetic makes of the callback's own data, in 16
\* bits and bytes, and the stream has the device's time.
THEOREM DeviceInvariant == DeviceSpec => []DeviceInv
  <1>1. DeviceInv /\ [DeviceNext]_deviceVars => DeviceInv'
    <2>1. SUFFICES ASSUME DeviceInv, [DeviceNext]_deviceVars PROVE DeviceInv'
      OBVIOUS
    <2>2. ASSUME NEW n \in 1..MaxFrames,
                 NEW data \in [1..(n * device.channels) -> Sample(device.format)],
                 Callback(data)
          PROVE  DeviceInv'
      BY <2>1, <2>2, CallbackInv
    <2>3. CASE CallbackReturns
      BY <2>1, <2>3, ReturnInv
    <2>4. CASE UNCHANGED deviceVars
      BY <2>1, <2>4 DEF DeviceInv, DeviceTypeOK, DriftBounded, deviceVars
    <2>5. QED
      BY <2>1, <2>2, <2>3, <2>4 DEF DeviceNext
  <1>2. QED
    BY InitInv, <1>1, PTL DEF DeviceSpec

\* No audio is lost, and the stream outruns the device by less than a sample per
\* callback, whatever the rate and the lengths of the callbacks.
THEOREM StreamKeepsTime == DeviceSpec => []DriftBounded
  <1>1. DeviceInv => DriftBounded
    BY DEF DeviceInv
  <1>2. QED
    BY DeviceInvariant, <1>1, PTL

\* Every callback's sums, averages, interpolations and bytes stay between what
\* its quietest and its loudest sample are worth: nothing wraps round, for any
\* number of channels and any samples of the format.
THEOREM NothingWraps == DeviceSpec => []WithinInput
  <1>1. DeviceInv => WithinInput
    <2>1. SUFFICES ASSUME DeviceInv, NEW i \in 1..(Len(chunk) \div 2)
                   PROVE  /\ \E k \in 1..Len(input) : Level(input[k]) <= Decoded(i)
                          /\ \E k \in 1..Len(input) : Level(input[k]) >= Decoded(i)
      BY DEF WithinInput
    <2> DEFINE r == Resample(Mono(input, device), device.rate)
    <2>2. /\ device \in Devices /\ input \in Seq(Sample(device.format))
          /\ samples = r /\ chunk = BytesLE(samples)
      BY <2>1 DEF DeviceInv, DeviceTypeOK, Devices
    <2>3. /\ r \in Seq(Int16) /\ Len(r) \in Nat
          /\ input = <<>> => r = <<>>
          /\ input # <<>> =>
               \E lo, hi \in 1..Len(input) :
                 \A j \in 1..Len(r) : /\ Worth(input[lo], device) <= r[j]
                                      /\ r[j] <= Worth(input[hi], device)
      BY <2>2, Made
    <2> HIDE DEF r
    <2>4. /\ Len(chunk) = 2 * Len(samples) /\ Len(samples) \in Nat
          /\ \A j \in 1..Len(samples) :
               LET u == chunk[2 * j - 1] + 256 * chunk[2 * j] IN
               samples[j] = IF u < 32768 THEN u ELSE u - 65536
      BY <2>2, <2>3, Bytes, SMTT(30)
    <2>5. Len(chunk) \div 2 = Len(samples)
      BY <2>4
    <2>6. i \in 1..Len(samples) /\ Decoded(i) = samples[i]
      BY <2>1, <2>4, <2>5 DEF Decoded
    <2>7. input # <<>>
      <3>1. CASE input = <<>>
        <4>1. Len(samples) = 0
          BY <2>2, <2>3, <3>1
        <4>2. QED
          BY <2>6, <4>1
      <3>2. QED
        BY <3>1
    <2>8. PICK lo, hi \in 1..Len(input) :
            /\ Worth(input[lo], device) <= samples[i]
            /\ samples[i] <= Worth(input[hi], device)
      BY <2>2, <2>3, <2>6, <2>7
    <2>9. \A x : Level(x) = Worth(x, device)
      BY DEF Level, Worth
    <2>10. Worth(input[hi], device) >= samples[i]
      <3>1. input[hi] \in Sample(device.format) /\ samples[i] \in Int16
        BY <2>2, <2>3, <2>6, ElementOfSeq
      <3>2. Worth(input[hi], device) \in Int /\ samples[i] \in Int
        BY <2>2, <3>1, WorthInRange, SixteenInt
      <3>3. QED
        BY <2>8, <3>2
    <2>11. QED
      BY <2>6, <2>8, <2>9, <2>10
  <1>2. QED
    BY DeviceInvariant, <1>1, PTL
=============================================================================
