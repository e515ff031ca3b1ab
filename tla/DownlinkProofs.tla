--------------------------- MODULE DownlinkProofs ----------------------------
(***************************************************************************)
(* The codec inverts itself on every message, and the way of a message     *)
(* from its bytes to the loudspeaker keeps messages and samples whole and  *)
(* in order, whatever the frames cut.                                      *)
(*                                                                         *)
(* What FlattenSeq makes of a sequence takes an induction on its length: a *)
(* set of numbers that has 0 and, with each, the next is all of Nat        *)
(* (Induction).                                                            *)
(***************************************************************************)
EXTENDS Downlink, SequenceTheorems, WellFoundedInduction, TLAPS

-----------------------------------------------------------------------------
(* Induction. *)

\* A set of numbers has a least one.
LEMMA Least ==
  ASSUME NEW T \in SUBSET Nat, T # {}
  PROVE  \E x \in T : \A y \in T : ~(y < x)
  <1>1. \E x \in T : \A y \in T : ~(<<y, x>> \in OpToRel(<, Nat))
    BY NatLessThanWellFounded, WFMin
  <1>2. QED
    BY <1>1 DEF OpToRel

\* What holds at 1, and at n + 1 if at n < top, holds at top.
LEMMA Induction ==
  ASSUME NEW top \in Nat, top >= 1, NEW Good \in SUBSET Nat, 1 \in Good,
         \A n \in Nat : n >= 1 /\ n < top /\ n \in Good => n + 1 \in Good
  PROVE  top \in Good
  <1>1. SUFFICES ASSUME top \notin Good PROVE FALSE
    OBVIOUS
  <1> DEFINE Bad == {n \in Nat : n >= 1 /\ n \notin Good}
  <1>2. PICK x \in Bad : \A y \in Bad : ~(y < x)
    <2>1. top \in Bad
      BY <1>1
    <2> HIDE DEF Bad
    <2>2. Bad \in SUBSET Nat
      BY DEF Bad
    <2>3. QED
      BY <2>1, <2>2, Least
  <1>3. x \in Nat /\ x >= 1 /\ x \notin Good /\ x # 1
    BY <1>2
  <1>4. x - 1 \in Nat /\ x - 1 >= 1 /\ x - 1 < x /\ (x - 1) + 1 = x
    BY <1>3
  <1>5. x <= top
    <2>1. top \in Bad
      BY <1>1
    <2>2. QED
      BY <1>2, <1>3, <2>1
  <1>6. x - 1 \in Good
    BY <1>2, <1>4
  <1>7. QED
    BY <1>3, <1>4, <1>5, <1>6

-----------------------------------------------------------------------------
(* Concatenating sequences of sequences. *)

\* What FlattenSeq goes through: flats(s)[n] is the first n of s, concatenated.
IsFlats(g, s) ==
  /\ DOMAIN g = 1..Len(s)
  /\ \A n \in 1..Len(s) : g[n] = IF n = 1 THEN s[n] ELSE g[n - 1] \o s[n]

Flats(s) ==
  CHOOSE g : g = [n \in 1..Len(s) |-> IF n = 1 THEN s[n] ELSE g[n - 1] \o s[n]]

\* The concatenations of the first strings, 1 of them, 2, and so on, exist.
LEMMA FlatsExist ==
  ASSUME NEW S, NEW s \in Seq(Seq(S)), s # <<>>
  PROVE  \E g \in [1..Len(s) -> Seq(S)] : IsFlats(g, s)
  <1> DEFINE Up(k) == \E g \in [1..k -> Seq(S)] :
                        \A n \in 1..k : g[n] = IF n = 1 THEN s[n] ELSE g[n - 1] \o s[n]
             Good == {k \in Nat : k <= Len(s) => Up(k)}
  <1>1. Len(s) \in Nat /\ Len(s) >= 1
    BY EmptySeq
  <1>2. \A n \in 1..Len(s) : s[n] \in Seq(S)
    BY ElementOfSeq
  <1>3. 1 \in Good
    <2> DEFINE g == [n \in 1..1 |-> s[1]]
    <2>1. g \in [1..1 -> Seq(S)] /\ \A n \in 1..1 : n = 1 /\ g[n] = s[n]
      BY <1>1, <1>2
    <2> HIDE DEF g
    <2>2. Up(1)
      BY <2>1
    <2> HIDE DEF Up
    <2>3. QED
      BY <2>2
  <1>4. ASSUME NEW k \in Nat, k >= 1, k < Len(s), k \in Good
        PROVE  k + 1 \in Good
    <2>1. PICK g \in [1..k -> Seq(S)] :
            \A n \in 1..k : g[n] = IF n = 1 THEN s[n] ELSE g[n - 1] \o s[n]
      <3> HIDE DEF Up
      <3>1. Up(k)
        BY <1>1, <1>4
      <3>2. QED
        BY <3>1, Zenon DEF Up
    <2> DEFINE h == [n \in 1..(k + 1) |-> IF n = k + 1 THEN g[k] \o s[k + 1] ELSE g[n]]
    <2>2. g[k] \in Seq(S) /\ s[k + 1] \in Seq(S)
      BY <1>1, <1>2, <1>4, <2>1
    <2>3. g[k] \o s[k + 1] \in Seq(S)
      BY <2>2, ConcatProperties
    <2>4. h \in [1..(k + 1) -> Seq(S)]
      BY <2>1, <2>3
    <2>5. ASSUME NEW n \in 1..(k + 1)
          PROVE  h[n] = IF n = 1 THEN s[n] ELSE h[n - 1] \o s[n]
      <3>1. CASE n = k + 1
        <4>1. n # 1 /\ n - 1 = k /\ k \in 1..(k + 1) /\ k # k + 1
          BY <1>4, <3>1
        <4>2. h[n] = g[k] \o s[n] /\ h[k] = g[k]
          BY <3>1, <4>1
        <4>3. QED
          BY <4>1, <4>2
      <3>2. CASE n # k + 1
        <4>1. n \in 1..k /\ n # k + 1
          BY <3>2
        <4>2. h[n] = g[n]
          BY <4>1
        <4>3. n # 1 => h[n - 1] = g[n - 1]
          BY <4>1
        <4>4. QED
          BY <2>1, <4>1, <4>2, <4>3
      <3>3. QED
        BY <3>1, <3>2
    <2> HIDE DEF h
    <2>6. Up(k + 1)
      BY <2>4, <2>5
    <2> HIDE DEF Up
    <2>7. QED
      BY <2>6
  <1>5. Len(s) \in Good
    <2> HIDE DEF Good
    <2>1. Good \in SUBSET Nat
      BY DEF Good
    <2>2. QED
      BY <1>1, <1>3, <1>4, <2>1, Induction
  <1>6. PICK g \in [1..Len(s) -> Seq(S)] :
          \A n \in 1..Len(s) : g[n] = IF n = 1 THEN s[n] ELSE g[n - 1] \o s[n]
    BY <1>1, <1>5
  <1>7. QED
    BY <1>6 DEF IsFlats

\* So Flats are these, and FlattenSeq, which chooses them, is their last.
LEMMA FlatsAre ==
  ASSUME NEW S, NEW s \in Seq(Seq(S)), s # <<>>
  PROVE  /\ IsFlats(Flats(s), s)
         /\ FlattenSeq(s) = Flats(s)[Len(s)]
  <1>1. PICK g \in [1..Len(s) -> Seq(S)] : IsFlats(g, s)
    BY FlatsExist
  <1>2. g = [n \in 1..Len(s) |-> IF n = 1 THEN s[n] ELSE g[n - 1] \o s[n]]
    BY <1>1, Zenon DEF IsFlats
  <1> DEFINE f == Flats(s)
  <1>3. f = [n \in 1..Len(s) |-> IF n = 1 THEN s[n] ELSE f[n - 1] \o s[n]]
    BY <1>2, Zenon DEF Flats
  <1>4. FlattenSeq(s) = f[Len(s)]
    <2>1. Len(s) # 0
      BY EmptySeq
    <2>2. QED
      BY <2>1 DEF FlattenSeq, Flats
  <1> HIDE DEF f
  <1>5. DOMAIN f = 1..Len(s)
    BY <1>3
  <1>6. \A n \in 1..Len(s) : f[n] = IF n = 1 THEN s[n] ELSE f[n - 1] \o s[n]
    BY <1>3, Zenon
  <1>7. IsFlats(f, s)
    BY <1>5, <1>6 DEF IsFlats
  <1>8. QED
    BY <1>4, <1>7 DEF f

\* There is one way to concatenate.
LEMMA FlatsAgree ==
  ASSUME NEW S, NEW s \in Seq(Seq(S)), NEW t \in Seq(Seq(S)), NEW g, NEW h,
         IsFlats(g, s), IsFlats(h, t),
         NEW top \in Nat, top >= 1, top <= Len(s), top <= Len(t),
         \A n \in 1..top : s[n] = t[n]
  PROVE  g[top] = h[top]
  <1> DEFINE Good == {k \in Nat : k <= top => g[k] = h[k]}
  <1>1. Len(s) \in Nat /\ Len(t) \in Nat
    OBVIOUS
  <1>2. 1 \in Good
    <2>1. 1 \in 1..Len(s) /\ 1 \in 1..Len(t) /\ 1 \in 1..top
      BY <1>1
    <2>2. g[1] = s[1] /\ h[1] = t[1] /\ s[1] = t[1]
      BY <2>1 DEF IsFlats
    <2>3. QED
      BY <2>2
  <1>3. ASSUME NEW k \in Nat, k >= 1, k < top, k \in Good
        PROVE  k + 1 \in Good
    <2>1. k + 1 \in 1..Len(s) /\ k + 1 \in 1..Len(t) /\ k + 1 \in 1..top
          /\ k + 1 # 1 /\ (k + 1) - 1 = k
      BY <1>1, <1>3
    <2>2. g[k + 1] = g[k] \o s[k + 1] /\ h[k + 1] = h[k] \o t[k + 1]
      BY <2>1 DEF IsFlats
    <2>3. g[k] = h[k] /\ s[k + 1] = t[k + 1]
      BY <1>3, <2>1
    <2>4. g[k + 1] = h[k + 1] /\ k + 1 \in Nat
      BY <2>2, <2>3
    <2>5. QED
      BY <2>4
  <1> HIDE DEF Good
  <1>4. top \in Good
    <2>1. Good \in SUBSET Nat
      BY DEF Good
    <2>2. QED
      BY <1>2, <1>3, <2>1, Induction
  <1>5. QED
    BY <1>4 DEF Good

\* Concatenating sequences of S gives a sequence of S.
LEMMA FlattenType ==
  ASSUME NEW S, NEW s \in Seq(Seq(S))
  PROVE  FlattenSeq(s) \in Seq(S)
  <1>1. CASE s = <<>>
    BY <1>1 DEF FlattenSeq
  <1>2. CASE s # <<>>
    <2>1. PICK g \in [1..Len(s) -> Seq(S)] : IsFlats(g, s)
      BY <1>2, FlatsExist
    <2>2. Len(s) \in Nat /\ Len(s) >= 1
      BY <1>2, EmptySeq
    <2>3. Flats(s)[Len(s)] = g[Len(s)]
      <3>1. IsFlats(Flats(s), s)
        BY <1>2, FlatsAre
      <3> DEFINE f == Flats(s)
                 l == Len(s)
      <3>2. IsFlats(f, s) /\ l \in Nat /\ l >= 1 /\ l <= Len(s)
        BY <2>2, <3>1
      <3> HIDE DEF f, l
      <3>3. f[l] = g[l]
        BY <2>1, <3>2, FlatsAgree
      <3>4. QED
        BY <3>3 DEF f, l
    <2>4. FlattenSeq(s) = Flats(s)[Len(s)]
      BY <1>2, FlatsAre
    <2>5. g[Len(s)] \in Seq(S)
      BY <2>1, <2>2, SMTT(30)
    <2>6. QED
      BY <2>3, <2>4, <2>5
  <1>3. QED
    BY <1>1, <1>2

\* One more at the end.
LEMMA FlattenAppend ==
  ASSUME NEW S, NEW s \in Seq(Seq(S)), NEW x \in Seq(S)
  PROVE  FlattenSeq(Append(s, x)) = FlattenSeq(s) \o x
  <1> DEFINE t == Append(s, x)
             l == Len(s)
             f == Flats(s)
             g == Flats(t)
  <1>1. /\ t \in Seq(Seq(S)) /\ t # <<>> /\ l \in Nat /\ Len(t) = l + 1
        /\ t[l + 1] = x /\ \A n \in 1..l : t[n] = s[n]
    <2>1. t \in Seq(Seq(S)) /\ l \in Nat
      OBVIOUS
    <2>2. Len(t) = l + 1 /\ t[l + 1] = x
      OBVIOUS
    <2>3. \A n \in 1..l : t[n] = s[n]
      OBVIOUS
    <2> HIDE DEF t, l
    <2>4. t # <<>>
      <3>1. l + 1 # 0
        BY <2>1
      <3>2. QED
        BY <2>2, <3>1, EmptySeq
    <2>5. QED
      BY <2>1, <2>2, <2>3, <2>4
  <1>2. IsFlats(g, t) /\ FlattenSeq(t) = g[Len(t)]
    BY <1>1, FlatsAre
  <1> HIDE DEF t, g
  <1>3. CASE s = <<>>
    <2>1. l = 0 /\ FlattenSeq(s) = <<>> /\ l + 1 = 1
      BY <1>3 DEF FlattenSeq
    <2>2. 1 \in 1..Len(t) /\ Len(t) = 1
      BY <1>1, <2>1
    <2>3. FlattenSeq(t) = t[1]
      BY <1>2, <2>2 DEF IsFlats
    <2>4. t[1] = x
      BY <1>1, <2>1
    <2>5. <<>> \o x = x
      BY ConcatEmptySeq
    <2>6. QED
      BY <2>1, <2>3, <2>4, <2>5 DEF t
  <1>4. CASE s # <<>>
    <2>1. l >= 1 /\ IsFlats(f, s) /\ FlattenSeq(s) = f[l]
      BY <1>4, EmptySeq, FlatsAre
    <2> HIDE DEF f, l
    <2>2. l + 1 \in 1..Len(t) /\ l + 1 # 1 /\ (l + 1) - 1 = l
      BY <1>1, <2>1
    <2>3. g[l + 1] = g[l] \o x
      BY <1>1, <1>2, <2>2 DEF IsFlats
    <2>4. g[l] = f[l]
      <3>1. l <= Len(s) /\ l <= Len(t) /\ \A n \in 1..l : t[n] = s[n]
        BY <1>1 DEF l
      <3>2. QED
        BY <1>1, <1>2, <2>1, <3>1, FlatsAgree
    <2>5. QED
      BY <1>1, <1>2, <2>1, <2>3, <2>4 DEF t
  <1>5. QED
    BY <1>3, <1>4

\* The first apart.
LEMMA FlattenHead ==
  ASSUME NEW S, NEW s \in Seq(Seq(S)), s # <<>>
  PROVE  FlattenSeq(s) = Head(s) \o FlattenSeq(Tail(s))
  <1> DEFINE t == Tail(s)
             l == Len(s)
             f == Flats(s)
             g == Flats(t)
  <1>1. /\ t \in Seq(Seq(S)) /\ l \in Nat /\ l >= 1 /\ Len(t) = l - 1
        /\ Head(s) = s[1] /\ s[1] \in Seq(S)
        /\ \A n \in 1..(l - 1) : t[n] = s[n + 1] /\ t[n] \in Seq(S)
    <2>1. l \in Nat /\ l >= 1
      BY EmptySeq
    <2>2. t \in Seq(Seq(S)) /\ Len(t) = l - 1 /\ \A n \in 1..(l - 1) : t[n] = s[n + 1]
      BY <2>1
    <2>3. s[1] \in Seq(S) /\ \A n \in 1..Len(t) : t[n] \in Seq(S)
      BY <2>1, <2>2, ElementOfSeq
    <2>4. QED
      BY <2>1, <2>2, <2>3
  <1>2. IsFlats(f, s) /\ FlattenSeq(s) = f[l]
    BY FlatsAre
  <1> HIDE DEF t, f, l
  <1>3. f[1] = s[1]
    <2>1. 1 \in 1..Len(s)
      BY <1>1 DEF l
    <2>2. QED
      BY <1>2, <2>1 DEF IsFlats
  <1>4. CASE t = <<>>
    <2>1. l = 1 /\ FlattenSeq(t) = <<>>
      BY <1>1, <1>4 DEF FlattenSeq
    <2>2. s[1] \o <<>> = s[1]
      BY <1>1, ConcatEmptySeq
    <2>3. QED
      BY <1>1, <1>2, <1>3, <2>1, <2>2 DEF t
  <1>5. CASE t # <<>>
    <2>1. IsFlats(g, t) /\ FlattenSeq(t) = g[Len(t)]
      BY <1>1, <1>5, FlatsAre
    <2>2. PICK h \in [1..Len(t) -> Seq(S)] : IsFlats(h, t)
      BY <1>1, <1>5, FlatsExist
    <2>3. Len(t) \in Nat /\ Len(t) >= 1
      BY <1>1, <1>5, EmptySeq
    <2> HIDE DEF g
    <2>4. \A k \in 1..Len(t) : g[k] \in Seq(S)
      <3>1. ASSUME NEW k \in 1..Len(t) PROVE g[k] = h[k]
        <4>1. k \in Nat /\ k >= 1 /\ k <= Len(t)
          BY <2>3
        <4>2. \A n \in 1..k : t[n] = t[n]
          OBVIOUS
        <4>3. t \in Seq(Seq(S)) /\ IsFlats(g, t) /\ IsFlats(h, t)
          BY <1>1, <2>1, <2>2
        <4>4. QED
          BY <4>1, <4>2, <4>3, FlatsAgree
      <3>2. QED
        BY <2>2, <3>1
    <2> DEFINE Good == {k \in Nat : k <= Len(t) => f[k + 1] = s[1] \o g[k]}
    <2>5. 1 \in Good
      <3>1. 1 \in 1..Len(t) /\ 2 \in 1..Len(s) /\ 1 + 1 = 2 /\ 2 - 1 = 1 /\ 2 # 1
        BY <1>1, <2>3 DEF l
      <3>2. g[1] = t[1] /\ f[2] = f[1] \o s[2]
        BY <1>2, <2>1, <3>1 DEF IsFlats
      <3>3. t[1] = s[2]
        BY <1>1, <2>3
      <3>4. QED
        BY <1>3, <3>1, <3>2, <3>3
    <2>6. ASSUME NEW k \in Nat, k >= 1, k < Len(t), k \in Good
          PROVE  k + 1 \in Good
      <3>1. /\ k + 1 \in 1..Len(t) /\ k + 1 # 1 /\ (k + 1) - 1 = k
            /\ k + 2 \in 1..Len(s) /\ k + 2 # 1 /\ (k + 2) - 1 = k + 1
            /\ k + 1 \in 1..(l - 1) /\ (k + 1) + 1 = k + 2 /\ k \in 1..Len(t)
        BY <1>1, <2>3, <2>6, SMTT(30) DEF l
      <3>2. g[k + 1] = g[k] \o t[k + 1] /\ f[k + 2] = f[k + 1] \o s[k + 2]
        <4>1. IsFlats(g, t) /\ IsFlats(f, s)
          BY <1>2, <2>1
        <4>2. g[k + 1] = g[k] \o t[k + 1]
          BY <3>1, <4>1 DEF IsFlats
        <4>3. f[k + 2] = f[k + 1] \o s[k + 2]
          BY <3>1, <4>1 DEF IsFlats
        <4>4. QED
          BY <4>2, <4>3
      <3>3. t[k + 1] = s[k + 2] /\ t[k + 1] \in Seq(S)
        BY <1>1, <3>1, Zenon
      <3>4. f[k + 1] = s[1] \o g[k]
        <4>1. k <= Len(t)
          BY <2>3, <2>6
        <4>2. QED
          BY <2>6, <4>1, Zenon
      <3>5. (s[1] \o g[k]) \o t[k + 1] = s[1] \o (g[k] \o t[k + 1])
        <4>1. s[1] \in Seq(S) /\ g[k] \in Seq(S) /\ t[k + 1] \in Seq(S)
          BY <1>1, <2>4, <3>1, <3>3, Zenon
        <4>2. \A x, y, z \in Seq(S) : (x \o y) \o z = x \o (y \o z)
          BY ConcatAssociative, SMTT(30)
        <4>3. QED
          BY <4>1, <4>2, Zenon
      <3>6. f[(k + 1) + 1] = s[1] \o g[k + 1] /\ k + 1 \in Nat
        <4>1. k + 1 \in Nat
          OBVIOUS
        <4>2. QED
          BY <3>1, <3>2, <3>3, <3>4, <3>5, <4>1, Zenon
      <3>7. QED
        BY <3>6
    <2> HIDE DEF Good
    <2>7. Len(t) \in Good
      <3>1. Good \in SUBSET Nat
        BY DEF Good
      <3> DEFINE top == Len(t)
      <3>2. top \in Nat /\ top >= 1
        BY <2>3
      <3>3. \A k \in Nat : k >= 1 /\ k < top /\ k \in Good => k + 1 \in Good
        BY <2>6
      <3> HIDE DEF top
      <3>4. top \in Good
        BY <2>5, <3>1, <3>2, <3>3, Induction, Zenon
      <3>5. QED
        BY <3>4 DEF top
    <2>8. f[Len(t) + 1] = s[1] \o g[Len(t)] /\ Len(t) + 1 = l
      <3>1. Len(t) + 1 = l /\ Len(t) <= Len(t)
        BY <1>1, <2>3
      <3>2. QED
        BY <2>7, <3>1, Zenon DEF Good
    <2>9. QED
      BY <1>1, <1>2, <2>1, <2>8 DEF t
  <1>6. QED
    BY <1>4, <1>5

-----------------------------------------------------------------------------
(* Numbers. *)

\* A byte is a number from 0 to 255.
LEMMA Bytes255 ==
  ASSUME NEW x \in Int
  PROVE  x \in Byte <=> 0 <= x /\ x <= 255
  BY DEF Byte

\* U32 inverts BigEndian below 2^31.
LEMMA BigEndianIs ==
  ASSUME NEW n \in Nat, n <= MaxInt
  PROVE  /\ BigEndian(n) \in Seq(Byte)
         /\ Len(BigEndian(n)) = 4
         /\ U32(BigEndian(n)) = n
  <1> DEFINE a == n \div 16777216
             b == (n \div 65536) % 256
             c == (n \div 256) % 256
             d == n % 256
  <1>1. a \in Int /\ 0 <= a /\ a <= 127
    BY DEF MaxInt
  <1>2. b \in Int /\ 0 <= b /\ b <= 255 /\ c \in Int /\ 0 <= c /\ c <= 255
        /\ d \in Int /\ 0 <= d /\ d <= 255
    OBVIOUS
  <1>3. a * 16777216 + b * 65536 + c * 256 + d = n
    OBVIOUS
  <1>4. BigEndian(n) = <<a, b, c, d>>
    BY DEF BigEndian
  <1> HIDE DEF a, b, c, d
  <1>5. a \in Byte /\ b \in Byte /\ c \in Byte /\ d \in Byte
    BY <1>1, <1>2, Bytes255
  <1>6. <<a, b, c, d>> \in Seq(Byte) /\ Len(<<a, b, c, d>>) = 4
    BY <1>5
  <1>7. U32(<<a, b, c, d>>) = n
    BY <1>1, <1>2, <1>3 DEF U32
  <1>8. QED
    BY <1>4, <1>6, <1>7

\* Four bytes are a number.
LEMMA U32Type ==
  ASSUME NEW b \in Seq(Byte), Len(b) = 4
  PROVE  U32(b) \in Nat
  <1>1. b[1] \in Byte /\ b[2] \in Byte /\ b[3] \in Byte /\ b[4] \in Byte
    <2>1. \A i \in 1..4 : b[i] \in Byte
      BY ElementOfSeq
    <2>2. QED
      BY <2>1
  <1>2. b[1] \in Nat /\ b[2] \in Nat /\ b[3] \in Nat /\ b[4] \in Nat
    <2>1. \A x \in Byte : x \in Nat
      BY DEF Byte
    <2>2. QED
      BY <1>1, <2>1, Zenon
  <1>3. QED
    BY <1>2, SMTT(30) DEF U32, MaxInt

-----------------------------------------------------------------------------
(* Data that agree with some bytes, as far as they go. *)

At(data, off, s) ==
  \A i \in 1..Len(s) : off + i <= Len(data) => data[off + i] = s[i]

\* Strings of bytes joined are a string of bytes.
LEMMA Joined ==
  \A a, b \in Seq(Byte) : a \o b \in Seq(Byte) /\ Len(a \o b) = Len(a) + Len(b)
  BY ConcatProperties

\* ... with two strings of bytes, one after the other.
LEMMA Split ==
  ASSUME NEW data \in Seq(Byte), NEW a \in Seq(Byte), NEW b \in Seq(Byte), NEW off \in Nat,
         At(data, off, a \o b)
  PROVE  At(data, off, a) /\ At(data, off + Len(a), b)
  <1>1. Len(a) \in Nat /\ Len(b) \in Nat /\ Len(data) \in Nat
    OBVIOUS
  <1>2. Len(a \o b) = Len(a) + Len(b)
    OBVIOUS
  <1>3. ASSUME NEW i \in 1..Len(a), off + i <= Len(data)
        PROVE  data[off + i] = a[i]
    <2>1. i \in 1..Len(a \o b) /\ (a \o b)[i] = a[i]
      BY <1>1, <1>2
    <2>2. QED
      BY <1>3, <2>1 DEF At
  <1>4. ASSUME NEW i \in 1..Len(b), (off + Len(a)) + i <= Len(data)
        PROVE  data[(off + Len(a)) + i] = b[i]
    <2> DEFINE j == Len(a) + i
    <2>1. j \in 1..Len(a \o b) /\ (a \o b)[j] = b[i] /\ off + j = (off + Len(a)) + i
      BY <1>1, <1>2
    <2> HIDE DEF j
    <2>2. QED
      BY <1>4, <2>1 DEF At
  <1>5. QED
    BY <1>3, <1>4 DEF At

\* A slice of them is those bytes, if it is there.
LEMMA SliceAt ==
  ASSUME NEW data \in Seq(Byte), NEW off \in Nat, NEW s \in Seq(Byte),
         At(data, off, s), off + Len(s) <= Len(data)
  PROVE  Slice(data, off, Len(s)) = s
  <1> DEFINE t == Slice(data, off, Len(s))
             n == Len(s)
  <1>1. n \in Nat /\ Len(data) \in Nat
    OBVIOUS
  <1>2. t \in Seq(Byte) /\ Len(t) = n /\ \A i \in 1..n : t[i] = data[off + i]
    <2> DEFINE u == SubSeq(data, off + 1, off + n)
    <2>1. t = u
      BY DEF Slice
    <2> HIDE DEF n
    <2>2. Len(u) = n /\ \A i \in 1..n : u[i] = data[off + i]
      BY <1>1 DEF n
    <2>3. u \in Seq(Byte)
      BY <1>1 DEF n
    <2>4. QED
      BY <2>1, <2>2, <2>3
  <1>3. \A i \in 1..n : t[i] = s[i]
    <2> HIDE DEF t
    <2>1. QED
      BY <1>1, <1>2 DEF At
  <1> HIDE DEF t
  <1>4. t = s
    BY <1>2, <1>3, SeqEqual
  <1>5. QED
    BY <1>4 DEF t

-----------------------------------------------------------------------------
(* Readers.  What each returns where some bytes were written, if they are   *)
(* all there, and that it asks for more if they are not; and what it may     *)
(* return whatever the bytes are.                                            *)

\* Where four bytes begin, Read4 gives them, or says that the data ends.
LEMMA Read4At ==
  ASSUME NEW data \in Seq(Byte), NEW off \in Nat, NEW b \in Seq(Byte), Len(b) = 4,
         At(data, off, b)
  PROVE  /\ off + 4 <= Len(data) =>
              Read4(data, off) = [err |-> Ok, off |-> off + 4, val |-> b]
         /\ off + 4 > Len(data) => Read4(data, off).err \in More
  <1>1. CASE off + 4 <= Len(data)
    <2>1. Slice(data, off, 4) = b
      BY <1>1, SliceAt
    <2>2. ~(off + 4 > Len(data))
      BY <1>1
    <2>3. QED
      BY <1>1, <2>1, <2>2 DEF Read4
  <1>2. CASE off + 4 > Len(data)
    BY <1>2 DEF Read4, More
  <1>3. Len(data) \in Nat
    OBVIOUS
  <1>4. QED
    BY <1>1, <1>2, <1>3

\* Where a number begins, ReadU32 gives it, or says that the data ends.
LEMMA ReadU32At ==
  ASSUME NEW data \in Seq(Byte), NEW off \in Nat, NEW n \in Nat, n <= MaxInt,
         At(data, off, BigEndian(n))
  PROVE  /\ off + 4 <= Len(data) =>
              ReadU32(data, off) = [err |-> Ok, off |-> off + 4, val |-> n]
         /\ off + 4 > Len(data) => ReadU32(data, off).err \in More
  <1> DEFINE b == BigEndian(n)
             r == Read4(data, off)
  <1>1. b \in Seq(Byte) /\ Len(b) = 4 /\ U32(b) = n /\ At(data, off, b)
    BY BigEndianIs
  <1> HIDE DEF b
  <1>2. /\ off + 4 <= Len(data) => r = [err |-> Ok, off |-> off + 4, val |-> b]
        /\ off + 4 > Len(data) => r.err \in More
    BY <1>1, Read4At
  <1>3. ReadU32(data, off) = IF r.err = Ok THEN [r EXCEPT !.val = U32(r.val)] ELSE r
    BY DEF ReadU32
  <1>4. Ok \notin More
    BY DEF Ok, More
  <1> HIDE DEF r
  <1>5. ASSUME off + 4 <= Len(data)
        PROVE  ReadU32(data, off) = [err |-> Ok, off |-> off + 4, val |-> n]
    BY <1>1, <1>2, <1>3, <1>5
  <1>6. ASSUME off + 4 > Len(data)
        PROVE  ReadU32(data, off).err \in More
    BY <1>2, <1>3, <1>4, <1>6
  <1>7. QED
    BY <1>5, <1>6

\* Any four bytes.
LEMMA Read4Is ==
  ASSUME NEW data \in Seq(Byte), NEW off \in Nat
  PROVE  \/ /\ Read4(data, off).err = Ok
            /\ off + 4 <= Len(data)
            /\ Read4(data, off).off = off + 4
            /\ Read4(data, off).val \in Seq(Byte)
            /\ Len(Read4(data, off).val) = 4
            /\ Read4(data, off) =
                 [err |-> Ok, off |-> off + 4, val |-> Read4(data, off).val]
         \/ /\ Read4(data, off).err = "ReadOverflow"
            /\ off + 4 > Len(data)
  <1>1. CASE off + 4 > Len(data)
    BY <1>1 DEF Read4
  <1>2. CASE ~(off + 4 > Len(data))
    <2> DEFINE t == Slice(data, off, 4)
    <2>1. Len(data) \in Nat /\ off + 4 <= Len(data)
      BY <1>2
    <2>2. t \in Seq(Byte) /\ Len(t) = 4
      BY <2>1 DEF Slice
    <2> HIDE DEF t
    <2>3. Read4(data, off) = [err |-> Ok, off |-> off + 4, val |-> t]
      BY <1>2 DEF Read4, t
    <2>4. QED
      BY <2>1, <2>2, <2>3
  <1>3. QED
    BY <1>1, <1>2

\* Of any bytes, ReadU32 takes four or fails.
LEMMA ReadU32Is ==
  ASSUME NEW data \in Seq(Byte), NEW off \in Nat
  PROVE  LET r == ReadU32(data, off) IN
         \/ /\ r.err = Ok /\ r.off = off + 4 /\ off + 4 <= Len(data) /\ r.val \in Nat
            /\ r = [err |-> Ok, off |-> off + 4, val |-> r.val]
         \/ r.err = "ReadOverflow"
  <1> DEFINE q == Read4(data, off)
             r == ReadU32(data, off)
  <1>1. r = IF q.err = Ok THEN [q EXCEPT !.val = U32(q.val)] ELSE q
    BY DEF ReadU32
  <1>2. \/ /\ q.err = Ok /\ off + 4 <= Len(data)
           /\ q.val \in Seq(Byte) /\ Len(q.val) = 4
           /\ q = [err |-> Ok, off |-> off + 4, val |-> q.val]
        \/ q.err = "ReadOverflow"
    BY Read4Is
  <1> HIDE DEF q, r
  <1>3. CASE q.err = "ReadOverflow"
    <2>1. q.err # Ok
      BY <1>3 DEF Ok
    <2>2. QED
      BY <1>1, <1>3, <2>1 DEF r
  <1>4. CASE /\ q.err = Ok /\ off + 4 <= Len(data)
             /\ q.val \in Seq(Byte) /\ Len(q.val) = 4
             /\ q = [err |-> Ok, off |-> off + 4, val |-> q.val]
    <2> DEFINE v == q.val
    <2>1. U32(v) \in Nat
      BY <1>4, U32Type
    <2>2. q = [err |-> Ok, off |-> off + 4, val |-> v] /\ r = [q EXCEPT !.val = U32(v)]
      BY <1>1, <1>4
    <2> HIDE DEF v
    <2>3. r = [err |-> Ok, off |-> off + 4, val |-> U32(v)]
      BY <2>2
    <2>4. QED
      BY <1>4, <2>1, <2>3 DEF r
  <1>5. QED
    BY <1>2, <1>3, <1>4

\* Where a string's length and bytes begin, ReadString gives the string, or says
\* that the data ends.
LEMMA ReadStringAt ==
  ASSUME NEW data \in Seq(Byte), NEW off \in Nat, NEW s \in Seq(Byte), IsText(s),
         At(data, off, StringBE(s))
  PROVE  /\ StringBE(s) \in Seq(Byte) /\ Len(StringBE(s)) = 4 + Len(s)
         /\ off + 4 + Len(s) <= Len(data) =>
              ReadString(data, off) = [err |-> Ok, off |-> off + 4 + Len(s), val |-> s]
         /\ off + 4 + Len(s) > Len(data) => ReadString(data, off).err \in More
  <1> DEFINE l == Len(s)
             b == BigEndian(l)
             n == ReadU32(data, off)
  <1>1. l \in Nat /\ l <= MaxInt /\ Len(data) \in Nat
    BY DEF IsText
  <1>2. b \in Seq(Byte) /\ Len(b) = 4
    BY <1>1, BigEndianIs
  <1>3. At(data, off, b) /\ At(data, off + 4, s)
    <2>1. At(data, off, b \o s)
      BY DEF StringBE
    <2> HIDE DEF b
    <2>2. At(data, off, b) /\ At(data, off + Len(b), s)
      BY <1>2, <2>1, Split
    <2>3. QED
      BY <1>2, <2>2
  <1>4. StringBE(s) \in Seq(Byte) /\ Len(StringBE(s)) = 4 + l
    <2> HIDE DEF b
    <2>1. b \o s \in Seq(Byte)
      BY <1>2
    <2>2. Len(b \o s) = Len(b) + Len(s)
      BY <1>2, Joined, Zenon
    <2>3. QED
      BY <1>2, <2>1, <2>2 DEF StringBE, b
  <1>5. /\ off + 4 <= Len(data) => n = [err |-> Ok, off |-> off + 4, val |-> l]
        /\ off + 4 > Len(data) => n.err \in More
    <2> HIDE DEF l
    <2>1. QED
      BY <1>1, <1>3, ReadU32At
  <1>6. Ok \notin More /\ "ReadOverflow" \in More
    BY DEF Ok, More
  <1> HIDE DEF l, n, b
  <1>7. ASSUME off + 4 > Len(data)
        PROVE  ReadString(data, off).err \in More
    <2>1. n.err # Ok /\ n.err \in More
      BY <1>5, <1>6, <1>7
    <2>2. ReadString(data, off) = n
      BY <2>1 DEF ReadString, n
    <2>3. QED
      BY <2>1, <2>2
  <1>8. ASSUME off + 4 <= Len(data), off + 4 + l > Len(data)
        PROVE  ReadString(data, off).err \in More
    <2>1. n = [err |-> Ok, off |-> off + 4, val |-> l]
      BY <1>5, <1>8
    <2>2. n.err = Ok /\ n.val > Len(data) - n.off
      BY <1>1, <1>8, <2>1
    <2>3. ReadString(data, off) = [n EXCEPT !.err = "ReadOverflow"]
      BY <2>2 DEF ReadString, n
    <2>4. ReadString(data, off).err = "ReadOverflow"
      BY <2>1, <2>3
    <2>5. QED
      BY <1>6, <2>4
  <1>9. ASSUME off + 4 + l <= Len(data)
        PROVE  ReadString(data, off) = [err |-> Ok, off |-> off + 4 + l, val |-> s]
    <2>1. n = [err |-> Ok, off |-> off + 4, val |-> l]
      BY <1>1, <1>5, <1>9
    <2>2. n.err = Ok /\ ~(n.val > Len(data) - n.off) /\ n.off = off + 4 /\ n.val = l
      BY <1>1, <1>9, <2>1
    <2> DEFINE t == Slice(data, n.off, n.val)
    <2>3. t = s
      <3> DEFINE o == off + 4
      <3>1. o \in Nat /\ o + Len(s) <= Len(data) /\ At(data, o, s)
        BY <1>3, <1>9 DEF l
      <3> HIDE DEF o
      <3>2. Slice(data, o, Len(s)) = s
        BY <3>1, SliceAt
      <3>3. QED
        BY <2>2, <3>2 DEF o, l
    <2>4. ReadString(data, off) =
            [err |-> IF \E i \in 1..Len(t) : t[i] = 255 THEN "Utf8DecodeError" ELSE Ok,
             off |-> n.off + n.val, val |-> t]
      BY <2>2 DEF ReadString, n
    <2> HIDE DEF t
    <2>5. ~\E i \in 1..Len(t) : t[i] = 255
      BY <2>3 DEF IsText
    <2>6. QED
      BY <2>2, <2>3, <2>4, <2>5
  <1>10. QED
    BY <1>1, <1>4, <1>7, <1>8, <1>9 DEF l

\* Of any bytes, ReadString takes at least its length and stays within them.
LEMMA ReadStringIs ==
  ASSUME NEW data \in Seq(Byte), NEW off \in Nat
  PROVE  LET r == ReadString(data, off) IN
         r.err = Ok =>
           /\ r.off \in Nat /\ r.off >= off + 4 /\ r.off <= Len(data)
           /\ r.val \in Seq(Byte)
  <1> DEFINE n == ReadU32(data, off)
             r == ReadString(data, off)
             t == Slice(data, n.off, n.val)
  <1>1. \/ /\ n.err = Ok /\ n.off = off + 4 /\ off + 4 <= Len(data) /\ n.val \in Nat
        \/ n.err = "ReadOverflow"
    BY ReadU32Is
  <1>2. Len(data) \in Nat /\ "ReadOverflow" # Ok
    BY DEF Ok
  <1>3. n.err # Ok => r = n
    <2> HIDE DEF n
    <2>1. QED
      BY DEF ReadString, n
  <1>4. n.err = Ok /\ n.val > Len(data) - n.off => r = [n EXCEPT !.err = "ReadOverflow"]
    <2> HIDE DEF n
    <2>1. QED
      BY DEF ReadString, n
  <1>5. n.err = Ok /\ ~(n.val > Len(data) - n.off) =>
          r = [err |-> IF \E i \in 1..Len(t) : t[i] = 255 THEN "Utf8DecodeError" ELSE Ok,
               off |-> n.off + n.val, val |-> t]
    <2> HIDE DEF n
    <2>1. QED
      BY DEF ReadString, n
  <1>6. CASE n.err # Ok
    BY <1>3, <1>6
  <1>7. CASE n.err = Ok /\ n.val > Len(data) - n.off
    <2>1. r = [n EXCEPT !.err = "ReadOverflow"]
      BY <1>4, <1>7
    <2>2. r.err = "ReadOverflow"
      <3> DEFINE m == [n EXCEPT !.err = "ReadOverflow"]
      <3>1. n = [err |-> Ok, off |-> off + 4, val |-> n.val]
        BY <1>2, <1>7, ReadU32Is
      <3> HIDE DEF n, r
      <3>2. QED
        BY <2>1, <3>1
    <2>3. QED
      BY <1>2, <2>2
  <1>8. CASE n.err = Ok /\ ~(n.val > Len(data) - n.off)
    <2>1. n.off = off + 4 /\ off + 4 <= Len(data) /\ n.val \in Nat
      BY <1>1, <1>2, <1>8
    <2>2. t \in Seq(Byte)
      <3> DEFINE o == n.off
                 v == n.val
      <3>1. o \in Nat /\ v \in Nat /\ o + v <= Len(data)
        BY <1>2, <1>8, <2>1
      <3> HIDE DEF o, v
      <3>2. Slice(data, o, v) \in Seq(Byte)
        BY <1>2, <3>1 DEF Slice
      <3>3. QED
        BY <3>2 DEF o, v
    <2> HIDE DEF n, t, r
    <2>3. r.off = n.off + n.val /\ r.val = t
      BY <1>5, <1>8
    <2>4. n.off + n.val <= Len(data)
      BY <1>2, <1>8, <2>1
    <2>5. QED
      BY <1>2, <2>1, <2>2, <2>3, <2>4 DEF r
  <1>9. QED
    BY <1>6, <1>7, <1>8

-----------------------------------------------------------------------------
(* A field. *)

\* What ReadField makes of what it read.
Advance(p, name, r) ==
  [err |-> r.err, off |-> r.off, msg |-> [p.msg EXCEPT ![name] = Given(r.val)]]

\* unmarshal has read o bytes of a message and knows msg of it, or there are
\* fewer.
Progress(p, o, msg, data) ==
  \/ p = [err |-> Ok, off |-> o, msg |-> msg] /\ o <= Len(data)
  \/ p.err \in More /\ o > Len(data)

\* It has read bytes that are there, whatever they are.
Within(p, data) ==
  p.err = Ok => /\ p = [err |-> Ok, off |-> p.off, msg |-> p.msg]
                /\ p.off \in Nat /\ p.off >= 4 /\ p.off <= Len(data)
                /\ p.msg \in AnyMessage

\* Reading a field that is there keeps Progress, the field being added.
LEMMA Advanced ==
  ASSUME NEW data \in Seq(Byte), NEW p, NEW o \in Nat, NEW n \in Nat, NEW msg, NEW val,
         NEW name, NEW r,
         p.err = Ok, Progress(p, o, msg, data),
         o + n <= Len(data) => r = [err |-> Ok, off |-> o + n, val |-> val],
         o + n > Len(data) => r.err \in More
  PROVE  Progress(Advance(p, name, r), o + n, [msg EXCEPT ![name] = Given(val)], data)
  <1>1. Ok \notin More /\ Len(data) \in Nat
    BY DEF Ok, More
  <1>2. p.msg = msg
    BY <1>1 DEF Progress
  <1>3. CASE o + n <= Len(data)
    <2>1. r.err = Ok /\ r.off = o + n /\ r.val = val
      BY <1>3
    <2>2. Advance(p, name, r) = [err |-> Ok, off |-> o + n, msg |-> [msg EXCEPT ![name] = Given(val)]]
      BY <1>2, <2>1 DEF Advance
    <2> DEFINE a == Advance(p, name, r)
               m == [msg EXCEPT ![name] = Given(val)]
    <2> HIDE DEF a, m
    <2>3. a = [err |-> Ok, off |-> o + n, msg |-> m]
      BY <2>2 DEF a, m
    <2>4. Progress(a, o + n, m, data)
      BY <1>3, <2>3 DEF Progress
    <2>5. QED
      BY <2>4 DEF a, m
  <1>4. CASE o + n > Len(data)
    <2>1. Advance(p, name, r).err = r.err
      BY DEF Advance
    <2>2. QED
      BY <1>4, <2>1 DEF Progress
  <1>5. QED
    BY <1>1, <1>3, <1>4

\* Once too little is there it stays so.
LEMMA Short ==
  ASSUME NEW data \in Seq(Byte), NEW p, NEW o \in Nat, NEW n \in Nat, NEW msg, NEW m,
         p.err # Ok, Progress(p, o, msg, data)
  PROVE  Progress(p, o + n, m, data)
  <1>1. Len(data) \in Nat
    OBVIOUS
  <1>2. QED
    BY <1>1 DEF Progress

\* ReadField, by what it read.
Step(p, name, present, r) == IF p.err # Ok \/ ~present THEN p ELSE Advance(p, name, r)

\* So does a field that may be there: it is taken as it is in the message.
LEMMA Stepped ==
  ASSUME NEW data \in Seq(Byte), NEW p, NEW o \in Nat, NEW n \in Nat, NEW msg,
         NEW name, NEW present \in BOOLEAN, NEW r, NEW option,
         Progress(p, o, msg, data),
         p.err = Ok /\ present =>
           \E v : /\ option = Given(v)
                  /\ o + n <= Len(data) => r = [err |-> Ok, off |-> o + n, val |-> v]
                  /\ o + n > Len(data) => r.err \in More,
         p.err = Ok /\ ~present => n = 0 /\ [msg EXCEPT ![name] = option] = msg
  PROVE  Progress(Step(p, name, present, r), o + n, [msg EXCEPT ![name] = option], data)
  <1> DEFINE m == [msg EXCEPT ![name] = option]
             q == Step(p, name, present, r)
  <1>1. CASE p.err # Ok
    <2>1. q = p
      BY <1>1 DEF Step
    <2> HIDE DEF m, q
    <2>2. Progress(q, o + n, m, data)
      BY <1>1, <2>1, Short
    <2>3. QED
      BY <2>2 DEF m, q
  <1>2. CASE p.err = Ok /\ ~present
    <2>1. q = p /\ n = 0 /\ m = msg
      BY <1>2 DEF Step
    <2> HIDE DEF m, q
    <2>2. Progress(q, o + n, m, data)
      BY <2>1
    <2>3. QED
      BY <2>2 DEF m, q
  <1>3. CASE p.err = Ok /\ present
    <2>1. PICK v : /\ option = Given(v)
                   /\ o + n <= Len(data) => r = [err |-> Ok, off |-> o + n, val |-> v]
                   /\ o + n > Len(data) => r.err \in More
      BY <1>3
    <2>2. Progress(Advance(p, name, r), o + n, [msg EXCEPT ![name] = Given(v)], data)
      BY <1>3, <2>1, Advanced
    <2>3. q = Advance(p, name, r) /\ option = Given(v)
      BY <1>3, <2>1 DEF Step
    <2> HIDE DEF q
    <2>4. QED
      BY <2>2, <2>3 DEF q
  <1>4. QED
    BY <1>1, <1>2, <1>3

\* The fields of unmarshal are steps of this form.
LEMMA FieldsRead ==
  ASSUME NEW data, NEW p
  PROVE  /\ ReadEvent(data, p) =
              Step(p, "event", ContainsEvent(p.msg.type_flag), ReadU32(data, p.off))
         /\ ReadSessionId(data, p) =
              Step(p, "session_id", ShouldReadSessionId(p.msg), ReadString(data, p.off))
         /\ ReadConnectId(data, p) =
              Step(p, "connect_id", ShouldReadConnectId(p.msg), ReadString(data, p.off))
         /\ ReadSequence(data, p) =
              Step(p, "sequence", ContainsSequence(p.msg.type_flag), Read4(data, p.off))
         /\ ReadErrorCode(data, p) =
              Step(p, "error_code", p.msg.msg_type = ErrorMsg, Read4(data, p.off))
  <1>1. ReadEvent(data, p) =
          Step(p, "event", ContainsEvent(p.msg.type_flag), ReadU32(data, p.off))
    BY Zenon DEF ReadEvent, ReadField, Step, Advance
  <1>2. ReadSessionId(data, p) =
          Step(p, "session_id", ShouldReadSessionId(p.msg), ReadString(data, p.off))
    BY Zenon DEF ReadSessionId, ReadField, Step, Advance
  <1>3. ReadConnectId(data, p) =
          Step(p, "connect_id", ShouldReadConnectId(p.msg), ReadString(data, p.off))
    BY Zenon DEF ReadConnectId, ReadField, Step, Advance
  <1>4. ReadSequence(data, p) =
          Step(p, "sequence", ContainsSequence(p.msg.type_flag), Read4(data, p.off))
    BY Zenon DEF ReadSequence, ReadField, Step, Advance
  <1>5. ReadErrorCode(data, p) =
          Step(p, "error_code", p.msg.msg_type = ErrorMsg, Read4(data, p.off))
    BY Zenon DEF ReadErrorCode, ReadField, Step, Advance
  <1>6. QED
    BY <1>1, <1>2, <1>3, <1>4, <1>5

-----------------------------------------------------------------------------
(* A message's fields, one after the other. *)

\* A message up to its k-th field.
Sofar(m, k) ==
  [msg_type |-> m.msg_type, type_flag |-> m.type_flag,
   event |-> IF k >= 1 THEN m.event ELSE Absent,
   session_id |-> IF k >= 2 THEN m.session_id ELSE Absent,
   connect_id |-> IF k >= 3 THEN m.connect_id ELSE Absent,
   sequence |-> IF k >= 4 THEN m.sequence ELSE Absent,
   error_code |-> IF k >= 5 THEN m.error_code ELSE Absent,
   payload |-> IF k >= 6 THEN m.payload ELSE <<>>]

\* Each field read brings the message so far one field further ...
LEMMA SofarSteps ==
  ASSUME NEW m
  PROVE  /\ [Sofar(m, 0) EXCEPT !["event"] = m.event] = Sofar(m, 1)
         /\ [Sofar(m, 1) EXCEPT !["session_id"] = m.session_id] = Sofar(m, 2)
         /\ [Sofar(m, 2) EXCEPT !["connect_id"] = m.connect_id] = Sofar(m, 3)
         /\ [Sofar(m, 3) EXCEPT !["sequence"] = m.sequence] = Sofar(m, 4)
         /\ [Sofar(m, 4) EXCEPT !["error_code"] = m.error_code] = Sofar(m, 5)
         /\ [Sofar(m, 5) EXCEPT !["payload"] = m.payload] = Sofar(m, 6)
  <1>1. [Sofar(m, 0) EXCEPT !["event"] = m.event] = Sofar(m, 1)
    BY DEF Sofar
  <1>2. [Sofar(m, 1) EXCEPT !["session_id"] = m.session_id] = Sofar(m, 2)
    BY DEF Sofar
  <1>3. [Sofar(m, 2) EXCEPT !["connect_id"] = m.connect_id] = Sofar(m, 3)
    BY DEF Sofar
  <1>4. [Sofar(m, 3) EXCEPT !["sequence"] = m.sequence] = Sofar(m, 4)
    BY DEF Sofar
  <1>5. [Sofar(m, 4) EXCEPT !["error_code"] = m.error_code] = Sofar(m, 5)
    BY DEF Sofar
  <1>6. [Sofar(m, 5) EXCEPT !["payload"] = m.payload] = Sofar(m, 6)
    BY DEF Sofar
  <1>7. QED
    BY <1>1, <1>2, <1>3, <1>4, <1>5, <1>6

\* ... until it is the message.
LEMMA SofarAll ==
  ASSUME NEW m \in AnyMessage
  PROVE  Sofar(m, 6) = m
  BY DEF Sofar, AnyMessage

\* An option of one element, or of none.
LEMMA Options ==
  ASSUME NEW S, NEW o \in Seq(S)
  PROVE  /\ Len(o) = 1 => o = Given(o[1]) /\ o[1] \in S
         /\ Len(o) = 0 => o = Absent
  <1>1. ASSUME Len(o) = 1
        PROVE  o = Given(o[1]) /\ o[1] \in S
    <2> DEFINE x == o[1]
    <2>1. x \in S
      <3>1. \A i \in 1..Len(o) : o[i] \in S
        BY ElementOfSeq
      <3>2. 1 \in 1..Len(o)
        BY <1>1
      <3>3. QED
        BY <3>1, <3>2, Zenon
    <2> HIDE DEF x
    <2>2. <<x>> \in Seq(S) /\ Len(<<x>>) = 1 /\ <<x>>[1] = x
      BY <2>1
    <2>3. \A i \in 1..Len(o) : o[i] = <<x>>[i]
      BY <1>1, <2>2 DEF x
    <2>4. o = <<x>>
      BY <1>1, <2>2, <2>3, SeqEqual
    <2>5. QED
      BY <2>1, <2>4 DEF x, Given
  <1>2. ASSUME Len(o) = 0
        PROVE  o = Absent
    BY <1>2, EmptySeq DEF Absent
  <1>3. QED
    BY <1>1, <1>2

\* No bytes are a string of bytes.
LEMMA NoBytes ==
  <<>> \in Seq(Byte) /\ Len(<<>>) = 0
  OBVIOUS

\* write_string_be writes four bytes more than the string has.
LEMMA StringBytes ==
  ASSUME NEW s \in Seq(Byte), IsText(s)
  PROVE  StringBE(s) \in Seq(Byte) /\ Len(StringBE(s)) = 4 + Len(s)
  <1>1. Len(s) \in Nat /\ Len(s) <= MaxInt
    BY DEF IsText
  <1> DEFINE b == BigEndian(Len(s))
  <1>2. b \in Seq(Byte) /\ Len(b) = 4
    BY <1>1, BigEndianIs
  <1> HIDE DEF b
  <1>3. b \o s \in Seq(Byte) /\ Len(b \o s) = Len(b) + Len(s)
    BY <1>2, Joined, Zenon
  <1>4. QED
    BY <1>2, <1>3 DEF StringBE, b

\* marshal makes bytes of every field.
LEMMA FieldBytes ==
  ASSUME NEW m, WellFormed(m)
  PROVE  /\ Field(ContainsEvent(m.type_flag), m.event, BigEndian) \in Seq(Byte)
         /\ Field(ShouldWriteSessionId(m), m.session_id, StringBE) \in Seq(Byte)
         /\ Field(ShouldWriteConnectId(m), m.connect_id, StringBE) \in Seq(Byte)
         /\ Field(ContainsSequence(m.type_flag), m.sequence, Same) \in Seq(Byte)
         /\ Field(m.msg_type = ErrorMsg, m.error_code, Same) \in Seq(Byte)
         /\ StringBE(m.payload) \in Seq(Byte)
         /\ Len(StringBE(m.payload)) >= 4
  <1>1. Field(ContainsEvent(m.type_flag), m.event, BigEndian) \in Seq(Byte)
    <2> DEFINE present == ContainsEvent(m.type_flag)
               f == Field(present, m.event, BigEndian)
    <2>1. m.event \in Seq(Nat) /\ present \in BOOLEAN
      BY DEF WellFormed, AnyMessage, ContainsEvent
    <2>2. CASE ~present
      BY <2>2, NoBytes DEF Field
    <2>3. CASE present
      <3> DEFINE v == m.event[1]
      <3>1. v \in Nat /\ v <= MaxInt
        BY <2>1, <2>3, Options DEF WellFormed
      <3>2. f = BigEndian(v)
        BY <2>3 DEF Field
      <3> HIDE DEF f, v
      <3>3. f \in Seq(Byte)
        BY <3>1, <3>2, BigEndianIs
      <3>4. QED
        BY <3>3 DEF f
    <2>4. QED
      BY <2>1, <2>2, <2>3
  <1>2. Field(ShouldWriteSessionId(m), m.session_id, StringBE) \in Seq(Byte)
    <2> DEFINE present == ShouldWriteSessionId(m)
               f == Field(present, m.session_id, StringBE)
    <2>1. m.session_id \in Seq(Seq(Byte)) /\ present \in BOOLEAN
      BY DEF WellFormed, AnyMessage, ShouldWriteSessionId, HasEvent
    <2>2. CASE ~present
      BY <2>2, NoBytes DEF Field
    <2>3. CASE present
      <3> DEFINE v == m.session_id[1]
      <3>1. v \in Seq(Byte) /\ IsText(v)
        BY <2>1, <2>3, Options DEF WellFormed
      <3>2. f = StringBE(v)
        BY <2>3 DEF Field
      <3> HIDE DEF f, v
      <3>3. f \in Seq(Byte)
        BY <3>1, <3>2, StringBytes
      <3>4. QED
        BY <3>3 DEF f
    <2>4. QED
      BY <2>1, <2>2, <2>3
  <1>3. Field(ShouldWriteConnectId(m), m.connect_id, StringBE) \in Seq(Byte)
    <2> DEFINE present == ShouldWriteConnectId(m)
               f == Field(present, m.connect_id, StringBE)
    <2>1. m.connect_id \in Seq(Seq(Byte)) /\ present \in BOOLEAN
      BY DEF WellFormed, AnyMessage, ShouldWriteConnectId, HasEvent
    <2>2. CASE ~present
      BY <2>2, NoBytes DEF Field
    <2>3. CASE present
      <3> DEFINE v == m.connect_id[1]
      <3>1. v \in Seq(Byte) /\ IsText(v)
        BY <2>1, <2>3, Options DEF WellFormed
      <3>2. f = StringBE(v)
        BY <2>3 DEF Field
      <3> HIDE DEF f, v
      <3>3. f \in Seq(Byte)
        BY <3>1, <3>2, StringBytes
      <3>4. QED
        BY <3>3 DEF f
    <2>4. QED
      BY <2>1, <2>2, <2>3
  <1>4. Field(ContainsSequence(m.type_flag), m.sequence, Same) \in Seq(Byte)
    <2> DEFINE present == ContainsSequence(m.type_flag)
               f == Field(present, m.sequence, Same)
    <2>1. m.sequence \in Seq(Seq(Byte)) /\ present \in BOOLEAN
      BY DEF WellFormed, AnyMessage, ContainsSequence
    <2>2. CASE ~present
      BY <2>2, NoBytes DEF Field
    <2>3. CASE present
      <3> DEFINE v == m.sequence[1]
      <3>1. v \in Seq(Byte) /\ Len(v) = 4
        BY <2>1, <2>3, Options DEF WellFormed
      <3>2. f = v
        BY <2>3 DEF Field, Same
      <3> HIDE DEF f, v
      <3>3. f \in Seq(Byte)
        BY <3>1, <3>2
      <3>4. QED
        BY <3>3 DEF f
    <2>4. QED
      BY <2>1, <2>2, <2>3
  <1>5. Field(m.msg_type = ErrorMsg, m.error_code, Same) \in Seq(Byte)
    <2> DEFINE present == m.msg_type = ErrorMsg
               f == Field(present, m.error_code, Same)
    <2>1. m.error_code \in Seq(Seq(Byte)) /\ present \in BOOLEAN
      BY DEF WellFormed, AnyMessage, ErrorMsg
    <2>2. CASE ~present
      BY <2>2, NoBytes DEF Field
    <2>3. CASE present
      <3> DEFINE v == m.error_code[1]
      <3>1. v \in Seq(Byte) /\ Len(v) = 4
        BY <2>1, <2>3, Options DEF WellFormed
      <3>2. f = v
        BY <2>3 DEF Field, Same
      <3> HIDE DEF f, v
      <3>3. f \in Seq(Byte)
        BY <3>1, <3>2
      <3>4. QED
        BY <3>3 DEF f
    <2>4. QED
      BY <2>1, <2>2, <2>3
  <1>6. StringBE(m.payload) \in Seq(Byte) /\ Len(StringBE(m.payload)) >= 4
    <2> DEFINE s == m.payload
               l == Len(s)
               b == BigEndian(l)
    <2>1. s \in Seq(Byte) /\ l \in Nat /\ l <= MaxInt
      BY DEF WellFormed, AnyMessage
    <2> HIDE DEF l
    <2>2. b \in Seq(Byte) /\ Len(b) = 4
      BY <2>1, BigEndianIs
    <2> HIDE DEF b, s
    <2>3. b \o s \in Seq(Byte) /\ Len(b \o s) = Len(b) + Len(s)
      BY <2>1, <2>2, Joined, Zenon
    <2>4. StringBE(s) = b \o s
      BY DEF StringBE, b, l
    <2>5. QED
      BY <2>1, <2>2, <2>3, <2>4 DEF s, l
  <1>7. QED
    BY <1>1, <1>2, <1>3, <1>4, <1>5, <1>6

\* One field is read, of which the reader knows, as the writer did, whether it
\* is there.
LEMMA FieldStep ==
  ASSUME NEW data \in Seq(Byte), NEW p, NEW o \in Nat, NEW n \in Nat, NEW msg, NEW next,
         NEW name, NEW present \in BOOLEAN, NEW there, NEW r, NEW option,
         Progress(p, o, msg, data),
         [msg EXCEPT ![name] = option] = next,
         p.err = Ok => there = present,
         ~present => n = 0 /\ next = msg,
         p.err = Ok /\ present =>
           \E v : /\ option = Given(v)
                  /\ o + n <= Len(data) => r = [err |-> Ok, off |-> o + n, val |-> v]
                  /\ o + n > Len(data) => r.err \in More
  PROVE  Progress(Step(p, name, there, r), o + n, next, data)
  <1>1. Step(p, name, there, r) = Step(p, name, present, r)
    BY DEF Step
  <1>2. p.err = Ok /\ ~present => n = 0 /\ [msg EXCEPT ![name] = option] = msg
    OBVIOUS
  <1>3. Progress(Step(p, name, present, r), o + n, [msg EXCEPT ![name] = option], data)
    BY <1>2, Stepped
  <1>4. QED
    BY <1>1, <1>3

\* The event is read as it was written.
LEMMA EventStep ==
  ASSUME NEW data \in Seq(Byte), NEW m, WellFormed(m), NEW p, NEW o \in Nat,
         Progress(p, o, Sofar(m, 0), data), NEW f,
         f = Field(ContainsEvent(m.type_flag), m.event, BigEndian), At(data, o, f)
  PROVE  Progress(ReadEvent(data, p), o + Len(f), Sofar(m, 1), data)
  <1> DEFINE present == ContainsEvent(m.type_flag)
             there == ContainsEvent(p.msg.type_flag)
             r == ReadU32(data, p.off)
  <1>1. m.event \in Seq(Nat) /\ present \in BOOLEAN
    BY DEF WellFormed, AnyMessage, ContainsEvent
  <1>2. present => m.event = Given(m.event[1]) /\ m.event[1] \in Nat /\ m.event[1] <= MaxInt
    BY <1>1, Options DEF WellFormed
  <1>3. ~present => m.event = Absent
    BY <1>1, Options DEF WellFormed
  <1>4. p.err = Ok => p.off = o /\ p.msg = Sofar(m, 0)
    BY DEF Progress, Ok, More
  <1>5. p.err = Ok => there = present
    BY <1>4 DEF Sofar
  <1>6. ReadEvent(data, p) = Step(p, "event", there, r)
    BY FieldsRead
  <1>7. [Sofar(m, 0) EXCEPT !["event"] = m.event] = Sofar(m, 1)
    BY SofarSteps
  <1>8. ~present => f = <<>> /\ Sofar(m, 1) = Sofar(m, 0)
    BY <1>3 DEF Field, Sofar
  <1>9. present => f = BigEndian(m.event[1])
    BY DEF Field
  <1> HIDE DEF present, there
  <1>10. f \in Seq(Byte) /\ (present => Len(f) = 4)
    <2>1. CASE present
      <3> DEFINE v == m.event[1]
      <3>1. v \in Nat /\ v <= MaxInt /\ f = BigEndian(v)
        BY <1>2, <1>9, <2>1
      <3> HIDE DEF v
      <3>2. QED
        BY <3>1, BigEndianIs
    <2>2. CASE ~present
      BY <1>8, <2>2, NoBytes
    <2>3. QED
      BY <1>1, <2>1, <2>2
  <1>11. ASSUME p.err = Ok, present
         PROVE  \E v : /\ m.event = Given(v)
                       /\ o + Len(f) <= Len(data) => r = [err |-> Ok, off |-> o + Len(f), val |-> v]
                       /\ o + Len(f) > Len(data) => r.err \in More
    <2> DEFINE v == m.event[1]
    <2>1. v \in Nat /\ v <= MaxInt /\ At(data, o, BigEndian(v)) /\ Len(f) = 4
          /\ m.event = Given(v)
      BY <1>2, <1>9, <1>10, <1>11
    <2> HIDE DEF v
    <2>2. /\ o + 4 <= Len(data) => ReadU32(data, o) = [err |-> Ok, off |-> o + 4, val |-> v]
          /\ o + 4 > Len(data) => ReadU32(data, o).err \in More
      BY <2>1, ReadU32At
    <2>3. QED
      BY <1>4, <1>11, <2>1, <2>2
  <1> HIDE DEF r
  <1>12. Progress(Step(p, "event", there, r), o + Len(f), Sofar(m, 1), data)
    <2> DEFINE s == Sofar(m, 0)
               t == Sofar(m, 1)
               n == Len(f)
    <2>1. n \in Nat /\ (f = <<>> => n = 0)
      BY <1>10
    <2> HIDE DEF s, t, n
    <2>2. Progress(p, o, s, data) /\ [s EXCEPT !["event"] = m.event] = t
      BY <1>7 DEF s, t
    <2>3. p.err = Ok /\ present =>
            \E v : /\ m.event = Given(v)
                   /\ o + n <= Len(data) => r = [err |-> Ok, off |-> o + n, val |-> v]
                   /\ o + n > Len(data) => r.err \in More
      BY <1>11 DEF n
    <2>4. ~present => n = 0 /\ t = s
      BY <1>8, <2>1 DEF s, t
    <2>5. Progress(Step(p, "event", there, r), o + n, t, data)
      BY <1>1, <1>5, <2>1, <2>2, <2>3, <2>4, FieldStep
    <2>6. QED
      BY <2>5 DEF t, n
  <1>13. QED
    BY <1>6, <1>10, <1>12

\* The session id is read as it was written, and when it was.
LEMMA SessionStep ==
  ASSUME NEW data \in Seq(Byte), NEW m, WellFormed(m), NEW p, NEW o \in Nat,
         Progress(p, o, Sofar(m, 1), data), NEW f,
         f = Field(ShouldWriteSessionId(m), m.session_id, StringBE), At(data, o, f)
  PROVE  Progress(ReadSessionId(data, p), o + Len(f), Sofar(m, 2), data)
  <1> DEFINE present == ShouldWriteSessionId(m)
             there == ShouldReadSessionId(p.msg)
             r == ReadString(data, p.off)
  <1>1. m.session_id \in Seq(Seq(Byte)) /\ present \in BOOLEAN
    BY DEF WellFormed, AnyMessage, ShouldWriteSessionId, ShouldWriteConnectId, HasEvent
  <1>2. present => m.session_id = Given(m.session_id[1]) /\ m.session_id[1] \in Seq(Byte) /\ IsText(m.session_id[1])
    BY <1>1, Options DEF WellFormed
  <1>3. ~present => m.session_id = Absent
    BY <1>1, Options DEF WellFormed
  <1>4. p.err = Ok => p.off = o /\ p.msg = Sofar(m, 1)
    BY DEF Progress, Ok, More
  <1>5. p.err = Ok => there = present
    BY <1>4 DEF Sofar, ShouldReadSessionId, ShouldWriteSessionId, HasEvent, EventIn
  <1>6. ReadSessionId(data, p) = Step(p, "session_id", there, r)
    BY FieldsRead
  <1>7. [Sofar(m, 1) EXCEPT !["session_id"] = m.session_id] = Sofar(m, 2)
    BY SofarSteps
  <1>8. ~present => f = <<>> /\ Sofar(m, 2) = Sofar(m, 1)
    BY <1>3 DEF Field, Sofar
  <1>9. present => f = StringBE(m.session_id[1])
    BY DEF Field
  <1> HIDE DEF present, there
  <1>10. f \in Seq(Byte) /\ (present => Len(f) = 4 + Len(m.session_id[1]))
    <2>1. CASE present
      <3> DEFINE v == m.session_id[1]
      <3>1. v \in Seq(Byte) /\ f = StringBE(v)
        BY <1>2, <1>9, <2>1
      <3>2. IsText(v)
        BY <1>2, <2>1
      <3> HIDE DEF v
      <3>3. StringBE(v) \in Seq(Byte) /\ Len(StringBE(v)) = 4 + Len(v)
        BY <3>1, <3>2, StringBytes
      <3>4. QED
        BY <3>1, <3>3 DEF v
    <2>2. CASE ~present
      BY <1>8, <2>2, NoBytes
    <2>3. QED
      BY <2>1, <2>2
  <1>11. ASSUME p.err = Ok, present
         PROVE  \E v : /\ m.session_id = Given(v)
                       /\ o + Len(f) <= Len(data) => r = [err |-> Ok, off |-> o + Len(f), val |-> v]
                       /\ o + Len(f) > Len(data) => r.err \in More
    <2> DEFINE v == m.session_id[1]
    <2>1. v \in Seq(Byte) /\ IsText(v) /\ At(data, o, StringBE(v)) /\ Len(f) = 4 + Len(v)
          /\ m.session_id = Given(v)
      BY <1>2, <1>9, <1>10, <1>11
    <2> HIDE DEF v
    <2>2. /\ o + 4 + Len(v) <= Len(data) => ReadString(data, o) = [err |-> Ok, off |-> o + 4 + Len(v), val |-> v]
          /\ o + 4 + Len(v) > Len(data) => ReadString(data, o).err \in More
      BY <2>1, ReadStringAt
    <2>3. r = ReadString(data, o) /\ o + Len(f) = o + 4 + Len(v)
      BY <1>4, <1>11, <2>1
    <2>4. QED
      BY <2>1, <2>2, <2>3, Zenon
  <1> HIDE DEF r
  <1>12. Progress(Step(p, "session_id", there, r), o + Len(f), Sofar(m, 2), data)
    <2> DEFINE s == Sofar(m, 1)
               t == Sofar(m, 2)
               n == Len(f)
    <2>1. n \in Nat /\ (f = <<>> => n = 0)
      BY <1>10
    <2> HIDE DEF s, t, n
    <2>2. Progress(p, o, s, data) /\ [s EXCEPT !["session_id"] = m.session_id] = t
      BY <1>7 DEF s, t
    <2>3. p.err = Ok /\ present =>
            \E v : /\ m.session_id = Given(v)
                   /\ o + n <= Len(data) => r = [err |-> Ok, off |-> o + n, val |-> v]
                   /\ o + n > Len(data) => r.err \in More
      BY <1>11 DEF n
    <2>4. ~present => n = 0 /\ t = s
      BY <1>8, <2>1 DEF s, t
    <2>5. Progress(Step(p, "session_id", there, r), o + n, t, data)
      BY <1>1, <1>5, <2>1, <2>2, <2>3, <2>4, FieldStep
    <2>6. QED
      BY <2>5 DEF t, n
  <1>13. QED
    BY <1>6, <1>10, <1>12

\* The connect id is read as it was written, and when it was.
LEMMA ConnectStep ==
  ASSUME NEW data \in Seq(Byte), NEW m, WellFormed(m), NEW p, NEW o \in Nat,
         Progress(p, o, Sofar(m, 2), data), NEW f,
         f = Field(ShouldWriteConnectId(m), m.connect_id, StringBE), At(data, o, f)
  PROVE  Progress(ReadConnectId(data, p), o + Len(f), Sofar(m, 3), data)
  <1> DEFINE present == ShouldWriteConnectId(m)
             there == ShouldReadConnectId(p.msg)
             r == ReadString(data, p.off)
  <1>1. m.connect_id \in Seq(Seq(Byte)) /\ present \in BOOLEAN
    BY DEF WellFormed, AnyMessage, ShouldWriteSessionId, ShouldWriteConnectId, HasEvent
  <1>2. present => m.connect_id = Given(m.connect_id[1]) /\ m.connect_id[1] \in Seq(Byte) /\ IsText(m.connect_id[1])
    BY <1>1, Options DEF WellFormed
  <1>3. ~present => m.connect_id = Absent
    BY <1>1, Options DEF WellFormed
  <1>4. p.err = Ok => p.off = o /\ p.msg = Sofar(m, 2)
    BY DEF Progress, Ok, More
  <1>5. p.err = Ok => there = present
    BY <1>4 DEF Sofar, ShouldReadConnectId, ShouldWriteConnectId, HasEvent, EventIn
  <1>6. ReadConnectId(data, p) = Step(p, "connect_id", there, r)
    BY FieldsRead
  <1>7. [Sofar(m, 2) EXCEPT !["connect_id"] = m.connect_id] = Sofar(m, 3)
    BY SofarSteps
  <1>8. ~present => f = <<>> /\ Sofar(m, 3) = Sofar(m, 2)
    BY <1>3 DEF Field, Sofar
  <1>9. present => f = StringBE(m.connect_id[1])
    BY DEF Field
  <1> HIDE DEF present, there
  <1>10. f \in Seq(Byte) /\ (present => Len(f) = 4 + Len(m.connect_id[1]))
    <2>1. CASE present
      <3> DEFINE v == m.connect_id[1]
      <3>1. v \in Seq(Byte) /\ f = StringBE(v)
        BY <1>2, <1>9, <2>1
      <3>2. IsText(v)
        BY <1>2, <2>1
      <3> HIDE DEF v
      <3>3. StringBE(v) \in Seq(Byte) /\ Len(StringBE(v)) = 4 + Len(v)
        BY <3>1, <3>2, StringBytes
      <3>4. QED
        BY <3>1, <3>3 DEF v
    <2>2. CASE ~present
      BY <1>8, <2>2, NoBytes
    <2>3. QED
      BY <2>1, <2>2
  <1>11. ASSUME p.err = Ok, present
         PROVE  \E v : /\ m.connect_id = Given(v)
                       /\ o + Len(f) <= Len(data) => r = [err |-> Ok, off |-> o + Len(f), val |-> v]
                       /\ o + Len(f) > Len(data) => r.err \in More
    <2> DEFINE v == m.connect_id[1]
    <2>1. v \in Seq(Byte) /\ IsText(v) /\ At(data, o, StringBE(v)) /\ Len(f) = 4 + Len(v)
          /\ m.connect_id = Given(v)
      BY <1>2, <1>9, <1>10, <1>11
    <2> HIDE DEF v
    <2>2. /\ o + 4 + Len(v) <= Len(data) => ReadString(data, o) = [err |-> Ok, off |-> o + 4 + Len(v), val |-> v]
          /\ o + 4 + Len(v) > Len(data) => ReadString(data, o).err \in More
      BY <2>1, ReadStringAt
    <2>3. r = ReadString(data, o) /\ o + Len(f) = o + 4 + Len(v)
      BY <1>4, <1>11, <2>1
    <2>4. QED
      BY <2>1, <2>2, <2>3, Zenon
  <1> HIDE DEF r
  <1>12. Progress(Step(p, "connect_id", there, r), o + Len(f), Sofar(m, 3), data)
    <2> DEFINE s == Sofar(m, 2)
               t == Sofar(m, 3)
               n == Len(f)
    <2>1. n \in Nat /\ (f = <<>> => n = 0)
      BY <1>10
    <2> HIDE DEF s, t, n
    <2>2. Progress(p, o, s, data) /\ [s EXCEPT !["connect_id"] = m.connect_id] = t
      BY <1>7 DEF s, t
    <2>3. p.err = Ok /\ present =>
            \E v : /\ m.connect_id = Given(v)
                   /\ o + n <= Len(data) => r = [err |-> Ok, off |-> o + n, val |-> v]
                   /\ o + n > Len(data) => r.err \in More
      BY <1>11 DEF n
    <2>4. ~present => n = 0 /\ t = s
      BY <1>8, <2>1 DEF s, t
    <2>5. Progress(Step(p, "connect_id", there, r), o + n, t, data)
      BY <1>1, <1>5, <2>1, <2>2, <2>3, <2>4, FieldStep
    <2>6. QED
      BY <2>5 DEF t, n
  <1>13. QED
    BY <1>6, <1>10, <1>12

\* The sequence is read as it was written.
LEMMA SequenceStep ==
  ASSUME NEW data \in Seq(Byte), NEW m, WellFormed(m), NEW p, NEW o \in Nat,
         Progress(p, o, Sofar(m, 3), data), NEW f,
         f = Field(ContainsSequence(m.type_flag), m.sequence, Same), At(data, o, f)
  PROVE  Progress(ReadSequence(data, p), o + Len(f), Sofar(m, 4), data)
  <1> DEFINE present == ContainsSequence(m.type_flag)
             there == ContainsSequence(p.msg.type_flag)
             r == Read4(data, p.off)
  <1>1. m.sequence \in Seq(Seq(Byte)) /\ present \in BOOLEAN
    BY DEF WellFormed, AnyMessage, ContainsSequence
  <1>2. present => m.sequence = Given(m.sequence[1]) /\ m.sequence[1] \in Seq(Byte) /\ Len(m.sequence[1]) = 4
    BY <1>1, Options DEF WellFormed
  <1>3. ~present => m.sequence = Absent
    BY <1>1, Options DEF WellFormed
  <1>4. p.err = Ok => p.off = o /\ p.msg = Sofar(m, 3)
    BY DEF Progress, Ok, More
  <1>5. p.err = Ok => there = present
    BY <1>4 DEF Sofar
  <1>6. ReadSequence(data, p) = Step(p, "sequence", there, r)
    BY FieldsRead
  <1>7. [Sofar(m, 3) EXCEPT !["sequence"] = m.sequence] = Sofar(m, 4)
    BY SofarSteps
  <1>8. ~present => f = <<>> /\ Sofar(m, 4) = Sofar(m, 3)
    BY <1>3 DEF Field, Sofar
  <1>9. present => f = m.sequence[1]
    BY DEF Field, Same
  <1> HIDE DEF present, there
  <1>10. f \in Seq(Byte) /\ (present => Len(f) = 4)
    BY <1>1, <1>2, <1>8, <1>9, NoBytes
  <1>11. ASSUME p.err = Ok, present
         PROVE  \E v : /\ m.sequence = Given(v)
                       /\ o + Len(f) <= Len(data) => r = [err |-> Ok, off |-> o + Len(f), val |-> v]
                       /\ o + Len(f) > Len(data) => r.err \in More
    <2> DEFINE v == m.sequence[1]
    <2>1. v \in Seq(Byte) /\ Len(v) = 4 /\ At(data, o, v) /\ Len(f) = 4
          /\ m.sequence = Given(v)
      BY <1>2, <1>9, <1>10, <1>11
    <2> HIDE DEF v
    <2>2. /\ o + 4 <= Len(data) => Read4(data, o) = [err |-> Ok, off |-> o + 4, val |-> v]
          /\ o + 4 > Len(data) => Read4(data, o).err \in More
      BY <2>1, Read4At
    <2>3. r = Read4(data, o) /\ o + Len(f) = o + 4
      BY <1>4, <1>11, <2>1
    <2>4. QED
      BY <2>1, <2>2, <2>3, Zenon
  <1> HIDE DEF r
  <1>12. Progress(Step(p, "sequence", there, r), o + Len(f), Sofar(m, 4), data)
    <2> DEFINE s == Sofar(m, 3)
               t == Sofar(m, 4)
               n == Len(f)
    <2>1. n \in Nat /\ (f = <<>> => n = 0)
      BY <1>10
    <2> HIDE DEF s, t, n
    <2>2. Progress(p, o, s, data) /\ [s EXCEPT !["sequence"] = m.sequence] = t
      BY <1>7 DEF s, t
    <2>3. p.err = Ok /\ present =>
            \E v : /\ m.sequence = Given(v)
                   /\ o + n <= Len(data) => r = [err |-> Ok, off |-> o + n, val |-> v]
                   /\ o + n > Len(data) => r.err \in More
      BY <1>11 DEF n
    <2>4. ~present => n = 0 /\ t = s
      BY <1>8, <2>1 DEF s, t
    <2>5. Progress(Step(p, "sequence", there, r), o + n, t, data)
      BY <1>1, <1>5, <2>1, <2>2, <2>3, <2>4, FieldStep
    <2>6. QED
      BY <2>5 DEF t, n
  <1>13. QED
    BY <1>6, <1>10, <1>12

\* The error code is read as it was written.
LEMMA ErrorStep ==
  ASSUME NEW data \in Seq(Byte), NEW m, WellFormed(m), NEW p, NEW o \in Nat,
         Progress(p, o, Sofar(m, 4), data), NEW f,
         f = Field(m.msg_type = ErrorMsg, m.error_code, Same), At(data, o, f)
  PROVE  Progress(ReadErrorCode(data, p), o + Len(f), Sofar(m, 5), data)
  <1> DEFINE present == m.msg_type = ErrorMsg
             there == p.msg.msg_type = ErrorMsg
             r == Read4(data, p.off)
  <1>1. m.error_code \in Seq(Seq(Byte)) /\ present \in BOOLEAN
    BY DEF WellFormed, AnyMessage, ContainsSequence
  <1>2. present => m.error_code = Given(m.error_code[1]) /\ m.error_code[1] \in Seq(Byte) /\ Len(m.error_code[1]) = 4
    BY <1>1, Options DEF WellFormed
  <1>3. ~present => m.error_code = Absent
    BY <1>1, Options DEF WellFormed
  <1>4. p.err = Ok => p.off = o /\ p.msg = Sofar(m, 4)
    BY DEF Progress, Ok, More
  <1>5. p.err = Ok => there = present
    BY <1>4 DEF Sofar
  <1>6. ReadErrorCode(data, p) = Step(p, "error_code", there, r)
    BY FieldsRead
  <1>7. [Sofar(m, 4) EXCEPT !["error_code"] = m.error_code] = Sofar(m, 5)
    BY SofarSteps
  <1>8. ~present => f = <<>> /\ Sofar(m, 5) = Sofar(m, 4)
    BY <1>3 DEF Field, Sofar
  <1>9. present => f = m.error_code[1]
    BY DEF Field, Same
  <1> HIDE DEF present, there
  <1>10. f \in Seq(Byte) /\ (present => Len(f) = 4)
    BY <1>1, <1>2, <1>8, <1>9, NoBytes
  <1>11. ASSUME p.err = Ok, present
         PROVE  \E v : /\ m.error_code = Given(v)
                       /\ o + Len(f) <= Len(data) => r = [err |-> Ok, off |-> o + Len(f), val |-> v]
                       /\ o + Len(f) > Len(data) => r.err \in More
    <2> DEFINE v == m.error_code[1]
    <2>1. v \in Seq(Byte) /\ Len(v) = 4 /\ At(data, o, v) /\ Len(f) = 4
          /\ m.error_code = Given(v)
      BY <1>2, <1>9, <1>10, <1>11
    <2> HIDE DEF v
    <2>2. /\ o + 4 <= Len(data) => Read4(data, o) = [err |-> Ok, off |-> o + 4, val |-> v]
          /\ o + 4 > Len(data) => Read4(data, o).err \in More
      BY <2>1, Read4At
    <2>3. r = Read4(data, o) /\ o + Len(f) = o + 4
      BY <1>4, <1>11, <2>1
    <2>4. QED
      BY <2>1, <2>2, <2>3, Zenon
  <1> HIDE DEF r
  <1>12. Progress(Step(p, "error_code", there, r), o + Len(f), Sofar(m, 5), data)
    <2> DEFINE s == Sofar(m, 4)
               t == Sofar(m, 5)
               n == Len(f)
    <2>1. n \in Nat /\ (f = <<>> => n = 0)
      BY <1>10
    <2> HIDE DEF s, t, n
    <2>2. Progress(p, o, s, data) /\ [s EXCEPT !["error_code"] = m.error_code] = t
      BY <1>7 DEF s, t
    <2>3. p.err = Ok /\ present =>
            \E v : /\ m.error_code = Given(v)
                   /\ o + n <= Len(data) => r = [err |-> Ok, off |-> o + n, val |-> v]
                   /\ o + n > Len(data) => r.err \in More
      BY <1>11 DEF n
    <2>4. ~present => n = 0 /\ t = s
      BY <1>8, <2>1 DEF s, t
    <2>5. Progress(Step(p, "error_code", there, r), o + n, t, data)
      BY <1>1, <1>5, <2>1, <2>2, <2>3, <2>4, FieldStep
    <2>6. QED
      BY <2>5 DEF t, n
  <1>13. QED
    BY <1>6, <1>10, <1>12

\* The payload is read as it was written, and the message is complete.
LEMMA PayloadStep ==
  ASSUME NEW data \in Seq(Byte), NEW m, WellFormed(m), NEW p, NEW o \in Nat,
         Progress(p, o, Sofar(m, 5), data), NEW f,
         f = StringBE(m.payload), At(data, o, f)
  PROVE  Progress(ReadPayload(data, p), o + Len(f), m, data)
  <1> DEFINE s == m.payload
             l == Len(s)
             b == BigEndian(l)
             n == ReadU32(data, p.off)
             u == ReadPayload(data, p)
  <1>1. s \in Seq(Byte) /\ l \in Nat /\ l <= MaxInt /\ m \in AnyMessage
    BY DEF WellFormed, AnyMessage
  <1>2. b \in Seq(Byte) /\ Len(b) = 4
    BY <1>1, BigEndianIs
  <1>3. Len(f) = 4 + l
    <2> HIDE DEF s, b
    <2>1. b \o s \in Seq(Byte) /\ Len(b \o s) = Len(b) + Len(s)
      BY <1>1, <1>2, Joined, Zenon
    <2>2. QED
      BY <1>2, <2>1 DEF StringBE, b, s
  <1>4. At(data, o, b) /\ At(data, o + 4, s)
    <2>1. At(data, o, b \o s)
      BY DEF StringBE
    <2> HIDE DEF b, s
    <2>2. At(data, o, b) /\ At(data, o + Len(b), s)
      BY <1>1, <1>2, <2>1, Split
    <2>3. QED
      BY <1>2, <2>2
  <1>5. Len(data) \in Nat /\ Ok \notin More /\ "PayloadOverflow" \in More
    BY DEF Ok, More
  <1> HIDE DEF l, b
  <1> DEFINE Done == Progress(u, o + (4 + l), m, data)
  <1>6. ASSUME p.err # Ok PROVE Done
    <2>1. u = p
      BY <1>6 DEF ReadPayload
    <2> HIDE DEF u
    <2>2. p.err \in More /\ o > Len(data)
      BY <1>6 DEF Progress
    <2>3. o + (4 + l) > Len(data)
      BY <1>1, <1>5, <2>2
    <2>4. QED
      BY <2>1, <2>2, <2>3 DEF Progress
  <1>7. ASSUME p.err = Ok PROVE Done
    <2>1. p.off = o /\ o <= Len(data) /\ p.msg = Sofar(m, 5)
      BY <1>5, <1>7 DEF Progress
    <2>2. /\ o + 4 <= Len(data) => n = [err |-> Ok, off |-> o + 4, val |-> l]
          /\ o + 4 > Len(data) => n.err \in More
      BY <1>1, <1>4, <2>1, ReadU32At DEF b
    <2> DEFINE part == Sofar(m, 5)
    <2>3. p = [err |-> Ok, off |-> o, msg |-> part]
      BY <1>5, <1>7 DEF Progress
    <2> HIDE DEF part
    <2>4. CASE o + 4 > Len(data)
      <3>1. n.err \in More /\ n.err # Ok
        BY <1>5, <2>2, <2>4
      <3> DEFINE e == n.err
      <3> HIDE DEF n
      <3>2. u = [p EXCEPT !.err = e]
        BY <1>7, <3>1 DEF ReadPayload, n
      <3> HIDE DEF u, e
      <3>3. u.err = e
        BY <2>3, <3>2
      <3>4. o + (4 + l) > Len(data)
        BY <1>1, <1>5, <2>4
      <3>5. QED
        BY <3>1, <3>3, <3>4 DEF Progress, e
    <2>5. CASE o + 4 <= Len(data) /\ o + 4 + l > Len(data)
      <3>1. n.err = Ok /\ n.val > Len(data) - n.off
        BY <1>1, <1>5, <2>2, <2>5
      <3> HIDE DEF n
      <3>2. u = [p EXCEPT !.err = "PayloadOverflow"]
        BY <1>7, <3>1 DEF ReadPayload, n
      <3> HIDE DEF u
      <3>3. u.err \in More
        BY <1>5, <2>3, <3>2
      <3>4. o + (4 + l) > Len(data)
        BY <1>1, <1>5, <2>5
      <3>5. QED
        BY <3>3, <3>4 DEF Progress
    <2>6. CASE o + 4 + l <= Len(data)
      <3>1. n.err = Ok /\ n.off = o + 4 /\ n.val = l /\ ~(n.val > Len(data) - n.off)
        BY <1>1, <1>5, <2>2, <2>6
      <3>2. Slice(data, n.off, n.val) = s
        <4> DEFINE k == o + 4
        <4>1. k \in Nat /\ At(data, k, s)
          BY <1>4
        <4>0. k + l <= Len(data)
          BY <2>6
        <4> HIDE DEF k, s
        <4>2. Slice(data, k, Len(s)) = s
          BY <1>1, <4>1, <4>0, SliceAt DEF l
        <4>3. QED
          BY <3>1, <4>2 DEF k, s, l
      <3> DEFINE t == Slice(data, n.off, n.val)
      <3> HIDE DEF n
      <3>3. u = [err |-> Ok, off |-> n.off + n.val, msg |-> [p.msg EXCEPT !.payload = t]]
        BY <1>7, <3>1 DEF ReadPayload, n
      <3>4. t = s /\ n.off + n.val = o + (4 + l)
        BY <1>1, <3>1, <3>2
      <3>5. [p.msg EXCEPT !.payload = s] = m
        <4>1. [part EXCEPT !.payload = s] = Sofar(m, 6)
          BY SofarSteps DEF part
        <4>2. Sofar(m, 6) = m
          BY <1>1, SofarAll
        <4>3. QED
          BY <2>3, <4>1, <4>2
      <3> HIDE DEF u, t, s
      <3>6. u = [err |-> Ok, off |-> o + (4 + l), msg |-> m]
        BY <3>3, <3>4, <3>5
      <3>7. o + (4 + l) <= Len(data)
        BY <1>1, <1>5, <2>6
      <3>8. QED
        BY <3>6, <3>7 DEF Progress
    <2>7. QED
      BY <1>1, <1>5, <2>4, <2>5, <2>6
  <1>8. QED
    BY <1>3, <1>6, <1>7

-----------------------------------------------------------------------------
(* A whole message. *)

Four(m, ser) == <<17, m.msg_type * 16 + (m.type_flag % 16), ser, 0>>

\* The header gives type and flags as they were written.
LEMMA HeaderStep ==
  ASSUME NEW data \in Seq(Byte), NEW m, WellFormed(m), NEW ser \in Byte,
         At(data, 0, Four(m, ser)), Len(data) >= 4
  PROVE  Progress(Header(data), 4, Sofar(m, 0), data)
  <1> DEFINE b == m.msg_type * 16 + (m.type_flag % 16)
             t == m.msg_type
             g == m.type_flag
  <1>1. t \in MsgType /\ t \in Nat /\ t <= 15 /\ g \in 0..15
    BY SMTT(30) DEF WellFormed, AnyMessage, MsgType
  <1>2. data[2] = b
    <2>1. Len(Four(m, ser)) = 4 /\ Four(m, ser)[2] = b
      BY DEF Four
    <2>2. Len(data) \in Nat /\ 2 \in 1..4 /\ 0 + 2 = 2 /\ 2 <= Len(data)
      OBVIOUS
    <2> HIDE DEF b
    <2>3. QED
      BY <2>1, <2>2 DEF At
  <1>3. data[2] = t * 16 + (g % 16)
    BY <1>2
  <1> HIDE DEF t, g, b
  <1>4. data[2] \div 16 = t /\ data[2] % 16 = g
    BY <1>1, <1>3
  <1>5. MsgTypeFromBits(t) = t
    BY <1>1 DEF MsgTypeFromBits
  <1>6. Header(data) = [err |-> Ok, off |-> 4, msg |-> [Message(t) EXCEPT !.type_flag = g]]
    BY <1>4, <1>5 DEF Header
  <1>7. [Message(t) EXCEPT !.type_flag = g] = Sofar(m, 0)
    BY DEF Message, Sofar, t, g
  <1>8. QED
    BY <1>6, <1>7 DEF Progress

\* marshal's bytes, and what unmarshal makes of data that agree with them as
\* far as they go.
LEMMA RoundTripBytes ==
  ASSUME NEW m, WellFormed(m), NEW ser \in Byte
  PROVE  \E w \in Seq(Byte) :
           /\ Marshal(m, ser) = Given(w)
           /\ Len(w) >= 8
           /\ \A data \in Seq(Byte) :
                At(data, 0, w) =>
                  IF Len(w) <= Len(data)
                    THEN Unmarshal(data) = [err |-> Ok, off |-> Len(w), msg |-> m]
                    ELSE Unmarshal(data).err \in More
  <1> DEFINE h == Four(m, ser)
             f1 == Field(ContainsEvent(m.type_flag), m.event, BigEndian)
             f2 == Field(ShouldWriteSessionId(m), m.session_id, StringBE)
             f3 == Field(ShouldWriteConnectId(m), m.connect_id, StringBE)
             f4 == Field(ContainsSequence(m.type_flag), m.sequence, Same)
             f5 == Field(m.msg_type = ErrorMsg, m.error_code, Same)
             f6 == StringBE(m.payload)
             w == h \o f1 \o f2 \o f3 \o f4 \o f5 \o f6
  <1>1. Marshal(m, ser) = Given(w)
    <2>1. ~Missing(m)
      <3>1. m \in AnyMessage
        BY DEF WellFormed
      <3>2. ContainsEvent(m.type_flag) => m.event # Absent
        BY DEF WellFormed, Absent
      <3>3. ShouldWriteSessionId(m) => m.session_id # Absent
        BY DEF WellFormed, Absent
      <3>4. ShouldWriteConnectId(m) => m.connect_id # Absent
        BY DEF WellFormed, Absent
      <3>5. ContainsSequence(m.type_flag) => m.sequence # Absent
        BY DEF WellFormed, Absent
      <3>6. m.msg_type = ErrorMsg => m.error_code # Absent
        BY DEF WellFormed, Absent
      <3>7. QED
        BY <3>2, <3>3, <3>4, <3>5, <3>6 DEF Missing
    <2>2. QED
      BY <2>1 DEF Marshal, Four
  <1>2. h \in Seq(Byte) /\ Len(h) = 4
    <2> DEFINE b == m.msg_type * 16 + (m.type_flag % 16)
    <2>1. b \in Int /\ 0 <= b /\ b <= 255
      <3>1. m.msg_type \in Nat /\ m.msg_type <= 15 /\ m.type_flag \in 0..15
        BY SMTT(30) DEF WellFormed, AnyMessage, MsgType
      <3>2. QED
        BY <3>1
    <2> HIDE DEF b
    <2>2. b \in Byte /\ 17 \in Byte /\ 0 \in Byte
      BY <2>1 DEF Byte
    <2>3. <<17, b, ser, 0>> \in Seq(Byte) /\ Len(<<17, b, ser, 0>>) = 4
      BY <2>2
    <2>4. QED
      BY <2>3 DEF Four, b
  <1> HIDE DEF h, f1, f2, f3, f4, f5, f6
  <1>3. f1 \in Seq(Byte) /\ f2 \in Seq(Byte) /\ f3 \in Seq(Byte) /\ f4 \in Seq(Byte)
        /\ f5 \in Seq(Byte) /\ f6 \in Seq(Byte) /\ Len(f6) >= 4
    BY FieldBytes DEF f1, f2, f3, f4, f5, f6
  <1> DEFINE w1 == h \o f1
             w2 == w1 \o f2
             w3 == w2 \o f3
             w4 == w3 \o f4
             w5 == w4 \o f5
             w6 == w5 \o f6
  <1>4. /\ w1 \in Seq(Byte) /\ Len(w1) = Len(h) + Len(f1)
        /\ w2 \in Seq(Byte) /\ Len(w2) = Len(w1) + Len(f2)
        /\ w3 \in Seq(Byte) /\ Len(w3) = Len(w2) + Len(f3)
        /\ w4 \in Seq(Byte) /\ Len(w4) = Len(w3) + Len(f4)
        /\ w5 \in Seq(Byte) /\ Len(w5) = Len(w4) + Len(f5)
        /\ w6 \in Seq(Byte) /\ Len(w6) = Len(w5) + Len(f6)
    <2>1. w1 \in Seq(Byte) /\ Len(w1) = Len(h) + Len(f1)
      BY <1>2, <1>3, Joined, Zenon
    <2> HIDE DEF w1
    <2>2. w2 \in Seq(Byte) /\ Len(w2) = Len(w1) + Len(f2)
      BY <2>1, <1>3, Joined, Zenon
    <2> HIDE DEF w2
    <2>3. w3 \in Seq(Byte) /\ Len(w3) = Len(w2) + Len(f3)
      BY <2>2, <1>3, Joined, Zenon
    <2> HIDE DEF w3
    <2>4. w4 \in Seq(Byte) /\ Len(w4) = Len(w3) + Len(f4)
      BY <2>3, <1>3, Joined, Zenon
    <2> HIDE DEF w4
    <2>5. w5 \in Seq(Byte) /\ Len(w5) = Len(w4) + Len(f5)
      BY <2>4, <1>3, Joined, Zenon
    <2> HIDE DEF w5
    <2>6. w6 \in Seq(Byte) /\ Len(w6) = Len(w5) + Len(f6)
      BY <2>5, <1>3, Joined, Zenon
    <2>7. QED
      BY <2>1, <2>2, <2>3, <2>4, <2>5, <2>6
  <1>5. w = w6
    OBVIOUS
  <1> HIDE DEF w, w6, w5, w4, w3, w2, w1
  <1>6. Len(w) >= 8
    <2>1. Len(f1) \in Nat /\ Len(f2) \in Nat /\ Len(f3) \in Nat /\ Len(f4) \in Nat
          /\ Len(f5) \in Nat /\ Len(f6) \in Nat
      BY <1>3
    <2> DEFINE l1 == Len(f1)
               l2 == Len(f2)
               l3 == Len(f3)
               l4 == Len(f4)
               l5 == Len(f5)
               l6 == Len(f6)
    <2> HIDE DEF l1, l2, l3, l4, l5, l6
    <2>2. Len(w) = 4 + l1 + l2 + l3 + l4 + l5 + l6
      BY <1>2, <1>4, <1>5 DEF l1, l2, l3, l4, l5, l6
    <2>3. QED
      BY <1>3, <2>1, <2>2 DEF l1, l2, l3, l4, l5, l6
  <1>7. ASSUME NEW data \in Seq(Byte), At(data, 0, w)
        PROVE  IF Len(w) <= Len(data)
                 THEN Unmarshal(data) = [err |-> Ok, off |-> Len(w), msg |-> m]
                 ELSE Unmarshal(data).err \in More
    <2> DEFINE q0 == Header(data)
               q1 == ReadEvent(data, q0)
               q2 == ReadSessionId(data, q1)
               q3 == ReadConnectId(data, q2)
               q4 == ReadSequence(data, q3)
               q5 == ReadErrorCode(data, q4)
               q6 == ReadPayload(data, q5)
    <2>1. At(data, 0, w5) /\ At(data, Len(w5), f6)
      <3>1. At(data, 0, w5 \o f6)
        BY <1>5, <1>7 DEF w6
      <3>2. At(data, 0, w5) /\ At(data, 0 + Len(w5), f6)
        BY <1>3, <1>4, <3>1, Split
      <3>3. QED
        BY <1>4, <3>2
    <2>2. At(data, 0, w4) /\ At(data, Len(w4), f5)
      <3>1. At(data, 0, w4 \o f5)
        BY <2>1 DEF w5
      <3>2. At(data, 0, w4) /\ At(data, 0 + Len(w4), f5)
        BY <1>3, <1>4, <3>1, Split
      <3>3. QED
        BY <1>4, <3>2
    <2>3. At(data, 0, w3) /\ At(data, Len(w3), f4)
      <3>1. At(data, 0, w3 \o f4)
        BY <2>2 DEF w4
      <3>2. At(data, 0, w3) /\ At(data, 0 + Len(w3), f4)
        BY <1>3, <1>4, <3>1, Split
      <3>3. QED
        BY <1>4, <3>2
    <2>4. At(data, 0, w2) /\ At(data, Len(w2), f3)
      <3>1. At(data, 0, w2 \o f3)
        BY <2>3 DEF w3
      <3>2. At(data, 0, w2) /\ At(data, 0 + Len(w2), f3)
        BY <1>3, <1>4, <3>1, Split
      <3>3. QED
        BY <1>4, <3>2
    <2>5. At(data, 0, w1) /\ At(data, Len(w1), f2)
      <3>1. At(data, 0, w1 \o f2)
        BY <2>4 DEF w2
      <3>2. At(data, 0, w1) /\ At(data, 0 + Len(w1), f2)
        BY <1>3, <1>4, <3>1, Split
      <3>3. QED
        BY <1>4, <3>2
    <2>6. At(data, 0, h) /\ At(data, Len(h), f1)
      <3>1. At(data, 0, h \o f1)
        BY <2>5 DEF w1
      <3>2. At(data, 0, h) /\ At(data, 0 + Len(h), f1)
        BY <1>2, <1>3, <3>1, Split
      <3>3. QED
        BY <1>2, <3>2
    <2>7. CASE Len(data) < 4
      <3>1. Unmarshal(data).err \in More
        BY <2>7 DEF Unmarshal, More
      <3>2. ~(Len(w) <= Len(data))
        BY <1>4, <1>5, <1>6, <2>7
      <3>3. QED
        BY <3>1, <3>2
    <2>8. CASE Len(data) >= 4
      <3>1. Unmarshal(data) = q6
        BY <2>8 DEF Unmarshal
      <3> HIDE DEF q0, q1, q2, q3, q4, q5, q6
      <3>2. Progress(q0, Len(h), Sofar(m, 0), data)
        BY <1>2, <2>6, <2>8, HeaderStep DEF q0, h
      <3>3. Progress(q1, Len(w1), Sofar(m, 1), data)
        BY <1>2, <1>4, <2>6, <3>2, EventStep DEF q1, f1
      <3>4. Progress(q2, Len(w2), Sofar(m, 2), data)
        BY <1>4, <2>5, <3>3, SessionStep, SMTT(30) DEF q2, f2
      <3>5. Progress(q3, Len(w3), Sofar(m, 3), data)
        BY <1>4, <2>4, <3>4, ConnectStep, SMTT(30) DEF q3, f3
      <3>6. Progress(q4, Len(w4), Sofar(m, 4), data)
        BY <1>4, <2>3, <3>5, SequenceStep, SMTT(30) DEF q4, f4
      <3>7. Progress(q5, Len(w5), Sofar(m, 5), data)
        BY <1>4, <2>2, <3>6, ErrorStep, SMTT(30) DEF q5, f5
      <3>8. Progress(q6, Len(w6), m, data)
        BY <1>4, <2>1, <3>7, PayloadStep, SMTT(30) DEF q6, f6
      <3>9. Len(w) \in Nat /\ Len(data) \in Nat
        BY <1>4, <1>5
      <3>10. Progress(q6, Len(w), m, data)
        BY <1>5, <3>8
      <3>11. QED
        BY <3>1, <3>9, <3>10 DEF Progress
    <2>9. Len(data) \in Nat
      OBVIOUS
    <2>10. QED
      BY <2>7, <2>8, <2>9
  <1>8. w \in Seq(Byte)
    BY <1>4, <1>5
  <1>9. QED
    BY <1>1, <1>6, <1>7, <1>8

-----------------------------------------------------------------------------
(* Any bytes. *)

\* A message with one field set is a message.
LEMMA Updated ==
  ASSUME NEW m \in AnyMessage
  PROVE  /\ \A v \in Nat : [m EXCEPT !["event"] = Given(v)] \in AnyMessage
         /\ \A v \in Seq(Byte) :
              /\ [m EXCEPT !["session_id"] = Given(v)] \in AnyMessage
              /\ [m EXCEPT !["connect_id"] = Given(v)] \in AnyMessage
              /\ [m EXCEPT !["sequence"] = Given(v)] \in AnyMessage
              /\ [m EXCEPT !["error_code"] = Given(v)] \in AnyMessage
              /\ [m EXCEPT !["payload"] = v] \in AnyMessage
  <1>1. ASSUME NEW v \in Nat
        PROVE  [m EXCEPT !["event"] = Given(v)] \in AnyMessage
    <2> DEFINE g == Given(v)
    <2>1. g \in Seq(Nat)
      BY DEF Given
    <2> HIDE DEF g
    <2>2. [m EXCEPT !["event"] = g] \in AnyMessage
      BY <2>1 DEF AnyMessage
    <2>3. QED
      BY <2>2 DEF g
  <1>2. ASSUME NEW v \in Seq(Byte)
        PROVE  /\ [m EXCEPT !["session_id"] = Given(v)] \in AnyMessage
               /\ [m EXCEPT !["connect_id"] = Given(v)] \in AnyMessage
               /\ [m EXCEPT !["sequence"] = Given(v)] \in AnyMessage
               /\ [m EXCEPT !["error_code"] = Given(v)] \in AnyMessage
               /\ [m EXCEPT !["payload"] = v] \in AnyMessage
    <2> DEFINE g == Given(v)
    <2>1. g \in Seq(Seq(Byte))
      BY DEF Given
    <2> HIDE DEF g
    <2>2. [m EXCEPT !["session_id"] = g] \in AnyMessage
      BY <2>1 DEF AnyMessage
    <2>3. [m EXCEPT !["connect_id"] = g] \in AnyMessage
      BY <2>1 DEF AnyMessage
    <2>4. [m EXCEPT !["sequence"] = g] \in AnyMessage
      BY <2>1 DEF AnyMessage
    <2>5. [m EXCEPT !["error_code"] = g] \in AnyMessage
      BY <2>1 DEF AnyMessage
    <2>6. [m EXCEPT !["payload"] = v] \in AnyMessage
      BY DEF AnyMessage
    <2>7. QED
      BY <2>2, <2>3, <2>4, <2>5, <2>6 DEF g
  <1>3. QED
    BY <1>1, <1>2

\* A field that stays within the data keeps Within.
LEMMA StepWithin ==
  ASSUME NEW data \in Seq(Byte), NEW p, NEW name, NEW present, NEW r,
         Within(p, data),
         p.err = Ok /\ r.err = Ok =>
           /\ r.off \in Nat /\ r.off >= p.off /\ r.off <= Len(data)
           /\ [p.msg EXCEPT ![name] = Given(r.val)] \in AnyMessage
  PROVE  Within(Step(p, name, present, r), data)
  <1> DEFINE q == Step(p, name, present, r)
             a == Advance(p, name, r)
             g == [p.msg EXCEPT ![name] = Given(r.val)]
  <1>1. CASE p.err # Ok \/ ~present
    <2>1. q = p
      BY <1>1 DEF Step
    <2> HIDE DEF q
    <2>2. QED
      BY <2>1 DEF q
  <1>2. CASE ~(p.err # Ok \/ ~present)
    <2>1. q = a
      BY <1>2 DEF Step
    <2>2. a = [err |-> r.err, off |-> r.off, msg |-> g]
      BY DEF Advance
    <2> HIDE DEF q, a, g
    <2>3. q.err = Ok => /\ q.off \in Nat /\ q.off >= p.off /\ q.off <= Len(data)
                        /\ q.msg \in AnyMessage
      BY <1>2, <2>1, <2>2 DEF g
    <2>0. q.err = Ok => q = [err |-> Ok, off |-> q.off, msg |-> q.msg]
      BY <2>1, <2>2
    <2>4. Within(q, data)
      <3>1. p.off \in Nat /\ p.off >= 4 /\ Len(data) \in Nat
        BY <1>2 DEF Within
      <3>2. QED
        BY <2>3, <2>0, <3>1 DEF Within
    <2>5. QED
      BY <2>4 DEF q
  <1>3. QED
    BY <1>1, <1>2

\* The fields of unmarshal do.
LEMMA FieldsWithin ==
  ASSUME NEW data \in Seq(Byte), NEW p, Within(p, data)
  PROVE  /\ Within(ReadEvent(data, p), data)
         /\ Within(ReadSessionId(data, p), data)
         /\ Within(ReadConnectId(data, p), data)
         /\ Within(ReadSequence(data, p), data)
         /\ Within(ReadErrorCode(data, p), data)
  <1> DEFINE u == ReadU32(data, p.off)
             s == ReadString(data, p.off)
             f == Read4(data, p.off)
             m == p.msg
  <1>1. p.err = Ok => p.off \in Nat /\ Len(data) \in Nat /\ m \in AnyMessage
    BY DEF Within
  <1>2. p.err = Ok /\ u.err = Ok =>
          u.off \in Nat /\ u.off >= p.off /\ u.off <= Len(data) /\ u.val \in Nat
    <2>1. ASSUME p.err = Ok, u.err = Ok
          PROVE  u.off \in Nat /\ u.off >= p.off /\ u.off <= Len(data) /\ u.val \in Nat
      <3>1. p.off \in Nat /\ "ReadOverflow" # Ok
        BY <1>1, <2>1 DEF Ok
      <3> DEFINE o == p.off
      <3> HIDE DEF o
      <3>2. u.off = o + 4 /\ o + 4 <= Len(data) /\ u.val \in Nat
        BY <2>1, <3>1, ReadU32Is DEF o
      <3>3. QED
        BY <3>1, <3>2 DEF o
    <2>2. QED
      BY <2>1
  <1>3. p.err = Ok /\ s.err = Ok =>
          s.off \in Nat /\ s.off >= p.off /\ s.off <= Len(data) /\ s.val \in Seq(Byte)
    <2>1. ASSUME p.err = Ok, s.err = Ok
          PROVE  s.off \in Nat /\ s.off >= p.off /\ s.off <= Len(data) /\ s.val \in Seq(Byte)
      <3>1. p.off \in Nat
        BY <1>1, <2>1
      <3>2. s.off \in Nat /\ s.off >= p.off + 4 /\ s.off <= Len(data) /\ s.val \in Seq(Byte)
        BY <2>1, <3>1, ReadStringIs
      <3> HIDE DEF s
      <3>3. QED
        BY <3>1, <3>2
    <2>2. QED
      BY <2>1
  <1>4. p.err = Ok /\ f.err = Ok =>
          f.off \in Nat /\ f.off >= p.off /\ f.off <= Len(data) /\ f.val \in Seq(Byte)
    <2>1. ASSUME p.err = Ok, f.err = Ok
          PROVE  f.off \in Nat /\ f.off >= p.off /\ f.off <= Len(data) /\ f.val \in Seq(Byte)
      <3>1. p.off \in Nat /\ "ReadOverflow" # Ok
        BY <1>1, <2>1 DEF Ok
      <3>2. f.off = p.off + 4 /\ p.off + 4 <= Len(data) /\ f.val \in Seq(Byte)
        BY <2>1, <3>1, Read4Is
      <3> HIDE DEF f
      <3>3. QED
        BY <3>1, <3>2
    <2>2. QED
      BY <2>1
  <1> HIDE DEF u, s, f
  <1>5. p.err = Ok /\ u.err = Ok => [m EXCEPT !["event"] = Given(u.val)] \in AnyMessage
    BY <1>1, <1>2, Updated
  <1>6. p.err = Ok /\ s.err = Ok =>
          /\ [m EXCEPT !["session_id"] = Given(s.val)] \in AnyMessage
          /\ [m EXCEPT !["connect_id"] = Given(s.val)] \in AnyMessage
    BY <1>1, <1>3, Updated
  <1>7. p.err = Ok /\ f.err = Ok =>
          /\ [m EXCEPT !["sequence"] = Given(f.val)] \in AnyMessage
          /\ [m EXCEPT !["error_code"] = Given(f.val)] \in AnyMessage
    BY <1>1, <1>4, Updated
  <1>8. \A there : Within(Step(p, "event", there, u), data)
    BY <1>2, <1>5, StepWithin
  <1>9. \A there : Within(Step(p, "session_id", there, s), data)
    BY <1>3, <1>6, StepWithin
  <1>10. \A there : Within(Step(p, "connect_id", there, s), data)
    BY <1>3, <1>6, StepWithin
  <1>11. \A there : Within(Step(p, "sequence", there, f), data)
    BY <1>4, <1>7, StepWithin
  <1>12. \A there : Within(Step(p, "error_code", there, f), data)
    BY <1>4, <1>7, StepWithin
  <1>13. /\ ReadEvent(data, p) = Step(p, "event", ContainsEvent(p.msg.type_flag), u)
         /\ ReadSessionId(data, p) = Step(p, "session_id", ShouldReadSessionId(p.msg), s)
         /\ ReadConnectId(data, p) = Step(p, "connect_id", ShouldReadConnectId(p.msg), s)
         /\ ReadSequence(data, p) = Step(p, "sequence", ContainsSequence(p.msg.type_flag), f)
         /\ ReadErrorCode(data, p) = Step(p, "error_code", p.msg.msg_type = ErrorMsg, f)
    BY FieldsRead DEF u, s, f
  <1>14. QED
    BY <1>8, <1>9, <1>10, <1>11, <1>12, <1>13, Zenon

\* After the header, unmarshal is within any data of 4 bytes.
LEMMA HeaderWithin ==
  ASSUME NEW data \in Seq(Byte), Len(data) >= 4
  PROVE  Within(Header(data), data)
  <1> DEFINE b == data[2]
             t == MsgTypeFromBits(b \div 16)
             g == b % 16
  <1>1. b \in Nat /\ Len(data) \in Nat
    <2>1. 2 \in 1..Len(data)
      OBVIOUS
    <2>2. b \in Byte
      BY <2>1, ElementOfSeq
    <2>3. \A x \in Byte : x \in Nat
      BY DEF Byte
    <2>4. b \in Nat
      BY <2>2, <2>3
    <2>5. QED
      BY <2>4
  <1> HIDE DEF b
  <1>2. t \in MsgType \cup {0} /\ g \in 0..15
    BY <1>1 DEF MsgTypeFromBits
  <1>3. Header(data) = [err |-> Ok, off |-> 4, msg |-> [Message(t) EXCEPT !.type_flag = g]]
    BY DEF Header, b
  <1> HIDE DEF t, g
  <1>4. [Message(t) EXCEPT !.type_flag = g] \in AnyMessage
    <2> DEFINE m == [msg_type |-> t, type_flag |-> g, event |-> Absent, session_id |-> Absent,
                     connect_id |-> Absent, sequence |-> Absent, error_code |-> Absent,
                     payload |-> <<>>]
    <2>1. [Message(t) EXCEPT !.type_flag = g] = m
      BY DEF Message
    <2>2. /\ Absent \in Seq(Nat) /\ Absent \in Seq(Seq(Byte))
          /\ <<>> \in Seq(Byte)
      BY DEF Absent
    <2>3. m \in AnyMessage
      BY <1>2, <2>2 DEF AnyMessage
    <2>4. QED
      BY <2>1, <2>3
  <1>5. QED
    BY <1>1, <1>3, <1>4 DEF Within

\* With the payload it is done, 8 bytes on at least, and still within the data.
LEMMA PayloadWithin ==
  ASSUME NEW data \in Seq(Byte), NEW p, Within(p, data)
  PROVE  LET u == ReadPayload(data, p) IN
         u.err = Ok => u.off \in 8..Len(data) /\ u.msg \in AnyMessage
  <1> DEFINE u == ReadPayload(data, p)
             n == ReadU32(data, p.off)
             t == Slice(data, n.off, n.val)
  <1>1. SUFFICES ASSUME u.err = Ok
                 PROVE  u.off \in 8..Len(data) /\ u.msg \in AnyMessage
    OBVIOUS
  <1>2. p.err = Ok
    <2>1. p.err # Ok => u = p
      BY DEF ReadPayload
    <2> HIDE DEF u
    <2>2. QED
      BY <1>1, <2>1
  <1>3. p.off \in Nat /\ p.off >= 4 /\ p.off <= Len(data) /\ p.msg \in AnyMessage
    BY <1>2 DEF Within
  <1>4. \/ /\ n.err = Ok /\ n.off = p.off + 4 /\ p.off + 4 <= Len(data) /\ n.val \in Nat
        \/ n.err = "ReadOverflow"
    BY <1>3, ReadU32Is
  <1>5. "ReadOverflow" # Ok /\ "PayloadOverflow" # Ok /\ Len(data) \in Nat
    BY DEF Ok
  <1> HIDE DEF n
  <1>6. /\ n.err # Ok => u = [p EXCEPT !.err = n.err]
        /\ n.err = Ok /\ n.val > Len(data) - n.off => u = [p EXCEPT !.err = "PayloadOverflow"]
        /\ n.err = Ok /\ ~(n.val > Len(data) - n.off) =>
             u = [err |-> Ok, off |-> n.off + n.val, msg |-> [p.msg EXCEPT !.payload = t]]
    BY <1>2 DEF ReadPayload, n
  <1>7. p = [err |-> Ok, off |-> p.off, msg |-> p.msg]
    BY <1>2 DEF Within
  <1> DEFINE o == p.off
             m == p.msg
             e == n.err
  <1> HIDE DEF u, t, o, m, e
  <1>8. \A x : [p EXCEPT !.err = x].err = x
    <2>1. p = [err |-> Ok, off |-> o, msg |-> m]
      BY <1>7 DEF o, m
    <2>2. QED
      BY <2>1
  <1>9. n.err = Ok /\ ~(n.val > Len(data) - n.off)
    BY <1>1, <1>5, <1>6, <1>8
  <1>10. u = [err |-> Ok, off |-> n.off + n.val, msg |-> [m EXCEPT !.payload = t]]
    BY <1>6, <1>9 DEF m
  <1>11. n.off = o + 4 /\ n.val \in Nat /\ o \in Nat /\ o >= 4 /\ n.val <= Len(data) - n.off
    BY <1>3, <1>4, <1>5, <1>9 DEF o
  <1>12. t \in Seq(Byte)
    <2> DEFINE k == n.off
               v == n.val
    <2>1. k \in Nat /\ v \in Nat /\ k + v <= Len(data)
      BY <1>5, <1>11
    <2> HIDE DEF k, v
    <2>2. Slice(data, k, v) \in Seq(Byte)
      BY <1>5, <2>1 DEF Slice
    <2>3. QED
      BY <2>2 DEF k, v, t
  <1>13. [m EXCEPT !.payload = t] \in AnyMessage
    BY <1>3, <1>12, Updated DEF m
  <1>14. n.off + n.val \in 8..Len(data)
    BY <1>5, <1>11
  <1>15. QED
    BY <1>10, <1>13, <1>14

\* Whatever the bytes, a message takes its header and its payload's length at
\* least, and no more than is there.
LEMMA UnmarshalWithin ==
  ASSUME NEW data \in Seq(Byte)
  PROVE  LET u == Unmarshal(data) IN
         u.err = Ok => u.off \in 8..Len(data) /\ u.msg \in AnyMessage
  <1> DEFINE q0 == Header(data)
             q1 == ReadEvent(data, q0)
             q2 == ReadSessionId(data, q1)
             q3 == ReadConnectId(data, q2)
             q4 == ReadSequence(data, q3)
             q5 == ReadErrorCode(data, q4)
             q6 == ReadPayload(data, q5)
             u == Unmarshal(data)
  <1>1. CASE Len(data) < 4
    <2>1. u.err = "InsufficientData"
      BY <1>1 DEF Unmarshal
    <2>2. QED
      BY <2>1 DEF Ok
  <1>2. CASE Len(data) >= 4
    <2>1. u = q6
      BY <1>2 DEF Unmarshal
    <2> HIDE DEF u, q0, q1, q2, q3, q4, q5, q6
    <2>2. Within(q0, data)
      BY <1>2, HeaderWithin DEF q0
    <2>3. Within(q1, data)
      BY <2>2, FieldsWithin DEF q1
    <2>4. Within(q2, data)
      BY <2>3, FieldsWithin DEF q2
    <2>5. Within(q3, data)
      BY <2>4, FieldsWithin DEF q3
    <2>6. Within(q4, data)
      BY <2>5, FieldsWithin DEF q4
    <2>7. Within(q5, data)
      BY <2>6, FieldsWithin DEF q5
    <2>8. q6.err = Ok => q6.off \in 8..Len(data) /\ q6.msg \in AnyMessage
      BY <2>7, PayloadWithin DEF q6
    <2>9. QED
      BY <2>1, <2>8 DEF u
  <1>3. Len(data) \in Nat
    OBVIOUS
  <1>4. QED
    BY <1>1, <1>2, <1>3

-----------------------------------------------------------------------------
(* What is left of a sequence from some place on. *)

From(s, k) == SubSeq(s, k + 1, Len(s))

\* What is left of a sequence after its first k elements.
LEMMA FromType ==
  ASSUME NEW S, NEW s \in Seq(S), NEW k \in Nat, k <= Len(s)
  PROVE  /\ From(s, k) \in Seq(S) /\ Len(From(s, k)) = Len(s) - k
         /\ \A i \in 1..(Len(s) - k) : From(s, k)[i] = s[k + i]
         /\ From(s, k) = <<>> <=> k = Len(s)
  <1> DEFINE t == SubSeq(s, k + 1, Len(s))
  <1>1. Len(s) \in Nat
    OBVIOUS
  <1>2. \A i \in (k + 1)..Len(s) : s[i] \in S
    BY <1>1, ElementOfSeq
  <1>3. /\ t \in Seq(S)
        /\ Len(t) = IF k + 1 <= Len(s) THEN Len(s) - (k + 1) + 1 ELSE 0
        /\ \A i \in 1..(Len(s) - (k + 1) + 1) : t[i] = s[(k + 1) + i - 1]
    <2> DEFINE a == k + 1
               b == Len(s)
    <2>1. a \in Int /\ b \in Int
      BY <1>1
    <2>2. \A i \in a..b : s[i] \in S
      BY <1>2
    <2> HIDE DEF a, b
    <2>3. /\ SubSeq(s, a, b) \in Seq(S)
          /\ Len(SubSeq(s, a, b)) = IF a <= b THEN b - a + 1 ELSE 0
          /\ \A i \in 1..(b - a + 1) : SubSeq(s, a, b)[i] = s[a + i - 1]
      BY <2>1, <2>2, SubSeqProperties
    <2>4. QED
      BY <2>3 DEF a, b
  <1> HIDE DEF t
  <1>4. Len(t) = Len(s) - k
    <2> DEFINE l == Len(s)
               n == Len(t)
    <2>1. l \in Nat /\ k <= l /\ n = IF k + 1 <= l THEN l - (k + 1) + 1 ELSE 0
      BY <1>1, <1>3
    <2> HIDE DEF l, n
    <2>2. n = l - k
      BY <2>1
    <2>3. QED
      BY <2>2 DEF l, n
  <1>5. ASSUME NEW i \in 1..(Len(s) - k)
        PROVE  t[i] = s[k + i]
    <2>1. i \in 1..(Len(s) - (k + 1) + 1) /\ (k + 1) + i - 1 = k + i
      BY <1>1
    <2>2. QED
      BY <1>3, <2>1
  <1>6. t = <<>> <=> k = Len(s)
    <2>1. t = <<>> => Len(t) = 0
      OBVIOUS
    <2>2. Len(t) = 0 => t = <<>>
      BY <1>3, EmptySeq
    <2>3. QED
      BY <1>1, <1>4, <2>1, <2>2
  <1>7. QED
    BY <1>3, <1>4, <1>5, <1>6 DEF From, t

\* What is appended to a sequence is appended to what is left of it.
LEMMA FromAppend ==
  ASSUME NEW S, NEW s \in Seq(S), NEW x \in S, NEW k \in Nat, k <= Len(s)
  PROVE  From(Append(s, x), k) = Append(From(s, k), x)
  <1> DEFINE t == Append(s, x)
             u == From(t, k)
             v == Append(From(s, k), x)
             n == Len(s) - k
  <1>1. Len(s) \in Nat /\ n \in Nat /\ k + n = Len(s)
    OBVIOUS
  <1>2. t \in Seq(S) /\ Len(t) = Len(s) + 1 /\ t[Len(s) + 1] = x
        /\ \A i \in 1..Len(s) : t[i] = s[i]
    BY AppendProperties
  <1>3. From(s, k) \in Seq(S) /\ Len(From(s, k)) = n
        /\ \A i \in 1..n : From(s, k)[i] = s[k + i]
    BY FromType
  <1> HIDE DEF n, t
  <1>4. v \in Seq(S) /\ Len(v) = n + 1 /\ v[n + 1] = x
        /\ \A i \in 1..n : v[i] = From(s, k)[i]
    <2> DEFINE f == From(s, k)
    <2> HIDE DEF f
    <2>1. f \in Seq(S) /\ Len(f) = n
      BY <1>3 DEF f
    <2>2. Append(f, x) \in Seq(S) /\ Len(Append(f, x)) = n + 1 /\ Append(f, x)[n + 1] = x
          /\ \A i \in 1..n : Append(f, x)[i] = f[i]
      BY <2>1, AppendProperties
    <2>3. QED
      BY <2>2 DEF f
  <1>5. u \in Seq(S) /\ Len(u) = n + 1 /\ \A i \in 1..(n + 1) : u[i] = t[k + i]
    <2>1. k <= Len(t) /\ Len(t) - k = n + 1
      BY <1>1, <1>2
    <2>2. u \in Seq(S) /\ Len(u) = Len(t) - k /\ \A i \in 1..(Len(t) - k) : u[i] = t[k + i]
      BY <1>2, <2>1, FromType
    <2> HIDE DEF u
    <2>3. QED
      BY <2>1, <2>2
  <1> HIDE DEF u, v
  <1>6. ASSUME NEW i \in 1..Len(u)
        PROVE  u[i] = v[i]
    <2>1. i \in 1..(n + 1) /\ i \in Nat
      BY <1>1, <1>5
    <2>2. CASE i = n + 1
      <3>1. k + i = Len(s) + 1
        BY <1>1, <2>2
      <3>2. QED
        BY <1>2, <1>4, <1>5, <2>1, <2>2, <3>1
    <2>3. CASE i # n + 1
      <3>1. i \in 1..n /\ k + i \in 1..Len(s)
        BY <1>1, <2>1, <2>3
      <3>2. u[i] = s[k + i] /\ v[i] = s[k + i]
        BY <1>2, <1>3, <1>4, <1>5, <2>1, <3>1
      <3>3. QED
        BY <3>2
    <2>4. QED
      BY <2>2, <2>3
  <1>7. u = v
    BY <1>4, <1>5, <1>6, SeqEqual
  <1>8. QED
    BY <1>7 DEF u, v, t

\* The first of what is left, and the rest.
LEMMA FromHead ==
  ASSUME NEW S, NEW s \in Seq(S), NEW k \in Nat, k < Len(s)
  PROVE  /\ From(s, k) # <<>> /\ Head(From(s, k)) = s[k + 1] /\ s[k + 1] \in S
         /\ Tail(From(s, k)) = From(s, k + 1)
  <1>1. Len(s) \in Nat /\ k + 1 \in 1..Len(s) /\ Len(s) \in (k + 1)..Len(s)
    OBVIOUS
  <1>2. From(s, k) # <<>>
    BY <1>1, FromType
  <1> DEFINE m == k + 1
             n == Len(s)
  <1>3. m \in 1..Len(s) /\ n \in m..Len(s)
    BY <1>1
  <1>4. From(s, k) = SubSeq(s, m, n) /\ From(s, k + 1) = SubSeq(s, m + 1, n)
    BY DEF From
  <1>5. s[k + 1] \in S
    BY <1>1, ElementOfSeq
  <1> HIDE DEF m, n
  <1>6. Head(SubSeq(s, m, n)) = s[m] /\ Tail(SubSeq(s, m, n)) = SubSeq(s, m + 1, n)
    BY <1>3, HeadTailOfSubSeq
  <1>7. QED
    BY <1>2, <1>4, <1>5, <1>6 DEF m

\* Taking k and then n elements is taking k + n.
LEMMA FromFrom ==
  ASSUME NEW S, NEW s \in Seq(S), NEW k \in Nat, NEW n \in Nat, k + n <= Len(s)
  PROVE  From(From(s, k), n) = From(s, k + n)
  <1> DEFINE t == From(s, k)
             u == From(t, n)
             v == From(s, k + n)
             l == Len(s) - (k + n)
  <1>1. Len(s) \in Nat /\ l \in Nat /\ k <= Len(s) /\ k + n \in Nat
    OBVIOUS
  <1>2. t \in Seq(S) /\ Len(t) = Len(s) - k /\ \A i \in 1..(Len(s) - k) : t[i] = s[k + i]
    BY <1>1, FromType
  <1>3. v \in Seq(S) /\ Len(v) = l /\ \A i \in 1..l : v[i] = s[(k + n) + i]
    <2> DEFINE j == k + n
    <2>1. j \in Nat /\ j <= Len(s) /\ l = Len(s) - j
      BY <1>1
    <2> HIDE DEF j, l
    <2>2. From(s, j) \in Seq(S) /\ Len(From(s, j)) = l /\ \A i \in 1..l : From(s, j)[i] = s[j + i]
      BY <2>1, FromType
    <2>3. QED
      BY <2>2 DEF j
  <1> HIDE DEF t
  <1>4. u \in Seq(S) /\ Len(u) = l /\ \A i \in 1..l : u[i] = t[n + i]
    <2>1. n <= Len(t) /\ Len(t) - n = l
      BY <1>1, <1>2
    <2>2. u \in Seq(S) /\ Len(u) = Len(t) - n /\ \A i \in 1..(Len(t) - n) : u[i] = t[n + i]
      BY <1>2, <2>1, FromType, SMTT(30)
    <2> HIDE DEF u, l
    <2>3. QED
      BY <2>1, <2>2
  <1> HIDE DEF u, v
  <1>5. ASSUME NEW i \in 1..Len(u)
        PROVE  u[i] = v[i]
    <2>1. i \in 1..l /\ n + i \in 1..(Len(s) - k) /\ k + (n + i) = (k + n) + i
      BY <1>1, <1>4
    <2>2. QED
      BY <1>2, <1>3, <1>4, <2>1
  <1>6. u = v
    BY <1>3, <1>4, <1>5, SeqEqual
  <1>7. QED
    BY <1>6 DEF u, v, t

-----------------------------------------------------------------------------
(* What a sequence's elements become, concatenated. *)

Flat(W, s) == FlattenSeq([i \in 1..Len(s) |-> W[s[i]]])

ImageOf(W, s) == [i \in 1..Len(s) |-> W[s[i]]]

\* Flat concatenates these sequences, one for every element.
LEMMA FlatImage ==
  ASSUME NEW M, NEW S, NEW W \in [M -> Seq(S)], NEW s \in Seq(M)
  PROVE  /\ ImageOf(W, s) \in Seq(Seq(S)) /\ Len(ImageOf(W, s)) = Len(s)
         /\ \A i \in 1..Len(s) : ImageOf(W, s)[i] = W[s[i]]
         /\ Flat(W, s) = FlattenSeq(ImageOf(W, s))
  <1>1. \A i \in 1..Len(s) : W[s[i]] \in Seq(S)
    BY ElementOfSeq
  <1>2. Len(s) \in Nat
    OBVIOUS
  <1>3. /\ ImageOf(W, s) \in Seq(Seq(S)) /\ Len(ImageOf(W, s)) = Len(s)
        /\ \A i \in 1..Len(s) : ImageOf(W, s)[i] = W[s[i]]
    BY <1>1, <1>2 DEF ImageOf
  <1>4. Flat(W, s) = FlattenSeq(ImageOf(W, s))
    BY DEF Flat, ImageOf
  <1>5. QED
    BY <1>3, <1>4

\* Flat's type,
LEMMA FlatType ==
  ASSUME NEW M, NEW S, NEW W \in [M -> Seq(S)], NEW s \in Seq(M)
  PROVE  Flat(W, s) \in Seq(S)
  <1> DEFINE a == ImageOf(W, s)
  <1>1. a \in Seq(Seq(S)) /\ Flat(W, s) = FlattenSeq(a)
    BY FlatImage
  <1> HIDE DEF a
  <1>2. QED
    BY <1>1, FlattenType

\* Flat on a sequence that grows by one,
LEMMA FlatAppend ==
  ASSUME NEW M, NEW S, NEW W \in [M -> Seq(S)], NEW s \in Seq(M), NEW x \in M
  PROVE  Flat(W, Append(s, x)) = Flat(W, s) \o W[x]
  <1> DEFINE t == Append(s, x)
             a == ImageOf(W, t)
             c == ImageOf(W, s)
             b == Append(c, W[x])
  <1>1. t \in Seq(M) /\ Len(s) \in Nat /\ Len(t) = Len(s) + 1 /\ t[Len(s) + 1] = x
        /\ \A i \in 1..Len(s) : t[i] = s[i]
    BY AppendProperties
  <1> HIDE DEF t
  <1>2. /\ a \in Seq(Seq(S)) /\ Len(a) = Len(s) + 1
        /\ \A i \in 1..(Len(s) + 1) : a[i] = W[t[i]]
        /\ Flat(W, t) = FlattenSeq(a)
    <2>1. t \in Seq(M)
      BY <1>1
    <2>2. /\ ImageOf(W, t) \in Seq(Seq(S)) /\ Len(ImageOf(W, t)) = Len(t)
          /\ \A i \in 1..Len(t) : ImageOf(W, t)[i] = W[t[i]]
          /\ Flat(W, t) = FlattenSeq(ImageOf(W, t))
      BY <2>1, FlatImage, Zenon
    <2>3. QED
      BY <1>1, <2>2 DEF a
  <1>3. /\ c \in Seq(Seq(S)) /\ Len(c) = Len(s)
        /\ \A i \in 1..Len(s) : c[i] = W[s[i]]
        /\ Flat(W, s) = FlattenSeq(c)
    <2>1. s \in Seq(M)
      OBVIOUS
    <2>2. /\ ImageOf(W, s) \in Seq(Seq(S)) /\ Len(ImageOf(W, s)) = Len(s)
          /\ \A i \in 1..Len(s) : ImageOf(W, s)[i] = W[s[i]]
          /\ Flat(W, s) = FlattenSeq(ImageOf(W, s))
      BY <2>1, FlatImage, Zenon
    <2>3. QED
      BY <2>2 DEF c
  <1> HIDE DEF a, c
  <1>4. W[x] \in Seq(S)
    OBVIOUS
  <1>5. b \in Seq(Seq(S)) /\ Len(b) = Len(s) + 1 /\ b[Len(s) + 1] = W[x]
        /\ \A i \in 1..Len(s) : b[i] = c[i]
    <2> DEFINE y == W[x]
    <2> HIDE DEF y
    <2>1. y \in Seq(S)
      BY <1>4 DEF y
    <2>2. Append(c, y) \in Seq(Seq(S)) /\ Len(Append(c, y)) = Len(c) + 1
          /\ Append(c, y)[Len(c) + 1] = y /\ \A i \in 1..Len(c) : Append(c, y)[i] = c[i]
      BY <1>3, <2>1, AppendProperties
    <2>3. QED
      BY <1>3, <2>2 DEF y
  <1> HIDE DEF b
  <1>6. ASSUME NEW i \in 1..Len(a)
        PROVE  a[i] = b[i]
    <2>1. CASE i = Len(s) + 1
      BY <1>1, <1>2, <1>5, <2>1
    <2>2. CASE i # Len(s) + 1
      <3>1. i \in 1..Len(s) /\ i \in 1..(Len(s) + 1)
        BY <1>1, <1>2, <2>2
      <3>2. QED
        BY <1>1, <1>2, <1>3, <1>5, <3>1
    <2>3. QED
      BY <2>1, <2>2
  <1>7. a = b
    BY <1>2, <1>5, <1>6, SeqEqual
  <1>8. FlattenSeq(Append(c, W[x])) = FlattenSeq(c) \o W[x]
    BY <1>3, <1>4, FlattenAppend
  <1>9. Flat(W, t) = FlattenSeq(b)
    BY <1>2, <1>7
  <1>10. Flat(W, s) = FlattenSeq(c)
    BY <1>3
  <1>11. QED
    BY <1>8, <1>9, <1>10, Zenon DEF b, t

\* or that loses its first,
LEMMA FlatHead ==
  ASSUME NEW M, NEW S, NEW W \in [M -> Seq(S)], NEW s \in Seq(M), Len(s) # 0
  PROVE  Flat(W, s) = W[Head(s)] \o Flat(W, Tail(s))
  <1> DEFINE t == Tail(s)
             a == ImageOf(W, s)
             c == ImageOf(W, t)
             b == Tail(a)
  <1>1. t \in Seq(M) /\ Len(s) \in Nat /\ Len(t) = Len(s) - 1 /\ Head(s) = s[1]
        /\ \A i \in 1..Len(t) : t[i] = s[i + 1]
    <2>1. s # <<>>
      OBVIOUS
    <2>2. QED
      BY <2>1, HeadTailProperties
  <1>2. Len(s) >= 1
    BY EmptySeq
  <1> HIDE DEF t
  <1>3. /\ a \in Seq(Seq(S)) /\ Len(a) = Len(s)
        /\ \A i \in 1..Len(s) : a[i] = W[s[i]]
        /\ Flat(W, s) = FlattenSeq(a)
    <2>1. s \in Seq(M) /\ Len(s) \in Nat
      OBVIOUS
    <2>2. \A i \in 1..Len(s) : W[s[i]] \in Seq(S)
      BY <2>1, ElementOfSeq
    <2>3. Flat(W, s) = FlattenSeq(a)
      BY DEF Flat, ImageOf, a
    <2>4. QED
      BY <2>1, <2>2, <2>3 DEF ImageOf, a
  <1>4. /\ c \in Seq(Seq(S)) /\ Len(c) = Len(t)
        /\ \A i \in 1..Len(t) : c[i] = W[t[i]]
        /\ Flat(W, t) = FlattenSeq(c)
    <2>1. t \in Seq(M) /\ Len(t) \in Nat
      BY <1>1
    <2>2. \A i \in 1..Len(t) : W[t[i]] \in Seq(S)
      BY <2>1, ElementOfSeq
    <2>3. Flat(W, t) = FlattenSeq(c)
      BY DEF Flat, ImageOf, c
    <2>4. QED
      BY <2>1, <2>2, <2>3 DEF ImageOf, c
  <1> HIDE DEF a, c
  <1>5. a # <<>>
    BY <1>2, <1>3, EmptySeq
  <1>6. b \in Seq(Seq(S)) /\ Len(b) = Len(a) - 1 /\ \A i \in 1..Len(b) : b[i] = a[i + 1]
    BY <1>3, <1>5, HeadTailProperties
  <1>7. Head(a) = W[Head(s)]
    BY <1>1, <1>2, <1>3
  <1> HIDE DEF b
  <1>8. ASSUME NEW i \in 1..Len(b)
        PROVE  b[i] = c[i]
    <2>1. i \in 1..Len(t) /\ i + 1 \in 1..Len(s)
      BY <1>1, <1>3, <1>6
    <2>2. b[i] = a[i + 1] /\ a[i + 1] = W[s[i + 1]]
      BY <1>3, <1>6, <2>1
    <2>3. c[i] = W[t[i]] /\ t[i] = s[i + 1]
      BY <1>1, <1>4, <2>1
    <2>4. QED
      BY <2>2, <2>3
  <1>9. b = c
    <2>1. Len(b) = Len(c)
      BY <1>1, <1>3, <1>4, <1>6
    <2>2. QED
      BY <1>4, <1>6, <1>8, <2>1, SeqEqual
  <1>10. FlattenSeq(a) = Head(a) \o FlattenSeq(Tail(a))
    BY <1>3, <1>5, FlattenHead
  <1>11. Flat(W, s) = Head(a) \o FlattenSeq(b)
    BY <1>3, <1>10 DEF b
  <1>12. Flat(W, t) = FlattenSeq(b)
    BY <1>4, <1>9
  <1>13. QED
    BY <1>7, <1>11, <1>12, Zenon DEF t

\* and none.
LEMMA FlatEmpty ==
  ASSUME NEW M, NEW S, NEW W \in [M -> Seq(S)], NEW s \in Seq(M), Len(s) = 0
  PROVE  Flat(W, s) = <<>>
  <1> DEFINE a == [i \in 1..Len(s) |-> W[s[i]]]
  <1>1. \A i \in 1..Len(s) : W[s[i]] \in Seq(S)
    BY ElementOfSeq
  <1>2. a \in Seq(Seq(S)) /\ Len(a) = 0
    BY <1>1
  <1>3. Flat(W, s) = FlattenSeq(a)
    BY DEF Flat
  <1> HIDE DEF a
  <1>4. FlattenSeq(a) = a /\ a = <<>>
    BY <1>2, EmptySeq DEF FlattenSeq
  <1>5. QED
    BY <1>3, <1>4

-----------------------------------------------------------------------------
(* Bytes as samples of w bytes each, from pos on. *)

Cut(w, data, pos) ==
  [i \in 1..((Len(data) - pos) \div w) |-> Slice(data, pos + (i - 1) * w, w)]

\* How many samples of w bytes there are from pos on.
LEMMA CutNumbers ==
  ASSUME NEW w \in {2, 4}, NEW l \in Nat, NEW pos \in Nat, pos <= l
  PROVE  LET d == (l - pos) \div w IN
         /\ d \in Nat
         /\ \A i \in 1..d : pos + (i - 1) * w \in Nat /\ pos + (i - 1) * w + w <= l
         /\ pos + w > l => d = 0
         /\ pos + w <= l => (l - (pos + w)) \div w = d - 1 /\ d >= 1
         /\ \A i \in Nat : (pos + w) + (i - 1) * w = pos + ((i + 1) - 1) * w
  <1>1. CASE w = 2
    BY <1>1
  <1>2. CASE w = 4
    BY <1>2
  <1>3. QED
    BY <1>1, <1>2

\* Whole samples are left as long as w bytes are: the next one and those after it.
LEMMA CutIs ==
  ASSUME NEW w \in {2, 4}, NEW data \in Seq(Byte), NEW pos \in Nat, pos <= Len(data)
  PROVE  /\ Cut(w, data, pos) \in Seq(Seq(Byte))
         /\ pos + w > Len(data) => Cut(w, data, pos) = <<>>
         /\ pos + w <= Len(data) =>
              /\ Slice(data, pos, w) \in Seq(Byte)
              /\ Cut(w, data, pos) = <<Slice(data, pos, w)>> \o Cut(w, data, pos + w)
  <1> DEFINE l == Len(data)
             d == (l - pos) \div w
             x == Slice(data, pos, w)
             c == Cut(w, data, pos)
  <1>1. l \in Nat /\ w \in Nat /\ w >= 1
    OBVIOUS
  <1>2. /\ d \in Nat
        /\ \A i \in 1..d : pos + (i - 1) * w \in Nat /\ pos + (i - 1) * w + w <= l
        /\ pos + w > l => d = 0
        /\ pos + w <= l => (l - (pos + w)) \div w = d - 1 /\ d >= 1
        /\ \A i \in Nat : (pos + w) + (i - 1) * w = pos + ((i + 1) - 1) * w
    BY <1>1, CutNumbers
  <1>3. \A off \in Nat : off + w <= l => Slice(data, off, w) \in Seq(Byte)
    <2>1. ASSUME NEW off \in Nat, off + w <= l
          PROVE  Slice(data, off, w) \in Seq(Byte)
      <3> DEFINE a == off + 1
                 b == off + w
      <3>1. a \in Int /\ b \in Int /\ \A i \in a..b : i \in 1..Len(data)
        BY <1>1, <2>1
      <3>2. \A i \in a..b : data[i] \in Byte
        BY <3>1, ElementOfSeq
      <3>3. Slice(data, off, w) = SubSeq(data, a, b)
        BY DEF Slice
      <3> HIDE DEF a, b
      <3>4. SubSeq(data, a, b) \in Seq(Byte)
        BY <3>1, <3>2, SubSeqProperties
      <3>5. QED
        BY <3>3, <3>4
    <2>2. QED
      BY <2>1
  <1> DEFINE e(i) == Slice(data, pos + (i - 1) * w, w)
  <1>4. \A i \in 1..d : e(i) \in Seq(Byte)
    BY <1>2, <1>3
  <1>5. c = [i \in 1..d |-> e(i)]
    BY DEF Cut
  <1> HIDE DEF d, e, c, l
  <1>6. c \in Seq(Seq(Byte)) /\ Len(c) = d /\ \A i \in 1..d : c[i] = e(i)
    BY <1>2, <1>4, <1>5
  <1>7. pos + w > l => c = <<>>
    BY <1>2, <1>6, EmptySeq
  <1>8. ASSUME pos + w <= l
        PROVE  x \in Seq(Byte) /\ c = <<x>> \o Cut(w, data, pos + w)
    <2> DEFINE k == pos + w
               t == Cut(w, data, k)
               n == d - 1
               f(i) == Slice(data, k + (i - 1) * w, w)
               g == <<x>> \o t
    <2>1. x \in Seq(Byte)
      BY <1>3, <1>8
    <2>2. n \in Nat /\ d = n + 1 /\ (l - k) \div w = n
      BY <1>2, <1>8
    <2>3. t = [i \in 1..n |-> f(i)]
      BY <2>2 DEF Cut, l
    <2>4. \A i \in Nat : f(i) = e(i + 1)
      BY <1>2 DEF e
    <2>5. e(1) = x
      <3>1. pos + (1 - 1) * w = pos
        BY <1>1
      <3>2. QED
        BY <3>1 DEF e
    <2> HIDE DEF k, t, n, f, x
    <2>6. \A i \in 1..n : f(i) \in Seq(Byte)
      <3>1. ASSUME NEW i \in 1..n PROVE f(i) \in Seq(Byte)
        <4>1. i \in Nat /\ i + 1 \in 1..d
          BY <2>2
        <4>2. QED
          BY <1>4, <2>4, <4>1
      <3>2. QED
        BY <3>1
    <2>7. t \in Seq(Seq(Byte)) /\ Len(t) = n /\ \A i \in 1..n : t[i] = f(i)
      BY <2>2, <2>3, <2>6
    <2>8. <<x>> \in Seq(Seq(Byte)) /\ Len(<<x>>) = 1 /\ <<x>>[1] = x
      BY <2>1
    <2> DEFINE o == <<x>>
    <2> HIDE DEF o
    <2>9. /\ o \o t \in Seq(Seq(Byte)) /\ Len(o \o t) = 1 + n
          /\ \A i \in 1..(1 + n) : (o \o t)[i] = IF i <= 1 THEN o[i] ELSE t[i - 1]
      <3>1. o \in Seq(Seq(Byte)) /\ Len(o) = 1
        BY <2>8 DEF o
      <3>2. /\ o \o t \in Seq(Seq(Byte)) /\ Len(o \o t) = Len(o) + Len(t)
            /\ \A i \in 1..(Len(o) + Len(t)) :
                 (o \o t)[i] = IF i <= Len(o) THEN o[i] ELSE t[i - Len(o)]
        BY <2>7, <3>1, ConcatProperties
      <3>3. QED
        BY <2>7, <3>1, <3>2
    <2>10. g = o \o t /\ o[1] = x
      BY <2>8 DEF o
    <2> HIDE DEF g
    <2>11. ASSUME NEW i \in 1..Len(c)
           PROVE  c[i] = g[i]
      <3>1. i \in 1..d /\ i \in 1..(1 + n) /\ i \in Nat /\ i >= 1
        BY <1>2, <1>6, <2>2
      <3>2. CASE i = 1
        BY <1>6, <2>5, <2>9, <2>10, <3>1, <3>2
      <3>3. CASE i # 1
        <4>1. ~(i <= 1) /\ i - 1 \in 1..n /\ i - 1 \in Nat /\ (i - 1) + 1 = i
          BY <2>2, <3>1, <3>3
        <4>2. g[i] = t[i - 1] /\ t[i - 1] = f(i - 1) /\ f(i - 1) = e((i - 1) + 1)
          BY <2>4, <2>7, <2>9, <2>10, <3>1, <4>1
        <4>3. QED
          BY <1>6, <3>1, <4>1, <4>2
      <3>4. QED
        BY <3>2, <3>3
    <2>12. Len(c) = Len(g) /\ g \in Seq(Seq(Byte))
      BY <1>6, <2>2, <2>9, <2>10
    <2>13. c = g
      BY <1>6, <2>11, <2>12, SeqEqual
    <2>14. QED
      BY <2>1, <2>13 DEF g, t, k, x
  <1>9. QED
    BY <1>6, <1>7, <1>8 DEF c, l

-----------------------------------------------------------------------------
(* The three concatenations of the invariant. *)

WireFn == [m \in WireMessage |-> Wire(m)]

SpeechFn(w) ==
  [m \in WireMessage |-> IF m.msg_type = AudioOnlyServer THEN Cut(w, m.payload, 0) ELSE <<>>]

Held == {source \in [data : Seq(Byte), pos : Nat] : source.pos <= Len(source.data)}
RestFn(w) == [source \in Held |-> Cut(w, source.data, source.pos)]

\* What a server's message is on the wire, by RoundTripBytes.
LEMMA WireIs ==
  ASSUME NEW m \in WireMessage
  PROVE  /\ Wire(m) \in Seq(Byte) /\ Len(Wire(m)) >= 8
         /\ Marshal(m, SERIALIZATION_JSON)[1] = WireFn[m]
         /\ WireFn[m] = Wire(m)
         /\ \A data \in Seq(Byte) :
              At(data, 0, Wire(m)) =>
                IF Len(Wire(m)) <= Len(data)
                  THEN Unmarshal(data) = [err |-> Ok, off |-> Len(Wire(m)), msg |-> m]
                  ELSE Unmarshal(data).err \in More
  <1> DEFINE ser == SERIALIZATION_JSON
  <1>1. WellFormed(m)
    BY DownlinkAssumption
  <1>2. ser \in Byte
    BY DEF SERIALIZATION_JSON, Byte
  <1> HIDE DEF ser
  <1>3. PICK w \in Seq(Byte) :
          /\ Marshal(m, ser) = Given(w)
          /\ Len(w) >= 8
          /\ \A data \in Seq(Byte) :
               At(data, 0, w) =>
                 IF Len(w) <= Len(data)
                   THEN Unmarshal(data) = [err |-> Ok, off |-> Len(w), msg |-> m]
                   ELSE Unmarshal(data).err \in More
    BY <1>1, <1>2, RoundTripBytes
  <1>4. Marshal(m, ser)[1] = w
    BY <1>3 DEF Given
  <1>5. Wire(m) = w
    BY <1>4 DEF Wire, ser
  <1>6. WireFn[m] = Wire(m)
    BY DEF WireFn
  <1>7. QED
    BY <1>3, <1>4, <1>5, <1>6, Zenon DEF ser

\* Types of the three functions that are concatenated.
LEMMA FnTypes ==
  /\ WireFn \in [WireMessage -> Seq(Byte)]
  /\ \A w \in {2, 4} : /\ SpeechFn(w) \in [WireMessage -> Seq(Seq(Byte))]
                       /\ RestFn(w) \in [Held -> Seq(Seq(Byte))]
  <1>1. WireFn \in [WireMessage -> Seq(Byte)]
    <2>1. \A m \in WireMessage : Wire(m) \in Seq(Byte)
      BY WireIs
    <2>2. QED
      BY <2>1 DEF WireFn
  <1>2. ASSUME NEW w \in {2, 4}
        PROVE  SpeechFn(w) \in [WireMessage -> Seq(Seq(Byte))]
    <2> DEFINE e(m) == IF m.msg_type = AudioOnlyServer THEN Cut(w, m.payload, 0) ELSE <<>>
    <2>1. ASSUME NEW m \in WireMessage
          PROVE  e(m) \in Seq(Seq(Byte))
      <3>1. m.payload \in Seq(Byte)
        BY DownlinkAssumption DEF WellFormed, AnyMessage
      <3>2. Cut(w, m.payload, 0) \in Seq(Seq(Byte))
        <4> DEFINE p == m.payload
        <4>1. p \in Seq(Byte) /\ 0 \in Nat /\ 0 <= Len(p)
          BY <3>1
        <4> HIDE DEF p
        <4>2. Cut(w, p, 0) \in Seq(Seq(Byte))
          BY <4>1, CutIs
        <4>3. QED
          BY <4>2 DEF p
      <3>3. <<>> \in Seq(Seq(Byte))
        OBVIOUS
      <3>4. QED
        BY <3>2, <3>3
    <2>2. SpeechFn(w) = [m \in WireMessage |-> e(m)]
      BY DEF SpeechFn
    <2> HIDE DEF e
    <2>3. QED
      BY <2>1, <2>2
  <1>3. ASSUME NEW w \in {2, 4}
        PROVE  RestFn(w) \in [Held -> Seq(Seq(Byte))]
    <2> DEFINE e(s) == Cut(w, s.data, s.pos)
    <2>1. ASSUME NEW s \in Held
          PROVE  e(s) \in Seq(Seq(Byte))
      <3> DEFINE d == s.data
                 p == s.pos
      <3>1. d \in Seq(Byte) /\ p \in Nat /\ p <= Len(d)
        BY DEF Held
      <3> HIDE DEF d, p
      <3>2. Cut(w, d, p) \in Seq(Seq(Byte))
        BY <3>1, CutIs
      <3>3. QED
        BY <3>2 DEF d, p
    <2>2. RestFn(w) = [s \in Held |-> e(s)]
      BY DEF RestFn
    <2> HIDE DEF e
    <2>3. QED
      BY <2>1, <2>2
  <1>4. QED
    BY <1>1, <1>2, <1>3

\* An f32 is 4 bytes, an i16 is 2.
LEMMA WidthIs ==
  Width \in {2, 4}
  BY DEF Width

\* WireOf concatenates WireFn ...
LEMMA WireOfIs ==
  \A s \in Seq(WireMessage) : WireOf(s) = Flat(WireFn, s)
  <1>1. SUFFICES ASSUME NEW s \in Seq(WireMessage)
                 PROVE  WireOf(s) = Flat(WireFn, s)
    OBVIOUS
  <1>2. \A i \in 1..Len(s) : WireFn[s[i]] = Wire(s[i])
    BY WireIs, ElementOfSeq
  <1>3. [i \in 1..Len(s) |-> Wire(s[i])] = [i \in 1..Len(s) |-> WireFn[s[i]]]
    BY <1>2
  <1>4. QED
    BY <1>3 DEF WireOf, Flat

\* ... SpeechOf concatenates SpeechFn ...
LEMMA SpeechOfIs ==
  \A s \in Seq(WireMessage) : SpeechOf(s) = Flat(SpeechFn(Width), s)
  <1>1. SUFFICES ASSUME NEW s \in Seq(WireMessage)
                 PROVE  SpeechOf(s) = Flat(SpeechFn(Width), s)
    OBVIOUS
  <1> DEFINE w == Width
  <1>2. w \in {2, 4}
    BY WidthIs
  <1>3. ASSUME NEW m \in WireMessage
        PROVE  Speech(m) = SpeechFn(Width)[m]
    <2> DEFINE p == m.payload
    <2>1. p \in Seq(Byte)
      BY DownlinkAssumption DEF WellFormed, AnyMessage
    <2>2. Samples(p) = Cut(w, p, 0)
      <3>1. Samples(p) = [i \in 1..(Len(p) \div w) |-> Slice(p, (i - 1) * w, w)]
        BY DEF Samples
      <3>2. Cut(w, p, 0) = [i \in 1..((Len(p) - 0) \div w) |-> Slice(p, 0 + (i - 1) * w, w)]
        BY DEF Cut
      <3> HIDE DEF w, p
      <3>3. Len(p) - 0 = Len(p) /\ w \in Nat
        BY <1>2, <2>1
      <3>4. \A i \in 1..(Len(p) \div w) : 0 + (i - 1) * w = (i - 1) * w
        <4>1. \A i \in Int : (i - 1) * w \in Int
          BY <1>2
        <4>2. \A z \in Int : 0 + z = z
          OBVIOUS
        <4>3. QED
          BY <4>1, <4>2
      <3>5. QED
        BY <3>1, <3>2, <3>3, <3>4
    <2>3. SpeechFn(Width)[m] = IF m.msg_type = AudioOnlyServer THEN Cut(w, p, 0) ELSE <<>>
      BY DEF SpeechFn
    <2>4. QED
      BY <2>2, <2>3 DEF Speech
  <1>4. \A i \in 1..Len(s) : SpeechFn(Width)[s[i]] = Speech(s[i])
    BY <1>3, ElementOfSeq
  <1>5. [i \in 1..Len(s) |-> Speech(s[i])] = [i \in 1..Len(s) |-> SpeechFn(Width)[s[i]]]
    BY <1>4
  <1>6. QED
    BY <1>5 DEF SpeechOf, Flat

\* ... and RestOf concatenates RestFn.
LEMMA RestOfIs ==
  \A s \in Seq(Held) : RestOf(s) = Flat(RestFn(Width), s)
  <1>1. SUFFICES ASSUME NEW s \in Seq(Held)
                 PROVE  RestOf(s) = Flat(RestFn(Width), s)
    OBVIOUS
  <1>2. ASSUME NEW x \in Held
        PROVE  Rest(x) = RestFn(Width)[x]
    BY DEF Rest, RestFn, Cut
  <1>3. \A i \in 1..Len(s) : RestFn(Width)[s[i]] = Rest(s[i])
    BY <1>2, ElementOfSeq
  <1>4. [i \in 1..Len(s) |-> Rest(s[i])] = [i \in 1..Len(s) |-> RestFn(Width)[s[i]]]
    BY <1>3
  <1>5. QED
    BY <1>4 DEF RestOf, Flat

-----------------------------------------------------------------------------
(* DownInv by what is left of each sequence. *)

Left == From(current_binary, processed_bytes)
Coming == From(said, Len(received))

LeftInv ==
  /\ Len(received) <= Len(said)
  /\ received = SubSeq(said, 1, Len(received))
  /\ Left \o socket = Flat(WireFn, Coming)
  /\ reading /\ Len(received) < Len(said) =>
       Len(Left) < Len(WireFn[said[Len(received) + 1]])

ComingInv ==
  heard \o Flat(RestFn(Width), playing) \o Flat(SpeechFn(Width), Coming)
    = Flat(SpeechFn(Width), said)

BoundsInv ==
  /\ DownTypeOK
  /\ processed_bytes <= Len(current_binary)
  /\ reading => processed_bytes = 0
  /\ playing \in Seq(Held)

ViewInv == BoundsInv /\ (~garbled => LeftInv /\ ComingInv)

\* ViewInv is DownInv in the words of these proofs: numbers for sequences that
\* are prefixes or remainders, Flat for FlattenSeq.
LEMMA ViewIs ==
  DownInv <=> ViewInv
  <1>1. ASSUME DownTypeOK
        PROVE  (\A i \in 1..Len(playing) : playing[i].pos <= Len(playing[i].data))
                 <=> playing \in Seq(Held)
    <2> DEFINE P == [data : Seq(Byte), pos : Nat]
    <2>1. playing \in Seq(P)
      BY <1>1 DEF DownTypeOK
    <2>2. ASSUME playing \in Seq(Held), NEW i \in 1..Len(playing)
          PROVE  playing[i].pos <= Len(playing[i].data)
      <3>1. playing[i] \in Held
        BY <2>2, ElementOfSeq
      <3>2. QED
        BY <3>1 DEF Held
    <2>3. ASSUME \A i \in 1..Len(playing) : playing[i].pos <= Len(playing[i].data)
          PROVE  playing \in Seq(Held)
      <3>1. \A i \in 1..Len(playing) : playing[i] \in P
        BY <2>1, ElementOfSeq
      <3>2. \A i \in 1..Len(playing) : playing[i] \in Held
        BY <2>3, <3>1 DEF Held
      <3> HIDE DEF P
      <3>3. Len(playing) \in Nat /\ playing = [i \in 1..Len(playing) |-> playing[i]]
        BY <2>1
      <3> DEFINE q == [i \in 1..Len(playing) |-> playing[i]]
      <3>4. q \in Seq(Held)
        BY <3>2, <3>3
      <3> HIDE DEF q
      <3>5. playing = q
        BY <3>3 DEF q
      <3>6. QED
        BY <3>4, <3>5
    <2>4. QED
      BY <2>2, <2>3
  <1>2. DownTypeOK => said \in Seq(WireMessage) /\ received \in Seq(AnyMessage)
    BY DEF DownTypeOK
  <1>3. ASSUME DownTypeOK
        PROVE  (\E n \in 0..Len(said) : received = SubSeq(said, 1, n))
                 <=> /\ Len(received) <= Len(said)
                     /\ received = SubSeq(said, 1, Len(received))
    <2>1. Len(said) \in Nat /\ Len(received) \in Nat
      BY <1>2, <1>3
    <2>2. \A n \in 0..Len(said) : Len(SubSeq(said, 1, n)) = n
      BY <1>2, <1>3, <2>1
    <2>3. QED
      BY <2>1, <2>2
  <1>4. Remaining = Left /\ Unreceived = Coming
    BY DEF Remaining, Left, Unreceived, Coming, From
  <1>5. ASSUME DownTypeOK, Len(received) <= Len(said)
        PROVE  /\ WireOf(Unreceived) = Flat(WireFn, Coming)
               /\ SpeechOf(Unreceived) = Flat(SpeechFn(Width), Coming)
               /\ SpeechOf(said) = Flat(SpeechFn(Width), said)
               /\ Unreceived # <<>> <=> Len(received) < Len(said)
               /\ Len(received) < Len(said) =>
                    Len(Wire(Head(Unreceived))) = Len(WireFn[said[Len(received) + 1]])
    <2>1. said \in Seq(WireMessage) /\ Len(received) \in Nat /\ Len(said) \in Nat
      BY <1>2, <1>5
    <2>2. Coming \in Seq(WireMessage) /\ (Coming = <<>> <=> Len(received) = Len(said))
      <3> DEFINE k == Len(received)
      <3>1. k \in Nat /\ k <= Len(said)
        BY <1>5, <2>1
      <3> HIDE DEF k
      <3>2. From(said, k) \in Seq(WireMessage) /\ (From(said, k) = <<>> <=> k = Len(said))
        BY <2>1, <3>1, FromType
      <3>3. QED
        BY <3>2 DEF Coming, k
    <2>3. ASSUME Len(received) < Len(said)
          PROVE  Len(Wire(Head(Unreceived))) = Len(WireFn[said[Len(received) + 1]])
      <3> DEFINE k == Len(received)
      <3>1. k \in Nat /\ k < Len(said)
        BY <2>1, <2>3
      <3> HIDE DEF k
      <3>2. Head(From(said, k)) = said[k + 1] /\ said[k + 1] \in WireMessage
        BY <2>1, <3>1, FromHead
      <3>3. WireFn[said[k + 1]] = Wire(said[k + 1])
        BY <3>2, WireIs
      <3>4. QED
        BY <1>4, <3>2, <3>3 DEF Coming, k
    <2>4. QED
      BY <1>4, <1>5, <2>1, <2>2, <2>3, WireOfIs, SpeechOfIs
  <1>6. playing \in Seq(Held) => RestOf(playing) = Flat(RestFn(Width), playing)
    BY RestOfIs
  <1>7. ASSUME DownTypeOK, Len(received) <= Len(said), playing \in Seq(Held)
        PROVE  /\ StreamInv <=> LeftInv
               /\ SpeechInv <=> ComingInv
    <2>1. StreamInv <=> LeftInv
      BY <1>3, <1>4, <1>5, <1>7 DEF StreamInv, LeftInv
    <2>2. SpeechInv <=> ComingInv
      BY <1>5, <1>6, <1>7 DEF SpeechInv, ComingInv
    <2>3. QED
      BY <2>1, <2>2
  <1>8. DownTypeOK /\ StreamInv => Len(received) <= Len(said)
    BY <1>3 DEF StreamInv
  <1>9. LeftInv => Len(received) <= Len(said)
    BY DEF LeftInv
  <1>10. QED
    BY <1>1, <1>7, <1>8, <1>9 DEF DownInv, ViewInv, BoundsInv

\* Types of everything in a state of ViewInv.
LEMMA Shape ==
  ASSUME ViewInv
  PROVE  /\ said \in Seq(WireMessage) /\ socket \in Seq(Byte) /\ current_binary \in Seq(Byte)
         /\ processed_bytes \in Nat /\ processed_bytes <= Len(current_binary)
         /\ received \in Seq(AnyMessage) /\ heard \in Seq(Seq(Byte)) /\ playing \in Seq(Held)
         /\ playing \in Seq([data : Seq(Byte), pos : Nat]) /\ reading \in BOOLEAN
         /\ Left \in Seq(Byte) /\ Len(Left) = Len(current_binary) - processed_bytes
         /\ Len(Left) \in Nat /\ Len(said) \in Nat /\ Len(received) \in Nat
         /\ Len(received) <= Len(said) => Coming \in Seq(WireMessage)
  <1>1. /\ said \in Seq(WireMessage) /\ socket \in Seq(Byte) /\ current_binary \in Seq(Byte)
        /\ processed_bytes \in Nat /\ processed_bytes <= Len(current_binary)
        /\ received \in Seq(AnyMessage) /\ heard \in Seq(Seq(Byte)) /\ playing \in Seq(Held)
        /\ playing \in Seq([data : Seq(Byte), pos : Nat]) /\ reading \in BOOLEAN
    BY DEF ViewInv, BoundsInv, DownTypeOK
  <1>2. Left \in Seq(Byte) /\ Len(Left) = Len(current_binary) - processed_bytes
    BY <1>1, FromType DEF Left
  <1>3. Len(Left) \in Nat /\ Len(said) \in Nat /\ Len(received) \in Nat
    BY <1>1, <1>2
  <1>4. ASSUME Len(received) <= Len(said)
        PROVE  Coming \in Seq(WireMessage)
    <2> DEFINE k == Len(received)
    <2>1. k \in Nat /\ k <= Len(said)
      BY <1>3, <1>4
    <2> HIDE DEF k
    <2>2. From(said, k) \in Seq(WireMessage)
      BY <1>1, <2>1, FromType
    <2>3. QED
      BY <2>2 DEF Coming, k
  <1>5. QED
    BY <1>1, <1>2, <1>3, <1>4

-----------------------------------------------------------------------------
(* What unmarshal finds at the head of the stream. *)

\* Concatenation is associative.
LEMMA Assoc ==
  \A S : \A a, b, c \in Seq(S) : (a \o b) \o c = a \o (b \o c) /\ a \o b \in Seq(S)
  <1> SUFFICES ASSUME NEW S, NEW a \in Seq(S), NEW b \in Seq(S), NEW c \in Seq(S)
               PROVE  (a \o b) \o c = a \o (b \o c) /\ a \o b \in Seq(S)
    OBVIOUS
  <1>1. a \o b \in Seq(S)
    BY ConcatProperties
  <1>2. (a \o b) \o c = a \o (b \o c)
    BY ConcatAssociative
  <1>3. QED
    BY <1>1, <1>2

\* What follows a common beginning is the same.
LEMMA Cancel ==
  ASSUME NEW S, NEW a \in Seq(S), NEW b \in Seq(S), NEW c \in Seq(S), a \o b = a \o c
  PROVE  b = c
  BY ConcatSimplifications, Zenon

\* A sequence is its beginning and what is left.
LEMMA Parts ==
  ASSUME NEW S, NEW s \in Seq(S), NEW n \in Nat, n <= Len(s)
  PROVE  s = SubSeq(s, 1, n) \o From(s, n)
  <1> DEFINE l == Len(s)
             one == 1
  <1>1. l \in Nat /\ one \in 1..Len(s) + 1 /\ n \in one - 1..Len(s) /\ l \in n..Len(s)
    OBVIOUS
  <1> HIDE DEF l, one
  <1>2. SubSeq(s, one, n) \o SubSeq(s, n + 1, l) = SubSeq(s, one, l)
    BY <1>1, ConcatAdjacentSubSeq
  <1>3. SubSeq(s, 1, Len(s)) = s
    BY SubSeqFull
  <1>4. QED
    BY <1>2, <1>3, Zenon DEF From, l, one

\* The messages still to come begin with the next one.
LEMMA ComingHead ==
  ASSUME ViewInv, Len(received) < Len(said)
  PROVE  LET m == said[Len(received) + 1]
             next == From(said, Len(received) + 1)
         IN  /\ m \in WireMessage
             /\ next \in Seq(WireMessage)
             /\ \A S : \A W \in [WireMessage -> Seq(S)] :
                  Flat(W, Coming) = W[m] \o Flat(W, next) /\ Flat(W, next) \in Seq(S)
  <1> DEFINE k == Len(received)
             j == k + 1
             m == said[j]
             next == From(said, j)
  <1>1. said \in Seq(WireMessage) /\ k \in Nat /\ k < Len(said) /\ k <= Len(said)
        /\ j \in Nat /\ j <= Len(said)
    BY Shape
  <1>2. Coming = From(said, k)
    BY DEF Coming
  <1>3. From(said, k) \in Seq(WireMessage)
    <2> HIDE DEF k
    <2>1. QED
      BY <1>1, FromType
  <1>4. next \in Seq(WireMessage)
    <2> HIDE DEF j
    <2>1. QED
      BY <1>1, FromType
  <1>5. From(said, k) # <<>> /\ Head(From(said, k)) = m /\ m \in WireMessage
        /\ Tail(From(said, k)) = next
    <2> HIDE DEF k
    <2>1. QED
      BY <1>1, FromHead
  <1>6. ASSUME NEW S, NEW W \in [WireMessage -> Seq(S)]
        PROVE  Flat(W, Coming) = W[m] \o Flat(W, next) /\ Flat(W, next) \in Seq(S)
    <2> DEFINE c == From(said, k)
    <2> HIDE DEF c, next, m
    <2>0. c = From(said, k)
      BY DEF c
    <2>1. c \in Seq(WireMessage) /\ c # <<>> /\ Head(c) = m /\ Tail(c) = next
      <3> HIDE DEF k
      <3>1. QED
        BY <1>3, <1>5, <2>0, Zenon
    <2>2. Flat(W, c) = W[Head(c)] \o Flat(W, Tail(c))
      <3>1. Len(c) # 0
        BY <2>1, EmptySeq
      <3>2. \A s \in Seq(WireMessage) :
              Len(s) # 0 => Flat(W, s) = W[Head(s)] \o Flat(W, Tail(s))
        BY FlatHead
      <3>3. QED
        BY <2>1, <3>1, <3>2, Zenon
    <2>3. Flat(W, next) \in Seq(S)
      BY <1>4, FlatType
    <2>4. QED
      BY <1>2, <2>1, <2>2, <2>3 DEF c
  <1>7. QED
    BY <1>4, <1>5, <1>6

\* What run_work finds in its buffer: nothing, the next message whole, or its
\* beginning.
LEMMA Upcoming ==
  ASSUME ViewInv, ~garbled
  PROVE  /\ Len(received) = Len(said) => Left = <<>> /\ socket = <<>>
         /\ Len(received) < Len(said) =>
              LET m == said[Len(received) + 1]
                  n == Len(WireFn[m])
              IN  /\ n \in Nat /\ n >= 8
                  /\ n <= Len(Left) =>
                       /\ Unmarshal(Left) = [err |-> Ok, off |-> n, msg |-> m]
                       /\ From(Left, n) \o socket
                            = Flat(WireFn, From(said, Len(received) + 1))
                  /\ n > Len(Left) => Unmarshal(Left).err \in More
  <1>1. LeftInv
    BY DEF ViewInv
  <1>2. Left \in Seq(Byte) /\ socket \in Seq(Byte) /\ said \in Seq(WireMessage)
        /\ Len(received) \in Nat /\ Len(said) \in Nat
    BY Shape
  <1>3. Left \o socket = Flat(WireFn, Coming)
    BY <1>1 DEF LeftInv
  <1>4. WireFn \in [WireMessage -> Seq(Byte)]
    BY FnTypes
  <1>5. ASSUME Len(received) = Len(said)
        PROVE  Left = <<>> /\ socket = <<>>
    <2> DEFINE k == Len(received)
    <2>1. k \in Nat /\ k <= Len(said) /\ k = Len(said)
      BY <1>2, <1>5
    <2> HIDE DEF k
    <2>2. From(said, k) = <<>>
      BY <1>2, <2>1, FromType
    <2>3. Coming = <<>> /\ Coming \in Seq(WireMessage)
      BY <2>2, EmptySeq DEF Coming, k
    <2>4. Flat(WireFn, Coming) = <<>>
      <3>1. \A s \in Seq(WireMessage) : Len(s) = 0 => Flat(WireFn, s) = <<>>
        BY <1>4, FlatEmpty
      <3>2. Len(Coming) = 0
        BY <2>3
      <3>3. QED
        BY <2>3, <3>1, <3>2, Zenon
    <2>5. QED
      BY <1>2, <1>3, <2>4, ConcatEqualIffEmpty
  <1>6. ASSUME Len(received) < Len(said)
        PROVE  LET m == said[Len(received) + 1]
                   n == Len(WireFn[m])
               IN  /\ n \in Nat /\ n >= 8
                   /\ n <= Len(Left) =>
                        /\ Unmarshal(Left) = [err |-> Ok, off |-> n, msg |-> m]
                        /\ From(Left, n) \o socket
                             = Flat(WireFn, From(said, Len(received) + 1))
                   /\ n > Len(Left) => Unmarshal(Left).err \in More
    <2> DEFINE m == said[Len(received) + 1]
               next == From(said, Len(received) + 1)
               w == WireFn[m]
               n == Len(w)
               x == Flat(WireFn, next)
    <2>1. m \in WireMessage /\ Flat(WireFn, Coming) = w \o x /\ x \in Seq(Byte)
      BY <1>4, <1>6, ComingHead
    <2> HIDE DEF m, x
    <2>2. w \in Seq(Byte) /\ n \in Nat /\ n >= 8
      BY <2>1, WireIs
    <2>3. \A data \in Seq(Byte) :
            At(data, 0, w) =>
              IF n <= Len(data)
                THEN Unmarshal(data) = [err |-> Ok, off |-> n, msg |-> m]
                ELSE Unmarshal(data).err \in More
      BY <2>1, WireIs
    <2> HIDE DEF w
    <2> DEFINE l == Left
    <2>4. l \in Seq(Byte) /\ l \o socket = w \o x
      BY <1>2, <1>3, <2>1
    <2> HIDE DEF l
    <2>5. At(l, 0, w)
      <3>1. ASSUME NEW i \in 1..Len(w), 0 + i <= Len(l)
            PROVE  l[0 + i] = w[i]
        <4>1. Len(l) \in Nat /\ Len(w) \in Nat /\ Len(socket) \in Nat /\ Len(x) \in Nat
              /\ i \in Nat /\ 0 + i = i /\ i <= Len(w) /\ i >= 1
          BY <1>2, <2>1, <2>2, <2>4
        <4>2. \A z \in 1..(Len(l) + Len(socket)) :
                (l \o socket)[z] = IF z <= Len(l) THEN l[z] ELSE socket[z - Len(l)]
          BY <1>2, <2>4, ConcatProperties
        <4>3. \A z \in 1..(Len(w) + Len(x)) :
                (w \o x)[z] = IF z <= Len(w) THEN w[z] ELSE x[z - Len(w)]
          BY <2>1, <2>2, ConcatProperties
        <4>4. i <= Len(l)
          BY <3>1, <4>1
        <4>5. i \in 1..(Len(l) + Len(socket)) /\ i \in 1..(Len(w) + Len(x))
          BY <4>1, <4>4
        <4>6. (l \o socket)[i] = l[i]
          BY <4>2, <4>4, <4>5
        <4>7. (w \o x)[i] = w[i]
          BY <4>1, <4>3, <4>5
        <4>8. QED
          BY <2>4, <4>1, <4>6, <4>7
      <3>2. QED
        BY <3>1 DEF At
    <2>6. ASSUME n <= Len(l)
          PROVE  From(l, n) \o socket = x
      <3>1. l = SubSeq(l, 1, n) \o From(l, n)
        BY <2>2, <2>4, <2>6, Parts
      <3>2. SubSeq(l, 1, n) = w
        <4>1. 0 \in Nat /\ 0 + Len(w) <= Len(l)
          BY <2>2, <2>6
        <4>2. Slice(l, 0, Len(w)) = w
          BY <2>2, <2>4, <2>5, <4>1, SliceAt
        <4>3. 0 + 1 = 1 /\ 0 + n = n
          BY <2>2
        <4>4. QED
          BY <4>2, <4>3 DEF Slice
      <3>3. From(l, n) \in Seq(Byte)
        BY <2>2, <2>4, <2>6, FromType
      <3> DEFINE f == From(l, n)
      <3> HIDE DEF f, n
      <3>4. (w \o f) \o socket = w \o (f \o socket) /\ f \o socket \in Seq(Byte)
        <4>1. w \in Seq(Byte) /\ f \in Seq(Byte) /\ socket \in Seq(Byte)
          BY <1>2, <2>2, <3>3 DEF f
        <4>2. \A a, b, c \in Seq(Byte) : (a \o b) \o c = a \o (b \o c) /\ a \o b \in Seq(Byte)
          BY Assoc
        <4>3. QED
          BY <4>1, <4>2, ZenonT(30)
      <3>5. l = w \o f
        BY <3>1, <3>2 DEF f
      <3>6. w \o (f \o socket) = w \o x
        BY <2>4, <3>4, <3>5, Zenon
      <3>7. f \o socket = x
        BY <2>1, <2>2, <3>4, <3>6, Cancel
      <3>8. QED
        BY <3>7 DEF f
    <2>7. n <= Len(l) => Unmarshal(l) = [err |-> Ok, off |-> n, msg |-> m]
      BY <2>3, <2>4, <2>5
    <2>8. n > Len(l) => Unmarshal(l).err \in More
      <3>1. Len(l) \in Nat
        BY <2>4
      <3> HIDE DEF n
      <3>2. n > Len(l) => ~(n <= Len(l))
        BY <2>2, <3>1
      <3>3. QED
        BY <2>3, <2>4, <2>5, <3>2
    <2>9. QED
      BY <2>2, <2>6, <2>7, <2>8 DEF l, m, w, x
  <1>7. QED
    BY <1>5, <1>6

-----------------------------------------------------------------------------
(* The actions. *)

\* What is to come does not change without said and received.
LEMMA Unchanged ==
  ASSUME UNCHANGED <<said, received>>
  PROVE  Coming' = Coming
  BY DEF Coming

\* The format does not change, so neither does a sample's width.
LEMMA WidthUnchanged ==
  ASSUME UNCHANGED pcm_format
  PROVE  Width' = Width
  BY DEF Width

\* Appending does not touch the beginning.
LEMMA PrefixOfAppend ==
  ASSUME NEW S, NEW s \in Seq(S), NEW x \in S, NEW k \in Nat, k <= Len(s)
  PROVE  SubSeq(Append(s, x), 1, k) = SubSeq(s, 1, k)
  <1> DEFINE a == SubSeq(Append(s, x), 1, k)
             b == SubSeq(s, 1, k)
  <1>1. Append(s, x) \in Seq(S) /\ Len(Append(s, x)) = Len(s) + 1 /\ Len(s) \in Nat
        /\ \A i \in 1..Len(s) : Append(s, x)[i] = s[i]
    BY AppendProperties
  <1>2. a \in Seq(S) /\ Len(a) = k /\ \A i \in 1..k : a[i] = Append(s, x)[i]
    BY <1>1
  <1>3. b \in Seq(S) /\ Len(b) = k /\ \A i \in 1..k : b[i] = s[i]
    BY <1>1
  <1>4. \A i \in 1..k : i \in 1..Len(s)
    BY <1>1
  <1> HIDE DEF a, b
  <1>5. \A i \in 1..Len(a) : a[i] = b[i]
    BY <1>1, <1>2, <1>3, <1>4
  <1>6. a = b
    BY <1>2, <1>3, <1>5, SeqEqual
  <1>7. QED
    BY <1>6 DEF a, b

\* ViewInv holds at first.
LEMMA InitView ==
  ASSUME DownInit
  PROVE  ViewInv
  <1>1. /\ said = <<>> /\ socket = <<>> /\ current_binary = <<>> /\ received = <<>>
        /\ playing = <<>> /\ heard = <<>> /\ processed_bytes = 0 /\ reading = TRUE
        /\ garbled = FALSE /\ pcm_format \in PcmFormat
    BY DEF DownInit
  <1>2. BoundsInv
    <2>1. DownTypeOK
      <3>1. \A S : <<>> \in Seq(S)
        BY EmptySeq
      <3>2. 0 \in Nat /\ TRUE \in BOOLEAN /\ FALSE \in BOOLEAN
        OBVIOUS
      <3>3. QED
        BY <1>1, <3>1, <3>2, Zenon DEF DownTypeOK
    <2>2. playing \in Seq(Held)
      BY <1>1
    <2>3. QED
      BY <1>1, <2>1, <2>2 DEF BoundsInv
  <1>3. Len(said) = 0 /\ Len(received) = 0 /\ Len(current_binary) = 0 /\ Len(playing) = 0
    BY <1>1
  <1>4. /\ said \in Seq(WireMessage) /\ playing \in Seq(Held) /\ current_binary \in Seq(Byte)
    BY <1>1
  <1>5. Left = <<>> /\ Coming = <<>>
    BY <1>1, SubSeqEmpty DEF Left, Coming, From
  <1>6. Flat(WireFn, said) = <<>>
    BY <1>3, <1>4, FnTypes, FlatEmpty
  <1>7. Flat(SpeechFn(Width), said) = <<>> /\ Flat(RestFn(Width), playing) = <<>>
    <2> DEFINE w == Width
    <2>1. SpeechFn(w) \in [WireMessage -> Seq(Seq(Byte))] /\ RestFn(w) \in [Held -> Seq(Seq(Byte))]
      BY WidthIs, FnTypes
    <2> HIDE DEF w
    <2>2. QED
      BY <1>3, <1>4, <2>1, FlatEmpty DEF w
  <1>8. Coming = said
    BY <1>1, <1>5
  <1>9. LeftInv
    <2>1. SubSeq(said, 1, Len(received)) = <<>>
      BY <1>3, SubSeqEmpty
    <2>2. Left \o socket = <<>>
      BY <1>1, <1>5
    <2>3. QED
      BY <1>1, <1>3, <1>6, <1>8, <2>1, <2>2 DEF LeftInv
  <1>10. ComingInv
    <2>1. <<>> \o <<>> \o <<>> = <<>>
      OBVIOUS
    <2>2. QED
      BY <1>1, <1>7, <1>8, <2>1, Zenon DEF ComingInv
  <1>11. QED
    BY <1>2, <1>9, <1>10 DEF ViewInv

\* A message sent is on the wire and its speech still to come.
LEMMA SendView ==
  ASSUME ViewInv, NEW m \in WireMessage, Send(m)
  PROVE  ViewInv'
  <1>1. /\ said' = Append(said, m) /\ socket' = socket \o WireFn[m]
        /\ UNCHANGED <<pcm_format, garbled, current_binary, processed_bytes, reading,
                       received, playing, heard>>
    BY WireIs DEF Send, parseVars, playVars
  <1>2. /\ said \in Seq(WireMessage) /\ socket \in Seq(Byte) /\ Left \in Seq(Byte)
        /\ heard \in Seq(Seq(Byte)) /\ playing \in Seq(Held)
        /\ Len(said) \in Nat /\ Len(received) \in Nat /\ Len(Left) \in Nat
    BY Shape
  <1>3. WireFn[m] \in Seq(Byte) /\ Len(WireFn[m]) >= 8
    BY WireIs
  <1>4. said' \in Seq(WireMessage) /\ Len(said') = Len(said) + 1 /\ said'[Len(said) + 1] = m
        /\ \A i \in 1..Len(said) : said'[i] = said[i]
    BY <1>1, <1>2, AppendProperties
  <1>5. BoundsInv'
    <2>1. BoundsInv
      BY DEF ViewInv
    <2>2. socket' \in Seq(Byte)
      BY <1>1, <1>2, <1>3, ConcatProperties
    <2>3. QED
      BY <1>1, <1>4, <2>1, <2>2 DEF BoundsInv, DownTypeOK
  <1>6. ASSUME ~garbled
        PROVE  LeftInv' /\ ComingInv'
    <2>1. LeftInv /\ ComingInv
      BY <1>6 DEF ViewInv
    <2>2. Len(received) <= Len(said) /\ received = SubSeq(said, 1, Len(received))
          /\ Left \o socket = Flat(WireFn, Coming)
      BY <2>1 DEF LeftInv
    <2>3. Coming \in Seq(WireMessage)
      BY <2>2, Shape
    <2>4. Coming' = Append(Coming, m)
      <3> DEFINE k == Len(received)
      <3>1. k \in Nat /\ k <= Len(said)
        BY <1>2, <2>2
      <3>2. Coming' = From(Append(said, m), k)
        BY <1>1 DEF Coming
      <3>3. Coming = From(said, k)
        BY DEF Coming
      <3> HIDE DEF k
      <3>4. From(Append(said, m), k) = Append(From(said, k), m)
        BY <1>2, <3>1, FromAppend
      <3>5. QED
        BY <3>2, <3>3, <3>4
    <2>5. Left' = Left
      BY <1>1 DEF Left
    <2>6. WireFn \in [WireMessage -> Seq(Byte)]
      BY FnTypes
    <2>7. Left' \o socket' = Flat(WireFn, Coming')
      <3>1. Flat(WireFn, Append(Coming, m)) = Flat(WireFn, Coming) \o WireFn[m]
        BY <2>3, <2>6, FlatAppend
      <3> DEFINE x == WireFn[m]
      <3> HIDE DEF x
      <3>2. (Left \o socket) \o x = Left \o (socket \o x)
        <4>1. x \in Seq(Byte)
          BY <1>3 DEF x
        <4>2. QED
          BY <1>2, <4>1, ConcatAssociative, SMTT(30)
      <3>3. QED
        BY <1>1, <2>2, <2>4, <2>5, <3>1, <3>2, Zenon DEF x
    <2>8. received' = SubSeq(said', 1, Len(received'))
      <3> DEFINE k == Len(received)
      <3>1. k \in Nat /\ k <= Len(said) /\ received = SubSeq(said, 1, k)
        BY <1>2, <2>2
      <3> HIDE DEF k
      <3>2. SubSeq(Append(said, m), 1, k) = SubSeq(said, 1, k)
        BY <1>2, <3>1, PrefixOfAppend
      <3>3. QED
        BY <1>1, <3>1, <3>2 DEF k
    <2>9. ASSUME reading', Len(received') < Len(said')
          PROVE  Len(Left') < Len(WireFn[said'[Len(received') + 1]])
      <3>1. CASE Len(received) < Len(said)
        <4>1. Len(received) + 1 \in 1..Len(said)
          BY <1>2, <3>1
        <4>2. said'[Len(received) + 1] = said[Len(received) + 1]
          BY <1>4, <4>1
        <4>3. Len(Left) < Len(WireFn[said[Len(received) + 1]])
          BY <1>1, <2>1, <2>9, <3>1 DEF LeftInv
        <4>4. QED
          BY <1>1, <2>5, <4>2, <4>3
      <3>2. CASE ~(Len(received) < Len(said))
        <4>1. Len(received) = Len(said)
          BY <1>2, <2>2, <3>2
        <4>2. Left = <<>>
          BY <1>6, <4>1, Upcoming
        <4>3. Len(Left) = 0
          BY <4>2
        <4>4. said'[Len(received') + 1] = m
          BY <1>1, <1>4, <4>1
        <4>5. QED
          BY <1>3, <2>5, <4>3, <4>4
      <3>3. QED
        BY <3>1, <3>2
    <2>10. LeftInv'
      <3>1. Len(received') <= Len(said')
        BY <1>1, <1>2, <1>4, <2>2
      <3>2. QED
        BY <2>7, <2>8, <2>9, <3>1 DEF LeftInv
    <2>11. ComingInv'
      <3> DEFINE w == Width
                 s == SpeechFn(w)
                 r == Flat(RestFn(w), playing)
                 c == Flat(s, Coming)
                 a == Flat(s, said)
                 x == s[m]
      <3>1. s \in [WireMessage -> Seq(Seq(Byte))] /\ RestFn(w) \in [Held -> Seq(Seq(Byte))]
        BY WidthIs, FnTypes
      <3>2. Width' = w
        BY <1>1, WidthUnchanged
      <3>3. heard \o r \o c = a
        BY <2>1 DEF ComingInv
      <3> HIDE DEF w, s
      <3>4. r \in Seq(Seq(Byte)) /\ c \in Seq(Seq(Byte)) /\ x \in Seq(Seq(Byte))
        BY <1>2, <2>3, <3>1, FlatType
      <3>5. Flat(s, Append(Coming, m)) = c \o x /\ Flat(s, Append(said, m)) = a \o x
        <4>1. Coming \in Seq(WireMessage) /\ said \in Seq(WireMessage) /\ m \in WireMessage
          BY <1>2, <2>3
        <4>2. Flat(s, Append(Coming, m)) = Flat(s, Coming) \o s[m]
          BY <3>1, <4>1, FlatAppend, Zenon
        <4>3. Flat(s, Append(said, m)) = Flat(s, said) \o s[m]
          BY <3>1, <4>1, FlatAppend, Zenon
        <4>4. QED
          BY <4>2, <4>3, Zenon DEF c, a, x
      <3> HIDE DEF r, c, a, x
      <3>6. heard \o r \o (c \o x) = a \o x
        <4>1. \A p, q, z \in Seq(Seq(Byte)) :
                (p \o q) \o z = p \o (q \o z) /\ p \o q \in Seq(Seq(Byte))
          BY Assoc
        <4>2. heard \o r \in Seq(Seq(Byte))
          BY <1>2, <3>4, <4>1, Zenon
        <4>3. ((heard \o r) \o c) \o x = (heard \o r) \o (c \o x)
          BY <3>4, <4>1, <4>2, Zenon
        <4>4. QED
          BY <3>3, <4>3
      <3>7. Flat(RestFn(Width'), playing') = r /\ Flat(SpeechFn(Width'), Coming') = c \o x
            /\ Flat(SpeechFn(Width'), said') = a \o x
        BY <1>1, <2>4, <3>2, <3>5, Zenon DEF s, r
      <3>8. QED
        BY <1>1, <3>6, <3>7, Zenon DEF ComingInv
    <2>12. QED
      BY <2>10, <2>11
  <1>7. QED
    BY <1>1, <1>5, <1>6 DEF ViewInv

\* After garbage only types and bounds are claimed.
LEMMA GarbageView ==
  ASSUME ViewInv, NEW g \in GarbageBytes, SendGarbage(g)
  PROVE  ViewInv'
  <1>1. /\ garbled' = TRUE /\ socket' = socket \o g
        /\ UNCHANGED <<pcm_format, said, current_binary, processed_bytes, reading, received,
                       playing, heard>>
    BY DEF SendGarbage, parseVars, playVars
  <1>2. g \in Seq(Byte)
    BY DownlinkAssumption
  <1>3. socket \in Seq(Byte) /\ BoundsInv
    BY Shape DEF ViewInv
  <1>4. socket' \in Seq(Byte)
    BY <1>1, <1>2, <1>3, ConcatProperties
  <1>5. BoundsInv'
    BY <1>1, <1>3, <1>4 DEF BoundsInv, DownTypeOK
  <1>6. QED
    BY <1>1, <1>5 DEF ViewInv

\* ComingInv speaks of nothing that run_work's buffer or the socket holds.
LEMMA ComingKept ==
  ASSUME ComingInv, UNCHANGED <<pcm_format, said, received, playing, heard>>
  PROVE  ComingInv'
  <1>1. Coming' = Coming
    BY Unchanged
  <1>2. Width' = Width
    BY WidthUnchanged
  <1>3. QED
    BY <1>1, <1>2 DEF ComingInv

\* A frame moves bytes from the socket to the buffer.
LEMMA FrameView ==
  ASSUME ViewInv, NEW n \in 1..Len(socket), ReadFrame(n)
  PROVE  ViewInv'
  <1>1. /\ reading /\ reading' = FALSE /\ processed_bytes' = 0
        /\ current_binary' = current_binary \o SubSeq(socket, 1, n)
        /\ socket' = From(socket, n)
        /\ UNCHANGED <<pcm_format, said, garbled, received, playing, heard>>
    BY DEF ReadFrame, From, playVars
  <1>2. /\ socket \in Seq(Byte) /\ current_binary \in Seq(Byte) /\ Left \in Seq(Byte)
        /\ n \in Nat /\ n <= Len(socket)
    BY Shape
  <1>3. processed_bytes = 0 /\ BoundsInv
    BY <1>1 DEF ViewInv, BoundsInv
  <1> DEFINE f == SubSeq(socket, 1, n)
             t == From(socket, n)
             c == current_binary
  <1>4. f \in Seq(Byte) /\ t \in Seq(Byte) /\ socket = f \o t
    <2>1. f \in Seq(Byte)
      BY <1>2
    <2>2. t \in Seq(Byte) /\ socket = f \o t
      BY <1>2, FromType, Parts
    <2>3. QED
      BY <2>1, <2>2
  <1>5. From(c, 0) = c
    BY <1>2, SubSeqFull DEF From
  <1> HIDE DEF f, t
  <1>6. c \o f \in Seq(Byte)
    BY <1>2, <1>4, ConcatProperties
  <1>7. From(c \o f, 0) = c \o f
    <2> DEFINE d == c \o f
    <2>1. d \in Seq(Byte)
      BY <1>6
    <2> HIDE DEF d
    <2>2. SubSeq(d, 0 + 1, Len(d)) = d
      BY <2>1, SubSeqFull
    <2>3. QED
      BY <2>2 DEF From, d
  <1>8. BoundsInv'
    <2>1. current_binary' \in Seq(Byte) /\ socket' \in Seq(Byte) /\ 0 <= Len(current_binary')
      <3>1. current_binary' \in Seq(Byte)
        BY <1>1, <1>6 DEF f
      <3>2. socket' \in Seq(Byte)
        BY <1>1, <1>4 DEF t
      <3>3. QED
        BY <3>1, <3>2
    <2>2. QED
      BY <1>1, <1>3, <2>1 DEF BoundsInv, DownTypeOK
  <1>9. ASSUME ~garbled
        PROVE  LeftInv' /\ ComingInv'
    <2>1. LeftInv /\ ComingInv
      BY <1>9 DEF ViewInv
    <2>2. Coming' = Coming
      BY <1>1, Unchanged
    <2>3. Left = c /\ Left' = c \o f /\ socket' = t
      <3>1. Left = From(c, 0)
        BY <1>3 DEF Left
      <3>2. Left' = From(c \o f, 0)
        BY <1>1 DEF Left, f
      <3>3. QED
        BY <1>1, <1>5, <1>7, <3>1, <3>2 DEF t
    <2>4. (c \o f) \o t = c \o (f \o t)
      BY <1>2, <1>4, ConcatAssociative, SMTT(30)
    <2>5. Left' \o socket' = Flat(WireFn, Coming')
      <3>1. c \o socket = Flat(WireFn, Coming)
        BY <2>1, <2>3 DEF LeftInv
      <3>2. QED
        BY <1>4, <2>2, <2>3, <2>4, <3>1, Zenon
    <2>6. LeftInv'
      <3>1. Len(received) <= Len(said) /\ received = SubSeq(said, 1, Len(received))
        BY <2>1 DEF LeftInv
      <3>2. QED
        BY <1>1, <2>5, <3>1 DEF LeftInv
    <2>7. QED
      BY <1>1, <2>1, <2>6, ComingKept
  <1>10. QED
    BY <1>1, <1>8, <1>9 DEF ViewInv

\* A pause drops what was taken, and what is left is less than a message.
LEMMA PauseView ==
  ASSUME ViewInv, ParsePause
  PROVE  ViewInv'
  <1>1. /\ ~reading /\ reading' = TRUE /\ processed_bytes' = 0
        /\ current_binary' = Left
        /\ Left = <<>> \/ Unmarshal(Left).err \in More
        /\ UNCHANGED <<pcm_format, said, garbled, socket, received, playing, heard>>
    BY DEF ParsePause, Drain, Remaining, Left, From, netVars, playVars
  <1>2. Left \in Seq(Byte) /\ BoundsInv /\ Len(received) \in Nat /\ Len(said) \in Nat
    BY Shape DEF ViewInv
  <1>3. Left' = Left
    <2> DEFINE l == Left
    <2>1. Left' = From(l, 0)
      BY <1>1 DEF Left
    <2>2. l \in Seq(Byte)
      BY <1>2
    <2> HIDE DEF l
    <2>3. SubSeq(l, 0 + 1, Len(l)) = l
      BY <2>2, SubSeqFull
    <2>4. QED
      BY <2>1, <2>3 DEF From, l
  <1>4. BoundsInv'
    <2>1. current_binary' \in Seq(Byte) /\ 0 <= Len(current_binary')
      BY <1>1, <1>2
    <2>2. QED
      BY <1>1, <1>2, <2>1 DEF BoundsInv, DownTypeOK
  <1>5. ASSUME ~garbled
        PROVE  LeftInv' /\ ComingInv'
    <2>1. LeftInv /\ ComingInv
      BY <1>5 DEF ViewInv
    <2>2. Coming' = Coming
      BY <1>1, Unchanged
    <2>3. ASSUME Len(received) < Len(said)
          PROVE  Len(Left) < Len(WireFn[said[Len(received) + 1]])
      <3> DEFINE n == Len(WireFn[said[Len(received) + 1]])
                 m == said[Len(received) + 1]
      <3>1. /\ n \in Nat /\ n >= 8
            /\ n <= Len(Left) => Unmarshal(Left).err = Ok
        <4>1. n \in Nat /\ n >= 8
              /\ (n <= Len(Left) => Unmarshal(Left) = [err |-> Ok, off |-> n, msg |-> m])
          BY <1>5, <2>3, Upcoming
        <4> HIDE DEF n, m
        <4>2. QED
          BY <4>1
      <3>2. Ok \notin More
        BY DEF Ok, More
      <3> HIDE DEF n
      <3>3. Len(Left) \in Nat /\ (Left = <<>> => Len(Left) = 0)
        BY <1>2
      <3>4. Len(Left) < n
        BY <1>1, <3>1, <3>2, <3>3
      <3>5. QED
        BY <3>4 DEF n
    <2>4. LeftInv'
      <3>1. /\ Len(received) <= Len(said) /\ received = SubSeq(said, 1, Len(received))
            /\ Left \o socket = Flat(WireFn, Coming)
        BY <2>1 DEF LeftInv
      <3>2. QED
        BY <1>1, <1>3, <2>2, <2>3, <3>1 DEF LeftInv
    <2>5. QED
      BY <1>1, <2>1, <2>4, ComingKept
  <1>6. QED
    BY <1>1, <1>4, <1>5 DEF ViewInv

\* On a server that keeps to the protocol run_work never throws bytes away.
LEMMA ErrorView ==
  ASSUME ViewInv, ParseError
  PROVE  ViewInv'
  <1>1. /\ ~reading /\ reading' = TRUE /\ processed_bytes' = 0
        /\ current_binary' = From(current_binary, Len(current_binary))
        /\ Left # <<>> /\ Unmarshal(Left).err \notin More \cup {Ok}
        /\ UNCHANGED <<pcm_format, said, garbled, socket, received, playing, heard>>
    BY DEF ParseError, Drain, Remaining, Left, From, netVars, playVars
  <1>2. /\ current_binary \in Seq(Byte) /\ BoundsInv
        /\ Len(received) \in Nat /\ Len(said) \in Nat /\ Len(Left) \in Nat
    BY Shape DEF ViewInv
  <1>3. BoundsInv'
    <2> DEFINE l == Len(current_binary)
    <2>1. l \in Nat /\ l <= Len(current_binary)
      BY <1>2
    <2> HIDE DEF l
    <2>2. From(current_binary, l) \in Seq(Byte)
      BY <1>2, <2>1, FromType
    <2>3. current_binary' \in Seq(Byte)
      BY <1>1, <2>2 DEF l
    <2>4. 0 <= Len(current_binary')
      BY <2>3
    <2>5. QED
      BY <1>1, <1>2, <2>3, <2>4 DEF BoundsInv, DownTypeOK
  <1>4. garbled
    <2>1. SUFFICES ASSUME ~garbled PROVE FALSE
      OBVIOUS
    <2>2. Len(received) <= Len(said)
      BY <2>1 DEF ViewInv, LeftInv
    <2>3. Len(received) # Len(said)
      BY <1>1, <2>1, Upcoming
    <2>4. Len(received) < Len(said)
      BY <1>2, <2>2, <2>3
    <2> DEFINE m == said[Len(received) + 1]
               n == Len(WireFn[m])
    <2>5. /\ n \in Nat
          /\ n <= Len(Left) => Unmarshal(Left) = [err |-> Ok, off |-> n, msg |-> m]
          /\ n > Len(Left) => Unmarshal(Left).err \in More
      BY <2>1, <2>4, Upcoming
    <2> HIDE DEF m, n
    <2>6. n <= Len(Left) => Unmarshal(Left).err = Ok
      BY <2>5
    <2>7. QED
      BY <1>1, <1>2, <2>5, <2>6
  <1>5. QED
    BY <1>1, <1>3, <1>4 DEF ViewInv

\* A beginning longer by one.
LEMMA PrefixNext ==
  ASSUME NEW S, NEW s \in Seq(S), NEW k \in Nat, k < Len(s)
  PROVE  SubSeq(s, 1, k + 1) = Append(SubSeq(s, 1, k), s[k + 1])
  <1> DEFINE a == SubSeq(s, 1, k + 1)
             p == SubSeq(s, 1, k)
             b == Append(p, s[k + 1])
  <1>1. Len(s) \in Nat /\ s[k + 1] \in S
    <2>1. k + 1 \in 1..Len(s)
      OBVIOUS
    <2>2. QED
      BY <2>1, ElementOfSeq
  <1>2. a \in Seq(S) /\ Len(a) = k + 1 /\ \A i \in 1..(k + 1) : a[i] = s[i]
    BY <1>1
  <1>3. p \in Seq(S) /\ Len(p) = k /\ \A i \in 1..k : p[i] = s[i]
    BY <1>1
  <1> HIDE DEF a, p
  <1>4. b \in Seq(S) /\ Len(b) = k + 1 /\ b[k + 1] = s[k + 1] /\ \A i \in 1..k : b[i] = p[i]
    BY <1>1, <1>3, AppendProperties
  <1> HIDE DEF b
  <1>5. ASSUME NEW i \in 1..Len(a)
        PROVE  a[i] = b[i]
    <2>1. i \in 1..(k + 1)
      BY <1>2
    <2>2. CASE i = k + 1
      BY <1>2, <1>4, <2>1, <2>2
    <2>3. CASE i # k + 1
      <3>1. i \in 1..k
        BY <2>1, <2>3
      <3>2. QED
        BY <1>2, <1>3, <1>4, <2>1, <3>1
    <2>4. QED
      BY <2>2, <2>3
  <1>6. a = b
    BY <1>2, <1>4, <1>5, SeqEqual
  <1>7. QED
    BY <1>6 DEF a, b, p

\* What the sink has still to give grows by the message's samples.
LEMMA Played ==
  ASSUME ViewInv, NEW m \in WireMessage, NEW q,
         q = IF m.msg_type = AudioOnlyServer /\ m.payload # <<>>
               THEN Append(playing, [data |-> m.payload, pos |-> 0])
               ELSE playing
  PROVE  /\ Flat(RestFn(Width), playing) \in Seq(Seq(Byte))
         /\ SpeechFn(Width)[m] \in Seq(Seq(Byte))
         /\ Flat(RestFn(Width), q) = Flat(RestFn(Width), playing) \o SpeechFn(Width)[m]
  <1> DEFINE w == Width
             r == RestFn(w)
             x == SpeechFn(w)[m]
             p == m.payload
             new == [data |-> p, pos |-> 0]
  <1>1. playing \in Seq(Held)
    BY Shape
  <1>2. w \in {2, 4}
    BY WidthIs
  <1>3. p \in Seq(Byte)
    BY DownlinkAssumption DEF WellFormed, AnyMessage
  <1> HIDE DEF w
  <1>4. r \in [Held -> Seq(Seq(Byte))] /\ SpeechFn(w) \in [WireMessage -> Seq(Seq(Byte))]
    BY <1>2, FnTypes
  <1>5. x \in Seq(Seq(Byte))
    BY <1>4
  <1>6. x = IF m.msg_type = AudioOnlyServer THEN Cut(w, p, 0) ELSE <<>>
    BY DEF SpeechFn
  <1> HIDE DEF p
  <1>7. new \in Held /\ r[new] = Cut(w, p, 0)
    <2>1. new \in Held
      BY <1>3 DEF Held
    <2>2. QED
      BY <2>1 DEF RestFn
  <1>8. p = <<>> => Cut(w, p, 0) = <<>>
    <2>1. 0 \in Nat /\ 0 <= Len(p) /\ (p = <<>> => Len(p) = 0) /\ w \in Nat /\ w >= 1
      BY <1>2, <1>3
    <2>2. 0 + w > Len(p) => Cut(w, p, 0) = <<>>
      BY <1>2, <1>3, <2>1, CutIs
    <2>3. QED
      BY <2>1, <2>2
  <1> HIDE DEF r, x, new
  <1>9. Flat(r, playing) \in Seq(Seq(Byte))
    BY <1>1, <1>4, FlatType
  <1>10. CASE m.msg_type = AudioOnlyServer /\ p # <<>>
    <2>1. q = Append(playing, new)
      BY <1>10 DEF new, p
    <2>2. Flat(r, Append(playing, new)) = Flat(r, playing) \o r[new]
      BY <1>1, <1>4, <1>7, FlatAppend
    <2>3. r[new] = x
      BY <1>6, <1>7, <1>10
    <2>4. QED
      BY <1>5, <1>9, <2>1, <2>2, <2>3 DEF r, x, w
  <1>11. CASE ~(m.msg_type = AudioOnlyServer /\ p # <<>>)
    <2>1. q = playing
      BY <1>11 DEF p
    <2>2. x = <<>>
      BY <1>6, <1>8, <1>11
    <2>3. Flat(r, playing) \o <<>> = Flat(r, playing)
      BY <1>9, ConcatEmptySeq
    <2>4. QED
      BY <1>5, <1>9, <2>1, <2>2, <2>3, Zenon DEF r, x, w
  <1>12. QED
    BY <1>10, <1>11

\* A message parsed is the next one; its speech goes to the sink.
LEMMA ParseView ==
  ASSUME ViewInv, ParseOk
  PROVE  ViewInv'
  <1> DEFINE u == Unmarshal(Left)
  <1>1. /\ ~reading /\ reading' = reading /\ Left # <<>> /\ u.err = Ok
        /\ processed_bytes' = processed_bytes + u.off
        /\ received' = Append(received, u.msg)
        /\ playing' = IF u.msg.msg_type = AudioOnlyServer /\ u.msg.payload # <<>>
                        THEN Append(playing, [data |-> u.msg.payload, pos |-> 0])
                        ELSE playing
        /\ UNCHANGED <<pcm_format, said, garbled, socket, current_binary, heard>>
    BY DEF ParseOk, Remaining, Left, From, netVars
  <1>2. /\ Left \in Seq(Byte) /\ BoundsInv /\ Len(received) \in Nat /\ Len(said) \in Nat
        /\ said \in Seq(WireMessage) /\ socket \in Seq(Byte) /\ current_binary \in Seq(Byte)
        /\ received \in Seq(AnyMessage) /\ heard \in Seq(Seq(Byte)) /\ playing \in Seq(Held)
        /\ playing \in Seq([data : Seq(Byte), pos : Nat])
        /\ processed_bytes \in Nat /\ processed_bytes <= Len(current_binary)
        /\ Len(Left) = Len(current_binary) - processed_bytes
    BY Shape DEF ViewInv
  <1>3. u.off \in 8..Len(Left) /\ u.msg \in AnyMessage
    BY <1>1, <1>2, UnmarshalWithin
  <1> HIDE DEF u
  <1>4. BoundsInv'
    <2>1. processed_bytes' \in Nat /\ processed_bytes' <= Len(current_binary')
      <3>1. Len(current_binary) \in Nat
        BY <1>2
      <3>2. QED
        BY <1>1, <1>2, <1>3, <3>1, SMTT(30)
    <2>2. received' \in Seq(AnyMessage)
      BY <1>1, <1>2, <1>3, AppendProperties
    <2>3. playing' \in Seq(Held) /\ playing' \in Seq([data : Seq(Byte), pos : Nat])
      <3> DEFINE p == u.msg.payload
                 new == [data |-> p, pos |-> 0]
      <3>1. p \in Seq(Byte)
        BY <1>3 DEF AnyMessage
      <3> HIDE DEF p
      <3>2. new \in Held /\ new \in [data : Seq(Byte), pos : Nat]
        BY <3>1 DEF Held
      <3> HIDE DEF new
      <3>3. Append(playing, new) \in Seq(Held)
            /\ Append(playing, new) \in Seq([data : Seq(Byte), pos : Nat])
        BY <1>2, <3>2, AppendProperties
      <3>4. playing' = Append(playing, new) \/ playing' = playing
        BY <1>1 DEF new, p
      <3>5. QED
        BY <1>2, <3>3, <3>4
    <2>4. QED
      BY <1>1, <1>2, <2>1, <2>2, <2>3 DEF BoundsInv, DownTypeOK
  <1>5. ASSUME ~garbled
        PROVE  LeftInv' /\ ComingInv'
    <2> DEFINE k == Len(received)
               m == said[k + 1]
               n == Len(WireFn[m])
               next == From(said, k + 1)
    <2>1. LeftInv /\ ComingInv
      BY <1>5 DEF ViewInv
    <2>2. k < Len(said) /\ k \in Nat
      <3>1. k <= Len(said)
        BY <2>1 DEF LeftInv
      <3>2. k # Len(said)
        BY <1>1, <1>5, Upcoming
      <3>3. QED
        BY <1>2, <3>1, <3>2
    <2>3. n \in Nat /\ n <= Len(Left) /\ u = [err |-> Ok, off |-> n, msg |-> m]
          /\ From(Left, n) \o socket = Flat(WireFn, next)
      <3>1. /\ n \in Nat
            /\ n <= Len(Left) => /\ u = [err |-> Ok, off |-> n, msg |-> m]
                                 /\ From(Left, n) \o socket = Flat(WireFn, next)
            /\ n > Len(Left) => u.err \in More
        BY <1>5, <2>2, Upcoming DEF u
      <3>2. Ok \notin More /\ Len(Left) \in Nat
        BY <1>2 DEF Ok, More
      <3> HIDE DEF n, m, next
      <3>3. n <= Len(Left)
        BY <1>1, <3>1, <3>2
      <3>4. QED
        BY <3>1, <3>3
    <2>4. /\ m \in WireMessage /\ next \in Seq(WireMessage)
          /\ \A S : \A W \in [WireMessage -> Seq(S)] :
               Flat(W, Coming) = W[m] \o Flat(W, next) /\ Flat(W, next) \in Seq(S)
      BY <2>2, ComingHead
    <2>5. u.off = n /\ u.msg = m
      <3> HIDE DEF n, m
      <3>1. QED
        BY <2>3
    <2>6. Len(received') = k + 1 /\ Coming' = next
      <3>1. Len(received') = k + 1
        BY <1>1, <1>2, <1>3, AppendProperties
      <3>2. QED
        BY <1>1, <3>1 DEF Coming
    <2>7. Left' = From(Left, n)
      <3>1. Left' = From(current_binary, processed_bytes + n)
        BY <1>1, <2>5 DEF Left
      <3> HIDE DEF n
      <3>2. processed_bytes + n <= Len(current_binary)
        <4>1. Len(current_binary) \in Nat
          BY <1>2
        <4>2. QED
          BY <1>2, <2>3, <4>1
      <3>3. From(From(current_binary, processed_bytes), n) = From(current_binary, processed_bytes + n)
        BY <1>2, <2>3, <3>2, FromFrom
      <3>4. QED
        BY <3>1, <3>3 DEF Left
    <2>8. received' = SubSeq(said', 1, Len(received'))
      <3>1. received = SubSeq(said, 1, k)
        BY <2>1 DEF LeftInv
      <3>2. received' = Append(received, said[k + 1])
        BY <1>1, <2>5
      <3> HIDE DEF k, m
      <3>3. SubSeq(said, 1, k + 1) = Append(SubSeq(said, 1, k), said[k + 1])
        BY <1>2, <2>2, PrefixNext
      <3>4. QED
        BY <1>1, <2>6, <3>1, <3>2, <3>3
    <2>9. LeftInv'
      <3>1. Len(received') <= Len(said')
        <4> HIDE DEF k, m, n, next
        <4>1. QED
          BY <1>1, <1>2, <2>2, <2>6
      <3>2. Left' \o socket' = Flat(WireFn, Coming')
        BY <1>1, <2>3, <2>6, <2>7, Zenon
      <3>3. QED
        BY <1>1, <2>8, <3>1, <3>2 DEF LeftInv
    <2>10. ComingInv'
      <3> DEFINE s == SpeechFn(Width)
                 r == RestFn(Width)
                 x == s[m]
                 c == Flat(s, next)
                 b == Flat(r, playing)
      <3>1. s \in [WireMessage -> Seq(Seq(Byte))]
        BY WidthIs, FnTypes
      <3>2. Flat(s, Coming) = x \o c /\ c \in Seq(Seq(Byte))
        <4> HIDE DEF s, m, next
        <4>1. QED
          BY <2>4, <3>1
      <3>3. b \in Seq(Seq(Byte)) /\ x \in Seq(Seq(Byte)) /\ Flat(r, playing') = b \o x
        <4>1. playing' = IF m.msg_type = AudioOnlyServer /\ m.payload # <<>>
                           THEN Append(playing, [data |-> m.payload, pos |-> 0])
                           ELSE playing
          BY <1>1, <2>5
        <4> HIDE DEF m
        <4>2. QED
          BY <2>4, <4>1, Played
      <3>4. heard \o b \o (x \o c) = Flat(s, said)
        BY <2>1, <3>2 DEF ComingInv
      <3>5. Width' = Width
        BY <1>1, WidthUnchanged
      <3>6. Flat(RestFn(Width'), playing') = b \o x /\ Flat(SpeechFn(Width'), Coming') = c
            /\ Flat(SpeechFn(Width'), said') = Flat(s, said)
        BY <1>1, <2>6, <3>3, <3>5
      <3> HIDE DEF s, r, x, c, b
      <3>7. heard \o (b \o x) \o c = heard \o b \o (x \o c)
        <4>1. \A p, q, z \in Seq(Seq(Byte)) :
                (p \o q) \o z = p \o (q \o z) /\ p \o q \in Seq(Seq(Byte))
          BY Assoc
        <4>2. heard \o b \in Seq(Seq(Byte))
          BY <1>2, <3>3, <4>1, Zenon
        <4>3. (heard \o b) \o x = heard \o (b \o x)
          BY <1>2, <3>3, <4>1, Zenon
        <4>4. ((heard \o b) \o x) \o c = (heard \o b) \o (x \o c)
          BY <3>2, <3>3, <4>1, <4>2, Zenon
        <4>5. QED
          BY <4>3, <4>4
      <3>8. QED
        BY <1>1, <3>4, <3>6, <3>7, Zenon DEF ComingInv
    <2>11. QED
      BY <2>9, <2>10
  <1>6. QED
    BY <1>1, <1>4, <1>5 DEF ViewInv

\* A sequence with its first replaced.
LEMMA FirstReplaced ==
  ASSUME NEW S, NEW s \in Seq(S), Len(s) # 0, NEW y \in S, NEW t, t = [s EXCEPT ![1] = y]
  PROVE  t \in Seq(S) /\ Len(t) # 0 /\ Head(t) = y /\ Tail(t) = Tail(s)
  <1>1. Len(s) \in Nat /\ 1 \in 1..Len(s) /\ s # <<>>
    OBVIOUS
  <1>2. /\ t \in Seq(S) /\ Len(t) = Len(s)
        /\ \A j \in 1..Len(s) : t[j] = IF j = 1 THEN y ELSE s[j]
    BY <1>1, ExceptSeq
  <1>3. t # <<>>
    BY <1>1, <1>2, EmptySeq
  <1>4. Tail(s) \in Seq(S) /\ Len(Tail(s)) = Len(s) - 1
        /\ \A i \in 1..Len(Tail(s)) : Tail(s)[i] = s[i + 1]
    BY <1>1, HeadTailProperties
  <1>5. Tail(t) \in Seq(S) /\ Len(Tail(t)) = Len(t) - 1
        /\ \A i \in 1..Len(Tail(t)) : Tail(t)[i] = t[i + 1]
    BY <1>2, <1>3, HeadTailProperties
  <1> DEFINE a == Tail(s)
             b == Tail(t)
  <1> HIDE DEF a, b
  <1>6. ASSUME NEW i \in 1..Len(b)
        PROVE  b[i] = a[i]
    <2>1. i \in 1..Len(a) /\ i + 1 \in 1..Len(s) /\ i + 1 # 1
      BY <1>1, <1>2, <1>4, <1>5 DEF a, b
    <2>2. b[i] = t[i + 1] /\ a[i] = s[i + 1]
      BY <1>4, <1>5, <2>1 DEF a, b
    <2>3. QED
      BY <1>2, <2>1, <2>2
  <1>7. b = a
    <2>1. a \in Seq(S) /\ b \in Seq(S) /\ Len(a) = Len(b)
      BY <1>2, <1>4, <1>5 DEF a, b
    <2>2. QED
      BY <1>6, <2>1, SeqEqual
  <1>8. Head(t) = y
    BY <1>1, <1>2, <1>3
  <1>9. QED
    BY <1>1, <1>2, <1>7, <1>8 DEF a, b

\* A sample moves from the sink to the device, or an exhausted source goes.
LEMMA SampleView ==
  ASSUME ViewInv, NextSample
  PROVE  ViewInv'
  <1> DEFINE source == Head(playing)
             d == source.data
             o == source.pos
             w == Width
             new == [source EXCEPT !.pos = o + w]
             r == RestFn(w)
             h == Slice(d, o, w)
             rest == Tail(playing)
             ok == o + w <= Len(d)
  <1>1. /\ playing # <<>>
        /\ ok => heard' = Append(heard, h) /\ playing' = [playing EXCEPT ![1] = new]
        /\ ~ok => playing' = rest /\ heard' = heard
        /\ UNCHANGED <<pcm_format, said, garbled, socket, current_binary, processed_bytes,
                       reading, received>>
    <2>1. [playing EXCEPT ![1].pos = @ + Width]
            = [playing EXCEPT ![1] = [playing[1] EXCEPT !.pos = playing[1].pos + Width]]
      OBVIOUS
    <2>2. playing # <<>> /\ playing \in Seq(Held)
      BY Shape DEF NextSample
    <2>3. source = playing[1]
      BY <2>2
    <2>4. [playing EXCEPT ![1].pos = @ + Width] = [playing EXCEPT ![1] = new]
      BY <2>1, <2>3
    <2>5. UNCHANGED <<pcm_format, said, garbled, socket, current_binary, processed_bytes,
                      reading, received>>
      BY DEF NextSample, netVars, parseVars
    <2>6. IF ok THEN heard' = Append(heard, h) /\ playing' = [playing EXCEPT ![1].pos = @ + Width]
                ELSE playing' = rest /\ heard' = heard
      BY DEF NextSample, SampleThere
    <2> HIDE DEF ok, h, rest, new
    <2>7. QED
      BY <2>2, <2>4, <2>5, <2>6
  <1>2. /\ BoundsInv /\ heard \in Seq(Seq(Byte)) /\ playing \in Seq(Held)
        /\ playing \in Seq([data : Seq(Byte), pos : Nat]) /\ said \in Seq(WireMessage)
    BY Shape DEF ViewInv
  <1>3. Len(playing) # 0
    BY <1>1, <1>2, EmptySeq
  <1>4. source \in Held /\ rest \in Seq(Held) /\ rest \in Seq([data : Seq(Byte), pos : Nat])
    BY <1>1, <1>2, HeadTailProperties
  <1>5. w \in {2, 4}
    BY WidthIs
  <1>6. r \in [Held -> Seq(Seq(Byte))]
    BY <1>5, FnTypes
  <1>7. d \in Seq(Byte) /\ o \in Nat /\ o <= Len(d) /\ source = [data |-> d, pos |-> o]
    BY <1>4 DEF Held
  <1>8. r[source] = Cut(w, d, o)
    BY <1>4 DEF RestFn
  <1>9. new = [data |-> d, pos |-> o + w]
    <2> HIDE DEF w, d, o, source
    <2>1. [source EXCEPT !.pos = o + w] = [data |-> d, pos |-> o + w]
      BY <1>7
    <2>2. QED
      BY <2>1
  <1>10. Flat(r, playing) = r[source] \o Flat(r, rest) /\ Flat(r, rest) \in Seq(Seq(Byte))
    <2> HIDE DEF r
    <2>1. QED
      BY <1>2, <1>3, <1>4, <1>6, FlatHead, FlatType
  <1>11. ok => /\ new \in Held /\ r[new] = Cut(w, d, o + w) /\ r[new] \in Seq(Seq(Byte))
               /\ new \in [data : Seq(Byte), pos : Nat]
    <2>1. ASSUME ok
          PROVE  new \in Held /\ new \in [data : Seq(Byte), pos : Nat]
      <3> DEFINE z == o + w
      <3>1. z \in Nat /\ z <= Len(d)
        BY <1>5, <1>7, <2>1
      <3> HIDE DEF z, d
      <3>2. [data |-> d, pos |-> z] \in Held
            /\ [data |-> d, pos |-> z] \in [data : Seq(Byte), pos : Nat]
        BY <1>7, <3>1 DEF Held
      <3>3. QED
        BY <1>9, <3>2 DEF z, d
    <2>2. ASSUME ok
          PROVE  r[new] = Cut(w, d, o + w) /\ r[new] \in Seq(Seq(Byte))
      <3>1. r[new] = Cut(w, new.data, new.pos)
        BY <2>1, <2>2 DEF RestFn
      <3> HIDE DEF r, new
      <3>2. new.data = d /\ new.pos = o + w
        BY <1>9
      <3>3. QED
        BY <1>6, <2>1, <2>2, <3>1, <3>2
    <2>3. QED
      BY <2>1, <2>2
  <1>12. /\ ~ok => Cut(w, d, o) = <<>>
         /\ ok => h \in Seq(Byte) /\ Cut(w, d, o) = <<h>> \o Cut(w, d, o + w)
    <2> HIDE DEF w, d, o
    <2>1. ~ok => o + w > Len(d)
      <3>1. Len(d) \in Nat
        BY <1>7
      <3>2. QED
        BY <1>5, <1>7, <3>1
    <2>2. /\ o + w > Len(d) => Cut(w, d, o) = <<>>
          /\ ok => Slice(d, o, w) \in Seq(Byte)
                   /\ Cut(w, d, o) = <<Slice(d, o, w)>> \o Cut(w, d, o + w)
      BY <1>5, <1>7, CutIs
    <2>3. QED
      BY <2>1, <2>2, Zenon
  <1> HIDE DEF source, d, o, w, new, r, h, rest, ok
  <1>13. ok => /\ playing' \in Seq(Held) /\ playing' \in Seq([data : Seq(Byte), pos : Nat])
               /\ Len(playing') # 0 /\ Head(playing') = new /\ Tail(playing') = rest
    <2>1. SUFFICES ASSUME ok
                   PROVE  /\ playing' \in Seq(Held)
                          /\ playing' \in Seq([data : Seq(Byte), pos : Nat])
                          /\ Len(playing') # 0 /\ Head(playing') = new
                          /\ Tail(playing') = rest
      OBVIOUS
    <2> DEFINE t == playing'
    <2>2. t = [playing EXCEPT ![1] = new]
      BY <1>1, <2>1
    <2> HIDE DEF t
    <2>3. t \in Seq(Held) /\ Len(t) # 0 /\ Head(t) = new /\ Tail(t) = Tail(playing)
      BY <1>2, <1>3, <1>11, <2>1, <2>2, FirstReplaced
    <2>4. t \in Seq([data : Seq(Byte), pos : Nat])
      BY <1>2, <1>3, <1>11, <2>1, <2>2, FirstReplaced
    <2>5. QED
      BY <2>3, <2>4 DEF t, rest
  <1>14. heard' \in Seq(Seq(Byte)) /\ (ok => heard' = heard \o <<h>>)
    <2>1. CASE ok
      <3>1. heard' = Append(heard, h) /\ h \in Seq(Byte)
        BY <1>1, <1>12, <2>1
      <3>2. Append(heard, h) \in Seq(Seq(Byte))
        BY <1>2, <3>1, AppendProperties
      <3>3. Append(heard, h) = heard \o <<h>>
        BY <1>2, <3>1, AppendIsConcat
      <3>4. QED
        BY <3>1, <3>2, <3>3
    <2>2. CASE ~ok
      BY <1>1, <1>2, <2>2
    <2>3. QED
      BY <2>1, <2>2
  <1>15. BoundsInv'
    <2>1. playing' \in Seq(Held) /\ playing' \in Seq([data : Seq(Byte), pos : Nat])
      BY <1>1, <1>4, <1>13
    <2>2. QED
      BY <1>1, <1>2, <1>14, <2>1 DEF BoundsInv, DownTypeOK
  <1>16. ASSUME ~garbled
         PROVE  LeftInv' /\ ComingInv'
    <2>1. LeftInv /\ ComingInv
      BY <1>16 DEF ViewInv
    <2>2. Coming' = Coming /\ Left' = Left
      BY <1>1, Unchanged DEF Left
    <2>3. LeftInv'
      BY <1>1, <2>1, <2>2 DEF LeftInv
    <2>4. heard' \o Flat(r, playing') = heard \o Flat(r, playing)
      <3>1. CASE ~ok
        <4>1. Flat(r, playing) = <<>> \o Flat(r, rest)
          BY <1>8, <1>10, <1>12, <3>1
        <4>2. <<>> \o Flat(r, rest) = Flat(r, rest)
          BY <1>10, ConcatEmptySeq
        <4>3. QED
          BY <1>1, <3>1, <4>1, <4>2, Zenon
      <3>2. CASE ok
        <4> DEFINE f == Flat(r, rest)
                   x == r[new]
                   y == <<h>>
        <4>1. Flat(r, playing') = x \o f
          <5>1. Flat(r, playing') = r[Head(playing')] \o Flat(r, Tail(playing'))
            BY <1>6, <1>13, <3>2, FlatHead
          <5>2. QED
            BY <1>13, <3>2, <5>1, Zenon
        <4>2. Flat(r, playing) = (y \o x) \o f
          BY <1>8, <1>10, <1>11, <1>12, <3>2, Zenon
        <4>3. heard' = heard \o y
          BY <1>14, <3>2
        <4>4. f \in Seq(Seq(Byte)) /\ x \in Seq(Seq(Byte)) /\ y \in Seq(Seq(Byte))
          BY <1>10, <1>11, <1>12, <3>2
        <4> HIDE DEF f, x, y
        <4>5. \A p, q, z \in Seq(Seq(Byte)) :
                (p \o q) \o z = p \o (q \o z) /\ p \o q \in Seq(Seq(Byte))
          BY Assoc
        <4>6. (heard \o y) \o (x \o f) = heard \o ((y \o x) \o f)
          <5>1. (y \o x) \o f = y \o (x \o f) /\ x \o f \in Seq(Seq(Byte))
            BY <4>4, <4>5, Zenon
          <5>2. (heard \o y) \o (x \o f) = heard \o (y \o (x \o f))
            BY <1>2, <4>4, <4>5, <5>1, ZenonT(30)
          <5>3. QED
            BY <5>1, <5>2
        <4>7. QED
          BY <4>1, <4>2, <4>3, <4>6, Zenon
      <3>3. QED
        BY <3>1, <3>2
    <2>5. Width' = w
      BY <1>1, WidthUnchanged DEF w
    <2>6. ComingInv'
      <3>1. heard \o Flat(r, playing) \o Flat(SpeechFn(w), Coming) = Flat(SpeechFn(w), said)
        BY <2>1 DEF ComingInv, w, r
      <3>2. Flat(RestFn(Width'), playing') = Flat(r, playing')
            /\ Flat(SpeechFn(Width'), Coming') = Flat(SpeechFn(w), Coming)
            /\ Flat(SpeechFn(Width'), said') = Flat(SpeechFn(w), said)
        BY <1>1, <2>2, <2>5 DEF r
      <3>3. QED
        BY <2>4, <3>1, <3>2, Zenon DEF ComingInv
    <2>7. QED
      BY <2>3, <2>6
  <1>17. QED
    BY <1>1, <1>15, <1>16 DEF ViewInv

\* Every step keeps ViewInv.
LEMMA NextView ==
  ASSUME ViewInv, [DownNext]_downVars
  PROVE  ViewInv'
  <1>1. CASE \E m \in WireMessage : Send(m)
    BY <1>1, SendView
  <1>2. CASE \E g \in GarbageBytes : SendGarbage(g)
    BY <1>2, GarbageView
  <1>3. CASE \E n \in 1..Len(socket) : ReadFrame(n)
    BY <1>3, FrameView
  <1>4. CASE ParseOk
    BY <1>4, ParseView
  <1>5. CASE ParsePause
    BY <1>5, PauseView
  <1>6. CASE ParseError
    BY <1>6, ErrorView
  <1>7. CASE NextSample
    BY <1>7, SampleView
  <1>8. CASE UNCHANGED downVars
    <2>1. UNCHANGED <<pcm_format, said, garbled, socket, current_binary, processed_bytes,
                      reading, received, playing, heard>>
      BY <1>8 DEF downVars, netVars, parseVars, playVars
    <2>2. BoundsInv'
      BY <2>1 DEF ViewInv, BoundsInv, DownTypeOK
    <2>3. ASSUME ~garbled
          PROVE  LeftInv' /\ ComingInv'
      <3>1. LeftInv /\ ComingInv
        BY <2>3 DEF ViewInv
      <3>2. Coming' = Coming /\ Left' = Left
        BY <2>1, Unchanged DEF Left
      <3>3. LeftInv'
        BY <2>1, <3>1, <3>2 DEF LeftInv
      <3>4. ComingInv'
        BY <2>1, <3>1, ComingKept
      <3>5. QED
        BY <3>3, <3>4
    <2>4. QED
      BY <2>1, <2>2, <2>3 DEF ViewInv
  <1>9. QED
    BY <1>1, <1>2, <1>3, <1>4, <1>5, <1>6, <1>7, <1>8 DEF DownNext

\* A sequence is a prefix of what is concatenated to it.
LEMMA StartIsPrefix ==
  ASSUME NEW S, NEW a \in Seq(S), NEW b \in Seq(S)
  PROVE  IsPrefix(a, a \o b)
  <1> DEFINE t == a \o b
  <1>1. /\ t \in Seq(S) /\ Len(t) = Len(a) + Len(b)
        /\ \A i \in 1..Len(a) : t[i] = a[i]
    OBVIOUS
  <1> HIDE DEF t
  <1>2. Len(a) \in Nat /\ Len(b) \in Nat
    OBVIOUS
  <1>3. Len(a) <= Len(t)
    BY <1>1, <1>2
  <1>4. SubSeq(a, 1, Len(a)) = a
    OBVIOUS
  <1> DEFINE c == SubSeq(t, 1, Len(a))
  <1>5. c \in Seq(S) /\ Len(c) = Len(a) /\ \A i \in 1..Len(a) : c[i] = t[i]
    BY <1>1, <1>2, <1>3
  <1> HIDE DEF c
  <1>6. c = a
    BY <1>1, <1>5, SeqEqual
  <1>7. IsPrefix(a, t)
    BY <1>3, <1>4, <1>6 DEF c, IsPrefix
  <1>8. QED
    BY <1>7 DEF t

\* The messages received are the first of those sent.
LEMMA Sent ==
  ASSUME ViewInv
  PROVE  ReceivedAsSent
  <1>1. SUFFICES ASSUME ~garbled PROVE IsPrefix(received, said)
    BY DEF ReceivedAsSent
  <1>2. Len(received) <= Len(said) /\ received = SubSeq(said, 1, Len(received))
    BY <1>1 DEF ViewInv, LeftInv
  <1>3. received \in Seq(AnyMessage)
    BY Shape
  <1>4. SubSeq(received, 1, Len(received)) = received
    BY <1>3
  <1>5. QED
    BY <1>2, <1>4, Zenon DEF IsPrefix

\* With nothing left to read, what the buffer holds is no message's beginning.
LEMMA AllReceived ==
  ASSUME ViewInv, ~garbled, reading, socket = <<>>
  PROVE  Len(received) = Len(said) /\ received = said
  <1>1. LeftInv
    BY DEF ViewInv
  <1>2. /\ said \in Seq(WireMessage) /\ Left \in Seq(Byte)
        /\ Len(said) \in Nat /\ Len(received) \in Nat /\ Len(Left) \in Nat
    BY Shape
  <1>3. ASSUME Len(received) < Len(said)
        PROVE  FALSE
    <2> DEFINE k == Len(received)
               m == said[k + 1]
               x == WireFn[m]
               f == Flat(WireFn, From(said, k + 1))
    <2>1. x \in Seq(Byte) /\ f \in Seq(Byte) /\ Flat(WireFn, Coming) = x \o f
      <3>1. m \in WireMessage
        BY <1>3, ComingHead
      <3>2. WireFn \in [WireMessage -> Seq(Byte)]
        BY FnTypes
      <3>3. x \in Seq(Byte)
        BY <3>1, <3>2
      <3>4. QED
        BY <1>3, <3>2, <3>3, ComingHead
    <2>2. Len(Left) < Len(x)
      BY <1>1, <1>3 DEF LeftInv
    <2> HIDE DEF x, f
    <2>3. Left \o socket = x \o f
      BY <1>1, <2>1 DEF LeftInv
    <2>4. Left \o socket = Left
      BY <1>2, ConcatEmptySeq
    <2>5. Len(x \o f) = Len(x) + Len(f) /\ Len(x) \in Nat /\ Len(f) \in Nat
      BY <2>1, ConcatProperties
    <2>6. Len(Left) = Len(x) + Len(f)
      BY <2>3, <2>4, <2>5
    <2>7. QED
      BY <1>2, <2>2, <2>5, <2>6
  <1>4. Len(received) = Len(said)
    BY <1>1, <1>2, <1>3 DEF LeftInv
  <1>5. received = SubSeq(said, 1, Len(said))
    BY <1>1, <1>4 DEF LeftInv
  <1>6. SubSeq(said, 1, Len(said)) = said
    BY <1>2
  <1>7. QED
    BY <1>4, <1>5, <1>6

\* What was heard is a prefix of the speech, and with nothing left all of it.
LEMMA Heard ==
  ASSUME ViewInv
  PROVE  SpeechHeard
  <1>1. SUFFICES ASSUME ~garbled
                 PROVE  /\ IsPrefix(heard, SpeechOf(said))
                        /\ reading /\ socket = <<>> /\ playing = <<>> => heard = SpeechOf(said)
    BY DEF SpeechHeard
  <1> DEFINE w == Width
             r == RestFn(w)
             s == SpeechFn(w)
             b == Flat(r, playing)
             c == Flat(s, Coming)
             t == Flat(s, said)
  <1>2. /\ said \in Seq(WireMessage) /\ playing \in Seq(Held) /\ heard \in Seq(Seq(Byte))
        /\ Len(received) <= Len(said) => Coming \in Seq(WireMessage)
    BY Shape
  <1>3. Len(received) <= Len(said) /\ heard \o b \o c = t
    BY <1>1 DEF ViewInv, LeftInv, ComingInv
  <1>4. SpeechOf(said) = t
    BY <1>2, SpeechOfIs
  <1>5. s \in [WireMessage -> Seq(Seq(Byte))] /\ r \in [Held -> Seq(Seq(Byte))]
    <2>1. w \in {2, 4}
      BY WidthIs
    <2> HIDE DEF w
    <2>2. QED
      BY <2>1, FnTypes
  <1>6. Coming \in Seq(WireMessage)
    BY <1>2, <1>3
  <1> HIDE DEF w, r, s
  <1>7. b \in Seq(Seq(Byte)) /\ c \in Seq(Seq(Byte))
    BY <1>2, <1>5, <1>6, FlatType
  <1>8. IsPrefix(heard, t)
    <2> HIDE DEF b, c, t
    <2>1. \A p, q, z \in Seq(Seq(Byte)) :
            (p \o q) \o z = p \o (q \o z) /\ p \o q \in Seq(Seq(Byte))
      BY Assoc
    <2>2. heard \o (b \o c) = t
      BY <1>2, <1>3, <1>7, <2>1, Zenon
    <2>3. b \o c \in Seq(Seq(Byte))
      BY <1>7, <2>1, Zenon
    <2>4. IsPrefix(heard, heard \o (b \o c))
      BY <1>2, <2>3, StartIsPrefix
    <2>5. QED
      BY <2>2, <2>4
  <1>9. ASSUME reading, socket = <<>>, playing = <<>>
        PROVE  heard = t
    <2>1. Len(received) = Len(said)
      BY <1>1, <1>9, AllReceived
    <2>2. Len(Coming) = 0
      <3>1. Len(said) \in Nat /\ Len(said) <= Len(said)
        BY <1>2
      <3>2. Len(From(said, Len(said))) = Len(said) - Len(said)
        BY <1>2, <3>1, FromType
      <3>3. QED
        BY <2>1, <3>1, <3>2 DEF Coming
    <2>3. Len(playing) = 0
      BY <1>9
    <2>4. c = <<>>
      BY <1>5, <1>6, <2>2, FlatEmpty
    <2>5. b = <<>>
      BY <1>2, <1>5, <2>3, FlatEmpty
    <2> HIDE DEF b, c, t
    <2>6. heard \o <<>> = heard
      BY <1>2, ConcatEmptySeq
    <2>7. QED
      BY <1>3, <2>4, <2>5, <2>6
  <1>10. QED
    BY <1>4, <1>8, <1>9

-----------------------------------------------------------------------------
(* Theorems. *)

\* unmarshal inverts marshal: of any message with the fields that its type, flags
\* and event ask for, whatever bytes follow it, every field arrives as it was and
\* exactly its bytes are taken; any beginning of it asks for more bytes, and is no
\* message and no error.
THEOREM CodecInverts ==
  \A m : \A ser \in Byte : WellFormed(m) =>
    \E w \in Seq(Byte) :
      /\ Marshal(m, ser) = Given(w)
      /\ \A tail \in Seq(Byte) : Unmarshal(w \o tail) = [err |-> Ok, off |-> Len(w), msg |-> m]
      /\ \A n \in 0..(Len(w) - 1) : Unmarshal(SubSeq(w, 1, n)).err \in More
  <1>1. SUFFICES ASSUME NEW m, NEW ser \in Byte, WellFormed(m)
                 PROVE  \E w \in Seq(Byte) :
                   /\ Marshal(m, ser) = Given(w)
                   /\ \A tail \in Seq(Byte) :
                        Unmarshal(w \o tail) = [err |-> Ok, off |-> Len(w), msg |-> m]
                   /\ \A n \in 0..(Len(w) - 1) : Unmarshal(SubSeq(w, 1, n)).err \in More
    OBVIOUS
  <1>2. PICK w \in Seq(Byte) :
          /\ Marshal(m, ser) = Given(w)
          /\ \A data \in Seq(Byte) :
               At(data, 0, w) =>
                 IF Len(w) <= Len(data)
                   THEN Unmarshal(data) = [err |-> Ok, off |-> Len(w), msg |-> m]
                   ELSE Unmarshal(data).err \in More
    BY <1>1, RoundTripBytes
  <1>3. ASSUME NEW tail \in Seq(Byte)
        PROVE  Unmarshal(w \o tail) = [err |-> Ok, off |-> Len(w), msg |-> m]
    <2> DEFINE d == w \o tail
    <2>1. /\ d \in Seq(Byte) /\ Len(d) = Len(w) + Len(tail)
          /\ \A i \in 1..Len(w) : d[i] = w[i]
      BY ConcatProperties
    <2> HIDE DEF d
    <2>2. Len(w) \in Nat /\ Len(tail) \in Nat
      OBVIOUS
    <2>3. Len(w) <= Len(d)
      BY <2>1, <2>2
    <2>4. At(d, 0, w)
      BY <2>1 DEF At
    <2>5. Unmarshal(d) = [err |-> Ok, off |-> Len(w), msg |-> m]
      BY <1>2, <2>1, <2>3, <2>4
    <2>6. QED
      BY <2>5 DEF d
  <1>4. ASSUME NEW n \in 0..(Len(w) - 1)
        PROVE  Unmarshal(SubSeq(w, 1, n)).err \in More
    <2> DEFINE d == SubSeq(w, 1, n)
    <2>1. Len(w) \in Nat /\ n \in Nat /\ n < Len(w)
      OBVIOUS
    <2>2. d \in Seq(Byte) /\ Len(d) = n /\ \A i \in 1..n : d[i] = w[i]
      BY <2>1
    <2> HIDE DEF d
    <2>3. At(d, 0, w)
      BY <2>1, <2>2 DEF At
    <2>4. ~(Len(w) <= Len(d))
      BY <2>1, <2>2
    <2>5. Unmarshal(d).err \in More
      BY <1>2, <2>2, <2>3, <2>4
    <2>6. QED
      BY <2>5 DEF d
  <1>5. QED
    BY <1>2, <1>3, <1>4

\* Whatever the bytes, unmarshal takes a message's header and length at least and
\* nothing beyond their end, and what it makes of them is a message.
THEOREM CodecWithin ==
  \A data \in Seq(Byte) :
    Unmarshal(data).err = Ok =>
      Unmarshal(data).off \in 8..Len(data) /\ Unmarshal(data).msg \in AnyMessage
  BY UnmarshalWithin

\* Buffer and socket hold the messages not yet received, byte by byte, and what
\* was heard, what the sink holds and what is still to come are the server's
\* speech, sample by sample.
THEOREM DownInvariant == DownSpec => []DownInv
  <1>1. DownSpec => []ViewInv
    BY InitView, NextView, PTL DEF DownSpec
  <1>2. QED
    BY <1>1, ViewIs, PTL

\* However frames cut them, messages arrive as they were sent, in order and once.
THEOREM MessagesArrive == DownSpec => []ReceivedAsSent
  <1>1. DownInv => ReceivedAsSent
    BY ViewIs, Sent
  <1>2. QED
    BY <1>1, DownInvariant, PTL

\* No complete message waits for the bytes of a next one.
THEOREM NoneHeldBack == DownSpec => []NothingHeldBack
  <1>1. DownInv => NothingHeldBack
    BY ViewIs, AllReceived DEF NothingHeldBack
  <1>2. QED
    BY <1>1, DownInvariant, PTL

\* Also after bytes that are no message, run_work's loop advances, within the
\* buffer.
THEOREM ParseAdvances == DownSpec => []ConsumesWithin
  <1>1. DownInv => ConsumesWithin
    <2>1. SUFFICES ASSUME ViewInv PROVE ConsumesWithin
      BY ViewIs
    <2>2. Left \in Seq(Byte) /\ processed_bytes <= Len(current_binary)
      BY <2>1, Shape
    <2>3. Remaining = Left
      BY DEF Left, From, Remaining
    <2>4. QED
      BY <2>2, <2>3, CodecWithin, Zenon DEF ConsumesWithin
  <1>2. QED
    BY <1>1, DownInvariant, PTL

\* The device hears the samples of the speech whole and in order, with nothing
\* left out but the incomplete last sample of a message.
THEOREM SpeechIsHeard == DownSpec => []SpeechHeard
  <1>1. DownInv => SpeechHeard
    BY ViewIs, Heard
  <1>2. QED
    BY <1>1, DownInvariant, PTL
=============================================================================
