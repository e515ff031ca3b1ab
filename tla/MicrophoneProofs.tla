--------------------------- MODULE MicrophoneProofs ---------------------------
(***************************************************************************)
(* What a MicrophoneReader reads, and whose consumer it is, for any number *)
(* of readers, any buffer of whole samples and any chunks.  MicInv is the  *)
(* inductive invariant: types, the registry, and, from what a reader has   *)
(* read to what the device captured last, one line of bytes without a gap. *)
(***************************************************************************)
EXTENDS Microphone, SequenceTheorems, TLAPS

-----------------------------------------------------------------------------
(* Bytes and chunks. *)

\* A sequence with one more at its end.
LEMMA OneMore ==
  ASSUME NEW S, NEW q \in Seq(S), NEW x \in S
  PROVE  /\ Append(q, x) \in Seq(S)
         /\ Append(q, x) # <<>>
         /\ Len(q) \in Nat
         /\ Len(Append(q, x)) = Len(q) + 1
         /\ \A i \in 1..Len(q) : Append(q, x)[i] = q[i]
         /\ Append(q, x)[Len(q) + 1] = x
  BY AppendProperties

\* The tail of a channel.
LEMMA OneLess ==
  ASSUME NEW S, NEW q \in Seq(S), q # <<>>
  PROVE  /\ Head(q) = q[1] /\ q[1] \in S
         /\ Len(q) \in Nat /\ Len(q) > 0
         /\ Tail(q) \in Seq(S)
         /\ Len(Tail(q)) = Len(q) - 1
         /\ \A i \in 1..(Len(q) - 1) : Tail(q)[i] = q[i + 1]
  BY HeadTailProperties, EmptySeq, ElementOfSeq

\* Whole samples, by the parity of their bytes.
LEMMA Parity ==
  /\ \A m, n \in Nat : m % 2 = 0 /\ n % 2 = 0 => (m + n) % 2 = 0
  /\ \A m, n \in Nat : m % 2 = 0 /\ n % 2 = 0 /\ n <= m => (m - n) % 2 = 0
  /\ \A m, n \in Nat : m % 2 = 1 /\ n % 2 = 0 => (m + n) % 2 = 1
  /\ \A m \in Nat : (m * 2) % 2 = 0 /\ (m % 2 = 0 => (m + 1) % 2 = 1)
  OBVIOUS

\* Bytes joined to those that come after them.
LEMMA Joined ==
  ASSUME NEW a \in Seq(Nat), NEW b \in Seq(Nat), a # <<>>, b # <<>>,
         Consecutive(a), Consecutive(b), b[1] = After(a)
  PROVE  /\ a \o b # <<>>
         /\ Consecutive(a \o b)
         /\ (a \o b)[1] = a[1]
         /\ After(a \o b) = After(b)
  <1>1. /\ a \o b \in Seq(Nat)
        /\ Len(a \o b) = Len(a) + Len(b)
        /\ Len(a) \in Nat /\ Len(b) \in Nat /\ Len(a) > 0 /\ Len(b) > 0
        /\ a[1] \in Nat /\ b[1] \in Nat
    BY ConcatProperties, EmptySeq, ElementOfSeq
  <1>2. \A i \in 1..Len(a) : (a \o b)[i] = a[i]
    BY <1>1, ConcatProperties
  <1>3. \A i \in (Len(a) + 1)..(Len(a) + Len(b)) : (a \o b)[i] = b[i - Len(a)]
    BY <1>1, ConcatProperties
  <1>4. (a \o b)[1] = a[1]
    BY <1>1, <1>2
  <1>5. b[1] = a[1] + Len(a)
    BY DEF After
  <1>6. ASSUME NEW i \in 1..Len(a \o b)
        PROVE  (a \o b)[i] = a[1] + (i - 1)
    <2>1. CASE i <= Len(a)
      BY <1>1, <1>2, <2>1 DEF Consecutive
    <2>2. CASE i > Len(a)
      <3>1. i - Len(a) \in 1..Len(b) /\ i \in (Len(a) + 1)..(Len(a) + Len(b))
        BY <1>1, <2>2
      <3>2. b[i - Len(a)] = b[1] + (i - Len(a) - 1)
        BY <3>1 DEF Consecutive
      <3>3. (a \o b)[i] = b[i - Len(a)]
        BY <1>3, <3>1
      <3>4. b[1] + (i - Len(a) - 1) = a[1] + (i - 1)
        <4>1. i \in Nat
          BY <1>1
        <4> DEFINE x == a[1]
                   y == b[1]
                   n == Len(a)
        <4>2. x \in Nat /\ y = x + n /\ n \in Nat
          BY <1>1, <1>5
        <4> HIDE DEF x, y, n
        <4>3. y + (i - n - 1) = x + (i - 1)
          BY <4>1, <4>2
        <4>4. QED
          BY <4>3 DEF x, y, n
      <3>5. QED
        BY <3>2, <3>3, <3>4
    <2>3. i \in Nat
      BY <1>1
    <2>4. QED
      BY <1>1, <2>1, <2>2, <2>3, SMTT(30)
  <1>7. Consecutive(a \o b)
    BY <1>4, <1>6 DEF Consecutive
  <1>8. After(a \o b) = After(b)
    <2>1. After(a \o b) = a[1] + (Len(a) + Len(b)) /\ After(b) = (a[1] + Len(a)) + Len(b)
      BY <1>1, <1>4, <1>5 DEF After
    <2>2. QED
      BY <1>1, <2>1
  <1>9. a \o b # <<>>
    BY <1>1
  <1>10. QED
    BY <1>4, <1>7, <1>8, <1>9

\* Some of the entries of a sequence.
LEMMA Part ==
  ASSUME NEW S, NEW q \in Seq(S), NEW m \in 1..Len(q), NEW n \in m..Len(q)
  PROVE  SubSeq(q, m, n) \in Seq(S) /\ Len(SubSeq(q, m, n)) = n - m + 1
  OBVIOUS

\* Some of the bytes of a chunk.
LEMMA Slice ==
  ASSUME NEW b \in Seq(Nat), Consecutive(b), NEW m \in 1..Len(b), NEW n \in m..Len(b)
  PROVE  /\ SubSeq(b, m, n) \in Seq(Nat)
         /\ SubSeq(b, m, n) # <<>>
         /\ Len(SubSeq(b, m, n)) = n - m + 1
         /\ SubSeq(b, m, n)[1] = b[m]
         /\ b[m] = b[1] + (m - 1)
         /\ Consecutive(SubSeq(b, m, n))
         /\ After(SubSeq(b, m, n)) = b[1] + n
  <1>1. Len(b) \in Nat /\ b[1] \in Nat
    BY ElementOfSeq
  <1>2. /\ SubSeq(b, m, n) \in Seq(Nat)
        /\ Len(SubSeq(b, m, n)) = n - m + 1
        /\ \A i \in 1..(n - m + 1) : SubSeq(b, m, n)[i] = b[m + i - 1]
    BY <1>1
  <1>3. SubSeq(b, m, n) # <<>>
    BY <1>1, <1>2
  <1>4. \A i \in 1..(n - m + 1) : SubSeq(b, m, n)[i] = b[1] + (m + i - 1 - 1)
    <2>1. \A i \in 1..(n - m + 1) : m + i - 1 \in 1..Len(b)
      BY <1>1
    <2>2. QED
      BY <1>2, <2>1 DEF Consecutive
  <1>5. b[m] = b[1] + (m - 1)
    BY DEF Consecutive
  <1>6. SubSeq(b, m, n)[1] = b[m]
    BY <1>1, <1>2
  <1>7. \A i \in 1..(n - m + 1) : SubSeq(b, m, n)[i] = b[m] + (i - 1)
    BY <1>1, <1>4, <1>5
  <1>8. Consecutive(SubSeq(b, m, n))
    BY <1>2, <1>6, <1>7 DEF Consecutive
  <1>9. After(SubSeq(b, m, n)) = (b[1] + (m - 1)) + (n - m + 1)
    BY <1>2, <1>5, <1>6 DEF After
  <1>10. (b[1] + (m - 1)) + (n - m + 1) = b[1] + n
    BY <1>1
  <1>11. QED
    BY <1>2, <1>3, <1>5, <1>6, <1>8, <1>9, <1>10

\* A chunk put at the end of a channel.
LEMMA GaplessAppend ==
  ASSUME NEW q \in Seq(Chunk), NEW x \in Chunk, Gapless(q), Whole(x),
         q # <<>> => x[1] = After(q[Len(q)])
  PROVE  Gapless(Append(q, x))
  <1>1. /\ Len(q) \in Nat
        /\ Len(Append(q, x)) = Len(q) + 1
        /\ \A i \in 1..Len(q) : Append(q, x)[i] = q[i]
        /\ Append(q, x)[Len(q) + 1] = x
    BY OneMore
  <1>2. \A i \in 1..(Len(q) + 1) : Whole(Append(q, x)[i])
    BY <1>1 DEF Gapless
  <1>3. ASSUME NEW i \in 1..(Len(q) + 1 - 1)
        PROVE  Append(q, x)[i + 1][1] = After(Append(q, x)[i])
    <2>1. i \in 1..Len(q) /\ q # <<>>
      BY <1>1
    <2>2. CASE i = Len(q)
      BY <1>1, <2>1, <2>2
    <2>3. CASE i # Len(q)
      <3>1. i \in 1..(Len(q) - 1) /\ i + 1 \in 1..Len(q)
        BY <1>1, <2>1, <2>3
      <3>2. QED
        BY <1>1, <2>1, <3>1 DEF Gapless
    <2>4. QED
      BY <2>2, <2>3
  <1>4. QED
    BY <1>1, <1>2, <1>3 DEF Gapless

\* A chunk taken from the front of a channel.
LEMMA GaplessTail ==
  ASSUME NEW q \in Seq(Chunk), Gapless(q), q # <<>>
  PROVE  /\ Gapless(Tail(q))
         /\ Whole(q[1]) /\ q[1] \in Chunk /\ Head(q) = q[1]
         /\ Tail(q) = <<>> => q[Len(q)] = q[1]
         /\ Tail(q) # <<>> => /\ Tail(q)[1][1] = After(q[1])
                              /\ Tail(q)[Len(Tail(q))] = q[Len(q)]
  <1>1. /\ Head(q) = q[1] /\ q[1] \in Chunk
        /\ Len(q) \in Nat /\ Len(q) > 0
        /\ Tail(q) \in Seq(Chunk)
        /\ Len(Tail(q)) = Len(q) - 1
        /\ \A i \in 1..(Len(q) - 1) : Tail(q)[i] = q[i + 1]
    BY OneLess
  <1>2. \A i \in 1..(Len(q) - 1) : i + 1 \in 1..Len(q)
    BY <1>1
  <1>3. \A i \in 1..(Len(q) - 1 - 1) : i \in 1..(Len(q) - 1) /\ i + 1 \in 1..(Len(q) - 1)
    BY <1>1
  <1>4. Gapless(Tail(q))
    BY <1>1, <1>2, <1>3 DEF Gapless
  <1>5. Whole(q[1])
    BY <1>1 DEF Gapless
  <1>6. ASSUME Tail(q) = <<>> PROVE q[Len(q)] = q[1]
    <2>1. Len(Tail(q)) = 0
      BY <1>1, <1>6, EmptySeq
    <2>2. Len(q) = 1
      <3>1. Len(q) - 1 = 0 /\ Len(q) \in Nat
        BY <1>1, <2>1, Zenon
      <3>2. QED
        BY <3>1
    <2>3. QED
      BY <2>2
  <1>7. ASSUME Tail(q) # <<>>
        PROVE  /\ Tail(q)[1][1] = After(q[1])
               /\ Tail(q)[Len(Tail(q))] = q[Len(q)]
    <2>1. Len(q) - 1 > 0
      BY <1>1, <1>7, EmptySeq
    <2>2. 1 \in 1..(Len(q) - 1) /\ Len(q) - 1 \in 1..(Len(q) - 1) /\ (Len(q) - 1) + 1 = Len(q)
      BY <1>1, <2>1
    <2>3. Tail(q)[1] = q[1 + 1] /\ Tail(q)[Len(q) - 1] = q[Len(q)]
      BY <1>1, <2>2
    <2>4. q[1 + 1][1] = After(q[1])
      BY <2>2 DEF Gapless
    <2>5. QED
      BY <1>1, <2>3, <2>4
  <1>8. QED
    BY <1>1, <1>4, <1>5, <1>6, <1>7

-----------------------------------------------------------------------------
(* Types. *)

\* The types hold at first.
LEMMA MicTypeInit == MicInit => MicTypeOK
  <1>1. <<>> \in Seq(Chunk)
    BY EmptySeq
  <1>2. <<>> \in Chunk
    BY EmptySeq DEF Chunk
  <1>3. <<>> \in Seq(Reader)
    BY EmptySeq
  <1> HIDE DEF Chunk
  <1>4. [r \in Reader |-> <<>>] \in [Reader -> Seq(Chunk)]
    BY <1>1
  <1>5. [r \in Reader |-> <<>>] \in [Reader -> Chunk]
    BY <1>2
  <1>6. ASSUME MicInit
        PROVE  /\ captured \in Seq(Chunk) /\ data_consumers \in Seq(Reader)
               /\ rx \in [Reader -> Seq(Chunk)]
    BY <1>1, <1>3, <1>4, <1>6, Zenon DEF MicInit
  <1>7. ASSUME MicInit
        PROVE  /\ current_buffer \in [Reader -> Chunk]
               /\ buf \in [Reader -> Chunk] /\ got \in [Reader -> Chunk]
    BY <1>5, <1>7, Zenon DEF MicInit
  <1>8. ASSUME MicInit
        PROVE  /\ made \in Nat /\ poisoned \in BOOLEAN /\ nested \in BOOLEAN
               /\ micWorker \in {"run", "panicked"}
               /\ state \in [Reader -> {"new", "open", "reading", "closed", "panicked"}]
               /\ consumer_index \in [Reader -> Nat] /\ cur_index \in [Reader -> Nat]
    BY <1>8 DEF MicInit
  <1>9. QED
    BY <1>6, <1>7, <1>8, Zenon DEF MicTypeOK

\* The chunk a callback makes.
LEMMA Fresh ==
  ASSUME MicTypeOK, NEW n \in 1..MaxChunk
  PROVE  LET chunk == [i \in 1..(n * SampleBytes) |-> made + i]
         IN  /\ chunk \in Chunk
             /\ Len(chunk) = n * SampleBytes
             /\ n * SampleBytes \in Nat
             /\ n * SampleBytes > 0
             /\ \A i \in 1..(n * SampleBytes) : chunk[i] = made + i
  <1>1. n \in Nat /\ n > 0 /\ made \in Nat
    BY MicAssumption DEF MicTypeOK
  <1>2. n * SampleBytes \in Nat /\ n * SampleBytes > 0
    BY <1>1 DEF SampleBytes
  <1>3. \A i \in 1..(n * SampleBytes) : made + i \in Nat
    BY <1>1, <1>2
  <1>4. QED
    BY <1>2, <1>3, IsASeq DEF Chunk

\* The consumers before one of them.
LEMMA Before ==
  ASSUME NEW q \in Seq(Reader), NEW k \in 1..Len(q)
  PROVE  /\ SubSeq(q, 1, k - 1) \in Seq(Reader)
         /\ Len(SubSeq(q, 1, k - 1)) = k - 1
         /\ \A i \in 1..(k - 1) : SubSeq(q, 1, k - 1)[i] = q[i]
  <1>1. Len(q) \in Nat
    OBVIOUS
  <1>2. QED
    BY <1>1

\* A consumer removed leaves consumers.
LEMMA Removed ==
  ASSUME NEW q \in Seq(Reader), NEW k \in 1..Len(q)
  PROVE  /\ RemoveAt(q, k) \in Seq(Reader)
         /\ ToSet(RemoveAt(q, k)) \subseteq ToSet(q)
  <1>1. Len(q) \in Nat
    OBVIOUS
  <1>2. /\ SubSeq(q, 1, k - 1) \in Seq(Reader)
        /\ Len(SubSeq(q, 1, k - 1)) = k - 1
        /\ \A i \in 1..(k - 1) : SubSeq(q, 1, k - 1)[i] = q[i]
    BY <1>1
  <1>3. /\ SubSeq(q, k + 1, Len(q)) \in Seq(Reader)
        /\ Len(SubSeq(q, k + 1, Len(q))) = Len(q) - k
        /\ \A i \in 1..(Len(q) - k) : SubSeq(q, k + 1, Len(q))[i] = q[k + i]
    BY <1>1
  <1> DEFINE a == SubSeq(q, 1, k - 1)
             b == SubSeq(q, k + 1, Len(q))
  <1>4. RemoveAt(q, k) = a \o b
    BY DEF RemoveAt
  <1> HIDE DEF a, b
  <1>5. /\ a \o b \in Seq(Reader)
        /\ Len(a \o b) = Len(a) + Len(b)
        /\ \A i \in 1..Len(a) : (a \o b)[i] = a[i]
        /\ \A i \in (Len(a) + 1)..(Len(a) + Len(b)) : (a \o b)[i] = b[i - Len(a)]
    BY <1>2, <1>3, ConcatProperties, SMTT(30) DEF a, b
  <1>6. ASSUME NEW i \in 1..Len(a \o b)
        PROVE  \E j \in 1..Len(q) : (a \o b)[i] = q[j]
    <2>1. Len(a) = k - 1 /\ Len(b) = Len(q) - k /\ Len(a \o b) = Len(q) - 1
      <3>1. Len(a) = k - 1 /\ Len(b) = Len(q) - k
        BY <1>2, <1>3 DEF a, b
      <3>2. (k - 1) + (Len(q) - k) = Len(q) - 1
        BY <1>1
      <3>3. QED
        BY <1>5, <3>1, <3>2, Zenon
    <2>2. CASE i < k
      <3>1. i \in 1..Len(a) /\ i \in 1..(k - 1) /\ i \in 1..Len(q)
        BY <1>1, <2>1, <2>2
      <3>2. (a \o b)[i] = q[i]
        BY <1>2, <1>5, <3>1 DEF a
      <3>3. QED
        BY <3>1, <3>2
    <2>3. CASE i >= k
      <3>1. /\ i \in (Len(a) + 1)..(Len(a) + Len(b))
            /\ i - Len(a) \in 1..(Len(q) - k)
            /\ k + (i - Len(a)) = i + 1
            /\ i + 1 \in 1..Len(q)
        BY <1>1, <2>1, <2>3
      <3>2. (a \o b)[i] = q[i + 1]
        BY <1>3, <1>5, <3>1 DEF b
      <3>3. QED
        BY <3>1, <3>2
    <2>4. QED
      BY <1>1, <2>1, <2>2, <2>3
  <1>7. QED
    BY <1>4, <1>5, <1>6 DEF ToSet

\* The device and the worker keep the types,
LEMMA TypeDevice ==
  ASSUME MicTypeOK,
         (\E n \in 1..MaxChunk : Capture(n)) \/ Distribute \/ DistributePanics
  PROVE  MicTypeOK'
  <1>1. ASSUME NEW n \in 1..MaxChunk, Capture(n)
        PROVE  MicTypeOK'
    <2> DEFINE chunk == [i \in 1..(n * SampleBytes) |-> made + i]
    <2>1. chunk \in Chunk /\ n * SampleBytes \in Nat
      BY Fresh
    <2>2. captured' = Append(captured, chunk)
      BY <1>1 DEF Capture
    <2> HIDE DEF chunk
    <2>3. captured' \in Seq(Chunk) /\ made' \in Nat
      BY <1>1, <2>1, <2>2 DEF MicTypeOK, Capture
    <2>4. QED
      BY <1>1, <2>3 DEF MicTypeOK, Capture, registryVars, readVars
  <1>2. captured # <<>> => Head(captured) \in Chunk /\ Tail(captured) \in Seq(Chunk)
    BY OneLess DEF MicTypeOK
  <1>3. CASE Distribute
    <2>1. captured' \in Seq(Chunk)
      BY <1>2, <1>3 DEF Distribute
    <2>2. \A r \in Reader : Append(rx[r], Head(captured)) \in Seq(Chunk)
      BY <1>2, <1>3 DEF Distribute, MicTypeOK
    <2>3. rx' \in [Reader -> Seq(Chunk)]
      BY <1>3, <2>2 DEF Distribute, MicTypeOK
    <2>4. QED
      BY <1>3, <2>1, <2>3 DEF Distribute, MicTypeOK, registryVars, readVars
  <1>4. CASE DistributePanics
    BY <1>2, <1>4 DEF DistributePanics, MicTypeOK, registryVars, readVars
  <1>5. QED
    BY <1>1, <1>3, <1>4

\* so do readers that open and close,
LEMMA TypeOpenClose ==
  ASSUME MicTypeOK, NEW r \in Reader, OpenReader(r) \/ CloseReader(r)
  PROVE  MicTypeOK'
  <1>1. Len(data_consumers) \in Nat
    BY DEF MicTypeOK
  <1>2. CASE OpenReader(r)
    <2>1. /\ state' \in [Reader -> {"new", "open", "reading", "closed", "panicked"}]
          /\ data_consumers' \in Seq(Reader)
          /\ consumer_index' \in [Reader -> Nat]
      BY <1>1, <1>2 DEF OpenReader, Move, MicTypeOK
    <2>2. QED
      BY <1>2, <2>1 DEF OpenReader, MicTypeOK, micVars, readVars
  <1>3. CASE CloseReader(r)
    <2>1. state' \in [Reader -> {"new", "open", "reading", "closed", "panicked"}]
      BY <1>3 DEF CloseReader, RemoveConsumer, Move, MicTypeOK
    <2>2. data_consumers' \in Seq(Reader) /\ poisoned' \in BOOLEAN
      <3>1. CASE ~poisoned /\ RemoveConsumer(r)
        <4>1. CASE consumer_index[r] < Len(data_consumers)
          <5>1. consumer_index[r] + 1 \in 1..Len(data_consumers)
            BY <1>1, <4>1, SMTT(30) DEF MicTypeOK
          <5>2. QED
            BY <3>1, <4>1, <5>1, Removed DEF RemoveConsumer, MicTypeOK
        <4>2. CASE ~(consumer_index[r] < Len(data_consumers))
          BY <3>1, <4>2 DEF RemoveConsumer, MicTypeOK
        <4>3. QED
          BY <4>1, <4>2
      <3>2. CASE poisoned
        BY <1>3, <3>2 DEF CloseReader, MicTypeOK
      <3>3. QED
        BY <1>3, <3>1, <3>2 DEF CloseReader
    <2>3. rx' \in [Reader -> Seq(Chunk)] /\ current_buffer' \in [Reader -> Chunk]
          /\ cur_index' \in [Reader -> Nat]
      BY <1>3 DEF CloseReader, MicTypeOK, Chunk
    <2>4. nested' \in BOOLEAN
      BY <1>3 DEF CloseReader, LastOpened, MicTypeOK
    <2>5. QED
      BY <1>3, <2>1, <2>2, <2>3, <2>4 DEF CloseReader, MicTypeOK
  <1>4. QED
    BY <1>2, <1>3

\* What one turn of read copies.
Portion(r) ==
  IF Len(current_buffer[r]) - cur_index[r] < Room(r)
    THEN Len(current_buffer[r]) - cur_index[r] ELSE Room(r)

Copied(r) ==
  SubSeq(current_buffer[r], cur_index[r] + 1, cur_index[r] + Portion(r))

\* Copying takes a portion of the current chunk that the buffer has room for.
LEMMA CopyParts ==
  ASSUME MicTypeOK, NEW r \in Reader, Copy(r)
  PROVE  /\ buf' = [buf EXCEPT ![r] = buf[r] \o Copied(r)]
         /\ cur_index' = [cur_index EXCEPT ![r] = cur_index[r] + Portion(r)]
         /\ current_buffer[r] \in Seq(Nat) /\ buf[r] \in Seq(Nat)
         /\ Portion(r) \in Nat /\ Portion(r) > 0 /\ cur_index[r] \in Nat
         /\ cur_index[r] + 1 \in 1..Len(current_buffer[r])
         /\ cur_index[r] + Portion(r) \in (cur_index[r] + 1)..Len(current_buffer[r])
         /\ Copied(r) \in Seq(Nat)
         /\ Len(Copied(r)) = Portion(r)
         /\ Portion(r) <= Room(r)
  <1>1. /\ current_buffer[r] \in Seq(Nat) /\ buf[r] \in Seq(Nat)
        /\ Len(current_buffer[r]) \in Nat /\ Len(buf[r]) \in Nat
        /\ cur_index[r] \in Nat /\ BufLen \in Nat
    BY MicAssumption DEF MicTypeOK, Chunk
  <1>2. Room(r) \in Int /\ Room(r) > 0 /\ cur_index[r] < Len(current_buffer[r])
    BY <1>1 DEF Copy, Exhausted, Room
  <1>3. Portion(r) \in Nat /\ Portion(r) > 0 /\ Portion(r) <= Room(r)
        /\ cur_index[r] + Portion(r) <= Len(current_buffer[r])
    BY <1>1, <1>2 DEF Portion
  <1>4. /\ cur_index[r] + 1 \in 1..Len(current_buffer[r])
        /\ cur_index[r] + Portion(r) \in (cur_index[r] + 1)..Len(current_buffer[r])
    BY <1>1, <1>2, <1>3, SMTT(30)
  <1>5. Copied(r) \in Seq(Nat) /\ Len(Copied(r)) = Portion(r)
    <2> DEFINE m == cur_index[r] + 1
               n == cur_index[r] + Portion(r)
    <2>1. Copied(r) \in Seq(Nat) /\ Len(Copied(r)) = n - m + 1
      BY <1>1, <1>4, Part DEF Copied
    <2>2. n - m + 1 = Portion(r)
      BY <1>1, <1>3
    <2>3. QED
      BY <2>1, <2>2
  <1>6. /\ buf' = [buf EXCEPT ![r] = buf[r] \o Copied(r)]
        /\ cur_index' = [cur_index EXCEPT ![r] = cur_index[r] + Portion(r)]
    BY DEF Copy, Copied, Portion
  <1>7. QED
    BY <1>1, <1>3, <1>4, <1>5, <1>6

\* and those that read.
LEMMA TypeRead ==
  ASSUME MicTypeOK, NEW r \in Reader, ReadBegin(r) \/ Read(r)
  PROVE  MicTypeOK'
  <1>1. /\ rx[r] \in Seq(Chunk) /\ buf[r] \in Seq(Nat) /\ got[r] \in Seq(Nat)
        /\ Chunk = Seq(Nat)
    BY DEF MicTypeOK, Chunk
  <1>2. CASE ReadBegin(r)
    BY <1>2 DEF ReadBegin, Move, MicTypeOK, micVars, registryVars, readVars
  <1>3. CASE Refill(r)
    <2>1. Head(rx[r]) \in Chunk /\ Tail(rx[r]) \in Seq(Chunk)
      BY <1>1, <1>3, OneLess DEF Refill
    <2>2. current_buffer' \in [Reader -> Chunk] /\ rx' \in [Reader -> Seq(Chunk)]
          /\ cur_index' \in [Reader -> Nat]
      BY <1>3, <2>1 DEF Refill, MicTypeOK
    <2>3. QED
      BY <1>3, <2>2 DEF Refill, MicTypeOK, micVars, registryVars
  <1>4. CASE Copy(r)
    <2>1. buf[r] \o Copied(r) \in Seq(Nat) /\ cur_index[r] + Portion(r) \in Nat
      BY <1>4, CopyParts, ConcatProperties
    <2>2. buf' \in [Reader -> Chunk] /\ cur_index' \in [Reader -> Nat]
      BY <1>1, <1>4, <2>1, CopyParts, ZenonT(30) DEF MicTypeOK
    <2>3. QED
      BY <1>4, <2>2 DEF Copy, MicTypeOK, micVars, registryVars
  <1>5. ASSUME Return(r)
        PROVE  /\ state' \in [Reader -> {"new", "open", "reading", "closed", "panicked"}]
               /\ got' \in [Reader -> Chunk] /\ buf' \in [Reader -> Chunk]
    <2>1. got[r] \o buf[r] \in Seq(Nat) /\ <<>> \in Seq(Nat)
      BY <1>1, ConcatProperties
    <2>2. QED
      BY <1>1, <1>5, <2>1 DEF Return, Move, MicTypeOK
  <1>6. CASE ReadFull(r)
    BY <1>5, <1>6 DEF ReadFull, MicTypeOK, micVars, registryVars
  <1>7. CASE ReadTimeout(r)
    <2>1. current_buffer' \in [Reader -> Chunk] /\ cur_index' \in [Reader -> Nat]
      BY <1>1, <1>7 DEF ReadTimeout, MicTypeOK
    <2>2. QED
      BY <1>5, <1>7, <2>1 DEF ReadTimeout, MicTypeOK, micVars, registryVars
  <1>8. QED
    BY <1>2, <1>3, <1>4, <1>6, <1>7 DEF Read

\* Every step keeps the types.
LEMMA MicTypeStep == MicTypeOK /\ [MicNext]_vars => MicTypeOK'
  <1>1. SUFFICES ASSUME MicTypeOK, [MicNext]_vars PROVE MicTypeOK'
    OBVIOUS
  <1>2. CASE UNCHANGED vars
    BY <1>1, <1>2 DEF vars, micVars, registryVars, readVars, MicTypeOK
  <1>3. CASE MicNext
    BY <1>1, <1>3, TypeDevice, TypeOpenClose, TypeRead DEF MicNext
  <1>4. QED
    BY <1>1, <1>2, <1>3

-----------------------------------------------------------------------------
(* The registry. *)

\* At first nobody is registered.
LEMMA RegistryInit == MicInit => RegistryInv
  BY EmptySeq DEF MicInit, RegistryInv, Alive

\* A step that leaves the registry and who is alive leaves the invariant.
LEMMA RegistryKept ==
  (/\ RegistryInv
   /\ UNCHANGED <<registryVars, poisoned>>
   /\ micWorker' = micWorker \/ poisoned
   /\ \A r \in Reader : Alive(r)' <=> Alive(r)
   /\ data_consumers \in Seq(Reader))
  => RegistryInv'
  <1>1. SUFFICES ASSUME RegistryInv,
                        UNCHANGED <<data_consumers, consumer_index, nested, poisoned>>,
                        micWorker' = micWorker \/ poisoned,
                        \A r \in Reader : Alive(r)' <=> Alive(r),
                        data_consumers \in Seq(Reader)
                 PROVE  RegistryInv'
    BY DEF registryVars
  <1>2. (micWorker = "panicked" => poisoned)'
    BY <1>1 DEF RegistryInv
  <1>3. ASSUME nested'
        PROVE  /\ ~poisoned'
               /\ \A i \in 1..Len(data_consumers') :
                    Alive(data_consumers[i])' /\ consumer_index'[data_consumers'[i]] = i - 1
               /\ \A r \in Reader : Alive(r)' => r \in ToSet(data_consumers')
    <2>1. \A i \in 1..Len(data_consumers) : data_consumers[i] \in Reader
      BY <1>1, ElementOfSeq
    <2>2. QED
      BY <1>1, <1>3, <2>1 DEF RegistryInv
  <1>4. QED
    BY <1>1, <1>2, <1>3 DEF RegistryInv, Alive

\* A reader that opens is the last in the registry.
LEMMA RegistryOpen ==
  ASSUME MicTypeOK, RegistryInv, NEW r \in Reader, OpenReader(r)
  PROVE  RegistryInv'
  <1>1. /\ data_consumers \in Seq(Reader) /\ data_consumers' = Append(data_consumers, r)
        /\ consumer_index' = [consumer_index EXCEPT ![r] = Len(data_consumers)]
        /\ state[r] = "new" /\ state' = [state EXCEPT ![r] = "open"]
        /\ UNCHANGED <<poisoned, micWorker, nested>>
        /\ state \in [Reader -> {"new", "open", "reading", "closed", "panicked"}]
        /\ consumer_index \in [Reader -> Nat]
    BY DEF MicTypeOK, OpenReader, Move, micVars
  <1>2. /\ Len(data_consumers) \in Nat
        /\ Len(data_consumers') = Len(data_consumers) + 1
        /\ \A i \in 1..Len(data_consumers) : data_consumers'[i] = data_consumers[i]
        /\ data_consumers'[Len(data_consumers) + 1] = r
        /\ \A i \in 1..Len(data_consumers) : data_consumers[i] \in Reader
    BY <1>1, OneMore, ElementOfSeq
  <1>3. ASSUME nested
        PROVE  /\ ~poisoned
               /\ \A i \in 1..Len(data_consumers) :
                    /\ state[data_consumers[i]] \in {"open", "reading"}
                    /\ consumer_index[data_consumers[i]] = i - 1
               /\ \A q \in Reader :
                    state[q] \in {"open", "reading"} =>
                      \E i \in 1..Len(data_consumers) : data_consumers[i] = q
    BY <1>3 DEF RegistryInv, Alive, ToSet
  <1>4. ASSUME nested, NEW i \in 1..Len(data_consumers')
        PROVE  /\ state'[data_consumers'[i]] \in {"open", "reading"}
               /\ consumer_index'[data_consumers'[i]] = i - 1
    <2>1. CASE i = Len(data_consumers) + 1
      BY <1>1, <1>2, <2>1
    <2>2. CASE i # Len(data_consumers) + 1
      <3>1. i \in 1..Len(data_consumers)
        BY <1>2, <2>2
      <3>2. state[data_consumers[i]] \in {"open", "reading"}
        BY <1>3, <1>4, <3>1
      <3>3. data_consumers[i] # r
        BY <1>1, <3>2
      <3>4. data_consumers[i] \in Reader /\ data_consumers'[i] = data_consumers[i]
        BY <1>2, <3>1
      <3>5. consumer_index[data_consumers[i]] = i - 1
        BY <1>3, <1>4, <3>1
      <3>6. QED
        BY <1>1, <3>2, <3>3, <3>4, <3>5
    <2>3. QED
      BY <2>1, <2>2
  <1>5. ASSUME nested, NEW q \in Reader, state'[q] \in {"open", "reading"}
        PROVE  \E i \in 1..Len(data_consumers') : data_consumers'[i] = q
    <2>1. CASE q = r
      <3>1. Len(data_consumers) + 1 \in 1..Len(data_consumers')
        BY <1>2
      <3>2. QED
        BY <1>2, <2>1, <3>1
    <2>2. CASE q # r
      <3>1. state[q] \in {"open", "reading"}
        BY <1>1, <1>5, <2>2
      <3>2. PICK i \in 1..Len(data_consumers) : data_consumers[i] = q
        BY <1>3, <1>5, <3>1
      <3>3. i \in 1..Len(data_consumers')
        BY <1>2
      <3>4. QED
        BY <1>2, <3>2, <3>3
    <2>3. QED
      BY <2>1, <2>2
  <1>6. nested' = nested /\ poisoned' = poisoned /\ micWorker' = micWorker
    BY <1>1
  <1>7. nested => ~poisoned'
    BY <1>3, <1>6
  <1>8. QED
    BY <1>4, <1>5, <1>6, <1>7 DEF RegistryInv, Alive, ToSet

\* The last one opened leaves, and the others keep their places.
LEMMA RegistryClose ==
  ASSUME MicTypeOK, RegistryInv, NEW r \in Reader, CloseReader(r)
  PROVE  RegistryInv'
  <1>1. /\ data_consumers \in Seq(Reader)
        /\ state \in [Reader -> {"new", "open", "reading", "closed", "panicked"}]
        /\ consumer_index \in [Reader -> Nat]
        /\ consumer_index' = consumer_index /\ micWorker' = micWorker
        /\ nested' = (nested /\ LastOpened(r))
    BY DEF MicTypeOK, CloseReader
  <1>2. (micWorker = "panicked" => poisoned)'
    BY <1>1 DEF RegistryInv, CloseReader, RemoveConsumer
  <1>3. ASSUME nested, LastOpened(r)
        PROVE  /\ ~poisoned'
               /\ \A i \in 1..Len(data_consumers') :
                    /\ state'[data_consumers'[i]] \in {"open", "reading"}
                    /\ consumer_index'[data_consumers'[i]] = i - 1
               /\ \A q \in Reader :
                    state'[q] \in {"open", "reading"} =>
                      \E i \in 1..Len(data_consumers') : data_consumers'[i] = q
    <2> DEFINE n == Len(data_consumers)
    <2>1. n \in Nat /\ n > 0 /\ data_consumers[n] = r
      BY <1>1, <1>3, EmptySeq DEF LastOpened, Last
    <2>2. /\ ~poisoned
          /\ \A i \in 1..n :
               /\ state[data_consumers[i]] \in {"open", "reading"}
               /\ consumer_index[data_consumers[i]] = i - 1
          /\ \A q \in Reader :
               state[q] \in {"open", "reading"} => \E i \in 1..n : data_consumers[i] = q
      BY <1>3 DEF RegistryInv, Alive, ToSet
    <2>3. n \in 1..n /\ consumer_index[r] = n - 1 /\ n - 1 < n /\ (n - 1) + 1 = n
      BY <2>1, <2>2
    <2>4. /\ data_consumers' = RemoveAt(data_consumers, n)
          /\ state' = [state EXCEPT ![r] = "closed"]
          /\ poisoned' = poisoned
      BY <2>2, <2>3 DEF CloseReader, RemoveConsumer, Move
    <2>5. /\ data_consumers' \in Seq(Reader)
          /\ Len(data_consumers') = n - 1
          /\ \A i \in 1..(n - 1) : data_consumers'[i] = data_consumers[i]
      <3>1. /\ SubSeq(data_consumers, 1, n - 1) \in Seq(Reader)
            /\ Len(SubSeq(data_consumers, 1, n - 1)) = n - 1
            /\ \A i \in 1..(n - 1) : SubSeq(data_consumers, 1, n - 1)[i] = data_consumers[i]
        <4>1. n \in 1..Len(data_consumers)
          BY <2>1
        <4>2. QED
          BY <1>1, <4>1, Before
      <3>2. SubSeq(data_consumers, n + 1, n) = <<>>
        BY <1>1, <2>1
      <3>3. data_consumers' = SubSeq(data_consumers, 1, n - 1)
        BY <2>4, <3>1, <3>2, ConcatEmptySeq DEF RemoveAt
      <3>4. QED
        BY <3>1, <3>3
    <2> HIDE DEF n
    <2>6. \A i \in 1..(n - 1) : i \in 1..n /\ data_consumers[i] \in Reader /\ data_consumers[i] # r
      <3>1. ASSUME NEW i \in 1..(n - 1)
            PROVE  i \in 1..n /\ data_consumers[i] \in Reader /\ data_consumers[i] # r
        <4>1. i \in 1..n /\ i - 1 # n - 1
          BY <2>1
        <4>2. consumer_index[data_consumers[i]] = i - 1
          BY <2>2, <4>1
        <4>3. data_consumers[i] \in Reader
          BY <1>1, <4>1, ElementOfSeq DEF n
        <4>4. QED
          BY <2>3, <4>1, <4>2, <4>3
      <3>2. QED
        BY <3>1
    <2>7. \A i \in 1..Len(data_consumers') :
            /\ state'[data_consumers'[i]] \in {"open", "reading"}
            /\ consumer_index'[data_consumers'[i]] = i - 1
      BY <1>1, <2>2, <2>4, <2>5, <2>6
    <2>8. ASSUME NEW q \in Reader, state'[q] \in {"open", "reading"}
          PROVE  \E i \in 1..Len(data_consumers') : data_consumers'[i] = q
      <3>1. q # r /\ state[q] \in {"open", "reading"}
        BY <1>1, <2>4, <2>8
      <3>2. PICK i \in 1..n : data_consumers[i] = q
        BY <2>2, <3>1
      <3>3. i \in 1..(n - 1)
        BY <2>1, <3>1, <3>2
      <3>4. QED
        BY <2>5, <3>2, <3>3
    <2>9. QED
      BY <2>2, <2>4, <2>7, <2>8
  <1>4. nested' => nested /\ LastOpened(r)
    BY <1>1
  <1>5. QED
    BY <1>2, <1>3, <1>4 DEF RegistryInv, Alive, ToSet

\* Every step keeps the registry in order of opening while closing is nested.
LEMMA RegistryStep == MicTypeOK /\ RegistryInv /\ [MicNext]_vars => RegistryInv'
  <1>1. SUFFICES ASSUME MicTypeOK, RegistryInv, [MicNext]_vars PROVE RegistryInv'
    OBVIOUS
  <1>2. data_consumers \in Seq(Reader)
        /\ state \in [Reader -> {"new", "open", "reading", "closed", "panicked"}]
    BY <1>1 DEF MicTypeOK
  <1>3. CASE UNCHANGED vars
    BY <1>1, <1>2, <1>3, RegistryKept DEF vars, micVars, Alive
  <1>4. ASSUME NEW n \in 1..MaxChunk, Capture(n)
        PROVE  RegistryInv'
    BY <1>1, <1>2, <1>4, RegistryKept DEF Capture, Alive
  <1>5. CASE Distribute
    BY <1>1, <1>2, <1>5, RegistryKept DEF Distribute, Alive
  <1>6. CASE DistributePanics
    BY <1>1, <1>2, <1>6, RegistryKept DEF DistributePanics, Alive
  <1>7. ASSUME NEW r \in Reader, ReadBegin(r) \/ Read(r)
        PROVE  RegistryInv'
    <2>1. UNCHANGED <<micVars, registryVars>>
      BY <1>7 DEF ReadBegin, Read, Refill, Copy, ReadFull, ReadTimeout
    <2>2. \A q \in Reader : Alive(q)' <=> Alive(q)
      <3>1. CASE ReadBegin(r)
        BY <1>2, <3>1 DEF ReadBegin, Move, Alive
      <3>2. CASE Refill(r) \/ Copy(r)
        BY <3>2 DEF Refill, Copy, Alive
      <3>3. CASE ReadFull(r) \/ ReadTimeout(r)
        BY <1>2, <3>3 DEF ReadFull, ReadTimeout, Return, Move, Alive
      <3>4. QED
        BY <1>7, <3>1, <3>2, <3>3 DEF Read
    <2>3. QED
      BY <1>1, <1>2, <2>1, <2>2, RegistryKept DEF micVars
  <1>8. QED
    BY <1>1, <1>3, <1>4, <1>5, <1>6, <1>7, RegistryOpen, RegistryClose DEF MicNext

-----------------------------------------------------------------------------
(* The device's channel. *)

\* At first nothing is captured.
LEMMA CapturedInit == MicInit => CapturedInv
  <1>1. Len(<<>>) = 0
    BY EmptySeq
  <1>2. QED
    BY <1>1 DEF MicInit, CapturedInv, Gapless, SampleBytes

\* A callback's chunk follows what the device captured before.
LEMMA CapturedMore ==
  ASSUME MicTypeOK, CapturedInv, NEW n \in 1..MaxChunk, Capture(n)
  PROVE  CapturedInv' /\ WorkerNext' = WorkerNext
  <1> DEFINE chunk == [i \in 1..(n * SampleBytes) |-> made + i]
  <1>1. /\ chunk \in Chunk
        /\ Len(chunk) = n * SampleBytes
        /\ n * SampleBytes \in Nat
        /\ n * SampleBytes > 0
        /\ \A i \in 1..(n * SampleBytes) : chunk[i] = made + i
    BY Fresh
  <1>2. captured' = Append(captured, chunk) /\ made' = made + n * SampleBytes
    BY DEF Capture
  <1> HIDE DEF chunk
  <1>3. made \in Nat /\ captured \in Seq(Chunk) /\ n \in Nat
    BY DEF MicTypeOK
  <1>4. (n * SampleBytes) % SampleBytes = 0 /\ made % SampleBytes = 0
    BY <1>3, Parity DEF SampleBytes, CapturedInv
  <1> DEFINE w == n * SampleBytes
  <1> HIDE DEF w
  <1>5. /\ w \in Nat /\ w > 0 /\ Len(chunk) = w /\ w % 2 = 0 /\ made % 2 = 0
        /\ \A i \in 1..w : chunk[i] = made + i
        /\ made' = made + w
    BY <1>1, <1>2, <1>4 DEF w, SampleBytes
  <1>6. chunk[1] = made + 1
    BY <1>5
  <1>7. Whole(chunk) /\ After(chunk) = made' + 1
    <2>1. chunk # <<>>
      BY <1>1, <1>5, EmptySeq
    <2>2. Consecutive(chunk)
      BY <1>3, <1>5, <1>6 DEF Consecutive
    <2>3. (made + 1) % 2 = 1
      BY <1>3, <1>5, Parity
    <2>4. After(chunk) = (made + 1) + w
      BY <1>5, <1>6 DEF After
    <2>5. QED
      BY <1>3, <1>5, <1>6, <2>1, <2>2, <2>3, <2>4 DEF Whole, SampleBytes
  <1>8. /\ Len(captured) \in Nat
        /\ captured' # <<>>
        /\ Len(captured') = Len(captured) + 1
        /\ \A i \in 1..Len(captured) : captured'[i] = captured[i]
        /\ captured'[Len(captured) + 1] = chunk
    BY <1>1, <1>2, <1>3, OneMore
  <1>9. captured # <<>> => chunk[1] = After(captured[Len(captured)])
    BY <1>6 DEF CapturedInv
  <1>10. Gapless(captured')
    BY <1>1, <1>2, <1>3, <1>7, <1>9, GaplessAppend DEF CapturedInv
  <1>11. made' % 2 = 0
    BY <1>3, <1>5, Parity
  <1>12. CapturedInv'
    <2>1. After(captured'[Len(captured')]) = made' + 1
      BY <1>7, <1>8
    <2>2. QED
      BY <1>10, <1>11, <2>1 DEF CapturedInv, SampleBytes, Gapless, Whole, Consecutive, After
  <1>13. WorkerNext' = captured'[1][1]
    BY <1>8 DEF WorkerNext
  <1>14. captured'[1][1] = WorkerNext
    <2>1. CASE captured = <<>>
      <3>1. Len(captured) = 0
        BY <1>3, <2>1, EmptySeq
      <3>2. captured'[1] = chunk
        BY <1>8, <3>1
      <3>3. QED
        BY <1>6, <2>1, <3>2 DEF WorkerNext
    <2>2. CASE captured # <<>>
      <3>1. 1 \in 1..Len(captured)
        BY <1>3, <2>2, EmptySeq
      <3>2. QED
        BY <1>8, <2>2, <3>1 DEF WorkerNext
    <2>3. QED
      BY <2>1, <2>2
  <1>15. QED
    BY <1>12, <1>13, <1>14

\* The worker takes the first chunk; the one after it comes next.
LEMMA CapturedLess ==
  ASSUME MicTypeOK, CapturedInv, captured # <<>>,
         captured' = Tail(captured), made' = made
  PROVE  /\ CapturedInv'
         /\ Head(captured) = captured[1] /\ captured[1] \in Chunk /\ Whole(captured[1])
         /\ WorkerNext = captured[1][1]
         /\ WorkerNext' = After(captured[1])
  <1>1. captured \in Seq(Chunk) /\ Gapless(captured)
        /\ After(captured[Len(captured)]) = made + 1
    BY DEF MicTypeOK, CapturedInv
  <1>2. /\ Gapless(captured')
        /\ Whole(captured[1]) /\ captured[1] \in Chunk /\ Head(captured) = captured[1]
        /\ captured' = <<>> => captured[Len(captured)] = captured[1]
        /\ captured' # <<>> => /\ captured'[1][1] = After(captured[1])
                               /\ captured'[Len(captured')] = captured[Len(captured)]
    BY <1>1, GaplessTail
  <1>3. CapturedInv'
    BY <1>1, <1>2 DEF CapturedInv, Gapless, Whole, Consecutive, After
  <1>4. WorkerNext' = After(captured[1])
    BY <1>1, <1>2 DEF WorkerNext
  <1>5. QED
    BY <1>2, <1>3, <1>4 DEF WorkerNext

\* No other step touches the device's channel.
LEMMA CapturedKept ==
  ASSUME CapturedInv, UNCHANGED <<captured, made>>
  PROVE  CapturedInv' /\ WorkerNext' = WorkerNext
  BY DEF CapturedInv, WorkerNext, Gapless, Whole, Consecutive, After

\* Every step keeps the device's channel gapless, up to the last byte captured.
LEMMA CapturedStep == MicTypeOK /\ CapturedInv /\ [MicNext]_vars => CapturedInv'
  <1>1. SUFFICES ASSUME MicTypeOK, CapturedInv, [MicNext]_vars PROVE CapturedInv'
    OBVIOUS
  <1>2. CASE UNCHANGED vars
    BY <1>1, <1>2, CapturedKept DEF vars, micVars
  <1>3. ASSUME NEW n \in 1..MaxChunk, Capture(n)
        PROVE  CapturedInv'
    BY <1>1, <1>3, CapturedMore
  <1>4. CASE Distribute \/ DistributePanics
    BY <1>1, <1>4, CapturedLess DEF Distribute, DistributePanics
  <1>5. ASSUME NEW r \in Reader,
               OpenReader(r) \/ CloseReader(r) \/ ReadBegin(r) \/ Read(r)
        PROVE  CapturedInv'
    <2>1. UNCHANGED <<captured, made>>
      BY <1>5 DEF OpenReader, CloseReader, ReadBegin, Read, Refill, Copy, ReadFull,
                  ReadTimeout, micVars
    <2>2. QED
      BY <1>1, <2>1, CapturedKept
  <1>6. QED
    BY <1>1, <1>2, <1>3, <1>4, <1>5 DEF MicNext

-----------------------------------------------------------------------------
(* The readers. *)

ReaderOK(r) == ChunkInv(r) /\ HeardInv(r) /\ Unread(r)

\* At first no reader has anything.
LEMMA ReaderInit == MicInit => ReaderInv
  <1>1. SUFFICES ASSUME MicInit, NEW r \in Reader
                 PROVE  ReaderOK(r)
    BY DEF ReaderInv, ReaderOK
  <1>2. Len(<<>>) = 0 /\ <<>> \o <<>> = <<>>
    BY EmptySeq, ConcatEmptySeq
  <1>3. /\ rx[r] = <<>> /\ current_buffer[r] = <<>> /\ cur_index[r] = 0
        /\ buf[r] = <<>> /\ got[r] = <<>>
    BY <1>1 DEF MicInit
  <1>4. ChunkInv(r)
    BY <1>2, <1>3 DEF ChunkInv, Gapless, Exhausted, SampleBytes
  <1>5. Heard(r) = <<>>
    BY <1>2, <1>3 DEF Heard
  <1>6. HeardInv(r)
    BY <1>2, <1>3, <1>5, MicAssumption DEF HeardInv, SampleBytes
  <1>7. QED
    BY <1>3, <1>4, <1>5, <1>6 DEF ReaderOK, Unread

\* A step elsewhere leaves a reader as it was, or at most unfed.
LEMMA KeptReader ==
  ASSUME NEW r \in Reader, ReaderOK(r),
         rx'[r] = rx[r], current_buffer'[r] = current_buffer[r],
         cur_index'[r] = cur_index[r], buf'[r] = buf[r], got'[r] = got[r],
         Fed(r)' => Fed(r) /\ WorkerNext' = WorkerNext,
         state'[r] = "new" => state[r] = "new"
  PROVE  ReaderOK(r)'
  <1>1. Heard(r)' = Heard(r) /\ (Exhausted(r)' <=> Exhausted(r))
    BY DEF Heard, Exhausted
  <1>2. rx[r] # <<>> \/ Fed(r)' => Due(r)' = Due(r)
    BY DEF Due
  <1>3. ChunkInv(r)'
    BY <1>1, <1>2 DEF ReaderOK, ChunkInv, Gapless, Whole, Consecutive, After
  <1>4. HeardInv(r)'
    BY <1>1, <1>2 DEF ReaderOK, HeardInv, Consecutive, After
  <1>5. Unread(r)'
    BY <1>1 DEF ReaderOK, Unread
  <1>6. QED
    BY <1>3, <1>4, <1>5 DEF ReaderOK

\* A chunk captured changes nothing in front of it.
LEMMA ReaderCapture ==
  ASSUME MicTypeOK, CapturedInv, ReaderInv, NEW n \in 1..MaxChunk, Capture(n)
  PROVE  ReaderInv'
  <1>1. SUFFICES ASSUME NEW r \in Reader PROVE ReaderOK(r)'
    BY DEF ReaderInv, ReaderOK
  <1>2. WorkerNext' = WorkerNext
    BY CapturedMore
  <1>3. Fed(r)' => Fed(r)
    BY DEF Capture, Fed, Alive, registryVars
  <1>4. QED
    BY <1>2, <1>3, KeptReader DEF Capture, readVars, ReaderInv, ReaderOK

\* A chunk handed to a reader follows the last it was given.
LEMMA ReaderDistribute ==
  ASSUME MicTypeOK, CapturedInv, ReaderInv, Distribute
  PROVE  ReaderInv'
  <1>1. SUFFICES ASSUME NEW r \in Reader PROVE ReaderOK(r)'
    BY DEF ReaderInv, ReaderOK
  <1> DEFINE c == captured[1]
  <1>2. /\ Head(captured) = c /\ c \in Chunk /\ Whole(c)
        /\ WorkerNext = c[1] /\ WorkerNext' = After(c)
    BY CapturedLess DEF Distribute
  <1> HIDE DEF c
  <1>3. /\ UNCHANGED <<state, data_consumers, micWorker, current_buffer, cur_index, buf, got>>
        /\ micWorker = "run"
        /\ ReaderOK(r) /\ rx[r] \in Seq(Chunk)
    BY DEF Distribute, registryVars, readVars, ReaderInv, ReaderOK, MicTypeOK
  <1>4. (Fed(r)' <=> Fed(r)) /\ (Fed(r) <=> r \in ToSet(data_consumers) /\ Alive(r))
    BY <1>3 DEF Fed, Alive
  <1>5. CASE ~Fed(r)
    <2>1. rx'[r] = rx[r]
      BY <1>4, <1>5 DEF Distribute
    <2>2. QED
      BY <1>3, <1>4, <1>5, <2>1, KeptReader
  <1>6. CASE Fed(r)
    <2>1. rx'[r] = Append(rx[r], c)
      BY <1>2, <1>4, <1>6 DEF Distribute
    <2>2. /\ Len(rx[r]) \in Nat
          /\ rx'[r] # <<>>
          /\ Len(rx'[r]) = Len(rx[r]) + 1
          /\ \A i \in 1..Len(rx[r]) : rx'[r][i] = rx[r][i]
          /\ rx'[r][Len(rx[r]) + 1] = c
      BY <1>2, <1>3, <2>1, OneMore
    <2>3. Gapless(rx[r]) /\ (rx[r] # <<>> => c[1] = After(rx[r][Len(rx[r])]))
      BY <1>2, <1>3, <1>6 DEF ReaderOK, ChunkInv
    <2>4. Gapless(rx'[r])
      BY <1>2, <1>3, <2>1, <2>3, GaplessAppend
    <2>5. After(rx'[r][Len(rx'[r])]) = WorkerNext'
      BY <1>2, <2>2
    <2>6. Due(r)' = Due(r)
      <3>1. CASE rx[r] = <<>>
        <4>1. Len(rx[r]) = 0
          BY <3>1, EmptySeq
        <4>2. rx'[r][1] = c
          BY <2>2, <4>1
        <4>3. QED
          BY <1>2, <2>2, <3>1, <4>2 DEF Due
      <3>2. CASE rx[r] # <<>>
        <4>1. 1 \in 1..Len(rx[r])
          BY <1>3, <2>2, <3>2, EmptySeq
        <4>2. QED
          BY <2>2, <3>2, <4>1 DEF Due
      <3>3. QED
        BY <3>1, <3>2
    <2>7. Heard(r)' = Heard(r) /\ (Exhausted(r)' <=> Exhausted(r))
      BY <1>3 DEF Heard, Exhausted
    <2>8. ChunkInv(r)'
      <3>1. /\ current_buffer[r] = <<>> \/ Whole(current_buffer[r])
            /\ cur_index[r] <= Len(current_buffer[r])
            /\ cur_index[r] % SampleBytes = 0
            /\ ~Exhausted(r) => Due(r) = After(current_buffer[r])
        BY <1>3, <1>6 DEF ReaderOK, ChunkInv
      <3>2. QED
        BY <1>3, <2>4, <2>5, <2>6, <2>7, <3>1 DEF ChunkInv, Gapless, Whole, Consecutive, After
    <2>9. HeardInv(r)'
      BY <1>3, <1>6, <2>6, <2>7 DEF ReaderOK, HeardInv, Consecutive, After
    <2>10. Unread(r)'
      BY <1>3, <1>6 DEF Unread, Fed, Alive
    <2>11. QED
      BY <2>8, <2>9, <2>10 DEF ReaderOK
  <1>7. QED
    BY <1>5, <1>6

\* Once the worker has panicked nobody is fed any more.
LEMMA ReaderPanics ==
  ASSUME ReaderInv, DistributePanics
  PROVE  ReaderInv'
  <1>1. SUFFICES ASSUME NEW r \in Reader PROVE ReaderOK(r)'
    BY DEF ReaderInv, ReaderOK
  <1>2. ~Fed(r)'
    BY DEF DistributePanics, Fed
  <1>3. QED
    BY <1>2, KeptReader DEF DistributePanics, readVars, ReaderInv, ReaderOK

\* A step of another reader, at most taking consumers away from this one.
LEMMA ReaderOthers ==
  ASSUME MicTypeOK, CapturedInv, ReaderInv, NEW r \in Reader, NEW q \in Reader, q # r,
         OpenReader(r) \/ CloseReader(r) \/ ReadBegin(r) \/ Read(r)
  PROVE  ReaderOK(q)'
  <1>1. /\ rx'[q] = rx[q] /\ current_buffer'[q] = current_buffer[q]
        /\ cur_index'[q] = cur_index[q] /\ buf'[q] = buf[q] /\ got'[q] = got[q]
    BY DEF OpenReader, CloseReader, ReadBegin, Read, Refill, Copy, ReadFull, ReadTimeout,
           Return, readVars, MicTypeOK
  <1>2. state'[q] = state[q]
    BY DEF OpenReader, CloseReader, RemoveConsumer, ReadBegin, Read, Refill, Copy, ReadFull,
           ReadTimeout, Return, Move, MicTypeOK
  <1>3. UNCHANGED <<made, captured, micWorker>>
    BY DEF OpenReader, CloseReader, ReadBegin, Read, Refill, Copy, ReadFull, ReadTimeout,
           micVars
  <1>4. q \in ToSet(data_consumers)' => q \in ToSet(data_consumers)
    <2>1. CASE OpenReader(r)
      <3>1. data_consumers' = Append(data_consumers, r) /\ data_consumers \in Seq(Reader)
        BY <2>1 DEF OpenReader, MicTypeOK
      <3>2. /\ Len(data_consumers) \in Nat
            /\ Len(data_consumers') = Len(data_consumers) + 1
            /\ \A i \in 1..Len(data_consumers) : data_consumers'[i] = data_consumers[i]
            /\ data_consumers'[Len(data_consumers) + 1] = r
        BY <3>1, OneMore
      <3>3. QED
        BY <3>2 DEF ToSet
    <2>2. CASE CloseReader(r)
      <3>1. CASE ~poisoned /\ consumer_index[r] < Len(data_consumers)
        <4>1. /\ data_consumers' = RemoveAt(data_consumers, consumer_index[r] + 1)
              /\ data_consumers \in Seq(Reader) /\ consumer_index[r] \in Nat
              /\ Len(data_consumers) \in Nat
          BY <2>2, <3>1 DEF CloseReader, RemoveConsumer, MicTypeOK
        <4>2. consumer_index[r] + 1 \in 1..Len(data_consumers)
          BY <3>1, <4>1
        <4>3. ToSet(data_consumers') \subseteq ToSet(data_consumers)
          BY <4>1, <4>2, Removed
        <4>4. QED
          BY <4>3 DEF ToSet
      <3>2. CASE ~(~poisoned /\ consumer_index[r] < Len(data_consumers))
        <4>1. data_consumers' = data_consumers
          BY <2>2, <3>2 DEF CloseReader, RemoveConsumer
        <4>2. QED
          BY <4>1 DEF ToSet
      <3>3. QED
        BY <3>1, <3>2
    <2>3. CASE ReadBegin(r) \/ Read(r)
      <3>1. data_consumers' = data_consumers
        BY <2>3 DEF ReadBegin, Read, Refill, Copy, ReadFull, ReadTimeout, registryVars
      <3>2. QED
        BY <3>1 DEF ToSet
    <2>4. QED
      BY <2>1, <2>2, <2>3
  <1>5. Fed(q)' => Fed(q)
    BY <1>2, <1>3, <1>4 DEF Fed, Alive
  <1>6. WorkerNext' = WorkerNext
    BY <1>3 DEF WorkerNext
  <1>7. ReaderOK(q)
    BY DEF ReaderInv, ReaderOK
  <1>8. QED
    BY <1>1, <1>2, <1>5, <1>6, <1>7, KeptReader

\* A reader that opens has nothing yet, and may begin anywhere in the stream.
LEMMA ReaderOpens ==
  ASSUME MicTypeOK, ReaderInv, NEW r \in Reader, OpenReader(r)
  PROVE  ReaderOK(r)'
  <1>1. /\ rx[r] = <<>> /\ current_buffer[r] = <<>> /\ Heard(r) = <<>>
        /\ ChunkInv(r) /\ HeardInv(r)
    BY DEF ReaderInv, Unread, OpenReader, Move
  <1>2. /\ rx'[r] = <<>> /\ current_buffer'[r] = <<>> /\ cur_index'[r] = cur_index[r]
        /\ got'[r] = got[r] /\ buf'[r] = buf[r]
    BY <1>1 DEF OpenReader, readVars
  <1>3. state'[r] = "open"
    BY DEF OpenReader, Move, MicTypeOK
  <1>4. Len(<<>>) = 0 /\ cur_index[r] \in Nat
    BY EmptySeq DEF MicTypeOK
  <1>5. Exhausted(r)' /\ Heard(r)' = <<>>
    BY <1>1, <1>2, <1>4 DEF Exhausted, Heard
  <1>6. ChunkInv(r)'
    BY <1>1, <1>2, <1>4, <1>5 DEF ChunkInv, Gapless
  <1>7. HeardInv(r)'
    BY <1>1, <1>2, <1>5 DEF HeardInv
  <1>8. QED
    BY <1>3, <1>6, <1>7 DEF ReaderOK, Unread

\* A reader that closes keeps what it has read and gets no more.
LEMMA ReaderCloses ==
  ASSUME MicTypeOK, ReaderInv, NEW r \in Reader, CloseReader(r)
  PROVE  ReaderOK(r)'
  <1>1. /\ rx'[r] = <<>> /\ current_buffer'[r] = <<>> /\ cur_index'[r] = 0
        /\ got'[r] = got[r] /\ buf'[r] = buf[r]
    BY DEF CloseReader, MicTypeOK
  <1>2. state'[r] \in {"closed", "panicked"}
    BY DEF CloseReader, RemoveConsumer, Move, MicTypeOK
  <1>3. ~Fed(r)'
    BY <1>2 DEF Fed, Alive
  <1>4. Len(<<>>) = 0
    BY EmptySeq
  <1>5. Exhausted(r)' /\ Heard(r)' = Heard(r)
    BY <1>1, <1>4 DEF Exhausted, Heard
  <1>6. ChunkInv(r)'
    BY <1>1, <1>4, <1>5 DEF ChunkInv, Gapless, SampleBytes
  <1>7. HeardInv(r)'
    BY <1>1, <1>3, <1>5 DEF ReaderInv, HeardInv, Consecutive
  <1>8. QED
    BY <1>2, <1>6, <1>7 DEF ReaderOK, Unread

\* read asks for buffer after buffer: nothing changes until it copies.
LEMMA ReaderBegins ==
  ASSUME ReaderInv, NEW r \in Reader, ReadBegin(r), MicTypeOK
  PROVE  ReaderOK(r)'
  <1>1. state[r] = "open" /\ state'[r] = "reading"
    BY DEF ReadBegin, Move, MicTypeOK
  <1>2. Fed(r)' => Fed(r)
    BY <1>1 DEF Fed, Alive, ReadBegin, micVars, registryVars
  <1>3. WorkerNext' = WorkerNext
    BY DEF ReadBegin, micVars, WorkerNext
  <1>4. ReaderOK(r)
    BY DEF ReaderInv, ReaderOK
  <1>5. QED
    BY <1>1, <1>2, <1>3, <1>4, KeptReader DEF ReadBegin, readVars

\* The next chunk begins where the last one ended.
LEMMA ReaderRefills ==
  ASSUME MicTypeOK, ReaderInv, NEW r \in Reader, Refill(r)
  PROVE  ReaderOK(r)'
  <1> DEFINE c == rx[r][1]
  <1>1. /\ rx[r] \in Seq(Chunk) /\ rx[r] # <<>> /\ Exhausted(r) /\ state[r] = "reading"
        /\ ChunkInv(r) /\ HeardInv(r) /\ Gapless(rx[r])
    BY DEF MicTypeOK, Refill, ReaderInv, ChunkInv
  <1>2. /\ Gapless(Tail(rx[r])) /\ Tail(rx[r]) \in Seq(Chunk)
        /\ Whole(c) /\ c \in Chunk /\ Head(rx[r]) = c
        /\ Tail(rx[r]) = <<>> => rx[r][Len(rx[r])] = c
        /\ Tail(rx[r]) # <<>> => /\ Tail(rx[r])[1][1] = After(c)
                                 /\ Tail(rx[r])[Len(Tail(rx[r]))] = rx[r][Len(rx[r])]
    BY <1>1, GaplessTail, OneLess
  <1>3. Due(r) = c[1]
    BY <1>1 DEF Due
  <1> HIDE DEF c
  <1>4. /\ rx'[r] = Tail(rx[r]) /\ current_buffer'[r] = c /\ cur_index'[r] = 0
        /\ buf'[r] = buf[r] /\ got'[r] = got[r] /\ state'[r] = "reading"
    BY <1>1, <1>2 DEF Refill, MicTypeOK
  <1>5. UNCHANGED <<made, captured, micWorker, data_consumers, state>>
    BY DEF Refill, micVars, registryVars
  <1>6. (Fed(r)' <=> Fed(r)) /\ WorkerNext' = WorkerNext
    BY <1>5 DEF Fed, Alive, WorkerNext
  <1>7. Fed(r) => After(rx[r][Len(rx[r])]) = WorkerNext
    BY <1>1 DEF ChunkInv
  <1>8. Heard(r)' = Heard(r)
    BY <1>4 DEF Heard
  <1>9. Len(c) \in Nat /\ Len(c) > 0 /\ ~Exhausted(r)'
    <2>1. Len(c) \in Nat /\ Len(c) > 0
      BY <1>2, EmptySeq DEF Whole, Chunk
    <2>2. QED
      BY <1>4, <2>1 DEF Exhausted
  <1>10. rx'[r] # <<>> /\ Fed(r)' => After(rx'[r][Len(rx'[r])]) = WorkerNext'
    BY <1>2, <1>4, <1>6, <1>7
  <1>11. rx'[r] # <<>> \/ Fed(r)' => Due(r)' = After(c)
    <2>1. CASE rx'[r] = <<>>
      BY <1>2, <1>4, <1>6, <1>7, <2>1 DEF Due
    <2>2. CASE rx'[r] # <<>>
      BY <1>2, <1>4, <2>2 DEF Due
    <2>3. QED
      BY <2>1, <2>2
  <1>12. ChunkInv(r)'
    <2>1. Gapless(rx'[r]) /\ Whole(current_buffer'[r]) /\ 0 <= Len(c) /\ 0 % SampleBytes = 0
      BY <1>2, <1>4, <1>9 DEF SampleBytes
    <2>2. QED
      BY <1>4, <1>10, <1>11, <2>1 DEF ChunkInv, Gapless, Whole, Consecutive, After
  <1>13. HeardInv(r)'
    <2>1. Heard(r) # <<>> => c[1] = After(Heard(r))
      BY <1>1, <1>3 DEF HeardInv
    <2>2. current_buffer'[r][cur_index'[r] + 1] = c[1]
      BY <1>4
    <2>3. QED
      BY <1>1, <1>4, <1>8, <1>9, <2>1, <2>2 DEF HeardInv, Consecutive, After
  <1>14. QED
    BY <1>4, <1>12, <1>13 DEF ReaderOK, Unread

\* What a turn copies is whole samples: the buffer, what it holds, the chunk and
\* what was read of it all are.
LEMMA CopyEven ==
  ASSUME MicTypeOK, NEW r \in Reader, ChunkInv(r), HeardInv(r), Copy(r)
  PROVE  Portion(r) % 2 = 0
  <1>1. /\ Len(current_buffer[r]) \in Nat /\ Len(buf[r]) \in Nat
        /\ cur_index[r] \in Nat /\ BufLen \in Nat
    BY MicAssumption DEF MicTypeOK, Chunk
  <1>2. current_buffer[r] # <<>>
    <2>1. Len(current_buffer[r]) > 0
      BY <1>1 DEF Copy, Exhausted
    <2>2. QED
      BY <2>1, EmptySeq
  <1>3. Len(current_buffer[r]) % 2 = 0 /\ cur_index[r] % 2 = 0
        /\ Len(buf[r]) % 2 = 0 /\ BufLen % 2 = 0
        /\ Len(buf[r]) <= BufLen /\ cur_index[r] <= Len(current_buffer[r])
    BY <1>2, MicAssumption DEF ChunkInv, HeardInv, Whole, SampleBytes
  <1>4. (Len(current_buffer[r]) - cur_index[r]) % 2 = 0 /\ (BufLen - Len(buf[r])) % 2 = 0
    BY <1>1, <1>3, Parity
  <1>5. QED
    BY <1>4 DEF Portion, Room

\* What is copied comes right after what was read.
LEMMA ReaderCopies ==
  ASSUME MicTypeOK, ReaderInv, NEW r \in Reader, Copy(r)
  PROVE  ReaderOK(r)'
  <1> DEFINE b == current_buffer[r]
             i == cur_index[r]
             p == Portion(r)
             h == Heard(r)
             d == Copied(r)
  <1>1. /\ ChunkInv(r) /\ HeardInv(r) /\ ~Exhausted(r) /\ state[r] = "reading"
    BY DEF ReaderInv, Copy
  <1>2. /\ buf' = [buf EXCEPT ![r] = buf[r] \o d]
        /\ cur_index' = [cur_index EXCEPT ![r] = i + p]
        /\ b \in Seq(Nat) /\ buf[r] \in Seq(Nat) /\ got[r] \in Seq(Nat)
        /\ p \in Nat /\ p > 0 /\ i \in Nat
        /\ i + 1 \in 1..Len(b) /\ i + p \in (i + 1)..Len(b)
        /\ d \in Seq(Nat) /\ Len(d) = p /\ p <= Room(r)
    BY CopyParts DEF MicTypeOK, Chunk
  <1>3. p % 2 = 0
    BY <1>1, CopyEven
  <1>4. /\ buf'[r] = buf[r] \o d /\ cur_index'[r] = i + p
        /\ current_buffer'[r] = b /\ got'[r] = got[r] /\ rx'[r] = rx[r]
        /\ UNCHANGED <<made, captured, micWorker, data_consumers, state>>
    BY <1>2 DEF Copy, MicTypeOK, micVars, registryVars
  <1>5. (Fed(r)' <=> Fed(r)) /\ WorkerNext' = WorkerNext
    BY <1>4 DEF Fed, Alive, WorkerNext
  <1>6. Due(r)' = Due(r)
    BY <1>4, <1>5 DEF Due
  <1>7. /\ Consecutive(b) /\ Len(b) % 2 = 0 /\ b[1] % 2 = 1 /\ i % 2 = 0 /\ b # <<>>
        /\ Whole(b)
    <2>1. Len(b) \in Nat /\ Len(b) > 0
      <3>1. b \in Seq(Nat) /\ i \in Nat /\ i + 1 \in 1..Len(b)
        BY <1>2, Zenon
      <3> HIDE DEF b, i
      <3>2. QED
        BY <3>1, LenProperties
    <2>2. b # <<>>
      BY <2>1, EmptySeq
    <2>3. QED
      BY <1>1, <2>2 DEF ChunkInv, Whole, SampleBytes
  <1> DEFINE from == i + 1
             upto == i + p
  <1>d. d = SubSeq(b, from, upto) /\ from \in 1..Len(b) /\ upto \in from..Len(b)
        /\ from - 1 = i
    BY <1>2 DEF Copied
  <1>e. b = current_buffer[r] /\ i = cur_index[r] /\ h = Heard(r)
    OBVIOUS
  <1> HIDE DEF b, i, p, h, d
  <1>8. /\ d # <<>>
        /\ d[1] = b[i + 1]
        /\ b[i + 1] = b[1] + i
        /\ Consecutive(d)
        /\ After(d) = b[1] + (i + p)
    <2> HIDE DEF from, upto
    <2>1. /\ d # <<>> /\ d[1] = b[from] /\ b[from] = b[1] + (from - 1)
          /\ Consecutive(d) /\ After(d) = b[1] + upto
      BY <1>2, <1>7, <1>d, Slice
    <2>2. QED
      BY <1>d, <2>1 DEF from, upto
  <1>9. b[1] \in Nat /\ Len(b) \in Nat
    BY <1>2, <1>7, EmptySeq, ElementOfSeq, SMTT(30)
  <1> HIDE DEF from, upto
  <1>f. got[r] \in Seq(Nat) /\ buf[r] \in Seq(Nat) /\ d \in Seq(Nat)
    BY <1>2
  <1>g. /\ i \in Nat /\ p \in Nat /\ i + p <= Len(b)
        /\ i % 2 = 0 /\ p % 2 = 0
    BY <1>2, <1>3, <1>7, <1>9
  <1>10. h \in Seq(Nat) /\ Heard(r)' = h \o d
    <2>1. Heard(r)' = got[r] \o (buf[r] \o d)
      BY <1>4 DEF Heard
    <2>2. h = got[r] \o buf[r]
      BY <1>e DEF Heard
    <2>3. (got[r] \o buf[r]) \o d = got[r] \o (buf[r] \o d)
      <3>1. \A x, y, z \in Seq(Nat) : (x \o y) \o z = x \o (y \o z)
        BY ConcatAssociative, SMTT(30)
      <3>2. QED
        BY <1>f, <3>1, Zenon
    <2>4. h \in Seq(Nat)
      BY <1>f, <2>2, ConcatProperties
    <2>5. QED
      BY <2>1, <2>2, <2>3, <2>4
  <1>11. /\ Heard(r)' # <<>>
         /\ Consecutive(Heard(r)')
         /\ Heard(r)'[1] % 2 = 1
         /\ After(Heard(r)') = b[1] + (i + p)
    <2>1. CASE h = <<>>
      <3>1. Heard(r)' = d
        BY <1>2, <1>10, <2>1, ConcatEmptySeq
      <3>2. (b[1] + i) % 2 = 1
        BY <1>2, <1>7, <1>9, Parity
      <3>3. QED
        BY <1>8, <3>1, <3>2
    <2>2. CASE h # <<>>
      <3>1. Consecutive(h) /\ h[1] % 2 = 1 /\ b[i + 1] = After(h)
        BY <1>1, <1>e, <2>2 DEF HeardInv, SampleBytes
      <3>2. d[1] = After(h)
        BY <1>8, <3>1
      <3>3. /\ h \o d # <<>> /\ Consecutive(h \o d)
            /\ (h \o d)[1] = h[1] /\ After(h \o d) = After(d)
        BY <1>2, <1>8, <1>10, <2>2, <3>1, <3>2, Joined
      <3>4. QED
        BY <1>8, <1>10, <3>1, <3>3
    <2>3. QED
      BY <2>1, <2>2
  <1>12. i + p <= Len(b) /\ (Exhausted(r)' <=> i + p >= Len(b)) /\ (i + p) % 2 = 0
    <2>1. i + p <= Len(b) /\ (i + p) % 2 = 0
      BY <1>g, Parity
    <2>2. QED
      BY <1>4, <2>1 DEF Exhausted
  <1>13. ChunkInv(r)'
    <2>1. /\ Gapless(rx[r])
          /\ rx[r] # <<>> /\ Fed(r) => After(rx[r][Len(rx[r])]) = WorkerNext
          /\ rx[r] # <<>> \/ Fed(r) => Due(r) = After(b)
      BY <1>1, <1>e DEF ChunkInv
    <2>2. QED
      BY <1>4, <1>5, <1>6, <1>7, <1>12, <2>1 DEF ChunkInv, SampleBytes
  <1>14. /\ Len(buf'[r]) % 2 = 0 /\ Len(buf'[r]) <= BufLen
         /\ Len(got[r]) % 2 = 0
    <2>1. /\ Len(buf'[r]) = Len(buf[r]) + p /\ Len(buf[r]) \in Nat
      <3>1. Len(d) = p /\ buf'[r] = buf[r] \o d
        BY <1>2, <1>4
      <3>2. Len(buf[r] \o d) = Len(buf[r]) + Len(d)
        BY <1>f, ConcatProperties
      <3>3. QED
        BY <1>f, <3>1, <3>2
    <2>2. Len(buf[r]) % 2 = 0 /\ Len(got[r]) % 2 = 0 /\ p <= BufLen - Len(buf[r])
      BY <1>1, <1>2 DEF HeardInv, SampleBytes, Room
    <2>3. BufLen \in Nat
      BY MicAssumption
    <2>4. (Len(buf[r]) + p) % 2 = 0
      BY <1>2, <1>3, <2>1, <2>2, Parity
    <2>5. Len(buf[r]) + p <= BufLen
      BY <1>2, <2>1, <2>2, <2>3
    <2>6. QED
      BY <2>1, <2>2, <2>4, <2>5
  <1>15. ~Exhausted(r)' => b[i + p + 1] = b[1] + (i + p)
    <2> DEFINE k == i + p + 1
    <2>1. ASSUME ~Exhausted(r)'
          PROVE  k \in 1..Len(b)
      <3>1. i + p < Len(b)
        BY <1>9, <1>12, <1>g, <2>1
      <3>2. QED
        BY <1>9, <1>g, <3>1
    <2>2. k - 1 = i + p
      BY <1>g
    <2>3. b[k] = b[i + p + 1]
      OBVIOUS
    <2> HIDE DEF k
    <2>4. ~Exhausted(r)' => b[k] = b[1] + (k - 1)
      BY <1>7, <2>1 DEF Consecutive
    <2>5. QED
      BY <2>2, <2>3, <2>4, Zenon
  <1>16. Exhausted(r)' /\ (rx[r] # <<>> \/ Fed(r)) => Due(r) = b[1] + (i + p)
    <2>1. Exhausted(r)' => i + p = Len(b)
      BY <1>9, <1>12, <1>g
    <2>2. rx[r] # <<>> \/ Fed(r) => Due(r) = b[1] + Len(b)
      BY <1>1, <1>e DEF ChunkInv, After
    <2>3. QED
      BY <2>1, <2>2
  <1>17. HeardInv(r)'
    <2>1. Exhausted(r)' /\ (rx[r] # <<>> \/ Fed(r))' => Due(r)' = After(Heard(r)')
      BY <1>4, <1>5, <1>6, <1>11, <1>16
    <2>2. ~Exhausted(r)' => current_buffer'[r][cur_index'[r] + 1] = After(Heard(r)')
      BY <1>4, <1>11, <1>15
    <2>3. QED
      BY <1>4, <1>11, <1>14, <2>1, <2>2 DEF HeardInv, SampleBytes
  <1>18. Unread(r)'
    BY <1>1, <1>4 DEF Unread
  <1>19. QED
    BY <1>13, <1>17, <1>18 DEF ReaderOK

\* A read returns what it copied; the reader has read no more and no less.
LEMMA ReaderReturns ==
  ASSUME MicTypeOK, ReaderInv, NEW r \in Reader, ReadFull(r) \/ ReadTimeout(r)
  PROVE  ReaderOK(r)'
  <1>1. /\ ChunkInv(r) /\ HeardInv(r) /\ state[r] = "reading"
        /\ got[r] \in Seq(Nat) /\ buf[r] \in Seq(Nat)
    BY DEF ReaderInv, ReadFull, ReadTimeout, Return, Move, MicTypeOK, Chunk
  <1>2. /\ got'[r] = got[r] \o buf[r] /\ buf'[r] = <<>> /\ state'[r] = "open"
        /\ rx'[r] = rx[r]
        /\ UNCHANGED <<made, captured, micWorker, data_consumers>>
    BY DEF ReadFull, ReadTimeout, Return, Move, MicTypeOK, micVars, registryVars
  <1>3. Heard(r)' = Heard(r)
    <2>1. got[r] \o buf[r] \in Seq(Nat)
      BY <1>1, ConcatProperties
    <2>2. (got[r] \o buf[r]) \o <<>> = got[r] \o buf[r]
      BY <2>1, ConcatEmptySeq
    <2>3. QED
      BY <1>2, <2>2 DEF Heard
  <1>4. (Fed(r)' <=> Fed(r)) /\ WorkerNext' = WorkerNext
    BY <1>1, <1>2 DEF Fed, Alive, WorkerNext
  <1>5. Due(r)' = Due(r)
    BY <1>2, <1>4 DEF Due
  <1>6. Len(got'[r]) % 2 = 0 /\ Len(buf'[r]) = 0 /\ 0 % 2 = 0 /\ 0 <= BufLen
    <2>1. Len(got'[r]) = Len(got[r]) + Len(buf[r]) /\ Len(got[r]) \in Nat /\ Len(buf[r]) \in Nat
      BY <1>1, <1>2, ConcatProperties
    <2>2. Len(got[r]) % 2 = 0 /\ Len(buf[r]) % 2 = 0
      BY <1>1 DEF HeardInv, SampleBytes
    <2>3. Len(got'[r]) % 2 = 0
      BY <2>1, <2>2, Parity
    <2>4. QED
      <3>1. Len(buf'[r]) = 0
        BY <1>2, EmptySeq
      <3>2. 0 % 2 = 0 /\ 0 <= BufLen
        BY MicAssumption
      <3>3. QED
        BY <2>3, <3>1, <3>2
  <1>7. Unread(r)'
    BY <1>2 DEF Unread
  <1>8. CASE ReadFull(r)
    <2>1. current_buffer'[r] = current_buffer[r] /\ cur_index'[r] = cur_index[r]
      BY <1>8 DEF ReadFull
    <2>2. Exhausted(r)' <=> Exhausted(r)
      BY <2>1 DEF Exhausted
    <2>3. ChunkInv(r)'
      BY <1>1, <1>2, <1>4, <1>5, <2>1, <2>2 DEF ChunkInv
    <2>4. HeardInv(r)'
      BY <1>1, <1>2, <1>3, <1>4, <1>5, <1>6, <2>1, <2>2 DEF HeardInv, SampleBytes
    <2>5. QED
      BY <1>7, <2>3, <2>4 DEF ReaderOK
  <1>9. CASE ReadTimeout(r)
    <2>1. /\ current_buffer'[r] = <<>> /\ cur_index'[r] = 0
          /\ Exhausted(r) /\ rx[r] = <<>>
      BY <1>9 DEF ReadTimeout, MicTypeOK
    <2>2. Len(<<>>) = 0
      BY EmptySeq
    <2>3. Exhausted(r)'
      BY <2>1, <2>2 DEF Exhausted
    <2>4. ChunkInv(r)'
      BY <1>1, <1>2, <2>1, <2>2, <2>3 DEF ChunkInv, SampleBytes
    <2>5. HeardInv(r)'
      BY <1>1, <1>2, <1>3, <1>4, <1>5, <1>6, <2>1, <2>3 DEF HeardInv, SampleBytes
    <2>6. QED
      BY <1>7, <2>4, <2>5 DEF ReaderOK
  <1>10. QED
    BY <1>8, <1>9

\* Every step keeps the line of bytes of every reader.
LEMMA ReaderStep ==
  MicTypeOK /\ CapturedInv /\ ReaderInv /\ [MicNext]_vars => ReaderInv'
  <1>1. SUFFICES ASSUME MicTypeOK, CapturedInv, ReaderInv, [MicNext]_vars PROVE ReaderInv'
    OBVIOUS
  <1>2. CASE UNCHANGED vars
    <2>1. SUFFICES ASSUME NEW r \in Reader PROVE ReaderOK(r)'
      BY DEF ReaderInv, ReaderOK
    <2>2. (Fed(r)' <=> Fed(r)) /\ WorkerNext' = WorkerNext
      BY <1>2 DEF vars, micVars, registryVars, Fed, Alive, WorkerNext
    <2>3. QED
      BY <1>1, <1>2, <2>2, KeptReader DEF vars, readVars, ReaderInv, ReaderOK
  <1>3. ASSUME NEW n \in 1..MaxChunk, Capture(n)
        PROVE  ReaderInv'
    BY <1>1, <1>3, ReaderCapture
  <1>4. CASE Distribute
    BY <1>1, <1>4, ReaderDistribute
  <1>5. CASE DistributePanics
    BY <1>1, <1>5, ReaderPanics
  <1>6. ASSUME NEW r \in Reader,
               OpenReader(r) \/ CloseReader(r) \/ ReadBegin(r) \/ Read(r)
        PROVE  ReaderInv'
    <2>1. ReaderOK(r)'
      BY <1>1, <1>6, ReaderOpens, ReaderCloses, ReaderBegins, ReaderRefills, ReaderCopies,
         ReaderReturns DEF Read
    <2>2. \A q \in Reader : q # r => ReaderOK(q)'
      BY <1>1, <1>6, ReaderOthers
    <2>3. QED
      BY <2>1, <2>2 DEF ReaderInv, ReaderOK
  <1>7. QED
    BY <1>1, <1>2, <1>3, <1>4, <1>5, <1>6 DEF MicNext

-----------------------------------------------------------------------------
(* What follows. *)

\* Types, the registry and every reader's line of bytes hold in every state,
\* whatever the device, the worker and the readers do: microphone.rs.
THEOREM MicInvariant == MicSpec => []MicInv
  <1>1. MicInit => MicInv
    BY MicTypeInit, RegistryInit, CapturedInit, ReaderInit DEF MicInv
  <1>2. MicInv /\ [MicNext]_vars => MicInv'
    BY MicTypeStep, RegistryStep, CapturedStep, ReaderStep DEF MicInv
  <1>3. QED
    BY <1>1, <1>2, PTL DEF MicSpec

\* Every variable keeps its type.
THEOREM MicTypes == MicSpec => []MicTypeOK
  <1>1. MicInv => MicTypeOK
    BY DEF MicInv
  <1>2. QED
    BY <1>1, MicInvariant, PTL

\* A reader gets consecutive bytes, however chunks and buffers are cut and
\* whenever reads time out (MicrophoneReader::read, run_worker).
THEOREM ContiguousReads == MicSpec => []ReadsContiguous
  <1>1. MicInv => ReadsContiguous
    <2>1. SUFFICES ASSUME MicInv, NEW r \in Reader, NEW i \in 2..Len(Heard(r))
                   PROVE  Heard(r)[i] = Heard(r)[i - 1] + 1
      BY DEF ReadsContiguous, Heard
    <2> DEFINE h == Heard(r)
    <2>2. h \in Seq(Nat)
      <3>1. got[r] \in Seq(Nat) /\ buf[r] \in Seq(Nat)
        BY <2>1 DEF MicInv, MicTypeOK, Chunk
      <3>2. QED
        BY <3>1, ConcatProperties DEF Heard
    <2>3. i \in 1..Len(h) /\ i - 1 \in 1..Len(h) /\ 1 \in 1..Len(h) /\ Len(h) > 0
      BY <2>1, <2>2
    <2>4. h # <<>> /\ h[1] \in Nat
      BY <2>2, <2>3, EmptySeq, ElementOfSeq
    <2>5. Consecutive(h)
      BY <2>1, <2>4 DEF MicInv, ReaderInv, HeardInv
    <2> HIDE DEF h
    <2>6. h[i] = h[1] + (i - 1) /\ h[i - 1] = h[1] + (i - 1 - 1)
      BY <2>3, <2>5 DEF Consecutive
    <2>7. h[i] = h[i - 1] + 1
      BY <2>3, <2>4, <2>6
    <2>8. QED
      BY <2>7 DEF h
  <1>2. QED
    BY <1>1, MicInvariant, PTL

\* What reads return is whole samples, beginning with the first byte of one.
THEOREM WholeSampleReads == MicSpec => []ReadsWholeSamples
  <1>1. MicInv => ReadsWholeSamples
    <2>1. SUFFICES ASSUME MicInv, NEW r \in Reader
                   PROVE  /\ Len(got[r]) % SampleBytes = 0
                          /\ got[r] # <<>> => got[r][1] % SampleBytes = 1
      BY DEF ReadsWholeSamples
    <2>2. HeardInv(r) /\ got[r] \in Seq(Nat) /\ buf[r] \in Seq(Nat)
      BY <2>1 DEF MicInv, ReaderInv, MicTypeOK, Chunk
    <2>3. ASSUME got[r] # <<>>
          PROVE  Heard(r) # <<>> /\ Heard(r)[1] = got[r][1]
      <3>1. Len(got[r]) \in Nat /\ Len(got[r]) > 0 /\ Len(buf[r]) \in Nat
        <4>1. \A x \in Seq(Nat) : Len(x) \in Nat /\ (x # <<>> => Len(x) > 0)
          BY EmptySeq
        <4>2. QED
          BY <2>2, <2>3, <4>1
      <3>2. /\ Heard(r) \in Seq(Nat) /\ Len(Heard(r)) = Len(got[r]) + Len(buf[r])
            /\ \A i \in 1..Len(got[r]) : Heard(r)[i] = got[r][i]
        <4>1. \A x, y \in Seq(Nat) :
                /\ x \o y \in Seq(Nat) /\ Len(x \o y) = Len(x) + Len(y)
                /\ \A i \in 1..Len(x) : (x \o y)[i] = x[i]
          BY ConcatProperties
        <4>2. QED
          BY <2>2, <4>1, Zenon DEF Heard
      <3> DEFINE h == Heard(r)
                 g == Len(got[r])
                 b == Len(buf[r])
      <3>3. /\ g \in Nat /\ g > 0 /\ b \in Nat /\ Len(h) = g + b
            /\ h[1] = got[r][1] \/ 1 \notin 1..g
        BY <3>1, <3>2, Zenon
      <3> HIDE DEF h, g, b
      <3>4. Len(h) > 0 /\ h[1] = got[r][1]
        BY <3>3
      <3>5. h # <<>>
        BY <3>4, EmptySeq
      <3>6. QED
        BY <3>4, <3>5 DEF h
    <2>4. QED
      BY <2>2, <2>3 DEF HeardInv
  <1>2. QED
    BY <1>1, MicInvariant, PTL

\* While readers close in reverse order of opening, each open reader's index is
\* that of its own consumer (open_reader, do_unregister_data_consumer).
THEOREM ConsumersOwned == MicSpec => []OwnConsumer
  <1>1. MicInv => OwnConsumer
    <2>1. SUFFICES ASSUME MicInv, nested
                   PROVE  /\ \A r \in Reader : Alive(r) =>
                               /\ consumer_index[r] < Len(data_consumers)
                               /\ data_consumers[consumer_index[r] + 1] = r
                          /\ \A i \in 1..Len(data_consumers) : Alive(data_consumers[i])
      BY DEF OwnConsumer
    <2>2. /\ \A i \in 1..Len(data_consumers) :
               Alive(data_consumers[i]) /\ consumer_index[data_consumers[i]] = i - 1
          /\ \A r \in Reader : Alive(r) => r \in ToSet(data_consumers)
          /\ Len(data_consumers) \in Nat
      BY <2>1 DEF MicInv, RegistryInv, MicTypeOK
    <2>3. ASSUME NEW r \in Reader, Alive(r)
          PROVE  /\ consumer_index[r] < Len(data_consumers)
                 /\ data_consumers[consumer_index[r] + 1] = r
      <3>1. PICK i \in 1..Len(data_consumers) : data_consumers[i] = r
        BY <2>2, <2>3 DEF ToSet
      <3>2. consumer_index[r] = i - 1
        BY <2>2, <3>1
      <3>3. i - 1 < Len(data_consumers) /\ (i - 1) + 1 = i
        BY <2>2
      <3>4. QED
        BY <3>1, <3>2, <3>3
    <2>4. QED
      BY <2>2, <2>3
  <1>2. QED
    BY <1>1, MicInvariant, PTL

\* ... so that no close poisons the mutex and the worker goes on.
THEOREM WorkerGoesOn == MicSpec => []WorkerOutlivesReaders
  <1>1. MicInv => WorkerOutlivesReaders
    BY DEF MicInv, RegistryInv, WorkerOutlivesReaders
  <1>2. QED
    BY <1>1, MicInvariant, PTL
=============================================================================
