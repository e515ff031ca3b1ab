----------------------------- MODULE Microphone ------------------------------
(***************************************************************************)
(* Microphone and MicrophoneReader (src/src/rtvoice/microphone.rs): the    *)
(* device's callback puts chunks of samples in a channel, one worker       *)
(* thread (run_worker) hands each to every registered consumer, each       *)
(* reader's thread reads its own channel through MicrophoneReader::read.   *)
(*                                                                         *)
(* A byte is its position in what the device has captured.  A sample is    *)
(* two bytes.  A reader's registration is an index into data_consumers,    *)
(* remembered by the reader's on_close.                                    *)
(***************************************************************************)
EXTENDS Integers, Sequences, FiniteSets, SequencesExt

CONSTANTS
  Reader,      \* MicrophoneReaders ever opened
  MaxOpen,     \* bound: readers open at the same time
  BufLen,      \* bytes the caller's buffer takes (AUDIO_CHUNK_SIZE)
  MaxChunk,    \* bound: samples in a chunk
  MaxSamples   \* bound: samples the device captures

SampleBytes == 2

ASSUME MicAssumption ==
  /\ MaxOpen \in Nat
  /\ BufLen \in Nat \ {0}
  /\ BufLen % SampleBytes = 0
  /\ MaxChunk \in Nat
  /\ MaxSamples \in Nat

VARIABLES
  made,           \* bytes captured so far
  captured,       \* the device's channel of chunks
  data_consumers, \* the registered consumers, by their reader
  poisoned,       \* the mutex around them is poisoned
  micWorker,      \* "run" or "panicked"
  state,          \* of a reader: "new", "open", "reading", "closed", "panicked"
  consumer_index, \* the index its on_close captured
  nested,         \* history: readers were closed in reverse order of opening
  rx,             \* its channel of chunks
  current_buffer, \* the chunk it is reading
  cur_index,      \* bytes of it already read
  buf,            \* bytes the read in progress has copied
  got             \* bytes earlier reads returned

micVars == <<made, captured, poisoned, micWorker>>
registryVars == <<data_consumers, consumer_index, nested>>
readVars == <<current_buffer, cur_index, buf, got>>
vars == <<micVars, registryVars, state, rx, readVars>>

Chunk == Seq(Nat)

MicTypeOK ==
  /\ made \in Nat
  /\ captured \in Seq(Chunk)
  /\ data_consumers \in Seq(Reader)
  /\ poisoned \in BOOLEAN
  /\ micWorker \in {"run", "panicked"}
  /\ state \in [Reader -> {"new", "open", "reading", "closed", "panicked"}]
  /\ consumer_index \in [Reader -> Nat]
  /\ nested \in BOOLEAN
  /\ rx \in [Reader -> Seq(Chunk)]
  /\ current_buffer \in [Reader -> Chunk]
  /\ cur_index \in [Reader -> Nat]
  /\ buf \in [Reader -> Chunk]
  /\ got \in [Reader -> Chunk]

MicInit ==
  /\ made = 0
  /\ captured = <<>>
  /\ data_consumers = <<>>
  /\ poisoned = FALSE
  /\ micWorker = "run"
  /\ state = [r \in Reader |-> "new"]
  /\ consumer_index = [r \in Reader |-> 0]
  /\ nested = TRUE
  /\ rx = [r \in Reader |-> <<>>]
  /\ current_buffer = [r \in Reader |-> <<>>]
  /\ cur_index = [r \in Reader |-> 0]
  /\ buf = [r \in Reader |-> <<>>]
  /\ got = [r \in Reader |-> <<>>]

Move(r, from, to) ==
  /\ state[r] = from
  /\ state' = [state EXCEPT ![r] = to]

Alive(r) == state[r] \in {"open", "reading"}

-----------------------------------------------------------------------------
(* The device and the worker. *)

\* The stream's callback: at least one frame, of which downmix and resample
\* make at least one sample, as whole samples in one chunk.
Capture(n) ==
  /\ made + n * SampleBytes <= MaxSamples * SampleBytes
  /\ made' = made + n * SampleBytes
  /\ captured' = Append(captured, [i \in 1..(n * SampleBytes) |-> made + i])
  /\ UNCHANGED <<poisoned, micWorker, registryVars, state, rx, readVars>>

\* A chunk goes to every registered consumer; one whose reader is gone fails
\* to send it and is left in place.
Distribute ==
  /\ micWorker = "run"
  /\ captured # <<>>
  /\ ~poisoned
  /\ captured' = Tail(captured)
  /\ rx' = [r \in Reader |->
       IF r \in ToSet(data_consumers) /\ Alive(r)
         THEN Append(rx[r], Head(captured)) ELSE rx[r]]
  /\ UNCHANGED <<made, poisoned, micWorker, registryVars, state, readVars>>

\* data_consumers.lock().unwrap() on a poisoned mutex.
DistributePanics ==
  /\ micWorker = "run"
  /\ captured # <<>>
  /\ poisoned
  /\ captured' = Tail(captured)
  /\ micWorker' = "panicked"
  /\ UNCHANGED <<made, poisoned, registryVars, state, rx, readVars>>

-----------------------------------------------------------------------------
(* Opening and closing. *)

\* Fault: the index is the length after the push.
OpenReaderOffByOne(r) ==
  /\ Cardinality({q \in Reader : Alive(q)}) < MaxOpen
  /\ ~poisoned
  /\ Move(r, "new", "open")
  /\ data_consumers' = Append(data_consumers, r)
  /\ consumer_index' = [consumer_index EXCEPT ![r] = Len(data_consumers) + 1]
  /\ UNCHANGED <<micVars, nested, rx, readVars>>

\* Fault: the index is the length less one, taken before the push.
OpenReaderBeforePush(r) ==
  /\ Cardinality({q \in Reader : Alive(q)}) < MaxOpen
  /\ ~poisoned
  /\ Move(r, "new", "open")
  /\ data_consumers' = Append(data_consumers, r)
  /\ consumer_index' = [consumer_index EXCEPT ![r] = Len(data_consumers) - 1]
  /\ UNCHANGED <<micVars, nested, rx, readVars>>

\* open_reader registers a consumer; on_close remembers its index.  (On a
\* poisoned mutex it returns Err and nothing changes.)
OpenReader(r) ==
  /\ Cardinality({q \in Reader : Alive(q)}) < MaxOpen
  /\ ~poisoned
  /\ Move(r, "new", "open")
  /\ data_consumers' = Append(data_consumers, r)
  /\ consumer_index' = [consumer_index EXCEPT ![r] = Len(data_consumers)]
  /\ UNCHANGED <<micVars, nested, rx, readVars>>

LastOpened(r) == data_consumers # <<>> /\ Last(data_consumers) = r

\* Vec::remove(index) panics, lock in hand, when there is no such index.
RemoveConsumer(r) ==
  IF consumer_index[r] < Len(data_consumers)
    THEN /\ data_consumers' = RemoveAt(data_consumers, consumer_index[r] + 1)
         /\ Move(r, "open", "closed")
         /\ UNCHANGED poisoned
    ELSE /\ Move(r, "open", "panicked")
         /\ poisoned' = TRUE
         /\ UNCHANGED data_consumers

\* Fault: the reader goes and its consumer stays.
CloseReaderLeaves(r) ==
  /\ Move(r, "open", "closed")
  /\ rx' = [rx EXCEPT ![r] = <<>>]
  /\ current_buffer' = [current_buffer EXCEPT ![r] = <<>>]
  /\ cur_index' = [cur_index EXCEPT ![r] = 0]
  /\ UNCHANGED <<micVars, registryVars, buf, got>>

\* Dropping the reader: on_close, then its channel goes.  A poisoned mutex is
\* an error that on_close drops.
CloseReader(r) ==
  /\ \/ ~poisoned /\ RemoveConsumer(r)
     \/ /\ poisoned
        /\ Move(r, "open", "closed")
        /\ UNCHANGED <<data_consumers, poisoned>>
  /\ rx' = [rx EXCEPT ![r] = <<>>]
  /\ current_buffer' = [current_buffer EXCEPT ![r] = <<>>]
  /\ cur_index' = [cur_index EXCEPT ![r] = 0]
  /\ nested' = (nested /\ LastOpened(r))
  /\ UNCHANGED <<made, captured, micWorker, consumer_index, buf, got>>

-----------------------------------------------------------------------------
(* MicrophoneReader::read. *)

Exhausted(r) == cur_index[r] >= Len(current_buffer[r])

\* Fault: the last byte of the caller's buffer is not used.
RoomShort(r) == BufLen - 1 - Len(buf[r])

Room(r) == BufLen - Len(buf[r])

ReadBegin(r) ==
  /\ Move(r, "open", "reading")
  /\ UNCHANGED <<micVars, registryVars, rx, readVars>>

\* Fault: cur_index is not reset for the new chunk.
RefillMidway(r) ==
  /\ state[r] = "reading"
  /\ Room(r) > 0
  /\ Exhausted(r)
  /\ rx[r] # <<>>
  /\ current_buffer' = [current_buffer EXCEPT ![r] = Head(rx[r])]
  /\ rx' = [rx EXCEPT ![r] = Tail(@)]
  /\ UNCHANGED <<micVars, registryVars, state, cur_index, buf, got>>

\* recv_timeout gives the next chunk.
Refill(r) ==
  /\ state[r] = "reading"
  /\ Room(r) > 0
  /\ Exhausted(r)
  /\ rx[r] # <<>>
  /\ current_buffer' = [current_buffer EXCEPT ![r] = Head(rx[r])]
  /\ rx' = [rx EXCEPT ![r] = Tail(@)]
  /\ cur_index' = [cur_index EXCEPT ![r] = 0]
  /\ UNCHANGED <<micVars, registryVars, state, buf, got>>

\* The turns of the loop that find a byte in current_buffer.
Copy(r) ==
  /\ state[r] = "reading"
  /\ Room(r) > 0
  /\ ~Exhausted(r)
  /\ LET left == Len(current_buffer[r]) - cur_index[r]
         n == IF left < Room(r) THEN left ELSE Room(r)
     IN  /\ buf' = [buf EXCEPT ![r] =
              @ \o SubSeq(current_buffer[r], cur_index[r] + 1, cur_index[r] + n)]
         /\ cur_index' = [cur_index EXCEPT ![r] = @ + n]
  /\ UNCHANGED <<micVars, registryVars, state, rx, current_buffer, got>>

Return(r) ==
  /\ Move(r, "reading", "open")
  /\ got' = [got EXCEPT ![r] = @ \o buf[r]]
  /\ buf' = [buf EXCEPT ![r] = <<>>]

ReadFull(r) ==
  /\ Room(r) = 0
  /\ Return(r)
  /\ UNCHANGED <<micVars, registryVars, rx, current_buffer, cur_index>>

\* Fault: recv instead of recv_timeout.
ReadTimeoutNever(r) ==
  /\ FALSE
  /\ Return(r)
  /\ UNCHANGED <<micVars, registryVars, rx, current_buffer, cur_index>>

\* recv_timeout gives nothing in 20 ms: what was copied is returned.
ReadTimeout(r) ==
  /\ Room(r) > 0
  /\ Exhausted(r)
  /\ rx[r] = <<>>
  /\ Return(r)
  /\ current_buffer' = [current_buffer EXCEPT ![r] = <<>>]
  /\ cur_index' = [cur_index EXCEPT ![r] = 0]
  /\ UNCHANGED <<micVars, registryVars, rx>>

Read(r) == Refill(r) \/ Copy(r) \/ ReadFull(r) \/ ReadTimeout(r)

-----------------------------------------------------------------------------
MicNext ==
  \/ \E n \in 1..MaxChunk : Capture(n)
  \/ Distribute
  \/ DistributePanics
  \/ \E r \in Reader :
       OpenReader(r) \/ CloseReader(r) \/ ReadBegin(r) \/ Read(r)

MicSpec == MicInit /\ [][MicNext]_vars

\* The worker runs, and so does a thread that is inside read.
MicFairSpec ==
  MicSpec /\ WF_vars(Distribute) /\ \A r \in Reader : WF_vars(Read(r))

-----------------------------------------------------------------------------
(* Properties. *)

\* A reader gets consecutive bytes of the device's stream: no chunk and no part
\* of one is lost, doubled or reordered between the callback, the worker and
\* read, from the first byte it gets.
ReadsContiguous ==
  \A r \in Reader :
    LET all == got[r] \o buf[r] IN
    \A i \in 2..Len(all) : all[i] = all[i - 1] + 1

\* What a read returns is whole samples, so that every audio message sent has
\* whole samples, though read copies byte by byte from chunks of any length.
ReadsWholeSamples ==
  \A r \in Reader :
    /\ Len(got[r]) % SampleBytes = 0
    /\ got[r] # <<>> => got[r][1] % SampleBytes = 1

\* While readers are closed in reverse order of opening (RtService has one at a
\* time), an open reader's index is that of its own consumer, and no consumer of
\* a reader that is gone is left (open_reader, do_unregister_data_consumer).
OwnConsumer ==
  nested =>
    /\ \A r \in Reader : Alive(r) =>
         /\ consumer_index[r] < Len(data_consumers)
         /\ data_consumers[consumer_index[r] + 1] = r
    /\ \A i \in 1..Len(data_consumers) : Alive(data_consumers[i])

\* ... and the worker outlives its readers: no close panics with the lock held.
WorkerOutlivesReaders == nested => micWorker # "panicked"

\* data_consumers.lock().unwrap() (microphone.rs:127) never meets a poisoned
\* mutex, in whatever order readers are closed.
WorkerNeverPanics == micWorker # "panicked"

\* A read returns, whether the device keeps talking (the buffer fills up) or
\* falls silent in the middle of it (recv_timeout in read).
ReadReturns == \A r \in Reader : state[r] = "reading" ~> state[r] # "reading"

-----------------------------------------------------------------------------
(* The invariant behind the safety properties (MicrophoneProofs). *)

\* While readers close in reverse order of opening, the registry is the open
\* readers in the order they were opened, each at its index.
RegistryInv ==
  /\ micWorker = "panicked" => poisoned
  /\ nested =>
       /\ ~poisoned
       /\ \A i \in 1..Len(data_consumers) :
            Alive(data_consumers[i]) /\ consumer_index[data_consumers[i]] = i - 1
       /\ \A r \in Reader : Alive(r) => r \in ToSet(data_consumers)

\* Bytes that follow one another, and the one that comes after them.
Consecutive(bytes) == \A i \in 1..Len(bytes) : bytes[i] = bytes[1] + (i - 1)
After(bytes) == bytes[1] + Len(bytes)

\* A channel holds chunks of whole samples without a gap.
Whole(bytes) ==
  /\ bytes # <<>>
  /\ Consecutive(bytes)
  /\ Len(bytes) % SampleBytes = 0
  /\ bytes[1] % SampleBytes = 1

Gapless(chunks) ==
  /\ \A i \in 1..Len(chunks) : Whole(chunks[i])
  /\ \A i \in 1..(Len(chunks) - 1) : chunks[i + 1][1] = After(chunks[i])

\* The device's channel ends with the last byte captured.
CapturedInv ==
  /\ Gapless(captured)
  /\ made % SampleBytes = 0
  /\ captured # <<>> => After(captured[Len(captured)]) = made + 1

\* The next byte the worker hands on, and the next one in line for a reader.
WorkerNext == IF captured = <<>> THEN made + 1 ELSE captured[1][1]
Due(r) == IF rx[r] = <<>> THEN WorkerNext ELSE rx[r][1][1]

Fed(r) == micWorker = "run" /\ Alive(r) /\ r \in ToSet(data_consumers)
Heard(r) == got[r] \o buf[r]

\* What a reader has read, the rest of its chunk, its channel and the device's
\* follow one another.
ChunkInv(r) ==
  /\ current_buffer[r] = <<>> \/ Whole(current_buffer[r])
  /\ cur_index[r] <= Len(current_buffer[r])
  /\ cur_index[r] % SampleBytes = 0
  /\ Gapless(rx[r])
  /\ rx[r] # <<>> /\ Fed(r) => After(rx[r][Len(rx[r])]) = WorkerNext
  /\ ~Exhausted(r) /\ (rx[r] # <<>> \/ Fed(r)) => Due(r) = After(current_buffer[r])

HeardInv(r) ==
  /\ Len(got[r]) % SampleBytes = 0
  /\ Len(buf[r]) % SampleBytes = 0
  /\ Len(buf[r]) <= BufLen
  /\ Heard(r) # <<>> =>
       /\ Consecutive(Heard(r))
       /\ Heard(r)[1] % SampleBytes = 1
       /\ ~Exhausted(r) => current_buffer[r][cur_index[r] + 1] = After(Heard(r))
       /\ Exhausted(r) /\ (rx[r] # <<>> \/ Fed(r)) => Due(r) = After(Heard(r))

Unread(r) ==
  state[r] = "new" => rx[r] = <<>> /\ current_buffer[r] = <<>> /\ Heard(r) = <<>>

ReaderInv == \A r \in Reader : ChunkInv(r) /\ HeardInv(r) /\ Unread(r)

MicInv == MicTypeOK /\ RegistryInv /\ CapturedInv /\ ReaderInv
=============================================================================
