------------------------------ MODULE Downlink -------------------------------
(***************************************************************************)
(* A message's way from its bytes to the loudspeaker: the server marshals  *)
(* it, frames cut the bytes anywhere, NetClient's run_work collects them   *)
(* in current_binary and unmarshals what is complete (net_client.rs),      *)
(* handle_audio_only_server_message plays the payload (rt_service.rs), and *)
(* PcmSource reads it sample by sample (sound.rs).                         *)
(*                                                                         *)
(* NetClient has the threads and the connection's failures, over bytes     *)
(* that are positions; here they are the bytes of the codec.  A sample is  *)
(* the bytes it is made of.                                                *)
(***************************************************************************)
EXTENDS Protocol, SequencesExt

CONSTANTS
  WireMessage,   \* messages the peer marshals
  GarbageBytes,  \* byte strings it sends in violation of the protocol
  MaxSends       \* bound: how often it sends

ASSUME DownlinkAssumption ==
  /\ \A m \in WireMessage : WellFormed(m)
  /\ GarbageBytes \subseteq Seq(Byte)
  /\ MaxSends \in Nat

VARIABLES
  pcm_format,      \* of the server's speech, by its name
  said,            \* messages the server sent
  garbled,         \* it has sent bytes that are none
  socket,          \* bytes not yet read
  current_binary,  \* run_work's buffer
  processed_bytes, \* of it
  reading,         \* run_work reads a frame, or parses
  received,        \* messages the callback got
  playing,         \* the PcmSources in the sink's queue: data and pos
  heard            \* the samples the device got

netVars == <<pcm_format, said, garbled, socket>>
parseVars == <<current_binary, processed_bytes, reading, received>>
playVars == <<playing, heard>>
downVars == <<netVars, parseVars, playVars>>

PcmFormat == {"pcm", "pcm_s16le"}

\* Bytes of an f32 or an i16.
Width == IF pcm_format = "pcm" THEN 4 ELSE 2

Remaining == SubSeq(current_binary, processed_bytes + 1, Len(current_binary))

DownTypeOK ==
  /\ pcm_format \in PcmFormat
  /\ said \in Seq(WireMessage)
  /\ garbled \in BOOLEAN
  /\ socket \in Seq(Byte)
  /\ current_binary \in Seq(Byte)
  /\ processed_bytes \in Nat
  /\ reading \in BOOLEAN
  /\ received \in Seq(AnyMessage)
  /\ playing \in Seq([data : Seq(Byte), pos : Nat])
  /\ heard \in Seq(Seq(Byte))

DownInit ==
  /\ pcm_format \in PcmFormat
  /\ said = <<>>
  /\ garbled = FALSE
  /\ socket = <<>>
  /\ current_binary = <<>>
  /\ processed_bytes = 0
  /\ reading = TRUE
  /\ received = <<>>
  /\ playing = <<>>
  /\ heard = <<>>

-----------------------------------------------------------------------------
(* The server. *)

Sends == Len(said) + (IF garbled THEN 1 ELSE 0)

Send(m) ==
  /\ Sends < MaxSends
  /\ said' = Append(said, m)
  /\ socket' = socket \o Marshal(m, SERIALIZATION_JSON)[1]
  /\ UNCHANGED <<pcm_format, garbled, parseVars, playVars>>

SendGarbage(g) ==
  /\ ~garbled
  /\ Sends < MaxSends
  /\ garbled' = TRUE
  /\ socket' = socket \o g
  /\ UNCHANGED <<pcm_format, said, parseVars, playVars>>

-----------------------------------------------------------------------------
(* run_work. *)

\* A binary frame of n bytes.
ReadFrame(n) ==
  /\ reading
  /\ n <= Len(socket)
  /\ reading' = FALSE
  /\ current_binary' = current_binary \o SubSeq(socket, 1, n)
  /\ processed_bytes' = 0
  /\ socket' = SubSeq(socket, n + 1, Len(socket))
  /\ UNCHANGED <<pcm_format, said, garbled, received, playVars>>

\* One message: the callback's way leads to Sound::play if it is audio and has
\* a payload.
ParseOk ==
  /\ ~reading
  /\ Remaining # <<>>
  /\ LET u == Unmarshal(Remaining) IN
       /\ u.err = Ok
       /\ processed_bytes' = processed_bytes + u.off
       /\ received' = Append(received, u.msg)
       /\ playing' = IF u.msg.msg_type = AudioOnlyServer /\ u.msg.payload # <<>>
                       THEN Append(playing, [data |-> u.msg.payload, pos |-> 0])
                       ELSE playing
  /\ UNCHANGED <<netVars, current_binary, reading, heard>>

Drain(n) ==
  /\ reading' = TRUE
  /\ current_binary' = SubSeq(current_binary, n + 1, Len(current_binary))
  /\ processed_bytes' = 0
  /\ UNCHANGED <<netVars, received, playVars>>

\* Nothing is left, or more bytes are needed.
ParsePause ==
  /\ ~reading
  /\ Remaining = <<>> \/ Unmarshal(Remaining).err \in More
  /\ Drain(processed_bytes)

\* Any other error throws the buffer away.
ParseError ==
  /\ ~reading
  /\ Remaining # <<>>
  /\ Unmarshal(Remaining).err \notin More \cup {Ok}
  /\ Drain(Len(current_binary))

-----------------------------------------------------------------------------
(* PcmSource::next, called by the device for the source at the queue's head *)

\* Fault: the last sample is one byte too far.
SampleThereLate(source) == source.pos + Width < Len(source.data)

SampleThere(source) == source.pos + Width <= Len(source.data)

NextSample ==
  /\ playing # <<>>
  /\ LET source == Head(playing) IN
       IF SampleThere(source)
         THEN /\ heard' = Append(heard, Slice(source.data, source.pos, Width))
              /\ playing' = [playing EXCEPT ![1].pos = @ + Width]
         ELSE /\ playing' = Tail(playing)
              /\ UNCHANGED heard
  /\ UNCHANGED <<netVars, parseVars>>

-----------------------------------------------------------------------------
DownNext ==
  \/ \E m \in WireMessage : Send(m)
  \/ \E g \in GarbageBytes : SendGarbage(g)
  \/ \E n \in 1..Len(socket) : ReadFrame(n)
  \/ ParseOk
  \/ ParsePause
  \/ ParseError
  \/ NextSample

DownSpec == DownInit /\ [][DownNext]_downVars

-----------------------------------------------------------------------------
(* Properties. *)

\* However frames cut it, a message arrives with every field as it was sent, in
\* order and once; the beginning of one is never taken for a message or an
\* error (unmarshal; this is what NetClient's Complete and Incomplete take for
\* granted).
ReceivedAsSent == ~garbled => IsPrefix(received, said)

\* Once everything has been read, everything has been received: no complete
\* message waits in current_binary for the bytes of a next one.
NothingHeldBack == ~garbled /\ reading /\ socket = <<>> => received = said

\* Whatever bytes the server sends, a message takes at least its header and no
\* more bytes than are there: the loop ends, and its slices are in range.
ConsumesWithin ==
  /\ processed_bytes <= Len(current_binary)
  /\ ~reading /\ Remaining # <<>> =>
       LET u == Unmarshal(Remaining) IN u.err = Ok => u.off \in 8..Len(Remaining)

Samples(data) == [i \in 1..(Len(data) \div Width) |-> Slice(data, (i - 1) * Width, Width)]

Speech(msg) == IF msg.msg_type = AudioOnlyServer THEN Samples(msg.payload) ELSE <<>>
SpeechOf(msgs) == FlattenSeq([i \in 1..Len(msgs) |-> Speech(msgs[i])])

\* The samples of the server's speech are heard in order, each whole; nothing
\* but an incomplete last sample of a message is left out (PcmSource::next), and
\* that does not shift the samples of the next.
SpeechHeard ==
  ~garbled =>
    /\ IsPrefix(heard, SpeechOf(said))
    /\ reading /\ socket = <<>> /\ playing = <<>> => heard = SpeechOf(said)

-----------------------------------------------------------------------------
(* The invariant behind them (DownlinkProofs). *)

Wire(msg) == Marshal(msg, SERIALIZATION_JSON)[1]
WireOf(msgs) == FlattenSeq([i \in 1..Len(msgs) |-> Wire(msgs[i])])

Unreceived == SubSeq(said, Len(received) + 1, Len(said))

\* What the buffer and the socket hold is the messages not yet received, and
\* run_work reads on only while the next of them is incomplete.
StreamInv ==
  /\ \E n \in 0..Len(said) : received = SubSeq(said, 1, n)
  /\ Remaining \o socket = WireOf(Unreceived)
  /\ reading /\ Unreceived # <<>> => Len(Remaining) < Len(Wire(Head(Unreceived)))

\* The samples a PcmSource has still to give.
Rest(source) ==
  [i \in 1..((Len(source.data) - source.pos) \div Width) |->
    Slice(source.data, source.pos + (i - 1) * Width, Width)]
RestOf(sources) == FlattenSeq([i \in 1..Len(sources) |-> Rest(sources[i])])

\* What was heard, what the sink holds and what was not yet received are the
\* server's speech.
SpeechInv == heard \o RestOf(playing) \o SpeechOf(Unreceived) = SpeechOf(said)

DownInv ==
  /\ DownTypeOK
  /\ processed_bytes <= Len(current_binary)
  /\ reading => processed_bytes = 0
  /\ \A i \in 1..Len(playing) : playing[i].pos <= Len(playing[i].data)
  /\ ~garbled => StreamInv /\ SpeechInv
=============================================================================
