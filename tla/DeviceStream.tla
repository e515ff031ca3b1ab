---------------------------- MODULE DeviceStream -----------------------------
(***************************************************************************)
(* The arithmetic of the microphone's callback (device_stream in           *)
(* src/src/rtvoice/microphone.rs): frames of the device's format and       *)
(* channels become mono 16-bit samples at 16 kHz, as little-endian bytes.  *)
(*                                                                         *)
(* A float sample is a multiple of 1/F32Unit.  A source rate is a reduced  *)
(* fraction of 16 kHz, and resample_i16's f64 are exact; with the rates of *)
(* the 44.1 kHz family a result halfway between two integers may round     *)
(* either way in f64, which no property here tells apart.                  *)
(***************************************************************************)
EXTENDS Integers, Sequences

CONSTANTS
  SourceRate,    \* rates of the device, <<num, den>>: num/den * 16000 Hz
  Channels,      \* numbers of channels of a device
  Sample(_),     \* the samples of a format
  F32Unit,       \* a float sample x stands for x/F32Unit
  MaxFrames,     \* bound: frames in a callback
  MaxCallbacks   \* bound: callbacks

Format == {"i16", "f32", "u16", "u8"}
Int16 == -32768..32767

\* The values a sample of a format can have.
Values(format) == CASE format = "i16" -> Int16
                    [] format = "u16" -> 0..65535
                    [] format = "u8"  -> 0..255
                    [] OTHER          -> Int

ASSUME DeviceAssumption ==
  /\ SourceRate \subseteq (Nat \ {0}) \X (Nat \ {0})
  /\ Channels \subseteq Nat \ {0}
  /\ \A format \in Format : \A x \in Sample(format) : x \in Values(format)
  /\ F32Unit \in Nat \ {0}
  /\ MaxFrames \in Nat
  /\ MaxCallbacks \in Nat

VARIABLES
  device,     \* its format, channels and rate
  callbacks,  \* callbacks so far
  frames,     \* frames they had
  outputs,    \* samples they made
  input,      \* the data of the callback under way, none between two
  samples,    \* what resample_i16 made of it
  chunk       \* the bytes it sends

deviceVars == <<device, callbacks, frames, outputs, input, samples, chunk>>

DeviceTypeOK ==
  /\ device \in [format : Format, channels : Channels, rate : SourceRate]
  /\ callbacks \in 0..MaxCallbacks
  /\ frames \in Nat
  /\ outputs \in Nat
  /\ input \in Seq(Sample(device.format))
  /\ samples \in Seq(Int16)
  /\ chunk \in Seq(0..255)

DeviceInit ==
  /\ device \in [format : Format, channels : Channels, rate : SourceRate]
  /\ callbacks = 0
  /\ frames = 0
  /\ outputs = 0
  /\ input = <<>>
  /\ samples = <<>>
  /\ chunk = <<>>

-----------------------------------------------------------------------------
(* Divisions: truncating, rounding up, and rounding half away from zero.    *)

TruncDiv(a, n) == IF a >= 0 THEN a \div n ELSE -((-a) \div n)
CeilDiv(a, n) == (a + n - 1) \div n
RoundDiv(a, n) ==
  IF a >= 0 THEN (2 * a + n) \div (2 * n) ELSE -((n - 2 * a) \div (2 * n))

Clamp(v) == CASE v < -32768 -> -32768
              [] v > 32767  -> 32767
              [] OTHER      -> v

-----------------------------------------------------------------------------
(* downmix_to_mono_*.                                                       *)

\* Where silence is.
Offset(format) == CASE format = "u16" -> 32768
                    [] format = "u8"  -> 128
                    [] OTHER -> 0

\* A frame's samples, each measured from silence, added up.
SumFrom(f, offset) ==
  LET sum[n \in 0..Len(f)] ==
        IF n = 0 THEN 0 ELSE sum[n - 1] + (f[n] - offset)
  IN  sum[Len(f)]

\* Fault: the channels are summed in 16 bits.
ChannelSumWraps(f, format) ==
  ((SumFrom(f, Offset(format)) + 32768) % 65536) - 32768

ChannelSum(f, format) == SumFrom(f, Offset(format))

\* Fault: a float beyond 1.0 is not clamped.
ScaleUnclamped(sum, channels) == RoundDiv(sum * 32767, channels * F32Unit)

\* An f32 average, scaled, rounded and clamped.
Scale(sum, channels) == Clamp(RoundDiv(sum * 32767, channels * F32Unit))

Frame(data, channels, i) == SubSeq(data, (i - 1) * channels + 1, i * channels)

\* chunks_exact: an incomplete last frame is dropped.
Mono(data, d) ==
  [i \in 1..(Len(data) \div d.channels) |->
    LET sum == ChannelSum(Frame(data, d.channels, i), d.format) IN
    IF d.format = "f32" THEN Scale(sum, d.channels) ELSE TruncDiv(sum, d.channels)]

-----------------------------------------------------------------------------
(* resample_i16, from num/den * 16 kHz.                                     *)

\* Fault: the length is rounded down.
NumOutputSamplesFloor(len, rate) == (len * rate[2]) \div rate[1]

NumOutputSamples(len, rate) == CeilDiv(len * rate[2], rate[1])

\* Output i (from 0) lies between two inputs, or at the last one.
Resampled(s, rate, i) ==
  LET src_idx == (i * rate[1]) \div rate[2]
      frac == (i * rate[1]) % rate[2]
      a == s[src_idx + 1]
      b == s[src_idx + 2]
  IN  IF src_idx + 1 < Len(s) THEN RoundDiv(a * rate[2] + frac * (b - a), rate[2])
                              ELSE a

Resample(s, rate) ==
  IF rate = <<1, 1>> THEN s ELSE
    [i \in 1..NumOutputSamples(Len(s), rate) |-> Resampled(s, rate, i - 1)]

\* i16_samples_to_bytes_le.
BytesLE(s) ==
  [i \in 1..(2 * Len(s)) |->
    LET u == s[(i + 1) \div 2] % 65536 IN
    IF i % 2 = 1 THEN u % 256 ELSE u \div 256]

-----------------------------------------------------------------------------
Callback(data) ==
  /\ input = <<>>
  /\ callbacks < MaxCallbacks
  /\ callbacks' = callbacks + 1
  /\ frames' = frames + Len(data) \div device.channels
  /\ input' = data
  /\ samples' = Resample(Mono(data, device), device.rate)
  /\ chunk' = BytesLE(samples')
  /\ outputs' = outputs + Len(samples')
  /\ UNCHANGED device

\* tx_product.send.
CallbackReturns ==
  /\ input # <<>>
  /\ input' = <<>>
  /\ samples' = <<>>
  /\ chunk' = <<>>
  /\ UNCHANGED <<device, callbacks, frames, outputs>>

DeviceNext ==
  \/ \E n \in 1..MaxFrames :
       \E data \in [1..(n * device.channels) -> Sample(device.format)] : Callback(data)
  \/ CallbackReturns

DeviceSpec == DeviceInit /\ [][DeviceNext]_deviceVars

-----------------------------------------------------------------------------
(* Properties. *)

\* The stream keeps the device's time: every callback is resampled on its own
\* and rounded up, so no audio is lost, and the stream is longer than the
\* device's time by less than one sample per callback (resample_i16).
DriftBounded ==
  LET num == device.rate[1]
      due == frames * device.rate[2]
  IN  /\ outputs * num >= due
      /\ callbacks > 0 => outputs * num < due + callbacks * num

\* A device sample on its own, as 16 bits.
Level(x) ==
  IF device.format = "f32" THEN Clamp(RoundDiv(x * 32767, F32Unit))
                           ELSE x - Offset(device.format)

Decoded(i) ==
  LET u == chunk[2 * i - 1] + 256 * chunk[2 * i] IN
  IF u < 32768 THEN u ELSE u - 65536

\* What a callback sends decodes to samples no louder than what it was given:
\* neither the channels' sum, nor scaling, nor interpolation, nor the bytes wrap
\* round, at the limits of every format (downmix_to_mono_*, resample_i16,
\* i16_samples_to_bytes_le).
WithinInput ==
  \A i \in 1..(Len(chunk) \div 2) :
    /\ \E k \in 1..Len(input) : Level(input[k]) <= Decoded(i)
    /\ \E k \in 1..Len(input) : Level(input[k]) >= Decoded(i)

\* The invariant behind them (DeviceStreamProofs): what is sent is what the
\* arithmetic makes of the callback's own data.
DeviceInv ==
  /\ DeviceTypeOK
  /\ DriftBounded
  /\ callbacks = 0 => outputs = 0
  /\ samples = Resample(Mono(input, device), device.rate)
  /\ chunk = BytesLE(samples)
=============================================================================
