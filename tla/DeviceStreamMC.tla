--------------------------- MODULE DeviceStreamMC ----------------------------
(* Values for DeviceStream: the limits and the silence of each format, and a *)
(* value next to it.                                                         *)
EXTENDS DeviceStream

\* 16, 48, 44.1, 24 and 8 kHz.
Rates == {<<1, 1>>, <<3, 1>>, <<441, 160>>, <<3, 2>>, <<1, 2>>}

Extremes(format) ==
  CASE format = "i16" -> {-32768, -1, 32767}
    [] format = "f32" -> {-4, 1, 3}          \* -2.0, 0.5 and 1.5 with F32Unit 2
    [] format = "u16" -> {0, 32767, 65535}
    [] format = "u8"  -> {0, 129, 255}
=============================================================================
