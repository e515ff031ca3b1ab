----------------------------- MODULE DownlinkMC ------------------------------
(* Values for Downlink: one message of every shape, and bytes that are none. *)
EXTENDS Downlink, FiniteSets

Sid == <<65>>
Json == <<123, 125>>

\* What the server says ...
ServerShapes == {
  [Message(FullServer) EXCEPT !.type_flag = 4, !.event = Given(50),
                              !.connect_id = Given(Sid), !.payload = Json],
  [Message(FullServer) EXCEPT !.type_flag = 4, !.event = Given(52),
                              !.connect_id = Given(<<>>)],
  EventMessage(FullServer, 150, Sid, Json),
  EventMessage(AudioOnlyServer, 352, Sid, <<1, 2, 3, 4, 5>>),
  [EventMessage(AudioOnlyServer, 352, <<>>, <<6, 7, 8, 9>>) EXCEPT
                              !.type_flag = 5, !.sequence = Given(<<255, 255, 255, 254>>)],
  EventMessage(AudioOnlyServer, 352, Sid, <<>>),
  [Message(12) EXCEPT !.type_flag = 3, !.sequence = Given(<<0, 0, 0, 1>>)],
  [Message(ErrorMsg) EXCEPT !.error_code = Given(<<2, 0, 0, 9>>), !.payload = Json] }

\* ... and what the client marshals, which a peer must be able to read too.
ClientShapes == {
  ProtocolMessage(1, Sid, Json), ProtocolMessage(100, Sid, Json),
  ProtocolMessage(300, Sid, <<>>), ProtocolMessage(102, Sid, Json),
  AudioMessage(Sid, <<10, 11>>) }

AllShapes == ServerShapes \cup ClientShapes

\* A header of every kind, then small numbers where lengths are read, a length
\* that is huge, or a string that is not UTF-8.
GarbageTails == {
  <<>>, <<0, 0, 0, 0>>, <<0, 0, 0, 1>>, <<0, 0, 0, 2, 7>>, <<127, 1, 1, 1, 1>>,
  <<200, 0, 0, 0, 0>>, <<0, 0, 0, 150, 0, 0, 0, 1, 255>>,
  <<0, 0, 0, 52, 0, 0, 0, 1, 255, 0, 0>>,
  <<0, 0, 0, 150, 0, 0, 0, 0, 0, 0, 0, 1, 0, 0, 0, 0, 0>> }

GarbageFrames == {<<17, tf, 16, 0>> \o t : tf \in {0, 4, 20, 148, 181, 208, 240}, t \in GarbageTails}
=============================================================================
