------------------------------ MODULE Protocol -------------------------------
(***************************************************************************)
(* The message codec (src/src/rtvoice/doubao/protocol.rs): marshal, what   *)
(* the client makes with it, and unmarshal.                                *)
(*                                                                         *)
(* A byte is a number, 255 standing for bytes that are not UTF-8.  An      *)
(* Option is a sequence of at most one element.  Numbers that nothing      *)
(* looks at (sequence, error_code) stay the four bytes they are sent as;   *)
(* message types are their four bits.                                      *)
(***************************************************************************)
EXTENDS Integers, Sequences

Byte == 0..255
MaxInt == 2147483647
Absent == <<>>
Given(v) == <<v>>

MsgType == {1, 2, 9, 11, 12, 15}
FullClient == 1
AudioOnlyClient == 2
FullServer == 9
AudioOnlyServer == 11
ErrorMsg == 15

SERIALIZATION_RAW == 0
SERIALIZATION_JSON == 16

Message(type) ==
  [msg_type |-> type, type_flag |-> 0, event |-> Absent, session_id |-> Absent,
   connect_id |-> Absent, sequence |-> Absent, error_code |-> Absent,
   payload |-> <<>>]

-----------------------------------------------------------------------------
(* Which fields a message has.  The code decides it apart for writing and   *)
(* for reading.                                                             *)

ContainsEvent(flag) == (flag \div 4) % 2 = 1
ContainsSequence(flag) == flag % 2 = 1 \/ flag % 4 = 3

EventIn(msg, events) == \E i \in 1..Len(msg.event) : msg.event[i] \in events
HasEvent(msg) == msg.event # Absent /\ ContainsEvent(msg.type_flag)

ShouldWriteSessionId(msg) == HasEvent(msg) /\ ~EventIn(msg, {1, 2, 50, 51, 52})
ShouldWriteConnectId(msg) == HasEvent(msg) /\ EventIn(msg, {50, 51, 52})

ShouldReadSessionId(msg) == HasEvent(msg) /\ ~EventIn(msg, {1, 2, 50, 51, 52})

\* Fault: the event of a connection that ends is forgotten.
ShouldReadConnectIdStarted(msg) == HasEvent(msg) /\ EventIn(msg, {50, 51})

ShouldReadConnectId(msg) == HasEvent(msg) /\ EventIn(msg, {50, 51, 52})

-----------------------------------------------------------------------------
(* marshal_inner. *)

BigEndian(n) ==
  <<n \div 16777216, (n \div 65536) % 256, (n \div 256) % 256, n % 256>>
StringBE(s) == BigEndian(Len(s)) \o s
Same(bytes) == bytes

Missing(msg) ==
  \/ ContainsEvent(msg.type_flag) /\ msg.event = Absent
  \/ ShouldWriteSessionId(msg) /\ msg.session_id = Absent
  \/ ShouldWriteConnectId(msg) /\ msg.connect_id = Absent
  \/ ContainsSequence(msg.type_flag) /\ msg.sequence = Absent
  \/ msg.msg_type = ErrorMsg /\ msg.error_code = Absent

IsText(s) == Len(s) <= MaxInt /\ \A i \in 1..Len(s) : s[i] # 255

\* What unmarshal can return.
AnyMessage ==
  [msg_type : MsgType \cup {0}, type_flag : 0..15, event : Seq(Nat),
   session_id : Seq(Seq(Byte)), connect_id : Seq(Seq(Byte)),
   sequence : Seq(Seq(Byte)), error_code : Seq(Seq(Byte)), payload : Seq(Byte)]

\* What marshal is given: a field is there just when type, flags and event ask
\* for it, a string is UTF-8, and lengths and the event are numbers below 2^31.
WellFormed(msg) ==
  /\ msg \in AnyMessage
  /\ msg.msg_type # 0
  /\ Len(msg.event) = IF ContainsEvent(msg.type_flag) THEN 1 ELSE 0
  /\ Len(msg.session_id) = IF ShouldWriteSessionId(msg) THEN 1 ELSE 0
  /\ Len(msg.connect_id) = IF ShouldWriteConnectId(msg) THEN 1 ELSE 0
  /\ Len(msg.sequence) = IF ContainsSequence(msg.type_flag) THEN 1 ELSE 0
  /\ Len(msg.error_code) = IF msg.msg_type = ErrorMsg THEN 1 ELSE 0
  /\ \A i \in 1..Len(msg.event) : msg.event[i] <= MaxInt
  /\ \A i \in 1..Len(msg.session_id) : IsText(msg.session_id[i])
  /\ \A i \in 1..Len(msg.connect_id) : IsText(msg.connect_id[i])
  /\ \A i \in 1..Len(msg.sequence) : Len(msg.sequence[i]) = 4
  /\ \A i \in 1..Len(msg.error_code) : Len(msg.error_code[i]) = 4
  /\ Len(msg.payload) <= MaxInt

Field(present, option, Encode(_)) == IF present THEN Encode(option[1]) ELSE <<>>

\* The bytes, or none when a field the flags ask for is missing.
Marshal(msg, serialization) ==
  IF Missing(msg) THEN Absent ELSE Given(
    <<17, msg.msg_type * 16 + (msg.type_flag % 16), serialization, 0>>
    \o Field(ContainsEvent(msg.type_flag), msg.event, BigEndian)
    \o Field(ShouldWriteSessionId(msg), msg.session_id, StringBE)
    \o Field(ShouldWriteConnectId(msg), msg.connect_id, StringBE)
    \o Field(ContainsSequence(msg.type_flag), msg.sequence, Same)
    \o Field(msg.msg_type = ErrorMsg, msg.error_code, Same)
    \o StringBE(msg.payload))

\* send_protocol_message, send_chat_text_query and the create_* functions.
StartConnectionMessage(json) ==
  [Message(FullClient) EXCEPT !.type_flag = 4, !.event = Given(1), !.payload = json]

EventMessage(type, event, sid, payload) ==
  [Message(type) EXCEPT !.type_flag = 4, !.event = Given(event),
                        !.session_id = Given(sid), !.payload = payload]

ProtocolMessage(event, sid, json) ==
  IF event = 1 THEN StartConnectionMessage(json)
               ELSE EventMessage(FullClient, event, sid, json)

AudioMessage(sid, data) == EventMessage(AudioOnlyClient, 200, sid, data)

-----------------------------------------------------------------------------
(* unmarshal.  p is how far it is: the error, if any, the offset, and the   *)
(* message so far.                                                          *)

Ok == "Ok"
More == {"InsufficientData", "PayloadOverflow", "ReadOverflow"}

\* u32 of four bytes.  From 2^31 on it is longer than any data and no event.
U32(b) ==
  IF b[1] >= 128 THEN MaxInt
                 ELSE b[1] * 16777216 + b[2] * 65536 + b[3] * 256 + b[4]

Slice(data, off, n) == SubSeq(data, off + 1, off + n)

Read4(data, off) ==
  IF off + 4 > Len(data)
    THEN [err |-> "ReadOverflow", off |-> off, val |-> <<>>]
    ELSE [err |-> Ok, off |-> off + 4, val |-> Slice(data, off, 4)]

ReadU32(data, off) ==
  LET r == Read4(data, off) IN
  IF r.err = Ok THEN [r EXCEPT !.val = U32(r.val)] ELSE r

ReadString(data, off) ==
  LET n == ReadU32(data, off)
      s == Slice(data, n.off, n.val)
  IN  CASE n.err # Ok -> n
        [] n.err = Ok /\ n.val > Len(data) - n.off -> [n EXCEPT !.err = "ReadOverflow"]
        [] OTHER ->
             [err |-> IF \E i \in 1..Len(s) : s[i] = 255 THEN "Utf8DecodeError" ELSE Ok,
              off |-> n.off + n.val, val |-> s]

ReadField(data, p, name, present, Read(_, _)) ==
  IF p.err # Ok \/ ~present THEN p ELSE
    LET r == Read(data, p.off) IN
    [err |-> r.err, off |-> r.off, msg |-> [p.msg EXCEPT ![name] = Given(r.val)]]

\* Fault: a payload that is not there yet is taken as far as it goes.
ReadPayloadUnchecked(data, p) ==
  LET n == ReadU32(data, p.off) IN
  CASE p.err # Ok -> p
    [] p.err = Ok /\ n.err # Ok -> [p EXCEPT !.err = n.err]
    [] OTHER -> [err |-> Ok, off |-> n.off + n.val,
                 msg |-> [p.msg EXCEPT !.payload = SubSeq(data, n.off + 1, Len(data))]]

\* Fault: >= for >.
ReadPayloadLate(data, p) ==
  LET n == ReadU32(data, p.off) IN
  CASE p.err # Ok -> p
    [] p.err = Ok /\ n.err # Ok -> [p EXCEPT !.err = n.err]
    [] p.err = Ok /\ n.err = Ok /\ n.val >= Len(data) - n.off ->
         [p EXCEPT !.err = "PayloadOverflow"]
    [] OTHER -> [err |-> Ok, off |-> n.off + n.val,
                 msg |-> [p.msg EXCEPT !.payload = Slice(data, n.off, n.val)]]

ReadPayload(data, p) ==
  LET n == ReadU32(data, p.off) IN
  CASE p.err # Ok -> p
    [] p.err = Ok /\ n.err # Ok -> [p EXCEPT !.err = n.err]
    [] p.err = Ok /\ n.err = Ok /\ n.val > Len(data) - n.off ->
         [p EXCEPT !.err = "PayloadOverflow"]
    [] OTHER -> [err |-> Ok, off |-> n.off + n.val,
                 msg |-> [p.msg EXCEPT !.payload = Slice(data, n.off, n.val)]]

\* Fault: the bits are taken as they are.
MsgTypeUnchecked(bits) == bits

MsgTypeFromBits(bits) == IF bits \in MsgType THEN bits ELSE 0

Header(data) ==
  [err |-> Ok, off |-> 4,
   msg |-> [Message(MsgTypeFromBits(data[2] \div 16)) EXCEPT !.type_flag = data[2] % 16]]

ReadEvent(data, p) ==
  ReadField(data, p, "event", ContainsEvent(p.msg.type_flag), ReadU32)
ReadSessionId(data, p) ==
  ReadField(data, p, "session_id", ShouldReadSessionId(p.msg), ReadString)
ReadConnectId(data, p) ==
  ReadField(data, p, "connect_id", ShouldReadConnectId(p.msg), ReadString)
ReadSequence(data, p) ==
  ReadField(data, p, "sequence", ContainsSequence(p.msg.type_flag), Read4)
ReadErrorCode(data, p) ==
  ReadField(data, p, "error_code", p.msg.msg_type = ErrorMsg, Read4)

Unmarshal(data) ==
  LET p1 == ReadEvent(data, Header(data))
      p2 == ReadSessionId(data, p1)
      p3 == ReadConnectId(data, p2)
      p4 == ReadSequence(data, p3)
      p5 == ReadErrorCode(data, p4)
  IN  IF Len(data) < 4 THEN [err |-> "InsufficientData", off |-> 0, msg |-> Message(0)]
                       ELSE ReadPayload(data, p5)
=============================================================================
