------------------------------ MODULE NetClient ------------------------------
(***************************************************************************)
(* NetClient (src/src/rtvoice/doubao/net_client.rs): one WebSocket         *)
(* connection.  Caller threads put commands in an unbounded mpsc channel;  *)
(* one worker thread (run_work) writes them to the socket, reads the       *)
(* socket with a 10 ms timeout, reassembles protocol messages in           *)
(* current_binary and hands each to the callback.                          *)
(*                                                                         *)
(* Channels keep their history: cmds[c] is everything ever put in the      *)
(* command channel and taken[c] how much try_recv has taken out of it.     *)
(* A byte of the server's stream is its position in that stream, so        *)
(* current_binary and the socket are sequences of positions; message k     *)
(* occupies positions MsgEnd[k-1]+1 .. MsgEnd[k].                          *)
(***************************************************************************)
EXTENDS Integers, Sequences, FiniteSets

CONSTANTS
  Client,      \* NetClient instances, one per connection ever opened
  Caller,      \* threads that send through a NetClient
  Cmd,         \* NetCommand::Bytes(_), by what the bytes say
  Disconnect,  \* NetCommand::Disconnect
  Msg,         \* protocol messages of the server
  MaxMsgs,     \* bound: messages the server sends on one connection
  MsgEnd,      \* MsgEnd[k]: position of the last byte of message k
  Malformed,   \* indices of messages whose session_id is not UTF-8
  MaxCmds,     \* bound: commands the callers of this module alone put in a channel
  BadAt,       \* BadAt[k]: position at which unmarshal can tell that k is malformed
  None         \* no pending send

ASSUME NetAssumption ==
  /\ Disconnect \notin Cmd
  /\ MaxMsgs \in Nat
  /\ MaxCmds \in Nat
  /\ MsgEnd \in [0..MaxMsgs -> Nat]
  /\ MsgEnd[0] = 0
  /\ \A j, k \in 0..MaxMsgs : j < k => MsgEnd[j] < MsgEnd[k]
  /\ Malformed \subseteq 1..MaxMsgs
  /\ BadAt \in [Malformed -> Nat]
  /\ \A k \in Malformed : MsgEnd[k - 1] < BadAt[k] /\ BadAt[k] <= MsgEnd[k]
  /\ None \notin [client : Client, cmd : Cmd \cup {Disconnect}]

VARIABLES
  connected,      \* the AtomicBool shared by the callers and the worker
  worker,         \* where run_work is
  cmds,           \* every command put in the command channel
  taken,          \* how many of them try_recv has returned
  written,        \* indices of the commands framer.write has written
  pending,        \* a caller between check_connected and the channel's send
  peer,           \* what the socket does once its data is read
  sent,           \* messages the server has put on the wire
  inbound,        \* bytes on the wire, not yet read
  current_binary, \* bytes read, not yet consumed
  processed,      \* processed_bytes of the parse loop
  delivered       \* message indices handed to the callback (0: garbage)

sendVars == <<cmds, pending>>
workVars == <<connected, worker, taken, written>>
readVars == <<inbound, current_binary, processed, delivered>>
peerVars == <<peer, sent>>
netVars == <<sendVars, workVars, readVars, peerVars>>

WorkerState == {"none", "loop", "drain", "read", "parse", "close", "done"}
PeerState == {"open", "closed", "reset", "invalid"}

NetTypeOK ==
  /\ connected \in [Client -> BOOLEAN]
  /\ worker \in [Client -> WorkerState]
  /\ cmds \in [Client -> Seq(Cmd \cup {Disconnect})]
  /\ taken \in [Client -> Nat]
  /\ written \in [Client -> Seq(Nat)]
  /\ pending \in [Caller -> [client : Client, cmd : Cmd \cup {Disconnect}] \cup {None}]
  /\ peer \in [Client -> PeerState]
  /\ sent \in [Client -> Seq(Msg)]
  /\ inbound \in [Client -> Seq(Nat)]
  /\ current_binary \in [Client -> Seq(Nat)]
  /\ processed \in [Client -> Nat]
  /\ delivered \in [Client -> Seq(Nat)]

NetInit ==
  /\ connected = [c \in Client |-> FALSE]
  /\ worker = [c \in Client |-> "none"]
  /\ cmds = [c \in Client |-> <<>>]
  /\ taken = [c \in Client |-> 0]
  /\ written = [c \in Client |-> <<>>]
  /\ pending = [t \in Caller |-> None]
  /\ peer = [c \in Client |-> "open"]
  /\ sent = [c \in Client |-> <<>>]
  /\ inbound = [c \in Client |-> <<>>]
  /\ current_binary = [c \in Client |-> <<>>]
  /\ processed = [c \in Client |-> 0]
  /\ delivered = [c \in Client |-> <<>>]

-----------------------------------------------------------------------------
(* Callers. *)

\* connect: the handshake succeeded; a channel, a flag and a worker exist.
\* (Any failure returns Err before anything is created.)
Connect(c) ==
  /\ worker[c] = "none"
  /\ connected' = [connected EXCEPT ![c] = TRUE]
  /\ worker' = [worker EXCEPT ![c] = "loop"]
  /\ UNCHANGED <<taken, written, sendVars, readVars, peerVars>>

\* The first half of send_protocol_message, send_audio_data,
\* send_chat_text_query and disconnect: the flag is read, the bytes are made.
SendCheck(t, c, cmd) ==
  /\ worker[c] # "none"
  /\ pending[t] = None
  /\ connected[c]
  /\ pending' = [pending EXCEPT ![t] = [client |-> c, cmd |-> cmd]]
  /\ UNCHANGED <<cmds, workVars, readVars, peerVars>>

\* The second half: the channel takes the command while its receiver lives ...
SendOk(t) ==
  /\ pending[t] # None
  /\ worker[pending[t].client] # "done"
  /\ cmds' = [cmds EXCEPT ![pending[t].client] = Append(@, pending[t].cmd)]
  /\ pending' = [pending EXCEPT ![t] = None]
  /\ UNCHANGED <<workVars, readVars, peerVars>>

\* ... and refuses it once run_work has returned.
SendErr(t) ==
  /\ pending[t] # None
  /\ worker[pending[t].client] = "done"
  /\ pending' = [pending EXCEPT ![t] = None]
  /\ UNCHANGED <<cmds, workVars, readVars, peerVars>>

-----------------------------------------------------------------------------
(* run_work: the writing half. *)

Goto(c, from, to) ==
  /\ worker[c] = from
  /\ worker' = [worker EXCEPT ![c] = to]

\* while connected.load(..)
Loop(c) ==
  /\ Goto(c, "loop", IF connected[c] THEN "drain" ELSE "close")
  /\ UNCHANGED <<connected, taken, written, sendVars, readVars, peerVars>>

HasCommand(c) == taken[c] < Len(cmds[c])
NextCommand(c) == cmds[c][taken[c] + 1]
TryRecv(c) == taken' = [taken EXCEPT ![c] = @ + 1]

\* Bytes(d), and framer.write succeeds: stay in the inner loop.
WriteOk(c) ==
  /\ worker[c] = "drain"
  /\ HasCommand(c)
  /\ NextCommand(c) # Disconnect
  /\ TryRecv(c)
  /\ written' = [written EXCEPT ![c] = Append(@, taken[c] + 1)]
  /\ UNCHANGED <<connected, worker, sendVars, readVars, peerVars>>

\* Fault: the break after a failed write is missing.
WriteErrStays(c) ==
  /\ HasCommand(c)
  /\ NextCommand(c) # Disconnect
  /\ Goto(c, "drain", "drain")
  /\ TryRecv(c)
  /\ connected' = [connected EXCEPT ![c] = FALSE]
  /\ UNCHANGED <<written, sendVars, readVars, peerVars>>

\* Bytes(d), and framer.write fails, the peer being gone or the command too long
\* for write_buf: clear the flag and leave the inner loop only; one more read
\* follows.
WriteErr(c) ==
  /\ HasCommand(c)
  /\ NextCommand(c) # Disconnect
  /\ Goto(c, "drain", "read")
  /\ TryRecv(c)
  /\ connected' = [connected EXCEPT ![c] = FALSE]
  /\ UNCHANGED <<written, sendVars, readVars, peerVars>>

\* Fault: the break leaves the outer loop and the flag is not cleared.
TakeDisconnectQuits(c) ==
  /\ HasCommand(c)
  /\ NextCommand(c) = Disconnect
  /\ Goto(c, "drain", "close")
  /\ TryRecv(c)
  /\ UNCHANGED <<connected, written, sendVars, readVars, peerVars>>

\* Disconnect: the break leaves the inner loop and nothing else happens.
TakeDisconnect(c) ==
  /\ HasCommand(c)
  /\ NextCommand(c) = Disconnect
  /\ Goto(c, "drain", "read")
  /\ TryRecv(c)
  /\ UNCHANGED <<connected, written, sendVars, readVars, peerVars>>

\* try_recv finds the channel empty (or without senders).
Drained(c) ==
  /\ ~HasCommand(c)
  /\ Goto(c, "drain", "read")
  /\ UNCHANGED <<connected, taken, written, sendVars, readVars, peerVars>>

-----------------------------------------------------------------------------
(* run_work: the reading half. *)

\* ReadResult::Binary: the frame ends anywhere in the server's byte stream.
ReadBinary(c) ==
  /\ Goto(c, "read", "parse")
  /\ \E n \in 1..Len(inbound[c]) :
       /\ current_binary' = [current_binary EXCEPT ![c] = @ \o SubSeq(inbound[c], 1, n)]
       /\ inbound' = [inbound EXCEPT ![c] = SubSeq(@, n + 1, Len(@))]
  /\ processed' = [processed EXCEPT ![c] = 0]
  /\ UNCHANGED <<connected, taken, written, delivered, sendVars, peerVars>>

\* The read timed out, or failed with FramerError::Io and is taken for a
\* timeout, or returned Text or Pong: back to the loop.
ReadNothing(c) ==
  /\ peer[c] \in {"open", "reset"}
  /\ Goto(c, "read", "loop")
  /\ UNCHANGED <<connected, taken, written, sendVars, readVars, peerVars>>

\* Fault: a closed socket is taken for a timeout.
ReadClosedIgnored(c) ==
  /\ inbound[c] = <<>>
  /\ peer[c] # "open"
  /\ Goto(c, "read", "loop")
  /\ UNCHANGED <<connected, taken, written, sendVars, readVars, peerVars>>

\* Fault: the worker ends and the flag stays up.
ReadClosedFlagUp(c) ==
  /\ inbound[c] = <<>>
  /\ peer[c] # "open"
  /\ Goto(c, "read", "close")
  /\ UNCHANGED <<connected, taken, written, sendVars, readVars, peerVars>>

\* ReadResult::Closed (a Close frame or end of file), or a FramerError that is
\* not Io: clear the flag and leave the outer loop.
ReadClosed(c) ==
  /\ inbound[c] = <<>>
  /\ peer[c] # "open"
  /\ Goto(c, "read", "close")
  /\ connected' = [connected EXCEPT ![c] = FALSE]
  /\ UNCHANGED <<taken, written, sendVars, readVars, peerVars>>

\* framer.close, then run_work returns and drops the callback and the receiver.
Close(c) ==
  /\ Goto(c, "close", "done")
  /\ UNCHANGED <<connected, taken, written, sendVars, readVars, peerVars>>

-----------------------------------------------------------------------------
(* run_work: the parse loop over current_binary, and protocol::unmarshal. *)

Remaining(c) == SubSeq(current_binary[c], processed[c] + 1, Len(current_binary[c]))
Size(k) == MsgEnd[k] - MsgEnd[k - 1]

\* The remaining bytes begin with message k / with no message at all: the
\* header of another message was thrown away.
StartsWith(rest, k) == rest # <<>> /\ rest[1] = MsgEnd[k - 1] + 1
Garbage(rest) == rest # <<>> /\ \A k \in 1..MaxMsgs : ~StartsWith(rest, k)

\* unmarshal(rest) = Ok(message k, Size(k))
Complete(rest, k) == StartsWith(rest, k) /\ k \notin Malformed /\ Size(k) <= Len(rest)
\* unmarshal(rest) = Err(Utf8DecodeError)
NotUtf8(rest, k) ==
  StartsWith(rest, k) /\ k \in Malformed /\ BadAt[k] - MsgEnd[k - 1] <= Len(rest)
\* unmarshal(rest) = Err(InsufficientData | PayloadOverflow | ReadOverflow)
Incomplete(rest, k) == StartsWith(rest, k) /\ ~Complete(rest, k) /\ ~NotUtf8(rest, k)

\* Fault: the processed bytes stay in the buffer.
DrainBufferForgotten(c, n) ==
  /\ Goto(c, "parse", "loop")
  /\ processed' = [processed EXCEPT ![c] = 0]
  /\ UNCHANGED <<connected, taken, written, inbound, current_binary, delivered,
                 sendVars, peerVars>>

\* current_binary.drain(0..processed_bytes), then the next turn of the loop.
DrainBuffer(c, n) ==
  /\ Goto(c, "parse", "loop")
  /\ current_binary' = [current_binary EXCEPT ![c] = SubSeq(@, n + 1, Len(@))]
  /\ processed' = [processed EXCEPT ![c] = 0]
  /\ UNCHANGED <<connected, taken, written, inbound, delivered, sendVars, peerVars>>

\* Ok((msg, bytes_consumed)): advance and call the callback.  Bytes that are
\* not a message can still parse as one of any length that is there.
Deliver(c, k, n) ==
  /\ worker[c] = "parse"
  /\ processed' = [processed EXCEPT ![c] = @ + n]
  /\ delivered' = [delivered EXCEPT ![c] = Append(@, k)]
  /\ UNCHANGED <<inbound, current_binary, workVars, sendVars, peerVars>>

ParseMessage(c) ==
  \E k \in 1..MaxMsgs : Complete(Remaining(c), k) /\ Deliver(c, k, Size(k))

ParseGarbage(c) ==
  /\ Garbage(Remaining(c))
  /\ \E n \in 1..Len(Remaining(c)) : Deliver(c, 0, n)

\* Fault: the beginning of a message that is not complete is thrown away.
ParsePauseClears(c) ==
  /\ \/ Remaining(c) = <<>>
     \/ \E k \in 1..MaxMsgs : Incomplete(Remaining(c), k)
     \/ Garbage(Remaining(c))
  /\ DrainBuffer(c, Len(current_binary[c]))

\* Nothing remains, or more bytes are needed: keep what is there.
ParsePause(c) ==
  /\ \/ Remaining(c) = <<>>
     \/ \E k \in 1..MaxMsgs : Incomplete(Remaining(c), k)
     \/ Garbage(Remaining(c))
  /\ DrainBuffer(c, processed[c])

\* Any other error: processed_bytes = current_binary.len().
ParseError(c) ==
  /\ \/ \E k \in 1..MaxMsgs : NotUtf8(Remaining(c), k)
     \/ Garbage(Remaining(c))
  /\ DrainBuffer(c, Len(current_binary[c]))

-----------------------------------------------------------------------------
(* The peer and the network. *)

ServerSend(c, m) ==
  /\ worker[c] # "none"
  /\ peer[c] = "open"
  /\ Len(sent[c]) < MaxMsgs
  /\ sent' = [sent EXCEPT ![c] = Append(@, m)]
  /\ inbound' = [inbound EXCEPT ![c] =
       @ \o [i \in 1..Size(Len(sent[c]) + 1) |-> MsgEnd[Len(sent[c])] + i]]
  /\ UNCHANGED <<current_binary, processed, delivered, peer, sendVars, workVars>>

\* The peer closes (what it sent can still be read), or sends a frame the
\* WebSocket layer rejects, or the connection is reset and what was not yet
\* read is lost, or only a tail of it.
PeerFault(c) ==
  /\ worker[c] # "none"
  /\ peer[c] = "open"
  /\ \E p \in PeerState \ {"open"}, n \in 0..Len(inbound[c]) :
       /\ p # "reset" => n = Len(inbound[c])
       /\ peer' = [peer EXCEPT ![c] = p]
       /\ inbound' = [inbound EXCEPT ![c] = SubSeq(@, 1, n)]
  /\ UNCHANGED <<sent, current_binary, processed, delivered, sendVars, workVars>>

-----------------------------------------------------------------------------
Work(c) ==
  \/ Loop(c)
  \/ WriteOk(c)
  \/ WriteErr(c)
  \/ TakeDisconnect(c)
  \/ Drained(c)
  \/ ReadBinary(c)
  \/ ReadNothing(c)
  \/ ReadClosed(c)
  \/ Close(c)
  \/ ParseMessage(c)
  \/ ParseGarbage(c)
  \/ ParsePause(c)
  \/ ParseError(c)

-----------------------------------------------------------------------------
(* A client on its own: callers that send any command at any time.         *)

\* One more command of t on c stays within MaxCmds.
MayCall(t, c) ==
  LET racing == {u \in Caller : pending[u] # None /\ pending[u].client = c}
  IN  Len(cmds[c]) + Cardinality(racing) < MaxCmds

NetNext ==
  \/ \E c \in Client : Connect(c) \/ Work(c) \/ PeerFault(c)
  \/ \E c \in Client, m \in Msg : ServerSend(c, m)
  \/ \E t \in Caller, c \in Client, cmd \in Cmd \cup {Disconnect} :
       MayCall(t, c) /\ SendCheck(t, c, cmd)
  \/ \E t \in Caller : SendOk(t) \/ SendErr(t)

NetSpec == NetInit /\ [][NetNext]_netVars

\* The scheduler runs every thread that can run; a socket that holds data is
\* not timed out on forever.  Nothing obliges the peer, or a caller to call.
NetFairness ==
  /\ \A c \in Client : WF_netVars(Work(c)) /\ SF_netVars(ReadBinary(c))
  /\ \A t \in Caller : WF_netVars(SendOk(t) \/ SendErr(t))

NetFairSpec == NetSpec /\ NetFairness

-----------------------------------------------------------------------------
(* Properties. *)

\* The callback gets the server's messages in the order they were sent, each
\* once and none skipped, however frames cut and join them (run_work's parse
\* loop over current_binary), up to the first message unmarshal rejects.
InOrderDelivery ==
  \A c \in Client : \A i \in 1..Len(delivered[c]) :
    (\A j \in 1..i : j \notin Malformed) =>
       delivered[c][i] = i /\ i <= Len(sent[c])

\* Commands reach the socket in channel order, none twice; one that try_recv
\* took and framer.write did not write is the last one taken, and the
\* connection is marked lost (the drain loop of run_work).
WrittenFaithfully ==
  \A c \in Client :
    /\ \A i, j \in 1..Len(written[c]) : i < j => written[c][i] < written[c][j]
    /\ \A i \in 1..taken[c] :
         \/ cmds[c][i] = Disconnect
         \/ \E j \in 1..Len(written[c]) : written[c][j] = i
         \/ i = taken[c] /\ ~connected[c]

\* is_connected is never true of a client whose worker will not write again
\* (the stores of run_work before each way out of the outer loop).
FlagFollowsWorker ==
  \A c \in Client : worker[c] \in {"close", "done"} => ~connected[c]

WriteFailed(c) ==
  \E i \in 1..taken[c] :
    /\ cmds[c][i] # Disconnect
    /\ \A j \in 1..Len(written[c]) : written[c][j] # i

\* A message the server has sent reaches the callback, also when the peer
\* closes right after it, unless the connection is reset or a write fails
\* (every message being well formed).
MessageDelivered ==
  \A c \in Client, k \in 1..MaxMsgs :
    Len(sent[c]) >= k ~>
      Len(delivered[c]) >= k \/ peer[c] = "reset" \/ WriteFailed(c)

\* A command the channel accepted is written, or was a Disconnect, unless the
\* connection is lost first.
CommandWritten ==
  \A c \in Client, i \in 1..MaxCmds :
    Len(cmds[c]) >= i ~>
      \/ ~connected[c]
      \/ i <= Len(cmds[c]) /\ cmds[c][i] = Disconnect
      \/ \E j \in 1..Len(written[c]) : written[c][j] = i

\* When the peer closes, or breaks the WebSocket protocol, or a write fails,
\* the worker ends.
LossEndsWorker ==
  \A c \in Client :
    \/ peer[c] \in {"closed", "invalid"}
    \/ worker[c] # "none" /\ ~connected[c]
    ~> worker[c] = "done"

-----------------------------------------------------------------------------
(* The invariant behind the safety properties (NetClientProofs). *)

\* As long as the parse loop knows where messages begin, what it has not
\* consumed, in the buffer and then on the wire, is the stream's next bytes,
\* from the end of the last message delivered.
Base(c) == MsgEnd[Len(delivered[c])] - processed[c]

InSync(c) ==
  /\ Len(delivered[c]) <= Len(sent[c])
  /\ \A i \in 1..Len(delivered[c]) : delivered[c][i] = i
  /\ \A i \in 1..Len(current_binary[c]) : current_binary[c][i] = Base(c) + i
  /\ \A i \in 1..Len(inbound[c]) :
       inbound[c][i] = Base(c) + Len(current_binary[c]) + i
  /\ Base(c) + Len(current_binary[c]) + Len(inbound[c]) <= MsgEnd[Len(sent[c])]
  /\ peer[c] = "open" =>
       Base(c) + Len(current_binary[c]) + Len(inbound[c]) = MsgEnd[Len(sent[c])]

\* It loses them only at a malformed message, all before it being delivered.
LostSync(c) ==
  \E m \in Malformed :
    /\ m <= Len(sent[c])
    /\ m - 1 <= Len(delivered[c])
    /\ \A i \in 1..(m - 1) : delivered[c][i] = i

Framed(c) ==
  /\ processed[c] <= Len(current_binary[c])
  /\ worker[c] # "parse" => processed[c] = 0
  /\ Len(sent[c]) <= MaxMsgs
  /\ InSync(c) \/ LostSync(c)

FramingInv == \A c \in Client : Framed(c)

\* The drain loop runs only while the flag is up.
WritingInv ==
  \A c \in Client :
    /\ taken[c] <= Len(cmds[c])
    /\ worker[c] = "drain" => connected[c]
    /\ worker[c] = "none" => ~connected[c] /\ taken[c] = 0
    /\ \A i \in 1..Len(written[c]) : written[c][i] \in 1..taken[c]

NetInv ==
  NetTypeOK /\ FramingInv /\ WritingInv /\ WrittenFaithfully /\ FlagFollowsWorker

-----------------------------------------------------------------------------
(* Refinement of what NetClient promises. *)

Phase(w) == IF w \in {"none", "done"} THEN w ELSE "up"

Link == INSTANCE NetLink WITH phase <- [c \in Client |-> Phase(worker[c])]

\* A NetClient whose messages are well formed is two ordered pipes that only
\* the loss of the connection cuts short.
ImplementsLink == Link!LinkSpec
=============================================================================
