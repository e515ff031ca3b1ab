------------------------------- MODULE NetLink -------------------------------
(***************************************************************************)
(* What NetClient (src/src/rtvoice/doubao/net_client.rs) promises the      *)
(* threads that use it: two ordered pipes per connection, commands to the  *)
(* socket and messages to the callback, which the loss of the connection   *)
(* can cut short.  No frames, buffers or read timeouts; NetClient is shown *)
(* to implement it, and RtService is built on it.                          *)
(***************************************************************************)
EXTENDS Integers, Sequences

CONSTANTS
  Client,      \* NetClient instances, one per connection ever opened
  Caller,      \* threads that send through a NetClient
  Cmd,         \* NetCommand::Bytes(_), by what the bytes say
  Disconnect,  \* NetCommand::Disconnect
  Msg,         \* protocol messages of the server
  MaxMsgs,     \* bound: messages the server sends on one connection
  None         \* no pending send

VARIABLES
  connected,      \* what is_connected says
  phase,          \* the worker: not yet spawned, running, returned
  cmds,           \* every command the channel accepted
  pending,        \* a caller between check_connected and the channel's send
  taken,          \* how many commands the worker has taken
  written,        \* indices of the commands on the wire
  sent,           \* messages of the server
  delivered       \* indices of the messages handed to the callback

linkVars == <<connected, phase, cmds, pending, taken, written, sent, delivered>>

LinkTypeOK ==
  /\ connected \in [Client -> BOOLEAN]
  /\ phase \in [Client -> {"none", "up", "done"}]
  /\ cmds \in [Client -> Seq(Cmd \cup {Disconnect})]
  /\ pending \in [Caller -> [client : Client, cmd : Cmd \cup {Disconnect}] \cup {None}]
  /\ taken \in [Client -> Nat]
  /\ written \in [Client -> Seq(Nat)]
  /\ sent \in [Client -> Seq(Msg)]
  /\ delivered \in [Client -> Seq(Nat)]

LinkInit ==
  /\ connected = [c \in Client |-> FALSE]
  /\ phase = [c \in Client |-> "none"]
  /\ cmds = [c \in Client |-> <<>>]
  /\ pending = [t \in Caller |-> None]
  /\ taken = [c \in Client |-> 0]
  /\ written = [c \in Client |-> <<>>]
  /\ sent = [c \in Client |-> <<>>]
  /\ delivered = [c \in Client |-> <<>>]

-----------------------------------------------------------------------------
\* connect returns Ok.
Connect(c) ==
  /\ phase[c] = "none"
  /\ phase' = [phase EXCEPT ![c] = "up"]
  /\ connected' = [connected EXCEPT ![c] = TRUE]
  /\ UNCHANGED <<cmds, pending, taken, written, sent, delivered>>

\* A send is a check of the flag and, later, the channel's send.
SendCheck(t, c, cmd) ==
  /\ pending[t] = None
  /\ connected[c]
  /\ pending' = [pending EXCEPT ![t] = [client |-> c, cmd |-> cmd]]
  /\ UNCHANGED <<connected, phase, cmds, taken, written, sent, delivered>>

SendOk(t) ==
  /\ pending[t] # None
  /\ phase[pending[t].client] # "done"
  /\ cmds' = [cmds EXCEPT ![pending[t].client] = Append(@, pending[t].cmd)]
  /\ pending' = [pending EXCEPT ![t] = None]
  /\ UNCHANGED <<connected, phase, taken, written, sent, delivered>>

SendErr(t) ==
  /\ pending[t] # None
  /\ phase[pending[t].client] = "done"
  /\ pending' = [pending EXCEPT ![t] = None]
  /\ UNCHANGED <<connected, phase, cmds, taken, written, sent, delivered>>

\* The worker takes the next command: writes it, or throws a Disconnect away ...
Take(c) ==
  /\ phase[c] = "up"
  /\ connected[c]
  /\ taken[c] < Len(cmds[c])
  /\ taken' = [taken EXCEPT ![c] = @ + 1]
  /\ written' = [written EXCEPT ![c] =
       IF cmds[c][taken[c] + 1] = Disconnect THEN @ ELSE Append(@, taken[c] + 1)]
  /\ UNCHANGED <<connected, phase, cmds, pending, sent, delivered>>

\* ... or loses it, and with it the connection, which is also lost by reading.
Fail(c) ==
  /\ phase[c] = "up"
  /\ connected[c]
  /\ connected' = [connected EXCEPT ![c] = FALSE]
  /\ \/ /\ taken[c] < Len(cmds[c])
        /\ cmds[c][taken[c] + 1] # Disconnect
        /\ taken' = [taken EXCEPT ![c] = @ + 1]
     \/ UNCHANGED taken
  /\ UNCHANGED <<phase, cmds, pending, written, sent, delivered>>

\* The callback gets the next message, possibly one more time after Fail.
Receive(c) ==
  /\ phase[c] = "up"
  /\ Len(delivered[c]) < Len(sent[c])
  /\ delivered' = [delivered EXCEPT ![c] = Append(@, Len(@) + 1)]
  /\ UNCHANGED <<connected, phase, cmds, pending, taken, written, sent>>

\* The worker returns.
End(c) ==
  /\ phase[c] = "up"
  /\ ~connected[c]
  /\ phase' = [phase EXCEPT ![c] = "done"]
  /\ UNCHANGED <<connected, cmds, pending, taken, written, sent, delivered>>

ServerSend(c, m) ==
  /\ phase[c] # "none"
  /\ Len(sent[c]) < MaxMsgs
  /\ sent' = [sent EXCEPT ![c] = Append(@, m)]
  /\ UNCHANGED <<connected, phase, cmds, pending, taken, written, delivered>>

-----------------------------------------------------------------------------
LinkNext ==
  \/ \E c \in Client : Connect(c) \/ Take(c) \/ Fail(c) \/ Receive(c) \/ End(c)
  \/ \E c \in Client, m \in Msg : ServerSend(c, m)
  \/ \E t \in Caller, c \in Client, cmd \in Cmd \cup {Disconnect} : SendCheck(t, c, cmd)
  \/ \E t \in Caller : SendOk(t) \/ SendErr(t)

LinkSpec == LinkInit /\ [][LinkNext]_linkVars
=============================================================================
