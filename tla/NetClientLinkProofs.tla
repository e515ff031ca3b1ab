------------------------- MODULE NetClientLinkProofs --------------------------
(***************************************************************************)
(* NetClient implements NetLink when every message is well formed: frames, *)
(* buffers, the parse loop and the places of run_work disappear behind two *)
(* ordered pipes.  Each step of a caller, of the worker, of the peer or of *)
(* the network is one step of NetLink or none, by the invariant NetInv of  *)
(* NetClientProofs.  RtServiceProofs shows that RtService stays within     *)
(* NetLink; the two meet there.                                            *)
(***************************************************************************)
EXTENDS NetClient, NetClientProofs

LinkStep == [Link!LinkNext]_(Link!linkVars)

\* A step that NetLink does not see: only frames, buffers, the peer, or the
\* worker's place within its loop change.
LEMMA Unseen ==
  ASSUME UNCHANGED <<connected, cmds, pending, taken, written, sent, delivered>>,
         \A d \in Client : Phase(worker'[d]) = Phase(worker[d])
  PROVE  LinkStep
  BY Zenon DEF LinkStep, Link!linkVars

\* Where the worker of c is taken to, as NetLink sees it.
LEMMA PhaseMoves ==
  ASSUME NetTypeOK, NEW c \in Client, NEW from, NEW to \in WorkerState, Goto(c, from, to)
  PROVE  /\ worker[c] = from
         /\ \A d \in Client : worker'[d] = IF d = c THEN to ELSE worker[d]
         /\ Phase(from) = Phase(to) =>
              \A d \in Client : Phase(worker'[d]) = Phase(worker[d])
         /\ [d \in Client |-> Phase(worker'[d])] =
              [[d \in Client |-> Phase(worker[d])] EXCEPT ![c] = Phase(to)]
  <1>1. worker[c] = from /\ worker' = [worker EXCEPT ![c] = to]
    BY DEF Goto
  <1>2. \A d \in Client : worker'[d] = IF d = c THEN to ELSE worker[d]
    BY <1>1 DEF NetTypeOK
  <1>3. \A d \in Client :
          Phase(worker'[d]) =
            [[e \in Client |-> Phase(worker[e])] EXCEPT ![c] = Phase(to)][d]
    BY <1>2
  <1>4. [d \in Client |-> Phase(worker'[d])] =
          [[d \in Client |-> Phase(worker[d])] EXCEPT ![c] = Phase(to)]
    BY <1>3
  <1>5. QED
    BY <1>1, <1>2, <1>4

\* In sync, what the parse loop delivers is NetLink's next message.
LEMMA NextDelivered ==
  ASSUME NetInv, Malformed = {}, NEW c \in Client
  PROVE  /\ ParseMessage(c) =>
              /\ delivered' = [delivered EXCEPT ![c] = Append(@, Len(@) + 1)]
              /\ Len(delivered[c]) < Len(sent[c])
         /\ ~ParseGarbage(c)
  <1>1. NetTypeOK /\ Framed(c) /\ InSync(c)
    BY DEF NetInv, FramingInv, Framed, LostSync
  <1>2. Len(delivered[c]) \in Nat /\ Len(sent[c]) \in Nat
    BY <1>1 DEF NetTypeOK
  <1>3. ASSUME Remaining(c) # <<>>
        PROVE  /\ Len(delivered[c]) + 1 \in 1..MaxMsgs
               /\ Len(delivered[c]) + 1 <= Len(sent[c])
               /\ \A k \in 1..MaxMsgs :
                    StartsWith(Remaining(c), k) <=> k = Len(delivered[c]) + 1
    BY <1>1, <1>3, AtNextMessage
  <1>4. ASSUME ParseMessage(c)
        PROVE  /\ delivered' = [delivered EXCEPT ![c] = Append(@, Len(@) + 1)]
               /\ Len(delivered[c]) < Len(sent[c])
    <2>1. PICK k \in 1..MaxMsgs : StartsWith(Remaining(c), k) /\ Deliver(c, k, Size(k))
      BY <1>4 DEF ParseMessage, Complete
    <2>2. Remaining(c) # <<>>
      BY <2>1 DEF StartsWith
    <2>3. k = Len(delivered[c]) + 1 /\ k <= Len(sent[c])
      BY <1>3, <2>1, <2>2
    <2>4. QED
      BY <1>2, <2>1, <2>3 DEF Deliver
  <1>5. ~ParseGarbage(c)
    BY <1>3 DEF ParseGarbage, Garbage
  <1>6. QED
    BY <1>4, <1>5

-----------------------------------------------------------------------------
(* Callers and the peer. *)

\* A connection made is one of NetLink.
LEMMA ConnectLinks ==
  ASSUME NetInv, NEW c \in Client, Connect(c)
  PROVE  Link!Connect(c)
  <1>1. Goto(c, "none", "loop")
    BY DEF Connect, Goto
  <1>2. [d \in Client |-> Phase(worker'[d])] =
          [[d \in Client |-> Phase(worker[d])] EXCEPT ![c] = "up"]
    BY <1>1, PhaseMoves DEF NetInv, WorkerState, Phase
  <1>3. Phase(worker[c]) = "none"
    BY <1>1 DEF Goto, Phase
  <1>4. QED
    BY <1>2, <1>3 DEF Connect, Link!Connect, sendVars, readVars, peerVars

\* Callers do in NetLink what they do in NetClient.
LEMMA CallersLink ==
  ASSUME NetInv, NEW t \in Caller
  PROVE  /\ \A c \in Client, cmd \in Cmd \cup {Disconnect} :
              SendCheck(t, c, cmd) => Link!SendCheck(t, c, cmd)
         /\ SendOk(t) => Link!SendOk(t)
         /\ SendErr(t) => Link!SendErr(t)
  <1>1. ASSUME NEW c \in Client, NEW cmd \in Cmd \cup {Disconnect}, SendCheck(t, c, cmd)
        PROVE  Link!SendCheck(t, c, cmd)
    BY <1>1 DEF SendCheck, Link!SendCheck, workVars, readVars, peerVars
  <1>2. pending[t] # None => pending[t].client \in Client
    BY DEF NetInv, NetTypeOK
  <1>3. ASSUME pending[t] # None
        PROVE  Phase(worker[pending[t].client]) = "done" <=> worker[pending[t].client] = "done"
    BY DEF Phase
  <1>4. SendOk(t) => Link!SendOk(t)
    BY <1>2, <1>3 DEF SendOk, Link!SendOk, workVars, readVars, peerVars
  <1>5. SendErr(t) => Link!SendErr(t)
    BY <1>2, <1>3 DEF SendErr, Link!SendErr, workVars, readVars, peerVars
  <1>6. QED
    BY <1>1, <1>4, <1>5

\* A message the peer sends is sent in NetLink; of its faults NetLink sees
\* nothing.
LEMMA PeerLinks ==
  ASSUME NetInv, NEW c \in Client
  PROVE  /\ \A m \in Msg : ServerSend(c, m) => Link!ServerSend(c, m)
         /\ PeerFault(c) => LinkStep
  <1>1. worker[c] # "none" => Phase(worker[c]) # "none"
    BY DEF Phase
  <1>2. ASSUME NEW m \in Msg, ServerSend(c, m)
        PROVE  Link!ServerSend(c, m)
    BY <1>1, <1>2 DEF ServerSend, Link!ServerSend, sendVars, workVars
  <1>3. PeerFault(c) => LinkStep
    BY Unseen DEF PeerFault, sendVars, workVars
  <1>4. QED
    BY <1>2, <1>3

-----------------------------------------------------------------------------
(* The worker. *)

\* The inner loop: a command is written or thrown away, or lost for good.
LEMMA DrainLinks ==
  ASSUME NetInv, NEW c \in Client
  PROVE  /\ WriteOk(c) => Link!Take(c)
         /\ WriteErr(c) => Link!Fail(c)
         /\ TakeDisconnect(c) => Link!Take(c)
  <1>1. NetTypeOK /\ (worker[c] = "drain" => connected[c])
    BY DEF NetInv, WritingInv
  <1>2. worker[c] = "drain" => Phase(worker[c]) = "up"
    BY DEF Phase
  <1>3. WriteOk(c) => Link!Take(c)
    BY <1>1, <1>2 DEF WriteOk, HasCommand, NextCommand, TryRecv, Link!Take, sendVars,
       readVars, peerVars
  <1>4. ASSUME Goto(c, "drain", "read")
        PROVE  /\ worker[c] = "drain"
               /\ [d \in Client |-> Phase(worker'[d])] = [d \in Client |-> Phase(worker[d])]
    <2>1. \A d \in Client : Phase(worker'[d]) = Phase(worker[d])
      BY <1>1, <1>4, PhaseMoves DEF Phase, WorkerState
    <2>2. QED
      BY <1>4, <2>1 DEF Goto
  <1>5. WriteErr(c) => Link!Fail(c)
    BY <1>1, <1>2, <1>4 DEF WriteErr, HasCommand, NextCommand, TryRecv, Link!Fail, sendVars,
       readVars, peerVars
  <1>6. TakeDisconnect(c) => Link!Take(c)
    <2>1. SUFFICES ASSUME TakeDisconnect(c) PROVE Link!Take(c)
      OBVIOUS
    <2>2. written' = [written EXCEPT ![c] = @]
      BY <1>1, <2>1 DEF TakeDisconnect, NetTypeOK
    <2>3. QED
      BY <1>1, <1>2, <1>4, <2>1, <2>2 DEF TakeDisconnect, HasCommand, NextCommand, TryRecv,
         Link!Take, sendVars, readVars, peerVars
  <1>7. QED
    BY <1>3, <1>5, <1>6

\* The outer loop's own steps, reading and the parse loop's end.
LEMMA LoopUnseen ==
  ASSUME NetInv, NEW c \in Client,
         Loop(c) \/ Drained(c) \/ ReadBinary(c) \/ ReadNothing(c)
           \/ ParsePause(c) \/ ParseError(c)
  PROVE  LinkStep
  <1>1. PICK from \in WorkerState \ {"none", "done"}, to \in WorkerState \ {"none", "done"} :
          Goto(c, from, to)
    BY DEF Loop, Drained, ReadBinary, ReadNothing, ParsePause, ParseError, DrainBuffer,
       WorkerState
  <1>2. Phase(from) = Phase(to)
    BY DEF Phase
  <1>3. \A d \in Client : Phase(worker'[d]) = Phase(worker[d])
    BY <1>1, <1>2, PhaseMoves DEF NetInv
  <1>4. UNCHANGED <<connected, cmds, pending, taken, written, sent, delivered>>
    BY DEF Loop, Drained, ReadBinary, ReadNothing, ParsePause, ParseError, DrainBuffer,
       sendVars, readVars, peerVars
  <1>5. QED
    BY <1>3, <1>4, Unseen

\* The end of the socket: found out while reading, or known since a write failed.
LEMMA ClosedLinks ==
  ASSUME NetInv, NEW c \in Client, ReadClosed(c)
  PROVE  LinkStep
  <1>1. NetTypeOK
    BY DEF NetInv
  <1>2. Goto(c, "read", "close")
    BY DEF ReadClosed
  <1>3. \A d \in Client : Phase(worker'[d]) = Phase(worker[d])
    BY <1>1, <1>2, PhaseMoves DEF Phase, WorkerState
  <1>4. CASE connected[c]
    <2>1. Phase(worker[c]) = "up"
      BY <1>2 DEF Goto, Phase
    <2>2. Link!Fail(c)
      BY <1>3, <1>4, <2>1 DEF ReadClosed, Link!Fail, sendVars, readVars, peerVars
    <2>3. QED
      BY <2>2 DEF LinkStep, Link!LinkNext
  <1>5. CASE ~connected[c]
    <2>1. connected' = connected
      BY <1>1, <1>5 DEF ReadClosed, NetTypeOK
    <2>2. QED
      BY <1>3, <2>1, Unseen DEF ReadClosed, sendVars, readVars, peerVars
  <1>6. QED
    BY <1>4, <1>5

\* The worker's close is the end of the connection.
LEMMA CloseLinks ==
  ASSUME NetInv, NEW c \in Client, Close(c)
  PROVE  Link!End(c)
  <1>1. NetTypeOK /\ Goto(c, "close", "done")
    BY DEF NetInv, Close
  <1>2. [d \in Client |-> Phase(worker'[d])] =
          [[d \in Client |-> Phase(worker[d])] EXCEPT ![c] = "done"]
    BY <1>1, PhaseMoves DEF WorkerState, Phase
  <1>3. Phase(worker[c]) = "up" /\ ~connected[c]
    BY <1>1 DEF Goto, Phase, NetInv, FlagFollowsWorker
  <1>4. QED
    BY <1>2, <1>3 DEF Close, Link!End, sendVars, readVars, peerVars

\* A message parsed is the next one NetLink receives, by InSync.
LEMMA ParseLinks ==
  ASSUME NetInv, Malformed = {}, NEW c \in Client, ParseMessage(c)
  PROVE  Link!Receive(c)
  <1>1. worker[c] = "parse" /\ UNCHANGED <<connected, worker, cmds, pending, taken, written, sent>>
    BY DEF ParseMessage, Deliver, workVars, sendVars, peerVars
  <1>2. Phase(worker[c]) = "up"
    BY <1>1 DEF Phase
  <1>3. QED
    BY <1>1, <1>2, NextDelivered DEF Link!Receive

\* Every step of the worker is one of NetLink, or none.
LEMMA WorkLinks ==
  ASSUME NetInv, Malformed = {}, NEW c \in Client, Work(c)
  PROVE  LinkStep
  <1>1. CASE Link!Take(c) \/ Link!Fail(c) \/ Link!Receive(c) \/ Link!End(c)
    BY <1>1 DEF LinkStep, Link!LinkNext
  <1>2. CASE Loop(c) \/ Drained(c) \/ ReadBinary(c) \/ ReadNothing(c)
               \/ ParsePause(c) \/ ParseError(c)
    BY <1>2, LoopUnseen
  <1>3. CASE ReadClosed(c)
    BY <1>3, ClosedLinks
  <1>4. CASE WriteOk(c) \/ WriteErr(c) \/ TakeDisconnect(c)
    BY <1>1, <1>4, DrainLinks
  <1>5. CASE Close(c)
    BY <1>1, <1>5, CloseLinks
  <1>6. CASE ParseMessage(c)
    BY <1>1, <1>6, ParseLinks
  <1>7. ~ParseGarbage(c)
    BY NextDelivered
  <1>8. QED
    BY <1>2, <1>3, <1>4, <1>5, <1>6, <1>7 DEF Work

-----------------------------------------------------------------------------
(* The refinement. *)

\* Initial states map to initial states.
LEMMA LinkInitially == NetInit => Link!LinkInit
  <1>1. SUFFICES ASSUME NetInit PROVE Link!LinkInit
    OBVIOUS
  <1>2. \A c \in Client : Phase(worker[c]) = "none"
    BY <1>1 DEF NetInit, Phase
  <1>3. QED
    BY <1>1, <1>2 DEF NetInit, Link!LinkInit

\* Every step maps to a step or a stutter.
LEMMA LinkSteps == Malformed = {} /\ NetInv /\ [NetNext]_netVars => LinkStep
  <1>1. SUFFICES ASSUME Malformed = {}, NetInv, [NetNext]_netVars PROVE LinkStep
    OBVIOUS
  <1>2. CASE UNCHANGED netVars
    BY <1>2, Unseen DEF netVars, sendVars, workVars, readVars, peerVars
  <1>3. ASSUME NEW c \in Client, Connect(c) PROVE LinkStep
    BY <1>1, <1>3, ConnectLinks DEF LinkStep, Link!LinkNext
  <1>4. ASSUME NEW c \in Client, Work(c) \/ PeerFault(c) PROVE LinkStep
    BY <1>1, <1>4, WorkLinks, PeerLinks
  <1>5. ASSUME NEW c \in Client, NEW m \in Msg, ServerSend(c, m) PROVE LinkStep
    BY <1>1, <1>5, PeerLinks DEF LinkStep, Link!LinkNext
  <1>6. ASSUME NEW t \in Caller, NEW c \in Client, NEW cmd \in Cmd \cup {Disconnect},
               SendCheck(t, c, cmd)
        PROVE  LinkStep
    BY <1>1, <1>6, CallersLink DEF LinkStep, Link!LinkNext
  <1>7. ASSUME NEW t \in Caller, SendOk(t) \/ SendErr(t) PROVE LinkStep
    BY <1>1, <1>7, CallersLink DEF LinkStep, Link!LinkNext
  <1>8. QED
    BY <1>1, <1>2, <1>3, <1>4, <1>5, <1>6, <1>7 DEF NetNext

\* A NetClient whose peer sends well formed messages is two ordered pipes that
\* only the loss of the connection cuts short, however frames cut the messages,
\* whenever reads time out, and whatever the callers do (run_work, send_*).
THEOREM RefinesNetLink ==
  ASSUME Malformed = {}
  PROVE  NetSpec => ImplementsLink
  <1>1. NetInv /\ [NetNext]_netVars => [Link!LinkNext]_(Link!linkVars)
    BY LinkSteps DEF LinkStep
  <1>2. QED
    BY <1>1, LinkInitially, Inductive, PTL DEF NetSpec, ImplementsLink, Link!LinkSpec
=============================================================================
