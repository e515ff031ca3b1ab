--------------------------- MODULE RtServiceProofs ---------------------------
(***************************************************************************)
(* RtService's safety properties for any number of connections, starts,    *)
(* audio chunks and messages.  ServiceInv is the inductive invariant; there *)
(* is a lemma for each of its parts.                                       *)
(***************************************************************************)
EXTENDS RtService, SequenceTheorems, TLAPS

\* The fields and the type of a request.
LEMMA Requests ==
  /\ \A e, s : Request(e, s).event = e /\ Request(e, s).sid = s
  /\ \A e, f, s, t : Request(e, s) = Request(f, t) <=> e = f /\ s = t
  /\ Request(1, 0) \in Cmd
  /\ \A e \in {100, 200, 300, 102}, s \in Session : Request(e, s) \in Cmd
  /\ \A cmd \in Cmd : /\ cmd = Request(cmd.event, cmd.sid)
                      /\ cmd.event \in {1, 100, 200, 300, 102}
                      /\ cmd.sid \in Nat
                      /\ cmd.event # 1 => cmd.sid \in Session
  <1>1. Cmd = ServiceCmd /\ MaxStarts \in Nat
    BY ServiceAssumption
  <1>2. \A e, s : Request(e, s).event = e /\ Request(e, s).sid = s
    BY DEF Request
  <1>3. \A e, f, s, t : Request(e, s) = Request(f, t) <=> e = f /\ s = t
    BY <1>2
  <1>4. /\ Request(1, 0) \in Cmd
        /\ \A e \in {100, 200, 300, 102}, s \in Session : Request(e, s) \in Cmd
    BY <1>1 DEF ServiceCmd
  <1>5. ASSUME NEW cmd \in Cmd
        PROVE  /\ cmd = Request(cmd.event, cmd.sid)
               /\ cmd.event \in {1, 100, 200, 300, 102}
               /\ cmd.sid \in Nat
               /\ cmd.event # 1 => cmd.sid \in Session
    <2>1. CASE cmd = Request(1, 0)
      BY <2>1, <1>2
    <2>2. CASE \E e \in {100, 200, 300, 102}, s \in Session : cmd = Request(e, s)
      <3>1. PICK e \in {100, 200, 300, 102}, s \in Session : cmd = Request(e, s)
        BY <2>2
      <3>2. s \in Nat
        BY <1>1 DEF Session
      <3>3. QED
        BY <3>1, <3>2, <1>2
    <2>3. QED
      BY <1>1, <2>1, <2>2 DEF ServiceCmd
  <1>6. QED
    BY <1>2, <1>3, <1>4, <1>5

\* Who sends, and to where.
LEMMA Constants ==
  /\ Main \in Caller
  /\ \A s \in Session : s \in Caller /\ s # Main
  /\ \A t \in Caller : t # Main => t \in Session
  /\ Session \subseteq Nat
  /\ Client \subseteq Nat
  /\ NoClient \notin Client
  /\ \A x \in [sid : Session, of : Session] : x # NoSession
  /\ MaxStarts \in Nat /\ MaxAudio \in Nat
  BY ServiceAssumption DEF ServiceThread, Session, Main

-----------------------------------------------------------------------------
(* The steps of a send, and of the network. *)

\* What a step of NetLink leaves well typed.
LEMMA LinkTypes ==
  ASSUME LinkTypeOK
  PROVE  /\ \A c \in Client : Connect(c) => LinkTypeOK'
         /\ \A t \in Caller, c \in Client, cmd \in Cmd \cup {Disconnect} :
              SendCheck(t, c, cmd) => LinkTypeOK'
         /\ \A t \in Caller : SendOk(t) \/ SendErr(t) => LinkTypeOK'
         /\ \A c \in Client : Take(c) \/ Fail(c) \/ Receive(c) \/ End(c) => LinkTypeOK'
         /\ \A c \in Client, m \in Msg : ServerSend(c, m) => LinkTypeOK'
  <1>1. ASSUME NEW c \in Client, Connect(c) PROVE LinkTypeOK'
    BY <1>1 DEF Connect, LinkTypeOK
  <1>2. ASSUME NEW t \in Caller, NEW c \in Client, NEW cmd \in Cmd \cup {Disconnect},
               SendCheck(t, c, cmd)
        PROVE  LinkTypeOK'
    BY <1>2 DEF SendCheck, LinkTypeOK
  <1>3. ASSUME NEW t \in Caller, SendOk(t) PROVE LinkTypeOK'
    <2>1. pending[t] \in [client : Client, cmd : Cmd \cup {Disconnect}]
      BY <1>3 DEF SendOk, LinkTypeOK
    <2> DEFINE d == pending[t].client
    <2>2. d \in Client /\ Append(cmds[d], pending[t].cmd) \in Seq(Cmd \cup {Disconnect})
      BY <2>1 DEF LinkTypeOK
    <2>3. cmds' \in [Client -> Seq(Cmd \cup {Disconnect})]
      BY <1>3, <2>2 DEF SendOk, LinkTypeOK
    <2>4. QED
      BY <1>3, <2>3 DEF SendOk, LinkTypeOK
  <1>4. ASSUME NEW t \in Caller, SendErr(t) PROVE LinkTypeOK'
    BY <1>4 DEF SendErr, LinkTypeOK
  <1>5. ASSUME NEW c \in Client, Take(c) PROVE LinkTypeOK'
    <2>1. taken[c] + 1 \in Nat /\ Append(written[c], taken[c] + 1) \in Seq(Nat)
      BY DEF LinkTypeOK
    <2>2. written' \in [Client -> Seq(Nat)] /\ taken' \in [Client -> Nat]
      BY <1>5, <2>1 DEF Take, LinkTypeOK
    <2>3. QED
      BY <1>5, <2>2 DEF Take, LinkTypeOK
  <1>6. ASSUME NEW c \in Client, Fail(c) PROVE LinkTypeOK'
    <2>1. taken' \in [Client -> Nat]
      BY <1>6 DEF Fail, LinkTypeOK
    <2>2. connected' \in [Client -> BOOLEAN]
      BY <1>6 DEF Fail, LinkTypeOK
    <2>3. QED
      BY <1>6, <2>1, <2>2 DEF Fail, LinkTypeOK
  <1>7. ASSUME NEW c \in Client, Receive(c) PROVE LinkTypeOK'
    <2>1. Append(delivered[c], Len(delivered[c]) + 1) \in Seq(Nat)
      BY DEF LinkTypeOK
    <2>2. QED
      BY <1>7, <2>1 DEF Receive, LinkTypeOK
  <1>8. ASSUME NEW c \in Client, End(c) PROVE LinkTypeOK'
    BY <1>8 DEF End, LinkTypeOK
  <1>9. ASSUME NEW c \in Client, NEW m \in Msg, ServerSend(c, m) PROVE LinkTypeOK'
    <2>1. Append(sent[c], m) \in Seq(Msg)
      BY DEF LinkTypeOK
    <2>2. QED
      BY <1>9, <2>1 DEF ServerSend, LinkTypeOK
  <1>10. QED
    BY <1>1, <1>2, <1>3, <1>4, <1>5, <1>6, <1>7, <1>8, <1>9

\* NetLink's steps keep the types of its variables.
LEMMA LinkTypesStep ==
  ASSUME LinkTypeOK, [LinkNext]_linkVars
  PROVE  LinkTypeOK'
  <1>1. UNCHANGED linkVars => LinkTypeOK'
    BY DEF linkVars, LinkTypeOK
  <1>2. QED
    BY <1>1, LinkTypes DEF LinkNext

\* A request's steps: where the application thread goes, and what NetLink does.
LEMMA SendRequestSteps ==
  ASSUME NEW from, NEW to, NEW err, NEW c, NEW cmd, SendRequest(from, to, err, c, cmd)
  PROVE  /\ svc = from
         /\ \/ svc' = from /\ SendCheck(Main, c, cmd)
            \/ svc' = err /\ pending[Main] = None /\ ~connected[c] /\ UNCHANGED linkVars
            \/ svc' = to /\ SendOk(Main)
            \/ svc' = err /\ SendErr(Main)
  BY DEF SendRequest, GoTo

\* One step is one of a thread, of the network, or none.
LEMMA Threads ==
  [Next]_vars =>
    \/ ServiceStep
    \/ AppCall
    \/ \E c \in Client : Dispatch(c)
    \/ \E s \in Session : Audio(s)
    \/ \E c \in Client : NetStep(c) /\ UNCHANGED <<svcVars, dispVars, audioVars>>
    \/ UNCHANGED vars
  BY DEF Next

\* The connection and the session the application thread works with.
LEMMA InHand ==
  ASSUME TypeOK, ContextInv
  PROVE  /\ svc \in {"startConnection", "startSession", "awaitSession"} =>
              /\ connection_context \in Client
              /\ session_context = NoSession
              /\ starts \in Session
         /\ session_context # NoSession =>
              /\ session_context.sid \in Session
              /\ session_context.of \in Session
              /\ connection_context \in Client
              /\ net_client[session_context.sid] = connection_context
              /\ session_context.sid <= starts
         /\ starts \in Nat
  <1>1. session_context # NoSession => session_context \in [sid : Session, of : Session]
    BY DEF TypeOK
  <1>2. starts \in 0..MaxStarts /\ (svc \in Starting => starts > 0)
    BY DEF TypeOK, ContextInv
  <1>3. svc \in Starting => starts \in Session
    BY <1>2, Constants DEF Session
  <1>4. QED
    BY <1>1, <1>2, <1>3, Constants DEF TypeOK, ContextInv, Starting

\* The messages the dispatcher takes.
LEMMA NextMessage ==
  ASSUME TypeOK, PipeInv, SpeechInv, NEW c \in Client, handled[c] < Len(delivered[c])
  PROVE  /\ handled[c] \in Nat
         /\ delivered[c][handled[c] + 1] = handled[c] + 1
         /\ handled[c] + 1 \in 1..Len(delivered[c])
         /\ handled[c] + 1 \in 1..Len(sent[c])
         /\ sent[c][handled[c] + 1] \in ServerMsg
  <1>1. /\ handled[c] \in Nat
        /\ Len(delivered[c]) \in Nat
        /\ Len(sent[c]) \in Nat
        /\ sent[c] \in Seq(ServerMsg)
    BY ServiceAssumption, SMTT(30) DEF TypeOK, LinkTypeOK
  <1>2. /\ Len(delivered[c]) <= Len(sent[c])
        /\ \A i \in 1..Len(delivered[c]) : delivered[c][i] = i
    BY DEF PipeInv, Pipes
  <1>3. handled[c] + 1 \in 1..Len(delivered[c]) /\ handled[c] + 1 \in 1..Len(sent[c])
    BY <1>1, <1>2
  <1>4. QED
    BY <1>1, <1>2, <1>3, ElementOfSeq

-----------------------------------------------------------------------------
(* Types. *)

\* The types hold at first.
LEMMA TypeInit == Init => TypeOK
  <1> SUFFICES ASSUME Init PROVE TypeOK
    OBVIOUS
  <1>1. LinkTypeOK
    BY DEF Init, LinkInit, LinkTypeOK
  <1>2. /\ svc = "idle"
        /\ starts \in 0..MaxStarts
        /\ connection_context = NoClient
        /\ connectted \in BOOLEAN
        /\ session_context = NoSession
    <2>1. 0 \in 0..MaxStarts
      BY Constants
    <2>2. QED
      BY <2>1 DEF Init
  <1>3. /\ dispatcher \in [Client -> {"none", "check", "recv", "done"}]
        /\ handled \in [Client -> Nat]
        /\ session_event = <<>>
        /\ soundQueue = <<>>
    BY DEF Init
  <1>4. /\ net_client \in [Session -> Client \cup {NoClient}]
        /\ microphone_running \in [Session -> BOOLEAN]
        /\ audio \in [Session -> {"none", "check", "read", "send", "done"}]
    BY DEF Init
  <1>5. chunks \in [Session -> 0..MaxAudio]
    <2>1. 0 \in 0..MaxAudio
      BY Constants
    <2>2. QED
      BY <2>1 DEF Init
  <1>6. QED
    BY <1>1, <1>2, <1>3, <1>4, <1>5 DEF TypeOK

\* A send leaves the types, wherever it goes.
LEMMA TypeSend ==
  ASSUME TypeOK, NEW from, NEW to, NEW err, NEW c \in Client, NEW cmd \in Cmd,
         SendRequest(from, to, err, c, cmd),
         {to, err} \subseteq {"idle"} \cup Starting \cup Stopping
  PROVE  LinkTypeOK' /\ svc' \in {"idle"} \cup Starting \cup Stopping
  <1>1. LinkTypeOK /\ svc \in {"idle"} \cup Starting \cup Stopping
    BY DEF TypeOK
  <1>2. svc' \in {from, to, err}
    BY SendRequestSteps
  <1>3. LinkTypeOK'
    <2>1. UNCHANGED linkVars => LinkTypeOK'
      BY <1>1 DEF linkVars, LinkTypeOK
    <2>2. QED
      BY <1>1, <2>1, SendRequestSteps, LinkTypes, Constants
  <1>4. svc = from
    BY SendRequestSteps
  <1>5. QED
    BY <1>1, <1>2, <1>3, <1>4

\* The application thread's steps keep the types,
LEMMA TypeService ==
  ASSUME TypeOK, ContextInv, ServiceStep
  PROVE  TypeOK'
  <1> USE DEF contexts, svcVars, dispVars, audioVars
  <1>1. CASE StartConnection
    <2>1. LinkTypeOK' /\ svc' \in {"idle"} \cup Starting \cup Stopping
      <3>1. connection_context \in Client
        BY <1>1, InHand DEF StartConnection, SendRequest, GoTo
      <3>2. {IF session_context = NoSession THEN "startSession" ELSE "greet", "idle"}
              \subseteq {"idle"} \cup Starting \cup Stopping
        BY DEF Starting
      <3>3. QED
        BY <1>1, <3>1, <3>2, TypeSend, Requests DEF StartConnection
    <2>2. QED
      BY <1>1, <2>1 DEF StartConnection, TypeOK
  <1>2. CASE StartSession
    <2>1. LinkTypeOK' /\ svc' \in {"idle"} \cup Starting \cup Stopping
      <3>1. connection_context \in Client /\ Request(100, starts) \in Cmd
        BY <1>2, InHand, Requests DEF StartSession, SendRequest, GoTo
      <3>2. {"awaitSession", "idle"} \subseteq {"idle"} \cup Starting \cup Stopping
        BY DEF Starting
      <3>3. QED
        BY <1>2, <3>1, <3>2, TypeSend DEF StartSession
    <2>2. QED
      BY <1>2, <2>1 DEF StartSession, TypeOK
  <1>3. CASE SessionStarted
    <2>1. starts \in Session /\ connection_context \in Client
      BY <1>3, InHand DEF SessionStarted, GoTo
    <2>2. Head(session_event) \in Session /\ Tail(session_event) \in Seq(Session)
      BY <1>3, HeadTailProperties DEF SessionStarted, TypeOK
    <2>3. /\ session_context' \in [sid : Session, of : Session]
          /\ net_client' \in [Session -> Client \cup {NoClient}]
          /\ session_event' \in Seq(Session)
      BY <1>3, <2>1, <2>2 DEF SessionStarted, TypeOK
    <2>4. svc' = "greet"
      BY <1>3 DEF SessionStarted, GoTo
    <2>5. QED
      BY <1>3, <2>3, <2>4 DEF SessionStarted, TypeOK, Starting, linkVars, LinkTypeOK
  <1>4. CASE SessionTimeout
    BY <1>4 DEF SessionTimeout, GoTo, TypeOK, linkVars, LinkTypeOK
  <1>5. CASE Greet
    <2>1. LinkTypeOK' /\ svc' \in {"idle"} \cup Starting \cup Stopping
      <3>1. /\ net_client[session_context.sid] \in Client
            /\ Request(300, session_context.sid) \in Cmd
        BY <1>5, InHand, Requests DEF Greet
      <3>2. {"openReader", "idle"} \subseteq {"idle"} \cup Starting \cup Stopping
        BY DEF Starting
      <3>3. QED
        BY <1>5, <3>1, <3>2, TypeSend DEF Greet
    <2>2. QED
      BY <1>5, <2>1 DEF Greet, TypeOK
  <1>6. CASE OpenReader
    <2>1. audio' \in [Session -> {"none", "check", "read", "send", "done"}]
      BY <1>6 DEF OpenReader, TypeOK
    <2>2. QED
      BY <1>6, <2>1 DEF OpenReader, GoTo, TypeOK, linkVars, LinkTypeOK
  <1>7. CASE JoinMic
    BY <1>7 DEF JoinMic, GoTo, TypeOK, linkVars, LinkTypeOK, Stopping
  <1>8. CASE FinishSession
    <2>1. LinkTypeOK' /\ svc' \in {"idle"} \cup Starting \cup Stopping
      <3>1. /\ net_client[session_context.sid] \in Client
            /\ Request(102, session_context.sid) \in Cmd
        BY <1>8, InHand, Requests DEF FinishSession
      <3>2. {"finishConnection", "finishConnection"} \subseteq {"idle"} \cup Starting \cup Stopping
        BY DEF Stopping
      <3>3. QED
        BY <1>8, <3>1, <3>2, TypeSend DEF FinishSession
    <2>2. session_context' \in [sid : Session, of : Session] \cup {NoSession}
      BY <1>8 DEF FinishSession, TypeOK
    <2>3. QED
      BY <1>8, <2>1, <2>2 DEF FinishSession, TypeOK
  <1>9. CASE FinishConnection
    BY <1>9 DEF FinishConnection, GoTo, TypeOK, linkVars, LinkTypeOK, Stopping
  <1>10. CASE JoinNet
    BY <1>10 DEF JoinNet, GoTo, TypeOK, linkVars, LinkTypeOK
  <1>11. QED
    BY <1>1, <1>2, <1>3, <1>4, <1>5, <1>6, <1>7, <1>8, <1>9, <1>10 DEF ServiceStep

\* so do the application's calls,
LEMMA TypeCall ==
  ASSUME TypeOK, AppCall
  PROVE  TypeOK'
  <1> USE DEF contexts, svcVars, dispVars, audioVars
  <1>0. starts < MaxStarts => starts + 1 \in 0..MaxStarts
    BY Constants DEF TypeOK
  <1>1. CASE StartConnected
    BY <1>0, <1>1 DEF StartConnected, GoTo, TypeOK, linkVars, LinkTypeOK, Starting
  <1>2. CASE StartRefused
    BY <1>0, <1>2 DEF StartRefused, GoTo, TypeOK, linkVars, LinkTypeOK
  <1>3. ASSUME NEW c \in Client, StartConnect(c) PROVE TypeOK'
    <2>1. LinkTypeOK'
      BY <1>3, LinkTypes DEF StartConnect, TypeOK
    <2>2. QED
      BY <1>0, <1>3, <2>1 DEF StartConnect, GoTo, TypeOK, Starting
  <1>4. CASE StartMicrophoneChat
    BY <1>4 DEF StartMicrophoneChat, GoTo, TypeOK, linkVars, LinkTypeOK, Starting
  <1>5. CASE Stop
    <2>1. microphone_running' \in [Session -> BOOLEAN]
      BY <1>5 DEF Stop, TypeOK
    <2>2. QED
      BY <1>5, <2>1 DEF Stop, GoTo, TypeOK, linkVars, LinkTypeOK, Stopping
  <1>6. QED
    BY <1>1, <1>2, <1>3, <1>4, <1>5 DEF AppCall

\* the dispatchers,
LEMMA TypeDispatch ==
  ASSUME TypeOK, PipeInv, SpeechInv, NEW c \in Client, Dispatch(c)
  PROVE  TypeOK'
  <1> USE DEF svcVars, audioVars
  <1>1. CASE CheckConnectted(c)
    BY <1>1 DEF CheckConnectted, At, TypeOK, linkVars, LinkTypeOK
  <1>2. CASE HandleMessage(c)
    <2> DEFINE k == handled[c] + 1
               m == sent[c][k]
    <2>1. /\ delivered[c][handled[c] + 1] = k
          /\ m \in ServerMsg
          /\ k \in Nat
      BY <1>2, NextMessage DEF HandleMessage
    <2>2. /\ session_event' = IF m.kind = "started"
                                THEN Append(session_event, m.sid) ELSE session_event
          /\ soundQueue' = IF m.kind = "audio"
                             THEN Append(soundQueue, <<c, k>>) ELSE soundQueue
          /\ handled' = [handled EXCEPT ![c] = k]
      BY <1>2, <2>1 DEF HandleMessage
    <2>3. m.kind = "started" => m.sid \in Session
      BY <2>1 DEF ServerMsg
    <2> HIDE DEF k, m
    <2>4. session_event' \in Seq(Session)
      BY <2>2, <2>3, AppendProperties DEF TypeOK
    <2>5. soundQueue' \in Seq(Client \X Nat)
      <3>1. <<c, k>> \in Client \X Nat
        BY <2>1
      <3>2. QED
        BY <2>2, <3>1, AppendProperties DEF TypeOK
    <2>6. handled' \in [Client -> Nat]
      BY <2>1, <2>2 DEF TypeOK
    <2>7. QED
      BY <1>2, <2>4, <2>5, <2>6 DEF HandleMessage, At, TypeOK, linkVars, LinkTypeOK
  <1>3. CASE RecvErr(c)
    BY <1>3 DEF RecvErr, At, TypeOK, linkVars, LinkTypeOK
  <1>4. QED
    BY <1>1, <1>2, <1>3 DEF Dispatch

\* the audio threads,
LEMMA TypeAudio ==
  ASSUME TypeOK, ContextInv, AudioThreadOwned, NEW s \in Session, Audio(s)
  PROVE  TypeOK'
  <1> USE DEF svcVars, dispVars
  <1>1. CASE AudioCheck(s)
    BY <1>1 DEF AudioCheck, AudioAt, TypeOK, linkVars, LinkTypeOK
  <1>2. CASE AudioSkip(s)
    BY <1>2 DEF AudioSkip, AudioAt, TypeOK, linkVars, LinkTypeOK
  <1>3. CASE AudioRead(s)
    <2>1. net_client[s] \in Client
      BY <1>3, InHand DEF AudioRead, AudioAt, AudioThreadOwned
    <2>2. LinkTypeOK'
      <3>1. s \in Caller /\ Request(200, s) \in Cmd
        BY Requests, Constants
      <3>2. SendCheck(s, net_client[s], Request(200, s)) /\ LinkTypeOK
        BY <1>3 DEF AudioRead, TypeOK
      <3>3. QED
        BY <2>1, <3>1, <3>2, LinkTypes
    <2>3. chunks' \in [Session -> 0..MaxAudio]
      BY <1>3, Constants DEF AudioRead, TypeOK
    <2>4. QED
      BY <1>3, <2>2, <2>3 DEF AudioRead, AudioAt, TypeOK
  <1>4. CASE AudioSend(s)
    <2>1. LinkTypeOK'
      BY <1>4, LinkTypes, Constants DEF AudioSend, TypeOK
    <2>2. QED
      BY <1>4, <2>1 DEF AudioSend, AudioAt, TypeOK
  <1>5. QED
    BY <1>1, <1>2, <1>3, <1>4 DEF Audio

\* and NetClient's workers and the service.
LEMMA TypeNet ==
  ASSUME TypeOK, NEW c \in Client, NetStep(c), UNCHANGED <<svcVars, dispVars, audioVars>>
  PROVE  TypeOK'
  <1>1. LinkTypeOK'
    BY LinkTypes DEF NetStep, TypeOK
  <1>2. QED
    BY <1>1 DEF TypeOK, svcVars, dispVars, audioVars

-----------------------------------------------------------------------------
(* What the threads do to the connections. *)

\* A pending request is for the connection in use; an audio thread's is of
\* the current session.
LEMMA Target ==
  ASSUME TypeOK, ConnectionInv, ContextInv, PendingInv, AudioThreadOwned,
         NEW t \in Caller, pending[t] # None
  PROVE  /\ connection_context \in Client
         /\ pending[t].client = connection_context
         /\ phase[connection_context] # "none"
         /\ pending[t].cmd \in Cmd
         /\ t # Main =>
              /\ t \in Session
              /\ audio[t] = "send"
              /\ session_context # NoSession
              /\ session_context.sid = t
              /\ svc \notin {"startConnection", "startSession", "awaitSession",
                            "finishSession", "finishConnection", "joinNet"}
              /\ pending[t].cmd = Request(200, t)
  <1>1. CASE t = Main
    <2>1. /\ svc \in {"startConnection", "startSession", "greet", "finishSession"}
          /\ pending[Main].client = connection_context
      BY <1>1 DEF PendingInv, MainPending
    <2>2. connection_context # NoClient /\ connection_context \in Client
      BY <2>1 DEF ContextInv, TypeOK
    <2>3. pending[Main].cmd \in Cmd
      <3>1. CASE svc = "startConnection"
        BY <1>1, <3>1, Requests DEF PendingInv, MainPending
      <3>2. CASE svc = "startSession"
        <4>1. starts \in Session
          BY <3>2, InHand
        <4>2. pending[Main].cmd = Request(100, starts)
          BY <1>1, <3>2 DEF PendingInv, MainPending
        <4>3. QED
          BY <4>1, <4>2, Requests
      <3>3. CASE svc \in {"greet", "finishSession"}
        <4>1. session_context.sid \in Session
          BY <3>3, InHand DEF ContextInv
        <4>2. pending[Main].cmd \in {Request(300, session_context.sid),
                                     Request(102, session_context.sid)}
          BY <1>1, <3>3 DEF PendingInv, MainPending
        <4>3. QED
          BY <4>1, <4>2, Requests
      <3>4. QED
        BY <2>1, <3>1, <3>2, <3>3
    <2>4. QED
      BY <1>1, <2>1, <2>2, <2>3 DEF ConnectionInv
  <1>2. CASE t # Main
    <2>1. t \in Session
      BY <1>2, Constants
    <2>2. /\ audio[t] = "send"
          /\ pending[t] = [client |-> net_client[t], cmd |-> Request(200, t)]
      BY <2>1 DEF PendingInv, MainPending
    <2>3. /\ session_context # NoSession
          /\ session_context.sid = t
          /\ svc \notin {"finishSession", "finishConnection", "joinNet"}
      BY <2>1, <2>2 DEF AudioThreadOwned
    <2>4. svc \notin {"startConnection", "startSession", "awaitSession"}
      BY <2>3, InHand
    <2>5. connection_context \in Client /\ net_client[t] = connection_context
      BY <2>3, InHand
    <2>6. pending[t].cmd = Request(200, t) /\ Request(200, t) \in Cmd
      BY <2>1, <2>2, Requests
    <2>7. phase[connection_context] # "none"
      BY <2>5, Constants DEF ConnectionInv
    <2>8. QED
      BY <1>2, <2>1, <2>2, <2>3, <2>4, <2>5, <2>6, <2>7
  <1>3. QED
    BY <1>1, <1>2

\* A request's step is one of NetLink.
LEMMA RequestLink ==
  ASSUME NEW from, NEW to, NEW err, NEW c \in Client, NEW cmd \in Cmd,
         SendRequest(from, to, err, c, cmd)
  PROVE  [LinkNext]_linkVars
  <1>1. SendCheck(Main, c, cmd) \/ SendOk(Main) \/ SendErr(Main) \/ UNCHANGED linkVars
    BY SendRequestSteps
  <1>2. Main \in Caller
    BY Constants
  <1>3. QED
    BY <1>1, <1>2 DEF LinkNext

\* Every step of the service does to its connections what NetLink allows.
LEMMA LinkStep ==
  ASSUME TypeOK, ContextInv, AudioThreadOwned, [Next]_vars
  PROVE  [LinkNext]_linkVars
  <1>1. CASE ServiceStep
    <2>1. CASE StartConnection
      <3>1. connection_context \in Client
        BY <2>1, InHand DEF StartConnection, SendRequest, GoTo
      <3>2. QED
        BY <2>1, <3>1, RequestLink, Requests DEF StartConnection
    <2>2. CASE StartSession
      <3>1. connection_context \in Client /\ Request(100, starts) \in Cmd
        BY <2>2, InHand, Requests DEF StartSession, SendRequest, GoTo
      <3>2. QED
        BY <2>2, <3>1, RequestLink DEF StartSession
    <2>3. CASE Greet
      <3>1. /\ net_client[session_context.sid] \in Client
            /\ Request(300, session_context.sid) \in Cmd
        BY <2>3, InHand, Requests DEF Greet
      <3>2. QED
        BY <2>3, <3>1, RequestLink DEF Greet
    <2>4. CASE FinishSession
      <3>1. /\ net_client[session_context.sid] \in Client
            /\ Request(102, session_context.sid) \in Cmd
        BY <2>4, InHand, Requests DEF FinishSession
      <3>2. QED
        BY <2>4, <3>1, RequestLink DEF FinishSession
    <2>5. CASE SessionStarted \/ SessionTimeout \/ OpenReader \/ JoinMic
                 \/ FinishConnection \/ JoinNet
      BY <2>5 DEF SessionStarted, SessionTimeout, OpenReader, JoinMic,
                  FinishConnection, JoinNet
    <2>6. QED
      BY <1>1, <2>1, <2>2, <2>3, <2>4, <2>5 DEF ServiceStep
  <1>2. CASE AppCall
    <2>1. (\E c \in Client : Connect(c)) \/ UNCHANGED linkVars
      BY <1>2 DEF AppCall, StartConnected, StartRefused, StartConnect,
                  StartMicrophoneChat, Stop
    <2>2. QED
      BY <2>1 DEF LinkNext
  <1>3. ASSUME NEW c \in Client, Dispatch(c) PROVE [LinkNext]_linkVars
    BY <1>3 DEF Dispatch, CheckConnectted, HandleMessage, RecvErr
  <1>4. ASSUME NEW s \in Session, Audio(s) PROVE [LinkNext]_linkVars
    <2>1. s \in Caller
      BY Constants
    <2>2. CASE AudioRead(s)
      <3>1. net_client[s] \in Client
        BY <2>2, InHand DEF AudioRead, AudioAt, AudioThreadOwned
      <3>2. Request(200, s) \in Cmd
        BY Requests
      <3>3. SendCheck(s, net_client[s], Request(200, s))
        BY <2>2 DEF AudioRead
      <3>4. QED
        BY <2>1, <3>1, <3>2, <3>3 DEF LinkNext
    <2>3. CASE AudioSend(s)
      BY <2>1, <2>3 DEF AudioSend, LinkNext
    <2>4. QED
      BY <1>4, <2>2, <2>3 DEF Audio, AudioCheck, AudioSkip
  <1>5. ASSUME NEW c \in Client, NetStep(c) PROVE [LinkNext]_linkVars
    BY <1>5 DEF NetStep, LinkNext
  <1>6. QED
    BY <1>1, <1>2, <1>3, <1>4, <1>5, Threads DEF vars

-----------------------------------------------------------------------------
(* PipeInv: what each step of NetLink does to one connection's pipes. *)

\* A queue that is appended to keeps its entries and gains one.
LEMMA Appended ==
  ASSUME NEW S, NEW q \in Seq(S), NEW x \in S
  PROVE  /\ Append(q, x) \in Seq(S)
         /\ Append(q, x) # <<>>
         /\ Len(q) \in Nat
         /\ Len(Append(q, x)) = Len(q) + 1
         /\ \A i \in 1..Len(q) : Append(q, x)[i] = q[i]
         /\ Append(q, x)[Len(q) + 1] = x
  BY AppendProperties

\* A sequence that numbers its entries goes on to when its length plus one is
\* appended.
LEMMA Numbered ==
  ASSUME NEW q \in Seq(Nat), \A i \in 1..Len(q) : q[i] = i
  PROVE  /\ Len(Append(q, Len(q) + 1)) = Len(q) + 1
         /\ \A i \in 1..Len(Append(q, Len(q) + 1)) : Append(q, Len(q) + 1)[i] = i
  <1> DEFINE r == Append(q, Len(q) + 1)
  <1>1. /\ Len(q) \in Nat
        /\ Len(r) = Len(q) + 1
        /\ \A i \in 1..Len(q) : r[i] = q[i]
        /\ r[Len(q) + 1] = Len(q) + 1
    BY Appended
  <1>2. ASSUME NEW i \in 1..Len(r) PROVE r[i] = i
    <2>1. CASE i = Len(q) + 1
      BY <1>1, <2>1
    <2>2. CASE i # Len(q) + 1
      <3>1. i \in 1..Len(q)
        BY <1>1, <2>2
      <3>2. QED
        BY <1>1, <3>1
    <2>3. QED
      BY <2>1, <2>2
  <1>3. QED
    BY <1>1, <1>2

\* NetLink's steps keep a connection's pipes gapless ...
LEMMA PipeStep ==
  ASSUME TypeOK, PipeInv, [LinkNext]_linkVars,
         \A c \in Client : \A i \in 1..Len(cmds[c]) : cmds[c][i] # Disconnect,
         \A t \in Caller : pending[t] # None => phase[pending[t].client] # "none",
         NEW c \in Client
  PROVE  Pipes(c)'
  <1>1. Pipes(c)
    BY DEF PipeInv
  <1>2. /\ LinkTypeOK
        /\ cmds[c] \in Seq(Cmd \cup {Disconnect}) /\ Len(cmds[c]) \in Nat
        /\ written[c] \in Seq(Nat) /\ Len(written[c]) \in Nat
        /\ delivered[c] \in Seq(Nat) /\ Len(delivered[c]) \in Nat
        /\ sent[c] \in Seq(Msg) /\ Len(sent[c]) \in Nat
        /\ taken[c] \in Nat
    <2>1. LinkTypeOK
      BY DEF TypeOK
    <2>2. /\ cmds[c] \in Seq(Cmd \cup {Disconnect})
          /\ written[c] \in Seq(Nat)
          /\ delivered[c] \in Seq(Nat)
          /\ sent[c] \in Seq(Msg)
          /\ taken[c] \in Nat
      BY <2>1 DEF LinkTypeOK
    <2>3. QED
      BY <2>1, <2>2, LenProperties
  <1>3. ASSUME NEW d \in Client, Connect(d) PROVE Pipes(c)'
    <2>1. CASE d = c
      <3>1. Len(written[c]) = 0 /\ taken[c] = 0
        BY <1>1, <1>2, <1>3, <2>1 DEF Connect, Pipes
      <3>2. QED
        BY <1>1, <1>2, <1>3, <2>1, <3>1 DEF Connect, Pipes, LinkTypeOK
    <2>2. QED
      BY <1>1, <1>2, <1>3, <2>1 DEF Connect, Pipes, LinkTypeOK
  <1>4. ASSUME NEW d \in Client, Take(d) PROVE Pipes(c)'
    <2>1. CASE d = c
      <3> DEFINE k == taken[c] + 1
      <3>1. k \in 1..Len(cmds[c]) /\ k \in Nat
        BY <1>1, <1>2, <1>4, <2>1 DEF Take, Pipes
      <3>2. cmds[c][k] # Disconnect
        BY <3>1
      <3>3. taken'[c] = k /\ written'[c] = Append(written[c], k)
        BY <1>2, <1>4, <2>1, <3>2 DEF Take, LinkTypeOK
      <3>4. UNCHANGED <<connected, phase, cmds, sent, delivered>> /\ connected[c]
        BY <1>4, <2>1 DEF Take
      <3>5. k = Len(written[c]) + 1
        BY <1>1, <3>4 DEF Pipes
      <3> HIDE DEF k
      <3>6. /\ Len(written'[c]) = k
            /\ \A i \in 1..Len(written'[c]) : written'[c][i] = i
        BY <1>1, <1>2, <3>3, <3>5, Numbered DEF Pipes
      <3>7. QED
        BY <1>1, <1>2, <3>1, <3>3, <3>4, <3>6 DEF Pipes
    <2>2. CASE d # c
      BY <1>1, <1>2, <1>4, <2>2 DEF Take, Pipes, LinkTypeOK
    <2>3. QED
      BY <2>1, <2>2
  <1>5. ASSUME NEW d \in Client, Fail(d) PROVE Pipes(c)'
    <2>1. CASE d = c
      BY <1>1, <1>2, <1>5, <2>1 DEF Fail, Pipes, LinkTypeOK
    <2>2. CASE d # c
      BY <1>1, <1>2, <1>5, <2>2 DEF Fail, Pipes, LinkTypeOK
    <2>3. QED
      BY <2>1, <2>2
  <1>6. ASSUME NEW d \in Client, Receive(d) PROVE Pipes(c)'
    <2>1. CASE d = c
      <3>1. delivered'[c] = Append(delivered[c], Len(delivered[c]) + 1)
        BY <1>2, <1>6, <2>1 DEF Receive, LinkTypeOK
      <3>2. /\ Len(delivered'[c]) = Len(delivered[c]) + 1
            /\ \A i \in 1..Len(delivered'[c]) : delivered'[c][i] = i
        BY <1>1, <1>2, <3>1, Numbered DEF Pipes
      <3>3. /\ UNCHANGED <<connected, phase, cmds, taken, written, sent>>
            /\ phase[c] = "up"
            /\ Len(delivered[c]) < Len(sent[c])
        BY <1>6, <2>1 DEF Receive
      <3>4. QED
        BY <1>1, <1>2, <3>2, <3>3 DEF Pipes
    <2>2. CASE d # c
      BY <1>1, <1>2, <1>6, <2>2 DEF Receive, Pipes, LinkTypeOK
    <2>3. QED
      BY <2>1, <2>2
  <1>7. ASSUME NEW d \in Client, End(d) PROVE Pipes(c)'
    BY <1>1, <1>2, <1>7 DEF End, Pipes, LinkTypeOK
  <1>8. ASSUME NEW d \in Client, NEW m \in Msg, ServerSend(d, m) PROVE Pipes(c)'
    <2>1. CASE d = c
      <3>1. Len(sent'[c]) = Len(sent[c]) + 1
        BY <1>2, <1>8, <2>1, Appended DEF ServerSend, LinkTypeOK
      <3>2. QED
        BY <1>1, <1>2, <1>8, <3>1 DEF ServerSend, Pipes
    <2>2. CASE d # c
      BY <1>1, <1>2, <1>8, <2>2 DEF ServerSend, Pipes, LinkTypeOK
    <2>3. QED
      BY <2>1, <2>2
  <1>9. ASSUME NEW t \in Caller, NEW d \in Client, NEW cmd, SendCheck(t, d, cmd) PROVE Pipes(c)'
    BY <1>1, <1>9 DEF SendCheck, Pipes
  <1>10. ASSUME NEW t \in Caller, SendOk(t) PROVE Pipes(c)'
    <2>1. pending[t] \in [client : Client, cmd : Cmd \cup {Disconnect}]
      BY <1>2, <1>10 DEF SendOk, LinkTypeOK
    <2>2. CASE pending[t].client = c
      <3>1. cmds'[c] = Append(cmds[c], pending[t].cmd)
        BY <1>2, <1>10, <2>2 DEF SendOk, LinkTypeOK
      <3>2. Len(cmds'[c]) = Len(cmds[c]) + 1
        BY <1>2, <2>1, <3>1, Appended
      <3>3. phase[c] # "none"
        BY <1>10, <2>2 DEF SendOk
      <3>4. UNCHANGED <<connected, phase, taken, written, sent, delivered>>
        BY <1>10 DEF SendOk
      <3>5. QED
        BY <1>1, <1>2, <3>2, <3>3, <3>4 DEF Pipes
    <2>3. CASE pending[t].client # c
      BY <1>1, <1>2, <1>10, <2>3 DEF SendOk, Pipes, LinkTypeOK
    <2>4. QED
      BY <2>2, <2>3
  <1>11. ASSUME NEW t \in Caller, SendErr(t) PROVE Pipes(c)'
    BY <1>1, <1>11 DEF SendErr, Pipes
  <1>12. CASE UNCHANGED linkVars
    BY <1>1, <1>12 DEF linkVars, Pipes
  <1>13. QED
    BY <1>3, <1>4, <1>5, <1>6, <1>7, <1>8, <1>9, <1>10, <1>11, <1>12 DEF LinkNext

\* ... and so every step does.
LEMMA PipeInvStep ==
  ASSUME ServiceInv, [Next]_vars
  PROVE  PipeInv'
  <1>1. TypeOK /\ PipeInv /\ [LinkNext]_linkVars
    BY LinkStep DEF ServiceInv
  <1>2. \A c \in Client : \A i \in 1..Len(cmds[c]) : cmds[c][i] # Disconnect
    BY ServiceAssumption DEF ServiceInv, RequestInv, SidsDrawn
  <1>3. \A t \in Caller : pending[t] # None => phase[pending[t].client] # "none"
    BY Target DEF ServiceInv
  <1>4. \A c \in Client : Pipes(c)'
    BY <1>1, <1>2, <1>3, PipeStep
  <1>5. QED
    BY <1>4 DEF PipeInv

-----------------------------------------------------------------------------
(* ConnectionInv. *)

\* A request's step has no part in what the worker and the server do.
LEMMA SendFrame ==
  ASSUME NEW from, NEW to, NEW err, NEW c, NEW cmd, SendRequest(from, to, err, c, cmd)
  PROVE  UNCHANGED <<connected, phase, taken, written, sent, delivered>>
  BY SendRequestSteps DEF SendCheck, SendOk, SendErr, linkVars

\* It holds on when no connection is opened or taken and no dispatcher revived.
LEMMA ConnectionKept ==
  ASSUME ConnectionInv,
         \A c \in Client : phase'[c] = "none" <=> phase[c] = "none",
         connection_context' = connection_context,
         connection_context \in Client \cup {NoClient},
         \A c \in Client : dispatcher'[c] \in {"check", "recv"} => dispatcher[c] \in {"check", "recv"}
  PROVE  ConnectionInv'
  BY DEF ConnectionInv, OneDispatcher

\* Connections are opened in order, one dispatcher at a time.
LEMMA ConnectionInvStep ==
  ASSUME ServiceInv, [Next]_vars
  PROVE  ConnectionInv'
  <1> USE DEF contexts, svcVars, dispVars, audioVars
  <1>0. /\ TypeOK /\ LinkTypeOK
        /\ ConnectionInv
        /\ connection_context \in Client \cup {NoClient}
    BY DEF ServiceInv, TypeOK
  <1>1. CASE ServiceStep
    <2>1. UNCHANGED <<phase, dispatcher>>
      BY <1>1, SendFrame
         DEF ServiceStep, StartConnection, StartSession, SessionStarted, SessionTimeout,
             Greet, OpenReader, JoinMic, FinishSession, FinishConnection, JoinNet, linkVars
    <2>2. CASE JoinNet
      BY <1>0, <2>1, <2>2, Constants DEF JoinNet, ConnectionInv, OneDispatcher
    <2>3. CASE ~JoinNet
      <3>1. connection_context' = connection_context
        BY <1>1, <2>3
           DEF ServiceStep, StartConnection, StartSession, SessionStarted, SessionTimeout,
               Greet, OpenReader, JoinMic, FinishSession, FinishConnection
      <3>2. QED
        BY <1>0, <2>1, <3>1, ConnectionKept
    <2>4. QED
      BY <2>2, <2>3
  <1>2. CASE AppCall
    <2>1. ASSUME NEW c \in Client, StartConnect(c) PROVE ConnectionInv'
      <3>1. /\ connection_context = NoClient /\ connection_context' = c
            /\ phase[c] = "none" /\ phase' = [phase EXCEPT ![c] = "up"]
            /\ dispatcher' = [dispatcher EXCEPT ![c] = "check"]
            /\ \A b \in Client : b < c => phase[b] # "none"
        BY <2>1 DEF StartConnect, Connect
      <3>2. /\ phase \in [Client -> {"none", "up", "done"}]
            /\ dispatcher \in [Client -> {"none", "check", "recv", "done"}]
        BY <1>0 DEF TypeOK, LinkTypeOK
      <3>3. \A b, d \in Client : b < d /\ phase[d] # "none" => phase[b] # "none"
        BY <1>0 DEF ConnectionInv
      <3>4. \A d \in Client : phase'[d] # "none" => d <= c
        BY <3>1, <3>2, <3>3, Constants
      <3>5. \A b, d \in Client : b < d /\ phase'[d] # "none" => phase'[b] # "none"
        BY <3>1, <3>2, <3>3, <3>4, Constants
      <3>6. \A d \in Client : dispatcher[d] \notin {"check", "recv"}
        BY <1>0, <3>1, Constants DEF ConnectionInv, OneDispatcher
      <3>7. OneDispatcher'
        BY <3>1, <3>2, <3>6 DEF OneDispatcher
      <3>8. phase'[connection_context'] # "none"
        BY <3>1, <3>2
      <3>9. QED
        BY <3>1, <3>4, <3>5, <3>7, <3>8 DEF ConnectionInv
    <2>2. CASE StartConnected \/ StartRefused \/ StartMicrophoneChat \/ Stop
      <3>1. UNCHANGED <<phase, dispatcher, connection_context>>
        BY <2>2 DEF StartConnected, StartRefused, StartMicrophoneChat, Stop, linkVars
      <3>2. QED
        BY <1>0, <3>1, ConnectionKept
    <2>3. QED
      BY <1>2, <2>1, <2>2 DEF AppCall
  <1>3. ASSUME NEW c \in Client, Dispatch(c) PROVE ConnectionInv'
    <2>1. UNCHANGED <<phase, connection_context>>
      BY <1>3 DEF Dispatch, CheckConnectted, HandleMessage, RecvErr, linkVars
    <2>2. /\ dispatcher[c] \in {"check", "recv"}
          /\ dispatcher' = [dispatcher EXCEPT ![c] = dispatcher'[c]]
      BY <1>0, <1>3 DEF Dispatch, CheckConnectted, HandleMessage, RecvErr, At, TypeOK
    <2>3. \A d \in Client : dispatcher'[d] \in {"check", "recv"} => dispatcher[d] \in {"check", "recv"}
      BY <1>0, <2>2 DEF TypeOK
    <2>4. QED
      BY <1>0, <2>1, <2>3, ConnectionKept
  <1>4. ASSUME NEW s \in Session, Audio(s) PROVE ConnectionInv'
    <2>1. UNCHANGED <<phase, dispatcher, connection_context>>
      BY <1>4 DEF Audio, AudioCheck, AudioSkip, AudioRead, AudioSend,
                  SendCheck, SendOk, SendErr, linkVars
    <2>2. QED
      BY <1>0, <2>1, ConnectionKept
  <1>5. ASSUME NEW c \in Client, NetStep(c), UNCHANGED <<svcVars, dispVars, audioVars>>
        PROVE  ConnectionInv'
    <2>1. \A d \in Client : phase'[d] = "none" <=> phase[d] = "none"
      BY <1>0, <1>5 DEF NetStep, Take, Fail, Receive, End, ServerSend, LinkTypeOK
    <2>2. QED
      BY <1>0, <1>5, <2>1, ConnectionKept
  <1>6. CASE UNCHANGED vars
    BY <1>0, <1>6, ConnectionKept DEF vars, linkVars
  <1>7. QED
    BY <1>1, <1>2, <1>3, <1>4, <1>5, <1>6, Threads

-----------------------------------------------------------------------------
(* ContextInv: only the application thread has it in hand. *)

\* The application thread keeps what it has in hand.
LEMMA ContextInvStep ==
  ASSUME ServiceInv, [Next]_vars
  PROVE  ContextInv'
  <1> USE DEF contexts, svcVars, dispVars, audioVars
  <1>0. /\ TypeOK /\ ContextInv
        /\ net_client \in [Session -> Client \cup {NoClient}]
        /\ starts \in Nat
    BY InHand DEF ServiceInv, TypeOK
  <1>1. CASE ServiceStep
    <2>1. CASE StartConnection
      <3>1. /\ svc = "startConnection"
            /\ svc' \in {"startConnection", "startSession", "idle"}
            /\ UNCHANGED <<starts, contexts>>
        BY <1>0, <2>1, SendRequestSteps DEF StartConnection, ContextInv
      <3>2. QED
        BY <1>0, <3>1 DEF ContextInv, Starting
    <2>2. CASE StartSession
      <3>1. /\ svc = "startSession"
            /\ svc' \in {"startSession", "awaitSession", "idle"}
            /\ UNCHANGED <<starts, contexts>>
        BY <2>2, SendRequestSteps DEF StartSession
      <3>2. QED
        BY <1>0, <3>1 DEF ContextInv, Starting
    <2>3. CASE SessionStarted
      <3>1. starts \in Session /\ starts > 0 /\ connection_context # NoClient
        BY <1>0, <2>3, InHand DEF SessionStarted, GoTo, ContextInv, Starting
      <3>2. session_context' # NoSession
        <4>1. Head(session_event) \in Session
          BY <1>0, <2>3, HeadTailProperties DEF SessionStarted, TypeOK
        <4>2. session_context' \in [sid : Session, of : Session]
          BY <2>3, <3>1, <4>1 DEF SessionStarted
        <4>3. QED
          BY <4>2, Constants
      <3>3. /\ session_context'.sid = starts
            /\ net_client'[starts] = connection_context
        BY <1>0, <2>3, <3>1 DEF SessionStarted
      <3>4. svc' = "greet" /\ starts' = starts /\ connection_context' = connection_context
        BY <2>3 DEF SessionStarted, GoTo
      <3>5. QED
        BY <1>0, <3>1, <3>2, <3>3, <3>4 DEF ContextInv, Starting
    <2>4. CASE SessionTimeout
      BY <1>0, <2>4 DEF SessionTimeout, GoTo, ContextInv, Starting
    <2>5. CASE Greet
      <3>1. /\ svc = "greet"
            /\ svc' \in {"greet", "openReader", "idle"}
            /\ UNCHANGED <<starts, contexts>>
        BY <2>5, SendRequestSteps DEF Greet
      <3>2. QED
        BY <1>0, <3>1 DEF ContextInv, Starting
    <2>6. CASE OpenReader
      BY <1>0, <2>6 DEF OpenReader, GoTo, ContextInv, Starting
    <2>7. CASE JoinMic
      BY <1>0, <2>7 DEF JoinMic, GoTo, ContextInv, Starting
    <2>8. CASE FinishSession
      <3>1. /\ svc = "finishSession"
            /\ \/ svc' = "finishSession" /\ session_context' = session_context
               \/ svc' = "finishConnection" /\ session_context' = NoSession
            /\ UNCHANGED <<starts, connection_context, net_client>>
        BY <2>8, SendRequestSteps DEF FinishSession
      <3>2. QED
        BY <1>0, <3>1 DEF ContextInv, Starting
    <2>9. CASE FinishConnection
      BY <1>0, <2>9 DEF FinishConnection, GoTo, ContextInv, Starting
    <2>10. CASE JoinNet
      BY <1>0, <2>10 DEF JoinNet, GoTo, ContextInv, Starting
    <2>11. QED
      BY <1>1, <2>1, <2>2, <2>3, <2>4, <2>5, <2>6, <2>7, <2>8, <2>9, <2>10 DEF ServiceStep
  <1>2. CASE AppCall
    <2>1. CASE StartConnected
      <3>1. session_context # NoSession => session_context.sid \in Nat
        BY <1>0, InHand, Constants
      <3>2. QED
        BY <1>0, <2>1, <3>1 DEF StartConnected, GoTo, ContextInv, Starting
    <2>2. CASE StartRefused
      BY <1>0, <2>2 DEF StartRefused, GoTo, ContextInv, Starting
    <2>3. ASSUME NEW c \in Client, StartConnect(c) PROVE ContextInv'
      <3>1. c # NoClient /\ session_context = NoSession
        BY <1>0, <2>3, Constants DEF StartConnect, ContextInv
      <3>2. QED
        BY <1>0, <2>3, <3>1 DEF StartConnect, GoTo, ContextInv, Starting
    <2>4. CASE StartMicrophoneChat
      <3>1. starts > 0
        <4>1. session_context # NoSession
          BY <2>4 DEF StartMicrophoneChat
        <4>2. session_context.sid <= starts /\ session_context.sid \in Session
          BY <1>0, <4>1, InHand
        <4>3. QED
          BY <1>0, <4>2 DEF Session
      <3>2. QED
        BY <1>0, <2>4, <3>1 DEF StartMicrophoneChat, GoTo, ContextInv, Starting
    <2>5. CASE Stop
      BY <1>0, <2>5 DEF Stop, GoTo, ContextInv, Starting
    <2>6. QED
      BY <1>2, <2>1, <2>2, <2>3, <2>4, <2>5 DEF AppCall
  <1>3. CASE UNCHANGED svcVars
    BY <1>0, <1>3 DEF ContextInv
  <1>4. QED
    BY <1>1, <1>2, <1>3, Threads
       DEF vars, Dispatch, CheckConnectted, HandleMessage, RecvErr,
           Audio, AudioCheck, AudioSkip, AudioRead, AudioSend

-----------------------------------------------------------------------------
(* PendingInv. *)

\* A request is pending only where it was checked, and nowhere else changes.
LEMMA PendingSend ==
  ASSUME TypeOK, NEW from, NEW to, NEW err, NEW c \in Client, NEW cmd,
         SendRequest(from, to, err, c, cmd), MainPending, to # from, err # from,
         pending[Main] # None => pending[Main].client = c /\ pending[Main].cmd = cmd
  PROVE  /\ pending'[Main] # None =>
              /\ svc = from /\ svc' = from
              /\ pending'[Main].client = c
              /\ pending'[Main].cmd = cmd
         /\ \A s \in Session : pending'[s] = pending[s]
  <1>1. /\ pending \in [Caller -> [client : Client, cmd : Cmd \cup {Disconnect}] \cup {None}]
        /\ Main \in Caller
        /\ \A s \in Session : s \in Caller /\ s # Main
    BY Constants DEF TypeOK, LinkTypeOK
  <1>2. CASE svc' = from /\ SendCheck(Main, c, cmd)
    BY <1>1, <1>2, SendRequestSteps DEF SendCheck
  <1>3. CASE pending[Main] = None /\ UNCHANGED linkVars
    BY <1>3 DEF linkVars
  <1>4. CASE SendOk(Main) \/ SendErr(Main)
    BY <1>1, <1>4 DEF SendOk, SendErr
  <1>5. QED
    BY <1>2, <1>3, <1>4, SendRequestSteps

\* An audio thread's request is its own, and stays when others move.
LEMMA PendingKept ==
  ASSUME PendingInv, NEW s \in Session, pending'[s] = pending[s],
         pending[s] # None => audio'[s] = audio[s] /\ net_client'[s] = net_client[s]
  PROVE  pending'[s] # None =>
           /\ audio'[s] = "send"
           /\ pending'[s] = [client |-> net_client'[s], cmd |-> Request(200, s)]
  BY DEF PendingInv, MainPending

\* A request between check and send is that of its thread's place.
LEMMA PendingInvStep ==
  ASSUME ServiceInv, [Next]_vars
  PROVE  PendingInv'
  <1> USE DEF contexts, svcVars, dispVars, audioVars
  <1>0. /\ TypeOK /\ ContextInv /\ PendingInv /\ AudioThreadOwned /\ ConnectionInv
        /\ pending \in [Caller -> [client : Client, cmd : Cmd \cup {Disconnect}] \cup {None}]
        /\ audio \in [Session -> {"none", "check", "read", "send", "done"}]
        /\ net_client \in [Session -> Client \cup {NoClient}]
        /\ MainPending
    BY DEF ServiceInv, TypeOK, LinkTypeOK, MainPending, PendingInv
  <1>1. CASE ServiceStep
    <2>1. CASE StartConnection
      <3>1. connection_context \in Client /\ svc = "startConnection"
        BY <1>0, <2>1, InHand DEF StartConnection, SendRequest, GoTo
      <3>2. pending[Main] # None =>
              pending[Main].client = connection_context /\ pending[Main].cmd = Request(1, 0)
        BY <1>0, <3>1 DEF MainPending
      <3>3. /\ pending'[Main] # None =>
                 /\ svc' = "startConnection"
                 /\ pending'[Main].client = connection_context
                 /\ pending'[Main].cmd = Request(1, 0)
            /\ \A s \in Session : pending'[s] = pending[s]
        BY <1>0, <2>1, <3>1, <3>2, PendingSend DEF StartConnection
      <3>4. UNCHANGED <<starts, connection_context, session_context, net_client, audio>>
        BY <2>1 DEF StartConnection
      <3>5. QED
        BY <1>0, <3>3, <3>4, PendingKept DEF PendingInv, MainPending
    <2>2. CASE StartSession
      <3>1. connection_context \in Client /\ svc = "startSession"
        BY <1>0, <2>2, InHand DEF StartSession, SendRequest, GoTo
      <3>2. pending[Main] # None =>
              pending[Main].client = connection_context /\ pending[Main].cmd = Request(100, starts)
        BY <1>0, <3>1 DEF MainPending
      <3>3. /\ pending'[Main] # None =>
                 /\ svc' = "startSession"
                 /\ pending'[Main].client = connection_context
                 /\ pending'[Main].cmd = Request(100, starts)
            /\ \A s \in Session : pending'[s] = pending[s]
        BY <1>0, <2>2, <3>1, <3>2, PendingSend DEF StartSession
      <3>4. UNCHANGED <<starts, connection_context, session_context, net_client, audio>>
        BY <2>2 DEF StartSession
      <3>5. QED
        BY <1>0, <3>3, <3>4, PendingKept DEF PendingInv, MainPending
    <2>3. CASE SessionStarted
      <3>1. svc = "awaitSession" /\ session_context = NoSession
        BY <1>0, <2>3, InHand DEF SessionStarted, GoTo
      <3>2. pending[Main] = None /\ pending' = pending /\ audio' = audio
        BY <1>0, <2>3, <3>1 DEF MainPending, SessionStarted, linkVars
      <3>3. \A s \in Session : pending[s] = None
        BY <1>0, <3>1 DEF AudioThreadOwned, PendingInv
      <3>4. QED
        BY <3>2, <3>3 DEF PendingInv, MainPending
    <2>4. CASE SessionTimeout
      <3>1. pending[Main] = None /\ pending' = pending /\ audio' = audio /\ net_client' = net_client
        BY <1>0, <2>4 DEF MainPending, SessionTimeout, GoTo, linkVars
      <3>2. QED
        BY <1>0, <3>1, PendingKept DEF PendingInv, MainPending
    <2>5. CASE Greet
      <3>1. /\ svc = "greet"
            /\ session_context # NoSession
            /\ net_client[session_context.sid] = connection_context
            /\ connection_context \in Client
        BY <1>0, <2>5, InHand DEF Greet, SendRequest, GoTo
      <3>2. pending[Main] # None =>
              /\ pending[Main].client = connection_context
              /\ pending[Main].cmd = Request(300, session_context.sid)
        BY <1>0, <3>1 DEF MainPending
      <3>3. /\ pending'[Main] # None =>
                 /\ svc' = "greet"
                 /\ pending'[Main].client = connection_context
                 /\ pending'[Main].cmd = Request(300, session_context.sid)
            /\ \A s \in Session : pending'[s] = pending[s]
        BY <1>0, <2>5, <3>1, <3>2, PendingSend DEF Greet
      <3>4. UNCHANGED <<starts, connection_context, session_context, net_client, audio>>
        BY <2>5 DEF Greet
      <3>5. QED
        BY <1>0, <3>3, <3>4, PendingKept DEF PendingInv, MainPending
    <2>6. CASE OpenReader
      <3>1. pending[Main] = None /\ pending' = pending /\ net_client' = net_client
        BY <1>0, <2>6 DEF MainPending, OpenReader, GoTo, linkVars
      <3>2. \A s \in Session : pending[s] # None => audio'[s] = audio[s]
        <4>1. ASSUME NEW s \in Session, pending[s] # None
              PROVE  audio'[s] = audio[s]
          <5>1. audio[s] = "send" /\ audio \in [Session -> {"none", "check", "read", "send", "done"}]
            BY <1>0, <4>1 DEF PendingInv, TypeOK
          <5>2. CASE audio' = audio
            BY <5>2
          <5>3. CASE audio' # audio
            <6> DEFINE t == session_context.sid
            <6>1. audio[t] = "none" /\ audio' = [audio EXCEPT ![t] = "check"]
              BY <2>6, <5>3 DEF OpenReader
            <6> HIDE DEF t
            <6>2. s # t
              BY <5>1, <6>1
            <6>3. QED
              BY <5>1, <6>1, <6>2
          <5>4. QED
            BY <5>2, <5>3
        <4>2. QED
          BY <4>1
      <3>3. QED
        BY <1>0, <3>1, <3>2, PendingKept DEF PendingInv, MainPending
    <2>7. CASE JoinMic \/ FinishConnection \/ JoinNet
      <3>1. pending[Main] = None /\ pending' = pending /\ audio' = audio /\ net_client' = net_client
        BY <1>0, <2>7 DEF MainPending, JoinMic, FinishConnection, JoinNet, GoTo, linkVars
      <3>2. QED
        BY <1>0, <3>1, PendingKept DEF PendingInv, MainPending
    <2>8. CASE FinishSession
      <3>1. /\ svc = "finishSession"
            /\ session_context # NoSession
            /\ net_client[session_context.sid] = connection_context
            /\ connection_context \in Client
        BY <1>0, <2>8, InHand DEF FinishSession, SendRequest, GoTo
      <3>2. pending[Main] # None =>
              /\ pending[Main].client = connection_context
              /\ pending[Main].cmd = Request(102, session_context.sid)
        BY <1>0, <3>1 DEF MainPending
      <3>3. /\ pending'[Main] # None =>
                 /\ svc' = "finishSession"
                 /\ pending'[Main].client = connection_context
                 /\ pending'[Main].cmd = Request(102, session_context.sid)
            /\ \A s \in Session : pending'[s] = pending[s]
        BY <1>0, <2>8, <3>1, <3>2, PendingSend DEF FinishSession
      <3>4. /\ UNCHANGED <<starts, connection_context, net_client, audio>>
            /\ svc' = "finishSession" => session_context' = session_context
        BY <2>8 DEF FinishSession
      <3>5. QED
        BY <1>0, <3>3, <3>4, PendingKept DEF PendingInv, MainPending
    <2>9. QED
      BY <1>1, <2>1, <2>2, <2>3, <2>4, <2>5, <2>6, <2>7, <2>8 DEF ServiceStep
  <1>2. CASE AppCall
    <2>1. /\ svc = "idle"
          /\ pending' = pending
          /\ audio' = audio
          /\ net_client' = net_client
      BY <1>2 DEF AppCall, StartConnected, StartRefused, StartConnect, StartMicrophoneChat,
                  Stop, GoTo, Connect, linkVars
    <2>2. pending[Main] = None
      BY <1>0, <2>1 DEF MainPending
    <2>3. QED
      BY <1>0, <2>1, <2>2, PendingKept DEF PendingInv, MainPending
  <1>3. ASSUME NEW c \in Client, Dispatch(c) PROVE PendingInv'
    <2>1. UNCHANGED <<pending, svcVars, audio>>
      BY <1>3 DEF Dispatch, CheckConnectted, HandleMessage, RecvErr, linkVars
    <2>2. QED
      BY <1>0, <2>1 DEF PendingInv, MainPending
  <1>4. ASSUME NEW s \in Session, Audio(s) PROVE PendingInv'
    <2>1. s \in Caller /\ s # Main /\ UNCHANGED svcVars
      BY <1>4, Constants DEF Audio, AudioCheck, AudioSkip, AudioRead, AudioSend
    <2>2. \A t \in Session : t \in Caller /\ (t # s => audio'[t] = audio[t])
      BY <1>0, <1>4, Constants DEF Audio, AudioCheck, AudioSkip, AudioRead, AudioSend, AudioAt
    <2>3. \A t \in Caller : t # s => pending'[t] = pending[t]
      BY <1>0, <1>4, <2>1
         DEF Audio, AudioCheck, AudioSkip, AudioRead, AudioSend, SendCheck, SendOk, SendErr, linkVars
    <2>4. pending'[s] # None =>
            /\ audio'[s] = "send"
            /\ pending'[s] = [client |-> net_client'[s], cmd |-> Request(200, s)]
      <3>1. CASE AudioCheck(s) \/ AudioSkip(s)
        BY <1>0, <3>1 DEF AudioCheck, AudioSkip, AudioAt, linkVars, PendingInv
      <3>2. CASE AudioRead(s)
        BY <1>0, <2>1, <3>2 DEF AudioRead, AudioAt, SendCheck
      <3>3. CASE AudioSend(s)
        BY <1>0, <2>1, <3>3 DEF AudioSend, SendOk, SendErr
      <3>4. QED
        BY <1>4, <3>1, <3>2, <3>3 DEF Audio
    <2>5. pending'[Main] = pending[Main]
      BY <2>1, <2>3, Constants
    <2>6. \A t \in Session : pending'[t] # None =>
            /\ audio'[t] = "send"
            /\ pending'[t] = [client |-> net_client'[t], cmd |-> Request(200, t)]
      <3>1. \A t \in Session : t # s =>
              pending'[t] = pending[t] /\ audio'[t] = audio[t] /\ net_client'[t] = net_client[t]
        BY <2>1, <2>2, <2>3
      <3>2. QED
        BY <1>0, <2>4, <3>1, PendingKept
    <2>7. QED
      BY <1>0, <2>1, <2>5, <2>6 DEF PendingInv, MainPending
  <1>5. CASE pending' = pending /\ UNCHANGED <<svcVars, audio>>
    BY <1>0, <1>5 DEF PendingInv, MainPending
  <1>6. QED
    BY <1>1, <1>2, <1>3, <1>4, <1>5, Threads
       DEF vars, linkVars, NetStep, Take, Fail, Receive, End, ServerSend

-----------------------------------------------------------------------------
(* AudioThreadOwned. *)

\* An audio thread ends before its session.
LEMMA AudioThreadStep ==
  ASSUME ServiceInv, [Next]_vars
  PROVE  AudioThreadOwned'
  <1> USE DEF contexts, svcVars, dispVars, audioVars
  <1>0. /\ TypeOK /\ ContextInv /\ AudioThreadOwned
        /\ audio \in [Session -> {"none", "check", "read", "send", "done"}]
    BY DEF ServiceInv, TypeOK
  <1>1. CASE ServiceStep
    <2>1. CASE StartConnection \/ StartSession \/ Greet
      <3>1. svc' \notin {"finishSession", "finishConnection", "joinNet"}
        BY <2>1, SendRequestSteps DEF StartConnection, StartSession, Greet
      <3>2. UNCHANGED <<session_context, audio>>
        BY <2>1 DEF StartConnection, StartSession, Greet
      <3>3. QED
        BY <1>0, <3>1, <3>2 DEF AudioThreadOwned
    <2>2. CASE SessionStarted
      BY <1>0, <2>2 DEF SessionStarted, GoTo, ContextInv, AudioThreadOwned
    <2>3. CASE SessionTimeout
      BY <1>0, <2>3 DEF SessionTimeout, GoTo, AudioThreadOwned
    <2>4. CASE OpenReader
      <3>1. session_context # NoSession
        BY <1>0, <2>4 DEF OpenReader, GoTo, ContextInv
      <3>2. QED
        BY <1>0, <2>4, <3>1 DEF OpenReader, GoTo, AudioThreadOwned
    <2>5. CASE JoinMic
      BY <1>0, <2>5 DEF JoinMic, GoTo, AudioThreadOwned
    <2>6. CASE FinishSession
      <3>1. svc = "finishSession" /\ audio' = audio
        BY <2>6, SendRequestSteps DEF FinishSession
      <3>2. QED
        BY <1>0, <3>1 DEF AudioThreadOwned
    <2>7. CASE FinishConnection \/ JoinNet
      BY <1>0, <2>7 DEF FinishConnection, JoinNet, GoTo, AudioThreadOwned
    <2>8. QED
      BY <1>1, <2>1, <2>2, <2>3, <2>4, <2>5, <2>6, <2>7 DEF ServiceStep
  <1>2. CASE AppCall
    BY <1>0, <1>2 DEF AppCall, StartConnected, StartRefused, StartConnect,
                      StartMicrophoneChat, Stop, GoTo, AudioThreadOwned
  <1>3. ASSUME NEW s \in Session, Audio(s) PROVE AudioThreadOwned'
    <2>1. \A t \in Session : audio'[t] \in {"check", "read", "send"} =>
                               audio[t] \in {"check", "read", "send"}
      BY <1>0, <1>3 DEF Audio, AudioCheck, AudioSkip, AudioRead, AudioSend, AudioAt
    <2>2. UNCHANGED svcVars
      BY <1>3 DEF Audio, AudioCheck, AudioSkip, AudioRead, AudioSend
    <2>3. QED
      BY <1>0, <2>1, <2>2 DEF AudioThreadOwned
  <1>4. CASE UNCHANGED <<svcVars, audio>>
    BY <1>0, <1>4 DEF AudioThreadOwned
  <1>5. QED
    BY <1>1, <1>2, <1>3, <1>4, Threads
       DEF vars, Dispatch, CheckConnectted, HandleMessage, RecvErr

-----------------------------------------------------------------------------
(* SpeechInv. *)

\* What was sent and delivered stays.
LEMMA Growth ==
  ASSUME LinkTypeOK, [LinkNext]_linkVars, NEW c \in Client
  PROVE  /\ Len(delivered[c]) <= Len(delivered'[c])
         /\ \A i \in 1..Len(delivered[c]) : delivered'[c][i] = delivered[c][i]
         /\ \A i \in 1..Len(sent[c]) : sent'[c][i] = sent[c][i]
  <1>1. /\ delivered \in [Client -> Seq(Nat)] /\ delivered[c] \in Seq(Nat)
        /\ sent \in [Client -> Seq(Msg)] /\ sent[c] \in Seq(Msg)
        /\ Len(delivered[c]) \in Nat
    BY DEF LinkTypeOK
  <1>2. ASSUME NEW d \in Client, Receive(d)
        PROVE  /\ sent' = sent
               /\ Len(delivered[c]) <= Len(delivered'[c])
               /\ \A i \in 1..Len(delivered[c]) : delivered'[c][i] = delivered[c][i]
    <2>1. /\ delivered'[c] = IF c = d THEN Append(delivered[c], Len(delivered[c]) + 1)
                                      ELSE delivered[c]
          /\ sent' = sent
      BY <1>1, <1>2 DEF Receive
    <2>2. QED
      BY <1>1, <2>1, Appended
  <1>3. ASSUME NEW d \in Client, NEW m \in Msg, ServerSend(d, m)
        PROVE  /\ delivered' = delivered
               /\ \A i \in 1..Len(sent[c]) : sent'[c][i] = sent[c][i]
    <2>1. /\ sent'[c] = IF c = d THEN Append(sent[c], m) ELSE sent[c]
          /\ delivered' = delivered
      BY <1>1, <1>3 DEF ServerSend
    <2>2. QED
      BY <1>1, <2>1, Appended
  <1>4. CASE UNCHANGED <<sent, delivered>>
    BY <1>1, <1>4
  <1>5. QED
    BY <1>1, <1>2, <1>3, <1>4
       DEF LinkNext, linkVars, Connect, Take, Fail, End, SendCheck, SendOk, SendErr

\* Only the dispatcher that takes a message feeds the speaker.
LEMMA FeedingSteps ==
  ASSUME [Next]_vars
  PROVE  \/ UNCHANGED <<handled, soundQueue>>
         \/ \E c \in Client : HandleMessage(c)
  <1> USE DEF svcVars, dispVars, audioVars
  <1>1. ServiceStep => UNCHANGED <<handled, soundQueue>>
    BY DEF ServiceStep, StartConnection, StartSession, SessionStarted, SessionTimeout,
           Greet, OpenReader, JoinMic, FinishSession, FinishConnection, JoinNet
  <1>2. AppCall => UNCHANGED <<handled, soundQueue>>
    BY DEF AppCall, StartConnected, StartRefused, StartConnect, StartMicrophoneChat, Stop
  <1>3. \A c \in Client : Dispatch(c) => HandleMessage(c) \/ UNCHANGED <<handled, soundQueue>>
    BY DEF Dispatch, CheckConnectted, RecvErr
  <1>4. \A s \in Session : Audio(s) => UNCHANGED <<handled, soundQueue>>
    BY DEF Audio, AudioCheck, AudioSkip, AudioRead, AudioSend
  <1>5. QED
    BY <1>1, <1>2, <1>3, <1>4, Threads DEF vars

\* Whom the speaker has heard: connections no newer than the one in use, up to
\* the messages handled.
LEMMA Heard ==
  ASSUME TypeOK, PipeInv, ConnectionInv, SpeechInv, NEW c \in Client, connection_context = c,
         NEW i \in 1..Len(soundQueue)
  PROVE  /\ soundQueue[i] \in Client \X Nat
         /\ soundQueue[i][1] <= c
         /\ soundQueue[i][2] <= handled[soundQueue[i][1]]
  <1>1. soundQueue[i] \in Client \X Nat
    BY ElementOfSeq DEF TypeOK
  <1> DEFINE d == soundQueue[i][1]
  <1>2. d \in Client /\ soundQueue[i][2] \in 1..handled[d]
    <2>1. d \in Client
      BY <1>1
    <2>2. soundQueue[i][2] \in 1..handled[d]
      BY DEF SpeechInv
    <2>3. QED
      BY <2>1, <2>2
  <1> HIDE DEF d
  <1>3. handled[d] \in Nat /\ handled[d] <= Len(delivered[d]) /\ Len(delivered[d]) \in Nat
    <2>1. handled[d] \in Nat /\ delivered[d] \in Seq(Nat)
      BY <1>2 DEF TypeOK, LinkTypeOK
    <2>2. handled[d] <= Len(delivered[d])
      BY <1>2 DEF SpeechInv
    <2>3. QED
      BY <2>1, <2>2
  <1>4. delivered[d] # <<>>
    BY <1>2, <1>3
  <1>5. phase[d] # "none"
    BY <1>2, <1>4 DEF PipeInv, Pipes
  <1>6. c # NoClient
    BY Constants
  <1>7. d <= c
    BY <1>2, <1>5, <1>6 DEF ConnectionInv
  <1>8. QED
    BY <1>1, <1>2, <1>3, <1>7 DEF d

\* The speaker is fed in order.
LEMMA SpeechInvStep ==
  ASSUME ServiceInv, [Next]_vars
  PROVE  SpeechInv'
  <1>1. /\ TypeOK /\ LinkTypeOK /\ PipeInv /\ ConnectionInv /\ SpeechInv
        /\ [LinkNext]_linkVars
    BY LinkStep DEF ServiceInv, TypeOK
  <1>2. CASE UNCHANGED <<handled, soundQueue>>
    <2>1. ASSUME NEW c \in Client PROVE handled'[c] <= Len(delivered'[c])
      <3>1. /\ handled[c] \in Nat /\ Len(delivered[c]) \in Nat
            /\ handled[c] <= Len(delivered[c])
        BY <1>1 DEF SpeechInv, TypeOK, LinkTypeOK
      <3>2. Len(delivered[c]) <= Len(delivered'[c]) /\ Len(delivered'[c]) \in Nat
        <4>1. LinkTypeOK'
          BY <1>1, LinkTypesStep
        <4>2. delivered'[c] \in Seq(Nat)
          BY <4>1 DEF LinkTypeOK
        <4>3. QED
          BY <1>1, <4>2, Growth, LenProperties
      <3>3. QED
        BY <1>2, <3>1, <3>2
    <2>2. ASSUME NEW c \in Client, NEW i \in 1..handled[c]
          PROVE  delivered'[c][i] = delivered[c][i] /\ sent'[c][delivered[c][i]] = sent[c][delivered[c][i]]
      <3>1. /\ handled[c] \in Nat /\ Len(delivered[c]) \in Nat /\ Len(sent[c]) \in Nat
            /\ handled[c] <= Len(delivered[c]) /\ Len(delivered[c]) <= Len(sent[c])
        <4>1. handled \in [Client -> Nat] /\ delivered \in [Client -> Seq(Nat)]
              /\ sent \in [Client -> Seq(Msg)]
          BY <1>1 DEF TypeOK, LinkTypeOK
        <4>2. delivered[c] \in Seq(Nat) /\ sent[c] \in Seq(Msg)
          BY <4>1
        <4>3. handled[c] <= Len(delivered[c])
          BY <1>1 DEF SpeechInv
        <4>4. Len(delivered[c]) <= Len(sent[c])
          BY <1>1 DEF PipeInv, Pipes
        <4>5. QED
          BY <4>1, <4>2, <4>3, <4>4, LenProperties
      <3>2. i \in 1..Len(delivered[c]) /\ i \in 1..Len(sent[c])
        BY <3>1
      <3>3. delivered[c][i] = i
        BY <1>1, <3>2 DEF PipeInv, Pipes
      <3>4. delivered'[c][i] = delivered[c][i] /\ sent'[c][i] = sent[c][i]
        BY <1>1, <3>2, Growth
      <3>5. QED
        BY <3>3, <3>4, Zenon
    <2>3. SpeechInOrder'
      <3>1. ASSUME NEW c \in Client, NEW i \in 1..handled[c],
                   sent'[c][delivered'[c][i]].kind = "audio"
            PROVE  \E j \in 1..Len(soundQueue) : soundQueue[j] = <<c, delivered'[c][i]>>
        <4>1. delivered'[c][i] = delivered[c][i] /\ sent'[c][delivered[c][i]] = sent[c][delivered[c][i]]
          BY <2>2
        <4>2. sent[c][delivered[c][i]].kind = "audio"
          BY <3>1, <4>1, Zenon
        <4>3. \E j \in 1..Len(soundQueue) : soundQueue[j] = <<c, delivered[c][i]>>
          BY <1>1, <4>2 DEF SpeechInv, SpeechInOrder
        <4>4. QED
          BY <4>1, <4>3
      <3>2. \A i, j \in 1..Len(soundQueue) : i < j =>
              \/ soundQueue[i][1] < soundQueue[j][1]
              \/ soundQueue[i][1] = soundQueue[j][1] /\ soundQueue[i][2] < soundQueue[j][2]
        BY <1>1 DEF SpeechInv, SpeechInOrder
      <3>3. QED
        BY <1>2, <3>1, <3>2, Zenon DEF SpeechInOrder
    <2>4. QED
      BY <1>1, <1>2, <2>1, <2>3 DEF SpeechInv
  <1>3. ASSUME NEW c \in Client, HandleMessage(c) PROVE SpeechInv'
    <2> DEFINE k == handled[c] + 1
               m == sent[c][k]
    <2>1. /\ handled[c] \in Nat
          /\ delivered[c][k] = k
          /\ k \in 1..Len(delivered[c])
      BY <1>1, <1>3, NextMessage DEF HandleMessage
    <2>2. /\ handled' = [handled EXCEPT ![c] = k]
          /\ soundQueue' = IF m.kind = "audio" THEN Append(soundQueue, <<c, k>>) ELSE soundQueue
          /\ UNCHANGED <<sent, delivered>>
      BY <1>3, <2>1 DEF HandleMessage, linkVars
    <2>3. connection_context = c
      BY <1>1, <1>3 DEF HandleMessage, At, ConnectionInv, OneDispatcher
    <2>4. /\ soundQueue \in Seq(Client \X Nat) /\ Len(soundQueue) \in Nat
          /\ handled \in [Client -> Nat]
          /\ <<c, k>> \in Client \X Nat
      BY <1>1, <2>1 DEF TypeOK
    <2>5. /\ \A d \in Client : d # c => handled'[d] = handled[d]
          /\ handled'[c] = k
          /\ \A d \in Client : Len(delivered[d]) \in Nat /\ handled[d] \in Nat
      BY <1>1, <2>2, <2>4 DEF LinkTypeOK
    <2> DEFINE q == soundQueue
               r == soundQueue'
    <2>6. \A i \in 1..Len(q) : /\ q[i] \in Client \X Nat
                               /\ q[i][1] <= c
                               /\ q[i][2] <= handled[q[i][1]]
      BY <1>1, <2>3, Heard
    <2>7. /\ Len(r) \in Nat
          /\ \A i \in 1..Len(q) : i \in 1..Len(r) /\ r[i] = q[i]
          /\ \A i \in 1..Len(r) : i \notin 1..Len(q) =>
               /\ m.kind = "audio"
               /\ i = Len(q) + 1
               /\ r[i] = <<c, k>>
          /\ m.kind = "audio" => Len(q) + 1 \in 1..Len(r) /\ r[Len(q) + 1] = <<c, k>>
      <3>1. CASE m.kind = "audio"
        <4>1. r = Append(q, <<c, k>>)
          BY <2>2, <3>1
        <4>2. /\ Len(r) = Len(q) + 1
              /\ \A i \in 1..Len(q) : r[i] = q[i]
              /\ r[Len(q) + 1] = <<c, k>>
          BY <2>4, <4>1, Appended
        <4> HIDE DEF q, r, k, m
        <4>3. Len(q) \in Nat
          BY <2>4 DEF q
        <4>4. QED
          BY <3>1, <4>2, <4>3
      <3>2. CASE m.kind # "audio"
        BY <2>2, <2>4, <3>2
      <3>3. QED
        BY <3>1, <3>2
    <2> HIDE DEF q, r, k, m
    <2>8. \A d \in Client : handled'[d] <= Len(delivered'[d])
      BY <1>1, <2>1, <2>2, <2>5 DEF SpeechInv
    <2>9. \A i \in 1..Len(r) : r[i][2] \in 1..handled'[r[i][1]]
      <3>1. ASSUME NEW i \in 1..Len(r), i \in 1..Len(q) PROVE r[i][2] \in 1..handled'[r[i][1]]
        <4>1. r[i] = q[i] /\ q[i][1] \in Client /\ q[i][2] \in 1..handled[q[i][1]]
          BY <1>1, <2>6, <2>7, <3>1 DEF SpeechInv, q
        <4>2. k \in Nat /\ handled[c] < k
          BY <2>1 DEF k
        <4>3. QED
          BY <2>5, <4>1, <4>2
      <3>2. ASSUME NEW i \in 1..Len(r), i \notin 1..Len(q) PROVE r[i][2] \in 1..handled'[r[i][1]]
        <4>1. r[i][1] = c /\ r[i][2] = k /\ k \in 1..k
          BY <2>1, <2>7, <3>2 DEF k
        <4>2. QED
          BY <2>5, <4>1
      <3>3. QED
        BY <3>1, <3>2
    <2>10. ASSUME NEW i \in 1..Len(r), NEW j \in 1..Len(r), i < j
           PROVE  \/ r[i][1] < r[j][1]
                  \/ r[i][1] = r[j][1] /\ r[i][2] < r[j][2]
      <3>1. i \in 1..Len(q)
        <4>1. i # Len(q) + 1 \/ j \in 1..Len(q)
          BY <2>7, <2>10
        <4>2. Len(q) \in Nat
          BY <2>4 DEF q
        <4>3. QED
          BY <2>7, <2>10, <4>1, <4>2
      <3>2. CASE j \in 1..Len(q)
        BY <1>1, <2>7, <2>10, <3>1, <3>2 DEF SpeechInv, SpeechInOrder, q
      <3>3. CASE j \notin 1..Len(q)
        <4>1. r[j][1] = c /\ r[j][2] = k
          BY <2>7, <3>3
        <4>2. /\ r[i] = q[i] /\ q[i][1] <= c /\ q[i][2] <= handled[q[i][1]]
              /\ q[i][1] \in Nat /\ q[i][2] \in Nat /\ c \in Nat
          BY <2>6, <2>7, <3>1, Constants
        <4>3. k = handled[c] + 1 /\ handled[c] \in Nat
          BY <2>1 DEF k
        <4>4. QED
          BY <4>1, <4>2, <4>3, SMTT(30)
      <3>4. QED
        BY <3>2, <3>3
    <2>11. ASSUME NEW d \in Client, NEW i \in 1..handled'[d],
                  sent[d][delivered[d][i]].kind = "audio"
           PROVE  \E j \in 1..Len(r) : r[j] = <<d, delivered[d][i]>>
      <3>1. CASE i \in 1..handled[d]
        <4>1. PICK j \in 1..Len(q) : q[j] = <<d, delivered[d][i]>>
          BY <1>1, <2>11, <3>1 DEF SpeechInv, SpeechInOrder, q
        <4>2. QED
          BY <2>7, <4>1
      <3>2. CASE i \notin 1..handled[d]
        <4>1. d = c /\ i = k
          BY <2>1, <2>5, <3>2 DEF k
        <4>2. delivered[d][i] = k /\ m.kind = "audio"
          BY <2>1, <2>11, <4>1 DEF k, m
        <4>3. QED
          BY <2>7, <4>1, <4>2
      <3>3. QED
        BY <3>1, <3>2
    <2>12. SpeechInOrder'
      <3>1. \A i, j \in 1..Len(r) : i < j =>
              \/ r[i][1] < r[j][1]
              \/ r[i][1] = r[j][1] /\ r[i][2] < r[j][2]
        BY <2>10, Zenon
      <3>2. \A d \in Client : \A i \in 1..handled'[d] :
              sent[d][delivered[d][i]].kind = "audio" =>
                \E j \in 1..Len(r) : r[j] = <<d, delivered[d][i]>>
        BY <2>11, Zenon
      <3>3. sent' = sent /\ delivered' = delivered
        BY <2>2
      <3>4. QED
        BY <3>1, <3>2, <3>3, Zenon DEF SpeechInOrder, r
    <2>13. QED
      BY <2>8, <2>9, <2>12 DEF SpeechInv, r
  <1>4. QED
    BY <1>2, <1>3, FeedingSteps

-----------------------------------------------------------------------------
(* RequestInv.  Either no request is queued, which Kept describes, or one     *)
(* thread's pending request is, which Sending describes.                      *)

\* A send lengthens its queue.
LEMMA Queueing ==
  ASSUME LinkTypeOK, NEW t \in Caller, SendOk(t)
  PROVE  /\ pending[t].client \in Client
         /\ cmds[pending[t].client] \in Seq(Cmd \cup {Disconnect})
         /\ cmds'[pending[t].client] = Append(cmds[pending[t].client], pending[t].cmd)
         /\ \A c \in Client : c # pending[t].client => cmds'[c] = cmds[c]
         /\ cmds' # cmds
         /\ \A c \in Client : \A cmd : Queued(c, cmd) => \E i \in 1..Len(cmds'[c]) : cmds'[c][i] = cmd
         /\ \E i \in 1..Len(cmds'[pending[t].client]) :
              cmds'[pending[t].client][i] = pending[t].cmd
         /\ \A c \in Client : \A cmd :
              (\E i \in 1..Len(cmds'[c]) : cmds'[c][i] = cmd) =>
                 Queued(c, cmd) \/ (c = pending[t].client /\ cmd = pending[t].cmd)
  <1> DEFINE d == pending[t].client
             x == pending[t].cmd
             q == cmds[d]
  <1>1. pending[t] \in [client : Client, cmd : Cmd \cup {Disconnect}]
    BY DEF SendOk, LinkTypeOK
  <1>2. d \in Client /\ x \in Cmd \cup {Disconnect} /\ q \in Seq(Cmd \cup {Disconnect})
    BY <1>1 DEF LinkTypeOK
  <1>3. cmds'[d] = Append(q, x) /\ \A c \in Client : c # d => cmds'[c] = cmds[c]
    BY <1>2 DEF SendOk, LinkTypeOK
  <1>4. /\ Len(q) \in Nat
        /\ Len(Append(q, x)) = Len(q) + 1
        /\ \A i \in 1..Len(q) : Append(q, x)[i] = q[i]
        /\ Append(q, x)[Len(q) + 1] = x
    BY <1>2, Appended
  <1> DEFINE r == Append(q, x)
  <1>5. /\ \A i \in 1..Len(q) : i \in 1..Len(r) /\ r[i] = q[i]
        /\ Len(q) + 1 \in 1..Len(r) /\ r[Len(q) + 1] = x
        /\ \A i \in 1..Len(r) : i \in 1..Len(q) \/ i = Len(q) + 1
    <2> HIDE DEF q, x
    <2>1. /\ Len(r) = Len(q) + 1 /\ Len(q) \in Nat
          /\ \A i \in 1..Len(q) : r[i] = q[i]
          /\ r[Len(q) + 1] = x
      BY <1>4
    <2> HIDE DEF r
    <2>2. QED
      BY <2>1
  <1>6. cmds'[d] # cmds[d]
    BY <1>3, <1>4
  <1>7. cmds'[d] = r
    BY <1>3
  <1> HIDE DEF d, x, q, r
  <1>8. \A c \in Client : \A cmd : Queued(c, cmd) => \E i \in 1..Len(cmds'[c]) : cmds'[c][i] = cmd
    BY <1>3, <1>5, <1>7 DEF Queued, q
  <1>9. \E i \in 1..Len(cmds'[d]) : cmds'[d][i] = x
    BY <1>5, <1>7
  <1>10. ASSUME NEW c \in Client, NEW n \in 1..Len(cmds'[c])
         PROVE  Queued(c, cmds'[c][n]) \/ (c = d /\ cmds'[c][n] = x)
    <2>1. CASE c = d
      <3>1. n \in 1..Len(r) /\ cmds'[c][n] = r[n]
        BY <1>7, <1>10, <2>1
      <3>2. CASE n \in 1..Len(q)
        <4>1. r[n] = cmds[c][n] /\ n \in 1..Len(cmds[c])
          BY <1>5, <2>1, <3>2 DEF q
        <4>2. QED
          BY <3>1, <4>1 DEF Queued
      <3>3. CASE n = Len(q) + 1
        BY <1>5, <2>1, <3>1, <3>3
      <3>4. QED
        BY <1>5, <3>1, <3>2, <3>3
    <2>2. CASE c # d
      <3>1. cmds'[c] = cmds[c]
        BY <1>3, <2>2
      <3>2. QED
        BY <1>10, <3>1 DEF Queued
    <2>3. QED
      BY <2>1, <2>2
  <1>11. QED
    BY <1>2, <1>3, <1>6, <1>8, <1>9, <1>10, SMTT(30) DEF d, x, q

\* A send of the application thread gets it past its request.
LEMMA MainSending ==
  ASSUME LinkTypeOK, NEW from, NEW to, NEW err, NEW c, NEW cmd,
         SendRequest(from, to, err, c, cmd), cmds' # cmds
  PROVE  SendOk(Main) /\ svc = from /\ svc' = to
  BY SendRequestSteps DEF SendCheck, SendErr, linkVars

\* What a step that queues a request does.
MainSends ==
  /\ SendOk(Main)
  /\ UNCHANGED <<starts, connection_context, net_client, audio>>
  /\ \/ /\ svc = "startConnection" /\ svc' = "startSession"
        /\ session_context' = session_context
        /\ pending[Main].cmd = Request(1, 0)
     \/ /\ svc = "startSession" /\ svc' = "awaitSession"
        /\ session_context' = session_context
        /\ pending[Main].cmd = Request(100, starts)
     \/ /\ svc = "greet" /\ svc' = "openReader"
        /\ session_context' = session_context
        /\ pending[Main].cmd = Request(300, session_context.sid)
     \/ /\ svc = "finishSession" /\ svc' = "finishConnection"
        /\ session_context' = NoSession
        /\ pending[Main].cmd = Request(102, session_context.sid)

AudioSends(s) ==
  /\ SendOk(s)
  /\ UNCHANGED svcVars
  /\ audio[s] = "send"
  /\ audio' = [audio EXCEPT ![s] = "check"]

\* What is queued is queued by the application thread or an audio thread.
LEMMA Sending ==
  ASSUME ServiceInv, [Next]_vars, cmds' # cmds
  PROVE  MainSends \/ \E s \in Session : AudioSends(s)
  <1> USE DEF contexts, svcVars, dispVars, audioVars
  <1>0. /\ TypeOK /\ LinkTypeOK /\ ContextInv /\ MainPending
    BY DEF ServiceInv, TypeOK, PendingInv
  <1>1. CASE ServiceStep
    <2>1. CASE StartConnection
      <3>1. /\ SendOk(Main) /\ svc = "startConnection"
            /\ svc' = IF session_context = NoSession THEN "startSession" ELSE "greet"
            /\ UNCHANGED <<starts, contexts, audio>>
        BY <1>0, <2>1, MainSending DEF StartConnection
      <3>2. session_context = NoSession
        BY <1>0, <3>1 DEF ContextInv
      <3>3. pending[Main].cmd = Request(1, 0)
        BY <1>0, <3>1 DEF MainPending, SendOk
      <3>4. QED
        BY <3>1, <3>2, <3>3 DEF MainSends
    <2>2. CASE StartSession
      <3>1. /\ SendOk(Main) /\ svc = "startSession" /\ svc' = "awaitSession"
            /\ UNCHANGED <<starts, contexts, audio>>
        BY <1>0, <2>2, MainSending DEF StartSession
      <3>2. pending[Main].cmd = Request(100, starts)
        BY <1>0, <3>1 DEF MainPending, SendOk
      <3>3. QED
        BY <3>1, <3>2 DEF MainSends
    <2>3. CASE Greet
      <3>1. /\ SendOk(Main) /\ svc = "greet" /\ svc' = "openReader"
            /\ UNCHANGED <<starts, contexts, audio>>
        BY <1>0, <2>3, MainSending DEF Greet
      <3>2. pending[Main].cmd = Request(300, session_context.sid)
        BY <1>0, <3>1 DEF MainPending, SendOk
      <3>3. QED
        BY <3>1, <3>2 DEF MainSends
    <2>4. CASE FinishSession
      <3>1. /\ SendOk(Main) /\ svc = "finishSession" /\ svc' = "finishConnection"
            /\ UNCHANGED <<starts, connection_context, net_client, audio>>
        BY <1>0, <2>4, MainSending DEF FinishSession
      <3>2. pending[Main].cmd = Request(102, session_context.sid)
        BY <1>0, <3>1 DEF MainPending, SendOk
      <3>3. session_context' = NoSession
        BY <2>4, <3>1 DEF FinishSession
      <3>4. QED
        BY <3>1, <3>2, <3>3 DEF MainSends
    <2>5. QED
      BY <1>1, <2>1, <2>2, <2>3, <2>4
         DEF ServiceStep, SessionStarted, SessionTimeout, OpenReader, JoinMic,
             FinishConnection, JoinNet, linkVars
  <1>2. CASE AppCall
    BY <1>2 DEF AppCall, StartConnected, StartRefused, StartConnect, StartMicrophoneChat, Stop,
                Connect, linkVars
  <1>3. ASSUME NEW s \in Session, Audio(s)
        PROVE  AudioSends(s)
    BY <1>3 DEF AudioSends, Audio, AudioCheck, AudioSkip, AudioRead, AudioSend, AudioAt,
                SendCheck, SendErr, linkVars
  <1>4. QED
    BY <1>1, <1>2, <1>3, Threads
       DEF vars, linkVars, Dispatch, CheckConnectted, HandleMessage, RecvErr,
           NetStep, Take, Fail, Receive, End, ServerSend

\* What a step that queues none keeps.
KeptBy(s) ==
  audio'[s] \in {"check", "read", "send"} =>
    /\ net_client'[s] = net_client[s]
    /\ \/ audio[s] \in {"check", "read", "send"}
       \/ svc = "openReader" /\ session_context # NoSession /\ s = session_context.sid
KeptInHand ==
  /\ starts' \in Nat /\ starts <= starts'
  /\ svc' \in {"startConnection", "startSession"} =>
       \/ starts < starts'
       \/ svc \in {"startConnection", "startSession"} /\ starts' = starts
  /\ svc' = "startConnection" =>
       \/ svc = "startConnection" /\ connection_context' = connection_context
       \/ connection_context' \in Client /\ phase[connection_context'] = "none"
  /\ svc' = "awaitSession" =>
       svc = "awaitSession" /\ starts' = starts /\ connection_context' = connection_context
  /\ svc' = "openReader" =>
       /\ svc = "openReader"
       /\ connection_context' = connection_context
       /\ session_context' = session_context
  /\ session_context' # NoSession =>
       /\ connection_context' = connection_context
       /\ \/ session_context' = session_context
          \/ svc = "awaitSession" /\ session_context'.sid = starts

\* Where nothing is queued, what is in hand changes in these ways only.
LEMMA Kept ==
  ASSUME ServiceInv, [Next]_vars, cmds' = cmds
  PROVE  KeptInHand /\ \A s \in Session : KeptBy(s)
  <1> USE DEF contexts, svcVars, dispVars, audioVars
  <1>0. /\ TypeOK /\ LinkTypeOK /\ ContextInv /\ AudioThreadOwned
        /\ audio \in [Session -> {"none", "check", "read", "send", "done"}]
        /\ starts \in Nat
    BY InHand DEF ServiceInv, TypeOK
  <1>1. ~SendOk(Main) /\ \A s \in Session : ~SendOk(s)
    BY <1>0, Queueing, Constants
  <1>2. CASE ServiceStep
    <2>1. CASE StartConnection \/ StartSession \/ Greet \/ FinishSession
      <3>1. /\ UNCHANGED <<starts, connection_context, net_client, audio>>
            /\ \/ svc = "startConnection" /\ svc' \in {"startConnection", "idle"}
               \/ svc = "startSession" /\ svc' \in {"startSession", "idle"}
               \/ svc = "greet" /\ svc' \in {"greet", "idle"}
               \/ svc = "finishSession" /\ svc' \in {"finishSession", "finishConnection"}
            /\ session_context' \in {session_context, NoSession}
        BY <1>1, <2>1, SendRequestSteps DEF StartConnection, StartSession, Greet, FinishSession
      <3>2. QED
        BY <1>0, <3>1 DEF KeptInHand, KeptBy
    <2>2. CASE SessionStarted
      <3>1. \A s \in Session : audio'[s] \notin {"check", "read", "send"}
        BY <1>0, <2>2 DEF SessionStarted, GoTo, ContextInv, AudioThreadOwned
      <3>2. KeptInHand
        BY <1>0, <2>2 DEF SessionStarted, GoTo, KeptInHand
      <3>3. QED
        BY <3>1, <3>2 DEF KeptBy
    <2>3. CASE SessionTimeout \/ JoinMic
      BY <1>0, <2>3 DEF SessionTimeout, JoinMic, GoTo, KeptInHand, KeptBy
    <2>4. CASE OpenReader
      <3>1. session_context # NoSession
        BY <1>0, <2>4 DEF OpenReader, GoTo, ContextInv
      <3>2. KeptInHand
        BY <1>0, <2>4 DEF OpenReader, GoTo, KeptInHand
      <3>3. \A s \in Session : KeptBy(s)
        BY <1>0, <2>4, <3>1 DEF OpenReader, GoTo, KeptBy
      <3>4. QED
        BY <3>2, <3>3
    <2>5. CASE FinishConnection \/ JoinNet
      BY <1>0, <2>5 DEF FinishConnection, JoinNet, GoTo, KeptInHand, KeptBy, ContextInv
    <2>6. QED
      BY <1>2, <2>1, <2>2, <2>3, <2>4, <2>5 DEF ServiceStep
  <1>3. CASE AppCall
    <2>1. CASE StartConnected \/ StartRefused \/ StartMicrophoneChat \/ Stop
      BY <1>0, <2>1 DEF StartConnected, StartRefused, StartMicrophoneChat, Stop, GoTo,
                        KeptInHand, KeptBy
    <2>2. ASSUME NEW c \in Client, StartConnect(c) PROVE KeptInHand /\ \A s \in Session : KeptBy(s)
      <3>1. session_context = NoSession
        BY <1>0, <2>2 DEF StartConnect, ContextInv
      <3>2. QED
        BY <1>0, <2>2, <3>1 DEF StartConnect, Connect, GoTo, KeptInHand, KeptBy
    <2>3. QED
      BY <1>3, <2>1, <2>2 DEF AppCall
  <1>4. CASE UNCHANGED svcVars
    <2>1. KeptInHand
      BY <1>0, <1>4 DEF KeptInHand
    <2>2. \A s \in Session : audio'[s] \in {"check", "read", "send"} =>
                               audio[s] \in {"check", "read", "send"}
      <3>1. ASSUME NEW s \in Session, Audio(s), NEW t \in Session,
                   audio'[t] \in {"check", "read", "send"}
            PROVE  audio[t] \in {"check", "read", "send"}
        BY <1>0, <3>1 DEF Audio, AudioCheck, AudioSkip, AudioRead, AudioSend, AudioAt
      <3>2. audio' = audio \/ \E s \in Session : Audio(s)
        <4>1. ServiceStep => audio' = audio \/ svc' # svc
          BY SendRequestSteps
             DEF ServiceStep, StartConnection, StartSession, SessionStarted, SessionTimeout,
                 Greet, OpenReader, JoinMic, FinishSession, FinishConnection, JoinNet, GoTo
        <4>2. AppCall => audio' = audio
          BY DEF AppCall, StartConnected, StartRefused, StartConnect, StartMicrophoneChat, Stop
        <4>3. QED
          BY <1>4, <4>1, <4>2, Threads
             DEF vars, Dispatch, CheckConnectted, HandleMessage, RecvErr
      <3>3. QED
        BY <3>1, <3>2
    <2>3. QED
      BY <1>4, <2>1, <2>2 DEF KeptBy
  <1>5. QED
    BY <1>2, <1>3, <1>4, Threads
       DEF vars, Dispatch, CheckConnectted, HandleMessage, RecvErr,
           Audio, AudioCheck, AudioSkip, AudioRead, AudioSend

\* The parts a step starts from, and the numbers among them.
LEMMA Before ==
  ASSUME ServiceInv
  PROVE  /\ TypeOK /\ LinkTypeOK /\ PipeInv /\ ConnectionInv /\ ContextInv /\ PendingInv
         /\ AudioThreadOwned
         /\ SidsDrawn /\ OpenedFirst /\ SessionAsked /\ Greeted /\ QueueOrder
         /\ starts \in Nat
         /\ svc \in Starting => starts \in Nat \ {0}
         /\ session_context # NoSession =>
              /\ session_context.sid \in Session /\ session_context.sid \in Nat
              /\ connection_context \in Client
              /\ net_client[session_context.sid] = connection_context
              /\ session_context.sid <= starts
         /\ audio \in [Session -> {"none", "check", "read", "send", "done"}]
         /\ connection_context \in Client \cup {NoClient}
         /\ svc \in {"startConnection", "startSession", "awaitSession"} =>
              /\ connection_context \in Client
              /\ session_context = NoSession
              /\ starts \in Session
  <1>1. /\ TypeOK /\ LinkTypeOK /\ PipeInv /\ ConnectionInv /\ ContextInv /\ PendingInv
        /\ AudioThreadOwned
        /\ SidsDrawn /\ OpenedFirst /\ SessionAsked /\ Greeted /\ QueueOrder
    BY DEF ServiceInv, RequestInv, TypeOK
  <1>2. /\ audio \in [Session -> {"none", "check", "read", "send", "done"}]
        /\ connection_context \in Client \cup {NoClient}
    BY <1>1 DEF TypeOK
  <1>3. starts \in Nat /\ (svc \in Starting => starts \in Nat \ {0})
    BY <1>1, InHand DEF ContextInv
  <1>4. QED
    BY <1>1, <1>2, <1>3, InHand, Constants

\* The request a step queues: for the connection in use, of the caller's kind.
LEMMA Sender ==
  ASSUME ServiceInv, NEW t \in Caller, SendOk(t)
  PROVE  /\ connection_context \in Client
         /\ pending[t] # None
         /\ pending[t].client = connection_context
         /\ pending[t].cmd \in Cmd
         /\ phase[connection_context] # "none"
         /\ \A c \in Client : \A cmd :
              Queued(c, cmd) => \E i \in 1..Len(cmds'[c]) : cmds'[c][i] = cmd
         /\ \E i \in 1..Len(cmds'[connection_context]) :
              cmds'[connection_context][i] = pending[t].cmd
         /\ \A c \in Client : \A cmd :
              (\E i \in 1..Len(cmds'[c]) : cmds'[c][i] = cmd) =>
                 Queued(c, cmd) \/ (c = connection_context /\ cmd = pending[t].cmd)
         /\ t # Main =>
              /\ t \in Session
              /\ session_context # NoSession
              /\ session_context.sid = t
              /\ svc \notin {"startConnection", "startSession", "awaitSession",
                            "finishSession", "finishConnection", "joinNet"}
              /\ pending[t].cmd = Request(200, t)
  <1>1. pending[t] # None
    BY DEF SendOk
  <1>2. /\ connection_context \in Client
        /\ pending[t].client = connection_context
        /\ pending[t].cmd \in Cmd
        /\ phase[connection_context] # "none"
        /\ t # Main =>
             /\ t \in Session
             /\ session_context # NoSession
             /\ session_context.sid = t
             /\ svc \notin {"startConnection", "startSession", "awaitSession",
                           "finishSession", "finishConnection", "joinNet"}
             /\ pending[t].cmd = Request(200, t)
    BY <1>1, Target DEF ServiceInv
  <1>3. LinkTypeOK
    BY Before
  <1>4. QED
    BY <1>1, <1>2, <1>3, Queueing

\* Session ids stay fresh until StartSession is queued.
LEMMA SidsDrawnStep ==
  ASSUME ServiceInv, [Next]_vars
  PROVE  SidsDrawn'
  <1> DEFINE Drawn(cmd) == /\ cmd \in ServiceCmd
                           /\ cmd.sid \in Nat
                           /\ cmd.sid <= starts
                           /\ svc \in {"startConnection", "startSession"} => cmd.sid < starts
  <1>1. \A c \in Client : \A cmd : Queued(c, cmd) => Drawn(cmd)
    <2>1. \A c \in Client : \A i \in 1..Len(cmds[c]) : Drawn(cmds[c][i])
      BY Before, Requests, ServiceAssumption DEF SidsDrawn
    <2>2. QED
      BY <2>1 DEF Queued
  <1>2. CASE cmds' = cmds
    <2>1. KeptInHand
      BY <1>2, Kept
    <2>2. ASSUME NEW c \in Client, NEW i \in 1..Len(cmds[c])
          PROVE  /\ cmds[c][i] \in ServiceCmd
                 /\ cmds[c][i].sid <= starts'
                 /\ svc' \in {"startConnection", "startSession"} => cmds[c][i].sid < starts'
      <3>1. Drawn(cmds[c][i])
        BY <1>1 DEF Queued
      <3>2. starts \in Nat
        BY Before
      <3>3. QED
        BY <2>1, <3>1, <3>2 DEF KeptInHand
    <2>3. QED
      BY <1>2, <2>2 DEF SidsDrawn
  <1>3. ASSUME NEW t \in Caller, SendOk(t), starts' = starts, pending[t].cmd.sid <= starts,
               \/ svc' \notin {"startConnection", "startSession"}
               \/ svc = "startConnection" /\ pending[t].cmd.sid < starts
        PROVE  SidsDrawn'
    <2>1. pending[t].cmd \in ServiceCmd
      BY <1>3, Sender, ServiceAssumption
    <2>2. ASSUME NEW c \in Client, NEW i \in 1..Len(cmds'[c])
          PROVE  /\ cmds'[c][i] \in ServiceCmd
                 /\ cmds'[c][i].sid <= starts'
                 /\ svc' \in {"startConnection", "startSession"} => cmds'[c][i].sid < starts'
      <3>1. Queued(c, cmds'[c][i]) \/ cmds'[c][i] = pending[t].cmd
        BY <1>3, Sender
      <3>2. Drawn(cmds'[c][i]) \/ cmds'[c][i] = pending[t].cmd
        BY <1>1, <3>1
      <3>3. QED
        BY <1>3, <2>1, <3>2
    <2>3. QED
      BY <2>2 DEF SidsDrawn
  <1>4. CASE cmds' # cmds
    <2>1. CASE MainSends
      <3>1. Main \in Caller
        BY Constants
      <3>2. /\ SendOk(Main) /\ starts' = starts
            /\ \/ /\ svc = "startConnection" /\ svc' = "startSession"
                  /\ pending[Main].cmd = Request(1, 0)
               \/ /\ svc = "startSession" /\ svc' = "awaitSession"
                  /\ pending[Main].cmd = Request(100, starts)
               \/ /\ svc = "greet" /\ svc' = "openReader"
                  /\ pending[Main].cmd = Request(300, session_context.sid)
               \/ /\ svc = "finishSession" /\ svc' = "finishConnection"
                  /\ pending[Main].cmd = Request(102, session_context.sid)
        BY <2>1 DEF MainSends
      <3>3. svc \in {"greet", "finishSession"} => session_context.sid <= starts
        BY Before DEF ContextInv
      <3>4. starts \in Nat /\ (svc = "startConnection" => 0 < starts)
        BY Before DEF Starting
      <3>5. pending[Main].cmd.sid <= starts
        BY <3>2, <3>3, <3>4, Requests
      <3>6. svc = "startConnection" => pending[Main].cmd.sid < starts
        BY <3>2, <3>4, Requests
      <3>7. QED
        BY <1>3, <3>1, <3>2, <3>5, <3>6
    <2>2. ASSUME NEW s \in Session, AudioSends(s) PROVE SidsDrawn'
      <3>1. /\ s \in Caller /\ s # Main /\ SendOk(s)
            /\ svc' = svc /\ starts' = starts
        BY <2>2, Constants DEF AudioSends, svcVars
      <3>2. /\ session_context # NoSession /\ session_context.sid = s
            /\ svc \notin {"startConnection", "startSession"}
            /\ pending[s].cmd = Request(200, s)
        BY <3>1, Sender
      <3>3. pending[s].cmd.sid <= starts
        BY <3>2, Before, Requests
      <3>4. QED
        BY <1>3, <3>1, <3>2, <3>3
    <2>3. QED
      BY <1>4, <2>1, <2>2, Sending
  <1>5. QED
    BY <1>2, <1>4

\* Only start opens a connection.
LEMMA Opening ==
  ASSUME TypeOK, [Next]_vars, NEW c \in Client, phase[c] = "none", phase'[c] # "none"
  PROVE  StartConnect(c)
  <1>1. phase \in [Client -> {"none", "up", "done"}] /\ phase' # phase
    BY DEF TypeOK, LinkTypeOK
  <1>2. CASE ServiceStep
    BY <1>1, <1>2, SendFrame
       DEF ServiceStep, StartConnection, StartSession, SessionStarted, SessionTimeout,
           Greet, OpenReader, JoinMic, FinishSession, FinishConnection, JoinNet, linkVars
  <1>3. CASE AppCall
    BY <1>1, <1>3 DEF AppCall, StartConnected, StartRefused, StartConnect, StartMicrophoneChat,
                      Stop, Connect, linkVars
  <1>4. CASE \E d \in Client : NetStep(d)
    BY <1>1, <1>4 DEF NetStep, Take, Fail, Receive, End, ServerSend
  <1>5. QED
    BY <1>1, <1>2, <1>3, <1>4, Threads
       DEF vars, linkVars, Dispatch, CheckConnectted, HandleMessage, RecvErr,
           Audio, AudioCheck, AudioSkip, AudioRead, AudioSend, SendCheck, SendOk, SendErr

\* Nobody gets past the check on a lost connection.
LEMMA Lost ==
  ASSUME LinkTypeOK, [LinkNext]_linkVars, NEW c \in Client, ~connected[c], phase[c] # "none",
         \A t \in Caller : pending[t] # None => pending[t].client # c
  PROVE  /\ ~connected'[c]
         /\ \A t \in Caller : pending'[t] # None => pending'[t].client # c
  <1>1. /\ connected \in [Client -> BOOLEAN]
        /\ pending \in [Caller -> [client : Client, cmd : Cmd \cup {Disconnect}] \cup {None}]
    BY DEF LinkTypeOK
  <1>2. ASSUME NEW d \in Client, Connect(d) \/ Fail(d)
        PROVE  ~connected'[c] /\ pending' = pending
    BY <1>1, <1>2 DEF Connect, Fail
  <1>3. ASSUME NEW t \in Caller, NEW d \in Client, NEW cmd \in Cmd \cup {Disconnect},
               SendCheck(t, d, cmd)
        PROVE  /\ connected' = connected
               /\ \A u \in Caller : pending'[u] # None => pending'[u].client # c
    <2>1. d # c
      BY <1>3 DEF SendCheck
    <2>2. QED
      BY <1>1, <1>3, <2>1 DEF SendCheck
  <1>4. ASSUME NEW t \in Caller, SendOk(t) \/ SendErr(t)
        PROVE  /\ connected' = connected
               /\ \A u \in Caller : pending'[u] # None => pending'[u].client # c
    BY <1>1, <1>4 DEF SendOk, SendErr
  <1>5. CASE UNCHANGED <<connected, pending>>
    BY <1>5
  <1>6. QED
    BY <1>2, <1>3, <1>4, <1>5 DEF LinkNext, linkVars, Take, Receive, End, ServerSend

\* No queue gets shorter, and one that is sent to does not stay empty.
LEMMA StillEmpty ==
  ASSUME ServiceInv, [Next]_vars, NEW c \in Client, cmds'[c] = <<>>
  PROVE  /\ cmds[c] = <<>>
         /\ \A t \in Caller : SendOk(t) => connection_context # c
  <1>1. ASSUME NEW t \in Caller, SendOk(t) PROVE cmds[c] = <<>> /\ connection_context # c
    <2>1. \A cmd : ~\E i \in 1..Len(cmds'[c]) : cmds'[c][i] = cmd
      OBVIOUS
    <2>2. connection_context # c
      BY <1>1, <2>1, Sender
    <2>3. cmds'[c] = cmds[c]
      BY <1>1, <2>2, Sender, Queueing, Before
    <2>4. QED
      BY <2>2, <2>3
  <1>2. cmds' # cmds => \E t \in Caller : SendOk(t)
    BY Sending, Constants DEF MainSends, AudioSends
  <1>3. QED
    BY <1>1, <1>2

\* StartConnection is the first request of its connection.
LEMMA OpenedFirstStep ==
  ASSUME ServiceInv, [Next]_vars
  PROVE  OpenedFirst'
  <1>1. ASSUME svc' = "startConnection" PROVE cmds'[connection_context'] = <<>>
    <2>1. cmds' = cmds
      <3>1. CASE MainSends
        BY <1>1, <3>1 DEF MainSends
      <3>2. ASSUME NEW s \in Session, AudioSends(s) PROVE FALSE
        BY <1>1, <3>2, Sender, Constants DEF AudioSends, svcVars
      <3>3. QED
        BY <3>1, <3>2, Sending
    <2>2. CASE svc = "startConnection" /\ connection_context' = connection_context
      BY <2>1, <2>2, Before DEF OpenedFirst
    <2>3. CASE connection_context' \in Client /\ phase[connection_context'] = "none"
      BY <2>1, <2>3, Before DEF PipeInv, Pipes
    <2>4. QED
      BY <1>1, <2>1, <2>2, <2>3, Kept DEF KeptInHand
  <1>2. ASSUME NEW c \in Client, cmds'[c] = <<>>
        PROVE  \/ phase'[c] = "none"
               \/ svc' = "startConnection" /\ connection_context' = c
               \/ /\ ~connected'[c]
                  /\ \A t \in Caller : pending'[t] # None => pending'[t].client # c
    <2>1. /\ cmds[c] = <<>>
          /\ \A t \in Caller : SendOk(t) => connection_context # c
      BY <1>2, StillEmpty
    <2>2. CASE phase[c] = "none"
      <3>1. phase'[c] # "none" => StartConnect(c)
        BY <2>2, Before, Opening
      <3>2. QED
        BY <3>1 DEF StartConnect, GoTo
    <2>3. CASE svc = "startConnection" /\ connection_context = c
      <3>1. \A s \in Session : pending[s] = None
        BY <2>3, Before DEF AudioThreadOwned, PendingInv
      <3>2. CASE StartConnection
        <4>1. CASE svc' = "startConnection"
          BY <2>3, <3>2, <4>1 DEF StartConnection, contexts
        <4>2. CASE pending[Main] = None /\ ~connected[c] /\ UNCHANGED linkVars
          BY <3>1, <4>2, Constants DEF linkVars
        <4>3. CASE SendErr(Main)
          <5>1. /\ pending[Main] # None /\ pending[Main].client = c
                /\ phase[c] = "done"
            BY <2>3, <4>3, Before DEF SendErr, PendingInv, MainPending
          <5>2. ~connected'[c]
            BY <4>3, <5>1, Before DEF SendErr, PipeInv, Pipes
          <5>3. \A t \in Caller : pending'[t] = None
            BY <3>1, <4>3, Before, Constants DEF SendErr, LinkTypeOK
          <5>4. QED
            BY <5>2, <5>3
        <4>4. \/ svc' = "startConnection"
              \/ pending[Main] = None /\ ~connected[c] /\ UNCHANGED linkVars
              \/ SendErr(Main)
          BY <2>1, <2>3, <3>2, SendRequestSteps, Constants DEF StartConnection
        <4>5. QED
          BY <4>1, <4>2, <4>3, <4>4
      <3>3. CASE UNCHANGED svcVars
        BY <2>3, <3>3 DEF svcVars
      <3>4. QED
        BY <2>3, <3>2, <3>3, SendRequestSteps, Threads
           DEF vars, ServiceStep, StartSession, SessionStarted, SessionTimeout, Greet, OpenReader,
               JoinMic, FinishSession, FinishConnection, JoinNet, GoTo,
               AppCall, StartConnected, StartRefused, StartConnect, StartMicrophoneChat, Stop,
               Dispatch, CheckConnectted, HandleMessage, RecvErr,
               Audio, AudioCheck, AudioSkip, AudioRead, AudioSend
    <2>4. CASE /\ ~connected[c] /\ phase[c] # "none"
               /\ \A t \in Caller : pending[t] # None => pending[t].client # c
      <3>1. LinkTypeOK /\ [LinkNext]_linkVars
        BY Before, LinkStep
      <3>2. QED
        BY <2>4, <3>1, Lost
    <2>5. QED
      BY <2>1, <2>2, <2>3, <2>4, Before DEF OpenedFirst
  <1>3. QED
    BY <1>1, <1>2 DEF OpenedFirst

\* What is queued stays, and a step can only add the request it sends.
LEMMA QueuedStep ==
  ASSUME ServiceInv, [Next]_vars, NEW c \in Client, NEW cmd
  PROVE  /\ Queued(c, cmd) => \E i \in 1..Len(cmds'[c]) : cmds'[c][i] = cmd
         /\ (\E i \in 1..Len(cmds'[c]) : cmds'[c][i] = cmd) =>
              \/ Queued(c, cmd)
              \/ MainSends /\ cmd = pending[Main].cmd
              \/ \E s \in Session : AudioSends(s) /\ cmd = pending[s].cmd
  <1>1. CASE cmds' = cmds
    BY <1>1 DEF Queued
  <1>2. CASE MainSends
    BY <1>2, Sender, Constants DEF MainSends
  <1>3. ASSUME NEW s \in Session, AudioSends(s)
        PROVE  /\ Queued(c, cmd) => \E i \in 1..Len(cmds'[c]) : cmds'[c][i] = cmd
               /\ (\E i \in 1..Len(cmds'[c]) : cmds'[c][i] = cmd) =>
                    Queued(c, cmd) \/ cmd = pending[s].cmd
    BY <1>3, Sender, Constants DEF AudioSends
  <1>4. QED
    BY <1>1, <1>2, <1>3, Sending

\* FinishSession is queued when the session is given up, and only then.
LEMMA Unfinished ==
  ASSUME ServiceInv, [Next]_vars, svc # "finishSession" \/ session_context' # NoSession,
         NEW c \in Client, NEW s, ~Queued(c, Request(102, s))
  PROVE  ~\E i \in 1..Len(cmds'[c]) : cmds'[c][i] = Request(102, s)
  <1>1. MainSends => pending[Main].cmd # Request(102, s)
    BY Requests DEF MainSends
  <1>2. \A t \in Session : AudioSends(t) => pending[t].cmd # Request(102, s)
    BY Sender, Requests, Constants DEF AudioSends
  <1>3. QED
    BY <1>1, <1>2, QueuedStep

\* A session in hand was asked for and is not finished.
LEMMA SessionAskedStep ==
  ASSUME ServiceInv, [Next]_vars
  PROVE  SessionAsked'
  <1> DEFINE Asks(c, s) == /\ \E i \in 1..Len(cmds'[c]) : cmds'[c][i] = Request(100, s)
                           /\ \A d \in Client :
                                ~\E i \in 1..Len(cmds'[d]) : cmds'[d][i] = Request(102, s)
  <1>1. ASSUME svc = "awaitSession" PROVE Asks(connection_context, starts)
    BY <1>1, Before, QueuedStep, Unfinished DEF SessionAsked
  <1>2. ASSUME session_context # NoSession, svc # "finishSession" \/ session_context' # NoSession
        PROVE  Asks(connection_context, session_context.sid)
    BY <1>2, Before, QueuedStep, Unfinished DEF SessionAsked
  <1>3. CASE cmds' = cmds
    <2>1. KeptInHand
      BY <1>3, Kept
    <2>2. svc' = "awaitSession" => Asks(connection_context', starts')
      BY <1>1, <2>1 DEF KeptInHand
    <2>3. session_context' # NoSession => Asks(connection_context', session_context'.sid)
      BY <1>1, <1>2, <2>1 DEF KeptInHand
    <2>4. QED
      BY <2>2, <2>3 DEF SessionAsked, Queued
  <1>4. CASE MainSends
    <2>1. CASE svc = "startSession"
      <3>1. /\ connection_context \in Client /\ session_context = NoSession
            /\ starts \in Session /\ starts \in Nat
        BY <2>1, Before
      <3>2. /\ svc' = "awaitSession" /\ session_context' = session_context
            /\ starts' = starts /\ connection_context' = connection_context
            /\ pending[Main].cmd = Request(100, starts)
            /\ SendOk(Main) /\ Main \in Caller
        BY <1>4, <2>1, Constants DEF MainSends
      <3>3. \E i \in 1..Len(cmds'[connection_context]) :
              cmds'[connection_context][i] = Request(100, starts)
        BY <3>2, Sender
      <3>4. \A d \in Client : ~Queued(d, Request(102, starts))
        <4>1. \A d \in Client : \A i \in 1..Len(cmds[d]) : cmds[d][i].sid < starts
          BY <2>1, Before DEF SidsDrawn
        <4>2. Request(102, starts).sid = starts
          BY Requests
        <4>3. QED
          BY <3>1, <4>1, <4>2 DEF Queued
      <3>5. Asks(connection_context, starts)
        BY <2>1, <3>3, <3>4, Unfinished
      <3>6. QED
        BY <3>1, <3>2, <3>5 DEF SessionAsked, Queued
    <2>2. CASE svc # "startSession"
      <3>1. /\ svc' # "awaitSession"
            /\ connection_context' = connection_context
            /\ session_context' # NoSession => session_context' = session_context
        BY <1>4, <2>2 DEF MainSends
      <3>2. session_context' # NoSession => Asks(connection_context', session_context'.sid)
        BY <1>2, <3>1
      <3>3. QED
        BY <3>1, <3>2 DEF SessionAsked, Queued
    <2>3. QED
      BY <2>1, <2>2
  <1>5. ASSUME NEW s \in Session, AudioSends(s) PROVE SessionAsked'
    <2>1. svc' # "awaitSession" /\ svc # "finishSession"
      BY <1>5, Sender, Constants DEF AudioSends, svcVars
    <2>2. UNCHANGED <<connection_context, session_context>>
      BY <1>5 DEF AudioSends, svcVars
    <2>3. session_context' # NoSession => Asks(connection_context', session_context'.sid)
      BY <1>2, <2>1, <2>2
    <2>4. QED
      BY <2>1, <2>3 DEF SessionAsked, Queued
  <1>6. QED
    BY <1>3, <1>4, <1>5, Sending

\* An audio thread runs after its session's SayHello.
LEMMA GreetedStep ==
  ASSUME ServiceInv, [Next]_vars
  PROVE  Greeted'
  <1> DEFINE Greets(c, s) == \E i \in 1..Len(cmds'[c]) : cmds'[c][i] = Request(300, s)
  <1>1. ASSUME svc = "openReader" PROVE Greets(connection_context, session_context.sid)
    <2>1. session_context # NoSession
      BY <1>1, Before DEF ContextInv
    <2>2. QED
      BY <1>1, <2>1, Before, QueuedStep DEF Greeted
  <1>2. ASSUME NEW s \in Session, audio[s] \in {"check", "read", "send"}
        PROVE  Greets(net_client[s], s)
    <2>1. session_context # NoSession /\ session_context.sid = s
      BY <1>2, Before DEF AudioThreadOwned
    <2>2. net_client[s] \in Client
      BY <2>1, Before
    <2>3. QED
      BY <1>2, <2>2, Before, QueuedStep DEF Greeted
  <1>3. CASE cmds' = cmds
    <2>1. KeptInHand /\ \A s \in Session : KeptBy(s)
      BY <1>3, Kept
    <2>2. svc' = "openReader" => Greets(connection_context', session_context'.sid)
      BY <1>1, <2>1 DEF KeptInHand
    <2>3. ASSUME NEW s \in Session, audio'[s] \in {"check", "read", "send"}
          PROVE  Greets(net_client'[s], s)
      <3>1. net_client'[s] = net_client[s]
        BY <2>1, <2>3 DEF KeptBy
      <3>2. CASE audio[s] \in {"check", "read", "send"}
        BY <1>2, <3>1, <3>2
      <3>3. CASE svc = "openReader" /\ session_context # NoSession /\ s = session_context.sid
        <4>1. net_client[s] = connection_context
          BY <3>3, Before
        <4>2. QED
          BY <1>1, <3>1, <3>3, <4>1
      <3>4. QED
        BY <2>1, <2>3, <3>2, <3>3 DEF KeptBy
    <2>4. QED
      BY <2>2, <2>3 DEF Greeted, Queued
  <1>4. CASE MainSends
    <2>1. svc' = "openReader" => Greets(connection_context', session_context'.sid)
      <3>1. /\ SendOk(Main) /\ Main \in Caller /\ connection_context' = connection_context
            /\ svc' = "openReader" =>
                 /\ session_context' = session_context
                 /\ pending[Main].cmd = Request(300, session_context.sid)
        BY <1>4, Constants DEF MainSends
      <3>2. QED
        BY <3>1, Sender
    <2>2. audio' = audio /\ net_client' = net_client
      BY <1>4 DEF MainSends
    <2>3. QED
      BY <1>2, <2>1, <2>2 DEF Greeted, Queued
  <1>5. ASSUME NEW s \in Session, AudioSends(s) PROVE Greeted'
    <2>1. /\ UNCHANGED <<svc, connection_context, session_context, net_client>>
          /\ \A t \in Session : audio'[t] \in {"check", "read", "send"} =>
                                  audio[t] \in {"check", "read", "send"}
      BY <1>5, Before DEF AudioSends, svcVars
    <2>2. QED
      BY <1>1, <1>2, <2>1 DEF Greeted, Queued
  <1>6. QED
    BY <1>3, <1>4, <1>5, Sending

\* What a request needs when it is queued is what WireOrder asks of it.
LEMMA QueueOrderStep ==
  ASSUME ServiceInv, [Next]_vars
  PROVE  QueueOrder'
  <1> DEFINE d == connection_context
             Prior(q, i, cmd) == \E j \in 1..(i - 1) : q[j] = cmd
             Ordered(q, i) ==
               /\ q[i].event = 1 <=> i = 1
               /\ q[i].event \in {200, 300, 102} => Prior(q, i, Request(100, q[i].sid))
               /\ q[i].event = 200 => Prior(q, i, Request(300, q[i].sid))
               /\ q[i].event # 1 => ~Prior(q, i, Request(102, q[i].sid))
  <1>1. \A c \in Client : \A i \in 1..Len(cmds[c]) : Ordered(cmds[c], i)
    BY Before DEF QueueOrder
  <1>2. CASE cmds' = cmds
    BY <1>2, Before DEF QueueOrder
  <1>3. ASSUME NEW t \in Caller, SendOk(t), NEW e, NEW s, pending[t].cmd = Request(e, s),
               e = 1 => cmds[d] = <<>>,
               e # 1 => cmds[d] # <<>>,
               e \in {200, 300, 102} => Queued(d, Request(100, s)),
               e = 200 => Queued(d, Request(300, s)),
               e # 1 => ~Queued(d, Request(102, s))
        PROVE  QueueOrder'
    <2> DEFINE x == pending[t].cmd
               q == cmds[d]
               r == cmds'[d]
               n == Len(cmds[d]) + 1
    <2>1. d \in Client /\ x.event = e /\ x.sid = s
      <3>1. d \in Client
        BY <1>3, Sender
      <3>2. x.event = e /\ x.sid = s
        BY <1>3, Requests
      <3>3. QED
        BY <3>1, <3>2
    <2>2. /\ q \in Seq(Cmd \cup {Disconnect}) /\ x \in Cmd \cup {Disconnect}
          /\ r = Append(q, x)
          /\ \A c \in Client : c # d => cmds'[c] = cmds[c]
      <3>1. LinkTypeOK /\ pending[t].client = d /\ x \in Cmd
        BY <1>3, Sender, Before
      <3>2. QED
        BY <1>3, <3>1, Queueing
    <2>3. /\ Len(q) \in Nat /\ n = Len(q) + 1
          /\ Len(r) = n
          /\ \A i \in 1..Len(q) : r[i] = q[i]
          /\ r[n] = x
      BY <2>2, Appended
    <2>4. q = <<>> <=> n = 1
      BY <2>2
    <2> HIDE DEF q, r, n, x
    <2>5. \A i \in 1..Len(r) : i \in 1..Len(q) \/ i = n
      BY <2>3
    <2>6. \A i \in 1..Len(r) : \A j \in 1..(i - 1) : j \in 1..Len(q) /\ r[j] = q[j]
      BY <2>3
    <2>7. \A i \in 1..Len(r) : \A cmd : Prior(r, i, cmd) <=> Prior(q, i, cmd)
      BY <2>6
    <2> HIDE DEF Prior
    <2>8. ASSUME NEW i \in 1..Len(q) PROVE Ordered(r, i)
      <3>1. Ordered(q, i) /\ r[i] = q[i]
        BY <1>1, <2>1, <2>3 DEF q
      <3>2. i \in 1..Len(r)
        BY <2>3
      <3>3. QED
        BY <2>7, <3>1, <3>2
    <2>9. \A cmd : Prior(r, n, cmd) <=> Queued(d, cmd)
      <3>1. n \in 1..Len(r) /\ n - 1 = Len(q)
        BY <2>3
      <3>2. \A cmd : Prior(r, n, cmd) <=> \E j \in 1..Len(q) : q[j] = cmd
        BY <2>7, <3>1 DEF Prior
      <3>3. QED
        BY <3>2 DEF Queued, q
    <2>10. Ordered(r, n)
      <3>1. r[n].event = e /\ r[n].sid = s
        BY <2>1, <2>3
      <3>2. e = 1 <=> n = 1
        BY <1>3, <2>4 DEF q
      <3>3. QED
        BY <1>3, <2>9, <3>1, <3>2
    <2>11. \A i \in 1..Len(r) : Ordered(r, i)
      BY <2>5, <2>8, <2>10
    <2> HIDE DEF Ordered
    <2>12. ASSUME NEW c \in Client, NEW i \in 1..Len(cmds'[c]) PROVE Ordered(cmds'[c], i)
      <3>1. CASE c = d
        BY <2>11, <2>12, <3>1 DEF r
      <3>2. CASE c # d
        BY <1>1, <2>2, <2>12, <3>2
      <3>3. QED
        BY <3>1, <3>2
    <2>13. QED
      BY <2>12 DEF QueueOrder, Ordered, Prior
  <1>4. ASSUME NEW t \in Caller, SendOk(t), svc # "startConnection" PROVE cmds[d] # <<>>
    <2>1. d \in Client /\ phase[d] # "none" /\ pending[t] # None /\ pending[t].client = d
      BY <1>4, Sender
    <2>2. QED
      BY <1>4, <2>1, Before DEF OpenedFirst
  <1>5. CASE MainSends
    <2>1. SendOk(Main) /\ Main \in Caller
      BY <1>5, Constants DEF MainSends
    <2>2. CASE svc = "startConnection"
      <3>1. pending[Main].cmd = Request(1, 0) /\ cmds[d] = <<>>
        BY <1>5, <2>2, Before DEF MainSends, OpenedFirst
      <3>2. QED
        BY <1>3, <2>1, <3>1
    <2>3. CASE svc = "startSession"
      <3>1. pending[Main].cmd = Request(100, starts) /\ cmds[d] # <<>>
        BY <1>4, <1>5, <2>1, <2>3 DEF MainSends
      <3>2. ~Queued(d, Request(102, starts))
        <4>1. d \in Client /\ starts \in Nat
          BY <2>3, Before
        <4>2. \A i \in 1..Len(cmds[d]) : cmds[d][i].sid < starts
          BY <2>3, <4>1, Before DEF SidsDrawn
        <4>3. Request(102, starts).sid = starts
          BY Requests
        <4>4. QED
          BY <4>1, <4>2, <4>3 DEF Queued
      <3>3. QED
        BY <1>3, <2>1, <3>1, <3>2
    <2>4. CASE svc \in {"greet", "finishSession"}
      <3>1. PICK e \in {300, 102} : pending[Main].cmd = Request(e, session_context.sid)
        BY <1>5, <2>4 DEF MainSends
      <3>2. session_context # NoSession /\ cmds[d] # <<>>
        BY <1>4, <2>1, <2>4, Before DEF ContextInv
      <3>3. /\ d \in Client
            /\ Queued(d, Request(100, session_context.sid))
            /\ ~Queued(d, Request(102, session_context.sid))
        BY <3>2, Before DEF SessionAsked
      <3>4. QED
        BY <1>3, <2>1, <3>1, <3>2, <3>3
    <2>5. QED
      BY <1>5, <2>2, <2>3, <2>4 DEF MainSends
  <1>6. ASSUME NEW s \in Session, AudioSends(s) PROVE QueueOrder'
    <2>1. /\ s \in Caller /\ s # Main /\ SendOk(s)
          /\ audio[s] = "send"
      BY <1>6, Constants DEF AudioSends
    <2>2. /\ pending[s].cmd = Request(200, s)
          /\ session_context # NoSession /\ session_context.sid = s
          /\ svc # "startConnection"
      BY <2>1, Sender
    <2>3. /\ d \in Client /\ net_client[s] = d
          /\ Queued(d, Request(100, s))
          /\ ~Queued(d, Request(102, s))
      BY <2>2, Before DEF SessionAsked
    <2>4. Queued(d, Request(300, s))
      BY <2>1, <2>3, Before DEF Greeted
    <2>5. cmds[d] # <<>>
      BY <1>4, <2>1, <2>2
    <2>6. QED
      BY <1>3, <2>1, <2>2, <2>3, <2>4, <2>5
  <1>7. QED
    BY <1>2, <1>5, <1>6, Sending

-----------------------------------------------------------------------------
(* OriginInv. *)

\* What the server has told, it has told; what it tells next was asked for.
LEMMA Telling ==
  ASSUME ServiceInv, [Next]_vars, NEW c \in Client
  PROVE  /\ \A m : Told(c, m) => \E i \in 1..Len(sent'[c]) : sent'[c][i] = m
         /\ \A s \in Session : (\E i \in 1..Len(sent'[c]) : sent'[c][i] = StartedMsg(s)) =>
              \/ Told(c, StartedMsg(s))
              \/ Asked(c, Request(100, s)) /\ starts' = starts
  <1>1. sent \in [Client -> Seq(Msg)] /\ sent[c] \in Seq(Msg)
    BY Before DEF LinkTypeOK
  <1>2. CASE sent' = sent
    BY <1>2 DEF Told
  <1>3. ASSUME NEW d \in Client, NEW m \in Msg, MayAnswer(d, m), ServerSend(d, m), starts' = starts
        PROVE  /\ \A x : Told(c, x) => \E i \in 1..Len(sent'[c]) : sent'[c][i] = x
               /\ \A s \in Session :
                    (\E i \in 1..Len(sent'[c]) : sent'[c][i] = StartedMsg(s)) =>
                       Told(c, StartedMsg(s)) \/ Asked(c, Request(100, s))
    <2>1. CASE d = c
      <3> DEFINE r == sent'[c]
      <3>1. r = Append(sent[c], m)
        BY <1>1, <1>3, <2>1 DEF ServerSend
      <3>2. /\ Len(sent[c]) \in Nat /\ Len(r) = Len(sent[c]) + 1
            /\ \A i \in 1..Len(sent[c]) : r[i] = sent[c][i]
            /\ r[Len(sent[c]) + 1] = m
        BY <1>1, <3>1, Appended
      <3> HIDE DEF r
      <3>3. \A i \in 1..Len(sent[c]) : i \in 1..Len(r) /\ r[i] = sent[c][i]
        BY <3>2
      <3>4. \A i \in 1..Len(r) : i \in 1..Len(sent[c]) \/ r[i] = m
        BY <3>2
      <3>5. ASSUME NEW s \in Session, m = StartedMsg(s) PROVE Asked(c, Request(100, s))
        <4>1. m.kind = "started" /\ m.sid = s
          BY <3>5 DEF StartedMsg
        <4>2. QED
          BY <1>3, <2>1, <4>1 DEF MayAnswer
      <3>6. ASSUME NEW s \in Session, NEW i \in 1..Len(r), r[i] = StartedMsg(s)
            PROVE  Told(c, StartedMsg(s)) \/ Asked(c, Request(100, s))
        <4>1. CASE i \in 1..Len(sent[c])
          BY <3>3, <3>6, <4>1 DEF Told
        <4>2. CASE r[i] = m
          BY <3>5, <3>6, <4>2
        <4>3. QED
          BY <3>4, <4>1, <4>2
      <3>7. \A x : Told(c, x) => \E i \in 1..Len(r) : r[i] = x
        BY <3>3 DEF Told
      <3>8. QED
        BY <3>6, <3>7 DEF r
    <2>2. CASE d # c
      <3>1. sent'[c] = sent[c]
        BY <1>1, <1>3, <2>2 DEF ServerSend
      <3>2. QED
        BY <3>1 DEF Told
    <2>3. QED
      BY <2>1, <2>2
  <1>4. \/ sent' = sent
        \/ \E d \in Client, m \in Msg : MayAnswer(d, m) /\ ServerSend(d, m) /\ starts' = starts
    <2> USE DEF svcVars, dispVars, audioVars
    <2>1. ServiceStep => sent' = sent
      BY SendFrame
         DEF ServiceStep, StartConnection, StartSession, SessionStarted, SessionTimeout,
             Greet, OpenReader, JoinMic, FinishSession, FinishConnection, JoinNet, linkVars
    <2>2. AppCall => sent' = sent
      BY DEF AppCall, StartConnected, StartRefused, StartConnect, StartMicrophoneChat,
             Stop, Connect, linkVars
    <2>3. QED
      BY <2>1, <2>2, Threads
         DEF vars, linkVars, Dispatch, CheckConnectted, HandleMessage, RecvErr,
             Audio, AudioCheck, AudioSkip, AudioRead, AudioSend, SendCheck, SendOk, SendErr,
             NetStep, Take, Fail, Receive, End
  <1>5. QED
    BY <1>2, <1>3, <1>4

\* A request on the wire was queued, by a start already made.
LEMMA AskedBefore ==
  ASSUME ServiceInv, NEW c \in Client, NEW s, Asked(c, Request(100, s))
  PROVE  s <= starts
  <1>1. PICK i \in 1..Len(written[c]) : Wire(c)[i] = Request(100, s)
    BY DEF Asked
  <1>2. /\ Len(written[c]) \in Nat /\ Len(cmds[c]) \in Nat /\ taken[c] \in Nat
    <2>1. written[c] \in Seq(Nat) /\ cmds[c] \in Seq(Cmd \cup {Disconnect}) /\ taken[c] \in Nat
      BY Before DEF LinkTypeOK
    <2>2. QED
      BY <2>1, LenProperties
  <1>3. /\ written[c][i] = i /\ Len(written[c]) <= taken[c] /\ taken[c] <= Len(cmds[c])
    BY Before DEF PipeInv, Pipes
  <1>4. i \in 1..Len(cmds[c]) /\ cmds[c][i] = Request(100, s)
    BY <1>1, <1>2, <1>3 DEF Wire
  <1>5. cmds[c][i].sid <= starts
    BY <1>4, Before DEF SidsDrawn
  <1>6. QED
    BY <1>4, <1>5, Requests

\* Events come from messages, contexts from events; start calls only add up.
LEMMA OriginSteps ==
  ASSUME ServiceInv, [Next]_vars
  PROVE  /\ starts' \in Nat /\ starts <= starts'
         /\ \/ session_event' = session_event
            \/ session_event # <<>> /\ session_event' = Tail(session_event)
            \/ \E c \in Client, s \in Session :
                 /\ Told(c, StartedMsg(s)) /\ phase[c] # "none"
                 /\ session_event' = Append(session_event, s)
         /\ \/ session_context' = session_context
            \/ session_context' = NoSession
            \/ session_event # <<>> /\ session_context'.of = Head(session_event)
         /\ \A c \in Client : phase[c] = "none" /\ phase'[c] # "none" =>
              /\ starts' = starts + 1
              /\ \A d \in Client : phase'[d] # "none" => d = c \/ phase[d] # "none"
  <1> USE DEF contexts, svcVars, dispVars, audioVars
  <1>1. /\ starts \in Nat
        /\ phase \in [Client -> {"none", "up", "done"}]
        /\ TypeOK
    BY Before DEF LinkTypeOK
  <1>2. starts' \in Nat /\ starts <= starts'
    <2>1. starts' = starts \/ starts' = starts + 1
      <3>1. ServiceStep => starts' = starts
        BY DEF ServiceStep, StartConnection, StartSession, SessionStarted, SessionTimeout,
               Greet, OpenReader, JoinMic, FinishSession, FinishConnection, JoinNet
      <3>2. AppCall => starts' = starts \/ starts' = starts + 1
        BY DEF AppCall, StartConnected, StartRefused, StartConnect, StartMicrophoneChat, Stop
      <3>3. QED
        BY <3>1, <3>2, Threads
           DEF vars, Dispatch, CheckConnectted, HandleMessage, RecvErr,
               Audio, AudioCheck, AudioSkip, AudioRead, AudioSend
    <2>2. QED
      BY <1>1, <2>1
  <1>3. \/ session_event' = session_event
        \/ session_event # <<>> /\ session_event' = Tail(session_event)
        \/ \E c \in Client : HandleMessage(c)
    <2>1. ServiceStep => \/ session_event' = session_event
                         \/ session_event # <<>> /\ session_event' = Tail(session_event)
      BY DEF ServiceStep, StartConnection, StartSession, SessionStarted, SessionTimeout,
             Greet, OpenReader, JoinMic, FinishSession, FinishConnection, JoinNet
    <2>2. AppCall => session_event' = session_event
      BY DEF AppCall, StartConnected, StartRefused, StartConnect, StartMicrophoneChat, Stop
    <2>3. QED
      BY <2>1, <2>2, Threads
         DEF vars, Dispatch, CheckConnectted, RecvErr,
             Audio, AudioCheck, AudioSkip, AudioRead, AudioSend
  <1>4. ASSUME NEW c \in Client, HandleMessage(c), session_event' # session_event
        PROVE  \E s \in Session : /\ Told(c, StartedMsg(s)) /\ phase[c] # "none"
                                  /\ session_event' = Append(session_event, s)
    <2> DEFINE k == handled[c] + 1
               m == sent[c][k]
    <2>1. /\ delivered[c][k] = k
          /\ k \in 1..Len(sent[c])
          /\ m \in ServerMsg
          /\ delivered[c] # <<>>
      <3>1. /\ handled[c] \in Nat
            /\ delivered[c][handled[c] + 1] = handled[c] + 1
            /\ handled[c] + 1 \in 1..Len(delivered[c])
            /\ handled[c] + 1 \in 1..Len(sent[c])
            /\ sent[c][handled[c] + 1] \in ServerMsg
        BY <1>4, NextMessage DEF HandleMessage, ServiceInv
      <3>2. QED
        BY <3>1
    <2>2. session_event' = IF m.kind = "started" THEN Append(session_event, m.sid) ELSE session_event
      BY <1>4, <2>1 DEF HandleMessage
    <2>3. m.kind = "started" /\ session_event' = Append(session_event, m.sid)
      BY <1>4, <2>2
    <2>4. m.sid \in Session /\ m = StartedMsg(m.sid)
      BY <2>1, <2>3 DEF ServerMsg, StartedMsg
    <2>5. Told(c, m)
      BY <2>1 DEF Told
    <2>6. phase[c] # "none"
      BY <2>1, Before DEF PipeInv, Pipes
    <2>7. QED
      BY <2>3, <2>4, <2>5, <2>6
  <1>5. \/ session_context' = session_context
        \/ session_context' = NoSession
        \/ session_event # <<>> /\ session_context'.of = Head(session_event)
    <2>1. ServiceStep => \/ session_context' = session_context
                         \/ session_context' = NoSession
                         \/ session_event # <<>> /\ session_context'.of = Head(session_event)
      BY DEF ServiceStep, StartConnection, StartSession, SessionStarted, SessionTimeout,
             Greet, OpenReader, JoinMic, FinishSession, FinishConnection, JoinNet
    <2>2. AppCall => session_context' = session_context
      BY DEF AppCall, StartConnected, StartRefused, StartConnect, StartMicrophoneChat, Stop
    <2>3. QED
      BY <2>1, <2>2, Threads
         DEF vars, Dispatch, CheckConnectted, HandleMessage, RecvErr,
             Audio, AudioCheck, AudioSkip, AudioRead, AudioSend
  <1>6. ASSUME NEW c \in Client, phase[c] = "none", phase'[c] # "none"
        PROVE  /\ starts' = starts + 1
               /\ \A d \in Client : phase'[d] # "none" => d = c \/ phase[d] # "none"
    <2>1. StartConnect(c)
      BY <1>1, <1>6, Opening
    <2>2. QED
      BY <1>1, <2>1 DEF StartConnect, Connect
  <1>7. QED
    BY <1>2, <1>3, <1>4, <1>5, <1>6

\* Every session event comes from a session that was asked for.
LEMMA OriginInvStep ==
  ASSUME ServiceInv, [Next]_vars
  PROVE  OriginInv'
  <1> DEFINE Tells(c, s) == \E i \in 1..Len(sent'[c]) : sent'[c][i] = StartedMsg(s)
             Open(s) == \E c \in Client : phase'[c] # "none" /\ Tells(c, s)
  <1>1. /\ OriginInv
        /\ starts \in Nat
        /\ session_event \in Seq(Session)
        /\ LinkTypeOK /\ [LinkNext]_linkVars
    BY Before, LinkStep DEF ServiceInv, TypeOK
  <1>2. \A c \in Client : phase[c] # "none" => phase'[c] # "none"
    BY <1>1 DEF LinkNext, linkVars, Connect, Take, Fail, Receive, End, ServerSend,
                SendCheck, SendOk, SendErr, LinkTypeOK
  <1>3. \A c \in Client : \A s : phase[c] # "none" /\ Told(c, StartedMsg(s)) => Open(s)
    BY <1>2, Telling
  <1>4. ASSUME NEW i \in 1..Len(session_event) PROVE Open(session_event[i])
    BY <1>1, <1>3 DEF OriginInv
  <1>5. ASSUME NEW i \in 1..Len(session_event') PROVE Open(session_event'[i])
    <2>1. CASE session_event' = session_event
      BY <1>4, <2>1
    <2>2. CASE session_event # <<>> /\ session_event' = Tail(session_event)
      <3>1. /\ i + 1 \in 1..Len(session_event)
            /\ session_event'[i] = session_event[i + 1]
        BY <1>1, <1>5, <2>2, HeadTailProperties
      <3>2. QED
        BY <1>4, <3>1
    <2>3. ASSUME NEW c \in Client, NEW s \in Session, Told(c, StartedMsg(s)), phase[c] # "none",
                 session_event' = Append(session_event, s)
          PROVE  Open(session_event'[i])
      <3>1. /\ Len(session_event) \in Nat
            /\ Len(session_event') = Len(session_event) + 1
            /\ \A j \in 1..Len(session_event) : session_event'[j] = session_event[j]
            /\ session_event'[Len(session_event) + 1] = s
        BY <1>1, <2>3, Appended
      <3>2. CASE i \in 1..Len(session_event)
        BY <1>4, <3>1, <3>2
      <3>3. CASE i = Len(session_event) + 1
        BY <1>3, <2>3, <3>1, <3>3
      <3>4. QED
        BY <3>1, <3>2, <3>3
    <2>4. QED
      BY <2>1, <2>2, <2>3, OriginSteps
  <1>6. ASSUME session_context' # NoSession PROVE Open(session_context'.of)
    <2>1. CASE session_context' = session_context
      BY <1>1, <1>3, <1>6, <2>1 DEF OriginInv
    <2>2. CASE session_event # <<>> /\ session_context'.of = Head(session_event)
      <3>1. 1 \in 1..Len(session_event) /\ Head(session_event) = session_event[1]
        BY <1>1, <2>2, HeadTailProperties
      <3>2. QED
        BY <1>4, <2>2, <3>1
    <2>3. QED
      BY <1>6, <2>1, <2>2, OriginSteps
  <1>7. ASSUME NEW c \in Client, NEW s \in Session, Tells(c, s) PROVE s <= starts'
    <2>1. s <= starts
      <3>1. Told(c, StartedMsg(s)) \/ Asked(c, Request(100, s))
        BY <1>7, Telling
      <3>2. QED
        BY <1>1, <3>1, AskedBefore DEF OriginInv
    <2>2. s \in Nat /\ starts' \in Nat /\ starts <= starts'
      BY Constants, OriginSteps
    <2>3. QED
      BY <1>1, <2>1, <2>2
  <1>8. ASSUME starts' <= 1, NEW b \in Client, NEW c \in Client,
               phase'[b] # "none", phase'[c] # "none"
        PROVE  starts' = 1 /\ b = c
    <2>1. starts' \in Nat /\ starts <= starts' /\ starts <= 1
      BY <1>1, <1>8, OriginSteps
    <2>2. CASE phase[b] # "none" /\ phase[c] # "none"
      BY <1>1, <1>8, <2>1, <2>2 DEF OriginInv
    <2>3. ASSUME NEW d \in {b, c}, phase[d] = "none" PROVE starts' = 1 /\ b = c
      <3>1. /\ starts' = starts + 1
            /\ \A e \in Client : phase'[e] # "none" => e = d \/ phase[e] # "none"
        BY <1>8, <2>3, OriginSteps
      <3>2. starts = 0
        BY <1>1, <1>8, <3>1
      <3>3. \A e \in Client : phase[e] = "none"
        BY <1>1, <3>2 DEF OriginInv
      <3>4. QED
        BY <1>8, <3>1, <3>2, <3>3
    <2>4. QED
      BY <2>2, <2>3
  <1>9. QED
    BY <1>5, <1>6, <1>7, <1>8 DEF OriginInv, Told

-----------------------------------------------------------------------------
(* The theorems. *)

\* Every step keeps the types.
LEMMA TypeStep ==
  ASSUME ServiceInv, [Next]_vars
  PROVE  TypeOK'
  <1>1. TypeOK /\ PipeInv /\ ContextInv /\ AudioThreadOwned /\ SpeechInv
    BY DEF ServiceInv
  <1>2. UNCHANGED vars => TypeOK'
    BY <1>1 DEF TypeOK, LinkTypeOK, vars, linkVars, svcVars, dispVars, audioVars
  <1>3. QED
    BY <1>1, <1>2, Threads, TypeService, TypeCall, TypeDispatch, TypeAudio, TypeNet

\* ServiceInv holds at first ...
LEMMA InvInit == Init => ServiceInv
  <1> SUFFICES ASSUME Init PROVE ServiceInv
    OBVIOUS
  <1>1. TypeOK
    BY TypeInit
  <1>2. /\ \A c \in Client : /\ phase[c] = "none" /\ connected[c] = FALSE
                             /\ cmds[c] = <<>> /\ written[c] = <<>>
                             /\ sent[c] = <<>> /\ delivered[c] = <<>>
                             /\ taken[c] = 0 /\ handled[c] = 0
                             /\ dispatcher[c] = "none"
        /\ \A t \in Caller : pending[t] = None
        /\ \A s \in Session : audio[s] = "none"
    BY DEF Init, LinkInit
  <1>3. /\ svc = "idle" /\ connection_context = NoClient /\ session_context = NoSession
        /\ soundQueue = <<>>
    BY DEF Init
  <1>4. PipeInv
    <2>1. ASSUME NEW c \in Client PROVE Pipes(c)
      <3>1. Len(written[c]) = 0 /\ Len(delivered[c]) = 0 /\ Len(cmds[c]) = 0 /\ Len(sent[c]) = 0
        BY <1>2
      <3>2. QED
        BY <1>2, <3>1 DEF Pipes
    <2>2. QED
      BY <2>1 DEF PipeInv
  <1>5. ConnectionInv
    BY <1>2, <1>3 DEF ConnectionInv, OneDispatcher
  <1>6. ContextInv
    BY <1>3 DEF ContextInv, Starting
  <1>7. PendingInv
    BY <1>2, Constants DEF PendingInv, MainPending
  <1>8. AudioThreadOwned
    BY <1>2 DEF AudioThreadOwned
  <1>9. RequestInv
    <2>1. SidsDrawn /\ QueueOrder
      BY <1>2 DEF SidsDrawn, QueueOrder
    <2>2. OpenedFirst /\ SessionAsked /\ Greeted
      BY <1>2, <1>3 DEF OpenedFirst, SessionAsked, Greeted
    <2>3. QED
      BY <2>1, <2>2 DEF RequestInv
  <1>10. SpeechInv
    BY <1>2, <1>3 DEF SpeechInv, SpeechInOrder
  <1>11. OriginInv
    BY <1>2, <1>3 DEF Init, OriginInv, Told
  <1>12. QED
    BY <1>1, <1>4, <1>5, <1>6, <1>7, <1>8, <1>9, <1>10, <1>11 DEF ServiceInv

\* ... and every step keeps it.
LEMMA InvStep == ServiceInv /\ [Next]_vars => ServiceInv'
  <1> SUFFICES ASSUME ServiceInv, [Next]_vars PROVE ServiceInv'
    OBVIOUS
  <1>1. RequestInv'
    BY SidsDrawnStep, OpenedFirstStep, SessionAskedStep, GreetedStep, QueueOrderStep
       DEF RequestInv
  <1>2. QED
    BY <1>1, TypeStep, PipeInvStep, ConnectionInvStep, ContextInvStep, PendingInvStep,
       AudioThreadStep, SpeechInvStep, OriginInvStep
       DEF ServiceInv

\* ServiceInv holds in every state of the service: the three kinds of threads
\* of rt_service.rs and the network, in any order.
THEOREM ServiceInvariant == Spec => []ServiceInv
  BY InvInit, InvStep, PTL DEF Spec

\* Every variable keeps its type.
THEOREM ServiceTypes == Spec => []TypeOK
  <1>1. ServiceInv => TypeOK
    BY DEF ServiceInv
  <1>2. QED
    BY <1>1, ServiceInvariant, PTL

\* No dispatcher outlives its connection_context, however often start and stop
\* are called: do_finish_connection joins it before start can raise the shared
\* connectted again.
THEOREM OneDispatcherRuns == Spec => []OneDispatcher
  <1>1. ServiceInv => OneDispatcher
    BY DEF ServiceInv, ConnectionInv
  <1>2. QED
    BY <1>1, ServiceInvariant, PTL

\* The audio thread ends before its session does (stop_microphone_chat joins).
THEOREM AudioThreadJoined == Spec => []AudioThreadOwned
  <1>1. ServiceInv => AudioThreadOwned
    BY DEF ServiceInv
  <1>2. QED
    BY <1>1, ServiceInvariant, PTL

\* What is written is a beginning of what was queued, so the order of the
\* queue is that of the wire.
LEMMA WireFromQueue ==
  ASSUME ServiceInv
  PROVE  WireOrder
  <1> SUFFICES ASSUME NEW c \in Client PROVE
        \A i \in 1..Len(Wire(c)) :
          /\ Wire(c)[i].event = 1 <=> i = 1
          /\ Wire(c)[i].event \in {200, 300, 102} =>
               \E j \in 1..(i - 1) : Wire(c)[j] = Request(100, Wire(c)[i].sid)
          /\ Wire(c)[i].event = 200 =>
               \E j \in 1..(i - 1) : Wire(c)[j] = Request(300, Wire(c)[i].sid)
          /\ Wire(c)[i].event # 1 =>
               ~\E j \in 1..(i - 1) : Wire(c)[j] = Request(102, Wire(c)[i].sid)
    BY DEF WireOrder
  <1> DEFINE w == Wire(c)
             q == cmds[c]
  <1>1. /\ Len(written[c]) \in Nat /\ Len(q) \in Nat /\ taken[c] \in Nat
        /\ Len(written[c]) <= taken[c] /\ taken[c] <= Len(q)
        /\ \A i \in 1..Len(written[c]) : written[c][i] = i
    <2>1. written[c] \in Seq(Nat) /\ q \in Seq(Cmd \cup {Disconnect}) /\ taken[c] \in Nat
      BY Before DEF LinkTypeOK
    <2>2. Pipes(c)
      BY Before DEF PipeInv
    <2>3. QED
      BY <2>1, <2>2, LenProperties DEF Pipes
  <1>2. /\ Len(w) = Len(written[c])
        /\ \A i \in 1..Len(w) : w[i] = q[written[c][i]]
    BY <1>1 DEF Wire
  <1> HIDE DEF w, q
  <1>3. \A i \in 1..Len(w) : w[i] = q[i] /\ i \in 1..Len(q)
    BY <1>1, <1>2
  <1>4. \A i \in 1..Len(w) : \A j \in 1..(i - 1) : w[j] = q[j]
    BY <1>1, <1>2, <1>3
  <1>5. \A i \in 1..Len(q) :
          /\ q[i].event = 1 <=> i = 1
          /\ q[i].event \in {200, 300, 102} =>
               \E j \in 1..(i - 1) : q[j] = Request(100, q[i].sid)
          /\ q[i].event = 200 => \E j \in 1..(i - 1) : q[j] = Request(300, q[i].sid)
          /\ q[i].event # 1 => ~\E j \in 1..(i - 1) : q[j] = Request(102, q[i].sid)
    BY Before DEF QueueOrder, q
  <1>6. QED
    BY <1>3, <1>4, <1>5 DEF w

\* However the application thread and the audio threads interleave, and
\* wherever the connection is lost, the server reads StartConnection first,
\* StartSession before a session's other requests, its audio after its
\* SayHello, and nothing of it after its FinishSession.
THEOREM RequestsInOrder == Spec => []WireOrder
  BY ServiceInvariant, WireFromQueue, PTL

\* The speaker hears every audio message that was received, once and in order,
\* over all connections (handle_audio_only_server_message).
THEOREM SpeechHeardInOrder == Spec => []SpeechInOrder
  <1>1. ServiceInv => SpeechInOrder
    BY DEF ServiceInv, SpeechInv
  <1>2. QED
    BY <1>1, ServiceInvariant, PTL

\* The service does with its connections only what NetLink, the promise of
\* NetClient, allows: RtService and NetClient meet at NetLink.
THEOREM UsesNetLink == Spec => LinkSpec
  <1>1. Init => LinkInit
    BY DEF Init
  <1>2. ServiceInv /\ [Next]_vars => [LinkNext]_linkVars
    BY LinkStep DEF ServiceInv
  <1>3. QED
    BY <1>1, <1>2, ServiceInvariant, PTL DEF Spec, LinkSpec

\* The first start takes no other session's event for its own: its session was
\* answered on the connection it is used on.  (A second start can, run
\* service_foreign_event.)
THEOREM FirstStartAnswered == Spec => [](starts <= 1 => StartedByServer)
  <1>1. ASSUME ServiceInv, starts <= 1, session_context # NoSession
        PROVE  Told(net_client[session_context.sid], StartedMsg(session_context.sid))
    <2>1. /\ session_context.sid \in Session /\ session_context.of \in Session
          /\ session_context.sid <= starts
          /\ connection_context \in Client
          /\ net_client[session_context.sid] = connection_context
          /\ starts \in Nat
      <3>1. TypeOK /\ ContextInv
        BY <1>1, Before
      <3>2. QED
        BY <1>1, <3>1, InHand
    <2>2. phase[connection_context] # "none"
      <3>1. connection_context # NoClient
        BY <2>1, Constants
      <3>2. ConnectionInv
        BY <1>1, Before
      <3>3. QED
        BY <3>1, <3>2 DEF ConnectionInv
    <2>3. PICK c \in Client : phase[c] # "none" /\ Told(c, StartedMsg(session_context.of))
      BY <1>1 DEF ServiceInv, OriginInv
    <2>4. session_context.of <= starts
      BY <1>1, <2>1, <2>3 DEF ServiceInv, OriginInv
    <2>5. c = connection_context
      BY <1>1, <2>1, <2>2, <2>3 DEF ServiceInv, OriginInv
    <2>6. session_context.sid = session_context.of
      BY <1>1, <2>1, <2>4 DEF Session
    <2>7. QED
      BY <2>1, <2>3, <2>5, <2>6
  <1>2. ServiceInv => (starts <= 1 => StartedByServer)
    BY <1>1 DEF StartedByServer, StartedMsg
  <1>3. QED
    BY <1>2, ServiceInvariant, PTL
=============================================================================
