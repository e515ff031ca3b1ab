------------------------------ MODULE RtService ------------------------------
(***************************************************************************)
(* RtService (src/src/rtvoice/doubao/rt_service.rs) on top of NetLink:     *)
(* the application thread that calls start, start_microphone_chat and      *)
(* stop; one dispatcher thread per connection (run_net_work_thread); one   *)
(* audio thread per session (run_microphone_mode).                         *)
(*                                                                         *)
(* The application thread's calls are cut where another thread can see the *)
(* difference; svc is where it is.  A session is named by the number of    *)
(* the start call that drew its id, a connection by the number of the      *)
(* connect that opened it.                                                 *)
(***************************************************************************)
EXTENDS NetLink

CONSTANTS
  MaxCmds,     \* bound: commands on one connection with start_microphone_chat
  MaxStarts,   \* bound: calls of start
  MaxAudio,    \* bound: audio chunks the microphone yields in one session
  NoClient,    \* connection_context is None
  NoSession    \* session_context is None

Session == 1..MaxStarts
Main == 0                   \* the application thread, as a sender
ServiceThread == {Main} \cup Session

\* Requests by event number: StartConnection 1, StartSession 100, TaskRequest
\* (audio) 200, SayHello 300, FinishSession 102.  StartConnection carries no
\* session id.
Request(event, s) == [event |-> event, sid |-> s]
ServiceCmd == {Request(1, 0)} \cup
              {Request(e, s) : e \in {100, 200, 300, 102}, s \in Session}

\* What the service tells apart: SessionStarted (150) with a dialog id, an
\* audio-only message with a payload, and all others.
ServerMsg == [kind : {"started", "audio"}, sid : Session] \cup
             {[kind |-> "other", sid |-> 0]}

ASSUME ServiceAssumption ==
  /\ MaxStarts \in Nat
  /\ MaxAudio \in Nat
  /\ Client \subseteq Nat
  /\ Caller = ServiceThread
  /\ Cmd = ServiceCmd
  /\ Msg = ServerMsg
  /\ Disconnect \notin Cmd
  /\ None \notin [client : Client, cmd : Cmd \cup {Disconnect}]
  /\ NoClient \notin Client
  /\ NoSession \notin [sid : Session, of : Session]

VARIABLES
  svc,                \* where the application thread is
  starts,             \* start calls so far: the newest session id
  connection_context, \* the connection, until stop has joined its dispatcher
  connectted,         \* the AtomicBool all dispatchers share
  dispatcher,         \* where run_net_work_thread of a connection is
  handled,            \* messages it has received
  session_event,      \* the channel of StartSessionEvents: whose they are
  session_context,    \* the session, and whose event started it
  net_client,         \* the NetClient of each SessionContext ever made
  microphone_running, \* the AtomicBool of each SessionContext
  audio,              \* where run_microphone_mode of a session is
  chunks,             \* chunks it has read
  soundQueue          \* Sound::play calls: connection and message

svcVars == <<svc, starts, connection_context, session_context, net_client>>
dispVars == <<connectted, dispatcher, handled, session_event, soundQueue>>
contexts == <<connection_context, session_context, net_client>>
audioVars == <<microphone_running, audio, chunks>>
vars == <<linkVars, svcVars, dispVars, audioVars>>

Starting == {"startConnection", "startSession", "awaitSession", "greet", "openReader"}
Stopping == {"joinMic", "finishSession", "finishConnection", "joinNet"}

TypeOK ==
  /\ LinkTypeOK
  /\ svc \in {"idle"} \cup Starting \cup Stopping
  /\ starts \in 0..MaxStarts
  /\ connection_context \in Client \cup {NoClient}
  /\ connectted \in BOOLEAN
  /\ dispatcher \in [Client -> {"none", "check", "recv", "done"}]
  /\ handled \in [Client -> Nat]
  /\ session_event \in Seq(Session)
  /\ session_context \in [sid : Session, of : Session] \cup {NoSession}
  /\ net_client \in [Session -> Client \cup {NoClient}]
  /\ microphone_running \in [Session -> BOOLEAN]
  /\ audio \in [Session -> {"none", "check", "read", "send", "done"}]
  /\ chunks \in [Session -> 0..MaxAudio]
  /\ soundQueue \in Seq(Client \X Nat)

Init ==
  /\ LinkInit
  /\ svc = "idle"
  /\ starts = 0
  /\ connection_context = NoClient
  /\ connectted = FALSE
  /\ dispatcher = [c \in Client |-> "none"]
  /\ handled = [c \in Client |-> 0]
  /\ session_event = <<>>
  /\ session_context = NoSession
  /\ net_client = [s \in Session |-> NoClient]
  /\ microphone_running = [s \in Session |-> TRUE]
  /\ audio = [s \in Session |-> "none"]
  /\ chunks = [s \in Session |-> 0]
  /\ soundQueue = <<>>

-----------------------------------------------------------------------------
(* The application thread: start.                                          *)

GoTo(from, to) == svc = from /\ svc' = to

\* One send_protocol_message: the check and the channel's send, which go on to
\* `to' or, on either error, to `err'.
SendRequest(from, to, err, c, cmd) ==
  \/ /\ GoTo(from, from)
     /\ SendCheck(Main, c, cmd)
  \/ /\ GoTo(from, err)
     /\ pending[Main] = None
     /\ ~connected[c]
     /\ UNCHANGED linkVars
  \/ GoTo(from, to) /\ SendOk(Main)
  \/ GoTo(from, err) /\ SendErr(Main)

\* start draws a session id; start_connection returns at once when there is a
\* connection_context, of whatever state.
StartConnected ==
  /\ starts < MaxStarts
  /\ connection_context # NoClient
  /\ GoTo("idle", IF session_context = NoSession THEN "startSession" ELSE "greet")
  /\ starts' = starts + 1
  /\ UNCHANGED <<linkVars, contexts, dispVars, audioVars>>

\* Otherwise it connects, raises connectted, spawns the dispatcher ...  The step
\* is taken when connect returns, which no fairness promises: its handshakes
\* are read without a timeout.
StartConnect(c) ==
  /\ starts < MaxStarts
  /\ connection_context = NoClient
  /\ \A b \in Client : b < c => phase[b] # "none"
  /\ Connect(c)
  /\ GoTo("idle", "startConnection")
  /\ starts' = starts + 1
  /\ connection_context' = c
  /\ connectted' = TRUE
  /\ dispatcher' = [dispatcher EXCEPT ![c] = "check"]
  /\ UNCHANGED <<session_context, net_client, handled, session_event, soundQueue, audioVars>>

\* ... or fails to connect, which changes nothing else.
StartRefused ==
  /\ starts < MaxStarts
  /\ connection_context = NoClient
  /\ GoTo("idle", "idle")
  /\ starts' = starts + 1
  /\ UNCHANGED <<linkVars, contexts, dispVars, audioVars>>

\* ... and sends event 1.  An error leaves the connection_context in place.
StartConnection ==
  /\ SendRequest("startConnection",
       IF session_context = NoSession THEN "startSession" ELSE "greet", "idle",
       connection_context, Request(1, 0))
  /\ UNCHANGED <<starts, contexts, dispVars, audioVars>>

\* start_session: event 100 ...
StartSession ==
  /\ SendRequest("startSession", "awaitSession", "idle",
       connection_context, Request(100, starts))
  /\ UNCHANGED <<starts, contexts, dispVars, audioVars>>

\* ... then recv_timeout: the first event in the channel makes the session ...
SessionStarted ==
  /\ session_event # <<>>
  /\ GoTo("awaitSession", "greet")
  /\ session_event' = Tail(session_event)
  /\ session_context' = [sid |-> starts, of |-> Head(session_event)]
  /\ net_client' = [net_client EXCEPT ![starts] = connection_context]
  /\ UNCHANGED <<linkVars, starts, connection_context, connectted, dispatcher,
                 handled, soundQueue, audioVars>>

\* Fault: recv instead of recv_timeout.
SessionTimeoutNever ==
  /\ FALSE
  /\ UNCHANGED vars

\* ... or none came in 5 s.
SessionTimeout ==
  /\ session_event = <<>>
  /\ GoTo("awaitSession", "idle")
  /\ UNCHANGED <<linkVars, starts, contexts, dispVars, audioVars>>

\* The public start_microphone_chat, which start ends with too.
StartMicrophoneChat ==
  /\ session_context # NoSession
  /\ Len(cmds[net_client[session_context.sid]]) < MaxCmds
  /\ GoTo("idle", "greet")
  /\ UNCHANGED <<linkVars, starts, contexts, dispVars, audioVars>>

\* send_greeting: event 300.
Greet ==
  /\ session_context # NoSession
  /\ SendRequest("greet", "openReader", "idle", net_client[session_context.sid],
       Request(300, session_context.sid))
  /\ UNCHANGED <<starts, contexts, dispVars, audioVars>>

\* SessionContext::start_microphone_chat: nothing when there is a worker, else
\* open_reader, which can fail, and the audio thread.
OpenReader ==
  /\ GoTo("openReader", "idle")
  /\ LET s == session_context.sid IN
       \/ UNCHANGED audio
       \/ audio[s] = "none" /\ audio' = [audio EXCEPT ![s] = "check"]
  /\ UNCHANGED <<linkVars, starts, contexts, dispVars,
                 microphone_running, chunks>>

-----------------------------------------------------------------------------
(* The application thread: stop.                                           *)

\* Fault: the audio thread's flag stays up.
StopFlagUp ==
  /\ GoTo("idle", IF session_context = NoSession THEN "finishConnection" ELSE "joinMic")
  /\ UNCHANGED <<linkVars, starts, contexts, dispVars, audioVars>>

\* do_finish_session takes the context; stop_microphone_chat lowers the flag.
Stop ==
  /\ \/ /\ session_context # NoSession
        /\ GoTo("idle", "joinMic")
        /\ microphone_running' = [microphone_running EXCEPT ![session_context.sid] = FALSE]
     \/ /\ session_context = NoSession
        /\ GoTo("idle", "finishConnection")
        /\ UNCHANGED microphone_running
  /\ UNCHANGED <<linkVars, starts, contexts, dispVars,
                 audio, chunks>>

\* Fault: FinishSession is sent while the audio thread still runs.
JoinMicSkipped ==
  /\ GoTo("joinMic", "finishSession")
  /\ UNCHANGED <<linkVars, starts, contexts, dispVars, audioVars>>

\* Then it joins the audio thread, if there is one.
JoinMic ==
  /\ GoTo("joinMic", "finishSession")
  /\ audio[session_context.sid] \in {"none", "done"}
  /\ UNCHANGED <<linkVars, starts, contexts, dispVars, audioVars>>

\* Fault: the context stays.
FinishSessionKeeps ==
  /\ session_context # NoSession
  /\ SendRequest("finishSession", "finishConnection", "finishConnection",
       net_client[session_context.sid], Request(102, session_context.sid))
  /\ UNCHANGED <<starts, contexts, dispVars, audioVars>>

\* send_finish_session: event 102, whatever comes of it; the context is dropped.
FinishSession ==
  /\ session_context # NoSession
  /\ SendRequest("finishSession", "finishConnection", "finishConnection",
       net_client[session_context.sid], Request(102, session_context.sid))
  /\ session_context' =
       IF svc' = "finishSession" THEN session_context ELSE NoSession
  /\ UNCHANGED <<starts, connection_context, net_client, dispVars, audioVars>>

\* do_finish_connection lowers connectted and takes the connection_context ...
FinishConnection ==
  /\ GoTo("finishConnection", IF connection_context = NoClient THEN "idle" ELSE "joinNet")
  /\ connectted' = FALSE
  /\ UNCHANGED <<linkVars, starts, contexts, dispatcher,
                 handled, session_event, soundQueue, audioVars>>

\* Fault: stop returns without the join.
JoinNetSkipped ==
  /\ GoTo("joinNet", "idle")
  /\ connection_context' = NoClient
  /\ UNCHANGED <<linkVars, starts, session_context, net_client, dispVars, audioVars>>

\* ... and joins the dispatcher.
JoinNet ==
  /\ connection_context # NoClient
  /\ dispatcher[connection_context] = "done"
  /\ GoTo("joinNet", "idle")
  /\ connection_context' = NoClient
  /\ UNCHANGED <<linkVars, starts, session_context, net_client, dispVars, audioVars>>

-----------------------------------------------------------------------------
(* run_net_work_thread and handle_net_response_frame.                      *)

At(c, from, to) ==
  /\ dispatcher[c] = from
  /\ dispatcher' = [dispatcher EXCEPT ![c] = to]

\* while connectted.load(..)
CheckConnectted(c) ==
  /\ At(c, "check", IF connectted THEN "recv" ELSE "done")
  /\ UNCHANGED <<linkVars, svcVars, connectted, handled, session_event, soundQueue,
                 audioVars>>

\* Fault: the flag is looked at again after recv and the message dropped.
HandleMessageUnlessStopped(c) ==
  /\ handled[c] < Len(delivered[c])
  /\ At(c, "recv", "check")
  /\ handled' = [handled EXCEPT ![c] = @ + 1]
  /\ LET k == delivered[c][handled[c] + 1]
         m == IF ~connectted THEN [kind |-> "other", sid |-> 0] ELSE sent[c][k]
     IN  /\ session_event' = IF m.kind = "started"
                               THEN Append(session_event, m.sid) ELSE session_event
         /\ soundQueue' = IF m.kind = "audio"
                            THEN Append(soundQueue, <<c, k>>) ELSE soundQueue
  /\ UNCHANGED <<linkVars, svcVars, connectted, audioVars>>

\* Fault: whatever the server says is taken for event 150.
HandleMessageAnyEvent(c) ==
  /\ handled[c] < Len(delivered[c])
  /\ At(c, "recv", "check")
  /\ handled' = [handled EXCEPT ![c] = @ + 1]
  /\ session_event' = Append(session_event, sent[c][delivered[c][handled[c] + 1]].sid)
  /\ UNCHANGED <<linkVars, svcVars, connectted, soundQueue, audioVars>>

\* recv returns a message, which is handled by its kind.
HandleMessage(c) ==
  /\ handled[c] < Len(delivered[c])
  /\ At(c, "recv", "check")
  /\ handled' = [handled EXCEPT ![c] = @ + 1]
  /\ LET k == delivered[c][handled[c] + 1]
         m == sent[c][k]
     IN  /\ session_event' = IF m.kind = "started"
                               THEN Append(session_event, m.sid) ELSE session_event
         /\ soundQueue' = IF m.kind = "audio"
                            THEN Append(soundQueue, <<c, k>>) ELSE soundQueue
  /\ UNCHANGED <<linkVars, svcVars, connectted, audioVars>>

\* Fault: a failed recv is tried again without looking at the flag.
RecvErrRetried(c) ==
  /\ phase[c] = "done"
  /\ handled[c] = Len(delivered[c])
  /\ At(c, "recv", "recv")
  /\ UNCHANGED <<linkVars, svcVars, connectted, handled, session_event, soundQueue,
                 audioVars>>

\* recv fails: the callback, the only sender, went with the worker.  Try again.
RecvErr(c) ==
  /\ phase[c] = "done"
  /\ handled[c] = Len(delivered[c])
  /\ At(c, "recv", "check")
  /\ UNCHANGED <<linkVars, svcVars, connectted, handled, session_event, soundQueue,
                 audioVars>>

Dispatch(c) == CheckConnectted(c) \/ HandleMessage(c) \/ RecvErr(c)

-----------------------------------------------------------------------------
(* run_microphone_mode.  It holds an Arc of its session's NetClient; the    *)
(* session_context outlives it (AudioThreadOwned).                          *)

AudioAt(s, from, to) ==
  /\ audio[s] = from
  /\ audio' = [audio EXCEPT ![s] = to]

AudioCheck(s) ==
  /\ AudioAt(s, "check", IF microphone_running[s] THEN "read" ELSE "done")
  /\ UNCHANGED <<linkVars, svcVars, dispVars, microphone_running, chunks>>

\* read times out with nothing, or send_audio_data finds the client
\* disconnected and its error is dropped.
AudioSkip(s) ==
  /\ AudioAt(s, "read", "check")
  /\ UNCHANGED <<linkVars, svcVars, dispVars, microphone_running, chunks>>

AudioRead(s) ==
  /\ chunks[s] < MaxAudio
  /\ AudioAt(s, "read", "send")
  /\ SendCheck(s, net_client[s], Request(200, s))
  /\ chunks' = [chunks EXCEPT ![s] = @ + 1]
  /\ UNCHANGED <<svcVars, dispVars, microphone_running>>

AudioSend(s) ==
  /\ AudioAt(s, "send", "check")
  /\ SendOk(s) \/ SendErr(s)
  /\ UNCHANGED <<svcVars, dispVars, microphone_running, chunks>>

Audio(s) == AudioCheck(s) \/ AudioSkip(s) \/ AudioRead(s) \/ AudioSend(s)

-----------------------------------------------------------------------------
(* The dialogue service, as far as the client relies on it: it answers a    *)
(* StartSession at most once and after it, speaks after a SayHello, and can *)
(* say anything else once it was spoken to.                                 *)

Wire(c) == [i \in 1..Len(written[c]) |-> cmds[c][written[c][i]]]
Asked(c, cmd) == \E i \in 1..Len(written[c]) : Wire(c)[i] = cmd
Told(c, m) == \E i \in 1..Len(sent[c]) : sent[c][i] = m

MayAnswer(c, m) ==
  /\ m.kind = "started" => Asked(c, Request(100, m.sid)) /\ ~Told(c, m)
  /\ m.kind = "audio" => Asked(c, Request(300, m.sid))
  /\ m.kind = "other" => written[c] # <<>>

-----------------------------------------------------------------------------
(* What goes on by itself once called, per thread. *)

ServiceStep ==
  \/ StartConnection
  \/ StartSession
  \/ SessionStarted
  \/ SessionTimeout
  \/ Greet
  \/ OpenReader
  \/ JoinMic
  \/ FinishSession
  \/ FinishConnection
  \/ JoinNet

AppCall ==
  \/ StartConnected
  \/ StartRefused
  \/ \E c \in Client : StartConnect(c)
  \/ StartMicrophoneChat
  \/ Stop

NetStep(c) ==
  \/ Take(c)
  \/ Fail(c)
  \/ Receive(c)
  \/ End(c)
  \/ \E m \in Msg : MayAnswer(c, m) /\ ServerSend(c, m)

Next ==
  \/ ServiceStep
  \/ AppCall
  \/ \E c \in Client : Dispatch(c)
  \/ \E s \in Session : Audio(s)
  \/ \E c \in Client : NetStep(c) /\ UNCHANGED <<svcVars, dispVars, audioVars>>

Spec == Init /\ [][Next]_vars

\* The service's threads run; so do NetClient's, as far as NetClient keeps it:
\* what is accepted is taken, and a worker that lost its connection returns.
\* The application need not call anything, the peer need not answer and the
\* connection need not end.
Fairness ==
  /\ WF_vars(ServiceStep)
  /\ \A c \in Client :
       /\ WF_vars(Dispatch(c))
       /\ WF_vars(Take(c) /\ UNCHANGED <<svcVars, dispVars, audioVars>>)
       /\ WF_vars(End(c) /\ UNCHANGED <<svcVars, dispVars, audioVars>>)
  /\ \A s \in Session : WF_vars(Audio(s))

FairSpec == Spec /\ Fairness

-----------------------------------------------------------------------------
(* Properties. *)

\* On each connection StartConnection is written first and once; a session's
\* requests follow its StartSession, its audio follows a SayHello, and nothing
\* of it follows its FinishSession, though two threads write (start,
\* run_microphone_mode, and finish_session, which joins before it sends).
WireOrder ==
  \A c \in Client : \A i \in 1..Len(Wire(c)) :
    LET w == Wire(c)
        Before(cmd) == \E j \in 1..(i - 1) : w[j] = cmd
    IN  /\ w[i].event = 1 <=> i = 1
        /\ w[i].event \in {200, 300, 102} => Before(Request(100, w[i].sid))
        /\ w[i].event = 200 => Before(Request(300, w[i].sid))
        /\ w[i].event # 1 => ~Before(Request(102, w[i].sid))

\* Only the dispatcher of the connection in use runs: connectted, which all of
\* them share and start raises again, never revives an old one
\* (do_finish_connection joins).
OneDispatcher ==
  \A c \in Client : dispatcher[c] \in {"check", "recv"} => connection_context = c

\* An audio thread runs only in the current session, not yet past its join
\* (stop_microphone_chat).
AudioThreadOwned ==
  \A s \in Session : audio[s] \in {"check", "read", "send"} =>
    /\ session_context # NoSession
    /\ session_context.sid = s
    /\ svc \notin {"finishSession", "finishConnection", "joinNet"}

\* The speaker is fed in the order the server spoke, connection after
\* connection, each audio message the dispatcher received exactly once, also
\* while stop is under way (handle_audio_only_server_message).
SpeechInOrder ==
  /\ \A i, j \in 1..Len(soundQueue) : i < j =>
       \/ soundQueue[i][1] < soundQueue[j][1]
       \/ /\ soundQueue[i][1] = soundQueue[j][1]
          /\ soundQueue[i][2] < soundQueue[j][2]
  /\ \A c \in Client : \A i \in 1..handled[c] :
       LET k == delivered[c][i] IN
       sent[c][k].kind = "audio" =>
         \E j \in 1..Len(soundQueue) : soundQueue[j] = <<c, k>>

\* "会话开始完成" (rt_service.rs:279, the session has started): the server has
\* answered this session's StartSession when start_session makes the context.
StartedByServer ==
  session_context # NoSession =>
    Told(net_client[session_context.sid],
         [kind |-> "started", sid |-> session_context.sid])

\* Once it is connected start returns, and start_microphone_chat does, whether
\* or not the server ever answers a request (recv_timeout in start_session).
StartReturns == svc \in Starting ~> svc = "idle"

\* stop gets past the audio thread (run_microphone_mode looks at its flag
\* again after every read, which times out).
StopPassesMicrophone == svc = "joinMic" ~> svc = "finishConnection"

\* stop returns once the dispatcher has something left to receive, or the
\* connection ends; it is stuck in recv only while the server says nothing.
StopReturnsOnceWoken ==
  \A c \in Client :
    /\ svc = "joinNet" /\ connection_context = c
    /\ \/ handled[c] < Len(delivered[c])
       \/ ~connected[c]
    ~> svc = "idle"

\* "断开连接" (rt_service.rs:316, disconnect): stop ends the connection it takes.
StopDisconnects ==
  \A c \in Client :
    svc = "finishConnection" /\ connection_context = c ~> phase[c] = "done"

-----------------------------------------------------------------------------
(* The invariant behind the safety properties (RtServiceProofs). *)

\* A connection's pipes: what is received is what was sent, what is written is
\* what was queued, each from the beginning and with no gap.
Pipes(c) ==
  /\ connected[c] => phase[c] = "up"
  /\ phase[c] = "none" => cmds[c] = <<>> /\ delivered[c] = <<>>
  /\ Len(delivered[c]) <= Len(sent[c])
  /\ \A i \in 1..Len(delivered[c]) : delivered[c][i] = i
  /\ Len(written[c]) <= taken[c]
  /\ taken[c] <= Len(cmds[c])
  /\ connected[c] => Len(written[c]) = taken[c]
  /\ \A i \in 1..Len(written[c]) : written[c][i] = i

PipeInv == \A c \in Client : Pipes(c)

\* Connections are opened in order; the one in use is the newest.
ConnectionInv ==
  /\ \A b, c \in Client : b < c /\ phase[c] # "none" => phase[b] # "none"
  /\ connection_context # NoClient =>
       /\ phase[connection_context] # "none"
       /\ \A c \in Client : phase[c] # "none" => c <= connection_context
  /\ OneDispatcher

\* What the application thread has in hand where it is.
ContextInv ==
  /\ svc \in Starting => starts > 0
  /\ svc \in {"startConnection", "startSession", "awaitSession"} =>
       connection_context # NoClient /\ session_context = NoSession
  /\ svc \in {"greet", "openReader", "joinMic", "finishSession"} =>
       session_context # NoSession
  /\ svc \in {"finishConnection", "joinNet"} => session_context = NoSession
  /\ session_context # NoSession =>
       /\ connection_context # NoClient
       /\ net_client[session_context.sid] = connection_context
       /\ session_context.sid <= starts

\* Between check and send each thread has the request of its place.
MainPending ==
  pending[Main] # None =>
    /\ svc \in {"startConnection", "startSession", "greet", "finishSession"}
    /\ pending[Main].client = connection_context
    /\ pending[Main].cmd =
         CASE svc = "startConnection" -> Request(1, 0)
           [] svc = "startSession"    -> Request(100, starts)
           [] svc = "greet"           -> Request(300, session_context.sid)
           [] OTHER                   -> Request(102, session_context.sid)

PendingInv ==
  /\ MainPending
  /\ \A s \in Session : pending[s] # None =>
       /\ audio[s] = "send"
       /\ pending[s] = [client |-> net_client[s], cmd |-> Request(200, s)]

Queued(c, cmd) == \E i \in 1..Len(cmds[c]) : cmds[c][i] = cmd

\* WireOrder, of what is queued.
QueueOrder ==
  \A c \in Client : \A i \in 1..Len(cmds[c]) :
    LET q == cmds[c]
        Before(cmd) == \E j \in 1..(i - 1) : q[j] = cmd
    IN  /\ q[i].event = 1 <=> i = 1
        /\ q[i].event \in {200, 300, 102} => Before(Request(100, q[i].sid))
        /\ q[i].event = 200 => Before(Request(300, q[i].sid))
        /\ q[i].event # 1 => ~Before(Request(102, q[i].sid))

\* Session ids are fresh when they are drawn.
SidsDrawn ==
  \A c \in Client : \A i \in 1..Len(cmds[c]) :
    /\ cmds[c][i] \in ServiceCmd
    /\ cmds[c][i].sid <= starts
    /\ svc \in {"startConnection", "startSession"} => cmds[c][i].sid < starts

\* StartConnection finds nothing queued, and nothing else can be first.
OpenedFirst ==
  /\ svc = "startConnection" => cmds[connection_context] = <<>>
  /\ \A c \in Client : cmds[c] = <<>> =>
       \/ phase[c] = "none"
       \/ svc = "startConnection" /\ connection_context = c
       \/ ~connected[c] /\ \A t \in Caller : pending[t] # None => pending[t].client # c

\* A session was asked for on its connection, and was not finished.
SessionAsked ==
  /\ svc = "awaitSession" =>
       /\ Queued(connection_context, Request(100, starts))
       /\ \A c \in Client : ~Queued(c, Request(102, starts))
  /\ session_context # NoSession =>
       /\ Queued(connection_context, Request(100, session_context.sid))
       /\ \A c \in Client : ~Queued(c, Request(102, session_context.sid))

\* An audio thread runs, or is about to, after its session's SayHello.
Greeted ==
  /\ svc = "openReader" => Queued(connection_context, Request(300, session_context.sid))
  /\ \A s \in Session : audio[s] \in {"check", "read", "send"} =>
       Queued(net_client[s], Request(300, s))

RequestInv ==
  /\ SidsDrawn
  /\ OpenedFirst
  /\ SessionAsked
  /\ Greeted
  /\ QueueOrder

\* The speaker has been fed from the messages received, and no others.
SpeechInv ==
  /\ \A c \in Client : handled[c] <= Len(delivered[c])
  /\ \A i \in 1..Len(soundQueue) : soundQueue[i][2] \in 1..handled[soundQueue[i][1]]
  /\ SpeechInOrder

\* Every event taken for SessionStarted was one, of a session that was asked
\* for; the first start opens the first connection.
StartedMsg(s) == [kind |-> "started", sid |-> s]

OriginInv ==
  /\ \A i \in 1..Len(session_event) :
       \E c \in Client : phase[c] # "none" /\ Told(c, StartedMsg(session_event[i]))
  /\ session_context # NoSession =>
       \E c \in Client : phase[c] # "none" /\ Told(c, StartedMsg(session_context.of))
  /\ \A c \in Client, s \in Session : Told(c, StartedMsg(s)) => s <= starts
  /\ starts <= 1 =>
       \A b, c \in Client : phase[b] # "none" /\ phase[c] # "none" => starts = 1 /\ b = c

ServiceInv ==
  /\ TypeOK
  /\ PipeInv
  /\ ConnectionInv
  /\ ContextInv
  /\ PendingInv
  /\ AudioThreadOwned
  /\ RequestInv
  /\ SpeechInv
  /\ OriginInv
=============================================================================
