------------------------------- MODULE AppProofs -------------------------------
(***************************************************************************)
(* The program keeps what its parts promise: whatever App does is a        *)
(* behaviour of RtService and of Sound, so that their theorems hold of it, *)
(* and main's order of calls gives the two properties that concern both.   *)
(***************************************************************************)
EXTENDS App, RtServiceProofs, SoundProofs

-----------------------------------------------------------------------------
(* RtService within the program. *)

\* Every step of the program is one of RtService, or does not touch it.
LEMMA ServiceSteps == [AppNext]_appVars => [Next]_vars
  <1>1. SUFFICES ASSUME AppNext PROVE [Next]_vars
    BY DEF appVars
  <1>2. CASE MainStep
    <2>1. CASE MainStarts \/ InService \/ MainStops
      BY <2>1 DEF MainStarts, InService, MainStops, Next, AppCall
    <2>2. CASE MicrophoneFails \/ StartReturned \/ StopReturned \/ DropService \/ InSound
               \/ SoundDropped
      BY <2>2 DEF MicrophoneFails, StartReturned, StopReturned, DropService, InSound, SoundDropped
    <2>3. QED
      BY <1>2, <2>1, <2>2 DEF MainStep
  <1>3. CASE AppSound
    BY <1>3 DEF AppSound
  <1>4. ASSUME NEW c \in Client, AppDispatch(c) \/ AppNet(c)
        PROVE  Next
    BY <1>4 DEF AppDispatch, AppNet, ServiceIdle, Next
  <1>5. ASSUME NEW s \in Session, AppAudio(s)
        PROVE  Next
    BY <1>5 DEF AppAudio, Next
  <1>6. QED
    BY <1>1, <1>2, <1>3, <1>4, <1>5 DEF AppNext

\* Under main, RtService is the one its theorems are about.
THEOREM AppRunsService == AppSpec => Spec
  <1>1. AppInit => Init
    BY DEF AppInit
  <1>2. QED
    BY <1>1, ServiceSteps, PTL DEF AppSpec, Spec

\* ... and its invariant holds.
THEOREM AppServiceInvariant == AppSpec => []ServiceInv
  BY AppRunsService, ServiceInvariant, PTL

-----------------------------------------------------------------------------
(* What main's steps are, for the service and for the Sound.               *)

\* Nobody but main's thread touches main, and only these steps move it.
LEMMA MainMoves ==
  ASSUME [AppNext]_appVars
  PROVE  \/ MicrophoneFails
         \/ MainStarts
         \/ StartReturned
         \/ MainStops
         \/ StopReturned
         \/ DropService
         \/ SoundDropped
         \/ UNCHANGED main
  BY DEF AppNext, MainStep, InService, InSound, AppSound, AppDispatch, AppNet, AppAudio, Lives,
     appVars

\* The steps of threads other than main leave main's place in the service's
\* calls alone, and start no audio thread.
LEMMA OthersSteps ==
  ASSUME ServiceInv,
         \/ AppSound
         \/ \E c \in Client : AppDispatch(c) \/ AppNet(c)
         \/ \E s \in Session : AppAudio(s)
         \/ UNCHANGED appVars
  PROVE  /\ UNCHANGED <<main, svcVars>>
         /\ \A s \in Session : audio[s] = "none" <=> audio'[s] = "none"
         /\ \A s \in Session : audio[s] = "done" => audio'[s] = "done"
  <1>1. audio \in [Session -> {"none", "check", "read", "send", "done"}]
    BY DEF ServiceInv, TypeOK
  <1>2. CASE AppSound \/ UNCHANGED appVars
    BY <1>2, SMTT(30) DEF AppSound, Lives, appVars, vars, svcVars, audioVars
  <1>3. ASSUME NEW c \in Client, AppDispatch(c)
        PROVE  UNCHANGED <<main, svcVars, audio>>
    BY <1>3 DEF AppDispatch, Lives, Dispatch, CheckConnectted, HandleMessage, RecvErr, audioVars
  <1>4. ASSUME NEW c \in Client, AppNet(c)
        PROVE  UNCHANGED <<main, svcVars, audio>>
    BY <1>4 DEF AppNet, Lives, ServiceIdle, audioVars
  <1>5. ASSUME NEW s \in Session, AppAudio(s)
        PROVE  /\ UNCHANGED <<main, svcVars>>
               /\ \A t \in Session : audio[t] = "none" <=> audio'[t] = "none"
               /\ \A t \in Session : audio[t] = "done" => audio'[t] = "done"
    <2>1. UNCHANGED <<main, svcVars>>
      BY <1>5 DEF AppAudio, Lives, Audio, AudioCheck, AudioSkip, AudioRead, AudioSend
    <2>2. PICK from \in {"check", "read", "send"}, to \in {"check", "read", "send", "done"} :
            AudioAt(s, from, to)
      BY <1>5 DEF AppAudio, Audio, AudioCheck, AudioSkip, AudioRead, AudioSend
    <2>3. \A t \in Session : audio'[t] = IF t = s THEN to ELSE audio[t]
      BY <1>1, <2>2 DEF AudioAt
    <2>4. QED
      BY <2>1, <2>2, <2>3 DEF AudioAt
  <1>6. QED
    BY <1>2, <1>3, <1>4, <1>5

-----------------------------------------------------------------------------
(* Main's order of calls. *)

\* The program's only session is 1.
LEMMA FirstSession == ServiceInv /\ starts = 1 => 1 \in Session
  BY ServiceAssumption DEF ServiceInv, TypeOK, Session

\* The calls that start and stop are made of, one after another.
LEMMA CallSteps ==
  ASSUME ServiceInv, MainInv, InService
  PROVE  MainInv'
  <1>1. starts = 1 /\ 1 \in Session /\ UNCHANGED <<main, starts>>
    BY FirstSession DEF InService, MainInv, ServiceStep, StartConnection, StartSession,
       SessionStarted, SessionTimeout, Greet, OpenReader, JoinMic, FinishSession,
       FinishConnection, JoinNet, contexts
  <1>2. audio \in [Session -> {"none", "check", "read", "send", "done"}]
    BY DEF ServiceInv, TypeOK
  <1>a. \A s \in Session : audio'[s] # "none" => s = starts'
    <2>1. CASE OpenReader
      <3>1. session_context # NoSession /\ session_context.sid <= 1
        BY <1>1, <2>1 DEF OpenReader, GoTo, ServiceInv, ContextInv
      <3>2. session_context \in [sid : Session, of : Session]
        BY <3>1 DEF ServiceInv, TypeOK
      <3>3. session_context.sid = 1
        BY <3>1, <3>2, ServiceAssumption DEF Session
      <3>4. audio' = audio \/ audio' = [audio EXCEPT ![1] = "check"]
        BY <2>1, <3>3 DEF OpenReader
      <3>5. QED
        BY <1>1, <1>2, <3>4 DEF MainInv
    <2>2. CASE ~OpenReader
      <3>1. audio' = audio
        BY <2>2 DEF InService, ServiceStep, StartConnection, StartSession, SessionStarted,
           SessionTimeout, Greet, JoinMic, FinishSession, FinishConnection, JoinNet, audioVars
      <3>2. QED
        BY <1>1, <3>1 DEF MainInv
    <2>3. QED
      BY <2>1, <2>2
  <1>3. CASE main = "starting"
    <2>1. svc \in Starting
      BY <1>3 DEF InService, MainInv, Starting, Stopping, ServiceStep, StartConnection,
         StartSession, SessionStarted, SessionTimeout, Greet, OpenReader, JoinMic, FinishSession,
         FinishConnection, JoinNet, GoTo, SendRequest
    <2>2. svc' \in {"idle"} \cup Starting
      BY <2>1 DEF InService, Starting, ServiceStep, StartConnection,
         StartSession, SessionStarted, SessionTimeout, Greet, OpenReader, JoinMic, FinishSession,
         FinishConnection, JoinNet, GoTo, SendRequest
    <2>3. QED
      BY <1>1, <1>a, <1>3, <2>2 DEF MainInv
  <1>4. CASE main = "stopping"
    <2>1. svc \in Stopping
      BY <1>4 DEF InService, MainInv, Starting, Stopping, ServiceStep, StartConnection,
         StartSession, SessionStarted, SessionTimeout, Greet, OpenReader, JoinMic, FinishSession,
         FinishConnection, JoinNet, GoTo, SendRequest
    <2>2. CASE JoinMic \/ FinishSession
      BY <1>1, <1>a, <1>4, <2>1, <2>2
      DEF MainInv, JoinMic, FinishSession, GoTo, SendRequest, Stopping, audioVars
    <2>3. CASE FinishConnection \/ JoinNet
      BY <1>1, <1>a, <1>4, <2>1, <2>3
      DEF MainInv, FinishConnection, JoinNet, GoTo, Stopping, audioVars, contexts,
          ServiceInv, ContextInv
    <2>4. JoinMic \/ FinishSession \/ FinishConnection \/ JoinNet
      BY <2>1 DEF InService, Stopping, ServiceStep, StartConnection,
         StartSession, SessionStarted, SessionTimeout, Greet, OpenReader, GoTo, SendRequest
    <2>5. QED
      BY <2>2, <2>3, <2>4
  <1>5. QED
    BY <1>3, <1>4 DEF InService

\* Main's own steps between the calls.
LEMMA MainSteps ==
  ASSUME ServiceInv, MainInv,
         \/ MicrophoneFails
         \/ MainStarts
         \/ StartReturned
         \/ MainStops
         \/ StopReturned
         \/ DropService
         \/ SoundDropped
  PROVE  MainInv'
  <1>1. CASE MainStarts
    <2>1. main = "start" /\ main' = "starting" /\ starts = 0
      BY <1>1 DEF MainStarts, MainAt, MainInv
    <2>2. starts' = 1 /\ svc' \in {"idle", "startConnection"} /\ audio' = audio
      BY <1>1, <2>1 DEF MainStarts, StartRefused, StartConnect, GoTo, audioVars
    <2>3. \A s \in Session : audio[s] = "none"
      BY <2>1 DEF MainInv, Session
    <2>4. QED
      BY <2>1, <2>2, <2>3 DEF MainInv, Starting
  <1>2. CASE StartReturned
    <2>1. main = "starting" /\ svc = "idle" /\ starts = 1 /\ UNCHANGED vars
      BY <1>2 DEF StartReturned, MainAt, MainInv
    <2>2. main' = IF audio[1] # "none" THEN "chat" ELSE "drop"
      BY <1>2, <2>1 DEF StartReturned, MainAt
    <2>3. main' = "drop" => \A s \in Session : audio[s] = "none"
      BY <2>1, <2>2 DEF MainInv
    <2>4. QED
      BY <2>1, <2>2, <2>3 DEF MainInv, vars, svcVars, audioVars
  <1>3. CASE MainStops
    <2>1. main = "chat" /\ main' = "stopping" /\ starts = 1 /\ audio[1] # "none"
      BY <1>3 DEF MainStops, MainAt, MainInv
    <2>2. svc' \in {"joinMic", "finishConnection"} /\ UNCHANGED <<starts, audio>>
      BY <1>3 DEF MainStops, Stop, GoTo
    <2>3. QED
      BY <2>1, <2>2 DEF MainInv, Stopping
  <1>4. CASE StopReturned
    <2>1. main = "stopping" /\ main' = "drop" /\ svc = "idle" /\ UNCHANGED vars /\ starts = 1
      BY <1>4 DEF StopReturned, MainAt, MainInv
    <2>2. connection_context = NoClient /\ session_context = NoSession /\ audio[1] # "none"
      BY <2>1 DEF MainInv
    <2>3. audio[1] = "done"
      BY <2>1, <2>2, FirstSession DEF ServiceInv, TypeOK, AudioThreadOwned
    <2>4. QED
      BY <2>1, <2>2, <2>3 DEF MainInv, vars, svcVars, audioVars
  <1>5. CASE DropService \/ SoundDropped
    <2>1. main \in {"drop", "dropSound"} /\ main' \in {"dropSound", "exit"} /\ UNCHANGED vars
      BY <1>5 DEF DropService, SoundDropped, MainAt
    <2>2. QED
      BY <2>1 DEF MainInv, vars, svcVars, audioVars
  <1>6. CASE MicrophoneFails
    <2>1. main = "start" /\ main' = "dropSound" /\ UNCHANGED vars /\ starts = 0
      BY <1>6 DEF MicrophoneFails, MainAt, MainInv
    <2>2. \A s \in Session : audio[s] = "none"
      BY <2>1 DEF MainInv, Session
    <2>3. QED
      BY <2>1, <2>2 DEF MainInv, vars, svcVars, audioVars
  <1>7. QED
    BY <1>1, <1>2, <1>3, <1>4, <1>5, <1>6

\* Every step keeps main's order of calls.
LEMMA MainInvStep == ServiceInv /\ MainInv /\ [AppNext]_appVars => MainInv'
  <1>1. SUFFICES ASSUME ServiceInv, MainInv, [AppNext]_appVars PROVE MainInv'
    OBVIOUS
  <1>2. CASE \/ MicrophoneFails
             \/ MainStarts
             \/ StartReturned
             \/ MainStops
             \/ StopReturned
             \/ DropService
             \/ SoundDropped
    BY <1>1, <1>2, MainSteps
  <1>3. CASE InService
    BY <1>1, <1>3, CallSteps
  <1>4. CASE InSound
    BY <1>1, <1>4 DEF InSound, MainInv, vars, svcVars, audioVars
  <1>5. CASE \/ AppSound
             \/ \E c \in Client : AppDispatch(c) \/ AppNet(c)
             \/ \E s \in Session : AppAudio(s)
             \/ UNCHANGED appVars
    <2>1. /\ UNCHANGED <<main, svc, starts, connection_context, session_context>>
          /\ \A s \in Session : audio[s] = "none" <=> audio'[s] = "none"
          /\ \A s \in Session : audio[s] = "done" => audio'[s] = "done"
      BY <1>1, <1>5, OthersSteps DEF svcVars
    <2>2. starts = 1 => 1 \in Session
      BY <1>1, FirstSession
    <2>3. QED
      BY <1>1, <2>1, <2>2 DEF MainInv
  <1>6. QED
    BY <1>1, <1>2, <1>3, <1>4, <1>5 DEF AppNext, MainStep

-----------------------------------------------------------------------------
(* The Sound within the program. *)

BoundInv == \A c \in Client : Len(sent[c]) <= MaxMsgs

\* No connection has more messages than the model's bound.
LEMMA BoundStep == ServiceInv /\ BoundInv /\ [AppNext]_appVars => BoundInv'
  <1>1. SUFFICES ASSUME ServiceInv, BoundInv, [AppNext]_appVars PROVE BoundInv'
    OBVIOUS
  <1>2. sent \in [Client -> Seq(Msg)]
    BY <1>1 DEF ServiceInv, TypeOK, LinkTypeOK
  <1>3. [LinkNext]_linkVars
    BY <1>1, ServiceSteps, LinkStep DEF ServiceInv
  <1>4. CASE UNCHANGED sent
    BY <1>1, <1>4 DEF BoundInv
  <1>5. ASSUME NEW c \in Client, NEW m \in Msg, ServerSend(c, m)
        PROVE  BoundInv'
    <2>1. Len(Append(sent[c], m)) = Len(sent[c]) + 1 /\ Len(sent[c]) \in Nat
      BY <1>2
    <2>2. Len(sent'[c]) <= MaxMsgs
      BY <1>2, <1>5, <2>1, AppAssumption DEF ServerSend
    <2>3. \A d \in Client : d # c => sent'[d] = sent[d]
      BY <1>2, <1>5 DEF ServerSend
    <2>4. QED
      BY <1>1, <2>2, <2>3 DEF BoundInv
  <1>6. QED
    BY <1>3, <1>4, <1>5
    DEF LinkNext, linkVars, Connect, Take, Fail, Receive, End, SendCheck, SendOk, SendErr

\* A dispatcher that plays something is running, and so is the Sound.
LEMMA DispatchPlays ==
  ASSUME ServiceInv, BoundInv, SoundHeld, SoundInv, NEW c \in Client, AppDispatch(c)
  PROVE  /\ Dispatching(c)
         /\ running /\ soundOwner = "shared" /\ soundWorker # "done"
         /\ \/ UNCHANGED <<soundQueue, soundVars>>
            \/ \E a \in Clip : /\ soundQueue' = Append(soundQueue, a)
                               /\ SoundPlay(a)
  <1>1. Dispatching(c) /\ Dispatch(c)
    BY DEF AppDispatch, Dispatch, CheckConnectted, HandleMessage, RecvErr, At, Dispatching
  <1>2. running /\ soundOwner = "shared" /\ soundWorker # "done"
    BY <1>1 DEF SoundHeld, SoundInv, FlagInv
  <1>3. CASE UNCHANGED soundQueue
    BY <1>1, <1>2, <1>3 DEF AppDispatch
  <1>4. CASE HandleMessage(c) /\ soundQueue' # soundQueue
    <2> DEFINE k == handled[c] + 1
    <2>1. handled[c] < Len(delivered[c])
      BY <1>4 DEF HandleMessage
    <2>2. delivered[c][k] = k /\ k \in 1..Len(sent[c]) /\ Len(sent[c]) \in Nat
      <3>1. TypeOK /\ PipeInv /\ SpeechInv
        BY DEF ServiceInv
      <3>2. Len(sent[c]) \in Nat
        BY <3>1 DEF TypeOK, LinkTypeOK
      <3>3. QED
        BY <2>1, <3>1, <3>2, NextMessage
    <2>3. soundQueue' = Append(soundQueue, <<c, k>>)
      BY <1>4, <2>2 DEF HandleMessage
    <2>4. k \in 1..MaxMsgs
      BY <2>2, AppAssumption DEF BoundInv
    <2>5. <<c, k>> \in Clip
      BY <2>4, AppAssumption DEF AppClip
    <2>6. soundQueue \in Seq(Client \X Nat) /\ <<c, k>> \in Client \X Nat
      BY <2>4, AppAssumption DEF ServiceInv, TypeOK
    <2>7. soundQueue'[Len(soundQueue')] = <<c, k>>
      BY <2>3, <2>6, Appended
    <2>8. SoundPlay(<<c, k>>)
      BY <1>4, <2>7 DEF AppDispatch
    <2>9. QED
      BY <1>1, <1>2, <2>3, <2>5, <2>8
  <1>5. QED
    BY <1>1, <1>3, <1>4 DEF Dispatch, CheckConnectted, RecvErr

\* What the Sound sees of a step of the program: its holders and its worker do
\* what Sound says, one at a time.
LEMMA SoundSteps ==
  ServiceInv /\ BoundInv /\ SoundHeld /\ SoundInv /\ [AppNext]_appVars => [SoundNext]_soundVars
  <1>1. SUFFICES ASSUME ServiceInv, BoundInv, SoundHeld, SoundInv, [AppNext]_appVars
                 PROVE  [SoundNext]_soundVars
    OBVIOUS
  <1>2. CASE MainStep
    BY <1>2 DEF MainStep, MicrophoneFails, MainStarts, InService, StartReturned, MainStops,
       StopReturned,
       DropService, InSound, SoundDropped, SoundNext
  <1>3. CASE AppSound
    BY <1>3 DEF AppSound, SoundNext
  <1>4. ASSUME NEW c \in Client, AppDispatch(c)
        PROVE  [SoundNext]_soundVars
    BY <1>1, <1>4, DispatchPlays DEF SoundNext
  <1>5. ASSUME NEW c \in Client, AppNet(c)
        PROVE  UNCHANGED soundVars
    BY <1>5 DEF AppNet, ServiceIdle
  <1>6. ASSUME NEW s \in Session, AppAudio(s)
        PROVE  UNCHANGED soundVars
    BY <1>6 DEF AppAudio
  <1>7. CASE UNCHANGED appVars
    BY <1>7 DEF appVars
  <1>8. QED
    BY <1>1, <1>2, <1>3, <1>4, <1>5, <1>6, <1>7 DEF AppNext

\* A dispatcher is spawned by start only.
LEMMA NoneSpawned ==
  ASSUME ServiceInv, [AppNext]_appVars, ~MainStarts, NEW c \in Client, Dispatching(c)'
  PROVE  Dispatching(c)
  <1>1. dispatcher \in [Client -> {"none", "check", "recv", "done"}]
    BY DEF ServiceInv, TypeOK
  <1>2. CASE MainStep
    BY <1>2 DEF MainStep, MicrophoneFails, MainStarts, InService, StartReturned, MainStops,
       StopReturned,
       DropService, InSound, SoundDropped, ServiceStep, StartConnection, StartSession,
       SessionStarted, SessionTimeout, Greet, OpenReader, JoinMic, FinishSession,
       FinishConnection, JoinNet, Stop, Dispatching, vars, dispVars
  <1>3. ASSUME NEW b \in Client, AppDispatch(b)
        PROVE  Dispatching(c)
    BY <1>1, <1>3 DEF AppDispatch, Dispatch, CheckConnectted, HandleMessage, RecvErr, At,
       Dispatching
  <1>4. CASE AppSound \/ (\E b \in Client : AppNet(b)) \/ UNCHANGED appVars
    BY <1>4 DEF AppSound, AppNet, ServiceIdle, appVars, vars, dispVars, Dispatching
  <1>5. ASSUME NEW s \in Session, AppAudio(s)
        PROVE  Dispatching(c)
    BY <1>5 DEF AppAudio, Audio, AudioCheck, AudioSkip, AudioRead, AudioSend, dispVars,
       Dispatching
  <1>6. QED
    BY <1>2, <1>3, <1>4, <1>5 DEF AppNext

\* Main keeps to who holds the Sound: it stops it only as the last holder.
LEMMA HeldMain ==
  ASSUME ServiceInv, MainInv, SoundHeld, SoundInv, MainStep
  PROVE  SoundHeld'
  <1>1. CASE MainStarts
    BY <1>1 DEF MainStarts, MainAt, SoundHeld, soundVars
  <1>2. CASE InService \/ StartReturned \/ MainStops \/ StopReturned
    <2>1. UNCHANGED soundVars /\ main \notin {"dropSound", "exit"}
          /\ main' \notin {"dropSound", "exit"}
      BY <1>2 DEF InService, StartReturned, MainStops, StopReturned, MainAt
    <2>2. QED
      BY <2>1 DEF SoundHeld, soundVars
  <1>3. CASE DropService
    <2>1. UNCHANGED dispatcher
      BY <1>3 DEF DropService, vars, dispVars
    <2>2. QED
      BY <1>3, <2>1 DEF DropService, MainAt, SoundHeld, SoundStop, soundVars, Dispatching
  <1>4. CASE InSound
    <2>1. UNCHANGED <<dispatcher, main, running, soundWorker>> /\ main = "dropSound"
      BY <1>4 DEF InSound, SoundOwnerStep, SoundSendStopping, SoundJoin, vars, dispVars
    <2>2. soundOwner' = "shared" => soundWorker = "done"
      BY <1>4 DEF InSound, SoundOwnerStep, SoundSendStopping, SoundJoin
    <2>3. QED
      BY <2>1, <2>2 DEF SoundHeld, Dispatching
  <1>5. CASE SoundDropped
    <2>1. UNCHANGED <<dispatcher, soundVars>>
      BY <1>5 DEF SoundDropped, vars, dispVars
    <2>2. QED
      BY <1>5, <2>1 DEF SoundDropped, MainAt, SoundHeld, soundVars, Dispatching
  <1>6. CASE MicrophoneFails
    <2>1. UNCHANGED dispatcher
      BY <1>6 DEF MicrophoneFails, vars, dispVars
    <2>2. starts = 0
      BY <1>6 DEF MicrophoneFails, MainAt, MainInv
    <2>3. ASSUME NEW c \in Client
          PROVE  phase[c] = "none"
      <3>1. starts <= 1 =>
              \A b, d \in Client : phase[b] # "none" /\ phase[d] # "none" => starts = 1 /\ b = d
        BY DEF ServiceInv, OriginInv
      <3>2. QED
        BY <2>2, <3>1, SMT
    <2>4. connection_context = NoClient
      BY <2>3 DEF ServiceInv, TypeOK, ConnectionInv
    <2>5. \A c \in Client : ~Dispatching(c)
      BY <2>4, ServiceAssumption DEF ServiceInv, ConnectionInv, OneDispatcher, Dispatching
    <2>6. QED
      BY <1>6, <2>1, <2>5
      DEF MicrophoneFails, MainAt, SoundHeld, SoundStop, soundVars, Dispatching
  <1>7. QED
    BY <1>1, <1>2, <1>3, <1>4, <1>5, <1>6 DEF MainStep

\* So does every other step.
LEMMA HeldStep ==
  /\ ServiceInv /\ BoundInv /\ MainInv /\ SoundHeld /\ SoundInv /\ [AppNext]_appVars
  => SoundHeld'
  <1>1. SUFFICES ASSUME ServiceInv, BoundInv, MainInv, SoundHeld, SoundInv,
                        [AppNext]_appVars
                 PROVE  SoundHeld'
    OBVIOUS
  <1>2. CASE MainStep
    BY <1>1, <1>2, HeldMain
  <1>3. CASE ~MainStep
    <2>1. UNCHANGED main /\ (main = "exit" => UNCHANGED appVars)
      BY <1>1, <1>3 DEF AppNext, AppSound, AppDispatch, AppNet, AppAudio, Lives, appVars
    <2>2. \A c \in Client : Dispatching(c)' => Dispatching(c)
      BY <1>1, <1>3, NoneSpawned DEF MainStep
    <2>3. /\ soundOwner' = soundOwner
          /\ running => running'
          /\ running' => running
          /\ soundWorker = "done" => soundWorker' = "done"
      <3>1. CASE AppSound
        BY <1>1, <3>1 DEF AppSound, SoundWork, SoundCheck, SoundRecvPlay, SoundRecvStopping,
           SoundDetach, SoundAt, SoundInv, FlagInv
      <3>2. ASSUME NEW c \in Client, AppDispatch(c)
            PROVE  UNCHANGED <<running, soundOwner, soundWorker>>
        BY <1>1, <3>2, DispatchPlays DEF SoundPlay, soundVars
      <3>3. CASE (\E c \in Client : AppNet(c)) \/ (\E s \in Session : AppAudio(s))
                   \/ UNCHANGED appVars
        BY <3>3 DEF AppNet, ServiceIdle, AppAudio, appVars, soundVars
      <3>4. QED
        BY <1>1, <1>3, <3>1, <3>2, <3>3 DEF AppNext
    <2>4. CASE main = "exit"
      BY <1>1, <2>1, <2>4 DEF SoundHeld, appVars, vars, dispVars, soundVars, Dispatching
    <2>5. CASE main # "exit"
      BY <1>1, <2>1, <2>2, <2>3, <2>5 DEF SoundHeld
    <2>6. QED
      BY <2>4, <2>5
  <1>4. QED
    BY <1>2, <1>3

-----------------------------------------------------------------------------
(* Speech, and the end. *)

\* While the flag is up everything the channel has is speech.
LEMMA RunningAccepts == SoundInv /\ running => AcceptedClips = soundCommands
  BY Accepted DEF SoundInv, StoppingLast, StoppingSent

\* A played clip is an accepted one, and nothing else is.
LEMMA SpeechStep ==
  /\ ServiceInv /\ BoundInv /\ SoundHeld /\ SoundInv /\ SoundInv'
  /\ SpeechAccepted /\ [AppNext]_appVars
  => SpeechAccepted'
  <1>1. SUFFICES ASSUME ServiceInv, BoundInv, SoundHeld, SoundInv, SoundInv', SpeechAccepted,
                        [AppNext]_appVars
                 PROVE  SpeechAccepted'
    OBVIOUS
  <1>2. CASE \E c \in Client : AppDispatch(c)
    <2>1. PICK c \in Client : AppDispatch(c)
      BY <1>2
    <2>2. CASE UNCHANGED <<soundQueue, soundVars>>
      BY <1>1, <2>2 DEF SpeechAccepted, AcceptedClips, soundVars
    <2>3. ASSUME NEW a \in Clip, soundQueue' = Append(soundQueue, a), SoundPlay(a)
          PROVE  SpeechAccepted'
      <3>1. running /\ soundWorker # "done"
        BY <1>1, <2>1, DispatchPlays
      <3>2. soundCommands' = Append(soundCommands, a) /\ running'
        BY <2>3, <3>1 DEF SoundPlay
      <3>3. AcceptedClips = soundCommands
        BY <1>1, <3>1, RunningAccepts
      <3>4. (AcceptedClips = soundCommands)'
        BY <1>1, <3>2, RunningAccepts, PTL
      <3>5. QED
        BY <1>1, <2>3, <3>2, <3>3, <3>4 DEF SpeechAccepted
    <2>4. QED
      BY <1>1, <2>1, <2>2, <2>3, DispatchPlays
  <1>3. CASE ~\E c \in Client : AppDispatch(c)
    <2>1. UNCHANGED soundQueue
      <3>1. CASE MainStep
        BY <3>1 DEF MainStep, MicrophoneFails, MainStarts, InService, StartReturned,
           MainStops, StopReturned,
           DropService, InSound, SoundDropped, ServiceStep, StartRefused, StartConnect,
           StartConnection, StartSession,
           SessionStarted, SessionTimeout, Greet, OpenReader, JoinMic, FinishSession,
           FinishConnection, JoinNet, Stop, vars, dispVars
      <3>2. CASE AppSound \/ (\E c \in Client : AppNet(c)) \/ UNCHANGED appVars
        BY <3>2 DEF AppSound, AppNet, ServiceIdle, appVars, vars, dispVars
      <3>3. ASSUME NEW s \in Session, AppAudio(s)
            PROVE  UNCHANGED soundQueue
        BY <3>3 DEF AppAudio, Audio, AudioCheck, AudioSkip, AudioRead, AudioSend, dispVars
      <3>4. QED
        BY <1>1, <1>3, <3>1, <3>2, <3>3 DEF AppNext
    <2>2. SoundStop \/ SoundOwnerStep \/ SoundWork \/ UNCHANGED soundVars
      <3>1. CASE MainStep
        BY <3>1 DEF MainStep, MicrophoneFails, MainStarts, InService, StartReturned,
           MainStops, StopReturned,
           DropService, InSound, SoundDropped
      <3>2. CASE AppSound \/ (\E c \in Client : AppNet(c)) \/ (\E s \in Session : AppAudio(s))
                   \/ UNCHANGED appVars
        BY <3>2 DEF AppSound, AppNet, ServiceIdle, AppAudio, appVars
      <3>3. QED
        BY <1>1, <1>3, <3>1, <3>2 DEF AppNext
    <2>3. AcceptedClips' = AcceptedClips
      <3>1. SoundSpeaker!CloseSpeaker \/ UNCHANGED SoundSpeaker!speakerVars \/ SoundSpeaker!PlayNext
              \/ UNCHANGED soundVars
        BY <1>1, <2>2, RefinesOwner, RefinesWork
      <3>2. QED
        BY <3>1 DEF SoundSpeaker!CloseSpeaker, SoundSpeaker!speakerVars, SoundSpeaker!PlayNext,
           AcceptedClips, soundVars
    <2>4. QED
      BY <1>1, <2>1, <2>3 DEF SpeechAccepted
  <1>4. QED
    BY <1>2, <1>3

\* What holds of the program: the invariants of its two parts, and AppInv.
Whole == ServiceInv /\ SoundInv /\ AppInv

\* AppInv, part by part.
LEMMA AppParts ==
  AppInv <=> /\ main \in {"start", "starting", "chat", "stopping", "drop", "dropSound", "exit"}
             /\ MainInv /\ SoundHeld /\ SpeechAccepted /\ BoundInv
  BY DEF AppInv, BoundInv

\* The program begins in a state of all three invariants ...
LEMMA WholeInit == AppInit => Whole
  <1>1. SUFFICES ASSUME AppInit PROVE Whole
    OBVIOUS
  <1>2. Init /\ SoundInit /\ main = "start"
    BY <1>1 DEF AppInit
  <1>3. ServiceInv /\ SoundInv
    BY <1>2, InvInit, InitInv
  <1>4. MainInv
    BY <1>2 DEF MainInv, Init
  <1>5. SoundHeld
    BY <1>2 DEF SoundHeld, SoundInit
  <1>6. SpeechAccepted
    <2>1. soundQueue = <<>> /\ soundCommands = <<>> /\ Len(soundCommands) = 0
      BY <1>2 DEF Init, SoundInit
    <2>2. QED
      BY <2>1 DEF SpeechAccepted, AcceptedClips
  <1>7. BoundInv
    <2>1. \A c \in Client : sent[c] = <<>>
      BY <1>2, Zenon DEF Init, LinkInit
    <2>2. Len(<<>>) = 0 /\ 0 <= MaxMsgs
      BY AppAssumption
    <2>3. QED
      BY <2>1, <2>2, Zenon DEF BoundInv
  <1>8. QED
    BY <1>2, <1>3, <1>4, <1>5, <1>6, <1>7, AppParts DEF Whole

\* ... and every step keeps them.
LEMMA WholeStep == Whole /\ [AppNext]_appVars => Whole'
  <1>1. SUFFICES ASSUME Whole, [AppNext]_appVars PROVE Whole'
    OBVIOUS
  <1>2. ServiceInv /\ SoundInv /\ MainInv /\ SoundHeld /\ SpeechAccepted /\ BoundInv
    BY <1>1, AppParts DEF Whole
  <1>3. ServiceInv'
    BY <1>1, <1>2, ServiceSteps, InvStep
  <1>4. SoundInv'
    BY <1>1, <1>2, SoundSteps, NextInv
  <1>5. MainInv' /\ SoundHeld' /\ SpeechAccepted' /\ BoundInv'
    BY <1>1, <1>2, <1>4, MainInvStep, HeldStep, SpeechStep, BoundStep
  <1>6. main' \in {"start", "starting", "chat", "stopping", "drop", "dropSound", "exit"}
    BY <1>1, MainMoves DEF Whole, AppInv, MicrophoneFails, MainStarts, StartReturned,
       MainStops, StopReturned,
       DropService, SoundDropped, MainAt
  <1>7. AppInv'
    BY <1>5, <1>6 DEF AppInv, BoundInv
  <1>8. QED
    BY <1>3, <1>4, <1>7 DEF Whole

\* The parts' invariants and the program's, together.
LEMMA WholeInvariant == AppSpec => []Whole
  BY WholeInit, WholeStep, PTL DEF AppSpec

\* While main goes on it holds the Sound, and afterwards only its drop uses it;
\* main's place in the program says which of RtService's calls are over.
THEOREM AppInvariant == AppSpec => []AppInv
  <1>1. Whole => AppInv
    BY DEF Whole
  <1>2. QED
    BY <1>1, WholeInvariant, PTL

\* Under main and the dispatchers, the Sound is the one SoundProofs speaks of:
\* play and stop never run at the same time, and only one thread stops it.
THEOREM AppRunsSound == AppSpec => SoundSpec
  <1>1. AppInit => SoundInit
    BY DEF AppInit
  <1>2. Whole /\ [AppNext]_appVars => [SoundNext]_soundVars
    BY SoundSteps, AppParts DEF Whole
  <1>3. QED
    BY <1>1, <1>2, WholeInvariant, PTL DEF AppSpec, SoundSpec

\* No speech a dispatcher received is refused, although what play returns is
\* ignored (handle_audio_only_server_message), and none is queued twice.
THEOREM NoSpeechRefused == AppSpec => []SpeechAccepted
  <1>1. Whole => SpeechAccepted
    BY DEF Whole, AppInv
  <1>2. QED
    BY <1>1, WholeInvariant, PTL

\* At the end of the process no audio thread runs; a dispatcher does only if no
\* chat was started, that is, if start failed once connected; and the Sound's
\* worker does only if a dispatcher holds the Sound.
THEOREM ServiceJoinedAtExit == AppSpec => []JoinedAtExit
  <1>1. ASSUME Whole, main = "exit"
        PROVE  /\ \A s \in Session : audio[s] \in {"none", "done"}
               /\ \A c \in Client : Dispatching(c) => \A s \in Session : audio[s] = "none"
               /\ soundWorker # "done" => \E c \in Client : Dispatching(c)
    <2>1. \A s \in Session : audio[s] # "none" => audio[s] = "done" /\ connection_context = NoClient
      BY <1>1 DEF Whole, AppInv, MainInv
    <2>2. \A c \in Client : Dispatching(c) => connection_context = c /\ c # NoClient
      BY <1>1, ServiceAssumption, Zenon
      DEF Whole, ServiceInv, ConnectionInv, OneDispatcher, Dispatching
    <2>3. soundWorker # "done" => \E c \in Client : Dispatching(c)
      BY <1>1 DEF Whole, AppInv, SoundHeld
    <2>4. QED
      BY <2>1, <2>2, <2>3
  <1>2. Whole => JoinedAtExit
    BY <1>1 DEF JoinedAtExit
  <1>3. QED
    BY <1>2, WholeInvariant, PTL

\* The program starts once, so the session it chats in is always one the server
\* has answered (start_session); a second start could go wrong.
THEOREM ProgramSessionAnswered == AppSpec => []StartedByServer
  <1>1. Whole => starts <= 1
    BY DEF Whole, AppInv, MainInv
  <1>2. AppSpec => [](starts <= 1 => StartedByServer)
    BY AppRunsService, FirstStartAnswered, PTL
  <1>3. QED
    BY <1>1, <1>2, WholeInvariant, PTL

\* Type correctness of the Sound, whoever holds it.
THEOREM AppSoundTypes == AppSpec => []SoundTypeOK
  BY AppRunsSound, SoundTypeCorrect, PTL

-----------------------------------------------------------------------------
(* The program's speaker. *)

\* Every step of the program is one of Speaker, or is not seen there.
LEMMA SpeakerSteps ==
  Whole /\ [AppNext]_appVars => [AppSpeaker!SpeakerNext]_(AppSpeaker!speakerVars)
  <1>1. SUFFICES ASSUME Whole, [AppNext]_appVars
                 PROVE  [AppSpeaker!SpeakerNext]_(AppSpeaker!speakerVars)
    OBVIOUS
  <1>2. ServiceInv /\ SoundInv /\ MainInv /\ SoundHeld /\ SpeechAccepted /\ BoundInv
    BY <1>1, AppParts DEF Whole
  <1>3. CASE main = "exit"
    <2>1. UNCHANGED appVars
      BY <1>1, <1>3 DEF AppNext, MainStep, MicrophoneFails, MainStarts, InService,
         StartReturned, MainStops,
         StopReturned, DropService, InSound, SoundDropped, MainAt, AppSound, AppDispatch,
         AppNet, AppAudio, Lives
    <2>2. QED
      BY <2>1 DEF appVars, soundVars, AppSpeaker!speakerVars, AcceptedClips, SpeakerState
  <1>4. CASE main # "exit" /\ main' # "exit"
    <2>1. [SoundSpeaker!SpeakerNext]_(SoundSpeaker!speakerVars)
      BY <1>1, <1>2, SoundSteps, RefinesNext
    <2>2. QED
      BY <1>4, <2>1 DEF SoundSpeaker!SpeakerNext, SoundSpeaker!speakerVars, SoundSpeaker!Accept,
         SoundSpeaker!PlayNext, SoundSpeaker!CloseSpeaker, AppSpeaker!SpeakerNext,
         AppSpeaker!speakerVars, AppSpeaker!Accept, AppSpeaker!PlayNext, AppSpeaker!CloseSpeaker
  <1>5. CASE main # "exit" /\ main' = "exit"
    <2>1. UNCHANGED soundVars
      BY <1>1, <1>5, MainMoves DEF MicrophoneFails, MainStarts, StartReturned, MainStops,
         StopReturned,
         DropService, SoundDropped, MainAt
    <2>2. AcceptedClips' = AcceptedClips /\ sink' = sink
      BY <2>1 DEF soundVars, AcceptedClips
    <2>3. SpeakerState \in {"open", "closing", "closed"}
      BY DEF SpeakerState
    <2>4. QED
      BY <1>5, <2>2, <2>3 DEF AppSpeaker!SpeakerNext, AppSpeaker!speakerVars,
         AppSpeaker!CloseSpeaker
  <1>6. QED
    BY <1>3, <1>4, <1>5

\* Speech is played in the order it was received; once main drops the service
\* nothing more is accepted, at most one clip more is played, and none after
\* the process has ended (play, stop, run_work, main).
THEOREM ProgramSpeaks ==
  AppSpec => AppSpeaker!SpeakerInit /\ [][AppSpeaker!SpeakerNext]_(AppSpeaker!speakerVars)
  <1>1. AppInit => AppSpeaker!SpeakerInit
    BY DEF AppInit, SoundInit, AppSpeaker!SpeakerInit, AcceptedClips, SpeakerState
  <1>2. QED
    BY <1>1, SpeakerSteps, WholeInvariant, PTL DEF AppSpec
=============================================================================
