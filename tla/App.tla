--------------------------------- MODULE App ---------------------------------
(***************************************************************************)
(* The program (src/src/main.rs): main starts the Sound, the Microphone,   *)
(* then the RtService, lets it chat for 120 s, stops it, and returns,      *)
(* which drops them and ends the process with whatever threads are left.   *)
(* RtService and its dispatchers share the Sound in an Arc: the last one   *)
(* to let go runs Sound::drop.                                             *)
(*                                                                         *)
(* The Microphone's worker is not followed here (it is module              *)
(* Microphone): nothing lowers the flag it looks at and nobody joins it,   *)
(* so that it runs from main's start to the end of the process.            *)
(***************************************************************************)
EXTENDS RtService, Sound

VARIABLE main    \* where main is

appVars == <<vars, soundVars, main>>

\* The speech a dispatcher takes, by its connection and its message there.
AppClip == Client \X (1..MaxMsgs)

ASSUME AppAssumption == MaxMsgs \in Nat /\ Clip = AppClip

\* The Sound has been started.
AppInit ==
  /\ Init
  /\ SoundInit
  /\ main = "start"

MainAt(from, to) == main = from /\ main' = to

-----------------------------------------------------------------------------
(* The main thread. *)

\* Microphone::start fails: unwrap panics, and the unwinding of main drops the
\* Sound, which nobody else holds yet.
MicrophoneFails ==
  /\ MainAt("start", "dropSound")
  /\ SoundStop
  /\ UNCHANGED vars

\* Otherwise main calls RtService::start.  This step is the end of its connect,
\* which may never come.
MainStarts ==
  /\ MainAt("start", "starting")
  /\ StartRefused \/ \E c \in Client : StartConnect(c)
  /\ UNCHANGED soundVars

InService ==
  /\ main \in {"starting", "stopping"}
  /\ ServiceStep
  /\ UNCHANGED <<soundVars, main>>

\* start returned Ok if it got as far as the audio thread; else main returns.
StartReturned ==
  /\ svc = "idle"
  /\ MainAt("starting", IF audio[starts] # "none" THEN "chat" ELSE "drop")
  /\ UNCHANGED <<vars, soundVars>>

\* After the sleep.
MainStops ==
  /\ MainAt("chat", "stopping")
  /\ Stop
  /\ UNCHANGED soundVars

StopReturned ==
  /\ svc = "idle"
  /\ MainAt("stopping", "drop")
  /\ UNCHANGED <<vars, soundVars>>

Dispatching(c) == dispatcher[c] \in {"check", "recv"}

\* Fault: main stops the Sound whoever else holds it.
DropServiceStops ==
  /\ MainAt("drop", "dropSound")
  /\ SoundStop
  /\ UNCHANGED vars

\* The RtService is dropped.  Its Arc of the Sound is the last unless a
\* dispatcher is alive, which never lets go: nobody has lowered connectted.
DropService ==
  /\ \/ /\ \E c \in Client : Dispatching(c)
        /\ MainAt("drop", "exit")
        /\ UNCHANGED soundVars
     \/ /\ \A c \in Client : ~Dispatching(c)
        /\ MainAt("drop", "dropSound")
        /\ SoundStop
  /\ UNCHANGED vars

InSound ==
  /\ main = "dropSound"
  /\ SoundOwnerStep
  /\ UNCHANGED <<vars, main>>

\* stop is back; the process ends.
SoundDropped ==
  /\ soundOwner = "shared"
  /\ MainAt("dropSound", "exit")
  /\ UNCHANGED <<vars, soundVars>>

MainStep ==
  \/ MicrophoneFails
  \/ MainStarts
  \/ InService
  \/ StartReturned
  \/ MainStops
  \/ StopReturned
  \/ DropService
  \/ InSound
  \/ SoundDropped

-----------------------------------------------------------------------------
(* The other threads, until main exits.                                     *)

Lives == main # "exit" /\ UNCHANGED main

\* A message handled with handle_audio_only_server_message is played; what play
\* returns is ignored.
AppDispatch(c) ==
  /\ Lives
  /\ Dispatch(c)
  /\ IF soundQueue' # soundQueue
       THEN SoundPlay(soundQueue'[Len(soundQueue')]) ELSE UNCHANGED soundVars

AppAudio(s) == Lives /\ Audio(s) /\ UNCHANGED soundVars

AppSound == Lives /\ SoundWork /\ UNCHANGED vars

ServiceIdle == UNCHANGED <<svcVars, dispVars, audioVars, soundVars>>

AppNet(c) == Lives /\ NetStep(c) /\ ServiceIdle

AppNext ==
  \/ MainStep
  \/ AppSound
  \/ \E c \in Client : AppDispatch(c) \/ AppNet(c)
  \/ \E s \in Session : AppAudio(s)

AppSpec == AppInit /\ [][AppNext]_appVars

\* The program's threads run; the server and the network need do nothing.  So
\* main may stay in start's connect for ever: the TLS and WebSocket handshakes
\* are read without a timeout.
AppFairSpec ==
  /\ AppSpec
  /\ WF_appVars(main # "start" /\ MainStep)
  /\ WF_appVars(AppSound)
  /\ \A c \in Client :
       /\ WF_appVars(AppDispatch(c))
       /\ WF_appVars(Lives /\ Take(c) /\ ServiceIdle)
       /\ WF_appVars(Lives /\ End(c) /\ ServiceIdle)
  /\ \A s \in Session : WF_appVars(AppAudio(s))

-----------------------------------------------------------------------------
(* Properties. *)

\* Every play call is accepted, though handle_audio_only_server_message does
\* not look at what play returns: a Sound that a dispatcher holds is never
\* stopped, whichever of start, stop and main's return comes first.
SpeechAccepted == soundQueue = AcceptedClips

\* Of the threads RtService and the Sound spawn none is left when the process
\* ends after a chat: stop has joined the audio thread and the dispatcher, and
\* the drop of the Sound its worker.  Only a start that failed once connected
\* leaves a dispatcher, and only a dispatcher the Sound's worker.  (NetClient's
\* worker and the Microphone's are joined by nobody, and not meant here.)
JoinedAtExit ==
  main = "exit" =>
    /\ \A s \in Session : audio[s] \in {"none", "done"}
    /\ \A c \in Client : Dispatching(c) => \A s \in Session : audio[s] = "none"
    /\ soundWorker # "done" => \E c \in Client : Dispatching(c)

\* Once main drops the service, or the Sound alone, the process ends: the
\* Sound's worker is woken from recv whatever is in its channel (Sound::stop).
MainExits == main \in {"drop", "dropSound"} ~> main = "exit"

\* Speech is played in the order the dispatcher received it and all of it while
\* the Sound is not stopped; of what is queued when it is, at most one more.
AppSpeaker == INSTANCE Speaker WITH
  accepted <- AcceptedClips,
  played <- sink,
  speaker <- IF main = "exit" THEN "closed" ELSE SpeakerState

ImplementsSpeaker == AppSpeaker!SpeakerSpec

\* "会话结束语发送完成" (rt_service.rs:105, the end of the session has been
\* sent): when the process ends, FinishSession has been written, unless the
\* connection is lost.
FinishSessionSent ==
  main = "exit" =>
    \A c \in Client : connected[c] =>
      \A i \in 1..Len(cmds[c]) : cmds[c][i].event = 102 =>
        \E j \in 1..Len(written[c]) : written[c][j] = i

-----------------------------------------------------------------------------
(* The invariant behind the safety properties (AppProofs), beside ServiceInv *)
(* and what Sound keeps by itself.                                          *)

\* The service's calls are made one after another by main, start at most once; a
\* chat that was started is over before main lets go of the service.
MainInv ==
  /\ main = "start" => svc = "idle" /\ starts = 0
  /\ main \in {"starting", "chat", "stopping", "drop"} => starts = 1
  /\ starts <= 1
  /\ \A s \in Session : audio[s] # "none" => s = starts
  /\ main = "starting" => svc \in {"idle"} \cup Starting
  /\ main = "chat" => svc = "idle" /\ audio[1] # "none"
  /\ main = "stopping" =>
       /\ svc \in {"idle"} \cup Stopping
       /\ audio[1] # "none"
       /\ svc = "idle" => connection_context = NoClient /\ session_context = NoSession
  /\ main \in {"drop", "dropSound", "exit"} =>
       /\ svc = "idle"
       /\ \A s \in Session : audio[s] # "none" =>
            audio[s] = "done" /\ connection_context = NoClient

\* The Sound runs as long as main or a dispatcher holds it; it is stopped by
\* main alone, and joined before main goes on.
SoundHeld ==
  /\ main \notin {"dropSound", "exit"} \/ (\E c \in Client : Dispatching(c)) => running
  /\ soundOwner # "shared" => main = "dropSound"
  /\ main = "dropSound" => ~running /\ (soundOwner = "shared" => soundWorker = "done")
  /\ main = "exit" => soundWorker = "done" \/ \E c \in Client : Dispatching(c)

AppInv ==
  /\ main \in {"start", "starting", "chat", "stopping", "drop", "dropSound", "exit"}
  /\ MainInv
  /\ SoundHeld
  /\ SpeechAccepted
  /\ \A c \in Client : Len(sent[c]) <= MaxMsgs
=============================================================================
