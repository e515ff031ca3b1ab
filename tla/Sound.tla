-------------------------------- MODULE Sound --------------------------------
(***************************************************************************)
(* Sound (src/src/rtvoice/sound.rs): the threads that hold it call play,   *)
(* its worker (run_work) takes the commands and appends the audio to the   *)
(* device's sink, and its last holder stops it (stop, drop).               *)
(*                                                                         *)
(* play borrows the Sound and stop borrows it mutably, so they never run   *)
(* at the same time, and only stop lowers running while the Sound is       *)
(* shared: play's test of the flag and its send are one step.  Sound owns  *)
(* a sender until the worker is joined, so the worker's recv never fails.  *)
(***************************************************************************)
EXTENDS Integers, Sequences

CONSTANTS
  Clip,            \* pieces of audio
  StoppingCommand  \* SoundCommand::Stopping

ASSUME SoundAssumption == StoppingCommand \notin Clip

VARIABLES
  running,        \* the AtomicBool
  soundWorker,    \* run_work: "check", "recv", "detach" (past the loop), "done"
  soundCommands,  \* every command the channel accepted
  soundTaken,     \* how many the worker has taken
  sink,           \* the audio appended to the device's sink
  soundOwner      \* "shared", or in stop: "send", "join"

soundVars == <<running, soundWorker, soundCommands, soundTaken, sink, soundOwner>>

SoundTypeOK ==
  /\ running \in BOOLEAN
  /\ soundWorker \in {"check", "recv", "detach", "done"}
  /\ soundCommands \in Seq(Clip \cup {StoppingCommand})
  /\ soundTaken \in 0..Len(soundCommands)
  /\ sink \in Seq(Clip)
  /\ soundOwner \in {"shared", "send", "join"}

SoundInit ==
  /\ running = TRUE
  /\ soundWorker = "check"
  /\ soundCommands = <<>>
  /\ soundTaken = 0
  /\ sink = <<>>
  /\ soundOwner = "shared"

-----------------------------------------------------------------------------
(* The holders. *)

\* play: check_running, and the channel's send, which fails once the worker is
\* gone.  Ok and accepted, or Err(Stoped) and nothing.
SoundPlay(a) ==
  /\ soundCommands' = IF running /\ soundWorker # "done"
                        THEN Append(soundCommands, a) ELSE soundCommands
  /\ UNCHANGED <<running, soundWorker, soundTaken, sink, soundOwner>>

\* stop lowers running; on a Sound already stopped it returns at once.
SoundStop ==
  /\ soundOwner = "shared"
  /\ running
  /\ running' = FALSE
  /\ soundOwner' = "send"
  /\ UNCHANGED <<soundWorker, soundCommands, soundTaken, sink>>

\* Fault: stop does not wake the worker.
SoundSendForgotten ==
  /\ soundOwner = "send"
  /\ soundOwner' = "join"
  /\ UNCHANGED <<running, soundWorker, soundCommands, soundTaken, sink>>

\* Then it sends Stopping, whether or not the worker is still there ...
SoundSendStopping ==
  /\ soundOwner = "send"
  /\ soundOwner' = "join"
  /\ soundCommands' =
       IF soundWorker # "done" THEN Append(soundCommands, StoppingCommand)
                               ELSE soundCommands
  /\ UNCHANGED <<running, soundWorker, soundTaken, sink>>

\* ... and joins the worker, whose handle only this first stop takes.
SoundJoin ==
  /\ soundOwner = "join"
  /\ soundWorker = "done"
  /\ soundOwner' = "shared"
  /\ UNCHANGED <<running, soundWorker, soundCommands, soundTaken, sink>>

SoundOwnerStep == SoundSendStopping \/ SoundJoin

-----------------------------------------------------------------------------
(* run_work. *)

SoundAt(from, to) == soundWorker = from /\ soundWorker' = to

\* Fault: the loop does not look at the flag.
SoundCheckIgnored ==
  /\ SoundAt("check", "recv")
  /\ UNCHANGED <<running, soundCommands, soundTaken, sink, soundOwner>>

SoundCheck ==
  /\ SoundAt("check", IF running THEN "recv" ELSE "detach")
  /\ UNCHANGED <<running, soundCommands, soundTaken, sink, soundOwner>>

SoundNextCommand == soundCommands[soundTaken + 1]

\* Fault: Stopping is played like audio.
SoundRecvAnything ==
  /\ SoundAt("recv", "check")
  /\ soundTaken < Len(soundCommands)
  /\ soundTaken' = soundTaken + 1
  /\ sink' = Append(sink, SoundNextCommand)
  /\ UNCHANGED <<running, soundCommands, soundOwner>>

SoundRecvPlay ==
  /\ SoundAt("recv", "check")
  /\ soundTaken < Len(soundCommands)
  /\ SoundNextCommand # StoppingCommand
  /\ soundTaken' = soundTaken + 1
  /\ sink' = Append(sink, SoundNextCommand)
  /\ UNCHANGED <<running, soundCommands, soundOwner>>

SoundRecvStopping ==
  /\ SoundAt("recv", "detach")
  /\ soundTaken < Len(soundCommands)
  /\ SoundNextCommand = StoppingCommand
  /\ soundTaken' = soundTaken + 1
  /\ UNCHANGED <<running, soundCommands, sink, soundOwner>>

\* The flag is lowered, the sink detached (it goes on playing), the receiver
\* dropped.
SoundDetach ==
  /\ SoundAt("detach", "done")
  /\ running' = FALSE
  /\ UNCHANGED <<soundCommands, soundTaken, sink, soundOwner>>

SoundWork == SoundCheck \/ SoundRecvPlay \/ SoundRecvStopping \/ SoundDetach

-----------------------------------------------------------------------------
SoundNext ==
  \/ \E a \in Clip : soundOwner = "shared" /\ SoundPlay(a)
  \/ SoundStop
  \/ SoundOwnerStep
  \/ SoundWork

SoundSpec == SoundInit /\ [][SoundNext]_soundVars

-----------------------------------------------------------------------------
(* What it implements.  The worker that saw the flag high takes one more    *)
(* command after stop has lowered it.                                       *)

\* Nothing is accepted after Stopping.
AcceptedClips ==
  LET n == Len(soundCommands) IN
  IF n > 0 /\ soundCommands[n] = StoppingCommand
    THEN SubSeq(soundCommands, 1, n - 1) ELSE soundCommands

SpeakerState ==
  IF running THEN "open" ELSE IF soundWorker = "recv" THEN "closing" ELSE "closed"

SoundSpeaker == INSTANCE Speaker WITH
  accepted <- AcceptedClips, played <- sink, speaker <- SpeakerState
=============================================================================
