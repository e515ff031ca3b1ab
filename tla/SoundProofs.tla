----------------------------- MODULE SoundProofs -----------------------------
(***************************************************************************)
(* Sound implements Speaker (its safety part), for any set of clips.       *)
(***************************************************************************)
EXTENDS Sound, SequenceTheorems, TLAPS

\* Who may still be where once the flag is low.
FlagInv ==
  running => soundOwner = "shared" /\ soundWorker \in {"check", "recv"}

\* Stopping is the last command there will ever be.
StoppingLast ==
  \A i \in 1..Len(soundCommands) : soundCommands[i] = StoppingCommand =>
    /\ i = Len(soundCommands)
    /\ ~running
    /\ soundOwner # "send"

\* The sink has the clips taken, one by one, while the worker is in its loop.
SinkInv ==
  /\ Len(sink) <= soundTaken
  /\ soundWorker \in {"check", "recv"} => Len(sink) = soundTaken
  /\ \A i \in 1..Len(sink) : sink[i] = soundCommands[i]

SoundInv == SoundTypeOK /\ FlagInv /\ StoppingLast /\ SinkInv

-----------------------------------------------------------------------------
(* The inductive invariant. *)

\* Initially nothing is queued, taken or played.
LEMMA InitInv == SoundInit => SoundInv
  BY DEF SoundInit, SoundInv, SoundTypeOK, FlagInv, StoppingLast, SinkInv

\* play queues a clip at most, and only while the flag is up (play).
LEMMA PlayInv ==
  ASSUME SoundInv, NEW a \in Clip, soundOwner = "shared", SoundPlay(a)
  PROVE  SoundInv'
  <1>1. CASE running /\ soundWorker # "done"
    <2>1. soundCommands' = Append(soundCommands, a)
      BY <1>1 DEF SoundPlay
    <2>2. a # StoppingCommand
      BY SoundAssumption
    <2>3. SoundTypeOK'
      BY <2>1 DEF SoundPlay, SoundInv, SoundTypeOK
    <2>4. FlagInv'
      BY DEF SoundPlay, SoundInv, FlagInv
    <2>5. StoppingLast'
      BY <1>1, <2>1, <2>2 DEF SoundPlay, SoundInv, SoundTypeOK, StoppingLast
    <2>6. SinkInv'
      BY <2>1 DEF SoundPlay, SoundInv, SoundTypeOK, SinkInv
    <2>7. QED
      BY <2>3, <2>4, <2>5, <2>6 DEF SoundInv
  <1>2. CASE ~(running /\ soundWorker # "done")
    BY <1>2 DEF SoundPlay, SoundInv, SoundTypeOK, FlagInv, StoppingLast, SinkInv
  <1>3. QED
    BY <1>1, <1>2

\* stop lowers the flag, sends Stopping once, and joins (stop).
LEMMA OwnerInv ==
  ASSUME SoundInv, SoundStop \/ SoundOwnerStep
  PROVE  SoundInv'
  <1>1. CASE SoundStop
    BY <1>1 DEF SoundStop, SoundInv, SoundTypeOK, FlagInv, StoppingLast, SinkInv
  <1>2. CASE SoundSendStopping
    <2>1. ~running
      BY <1>2 DEF SoundSendStopping, SoundInv, FlagInv
    <2>2. SoundTypeOK'
      BY <1>2 DEF SoundSendStopping, SoundInv, SoundTypeOK
    <2>3. FlagInv'
      BY <1>2, <2>1 DEF SoundSendStopping, FlagInv
    <2>4. StoppingLast'
      BY <1>2, <2>1 DEF SoundSendStopping, SoundInv, SoundTypeOK, StoppingLast
    <2>5. SinkInv'
      BY <1>2 DEF SoundSendStopping, SoundInv, SoundTypeOK, SinkInv
    <2>6. QED
      BY <2>2, <2>3, <2>4, <2>5 DEF SoundInv
  <1>3. CASE SoundJoin
    BY <1>3 DEF SoundJoin, SoundInv, SoundTypeOK, FlagInv, StoppingLast, SinkInv
  <1>4. QED
    BY <1>1, <1>2, <1>3 DEF SoundOwnerStep

\* The worker takes one command at a time and plays it if it is audio (run_work).
LEMMA WorkInv ==
  ASSUME SoundInv, SoundWork
  PROVE  SoundInv'
  <1>1. CASE SoundCheck
    BY <1>1 DEF SoundCheck, SoundAt, SoundInv, SoundTypeOK, FlagInv, StoppingLast, SinkInv
  <1>2. CASE SoundRecvPlay
    <2>1. SoundNextCommand \in Clip
      BY <1>2 DEF SoundRecvPlay, SoundNextCommand, SoundInv, SoundTypeOK
    <2>2. SoundTypeOK'
      BY <1>2, <2>1 DEF SoundRecvPlay, SoundAt, SoundInv, SoundTypeOK
    <2>3. FlagInv' /\ StoppingLast'
      BY <1>2 DEF SoundRecvPlay, SoundAt, SoundInv, SoundTypeOK, FlagInv, StoppingLast
    <2>4. SinkInv'
      BY <1>2, <2>1
      DEF SoundRecvPlay, SoundAt, SoundNextCommand, SoundInv, SoundTypeOK, SinkInv
    <2>5. QED
      BY <2>2, <2>3, <2>4 DEF SoundInv
  <1>3. CASE SoundRecvStopping
    <2>1. ~running
      BY <1>3 DEF SoundRecvStopping, SoundNextCommand, SoundInv, SoundTypeOK, StoppingLast
    <2>2. QED
      BY <1>3, <2>1
      DEF SoundRecvStopping, SoundAt, SoundInv, SoundTypeOK, FlagInv, StoppingLast, SinkInv
  <1>4. CASE SoundDetach
    BY <1>4 DEF SoundDetach, SoundAt, SoundInv, SoundTypeOK, FlagInv, StoppingLast, SinkInv
  <1>5. QED
    BY <1>1, <1>2, <1>3, <1>4 DEF SoundWork

\* Every step keeps the invariant.
LEMMA NextInv == SoundInv /\ [SoundNext]_soundVars => SoundInv'
  <1> SUFFICES ASSUME SoundInv, [SoundNext]_soundVars
               PROVE  SoundInv'
    OBVIOUS
  <1>1. ASSUME NEW a \in Clip, soundOwner = "shared", SoundPlay(a)
        PROVE  SoundInv'
    BY <1>1, PlayInv
  <1>2. CASE SoundStop \/ SoundOwnerStep
    BY <1>2, OwnerInv
  <1>3. CASE SoundWork
    BY <1>3, WorkInv
  <1>4. CASE UNCHANGED soundVars
    BY <1>4 DEF soundVars, SoundInv, SoundTypeOK, FlagInv, StoppingLast, SinkInv
  <1>5. QED
    BY <1>1, <1>2, <1>3, <1>4 DEF SoundNext

\* The invariant holds in every reachable state of a Sound.
THEOREM SoundInvariant == SoundSpec => []SoundInv
  <1>1. QED
    BY InitInv, NextInv, PTL DEF SoundSpec

\* Type correctness of Sound.
THEOREM SoundTypeCorrect == SoundSpec => []SoundTypeOK
  <1>1. SoundInv => SoundTypeOK
    BY DEF SoundInv
  <1>2. QED
    BY <1>1, SoundInvariant, PTL

-----------------------------------------------------------------------------
(* The refinement. *)

StoppingSent == \E i \in 1..Len(soundCommands) : soundCommands[i] = StoppingCommand

\* What is accepted: the clips before Stopping.
LEMMA Accepted ==
  ASSUME SoundInv
  PROVE  /\ ~StoppingSent => AcceptedClips = soundCommands
         /\ StoppingSent =>
              /\ Len(soundCommands) > 0
              /\ soundCommands[Len(soundCommands)] = StoppingCommand
              /\ AcceptedClips = SubSeq(soundCommands, 1, Len(soundCommands) - 1)
  BY DEF AcceptedClips, StoppingSent, SoundInv, SoundTypeOK, StoppingLast

\* The worker's next clip is the speaker's: it is accepted and not yet played.
LEMMA NextClip ==
  ASSUME SoundInv, SoundRecvPlay
  PROVE  /\ Len(sink) < Len(AcceptedClips)
         /\ AcceptedClips[Len(sink) + 1] = SoundNextCommand
  <1>1. /\ Len(sink) = soundTaken
        /\ soundTaken \in 0..Len(soundCommands)
        /\ soundTaken < Len(soundCommands)
        /\ soundCommands[soundTaken + 1] # StoppingCommand
        /\ soundCommands \in Seq(Clip \cup {StoppingCommand})
    BY DEF SoundRecvPlay, SoundAt, SoundNextCommand, SoundInv, SoundTypeOK, SinkInv
  <1>2. CASE ~StoppingSent
    BY <1>1, <1>2, Accepted DEF SoundNextCommand
  <1>3. CASE StoppingSent
    <2> DEFINE n == Len(soundCommands) - 1
    <2>1. soundTaken + 1 \in 1..n
      BY <1>1, <1>3, Accepted
    <2>2. AcceptedClips = SubSeq(soundCommands, 1, n)
      BY <1>3, Accepted
    <2>3. Len(AcceptedClips) = n /\ AcceptedClips[soundTaken + 1] = soundCommands[soundTaken + 1]
      BY <1>1, <2>1, <2>2
    <2>4. QED
      BY <1>1, <2>1, <2>3 DEF SoundNextCommand
  <1>4. QED
    BY <1>2, <1>3

\* A Sound starts open, with nothing accepted.
LEMMA RefinesInit == SoundInit => SoundSpeaker!SpeakerInit
  BY DEF SoundInit, SoundSpeaker!SpeakerInit, AcceptedClips, SpeakerState

\* play on a Sound that runs is Accept; on one that does not, nothing.
LEMMA RefinesPlay ==
  ASSUME SoundInv, NEW a \in Clip, SoundPlay(a)
  PROVE  SoundSpeaker!Accept(a) \/ UNCHANGED SoundSpeaker!speakerVars
  <1>1. CASE running /\ soundWorker # "done"
    <2>1. ~StoppingSent
      BY <1>1 DEF StoppingSent, SoundInv, StoppingLast
    <2>2. soundCommands \in Seq(Clip \cup {StoppingCommand})
      BY DEF SoundInv, SoundTypeOK
    <2>3. soundCommands' = Append(soundCommands, a)
      BY <1>1 DEF SoundPlay
    <2>4. a # StoppingCommand
      BY SoundAssumption
    <2>5. AcceptedClips' = Append(soundCommands, a)
      BY <2>2, <2>3, <2>4 DEF AcceptedClips
    <2>6. AcceptedClips' = Append(AcceptedClips, a)
      BY <2>1, <2>5, Accepted
    <2>7. SpeakerState = "open" /\ SpeakerState' = SpeakerState /\ sink' = sink
      BY <1>1 DEF SoundPlay, SpeakerState
    <2>8. QED
      BY <2>6, <2>7 DEF SoundSpeaker!Accept
  <1>2. CASE ~(running /\ soundWorker # "done")
    BY <1>2 DEF SoundPlay, AcceptedClips, SpeakerState, SoundSpeaker!speakerVars
  <1>3. QED
    BY <1>1, <1>2

\* stop begins to close the speaker; Stopping and the join are not seen.
LEMMA RefinesOwner ==
  ASSUME SoundInv, SoundStop \/ SoundOwnerStep
  PROVE  SoundSpeaker!CloseSpeaker \/ UNCHANGED SoundSpeaker!speakerVars
  <1>1. CASE SoundStop
    BY <1>1 DEF SoundStop, AcceptedClips, SpeakerState, SoundSpeaker!CloseSpeaker
  <1>2. CASE SoundSendStopping
    <2>1. ~StoppingSent
      BY <1>2 DEF SoundSendStopping, StoppingSent, SoundInv, StoppingLast
    <2>2. soundCommands \in Seq(Clip \cup {StoppingCommand})
      BY DEF SoundInv, SoundTypeOK
    <2>3. AcceptedClips' = AcceptedClips
      <3>1. CASE soundWorker # "done"
        <4>1. soundCommands' = Append(soundCommands, StoppingCommand)
          BY <1>2, <3>1 DEF SoundSendStopping
        <4>2. AcceptedClips' = SubSeq(Append(soundCommands, StoppingCommand), 1, Len(soundCommands))
          BY <2>2, <4>1 DEF AcceptedClips
        <4>3. AcceptedClips' = soundCommands
          BY <2>2, <4>2
        <4>4. QED
          BY <2>1, <4>3, Accepted
      <3>2. CASE soundWorker = "done"
        BY <1>2, <3>2 DEF SoundSendStopping, AcceptedClips
      <3>3. QED
        BY <3>1, <3>2
    <2>4. SpeakerState' = SpeakerState /\ sink' = sink
      BY <1>2 DEF SoundSendStopping, SpeakerState
    <2>5. QED
      BY <2>3, <2>4 DEF SoundSpeaker!speakerVars
  <1>3. CASE SoundJoin
    BY <1>3 DEF SoundJoin, AcceptedClips, SpeakerState, SoundSpeaker!speakerVars
  <1>4. QED
    BY <1>1, <1>2, <1>3 DEF SoundOwnerStep

\* The worker plays the next clip, or closes the speaker, or is not seen.
LEMMA RefinesWork ==
  ASSUME SoundInv, SoundWork
  PROVE  \/ SoundSpeaker!PlayNext
         \/ SoundSpeaker!CloseSpeaker
         \/ UNCHANGED SoundSpeaker!speakerVars
  <1>1. CASE SoundCheck
    BY <1>1 DEF SoundCheck, SoundAt, AcceptedClips, SpeakerState, SoundSpeaker!speakerVars
  <1>2. CASE SoundRecvPlay
    <2>1. AcceptedClips' = AcceptedClips
      BY <1>2 DEF SoundRecvPlay, AcceptedClips
    <2>2. sink' = Append(sink, AcceptedClips[Len(sink) + 1])
      BY <1>2, NextClip DEF SoundRecvPlay
    <2>3. /\ SpeakerState # "closed"
          /\ SpeakerState' = IF SpeakerState = "closing" THEN "closed" ELSE "open"
      BY <1>2 DEF SoundRecvPlay, SoundAt, SpeakerState, SoundInv, SoundTypeOK
    <2>4. Len(sink) < Len(AcceptedClips)
      BY <1>2, NextClip
    <2>5. QED
      BY <2>1, <2>2, <2>3, <2>4 DEF SoundSpeaker!PlayNext
  <1>3. CASE SoundRecvStopping
    <2>1. ~running
      BY <1>3 DEF SoundRecvStopping, SoundNextCommand, SoundInv, SoundTypeOK, StoppingLast
    <2>2. SpeakerState = "closing" /\ SpeakerState' = "closed"
      BY <1>3, <2>1 DEF SoundRecvStopping, SoundAt, SpeakerState
    <2>3. AcceptedClips' = AcceptedClips /\ sink' = sink
      BY <1>3 DEF SoundRecvStopping, AcceptedClips
    <2>4. QED
      BY <2>2, <2>3 DEF SoundSpeaker!CloseSpeaker
  <1>4. CASE SoundDetach
    <2>1. ~running
      BY <1>4 DEF SoundDetach, SoundAt, SoundInv, FlagInv
    <2>2. QED
      BY <1>4, <2>1
      DEF SoundDetach, SoundAt, AcceptedClips, SpeakerState, SoundSpeaker!speakerVars
  <1>5. QED
    BY <1>1, <1>2, <1>3, <1>4 DEF SoundWork

\* Every step of a Sound is one of Speaker, or changes nothing of it.
LEMMA RefinesNext ==
  SoundInv /\ [SoundNext]_soundVars => [SoundSpeaker!SpeakerNext]_(SoundSpeaker!speakerVars)
  <1> SUFFICES ASSUME SoundInv, [SoundNext]_soundVars
               PROVE  SoundSpeaker!SpeakerNext \/ UNCHANGED SoundSpeaker!speakerVars
    OBVIOUS
  <1>1. ASSUME NEW a \in Clip, SoundPlay(a)
        PROVE  SoundSpeaker!SpeakerNext \/ UNCHANGED SoundSpeaker!speakerVars
    BY <1>1, RefinesPlay DEF SoundSpeaker!SpeakerNext
  <1>2. CASE SoundStop \/ SoundOwnerStep
    BY <1>2, RefinesOwner DEF SoundSpeaker!SpeakerNext
  <1>3. CASE SoundWork
    BY <1>3, RefinesWork DEF SoundSpeaker!SpeakerNext
  <1>4. CASE UNCHANGED soundVars
    BY <1>4 DEF soundVars, AcceptedClips, SpeakerState, SoundSpeaker!speakerVars
  <1>5. QED
    BY <1>1, <1>2, <1>3, <1>4 DEF SoundNext

\* Audio is played in the order it was accepted; once stop has begun nothing is
\* accepted and at most one more clip is played (play, stop, run_work).
THEOREM ImplementsSpeakerSafety ==
  SoundSpec =>
    SoundSpeaker!SpeakerInit /\ [][SoundSpeaker!SpeakerNext]_(SoundSpeaker!speakerVars)
  <1>1. QED
    BY RefinesInit, RefinesNext, SoundInvariant, PTL DEF SoundSpec
=============================================================================
