------------------------------- MODULE Speaker -------------------------------
(***************************************************************************)
(* What Sound (src/src/rtvoice/sound.rs) promises: audio is played in the  *)
(* order it was accepted; everything accepted is played unless the speaker *)
(* is closed; once it is being closed, at most one more is played.         *)
(***************************************************************************)
EXTENDS Integers, Sequences

CONSTANT Clip          \* pieces of audio

VARIABLES
  accepted,   \* the clips play returned Ok for
  played,     \* the clips handed to the audio device
  speaker     \* "open", "closing" (one more clip may come) or "closed"

speakerVars == <<accepted, played, speaker>>

SpeakerInit ==
  /\ accepted = <<>>
  /\ played = <<>>
  /\ speaker = "open"

Accept(a) ==
  /\ speaker = "open"
  /\ accepted' = Append(accepted, a)
  /\ UNCHANGED <<played, speaker>>

PlayNext ==
  /\ speaker # "closed"
  /\ Len(played) < Len(accepted)
  /\ played' = Append(played, accepted[Len(played) + 1])
  /\ speaker' = IF speaker = "closing" THEN "closed" ELSE "open"
  /\ UNCHANGED accepted

CloseSpeaker ==
  /\ \/ speaker = "open" /\ speaker' \in {"closing", "closed"}
     \/ speaker = "closing" /\ speaker' = "closed"
  /\ UNCHANGED <<accepted, played>>

SpeakerNext == (\E a \in Clip : Accept(a)) \/ PlayNext \/ CloseSpeaker

\* Nothing is due to a speaker that is being closed.
SpeakerSpec ==
  /\ SpeakerInit /\ [][SpeakerNext]_speakerVars
  /\ WF_speakerVars(speaker = "open" /\ PlayNext)
=============================================================================
