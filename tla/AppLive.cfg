SPECIFICATION AppFairSpec
CONSTANTS
  Client = {1}
  Caller <- ServiceThread
  Cmd <- ServiceCmd
  Msg <- ServerMsg
  Clip <- AppClip
  Disconnect = disconnect
  None = none
  NoClient = noClient
  NoSession = noSession
  StoppingCommand = stopping
  MaxStarts = 1
  MaxAudio = 1
  MaxMsgs = 3
  MaxCmds = 3
INVARIANTS SoundTypeOK SpeechAccepted JoinedAtExit AppInv
PROPERTIES StartReturns StopPassesMicrophone StopReturnsOnceWoken MainExits ImplementsSpeaker
CHECK_DEADLOCK FALSE
