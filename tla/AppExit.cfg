SPECIFICATION AppSpec
CONSTANTS
  Client = {1}
  Caller <- ServiceThread
  Cmd <- ServiceCmd
  Msg <- ServerMsg
  Clip <- AppClip
  Disconnect = disconnect
  None = none
  NoClient = noClient
  NoSession = noSession
  StoppingCommand = stopping
  MaxStarts = 1
  MaxAudio = 1
  MaxMsgs = 2
  MaxCmds = 3
INVARIANTS FinishSessionSent
CHECK_DEADLOCK FALSE
