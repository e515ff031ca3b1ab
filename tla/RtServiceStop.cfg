SPECIFICATION FairSpec
CONSTANTS
  Client = {1}
  Caller <- ServiceThread
  Cmd <- ServiceCmd
  Msg <- ServerMsg
  Disconnect = disconnect
  None = none
  NoClient = noClient
  NoSession = noSession
  MaxStarts = 1
  MaxAudio = 0
  MaxMsgs = 1
  MaxCmds = 1
PROPERTIES StopDisconnects
CHECK_DEADLOCK FALSE
