SPECIFICATION Spec
CONSTANTS
  Client = {1}
  Caller <- ServiceThread
  Cmd <- ServiceCmd
  Msg <- ServerMsg
  Disconnect = disconnect
  None = none
  NoClient = noClient
  NoSession = noSession
  MaxStarts = 2
  MaxAudio = 0
  MaxMsgs = 2
  MaxCmds = 1
INVARIANTS StartedByServer
CHECK_DEADLOCK FALSE
