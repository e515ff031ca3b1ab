SPECIFICATION Spec
CONSTANTS
  Client = {1}
  Caller <- ServiceThread
  Cmd <- ServiceCmd
  Msg <- ServerMsg
  Disconnect = disconnect
  None = none
  NoClient = noClient
  NoSession = noSession
  MaxStarts = 1
  MaxAudio = 2
  MaxMsgs = 3
  MaxCmds = 5
INVARIANTS WireOrder StartedByServer AudioThreadOwned ServiceInv
CHECK_DEADLOCK FALSE
