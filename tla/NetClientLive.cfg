SPECIFICATION NetFairSpec
CONSTANTS
  Client = {c1}
  Caller = {main, mic}
  Cmd = {bytes}
  Disconnect = disconnect
  Msg = {msg}
  None = none
  MaxMsgs = 3
  MaxCmds = 3
  Malformed = {}
  MsgEnd <- MsgEndFew
  BadAt <- BadAtFew
PROPERTIES MessageDelivered CommandWritten LossEndsWorker ImplementsLink
CHECK_DEADLOCK FALSE
