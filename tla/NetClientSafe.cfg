SPECIFICATION NetSpec
CONSTANTS
  Client = {c1}
  Caller = {main, mic}
  Cmd = {bytes}
  Disconnect = disconnect
  Msg = {msg}
  None = none
  MaxMsgs = 4
  MaxCmds = 3
  Malformed = {3}
  MsgEnd <- MsgEndFew
  BadAt <- BadAtFew
INVARIANTS NetInv InOrderDelivery WrittenFaithfully FlagFollowsWorker
CHECK_DEADLOCK FALSE
