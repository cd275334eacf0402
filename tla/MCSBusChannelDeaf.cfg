\* A daemon whose recvmsg failed: same bounds as MCSBusChannel.cfg.
CONSTANTS
  IntSize = 1
  MaxMsgLength = 5
  MaxLen = 1
  Values = {v1}
  Senders = {s1, s2}
  Files = {f1, f2}
  MaxFiles = 2
  MaxSends = 1
  ScmMaxFd = 2
  MaxFds = 2
  MaxDgram = 6
  QueueLen = 1
  FdSlots = 4
  MaxRestarts = 1
  NoFile = NoFile

SPECIFICATION Spec

PROPERTY ReceiverRecovers
\* Once every sender is done the daemon blocks in select for ever.
CHECK_DEADLOCK FALSE
