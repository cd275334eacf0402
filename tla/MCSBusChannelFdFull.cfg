\* One free descriptor slot: once the caller holds the descriptor of one
\* message, the next message with descriptors finds the table full.
CONSTANTS
  IntSize = 1
  MaxMsgLength = 5
  MaxLen = 1
  Values = {v1, v2}
  Senders = {s1, s2}
  Files = {f1, f2}
  MaxFiles = 2
  MaxSends = 1
  ScmMaxFd = 2
  MaxFds = 2
  MaxDgram = 6
  QueueLen = 1
  FdSlots = 1
  MaxRestarts = 1
  NoFile = NoFile

SPECIFICATION Spec
SYMMETRY Symmetry
INVARIANT NoReceiverCrash
\* Once every sender is done the daemon blocks in select for ever.
CHECK_DEADLOCK FALSE
