\* A receive buffer one byte short of header + metadata + payload (3 + 1 + 1):
\* a datagram that carries both strings is truncated by recvmsg.
CONSTANTS
  IntSize = 1
  MaxMsgLength = 4
  MaxLen = 1
  Values = {v1, v2}
  Senders = {s1, s2}
  Files = {f1, f2}
  MaxFiles = 2
  MaxSends = 1
  ScmMaxFd = 2
  MaxFds = 2
  MaxDgram = 6
  QueueLen = 1
  FdSlots = 4
  MaxRestarts = 1
  NoFile = NoFile

SPECIFICATION Spec
SYMMETRY Symmetry

PROPERTY Refinement
\* Once every sender is done the daemon blocks in select for ever.
CHECK_DEADLOCK FALSE
