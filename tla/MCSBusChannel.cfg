\* Safety and progress of the channel.  Every send fits the receive buffer:
\* header (3 one-byte ints) + 1 + 1 bytes = 5 = MAX_MSG_LENGTH, while the
\* whole frame (6 bytes with the unwritten trailing byte) exceeds it by one.
\* Two senders and a queue of one datagram: one sender blocks while the
\* other's message waits.  The daemon has a slot for every descriptor the
\* senders attach.  One string content (lengths 0 and 1 still tell metadata
\* from params) and no symmetry, which is unsound with liveness.
CONSTANTS
  IntSize = 1
  MaxMsgLength = 5
  MaxLen = 1
  Values = {v1}
  Senders = {s1, s2}
  Files = {f1, f2}
  MaxFiles = 2
  MaxSends = 1
  ScmMaxFd = 2
  MaxFds = 2
  MaxDgram = 6
  QueueLen = 1
  FdSlots = 4
  MaxRestarts = 1
  NoFile = NoFile

SPECIFICATION Spec
INVARIANT TypeOK
PROPERTY Refinement
PROPERTY SendsComplete
PROPERTY DatagramsLeave
\* Once every sender is done the daemon blocks in select for ever.
CHECK_DEADLOCK FALSE
