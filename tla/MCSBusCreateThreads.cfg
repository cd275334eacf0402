\* sbus_create while other threads of the daemon process open two more
\* files or sockets and close theirs between its system calls.
CONSTANTS
  FdSlots = 3
  MaxOpens = 2

SPECIFICATION Spec
INVARIANT TypeOK
INVARIANT SetupSucceeded
\* sbus_create returns once and the other threads' opens are bounded.
CHECK_DEADLOCK FALSE
