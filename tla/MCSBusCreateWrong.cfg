\* sbus_create while another thread of the daemon process opens sockets:
\* the number it goes on using after a failure can be the other thread's.
CONSTANTS
  FdSlots = 3
  MaxOpens = 2

SPECIFICATION Spec
INVARIANT CreateResult
\* sbus_create returns once and the other threads' opens are bounded.
CHECK_DEADLOCK FALSE
