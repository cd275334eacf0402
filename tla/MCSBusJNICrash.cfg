\* One-byte ints and strings of at most one byte in a receive buffer that
\* holds every frame; two distinct files so descriptor order shows; three
\* JNI calls: a send and its receive after any other call.
CONSTANTS
  IntSize = 1
  MaxMsgLength = 6
  MaxLen = 1
  Values = {v1}
  Files = {f1, f2}
  MaxFiles = 2
  MaxCalls = 3
  NullRef = NullRef
  ContainerIds = {c1}
  IdLength = 8
  LevelNames = {"DEBUG", "OFF"}
  StrSize = 80
  MaxStarts = 2

SPECIFICATION Spec
INVARIANT NoJVMCrash
\* The JVM makes a bounded number of calls, and a crashed JVM stops.
SYMMETRY Symmetry
CHECK_DEADLOCK FALSE
