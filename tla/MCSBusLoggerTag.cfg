\* Two starts of the logger in one process with 64-character container
\* ids (the length of a full Docker container id).
CONSTANTS
  ContainerIds = {c1, c2}
  IdLength = 64
  LevelNames = {"DEBUG", "INFO"}
  StrSize = 80
  MaxStarts = 2

SPECIFICATION LoggerSpec
INVARIANT TagFits
