\* Starts of the logger with the level names the daemon can pass,
\* "OFF" among them.
CONSTANTS
  ContainerIds = {c1}
  IdLength = 8
  LevelNames = {"DEBUG", "WARNING", "ERROR", "OFF"}
  StrSize = 80
  MaxStarts = 2

SPECIFICATION LoggerSpec
INVARIANT MaskMatchesLevel
