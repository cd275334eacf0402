\* Two-byte integers so header offsets are not trivially 0, 1, 2; a buffer
\* of 9 bytes: a 6-byte header and strings of 3 bytes together fill it
\* exactly (the unwritten trailing byte is cut off), 4 bytes overflow it.
CONSTANTS
  IntSize = 2
  MaxMsgLength = 9
  MaxLen = 2
  Values = {v1, v2}
  MaxFilesInHeader = 1

SPECIFICATION Spec
INVARIANT CodecRoundTrip
