----------------------------- MODULE MCSBusFrame -----------------------------
(***************************************************************************)
(* Checks the frame codec of SBusFrame over every pair of frames within    *)
(* the bounds: the buffer first receives an earlier frame, then the frame  *)
(* under test, so stale bytes of the earlier one are in the buffer.        *)
(***************************************************************************)
EXTENDS SBusFrame

CONSTANTS MaxFilesInHeader   \* largest n_files a frame carries in the check

VARIABLE frames   \* <<earlier frame's inputs, frame under test's inputs>>

Input == [n_files : 0 .. MaxFilesInHeader, meta : Blobs, msg : Blobs]

Encode(in) == DumpData(in.n_files, in.meta, in.msg)

\* The receive buffer after recvmsg of the earlier and then the later frame.
BufferAfter(pair) ==
  RecvInto(RecvInto(FreshBuffer, Encode(pair[1])), Encode(pair[2]))

\* What a correct decoder returns for a frame (the reference definition).
Reference(in) ==
  [n_files  |-> in.n_files,
   meta_len |-> in.meta.len,
   msg_len  |-> in.msg.len,
   meta     |-> BlobBytes(in.meta),
   msg      |-> BlobBytes(in.msg)]

\* The frame's header and strings fit in str_msg_buf.
Fits(in) == 3 * IntSize + in.meta.len + in.msg.len <= MaxMsgLength

Init == frames \in Input \X Input
\* The next frame arrives; the one under test becomes the earlier one.
Next == \E in \in Input : frames' = <<frames[2], in>>
Spec == Init /\ [][Next]_frames

TypeOK == frames \in Input \X Input

(***************************************************************************)
(* Round trip of dump_data_to_bytestream and the decoding in               *)
(* sbus_recv_msg: whenever the header and both strings fit in the receive  *)
(* buffer, decoding yields exactly the sent lengths and bytes, whatever    *)
(* an earlier frame left in the buffer and although the trailing           *)
(* unwritten byte may be cut off.                                          *)
(***************************************************************************)
CodecRoundTrip ==
  Fits(frames[2]) => DecodeFrame(BufferAfter(frames)) = Reference(frames[2])

=============================================================================
