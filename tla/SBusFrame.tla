------------------------------ MODULE SBusFrame ------------------------------
(***************************************************************************)
(* The SBus wire frame (src/src/c/sbus/sbus.c): how sbus_send_msg lays a   *)
(* message out as a byte stream and how sbus_recv_msg cuts it up again.    *)
(*                                                                         *)
(* A byte is a record.  The bytes of a 32-bit header integer n are         *)
(* IntByte(n, 1) .. IntByte(n, IntSize) (native byte order is not          *)
(* modelled: sender and receiver run on one host).  The k-th byte of an    *)
(* opaque string with content v is DataByte(v, k): a string is a content   *)
(* identity and a length, and two strings are equal iff their bytes are.   *)
(* Junk is the unwritten byte malloc handed out at the end of the stream;  *)
(* Garbage is uninitialised stack memory.                                  *)
(***************************************************************************)
EXTENDS Integers, Sequences

CONSTANTS
  IntSize,        \* sizeof(int)
  MaxMsgLength,   \* MAX_MSG_LENGTH: capacity of the receive buffer str_msg_buf
  Values,         \* contents an opaque string (metadata or payload) can have
  MaxLen          \* longest metadata or payload string the model sends

ASSUME IntSize \in Nat \ {0}
ASSUME MaxMsgLength \in Nat /\ MaxMsgLength >= 3 * IntSize
ASSUME MaxLen \in Nat

IntByte(n, k)  == [t |-> "int", v |-> n, k |-> k]
DataByte(x, k) == [t |-> "data", v |-> x, k |-> k]
Junk           == [t |-> "junk", v |-> 0, k |-> 0]
Garbage        == [t |-> "garbage", v |-> 0, k |-> 0]

Bytes == [t : {"int"}, v : Nat, k : Nat] \cup [t : {"data"}, v : Values, k : Nat]
           \cup {Junk, Garbage}

\* An opaque string: metadata or payload, with its explicit length; all
\* empty strings are the same string.
EmptyBlob == [val |-> "none", len |-> 0]
Blobs == [val : Values, len : 1 .. MaxLen] \cup {EmptyBlob}

\* The integers the header can carry in the model.
IntRange == 0 .. MaxLen + MaxMsgLength

IntBytes(n)  == [k \in 1 .. IntSize |-> IntByte(n, k)]
BlobBytes(b) == [k \in 1 .. b.len |-> DataByte(b.val, k)]

(***************************************************************************)
(* dump_data_to_bytestream: three ints, metadata, message, and one more    *)
(* byte for a terminating NUL that is never written.  The stream length    *)
(* is n_bytestream_len.                                                    *)
(***************************************************************************)
\* Mutant: the metadata length field copied from n_msg_len.
DumpData_lenmix(n_files, meta, msg) ==
  IntBytes(n_files) \o IntBytes(msg.len) \o IntBytes(msg.len)
    \o BlobBytes(meta) \o BlobBytes(msg) \o <<Junk>>

DumpData(n_files, meta, msg) ==
  IntBytes(n_files) \o IntBytes(meta.len) \o IntBytes(msg.len)
    \o BlobBytes(meta) \o BlobBytes(msg) \o <<Junk>>

(***************************************************************************)
(* recvmsg into str_msg_buf: the first Min(len, MaxMsgLength) bytes of the *)
(* datagram overwrite the buffer, the rest of the datagram is discarded by *)
(* the kernel (MSG_TRUNC, never looked at) and the rest of the buffer      *)
(* keeps what it held before.                                              *)
(***************************************************************************)
RecvInto(buf, dgram) ==
  [i \in 1 .. MaxMsgLength |-> IF i <= Len(dgram) THEN dgram[i] ELSE buf[i]]

\* A read at byte i of the buffer; past its end it reads other stack memory.
ReadByte(buf, i) == IF i <= MaxMsgLength THEN buf[i] ELSE Garbage

Slice(buf, off, len) == [k \in 1 .. len |-> ReadByte(buf, off + k)]

(***************************************************************************)
(* sbus_extract_integer: sizeof(int) bytes at an offset.  Bytes that are   *)
(* not one encoded integer read as some other integer, here -1.            *)
(***************************************************************************)
sbus_extract_integer(buf, off) ==
  IF \E n \in IntRange : Slice(buf, off, IntSize) = IntBytes(n)
  THEN CHOOSE n \in IntRange : Slice(buf, off, IntSize) = IntBytes(n)
  ELSE -1

\* sbus_copy_substr: n_len bytes into a fresh zeroed buffer of n_len + 1.
sbus_copy_substr(buf, off, n_len) == Slice(buf, off, n_len)

(***************************************************************************)
(* The header and string part of sbus_recv_msg after recvmsg: the three    *)
(* lengths, then metadata at offset 3 * int_size and the message after it; *)
(* a string whose length is not positive is left unset (<<>>).            *)
(***************************************************************************)
\* Mutant: the message is copied from the metadata's offset.
DecodeFrame_samestart(buf) ==
  LET mLen == sbus_extract_integer(buf, IntSize)
      pLen == sbus_extract_integer(buf, 2 * IntSize)
  IN [n_files  |-> sbus_extract_integer(buf, 0),
      meta_len |-> mLen,
      msg_len  |-> pLen,
      meta     |-> IF 0 < mLen THEN sbus_copy_substr(buf, 3 * IntSize, mLen) ELSE <<>>,
      msg      |-> IF 0 < pLen THEN sbus_copy_substr(buf, 3 * IntSize, pLen) ELSE <<>>]

DecodeFrame(buf) ==
  LET nFiles == sbus_extract_integer(buf, 0)
      mLen   == sbus_extract_integer(buf, IntSize)
      pLen   == sbus_extract_integer(buf, 2 * IntSize)
      off    == 3 * IntSize
  IN [n_files  |-> nFiles,
      meta_len |-> mLen,
      msg_len  |-> pLen,
      meta     |-> IF 0 < mLen THEN sbus_copy_substr(buf, off, mLen) ELSE <<>>,
      msg      |-> IF 0 < pLen
                   THEN sbus_copy_substr(buf, off + mLen, pLen) ELSE <<>>]

\* A receive buffer nothing has been written to yet.
FreshBuffer == [i \in 1 .. MaxMsgLength |-> Garbage]

=============================================================================
