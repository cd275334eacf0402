------------------------------- MODULE SBusJNI -------------------------------
(***************************************************************************)
(* The JNI adapter (src/src/java/SBus/SBusJNI.c) between the Java classes  *)
(* and the C library.  A JVM thread makes one JNI call at a time:          *)
(* startLogger, stopLogger, createSBus, sendRawMessage, receiveRawMessage. *)
(* The calls are composed with the C code they reach: the logger of        *)
(* SBusLogger, and the wire frame of SBusFrame carried through the         *)
(* channel.  The channel itself is taken as the FIFO SBusChannel was shown *)
(* to refine when frames fit and descriptors can be installed: a sent      *)
(* datagram is queued whole, and the receiver gets its bytes and files.    *)
(***************************************************************************)
EXTENDS SBusFrame, SBusLogger

CONSTANTS
  Files,      \* open files a FileDescriptor can refer to
  MaxFiles,   \* longest FileDescriptor array the model sends
  MaxCalls,   \* JNI calls the JVM makes (bound)
  NullRef     \* Java null (and a NULL char* in C)

VARIABLES
  wire,       \* datagrams queued at the receiver: bytes, files and, as a
              \*   history field, the SBusRawMessage they were sent from
  buf,        \* str_msg_buf of the receiving thread's sbus_recv_msg
  utf,        \* UTF strings obtained by GetStringUTFChars and not released,
              \*   per JNI parameter
  jvm,        \* "up", or "crashed" after a NULL pointer write
  jrecvd,     \* what receiveRawMessage returned, with the message sent
  calls,      \* JNI calls made
  bus         \* the receiver's handle: "open", or "closed" by a failed recvmsg

jni_vars == <<wire, buf, utf, jvm, jrecvd, calls, bus>>
vars == <<jni_vars, logger_vars>>

UtfParams == {"level", "contId", "path", "meta", "params"}

\* A Java String field: null, or a string (EmptyBlob is "").
JStrings == Blobs \cup {NullRef}
\* The FileDescriptor[] field hFiles_: null or an array of files.
JFds == {NullRef} \cup UNION {[1 .. n -> Files] : n \in 0 .. MaxFiles}
RawMessages == [fds : JFds, meta : JStrings, params : JStrings]

Acquire(k) == utf' = [utf EXCEPT ![k] = @ + 1]

(***************************************************************************)
(* init_java_accessors, run at the start of send and receive: eight        *)
(* FindClass/GetMethodID/GetFieldID lookups, the first failure returns -1. *)
(* Which lookup fails is not visible to the caller; ok says whether all    *)
(* eight succeeded.                                                        *)
(***************************************************************************)
init_java_accessors(ok) == IF ok THEN 0 ELSE -1

\* Mutant: the string length counts the terminating NUL.
BytesToJString_withnul(bs) ==
  IF bs = <<>> THEN EmptyBlob ELSE [val |-> bs[1].v, len |-> Len(bs) + 1]

\* NewStringUTF over the bytes of a C string copied by sbus_copy_substr.
BytesToJString(bs) ==
  IF bs = <<>> THEN EmptyBlob ELSE [val |-> bs[1].v, len |-> Len(bs)]

\* A JNI call of the up JVM, within the bound.
Call ==
  /\ jvm = "up"
  /\ calls < MaxCalls
  /\ calls' = calls + 1

(***************************************************************************)
(* startLogger: the level string, then the container id string; a NULL     *)
(* from either returns at once; after sbus_start_logger only the level is  *)
(* released.                                                               *)
(***************************************************************************)
startLogger(lv, id) ==
  /\ Call
  /\ \/ UNCHANGED <<utf, logger_vars>>
     \/ /\ Acquire("level")
        /\ UNCHANGED logger_vars
     \/ /\ sbus_start_logger(lv, id)
        /\ Acquire("contId")
  /\ UNCHANGED <<wire, buf, jvm, jrecvd, bus>>

stopLogger ==
  /\ Call
  /\ sbus_stop_logger
  /\ UNCHANGED <<wire, buf, utf, jvm, jrecvd, bus>>

\* createSBus: the path string is released after sbus_create, whatever it
\* returned, and not obtained at all when GetStringUTFChars fails.
createSBus ==
  /\ Call
  /\ UNCHANGED <<wire, buf, utf, jvm, jrecvd, bus, logger_vars>>

(***************************************************************************)
(* sendRawMessage: init_java_accessors; the path string; the descriptor    *)
(* numbers of hFiles_ (none when it is null); metadata and params with     *)
(* their strlen (NULL and 0 when the field is null); sbus_send_msg, which  *)
(* queues the datagram or fails (always, once the receiver's handle is    *)
(* closed); release of metadata and params.  The path *)
(* string is never released.                                               *)
(***************************************************************************)
sendRawMessage(m, accessorsOK, pathOK, sent) ==
  LET files  == IF m.fds = NullRef THEN <<>> ELSE m.fds
      meta   == IF m.meta = NullRef THEN EmptyBlob ELSE m.meta
      params == IF m.params = NullRef THEN EmptyBlob ELSE m.params
      d      == [bytes |-> DumpData(Len(files), meta, params),
                 files |-> files, sent |-> m]
  IN /\ Call
     /\ IF init_java_accessors(accessorsOK) # 0 \/ ~pathOK
        THEN UNCHANGED <<wire, utf>>
        ELSE /\ Acquire("path")
             /\ wire' = IF sent /\ bus = "open" THEN Append(wire, d) ELSE wire
     /\ UNCHANGED <<buf, jvm, jrecvd, bus, logger_vars>>

\* Mutant: the descriptor array filled from the end of pFiles.
JFileDescriptors_reversed(pFiles, nFiles) ==
  [i \in 1 .. nFiles |-> pFiles[nFiles + 1 - i]]

\* Lines 294-312: a FileDescriptor per received number, in order.
JFileDescriptors(pFiles, nFiles) == [i \in 1 .. nFiles |-> pFiles[i]]

(***************************************************************************)
(* receiveRawMessage: init_java_accessors (NULL on failure); the listening *)
(* loop has seen a datagram.  sbus_recv_msg either fails (its recvmsg     *)
(* error closes the handle and the queue with it; Java gets null) or       *)
(* returns the datagram decoded.                                           *)
(* sbus_recv_msg sets pFiles, strMetadata and strParams only for positive  *)
(* lengths; otherwise they keep their initial NULL.  Then:                 *)
(*   strParams[nParamsLen] = 0      (line 280: NULL write when no params)  *)
(*   params field                                                          *)
(*   if nFiles > 0: strMetadata[nMetadataLen] = 0 (NULL write when no      *)
(*   metadata), the FileDescriptor array and the metadata field.           *)
(* Metadata is not set when no files came with the message.               *)
(***************************************************************************)
receiveRawMessage(accessorsOK) ==
  /\ Call
  /\ IF init_java_accessors(accessorsOK) # 0
     THEN UNCHANGED <<wire, buf, jvm, jrecvd, bus>>
     ELSE
       /\ bus = "open"
       /\ wire # <<>>
       /\ \/ /\ wire' = <<>>
             /\ bus' = "closed"
             /\ UNCHANGED <<buf, jvm, jrecvd>>
          \/ /\ UNCHANGED bus
             /\ LET d    == Head(wire)
                    b    == RecvInto(buf, d.bytes)
                    hdr  == DecodeFrame(b)
                    strMetadata == IF 0 < hdr.meta_len THEN hdr.meta ELSE NullRef
                    strParams   == IF 0 < hdr.msg_len THEN hdr.msg ELSE NullRef
                    crash == \/ strParams = NullRef
                             \/ 0 < hdr.n_files /\ strMetadata = NullRef
                    obj  == [params |-> BytesToJString(strParams),
                             fds    |-> IF 0 < hdr.n_files
                                        THEN JFileDescriptors(d.files, hdr.n_files)
                                        ELSE NullRef,
                             meta   |-> IF 0 < hdr.n_files
                                        THEN BytesToJString(strMetadata)
                                        ELSE NullRef]
                IN /\ wire' = Tail(wire)
                   /\ buf' = b
                   /\ IF crash
                      THEN jvm' = "crashed" /\ UNCHANGED jrecvd
                      ELSE jrecvd' = Append(jrecvd, [obj |-> obj, sent |-> d.sent])
                           /\ UNCHANGED jvm
  /\ UNCHANGED <<utf, logger_vars>>

Init ==
  /\ LoggerInit
  /\ wire = <<>>
  /\ buf = FreshBuffer
  /\ utf = [k \in UtfParams |-> 0]
  /\ jvm = "up"
  /\ jrecvd = <<>>
  /\ calls = 0
  /\ bus = "open"

Next ==
  \/ \E lv \in LevelNames, id \in ContainerIds : startLogger(lv, id)
  \/ stopLogger
  \/ createSBus
  \/ \E m \in RawMessages, a, p, s \in BOOLEAN : sendRawMessage(m, a, p, s)
  \/ \E a \in BOOLEAN : receiveRawMessage(a)

Spec == Init /\ [][Next]_vars

-----------------------------------------------------------------------------

TypeOK ==
  /\ LoggerTypeOK
  /\ wire \in Seq([bytes : Seq(Bytes), files : Seq(Files), sent : RawMessages])
  /\ buf \in [1 .. MaxMsgLength -> Bytes]
  /\ utf \in [UtfParams -> 0 .. MaxCalls]
  /\ jvm \in {"up", "crashed"}
  /\ jrecvd \in Seq([obj : RawMessages, sent : RawMessages])
  /\ calls \in 0 .. MaxCalls
  /\ bus \in {"open", "closed"}

\* The bytes a Java String field stands for: null has none.
Bytes0(s) == IF s = NullRef THEN EmptyBlob ELSE s
\* The files of a FileDescriptor[] field: null has none.
Files0(f) == IF f = NullRef THEN <<>> ELSE f

(***************************************************************************)
(* What receiveRawMessage hands to Java is never wrong: the params string  *)
(* and the FileDescriptor array of every SBusRawMessage received are those *)
(* sendRawMessage was given, in order, and its metadata, when it is set at *)
(* all, is the metadata that was sent.                                     *)
(***************************************************************************)
ReceivedSound ==
  \A i \in DOMAIN jrecvd :
    LET r == jrecvd[i]
    IN /\ Bytes0(r.obj.params) = Bytes0(r.sent.params)
       /\ Files0(r.obj.fds) = Files0(r.sent.fds)
       /\ r.obj.meta # NullRef => Bytes0(r.obj.meta) = Bytes0(r.sent.meta)

(***************************************************************************)
(* Round trip through the adapter (spec.md section 7): every message       *)
(* received carries the descriptors, metadata and params it was sent with, *)
(* including its metadata when it came without descriptors.                *)
(***************************************************************************)
RawMessageRoundTrip ==
  \A i \in DOMAIN jrecvd :
    LET r == jrecvd[i]
    IN /\ Bytes0(r.obj.params) = Bytes0(r.sent.params)
       /\ Files0(r.obj.fds) = Files0(r.sent.fds)
       /\ Bytes0(r.obj.meta) = Bytes0(r.sent.meta)

(***************************************************************************)
(* receiveRawMessage never takes the JVM down: every message a sender can  *)
(* build (empty or null params and metadata included) is received without  *)
(* a write through a NULL pointer (SBusJNI.c:280, 292).                    *)
(***************************************************************************)
NoJVMCrash == jvm = "up"

=============================================================================
