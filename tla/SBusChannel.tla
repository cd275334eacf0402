----------------------------- MODULE SBusChannel -----------------------------
(***************************************************************************)
(* One SBus channel (src/src/c/sbus/sbus.c): host-side threads call        *)
(* sbus_send_msg on the channel's path; the storlet daemon in the          *)
(* container loops { sbus_listen; sbus_recv_msg } on the bound datagram    *)
(* socket; the kernel keeps the socket's datagram queue and moves the      *)
(* attached descriptors (SCM_RIGHTS) into the daemon's descriptor table;   *)
(* the caller of sbus_recv_msg owns and later closes them.  The daemon can *)
(* be stopped and started again (scripts/restart_docker_container.c).      *)
(***************************************************************************)
EXTENDS SBusFrame, FiniteSets, Functions

CONSTANTS
  Senders,      \* host threads that call sbus_send_msg
  Files,        \* open files a sender can attach
  MaxFiles,     \* most descriptors one message attaches in the model
  MaxSends,     \* send calls per sender (bound)
  ScmMaxFd,     \* kernel limit on descriptors per sendmsg (SCM_MAX_FD)
  MaxFds,       \* MAX_FDS: descriptors cmsg_buf of sbus_recv_msg has room for
  MaxDgram,     \* largest datagram sendmsg accepts (socket send buffer)
  QueueLen,     \* datagrams the receiving socket queues (max_dgram_qlen)
  FdSlots,      \* free descriptor slots of the daemon process (RLIMIT_NOFILE)
  MaxRestarts,  \* container restarts (bound)
  NoFile        \* an empty descriptor slot

ASSUME ScmMaxFd \in Nat /\ MaxFds \in Nat /\ ScmMaxFd <= MaxFds
ASSUME QueueLen \in Nat \ {0} /\ FdSlots \in Nat /\ MaxRestarts \in Nat
ASSUME NoFile \notin Files

VARIABLES
  queue,      \* datagrams queued at the bound socket, oldest first
  spc,        \* each sender: "idle" or "blocked" in sendmsg on a full queue
  pending,    \* the datagram a blocked sender is sending
  nsent,      \* send calls each sender has made
  log,        \* each send call: the message and what sbus_send_msg returned
  rpc,        \* daemon: "listen", "recv", "closed" (handle closed), "down", "crashed"
  buf,        \* str_msg_buf of sbus_recv_msg (stack memory reused by every call)
  cbuf,       \* descriptor numbers in cmsg_buf of sbus_recv_msg (same)
  fdtab,      \* the daemon's descriptor table: slot -> file
  owned,      \* descriptors returned to the caller and not yet closed
  delivered,  \* what sbus_recv_msg returned, in order
  restarts,   \* restart_docker_container invocations so far
  ctr,        \* the daemon's container: "running", "exited", "none"
  rst,        \* the restart invocation's next step: "idle" (none running),
              \*   "rm", "run"
  rexit       \* exit status of the latest restart (-1 before any)

vars == <<queue, spc, pending, nsent, log, rpc, buf, cbuf, fdtab, owned,
          delivered, restarts, ctr, rst, rexit>>
restart_vars == <<restarts, ctr, rst, rexit>>

Ids     == Senders \X (1 .. MaxSends)
FdNums  == 1 .. FdSlots
FileSeqs == UNION {[1 .. n -> Files] : n \in 0 .. MaxFiles}
Messages == [files : FileSeqs, meta : Blobs, payload : Blobs]
NoDgram == [id |-> <<>>, bytes |-> <<>>, fds |-> <<>>]
NoMsg   == [files |-> <<>>, meta |-> EmptyBlob, payload |-> EmptyBlob]

\* What a message means to its receiver: the files, metadata and payload.
Content(m) ==
  [files |-> m.files, meta |-> BlobBytes(m.meta), msg |-> BlobBytes(m.payload)]

MsgContents == {Content(m) : m \in Messages}

\* sbus_pack_message: the byte stream and the SCM_RIGHTS descriptors.
sbus_pack_message(id, m) ==
  [id |-> id, bytes |-> DumpData(Len(m.files), m.meta, m.payload),
   fds |-> m.files]

\* A live socket is bound at the channel's path.
Bound == rpc \in {"listen", "recv"}

\* sendmsg fails at once: no receiver (ENOENT, ECONNREFUSED), too many
\* descriptors (EINVAL), datagram larger than the send buffer (EMSGSIZE).
Refused(d) ==
  \/ ~Bound
  \/ Len(d.fds) > ScmMaxFd
  \/ Len(d.bytes) > MaxDgram

Returns(id, m, r) == log' = [log EXCEPT ![id] = [msg |-> m, ret |-> r]]

(***************************************************************************)
(* sbus_send_msg: an ephemeral socket, the packed message, one sendmsg.    *)
(* socket() or malloc may fail (-1).  sendmsg either fails, queues the     *)
(* datagram, or blocks while the receiver's queue is full.  Buffers and    *)
(* the socket are released on every path; that is not state here.         *)
(***************************************************************************)
sbus_send_msg(s) ==
  /\ spc[s] = "idle"
  /\ nsent[s] < MaxSends
  /\ nsent' = [nsent EXCEPT ![s] = @ + 1]
  /\ \E m \in Messages :
       LET id == <<s, nsent[s] + 1>>
           d  == sbus_pack_message(id, m)
       IN \/ /\ Returns(id, m, "err")
             /\ UNCHANGED <<queue, spc, pending>>
          \/ /\ ~Refused(d)
             /\ Len(queue) < QueueLen
             /\ queue' = Append(queue, d)
             /\ Returns(id, m, "ok")
             /\ UNCHANGED <<spc, pending>>
          \/ /\ ~Refused(d)
             /\ Len(queue) = QueueLen
             /\ spc' = [spc EXCEPT ![s] = "blocked"]
             /\ pending' = [pending EXCEPT ![s] = d]
             /\ Returns(id, m, "pending")
             /\ UNCHANGED queue
  /\ UNCHANGED <<rpc, buf, cbuf, fdtab, owned, delivered, restart_vars>>

\* A blocked sendmsg finds room (at whichever socket is bound at the path
\* now: an unconnected sender looks the path up again) and returns.
SendWake(s) ==
  /\ spc[s] = "blocked"
  /\ Bound
  /\ Len(queue) < QueueLen
  /\ queue' = Append(queue, pending[s])
  /\ log' = [log EXCEPT ![pending[s].id].ret = "ok"]
  /\ spc' = [spc EXCEPT ![s] = "idle"]
  /\ pending' = [pending EXCEPT ![s] = NoDgram]
  /\ UNCHANGED <<nsent, rpc, buf, cbuf, fdtab, owned, delivered, restart_vars>>

\* A blocked sendmsg whose receiver died, with nothing bound: -1.
SendAbort(s) ==
  /\ spc[s] = "blocked"
  /\ ~Bound
  /\ log' = [log EXCEPT ![pending[s].id].ret = "err"]
  /\ spc' = [spc EXCEPT ![s] = "idle"]
  /\ pending' = [pending EXCEPT ![s] = NoDgram]
  /\ UNCHANGED <<queue, nsent, rpc, buf, cbuf, fdtab, owned, delivered,
                 restart_vars>>

(***************************************************************************)
(* sbus_listen: select with no timeout on the one handle; it returns 0     *)
(* when a datagram is queued and blocks until then.                        *)
(***************************************************************************)
\* Mutant: the FD_ISSET test inverted, so a ready handle reports 1 and the
\* caller goes back to select.
sbus_listen_inverted ==
  /\ rpc = "listen"
  /\ queue # <<>>
  /\ UNCHANGED vars

\* Mutant: select( n_sbus_handle, ... ) (line 165 without the +1) watches
\* only descriptors below the handle and, with no timeout, never returns.
sbus_listen_nfds ==
  /\ rpc = "listen"
  /\ FALSE

sbus_listen ==
  /\ rpc = "listen"
  /\ queue # <<>>
  /\ rpc' = "recv"
  /\ UNCHANGED <<queue, spc, pending, nsent, log, buf, cbuf, fdtab, owned,
                 delivered, restart_vars>>

\* The daemon process ends: its descriptors and buffers go, and so does
\* the socket with every datagram still queued.
ProcessExit(r) ==
  /\ rpc' = r
  /\ queue' = <<>>
  /\ fdtab' = [fd \in FdNums |-> NoFile]
  /\ owned' = {}
  /\ buf' = FreshBuffer
  /\ cbuf' = [i \in 1 .. MaxFds |-> 0]

(***************************************************************************)
(* The kernel side of recvmsg with SCM_RIGHTS: each attached file goes     *)
(* into the lowest free slot of the daemon's table while one is free; the  *)
(* rest are dropped (MSG_CTRUNC).  InstalledFds are the new numbers.       *)
(***************************************************************************)
InstalledFds(d) ==
  LET free == {fd \in FdNums : fdtab[fd] = NoFile}
      k    == IF Len(d.fds) < Cardinality(free) THEN Len(d.fds)
              ELSE Cardinality(free)
  IN [i \in 1 .. k |->
        CHOOSE fd \in free : Cardinality({g \in free : g < fd}) = i - 1]

Install(d, nums) ==
  [fd \in FdNums |->
     IF \E i \in DOMAIN nums : nums[i] = fd
     THEN d.fds[CHOOSE i \in DOMAIN nums : nums[i] = fd]
     ELSE fdtab[fd]]

(***************************************************************************)
(* sbus_extract_files: copies n_files numbers out of the control message.  *)
(* Its checks only log: the count it copies is the header's, whatever the  *)
(* kernel installed, so numbers past the installed ones are what an        *)
(* earlier call left in cmsg_buf.  (With no control message at all it      *)
(* dereferences NULL: see sbus_recv_msg.)                                  *)
(***************************************************************************)
\* Entry i of the descriptor array in cmsg_buf; past MAX_FDS entries the
\* read leaves the buffer and yields no descriptor number (-1).
ReadCmsg(cb, i) == IF i <= MaxFds THEN cb[i] ELSE -1

\* Mutant: the copy loop runs to i <= n_files.
sbus_extract_files_overrun(cb, n_files) ==
  [i \in 1 .. n_files + 1 |-> ReadCmsg(cb, i)]

sbus_extract_files(cb, n_files) == [i \in 1 .. n_files |-> ReadCmsg(cb, i)]

\* The file a returned descriptor number refers to in the daemon's table.
Resolve(tab, nums) ==
  [i \in DOMAIN nums |-> IF nums[i] \in FdNums THEN tab[nums[i]] ELSE NoFile]

(***************************************************************************)
(* sbus_recv_msg.  recvmsg takes the oldest datagram.  On failure the      *)
(* handle is closed (and with it the socket and its queue) and -1 is       *)
(* returned.  Otherwise the header is decoded from str_msg_buf; when it    *)
(* announces files, sbus_extract_files runs (its status is ignored, and    *)
(* without a control message it crashes the daemon); metadata and message  *)
(* are copied out at the offsets the header gives.  The caller owns the    *)
(* returned descriptors.                                                   *)
(***************************************************************************)
sbus_recv_msg ==
  /\ rpc = "recv"
  /\ queue # <<>>
  /\ \/ /\ rpc' = "closed"      \* recvmsg failed: close(n_sbus_handler)
        /\ queue' = <<>>
        /\ UNCHANGED <<buf, cbuf, fdtab, owned, delivered>>
     \/ LET d    == Head(queue)
            nums == InstalledFds(d)
            tab  == Install(d, nums)
            b    == RecvInto(buf, d.bytes)
            cb   == [i \in 1 .. MaxFds |->
                       IF i <= Len(nums) THEN nums[i] ELSE cbuf[i]]
            hdr  == DecodeFrame(b)
            fds  == IF 0 < hdr.n_files
                    THEN sbus_extract_files(cb, hdr.n_files) ELSE <<>>
        IN IF 0 < hdr.n_files /\ nums = <<>>
           THEN ProcessExit("crashed") /\ UNCHANGED delivered
           ELSE /\ queue' = Tail(queue)
                /\ buf' = b
                /\ cbuf' = cb
                /\ fdtab' = tab
                /\ owned' = owned \cup ({fds[i] : i \in DOMAIN fds} \cap FdNums)
                /\ delivered' = Append(delivered,
                      [id |-> d.id, fds |-> fds,
                       content |-> [files |-> Resolve(tab, fds),
                                    meta  |-> hdr.meta,
                                    msg   |-> hdr.msg]])
                /\ rpc' = "listen"
  /\ UNCHANGED <<spc, pending, nsent, log, restart_vars>>

\* The caller of sbus_recv_msg closes a descriptor it was handed.
CloseFd ==
  /\ \E fd \in owned :
       /\ fdtab' = [fdtab EXCEPT ![fd] = NoFile]
       /\ owned' = owned \ {fd}
  /\ UNCHANGED <<queue, spc, pending, nsent, log, rpc, buf, cbuf, delivered,
                 restart_vars>>

(***************************************************************************)
(* restart_docker_container (src/scripts/restart_docker_container.c), one  *)
(* invocation at a time: docker stop, docker rm and docker run, each a     *)
(* system() whose result overwrites ret; only the last decides the exit    *)
(* status.  Docker can fail any of them for reasons of its own (its daemon *)
(* unreachable, a timeout, a missing image).  The container of the daemon  *)
(* is ctr: "running", "exited" (stopped, not removed) or "none".           *)
(***************************************************************************)
\* Lines 44-48: called with other than seven arguments, main prints its
\* usage and exits with 1 before touching the container.
RestartUsage ==
  /\ rst = "idle"
  /\ restarts < MaxRestarts
  /\ restarts' = restarts + 1
  /\ rexit' = 1
  /\ UNCHANGED <<queue, spc, pending, nsent, log, rpc, buf, cbuf, fdtab, owned,
                 delivered, ctr, rst>>

\* Lines 61-62: docker stop -t 1 kills the daemon of a running container;
\* stopping an exited container does nothing, and a missing one is an error.
RestartStop ==
  /\ rst = "idle"
  /\ restarts < MaxRestarts
  /\ restarts' = restarts + 1
  /\ rst' = "rm"
  /\ \/ /\ ctr = "running"
        /\ ctr' = "exited"
        /\ ProcessExit("down")
     \/ UNCHANGED <<ctr, rpc, queue, buf, cbuf, fdtab, owned>>
  /\ UNCHANGED <<spc, pending, nsent, log, delivered, rexit>>

\* Lines 64-65: docker rm removes a stopped container; a running one (no
\* -f) or a missing one is an error, and the result is overwritten.
RestartRm ==
  /\ rst = "rm"
  /\ rst' = "run"
  /\ \/ /\ ctr = "exited"
        /\ ctr' = "none"
     \/ UNCHANGED ctr
  /\ UNCHANGED <<queue, spc, pending, nsent, log, rpc, buf, cbuf, fdtab, owned,
                 delivered, restarts, rexit>>

\* Lines 77-80: EXIT_FAILURE (1) for a non-zero ret of the last system().
RestartExit(ret) == IF ret # 0 THEN 1 ELSE 0

(***************************************************************************)
(* Lines 67-76: docker run --name fails while a container of that name     *)
(* exists, and can fail otherwise.  docker run -d returns once the         *)
(* container is started, before its daemon has bound the channel.          *)
(***************************************************************************)
RestartRun ==
  /\ rst = "run"
  /\ rst' = "idle"
  /\ \E ok \in IF ctr = "none" THEN BOOLEAN ELSE {FALSE} :
       /\ rexit' = RestartExit(IF ok THEN 0 ELSE 125)
       /\ ctr' = IF ok THEN "running" ELSE ctr
  /\ UNCHANGED <<queue, spc, pending, nsent, log, rpc, buf, cbuf, fdtab,
                 owned, delivered, restarts>>

(***************************************************************************)
(* The daemon of a started container creates its channel: sbus_create      *)
(* unlinks the stale socket file and binds a fresh one, and the daemon     *)
(* starts listening.  Its start-up may fail (SBusCreate models how), so    *)
(* no fairness: a restart that exits with success may leave no listener.   *)
(***************************************************************************)
DaemonStart ==
  /\ ctr = "running"
  /\ rpc = "down"
  /\ rpc' = "listen"
  /\ UNCHANGED <<queue, spc, pending, nsent, log, buf, cbuf, fdtab, owned,
                 delivered, restart_vars>>

Init ==
  /\ queue = <<>>
  /\ spc = [s \in Senders |-> "idle"]
  /\ pending = [s \in Senders |-> NoDgram]
  /\ nsent = [s \in Senders |-> 0]
  /\ log = [i \in Ids |-> [msg |-> NoMsg, ret |-> "none"]]
  /\ rpc = "listen"
  /\ buf = FreshBuffer
  /\ cbuf = [i \in 1 .. MaxFds |-> 0]
  /\ fdtab = [fd \in FdNums |-> NoFile]
  /\ owned = {}
  /\ delivered = <<>>
  /\ restarts = 0
  /\ ctr = "running"
  /\ rst = "idle"
  /\ rexit = -1

Next ==
  \/ \E s \in Senders : sbus_send_msg(s) \/ SendWake(s) \/ SendAbort(s)
  \/ sbus_listen
  \/ sbus_recv_msg
  \/ CloseFd
  \/ RestartUsage
  \/ RestartStop
  \/ RestartRm
  \/ RestartRun
  \/ DaemonStart

(***************************************************************************)
(* The daemon's receive loop is a thread of its own that runs while the    *)
(* daemon lives, and the kernel wakes a blocked sender when its sendmsg    *)
(* can go on: weak fairness for both.  Nothing forces a restart or a close *)
(* of a received descriptor.                                               *)
(***************************************************************************)
Fairness ==
  /\ WF_vars(sbus_listen)
  /\ WF_vars(sbus_recv_msg)
  /\ \A s \in Senders : WF_vars(SendWake(s)) /\ WF_vars(SendAbort(s))

Spec == Init /\ [][Next]_vars /\ Fairness

-----------------------------------------------------------------------------

TypeOK ==
  /\ queue \in Seq([id : Ids, bytes : Seq(Bytes), fds : FileSeqs])
  /\ spc \in [Senders -> {"idle", "blocked"}]
  /\ nsent \in [Senders -> 0 .. MaxSends]
  /\ log \in [Ids -> [msg : Messages, ret : {"none", "pending", "ok", "err"}]]
  /\ rpc \in {"listen", "recv", "closed", "down", "crashed"}
  /\ buf \in [1 .. MaxMsgLength -> Bytes]
  /\ cbuf \in [1 .. MaxFds -> 0 .. FdSlots]
  /\ fdtab \in [FdNums -> Files \cup {NoFile}]
  /\ owned \subseteq FdNums
  /\ delivered \in Seq([id : Ids, fds : Seq(0 .. FdSlots),
                       content : [files : Seq(Files \cup {NoFile}),
                                  meta : Seq(Bytes), msg : Seq(Bytes)]])
  /\ restarts \in 0 .. MaxRestarts
  /\ ctr \in {"running", "exited", "none"}
  /\ rst \in {"idle", "rm", "run"}
  /\ rexit \in {-1, 0, 1}

(***************************************************************************)
(* The channel implements SBusAbstract: every send that sbus_send_msg      *)
(* reports as failed left nothing behind, every message sbus_recv_msg      *)
(* returns is the oldest accepted one not yet returned, with the sender's  *)
(* files in order, its metadata and its payload unchanged, and messages    *)
(* disappear otherwise only when the daemon or its handle goes away.       *)
(***************************************************************************)
Abs == INSTANCE SBusAbstract WITH
         Contents <- MsgContents,
         chan     <- [i \in DOMAIN queue |->
                        [id |-> queue[i].id,
                         content |-> Content(log[queue[i].id].msg)]],
         status   <- [i \in Ids |->
                        IF log[i].ret = "pending" THEN "none" ELSE log[i].ret],
         recvd    <- [i \in DOMAIN delivered |->
                        [id |-> delivered[i].id, content |-> delivered[i].content]]

Refinement == Abs!Spec

(***************************************************************************)
(* No sender stays blocked in sbus_send_msg for ever: the daemon's listen  *)
(* and receive loop drains the queue, or the socket goes away and the      *)
(* blocked sendmsg fails.                                                  *)
(***************************************************************************)
SendsComplete == \A s \in Senders : spc[s] = "blocked" ~> spc[s] = "idle"

\* The datagram of send call i waits in the socket's queue.
Queued(i) == \E k \in DOMAIN queue : queue[k].id = i

(***************************************************************************)
(* No datagram stays queued for ever: the daemon's select/recvmsg loop     *)
(* takes it, or the socket goes away with it (a failed recvmsg closing the *)
(* handle, the daemon stopped or crashed).  select has no timeout         *)
(* (sbus.c:165), so nothing else ever empties the queue.                   *)
(***************************************************************************)
DatagramsLeave == \A i \in Ids : Queued(i) ~> ~Queued(i)

(***************************************************************************)
(* A failed receive does not end the daemon's service (spec.md 4.4: recv  *)
(* returns an error and the receiver loops back to waiting): after         *)
(* sbus_recv_msg fails, the daemon is eventually listening on a bound      *)
(* socket again, or gone so that it can be restarted.                      *)
(***************************************************************************)
ReceiverRecovers == rpc = "closed" ~> rpc # "closed"

(***************************************************************************)
(* sbus_recv_msg never takes the daemon down: a datagram whose header      *)
(* announces descriptors but which arrives without a control message is,  *)
(* per spec.md 4.4, a PROTOCOL_VIOLATION returned to the caller.           *)
(***************************************************************************)
NoReceiverCrash == rpc # "crashed"

=============================================================================
