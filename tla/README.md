# TLA+ models of the SBus channel (openstack/storlets)

SBus is the channel between the Swift proxy or object server (the host) and a
storlet daemon that runs in a Docker container. A message carries three
things: a set of open file descriptors, a metadata string and a payload
string. It is one datagram on a Unix socket. This project models the C side
of the channel and checks it with TLC.

## Inventory (step 1)

### Components

| Component | Source | State | Operations |
|---|---|---|---|
| Frame codec | `sbus.c` `dump_data_to_bytestream`, `sbus_extract_integer`, `sbus_copy_substr`, decoding in `sbus_recv_msg` | none of its own; the 4096-byte stack buffer `str_msg_buf` that every receive reuses | encode `[n_files][meta_len][msg_len][meta][msg]` plus one byte that is never written; decode at offsets 0, 4, 8, 12, 12+meta_len |
| Sender | `sbus.c` `sbus_send_msg`, `sbus_pack_message` | per call: an ephemeral socket, the byte stream, the control buffer | `socket`, pack, one `sendmsg` (it fails, queues, or blocks while the receiver queue is full), free |
| Receiver | `sbus.c` `sbus_listen`, `sbus_recv_msg`, `sbus_extract_files` | the channel handle; `str_msg_buf` and `cmsg_buf` (stack memory reused across calls); the daemon's descriptor table | `select` with no timeout; `recvmsg`; decode; copy descriptor numbers. On a `recvmsg` error the handle itself is closed |
| Kernel socket | (environment) | the bound socket's datagram queue (`max_dgram_qlen`); descriptors in flight | queue or block a `sendmsg`; install SCM_RIGHTS descriptors in the lowest free slots, with MSG_CTRUNC when none is free; discard the queue when the socket closes |
| Channel creation | `sbus.c` `sbus_create` | the handle | `socket`, `unlink`, `bind`, `chmod 0777`, `setsockopt`. Its error paths fall through and close the handle up to three times |
| Logger | `sbus.c` `sbus_start_logger`, `sbus_stop_logger`, `sbus_translate_log_level` | the global `str[80]` used as the openlog ident; the log mask | start appends to `str` and is never reset; stop calls closelog |
| JNI adapter | `SBusJNI.c` | JNI strings and arrays | turns Java calls into the C calls above: create, listen, send (UTF path, fd array, strings), receive (builds an `SBusRawMessage`), start logger |
| Container restart | `scripts/restart_docker_container.c` | the container | `docker stop`, `docker rm`, `docker run` through `system`; only the last result is used |

### How they interact

Host threads call `sbus_send_msg(path, ...)` on the channel's path; any
number of them can do so concurrently. One daemon thread runs
`sbus_listen` and then `sbus_recv_msg` in a loop on the handle
`sbus_create` returned. The kernel queues datagrams between them and moves
the attached descriptors into the daemon. The daemon then owns those
descriptors and closes them later. A restart of the container kills the
daemon together with its socket and queue. The next daemon binds a fresh
socket at the same path.

### Hard behaviours

These are what tests hardly reach. The `hazards` list of `PROJECT.json`
gives each one at its line.

- Concurrent senders compete for a bounded queue, and a blocked `sendmsg`
  resumes later, possibly against a new daemon.
- A restart happens between a successful send and the receive.
- The receive buffers are reused without clearing. Stale bytes and stale
  descriptor numbers from earlier calls stay in them.
- A datagram longer than `MAX_MSG_LENGTH` is truncated, and the header
  lengths are trusted.
- Descriptor installation fails partly or completely when the daemon's
  descriptor table is nearly full.
- A `recvmsg` error closes the handle and leaves the daemon deaf.
- There are off-by-one cases at buffer boundaries: the unwritten trailing
  byte and the `strParams[nParamsLen]` write in JNI.

### Properties

- The codec round-trips.
- The channel is a FIFO, at-most-once channel of whole messages. This is
  shown by refinement of `SBusAbstract`.
- A blocked sender always returns, and the receiver goes back to waiting
  after an error.
- The receiver never crashes.
- `sbus_create` returns its own bound socket or -1.
- The logger's tag fits its buffer, and the mask follows the level.
- What Java receives is what Java sent, and no JNI call crashes the JVM.

## Plan (step 2)

The modules, in build order. ✔ marks a module that exists.

1. ✔ `SBusFrame`: the codec as operators. `MCSBusFrame` checks it against a
   reference decoder, over every pair of frames (a stale frame, then the
   frame under test).
2. ✔ `SBusAbstract`: what a channel promises. Its state is a FIFO `chan`,
   the outcome of each send call, and the messages received. Its actions
   are Accept, Refuse, Receive and Lose.
3. ✔ `SBusChannel`: senders, kernel queue and receiver composed, with
   container restarts. It refines `SBusAbstract` through `INSTANCE ... WITH`.
4. ✔ `SBusCreate`: the fall-through error paths of `sbus_create`, racing
   other threads of the daemon that open and close descriptors.
5. ✔ `SBusLogger`: repeated `sbus_start_logger` calls against the 80-byte
   tag buffer, and the syslog mask.
6. ✔ `SBusJNI`: the JNI calls composed with `SBusLogger` and the frame
   codec over a FIFO channel.
7. ✔ The `stop`, `rm` and `run` steps of `restart_docker_container`, with
   their results, composed into `SBusChannel`.
8. A hostile local sender on the 0777 socket.

## Modules and their correspondence to the code

### `SBusFrame`

A byte is a record:

- `IntByte(n, k)` is the k-th byte of a header integer.
- `DataByte(v, k)` is the k-th byte of a string whose content is `v`.
- `Junk` is the byte malloc left unwritten.
- `Garbage` is uninitialised stack memory.

A string is `[val, len]`. Byte order is not modelled, because sender and
receiver run on one host.

The operators correspond to the code as follows:

- `DumpData` is `dump_data_to_bytestream`.
- `RecvInto` is `recvmsg` into `str_msg_buf`. It keeps the old contents
  past the new datagram and drops whatever does not fit.
- `ReadByte` reads past the buffer as `Garbage`, as a read past
  `str_msg_buf` does.
- `sbus_extract_integer` maps bytes that are not one encoded integer to -1.
- `DecodeFrame` is lines 475-494 of `sbus_recv_msg`.

### `SBusChannel`

| Variable | Code |
|---|---|
| `queue` | the receive queue of the bound socket |
| `spc`, `pending` | a sender blocked in `sendmsg` and its datagram |
| `nsent`, `log` | each send call and what `sbus_send_msg` returned |
| `rpc` | where the daemon is: `listen`, `recv`, `closed` (handle closed by the error path), `down` (stopped), `crashed` |
| `buf`, `cbuf` | `str_msg_buf` and `cmsg_buf` of `sbus_recv_msg`; stack frames reused by each call of the loop |
| `fdtab` | the daemon's descriptor table |
| `owned` | descriptors handed to the caller |
| `delivered` | what `sbus_recv_msg` returned |
| `restarts` | invocations of `restart_docker_container` so far |
| `ctr` | the daemon's container: running, exited (stopped, not removed) or none |
| `rst`, `rexit` | the running invocation's next `system()` call, and the exit status of the latest one |

The actions:

- `sbus_send_msg(s)` is the whole call. It ends in one of three outcomes:
  - an error: `socket`, `malloc` or `sendmsg` failed, or the peer refused;
  - the datagram is queued;
  - the sender blocks, because the queue is full.
- `SendWake(s)` and `SendAbort(s)` are how a blocked `sendmsg` ends. An
  unconnected `sendmsg` looks up the path again, so it goes on against
  whatever socket is bound at the path.
- `sbus_listen` is the call that returns once a datagram is ready.
- `sbus_recv_msg` is the whole call:
  - `recvmsg` fails, and the handle is closed;
  - or the kernel installs descriptors (`InstalledFds`, `Install`), the
    frame is decoded, and `sbus_extract_files` runs with its status
    ignored;
  - or the call crashes on a NULL `cmsg`.
- `CloseFd` is the caller closing a received descriptor. This is
  spec-modelled, because the callers are Java code outside `src/c`.
- `RestartUsage`, `RestartStop`, `RestartRm` and `RestartRun` are the
  `main` of `restart_docker_container`. Each `system()` call is one step:
  - `RestartUsage`: with the wrong argument count, `main` exits 1 before
    anything else.
  - `RestartStop`: `docker stop` kills the daemon, together with its socket
    and queue (`ProcessExit`).
  - `RestartRm`: `docker rm` removes a stopped container.
  - `RestartRun`: `docker run` fails while a container of that name exists.
    Otherwise it starts the container and returns (`-d`) before the daemon
    inside has created its channel.

  Any of these calls can also fail for docker's own reasons. Its result
  then overwrites `ret`, and only the last result reaches `RestartExit`.

- `DaemonStart` is the new container's daemon creating its channel
  (`sbus_create` unlinks the stale socket file and binds a fresh one).
  It is spec-modelled, because the daemon is Java code outside `src/c`.
  It has no fairness: the start-up can fail, as `SBusCreate` shows, so a
  restart that exits with success may leave nobody listening.

`ProcessExit` is not code of the repository. It is what the kernel does
when the daemon's process ends, by `docker stop` or by the crash in
`sbus_extract_files`: the descriptors, buffers, socket and queued
datagrams go. `Resolve` maps the returned descriptor numbers to files
through the daemon's table, which is what the caller sees when it uses
them. Both are spec-modelled in the map.

### `SBusCreate`

One thread runs `sbus_create` (`sbus.c:94-156`). Other threads of the same
process open and close descriptors between its system calls, as the
daemon's threads do. Each system call is one atomic step.

| Variable | Code |
|---|---|
| `pc` | the next system call of `sbus_create`, or `done` |
| `h`, `st`, `ret` | `n_sbus_handle`, `n_status`, the value returned |
| `fdtab` | the process's descriptor table: free, the socket of `sbus_create`, or another thread's file or socket |
| `path`, `boundFd` | the object at the channel path (absent, a stale socket file, something `unlink` cannot remove, bound) and the socket bound there |
| `opens` | opens made by the other threads (bounded by `MaxOpens`) |
| `failed` | history: the steps whose system call failed |

The actions:

- `CreateSocket` takes the lowest free number (`LowestFree`).
- `CreateBind` unlinks, then binds. On failure it closes the handle
  (`OnBindFailure`) and goes on.
- `CreateChmod` changes the path. On failure it closes the handle again
  (`OnChmod`).
- `CreateSetsockopt` succeeds iff the number is an open socket now, whoever
  opened it. The result is `CreateReturn`, line 155.
- `OtherOpen` and `OtherClose` are the other threads.

### `SBusLogger`

`str` is the sequence of container ids that `sbus_start_logger` has
`strcat`ed onto the global `str[80]`. `StrLen` is its length in bytes.
`logmask` is the process's syslog mask. `SetLogMask` follows glibc, where
`setlogmask(0)` leaves the mask as it is. `sbus_translate_log_level`,
`sbus_start_logger` and `sbus_stop_logger` are the functions of the same
names.

### `SBusJNI`

It `EXTENDS SBusFrame, SBusLogger`. One JVM thread makes one JNI call at a
time, up to `MaxCalls` calls.

| Variable | Code |
|---|---|
| `wire` | datagrams queued at the receiver, with the `SBusRawMessage` each was sent from as a history field |
| `buf` | `str_msg_buf`, reused by every receive |
| `utf` | UTF strings obtained by `GetStringUTFChars` and not released, per parameter |
| `jvm` | `up`, or `crashed` after a write through NULL |
| `jrecvd` | what `receiveRawMessage` returned |
| `bus` | the receiver's handle: open, or closed by a failed `recvmsg` |

The actions:

- `startLogger`, `stopLogger`, `createSBus`, `sendRawMessage` and
  `receiveRawMessage` are the JNI functions of `SBusJNI.c`.
- Each one that reaches the lookups starts with `init_java_accessors`,
  which either succeeds or fails.
- `receiveRawMessage` decodes through `RecvInto` and `DecodeFrame` of
  `SBusFrame`. It keeps the NULL `strParams` and `strMetadata` that
  `sbus_recv_msg` leaves for empty fields.
- The channel is a FIFO queue of whole datagrams. This is the behaviour
  that `channel_safety` shows `SBusChannel` refines, when frames fit and
  descriptors can be installed.
- `listenSBus` only forwards to `sbus_listen`, so it is not an action.
- `createSBus` changes no adapter state, since it releases its string
  whatever happens.

## Runs

| Run | Config | Expect | Shows |
|---|---|---|---|
| frame_codec | `MCSBusFrame.cfg` | pass | `CodecRoundTrip`: a frame that fits decodes to what was sent, whatever a stale frame left in the buffer and with the trailing byte cut off. The settings are 2-byte ints, a 9-byte buffer and strings up to 2 bytes. The buffer is filled exactly by a 6-byte header plus 3 bytes of strings, and overflowed by 4 bytes (2,500 states). |
| channel_safety | `MCSBusChannel.cfg` | pass | `TypeOK`, `Refinement`, `SendsComplete` and `DatagramsLeave`. `DatagramsLeave` says that no datagram stays queued for ever: the receive loop takes it, or it goes with the socket when a failed `recvmsg`, a stop or a crash closes it. The configuration has 2 senders sending 1 message each, 2 files, and up to 2 descriptors per message. The queue holds 1 datagram, so the second sender blocks. There are 4 descriptor slots and 1 restart. The buffer holds 5 bytes with 1-byte ints. This covers blocked sends woken by a new daemon, sends aborted when the socket goes, losses on a restart or a `recvmsg` error, and stale buffers. It uses one string value, since lengths 0 and 1 still tell the fields apart, and no symmetry, which is unsound with liveness. Its `docker stop`, `rm` and `run` may fail in any combination, and the new daemon may never bind (about 410k states, about 2 min). |
| channel_truncation | `MCSBusChannelTrunc.cfg` | violation | The buffer is 4 bytes. A 6-byte frame is returned as success with payload bytes that were never received (finding, `sbus.c:468`). |
| channel_fd_full | `MCSBusChannelFdFull.cfg` | violation | The table is full. `sbus_extract_files` dereferences a NULL `cmsg` and the daemon crashes (finding, `sbus.c:408`). |
| channel_deaf | `MCSBusChannelDeaf.cfg` | violation | `ReceiverRecovers`: after a failed `recvmsg` the daemon has closed its own handle and never listens again unless the container restarts (finding, `sbus.c:471`). |
| create_threads | `MCSBusCreateThreads.cfg` | pass | `TypeOK` and `SetupSucceeded`. There are 3 descriptor numbers, some already open, and the other threads make 2 opens and any number of closes. The path may be absent, stale or impossible to unlink. When bind and chmod succeed, the socket returned is the one bound, whatever the other threads do (2,388 states). |
| create_wrong_handle | `MCSBusCreateWrong.cfg` | violation | `CreateResult`: bind succeeds and chmod fails and closes the handle. Another thread opens a socket at that number, `setsockopt` succeeds on it, and `sbus_create` returns the other thread's socket (finding, `sbus.c:139`). |
| logger_tag_overflow | `MCSBusLoggerTag.cfg` | violation | `TagFits`: with 64-character container ids, the second start writes 147 bytes into `str[80]` (finding, `sbus.c:75`). |
| logger_off | `MCSBusLoggerOff.cfg` | violation | `MaskMatchesLevel`: level OFF leaves the mask at all priorities (finding, `sbus.c:81`). |
| jni_sound | `MCSBusJNI.cfg` | pass | `TypeOK` and `ReceivedSound`. Every message Java can build is covered: null, empty or set metadata and params, and 0 to 2 descriptors. So is every failure of the lookups, the strings, send and receive. Params and descriptors arrive intact and in order, and metadata is never wrong when it is set. Settings: 3 calls, a 6-byte buffer, one string content, and symmetry over files (208k states, 45 s). A second content would triple the run for little gain: `frame_codec` already tells contents apart. |
| jni_roundtrip | `MCSBusJNIRoundTrip.cfg` | violation | `RawMessageRoundTrip`: metadata sent without descriptors reaches Java as null (finding, `SBusJNI.c:290`). |
| jni_crash | `MCSBusJNICrash.cfg` | violation | `NoJVMCrash`: a message with empty params makes `receiveRawMessage` write through NULL (finding, `SBusJNI.c:280`). |

The channel's passing run uses enough free descriptor slots and a large
enough buffer that the refinement holds. The violation runs shrink those
bounds to show what happens at the limits.

Some defects are reached by these models but have no run of their own.
`PROJECT.json` lists them as hazards:

- With one free slot, `Refinement` fails because of unchecked partial
  descriptor installation (`sbus.c:484`).
- `sbus_create` closes a descriptor of another thread after a failed bind
  followed by a failed chmod (`sbus.c:135`).
- `sendRawMessage` and `startLogger` leak UTF strings (`SBusJNI.c:194`,
  `121`). The `utf` counter of `SBusJNI` shows the leak.

### Why the bounds are enough

Each bound is set to the smallest value at which the behaviour it
concerns can happen:

- A queue of 1 with 2 senders is the smallest setting in which a sender
  blocks while another message is queued.
- One restart is enough to reach "woken at a new daemon" and "queued
  message lost".
- Two descriptors per message with `ScmMaxFd = 2` make descriptor order
  observable.
- A buffer of 5 bytes fits the largest message of the safety run (3 header
  bytes and strings of 1 byte) with its trailing byte.
- `SBusCreate`: 3 numbers and 2 foreign opens are enough for the handle
  to be closed and its number handed to another thread, with one number
  left for an earlier open file.
- `SBusJNI`: 3 calls are enough for a send followed by its receive, with
  a logger start or a failed call first. The per-message properties
  concern one message each. FIFO order across messages is the channel's
  property.

### Fairness

Weak fairness is assumed on:

- `sbus_listen` and `sbus_recv_msg`, because the daemon runs them in a
  dedicated loop while it lives;
- `SendWake` and `SendAbort`, because the kernel wakes a blocked `sendmsg`
  when room appears or the peer goes.

`SendsComplete` and `DatagramsLeave` rest on these two fairness assumptions
and on nothing else.

No fairness is assumed on restarts, on sends, or on the caller closing
descriptors. `SBusCreate`, `SBusLogger` and `SBusJNI` are checked for
safety only.

### Deadlock

The runs set `CHECK_DEADLOCK FALSE` where the system really stops:

- once every sender has made its calls, the daemon blocks in `select`
  with no timeout for ever, which is the program's normal idle state;
- `sbus_create` returns once;
- the JVM makes a bounded number of calls, or has crashed.

## Not modelled

- In `restart_docker_container.c`, the copies of the arguments into
  fixed buffers (lines 50-56) and `setresuid`. They change nothing the
  channel sees. Two restarts of one container running at once are not
  modelled either: their callers are outside `src/`.
- A hostile local sender on the 0777 socket (`sbus.c:129`). It can put
  any header on a datagram, and the receiver trusts the header's lengths.
  Every such frame would break `Refinement` trivially, so no run is spent
  on it.
- The error return of `select` in `sbus_listen` (`sbus.c:170`, for
  example `EINTR`). The daemon's loop only goes back to `select`, which
  is the model's `listen` state, so it changes nothing the channel sees.
  A daemon whose handle is `closed` leaves that state only through a
  restart.
- `createSBus` in `SBusJNI` is not called again after a failed
  `recvmsg` has closed the handle. The daemon of `SBusChannel` is not
  restarted by its own code either (run `channel_deaf`).
- `SBusJNI` tracks UTF strings held (`utf`) and whether the log is open
  (`logopen`). No run checks them: the leaks they show are listed as
  hazards (`SBusJNI.c:194`, `121`).
- In `SBusJNI` the channel is a FIFO with a queue of 1, so order across
  messages is not checked there. `channel_safety` checks it through
  `Refinement`, with 2 senders.
- `FD_SET` with a handle of `FD_SETSIZE` or more (`sbus.c:163`).
  Descriptor numbers are kept small.
- The unchecked `malloc` of the control buffer (`sbus.c:272`), and
  unchecked `GetStringUTFChars` for metadata and params
  (`SBusJNI.c:216`). Both are failures of a few bytes of memory.
- Text encodings across the JNI boundary. `NewStringUTF` expects modified
  UTF-8, and a sender other than the JVM may write standard UTF-8
  (`SBusJNI.c:286`). String contents are model values here.
- The log calls and syslog formatting. No property concerns them.
- `sbus.h`, which holds only prototypes and constants. The constants are
  the models' `CONSTANTS`.
- The Java classes, which are not in `src/`.
