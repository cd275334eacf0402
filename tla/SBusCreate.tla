----------------------------- MODULE SBusCreate ------------------------------
(***************************************************************************)
(* sbus_create (src/src/c/sbus/sbus.c) run by one thread of the daemon     *)
(* process while other threads of the same process open and close          *)
(* descriptors.  Every system call is atomic; the threads interleave       *)
(* between them.  The steps of sbus_create are:                            *)
(*   "socket"     socket()                                                 *)
(*   "bind"       unlink of the path, bind(); close(handle) if it fails    *)
(*   "chmod"      chmod(path, 0777); close(handle) if it fails             *)
(*   "setsockopt" setsockopt(SO_REUSEADDR); close(handle) if it fails,     *)
(*                and the return                                           *)
(* A failure does not end the sequence: bind, chmod and setsockopt are     *)
(* all attempted once socket() succeeded, and the value returned depends   *)
(* on setsockopt alone.                                                    *)
(***************************************************************************)
EXTENDS Integers

CONSTANTS
  FdSlots,    \* descriptor numbers of the process (RLIMIT_NOFILE)
  MaxOpens    \* open calls the other threads make (bound)

VARIABLES
  pc,         \* the next step of sbus_create, or "done"
  h,          \* n_sbus_handle
  st,         \* n_status
  ret,        \* what sbus_create returned (meaningful when pc = "done")
  fdtab,      \* descriptor number -> "free", "mine" (the socket of
              \*   sbus_create), "theirs_file" or "theirs_sock"
  path,       \* the object at the channel path: "absent", "stale" (an old
              \*   socket file), "dir" (something unlink cannot remove),
              \*   "bound" (bound to a socket of sbus_create)
  boundFd,    \* the descriptor whose socket bind attached to the path (0: none)
  opens,      \* open calls the other threads made
  failed      \* history: the steps of sbus_create whose system call failed

vars == <<pc, h, st, ret, fdtab, path, boundFd, opens, failed>>

FdNums == 1 .. FdSlots
Free   == {fd \in FdNums : fdtab[fd] = "free"}

\* The kernel hands out the lowest free descriptor number.
LowestFree == CHOOSE fd \in Free : \A g \in Free : fd <= g

IsSocket(fd) == fd \in FdNums /\ fdtab[fd] \in {"mine", "theirs_sock"}

\* close(fd): the slot becomes free whoever opened it; closing a free
\* number is EBADF and changes nothing.
Close(fd) == [fdtab EXCEPT ![fd] = "free"]

(***************************************************************************)
(* sbus_create, lines 97-104: socket() takes the lowest free number; it    *)
(* fails when none is free (EMFILE) or for lack of kernel memory.          *)
(***************************************************************************)
CreateSocket ==
  /\ pc = "socket"
  /\ \/ /\ Free # {}
        /\ h' = LowestFree
        /\ fdtab' = [fdtab EXCEPT ![LowestFree] = "mine"]
        /\ st' = 0
        /\ pc' = "bind"
        /\ UNCHANGED <<ret, failed>>
     \/ /\ h' = -1
        /\ st' = -1
        /\ pc' = "done"
        /\ ret' = -1
        /\ failed' = failed \cup {"socket"}
        /\ UNCHANGED fdtab
  /\ UNCHANGED <<path, boundFd, opens>>

\* The outcome of one step: its status and the table after the close its
\* "if( failed )" block may do.
Step(ok, name, tab) ==
  /\ st' = IF ok THEN 0 ELSE -1
  /\ fdtab' = tab
  /\ failed' = IF ok THEN failed ELSE failed \cup {name}

\* Lines 120-126: a failed bind closes the handle.
OnBindFailure == Close(h)

(***************************************************************************)
(* Lines 115-126: unlink removes a stale socket file (not a directory);    *)
(* bind needs an unbound socket and a free path; it can also fail for      *)
(* reasons outside the model (EACCES on the directory, a name truncated    *)
(* to sun_path that is in use).                                            *)
(***************************************************************************)
CreateBind ==
  /\ pc = "bind"
  /\ LET p == IF path = "stale" THEN "absent" ELSE path
     IN \E ok \in IF IsSocket(h) /\ p = "absent" THEN BOOLEAN ELSE {FALSE} :
          /\ Step(ok, "bind", IF ok THEN fdtab ELSE OnBindFailure)
          /\ path' = IF ok THEN "bound" ELSE p
          /\ boundFd' = IF ok THEN h ELSE boundFd
  /\ pc' = "chmod"
  /\ UNCHANGED <<h, ret, opens>>

\* Mutant: the close of line 135 outside its if (missing braces), so the
\* handle is closed whether chmod failed or not.
OnChmod_closealways(ok) == Close(h)

\* Lines 130-136: a failed chmod closes the handle (again).
OnChmod(ok) == IF ok THEN fdtab ELSE Close(h)

(***************************************************************************)
(* Lines 128-136: chmod works on the path, not the handle.  It fails when  *)
(* nothing is there, and it can fail on an existing object too (EPERM, a   *)
(* read-only file system, or a path longer than sun_path so that bind      *)
(* bound a truncated name).                                                *)
(***************************************************************************)
CreateChmod ==
  /\ pc = "chmod"
  /\ \E ok \in IF path # "absent" THEN BOOLEAN ELSE {FALSE} :
       Step(ok, "chmod", OnChmod(ok))
  /\ pc' = "setsockopt"
  /\ UNCHANGED <<h, ret, path, boundFd, opens>>

\* Mutant: the return expression yields n_status (0) on success.
CreateReturn_status(status) == status

\* Line 155: return( 0 <= n_status ? n_sbus_handle : n_status ).
CreateReturn(status) == IF 0 <= status THEN h ELSE status

(***************************************************************************)
(* Lines 138-155: setsockopt on the handle number succeeds iff that number *)
(* is an open socket now, whichever thread opened it; on failure the       *)
(* number is closed once more.  The result depends on setsockopt alone.    *)
(***************************************************************************)
CreateSetsockopt ==
  /\ pc = "setsockopt"
  /\ LET ok == IsSocket(h)
     IN /\ Step(ok, "setsockopt", IF ok THEN fdtab ELSE Close(h))
        /\ ret' = CreateReturn(IF ok THEN 0 ELSE -1)
  /\ pc' = "done"
  /\ UNCHANGED <<h, path, boundFd, opens>>

\* Another thread opens a file or a socket: the lowest free number.
OtherOpen ==
  /\ opens < MaxOpens
  /\ Free # {}
  /\ \E kind \in {"theirs_file", "theirs_sock"} :
       fdtab' = [fdtab EXCEPT ![LowestFree] = kind]
  /\ opens' = opens + 1
  /\ UNCHANGED <<pc, h, st, ret, path, boundFd, failed>>

\* Another thread closes one of its descriptors.
OtherClose ==
  /\ \E fd \in FdNums :
       /\ fdtab[fd] \in {"theirs_file", "theirs_sock"}
       /\ fdtab' = Close(fd)
  /\ UNCHANGED <<pc, h, st, ret, path, boundFd, opens, failed>>

\* The process may already hold descriptors; the path may hold a stale
\* socket file of an earlier daemon or an object unlink cannot remove.
Init ==
  /\ pc = "socket"
  /\ h = -1
  /\ st = 0
  /\ ret = -1
  /\ fdtab \in [FdNums -> {"free", "theirs_file"}]
  /\ path \in {"absent", "stale", "dir"}
  /\ boundFd = 0
  /\ opens = 0
  /\ failed = {}

Next ==
  \/ CreateSocket
  \/ CreateBind
  \/ CreateChmod
  \/ CreateSetsockopt
  \/ OtherOpen
  \/ OtherClose

Spec == Init /\ [][Next]_vars

-----------------------------------------------------------------------------

TypeOK ==
  /\ pc \in {"socket", "bind", "chmod", "setsockopt", "done"}
  /\ h \in FdNums \cup {-1}
  /\ st \in {0, -1}
  /\ ret \in FdNums \cup {-1}
  /\ fdtab \in [FdNums -> {"free", "mine", "theirs_file", "theirs_sock"}]
  /\ path \in {"absent", "stale", "dir", "bound"}
  /\ boundFd \in FdNums \cup {0}
  /\ opens \in 0 .. MaxOpens
  /\ failed \subseteq {"socket", "bind", "chmod", "setsockopt"}

(***************************************************************************)
(* What sbus_create returns is right: a handle it returns is its own       *)
(* socket, still open and the one bound at the path; when it returns -1    *)
(* it leaves no socket of its own open.  The fall-through after a failed   *)
(* bind or chmod (sbus.c:125, 135) must not turn into a success.           *)
(***************************************************************************)
CreateResult ==
  pc = "done" =>
    IF ret >= 0
    THEN fdtab[ret] = "mine" /\ boundFd = ret /\ path = "bound"
    ELSE \A fd \in FdNums : fdtab[fd] # "mine"

(***************************************************************************)
(* The fall-through never spoils a good setup: when bind and chmod both    *)
(* succeeded, sbus_create returns the socket it bound, still open, even    *)
(* while other threads open and close descriptors between its steps.       *)
(***************************************************************************)
SetupSucceeded ==
  (pc = "done" /\ failed \cap {"socket", "bind", "chmod"} = {}) =>
    /\ ret = boundFd
    /\ fdtab[ret] = "mine"

=============================================================================
