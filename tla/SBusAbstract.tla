----------------------------- MODULE SBusAbstract -----------------------------
(***************************************************************************)
(* What an SBus channel promises its users (spec.md sections 4.3, 4.4, 5   *)
(* and 7): a single FIFO of whole messages.  A send either fails and       *)
(* leaves no trace, or appends its message; a receive returns the oldest   *)
(* message exactly as it was sent; when the receiving side goes away the   *)
(* messages waiting for it are lost (at most once, no retry).              *)
(***************************************************************************)
EXTENDS Sequences

CONSTANTS
  Ids,        \* one identity per send call
  Contents    \* what a message carries: descriptors (as files), metadata, payload

VARIABLES
  chan,       \* messages accepted and not yet received, oldest first
  status,     \* outcome of each send call: "none" (not returned yet), "ok", "err"
  recvd       \* messages handed to the receiver, in order

vars == <<chan, status, recvd>>

Init ==
  /\ chan = <<>>
  /\ status = [i \in Ids |-> "none"]
  /\ recvd = <<>>

\* A send call returns success: its message is now queued.
Accept(i, c) ==
  /\ status[i] = "none"
  /\ chan' = Append(chan, [id |-> i, content |-> c])
  /\ status' = [status EXCEPT ![i] = "ok"]
  /\ UNCHANGED recvd

\* A send call returns failure: nothing was queued.
Refuse(i) ==
  /\ status[i] = "none"
  /\ status' = [status EXCEPT ![i] = "err"]
  /\ UNCHANGED <<chan, recvd>>

\* A receive returns the oldest queued message.
Receive ==
  /\ chan # <<>>
  /\ recvd' = Append(recvd, Head(chan))
  /\ chan' = Tail(chan)
  /\ UNCHANGED status

\* The receiving endpoint goes away with everything queued for it.
Lose ==
  /\ chan # <<>>
  /\ chan' = <<>>
  /\ UNCHANGED <<status, recvd>>

Next ==
  \/ \E i \in Ids, c \in Contents : Accept(i, c)
  \/ \E i \in Ids : Refuse(i)
  \/ Receive
  \/ Lose

Spec == Init /\ [][Next]_vars

=============================================================================
