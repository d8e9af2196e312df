---------------------------- MODULE VsockByteQueue ----------------------------
(***************************************************************************)
(* What LocalTxBuf promises to a vsock connection: a first-in first-out    *)
(* queue of at most Capacity bytes.  A packet is accepted whole or not at  *)
(* all, and a flush removes a prefix and hands exactly it to the stream.   *)
(***************************************************************************)
EXTENDS Integers, Sequences

CONSTANTS Capacity, Bytes

VARIABLES queue, out

vars == <<queue, out>>

Init ==
  /\ queue = <<>>
  /\ out = <<>>

Accept ==
  /\ Len(queue') \in Len(queue) + 1 .. Capacity
  /\ SubSeq(queue', 1, Len(queue)) = queue
  /\ \A i \in Len(queue) + 1 .. Len(queue') : queue'[i] \in Bytes
  /\ UNCHANGED out

Deliver(n) ==
  /\ out' = SubSeq(queue, 1, n)
  /\ queue' = SubSeq(queue, n + 1, Len(queue))

Next ==
  \/ Accept
  \/ \E n \in 1 .. Len(queue) : Deliver(n)

Spec == Init /\ [][Next]_vars
=============================================================================
