------------------------------ MODULE VsockTxBuf ------------------------------
(***************************************************************************)
(* LocalTxBuf of vhost-device-vsock/src/txbuf.rs: the ring in which a      *)
(* vsock connection keeps the bytes the guest has sent and the host-side   *)
(* stream did not take yet.  head and tail are free-running counters (u32  *)
(* in the code, modulo TxBufRange here); an index into the ring is the     *)
(* counter modulo the size of the buffer.                                  *)
(*                                                                         *)
(* txbuf_out is what the stream has been given by the last flush: the data *)
(* that the rest of the device never sees again.                           *)
(***************************************************************************)
EXTENDS Integers, Sequences

CONSTANTS
  TxBufRange, \* number of values of head and tail, 2^32 in the code
  TxBufSize,  \* tx_buffer_size, the length of the vector
  TxBufBytes  \* what a byte may be

ASSUME TxBufAssumption ==
  /\ TxBufRange \in Nat \ {0}
  /\ TxBufSize \in 1 .. TxBufRange - 1

VARIABLES txbuf, txbuf_head, txbuf_tail, txbuf_out

TxBufVars == <<txbuf, txbuf_head, txbuf_tail, txbuf_out>>

TxBufMin(a, b) == IF a <= b THEN a ELSE b

\* head and tail are Wrapping<u32>.
TxBufAdvance(counter, n) == (counter + n) % TxBufRange

\* The amount of data in the buffer.
TxBufLength(h, t) == (t - h) % TxBufRange

TxBufEmpty == TxBufLength(txbuf_head, txbuf_tail) = 0

\* Index into the vector for a counter.
TxBufIndex(counter) == counter % TxBufSize

\* The data push() is offered: no more than one packet, at most BufSize long.
TxBufPackets == UNION {[1 .. n -> TxBufBytes] : n \in 1 .. TxBufSize}

\* The variables have their types: the counters stay in the range of a u32.
TxBufTypeOK ==
  /\ txbuf \in [0 .. TxBufSize - 1 -> TxBufBytes]
  /\ txbuf_head \in 0 .. TxBufRange - 1
  /\ txbuf_tail \in 0 .. TxBufRange - 1
  /\ txbuf_out \in Seq(TxBufBytes)

TxBufInit ==
  /\ \E zero \in TxBufBytes : txbuf = [i \in 0 .. TxBufSize - 1 |-> zero]
  /\ txbuf_head = 0
  /\ txbuf_tail = 0
  /\ txbuf_out = <<>>

-----------------------------------------------------------------------------

(***************************************************************************)
(* push(): all of the data or none.  What does not fit between the index   *)
(* of the tail and the end of the vector goes to the start of the vector.  *)
(***************************************************************************)
TxBufPush(data) ==
  /\ TxBufSize - TxBufLength(txbuf_head, txbuf_tail) >= Len(data)
  /\ LET first == TxBufMin(TxBufSize - TxBufIndex(txbuf_tail), Len(data))
     IN  txbuf' = [i \in 0 .. TxBufSize - 1 |->
                  IF i \in TxBufIndex(txbuf_tail) .. TxBufIndex(txbuf_tail) + first - 1
                  THEN data[i - TxBufIndex(txbuf_tail) + 1]
                  ELSE IF i < Len(data) - first
                  THEN data[first + i + 1]
                  ELSE txbuf[i]]
  /\ txbuf_tail' = TxBufAdvance(txbuf_tail, Len(data))
  /\ UNCHANGED <<txbuf_head, txbuf_out>>

\* push() refuses data with LocalTxBufFull and changes nothing.
TxBufPushFull(data) ==
  /\ TxBufSize - TxBufLength(txbuf_head, txbuf_tail) < Len(data)
  /\ UNCHANGED TxBufVars

(***************************************************************************)
(* The bytes flush_to() hands to a stream that takes everything, for a     *)
(* buffer: one write per contiguous run, each call computing its index     *)
(* from the head that the previous one has advanced.                       *)
(***************************************************************************)
TxBufOrder ==
  LET run[h \in 0 .. TxBufRange - 1] ==
        LET left == TxBufLength(h, txbuf_tail)
            len == TxBufMin(TxBufSize - TxBufIndex(h), left)
        IN  IF left = 0 THEN <<>>
            ELSE [i \in 1 .. len |-> txbuf[TxBufIndex(h) + i - 1]] \o run[TxBufAdvance(h, len)]
  IN  run[txbuf_head]

\* A mistake: a short write is taken for a complete one.
BugTxBufFlushTo(n) ==
  /\ ~TxBufEmpty
  /\ n \in 1 .. TxBufLength(txbuf_head, txbuf_tail)
  /\ txbuf_out' = SubSeq(TxBufOrder, 1, n)
  /\ txbuf_head' = txbuf_tail
  /\ UNCHANGED <<txbuf, txbuf_tail>>

(***************************************************************************)
(* flush_to(): the stream takes n bytes, in one or more writes; it stops   *)
(* at the first short write, or at an error of a write after the first.    *)
(***************************************************************************)
TxBufFlushTo(n) ==
  /\ ~TxBufEmpty
  /\ n \in 1 .. TxBufLength(txbuf_head, txbuf_tail)
  /\ txbuf_out' = SubSeq(TxBufOrder, 1, n)
  /\ txbuf_head' = TxBufAdvance(txbuf_head, n)
  /\ UNCHANGED <<txbuf, txbuf_tail>>

TxBufNext ==
  \/ \E data \in TxBufPackets : TxBufPush(data) \/ TxBufPushFull(data)
  \/ \E n \in 1 .. TxBufSize : TxBufFlushTo(n)

TxBufSpec == TxBufInit /\ [][TxBufNext]_TxBufVars

-----------------------------------------------------------------------------

(***************************************************************************)
(* What the connection relies on: a bounded first-in first-out queue.      *)
(***************************************************************************)
TxBufQueue == INSTANCE VsockByteQueue
  WITH queue <- TxBufOrder, out <- txbuf_out, Capacity <- TxBufSize, Bytes <- TxBufBytes

\* The ring implements the queue through every wrap of its counters: bytes
\* leave once, unchanged and in order, and it never holds more than fits.
TxBufImplementsQueue == []TxBufTypeOK /\ TxBufQueue!Spec
=============================================================================
