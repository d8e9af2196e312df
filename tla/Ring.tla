---------------------------------- MODULE Ring ----------------------------------
(***************************************************************************)
(* A virtqueue as the small devices use it (vhost-user-backend and         *)
(* virtio-queue, external): handle_event() takes out all the chains that   *)
(* are available, serves them one after the other, puts each into the used *)
(* ring and notifies the guest at the end.  A chain is the request in it.  *)
(***************************************************************************)
EXTENDS Integers, Sequences

EmptyRing == [avail |-> <<>>, batch |-> <<>>, used |-> 0]

RingType(Chains, n) ==
  [avail : UNION {[1 .. i -> Chains] : i \in 0 .. n},
   batch : UNION {[1 .. i -> Chains] : i \in 0 .. n}, used : 0 .. n]

\* The chains that the guest has given away and was not told of again.
Outstanding(q) == Len(q.avail) + Len(q.batch) + q.used

Offer(q, chain) == [q EXCEPT !.avail = Append(@, chain)]

CanCollect(q) == q.avail # <<>> /\ q.batch = <<>> /\ q.used = 0
Collect(q)    == [q EXCEPT !.batch = q.avail, !.avail = <<>>]

Serving(q)   == q.batch # <<>>
Request(q)   == Head(q.batch)
AddUsed(q)   == [q EXCEPT !.batch = Tail(@), !.used = @ + 1]
Forget(q)    == [q EXCEPT !.batch = Tail(@)]

CanSignal(q) == q.batch = <<>> /\ q.used > 0
SignalUsed(q) == [q EXCEPT !.used = 0]

=============================================================================
