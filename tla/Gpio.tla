---------------------------------- MODULE Gpio ----------------------------------
(***************************************************************************)
(* vhost-device-gpio: the lines of a GPIO chip, the worker that serves the *)
(* guest's two queues (vhu_gpio.rs) and the threads it spawns to wait for  *)
(* interrupts, one for each line that has a buffer in the event queue      *)
(* (gpio.rs, "waiter" below).                                              *)
(*                                                                         *)
(* Per line there are two locks: that of its PhysLineState and that of the *)
(* libgpiod request in it, which an Arc keeps alive while a waiter uses    *)
(* it.  Who holds them is where the threads are: the worker keeps the      *)
(* state's while it waits for the request's, a waiter keeps the request's  *)
(* while it waits for an edge and then for the state's.  libgpiod, the     *)
(* kernel and the guest are external.  Levels, names and the direction     *)
(* that the chip reports are left out: nothing depends on them.            *)
(***************************************************************************)
EXTENDS Integers, FiniteSets

CONSTANTS
  Lines,     \* the lines of the chip
  Failing,   \* the requests whose libgpiod call may fail, and those of a waiter
  MaxEvents  \* bound: edges the kernel keeps for a line; it drops others

\* The requests of the guest: VIRTIO_GPIO_MSG_* with their values.
Ops == {"GET_VALUE", "SET_VALUE", "DIR_NONE", "DIR_IN", "DIR_OUT",
        "IRQ_NONE", "IRQ_EDGE", "IRQ_LEVEL"}

ASSUME GpioAssumption ==
  /\ IsFiniteSet(Lines)
  /\ Failing \subseteq {"GET_VALUE", "SET_VALUE", "DIR_IN", "DIR_OUT", "IRQ_EDGE",
                    "WAIT", "READ"}
  /\ MaxEvents \in Nat \ {0}

VARIABLES
  \* GpioController: GpioState of each line.
  val,      \* a value was set
  irq_type,
  \* PhysDevice: PhysLineState of each line.
  request,  \* it has a request
  buffer,   \* it has a buffer
  \* The threads.
  worker,   \* where the worker is, with the request it serves
  waiter,   \* line -> where its thread is
  \* The kernel's end of a request.
  edge,     \* it looks for edges
  pending,  \* edges it has seen and that were not read
  \* The guest.
  req,      \* the request in the request queue
  chain     \* line -> who has the buffer of its event queue

control == <<val, irq_type>>
phys    == <<request, buffer>>
kernel  == <<edge, pending>>
guest   == <<req, chain>>
vars    == <<control, phys, worker, waiter, kernel, guest>>

Idle       == [at |-> "idle"]
NoRequest  == [op |-> "none"]
Requests   == [op : Ops, line : Lines]
WaiterAt   == {"none", "start", "cloned", "wait", "sensed", "valid", "invalid", "done"}

TypeOK ==
  /\ val \in [Lines -> BOOLEAN] /\ irq_type \in [Lines -> {"none", "edge"}]
  /\ request \in [Lines -> BOOLEAN] /\ buffer \in [Lines -> BOOLEAN]
  /\ worker \in {Idle} \cup [at : {"state", "request"}, op : Ops, line : Lines]
  /\ waiter \in [Lines -> WaiterAt]
  /\ edge \in [Lines -> BOOLEAN] /\ pending \in [Lines -> 0 .. MaxEvents]
  /\ req \in {NoRequest} \cup Requests
  /\ chain \in [Lines -> {"guest", "queued", "device"}]

Init ==
  /\ val = [l \in Lines |-> FALSE] /\ irq_type = [l \in Lines |-> "none"]
  /\ request = [l \in Lines |-> FALSE] /\ buffer = [l \in Lines |-> FALSE]
  /\ worker = Idle /\ waiter = [l \in Lines |-> "none"]
  /\ edge = [l \in Lines |-> FALSE] /\ pending = [l \in Lines |-> 0]
  /\ req = NoRequest /\ chain = [l \in Lines |-> "guest"]

Set(f, l, v) == [f EXCEPT ![l] = v]

-----------------------------------------------------------------------------
\* The locks, the handles and the references to the request, by who has them.

StateHeld(l)   == worker.at = "request" /\ worker.line = l
RequestHeld(l) == waiter[l] \in {"wait", "sensed"}
\* Mistake: the request is no Arc.
BugCloned(l)   == FALSE
Cloned(l)      == waiter[l] \in {"cloned", "wait", "sensed"}
HasHandle(l)   == waiter[l] # "none"

\* A reference to the request is dropped; with the last the kernel forgets
\* the line and what it has seen of it.
Drop(l, inUse) ==
  /\ edge' = Set(edge, l, edge[l] /\ inUse)
  /\ pending' = IF inUse THEN pending ELSE Set(pending, l, 0)

\* A libgpiod call: whether it succeeds.
Outcomes(op) == IF op \in Failing THEN BOOLEAN ELSE {TRUE}

-----------------------------------------------------------------------------
(***************************************************************************)
(* A request: GpioController::operation(), whose state has a lock that     *)
(* only the worker takes, and then the device's method.                    *)
(***************************************************************************)
Refused(r) ==
  \/ r.op = "DIR_OUT" /\ ~val[r.line]
  \/ r.op = "IRQ_NONE" /\ irq_type[r.line] = "none"
  \/ r.op \in {"IRQ_EDGE", "IRQ_LEVEL"} /\ irq_type[r.line] = "edge"

Answer == worker' = Idle /\ req' = NoRequest

Refuse ==
  /\ worker = Idle /\ req # NoRequest
  /\ Refused(req)
  /\ Answer
  /\ UNCHANGED <<control, phys, waiter, kernel, chain>>

Begin ==
  /\ worker = Idle /\ req # NoRequest
  /\ ~Refused(req)
  /\ val' = IF req.op = "DIR_NONE" THEN Set(val, req.line, FALSE) ELSE val
  /\ worker' = [at |-> "state", op |-> req.op, line |-> req.line]
  /\ UNCHANGED <<irq_type, phys, waiter, kernel, guest>>

Serve(ops) == worker.at = "state" /\ worker.op \in ops

\* value(), set_value(), set_direction() and set_irq_type() of a line that
\* has a request: its lock is taken with the state's lock held.
NeedRequest ==
  /\ Serve({"GET_VALUE", "SET_VALUE", "DIR_IN", "DIR_OUT", "IRQ_EDGE"})
  /\ request[worker.line]
  /\ buffer' = IF worker.op = "IRQ_EDGE" THEN Set(buffer, worker.line, TRUE) ELSE buffer
  /\ worker' = [worker EXCEPT !.at = "request"]
  /\ UNCHANGED <<control, request, waiter, kernel, guest>>

\* The call that needed the request, and both locks released.
UseRequest ==
  LET l == worker.line
  IN  /\ worker.at = "request"
      /\ ~RequestHeld(l)
      /\ \E ok \in Outcomes(worker.op) :
           /\ val' = Set(val, l, val[l] \/ (ok /\ worker.op = "SET_VALUE"))
           /\ irq_type' = IF ok /\ worker.op = "IRQ_EDGE" THEN Set(irq_type, l, "edge") ELSE irq_type
           /\ edge' = IF ok /\ worker.op \in {"DIR_IN", "DIR_OUT", "IRQ_EDGE"}
                      THEN Set(edge, l, worker.op = "IRQ_EDGE") ELSE edge
      /\ Answer
      /\ UNCHANGED <<phys, waiter, pending, chain>>

\* Without a request a value is only remembered, and there is none to give.
ValueWithoutRequest ==
  /\ Serve({"GET_VALUE", "SET_VALUE"})
  /\ ~request[worker.line]
  /\ val' = Set(val, worker.line, val[worker.line] \/ worker.op = "SET_VALUE")
  /\ Answer
  /\ UNCHANGED <<irq_type, phys, waiter, kernel, chain>>

\* set_direction() asks the chip for the line, which the kernel refuses
\* while a waiter still has the request of before.
RequestLine ==
  LET l == worker.line
  IN  /\ Serve({"DIR_IN", "DIR_OUT"})
      /\ ~request[l]
      /\ \E ok \in Outcomes(worker.op) : request' = Set(request, l, ok /\ ~Cloned(l))
      /\ Answer
      /\ UNCHANGED <<control, buffer, waiter, kernel, chain>>

DropRequest ==
  /\ Serve({"DIR_NONE"})
  /\ request' = Set(request, worker.line, FALSE)
  /\ Drop(worker.line, Cloned(worker.line))
  /\ Answer
  /\ UNCHANGED <<control, buffer, waiter, chain>>

\* Mistake: the buffer of a disabled interrupt is kept.
BugDisableIrq ==
  /\ Serve({"IRQ_NONE"})
  /\ irq_type' = Set(irq_type, worker.line, "none")
  /\ Answer
  /\ UNCHANGED <<val, phys, waiter, kernel, chain>>

\* The buffer goes; the kernel is not told, nor is the waiter.
DisableIrq ==
  /\ Serve({"IRQ_NONE"})
  /\ irq_type' = Set(irq_type, worker.line, "none")
  /\ buffer' = Set(buffer, worker.line, FALSE)
  /\ Answer
  /\ UNCHANGED <<val, request, waiter, kernel, chain>>

IrqNotPossible ==
  /\ Serve({"IRQ_EDGE", "IRQ_LEVEL"})
  /\ worker.op = "IRQ_EDGE" => ~request[worker.line]
  /\ Answer
  /\ UNCHANGED <<control, phys, waiter, kernel, chain>>

(***************************************************************************)
(* process_event(): a buffer of the event queue is refused, or a thread is *)
(* spawned that will give it back.                                         *)
(***************************************************************************)
TakeBuffer(l) == worker = Idle /\ chain[l] = "queued"

RefuseBuffer(l) ==
  /\ TakeBuffer(l)
  /\ irq_type[l] = "none" \/ HasHandle(l)
  /\ chain' = Set(chain, l, "guest")
  /\ UNCHANGED <<control, phys, worker, waiter, kernel, req>>

SpawnWaiter(l) ==
  /\ TakeBuffer(l)
  /\ irq_type[l] # "none" /\ ~HasHandle(l)
  /\ chain' = Set(chain, l, "device")
  /\ waiter' = Set(waiter, l, "start")
  /\ UNCHANGED <<control, phys, worker, kernel, req>>

Worker ==
  \/ Refuse \/ Begin \/ NeedRequest \/ UseRequest \/ ValueWithoutRequest
  \/ RequestLine \/ DropRequest \/ DisableIrq \/ IrqNotPossible
  \/ \E l \in Lines : RefuseBuffer(l) \/ SpawnWaiter(l)

-----------------------------------------------------------------------------
\* The thread of a line: GpioController::wait_for_interrupt(), a loop around
\* PhysDevice::wait_for_interrupt(), and then the answer.

Goto(l, from, to) == waiter[l] = from /\ waiter' = Set(waiter, l, to)

\* The request is cloned under the state's lock.
CloneRequest(l) ==
  /\ ~StateHeld(l)
  /\ Goto(l, "start", IF request[l] THEN "cloned" ELSE "invalid")
  /\ UNCHANGED <<control, phys, worker, kernel, guest>>

LockRequest(l) ==
  /\ Goto(l, "cloned", "wait")
  /\ UNCHANGED <<control, phys, worker, kernel, guest>>

\* Mistake: it waits once more without letting go of the request.
BugTimeout(l) ==
  /\ pending[l] = 0
  /\ Goto(l, "wait", "wait")
  /\ UNCHANGED <<control, phys, worker, kernel, guest>>

\* A second without an edge: everything is dropped and the loop goes on.
Timeout(l) ==
  /\ pending[l] = 0
  /\ Goto(l, "wait", "start")
  /\ Drop(l, request[l])
  /\ UNCHANGED <<control, phys, worker, guest>>

WaitFails(l) ==
  /\ FALSE \in Outcomes("WAIT")
  /\ Goto(l, "wait", "invalid")
  /\ Drop(l, request[l])
  /\ UNCHANGED <<control, phys, worker, guest>>

SenseEdge(l) ==
  /\ pending[l] > 0
  /\ Goto(l, "wait", "sensed")
  /\ UNCHANGED <<control, phys, worker, kernel, guest>>

\* The event is read if, under the state's lock, there is a buffer for it.
ReadEdge(l) ==
  /\ ~StateHeld(l)
  /\ \E ok \in Outcomes("READ") :
       LET read == buffer[l] /\ ok
       IN  /\ Goto(l, "sensed", IF read THEN "valid" ELSE "invalid")
           /\ pending' = Set(pending, l, IF ~request[l] THEN 0 ELSE IF read THEN pending[l] - 1 ELSE pending[l])
  /\ edge' = Set(edge, l, edge[l] /\ request[l])
  /\ UNCHANGED <<control, phys, worker, guest>>

\* send_event_response(), whatever came of it...
Respond(l) ==
  /\ Goto(l, waiter[l], "done") /\ waiter[l] \in {"valid", "invalid"}
  /\ chain' = Set(chain, l, "guest")
  /\ UNCHANGED <<control, phys, worker, kernel, req>>

\* ...and only then is the handle given up.
Leave(l) ==
  /\ Goto(l, "done", "none")
  /\ UNCHANGED <<control, phys, worker, kernel, guest>>

Waiter(l) ==
  \/ CloneRequest(l) \/ LockRequest(l) \/ Timeout(l) \/ WaitFails(l)
  \/ SenseEdge(l) \/ ReadEdge(l) \/ Respond(l) \/ Leave(l)

-----------------------------------------------------------------------------
\* The line and the guest (external): its driver waits for the answer to a
\* request before it sends another, and has one buffer for each line.

Edge(l) ==
  /\ edge[l] /\ pending[l] < MaxEvents
  /\ pending' = Set(pending, l, pending[l] + 1)
  /\ UNCHANGED <<control, phys, worker, waiter, edge, guest>>

GuestRequest(r) ==
  /\ req = NoRequest
  /\ req' = r
  /\ UNCHANGED <<control, phys, worker, waiter, kernel, chain>>

GuestBuffer(l) ==
  /\ chain[l] = "guest"
  /\ chain' = Set(chain, l, "queued")
  /\ UNCHANGED <<control, phys, worker, waiter, kernel, req>>

Next ==
  \/ Worker
  \/ \E l \in Lines : Waiter(l) \/ Edge(l) \/ GuestBuffer(l)
  \/ \E r \in Requests : GuestRequest(r)

Spec == Init /\ [][Next]_vars

(***************************************************************************)
(* The threads are scheduled.  A waiter needs the state's lock, which the  *)
(* worker takes again and again: SF, it does not miss every chance.        *)
(* Nothing makes an edge happen, a wait fail or the guest act.             *)
(***************************************************************************)
Fairness == WF_vars(Worker) /\ \A l \in Lines : SF_vars(Waiter(l) /\ ~WaitFails(l))

FairSpec == Spec /\ Fairness

-----------------------------------------------------------------------------
\* Worker and waiter of a line each hold the lock the other one waits for.
DeadlyEmbrace(l) == StateHeld(l) /\ waiter[l] = "sensed"

(***************************************************************************)
(* wait_for_interrupt() does "not take a lock for the entire duration,     *)
(* which can potentially also starve the other thread": the two threads    *)
(* never wait for each other.                                              *)
(***************************************************************************)
NoDeadlock == \A l \in Lines : ~DeadlyEmbrace(l)

(***************************************************************************)
(* A sensed edge is still there when the state's lock has been taken, as   *)
(* nobody frees "resources currently used by wait_for_interrupt()":        *)
(* read_edge_events() neither blocks nor fails.                            *)
(***************************************************************************)
EdgeStillThere == \A l \in Lines : waiter[l] = "sensed" => pending[l] > 0

(***************************************************************************)
(* The device has a buffer of the guest exactly while a thread of the line *)
(* is on its way to give it back: none is lost, none is given back twice.  *)
(***************************************************************************)
BufferHasWaiter ==
  \A l \in Lines : chain[l] = "device" <=> waiter[l] \notin {"none", "done"}

\* What the worker and the threads of the lines rely on, of each other.
GpioInv == TypeOK /\ EdgeStillThere /\ BufferHasWaiter

(***************************************************************************)
(* An interrupt is only reported while the guest has it enabled, however   *)
(* disabling and enabling overlap with a thread that waits.                *)
(***************************************************************************)
ValidMeansEnabled ==
  [][\A l \in Lines : waiter'[l] = "valid" /\ waiter[l] # "valid" => irq_type[l] = "edge"]_vars

(***************************************************************************)
(* "No other buffer should have been received earlier for this GPIO pin":  *)
(* with the interrupt enabled, only a second buffer is refused.            *)
(***************************************************************************)
RefusalJustified ==
  [][\A l \in Lines :
       chain[l] = "queued" /\ chain'[l] = "guest" => irq_type[l] = "none"]_vars

\* A request is answered, although its lock is mostly a waiter's.
RequestAnswered ==
  (worker # Idle) ~> (worker = Idle \/ \E l \in Lines : DeadlyEmbrace(l))

\* An edge that a waiter finds gives the buffer back to the guest.
EdgeAnswered ==
  \A l \in Lines :
    (waiter[l] = "wait" /\ pending[l] > 0) ~> (chain[l] = "guest" \/ DeadlyEmbrace(l))

\* A line the guest gives up is free for others although a thread uses it.
LineReleased ==
  \A l \in Lines : ~request[l] ~> (request[l] \/ (~edge[l] /\ ~Cloned(l)))

(***************************************************************************)
(* What worker and waiter owe through the locks they share: requests and   *)
(* edges are answered, unless the two wait for each other, and a line that *)
(* is given up is let go of (process_requests() and wait_for_interrupt()). *)
(***************************************************************************)
LinesServed == RequestAnswered /\ EdgeAnswered /\ LineReleased

(***************************************************************************)
(* "Once the waiting period is over or an interrupt is sensed", a waiter   *)
(* finds the buffer dropped and the guest gets its own back.               *)
(***************************************************************************)
DisableReturnsBuffer ==
  \A l \in Lines :
    (chain[l] = "device" /\ ~buffer[l]) ~> (chain[l] # "device" \/ buffer[l])

=============================================================================
