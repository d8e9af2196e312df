------------------------------- MODULE GpioProofs -------------------------------
(***************************************************************************)
(* What holds of any number of GPIO lines, for any bound on the edges that *)
(* the kernel keeps and whichever calls of libgpiod fail, and a theorem    *)
(* for which enabling an interrupt has to succeed.                         *)
(***************************************************************************)
EXTENDS Gpio, TLAPS

(***************************************************************************)
(* Types and sensed edges.  Neither is inductive alone: an edge is counted *)
(* off when it is read, so that it has to be there.                        *)
(***************************************************************************)
LEMMA Start == Init => TypeOK /\ EdgeStillThere
  BY GpioAssumption DEF Init, TypeOK, Idle, NoRequest, WaiterAt, EdgeStillThere

LEMMA TypeStep == TypeOK /\ EdgeStillThere /\ [Next]_vars => TypeOK'
<1> SUFFICES ASSUME TypeOK, EdgeStillThere, [Next]_vars PROVE TypeOK'
  OBVIOUS
<1> USE DEF TypeOK, WaiterAt, Set, Idle, NoRequest
<1>1. CASE UNCHANGED vars
  BY <1>1 DEF vars, control, phys, kernel, guest
<1>2. CASE Refuse \/ Begin \/ NeedRequest \/ ValueWithoutRequest \/ DisableIrq \/ IrqNotPossible
  <2>1. CASE Refuse
    BY <2>1 DEF Refuse, Answer, control, phys, kernel
  <2>2. CASE Begin
    <3>1. req \in Requests /\ req.op \in Ops /\ req.line \in Lines
      BY <2>2 DEF Begin, Requests
    <3> QED
      BY <2>2, <3>1 DEF Begin, phys, kernel, guest, control
  <2>3. CASE NeedRequest \/ ValueWithoutRequest \/ DisableIrq \/ IrqNotPossible
    <3>1. worker \in [at : {"state", "request"}, op : Ops, line : Lines]
      BY <2>3 DEF NeedRequest, ValueWithoutRequest, DisableIrq, IrqNotPossible, Serve
    <3>2. CASE NeedRequest \/ ValueWithoutRequest
      BY <3>1, <3>2 DEF NeedRequest, ValueWithoutRequest, Answer, control, phys, kernel, guest
    <3>3. CASE DisableIrq \/ IrqNotPossible
      BY <3>1, <3>3 DEF DisableIrq, IrqNotPossible, Answer, control, phys, kernel, guest
    <3> QED
      BY <2>3, <3>2, <3>3
  <2> QED
    BY <1>2, <2>1, <2>2, <2>3
<1>3. CASE UseRequest \/ RequestLine \/ DropRequest
  <2>1. worker \in [at : {"state", "request"}, op : Ops, line : Lines]
    BY <1>3 DEF UseRequest, RequestLine, DropRequest, Serve
  <2>2. \A op : Outcomes(op) \subseteq BOOLEAN
    BY DEF Outcomes
  <2>3. CASE UseRequest
    BY <2>1, <2>2, <2>3 DEF UseRequest, Answer, phys
  <2>4. CASE RequestLine
    BY <2>1, <2>2, <2>4 DEF RequestLine, Answer, control, kernel
  <2>5. CASE DropRequest
    BY <2>1, <2>5, GpioAssumption DEF DropRequest, Drop, Answer, control, Cloned
  <2> QED
    BY <1>3, <2>3, <2>4, <2>5
<1>4. ASSUME NEW l \in Lines,
             RefuseBuffer(l) \/ SpawnWaiter(l) \/ CloneRequest(l) \/ LockRequest(l)
               \/ SenseEdge(l) \/ Respond(l) \/ Leave(l)
      PROVE  TypeOK'
  BY <1>4 DEF RefuseBuffer, SpawnWaiter, TakeBuffer, CloneRequest, LockRequest, SenseEdge,
       Respond, Leave, Goto, control, phys, kernel, guest
<1>5. ASSUME NEW l \in Lines, Timeout(l) \/ WaitFails(l) PROVE TypeOK'
  <2>1. /\ waiter' = Set(waiter, l, waiter'[l]) /\ waiter'[l] \in {"start", "invalid"}
        /\ Drop(l, request[l]) /\ UNCHANGED <<control, phys, worker, guest>>
    BY <1>5 DEF Timeout, WaitFails, Goto
  <2> QED
    BY <2>1, GpioAssumption DEF Drop, control, phys, guest
<1>6. ASSUME NEW l \in Lines, ReadEdge(l) PROVE TypeOK'
  BY <1>6, GpioAssumption DEF ReadEdge, Goto, EdgeStillThere, control, phys, guest
<1>7. ASSUME NEW l \in Lines, Edge(l) \/ GuestBuffer(l) PROVE TypeOK'
  BY <1>7, GpioAssumption DEF Edge, GuestBuffer, control, phys, kernel, guest
<1>8. ASSUME NEW r \in Requests, GuestRequest(r) PROVE TypeOK'
  BY <1>8 DEF GuestRequest, control, phys, kernel, guest
<1> QED
  BY <1>1, <1>2, <1>3, <1>4, <1>5, <1>6, <1>7, <1>8 DEF Next, Worker, Waiter

LEMMA EdgeStep == TypeOK /\ EdgeStillThere /\ [Next]_vars => EdgeStillThere'
<1> SUFFICES ASSUME TypeOK, EdgeStillThere, [Next]_vars, NEW l \in Lines, waiter'[l] = "sensed"
             PROVE  pending'[l] > 0
  BY DEF EdgeStillThere
<1> USE DEF TypeOK, Set
<1>1. waiter[l] = "sensed" => pending[l] > 0
  BY DEF EdgeStillThere
<1>2. CASE UNCHANGED <<waiter, pending>>
  BY <1>1, <1>2
<1>3. CASE DropRequest
  BY <1>1, <1>3 DEF DropRequest, Drop, Cloned
<1>4. ASSUME NEW m \in Lines, SpawnWaiter(m) \/ CloneRequest(m) \/ LockRequest(m) \/ Respond(m) \/ Leave(m)
      PROVE  pending'[l] > 0
  BY <1>1, <1>4 DEF SpawnWaiter, CloneRequest, LockRequest, Respond, Leave, Goto, kernel
<1>5. ASSUME NEW m \in Lines, Timeout(m) \/ WaitFails(m) \/ SenseEdge(m) \/ ReadEdge(m) PROVE pending'[l] > 0
  BY <1>1, <1>5, ZenonT(60) DEF Timeout, WaitFails, SenseEdge, ReadEdge, Goto, Drop, kernel
<1>6. ASSUME NEW m \in Lines, Edge(m) PROVE pending'[l] > 0
  BY <1>1, <1>6 DEF Edge
<1>7. ASSUME NEW m \in Lines, RefuseBuffer(m) \/ GuestBuffer(m) PROVE UNCHANGED <<waiter, pending>>
  BY <1>7 DEF RefuseBuffer, GuestBuffer, kernel
<1>8. Refuse \/ Begin \/ NeedRequest \/ UseRequest \/ ValueWithoutRequest \/ RequestLine
        \/ DisableIrq \/ IrqNotPossible \/ (\E r \in Requests : GuestRequest(r)) \/ UNCHANGED vars
      => UNCHANGED <<waiter, pending>>
  BY DEF Refuse, Begin, NeedRequest, UseRequest, ValueWithoutRequest, RequestLine, DisableIrq,
     IrqNotPossible, GuestRequest, vars, kernel
<1> QED
  BY <1>2, <1>3, <1>4, <1>5, <1>6, <1>7, <1>8 DEF Next, Worker, Waiter

LEMMA TypesAndEdges == Spec => [](TypeOK /\ EdgeStillThere)
  BY Start, TypeStep, EdgeStep, PTL DEF Spec

\* The variables keep their types, whatever the threads do.
THEOREM TypeCorrect == Spec => []TypeOK
  BY TypesAndEdges, PTL

\* An edge that a thread has sensed is there to be read, however the worker
\* reconfigures or gives up the line meanwhile.
THEOREM EdgesAreKept == Spec => []EdgeStillThere
  BY TypesAndEdges, PTL

LEMMA BufferStep ==
  ASSUME TypeOK, BufferHasWaiter, [Next]_vars
  PROVE  BufferHasWaiter'
<1> SUFFICES ASSUME NEW l \in Lines
             PROVE  chain'[l] = "device" <=> waiter'[l] \notin {"none", "done"}
  BY DEF BufferHasWaiter
<1> USE DEF TypeOK, Set
<1>1. chain[l] = "device" <=> waiter[l] \notin {"none", "done"}
  BY DEF BufferHasWaiter
<1>2. CASE UNCHANGED <<waiter, chain>>
  BY <1>1, <1>2
<1>3. ASSUME NEW m \in Lines, RefuseBuffer(m) \/ SpawnWaiter(m) \/ GuestBuffer(m)
      PROVE  chain'[l] = "device" <=> waiter'[l] \notin {"none", "done"}
  BY <1>1, <1>3 DEF RefuseBuffer, SpawnWaiter, GuestBuffer, TakeBuffer, HasHandle
<1>4. ASSUME NEW m \in Lines, Waiter(m) \/ Edge(m)
      PROVE  chain'[l] = "device" <=> waiter'[l] \notin {"none", "done"}
  BY <1>1, <1>4, ZenonT(60) DEF Waiter, CloneRequest, LockRequest, Timeout, WaitFails, SenseEdge, ReadEdge, Respond, Leave,
     Edge, Goto, guest
<1>5. Refuse \/ Begin \/ NeedRequest \/ UseRequest \/ ValueWithoutRequest \/ RequestLine
        \/ DropRequest \/ DisableIrq \/ IrqNotPossible \/ (\E r \in Requests : GuestRequest(r))
        \/ UNCHANGED vars
      => UNCHANGED <<waiter, chain>>
  BY DEF Refuse, Begin, NeedRequest, UseRequest, ValueWithoutRequest, RequestLine, DropRequest,
     DisableIrq, IrqNotPossible, GuestRequest, vars, guest
<1> QED
  BY <1>2, <1>3, <1>4, <1>5 DEF Next, Worker

\* The device has a buffer exactly while a thread is to give it back.
THEOREM BuffersReturn == Spec => []BufferHasWaiter
<1>1. Init => BufferHasWaiter
  BY DEF Init, BufferHasWaiter
<1> QED
  BY <1>1, BufferStep, TypeCorrect, PTL DEF Spec

\* All of it at once: types, sensed edges and buffers.
THEOREM GpioHolds == Spec => []GpioInv
<1>1. TypeOK /\ EdgeStillThere /\ BufferHasWaiter => GpioInv
  BY DEF GpioInv
<1> QED
  BY <1>1, TypeCorrect, EdgesAreKept, BuffersReturn, PTL

-----------------------------------------------------------------------------
\* A line has no buffer while its interrupt is disabled, but for the moment
\* in which the worker enables it, with the state's lock held.
BufferMeansEnabled ==
  \A l \in Lines : buffer[l] =>
    irq_type[l] = "edge" \/ (StateHeld(l) /\ worker.op = "IRQ_EDGE")

LEMMA EnabledStep ==
  ASSUME "IRQ_EDGE" \notin Failing, TypeOK, BufferMeansEnabled, [Next]_vars
  PROVE  BufferMeansEnabled'
<1> SUFFICES ASSUME NEW l \in Lines, buffer'[l]
             PROVE  irq_type'[l] = "edge" \/ (StateHeld(l)' /\ worker'.op = "IRQ_EDGE")
  BY DEF BufferMeansEnabled
<1> USE DEF TypeOK, Set, StateHeld
<1>1. buffer[l] => irq_type[l] = "edge" \/ (StateHeld(l) /\ worker.op = "IRQ_EDGE")
  BY DEF BufferMeansEnabled
<1>2. CASE UNCHANGED <<irq_type, buffer, worker>>
  BY <1>1, <1>2
<1>3. CASE Refuse \/ Begin \/ ValueWithoutRequest \/ RequestLine \/ DropRequest \/ IrqNotPossible
  BY <1>1, <1>3 DEF Refuse, Begin, ValueWithoutRequest, RequestLine, DropRequest, IrqNotPossible,
     Serve, Idle, control, phys
<1>4. CASE NeedRequest
  BY <1>1, <1>4 DEF NeedRequest, Serve, control
<1>5. CASE UseRequest
  <2>1. PICK ok \in Outcomes(worker.op) :
          irq_type' = IF ok /\ worker.op = "IRQ_EDGE" THEN Set(irq_type, worker.line, "edge") ELSE irq_type
    BY <1>5 DEF UseRequest
  <2>2. buffer[l] /\ (worker.op = "IRQ_EDGE" => ok)
    BY <1>5, <2>1 DEF UseRequest, phys, Outcomes
  <2>3. CASE worker.op = "IRQ_EDGE"
    BY <1>1, <2>1, <2>2, <2>3
  <2>4. CASE worker.op # "IRQ_EDGE"
    BY <1>1, <2>1, <2>2, <2>4
  <2> QED
    BY <2>3, <2>4
<1>6. CASE DisableIrq
  BY <1>1, <1>6 DEF DisableIrq, Serve
<1>7. ASSUME NEW m \in Lines, Waiter(m) \/ RefuseBuffer(m) \/ SpawnWaiter(m) \/ Edge(m) \/ GuestBuffer(m)
      PROVE  UNCHANGED <<irq_type, buffer, worker>>
  BY <1>7 DEF Waiter, CloneRequest, LockRequest, Timeout, WaitFails, SenseEdge, ReadEdge, Respond, Leave,
     RefuseBuffer, SpawnWaiter, Edge, GuestBuffer, control, phys
<1>8. (\E r \in Requests : GuestRequest(r)) \/ UNCHANGED vars => UNCHANGED <<irq_type, buffer, worker>>
  BY DEF GuestRequest, vars, control, phys
<1> QED
  BY <1>2, <1>3, <1>4, <1>5, <1>6, <1>7, <1>8 DEF Next, Worker

\* An interrupt that is reported is enabled at that moment, if libgpiod does
\* not fail to enable interrupts: the buffer that a failed one leaves would
\* let a thread of before report its edge.
THEOREM ReportedMeansEnabled ==
  ASSUME "IRQ_EDGE" \notin Failing
  PROVE  Spec => ValidMeansEnabled
<1> DEFINE Reported ==
      \A l \in Lines : waiter'[l] = "valid" /\ waiter[l] # "valid" => irq_type[l] = "edge"
<1>1. Init => BufferMeansEnabled
  BY DEF Init, BufferMeansEnabled
<1>2. TypeOK /\ BufferMeansEnabled /\ [Next]_vars => BufferMeansEnabled'
  BY EnabledStep
<1>3. TypeOK /\ BufferMeansEnabled /\ [Next]_vars => [Reported]_vars
  <2> SUFFICES ASSUME TypeOK, BufferMeansEnabled, Next, NEW l \in Lines,
                      waiter'[l] = "valid", waiter[l] # "valid"
               PROVE  irq_type[l] = "edge"
    OBVIOUS
  <2>1. ReadEdge(l)
    <3> USE DEF TypeOK, Set, Goto
    <3>1. waiter' # waiter
      OBVIOUS
    <3>2. ASSUME NEW m \in Lines, Waiter(m) \/ SpawnWaiter(m) PROVE ReadEdge(l)
      <4>1. ASSUME NEW to, waiter' = Set(waiter, m, to) PROVE m = l /\ to = "valid"
        BY <4>1
      <4>2. ASSUME ReadEdge(m) PROVE m = l
        BY <4>1, <4>2 DEF ReadEdge
      <4>3. ASSUME NEW to \in WaiterAt \ {"valid"} PROVE waiter' # Set(waiter, m, to)
        BY <4>1
      <4>4. ~ (CloneRequest(m) \/ LockRequest(m) \/ Timeout(m) \/ WaitFails(m))
        BY <4>3 DEF CloneRequest, LockRequest, Timeout, WaitFails, WaiterAt
      <4>5. ~ (SenseEdge(m) \/ Respond(m) \/ Leave(m) \/ SpawnWaiter(m))
        BY <4>3 DEF SenseEdge, Respond, Leave, SpawnWaiter, WaiterAt
      <4> QED
        BY <3>2, <4>2, <4>4, <4>5 DEF Waiter
    <3>3. ASSUME NEW m \in Lines, RefuseBuffer(m) \/ Edge(m) \/ GuestBuffer(m) PROVE waiter' = waiter
      BY <3>3 DEF RefuseBuffer, Edge, GuestBuffer
    <3>4. Refuse \/ Begin \/ NeedRequest \/ UseRequest \/ ValueWithoutRequest \/ RequestLine
            \/ DropRequest \/ DisableIrq \/ IrqNotPossible \/ (\E r \in Requests : GuestRequest(r))
          => waiter' = waiter
      BY DEF Refuse, Begin, NeedRequest, UseRequest, ValueWithoutRequest, RequestLine, DropRequest,
         DisableIrq, IrqNotPossible, GuestRequest
    <3> QED
      BY <3>1, <3>2, <3>3, <3>4 DEF Next, Worker
  <2>2. buffer[l] /\ ~StateHeld(l)
    BY <2>1 DEF ReadEdge, Goto, TypeOK, Set
  <2> QED
    BY <2>2 DEF BufferMeansEnabled
<1> QED
  BY <1>1, <1>2, <1>3, TypeCorrect, PTL DEF Spec, ValidMeansEnabled
=============================================================================
