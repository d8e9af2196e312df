-------------------------------- MODULE GpuFence --------------------------------
(***************************************************************************)
(* The fences of vhost-device-gpu: the vring thread holds the descriptor   *)
(* of a fenced command back (process_queue_chain, common_process_fence)    *)
(* until the renderer library tells, on a thread of its own, that the      *)
(* fence is complete (the fence handlers of virgl.rs and gfxstream.rs).    *)
(* What a command does is in Gpu.  Fence ids rise, as a driver's do.       *)
(***************************************************************************)
EXTENDS Integers, Gpu

CONSTANTS
  GpuFenceModes, \* of {"virgl", "gfxstream", "null"}
  GpuFences      \* bound: fenced commands

ASSUME GpuFenceAssumption ==
  GpuFences \in Nat /\ GpuFenceModes \subseteq {"virgl", "gfxstream", "null"}

VARIABLES
  gpu_mode,      \* the mode, or none until the first event
  gpu_alive,     \* the vring thread has not ended
  gpu_fence,     \* the fenced command between create_fence and process_fence
  gpu_last,      \* the last fence id used
  gpu_pending,   \* the fences the library has to signal
  gpu_descs,     \* fence_state.descs
  gpu_completed, \* fence_state.completed_fences
  gpu_used       \* history: the fenced descriptors put into the used ring last

GpuFenceVars ==
  <<gpu_mode, gpu_alive, gpu_fence, gpu_last, gpu_pending, gpu_descs, gpu_completed, gpu_used>>

GpuRings == {"global", "ctx0", "ctx1"}

GpuFenceInit ==
  /\ gpu_mode = "none" /\ gpu_alive = FALSE
  /\ gpu_fence = {} /\ gpu_last = 0 /\ gpu_pending = {} /\ gpu_descs = {}
  /\ gpu_completed = [ring \in GpuRings |-> 0] /\ gpu_used = {}

\* The adapter is made on the first event.
GpuAdapter(mode) ==
  /\ gpu_mode = "none"
  /\ gpu_mode' = mode /\ gpu_alive' = TRUE
  /\ UNCHANGED <<gpu_fence, gpu_last, gpu_pending, gpu_descs, gpu_completed, gpu_used>>

\* The ring a fence is for: process_queue_chain() goes by the flag.
GpuRing(flag, idx) == IF ~flag THEN "global" ELSE IF idx = 0 THEN "ctx0" ELSE "ctx1"

\* process_queue_chain() for a fenced command up to create_fence(), whose
\* error becomes the response; the command itself is of no account here.
GpuCreateFence(flag, idx) ==
  /\ gpu_alive /\ gpu_fence = {} /\ gpu_last < GpuFences
  /\ gpu_last' = gpu_last + 1
  /\ \E made \in BOOLEAN :
       LET f == [id |-> gpu_last + 1, flag |-> flag, idx |-> idx, made |-> made]
       IN  /\ gpu_fence' = {f}
           /\ gpu_pending' = IF made /\ gpu_mode # "null" THEN gpu_pending \union {f} ELSE gpu_pending
  /\ UNCHANGED <<gpu_mode, gpu_alive, gpu_descs, gpu_completed, gpu_used>>

\* encode() and common_process_fence(), under the lock of fence_state: the
\* descriptor waits unless its fence is complete.
GpuProcessFence ==
  /\ gpu_fence # {}
  /\ LET f == CHOOSE f \in gpu_fence : TRUE
     IN  IF gpu_mode # "null" /\ f.id > gpu_completed[GpuRing(f.flag, f.idx)]
         THEN gpu_descs' = gpu_descs \union {f} /\ UNCHANGED gpu_used
         ELSE gpu_used' = {f} /\ UNCHANGED gpu_descs
  /\ gpu_fence' = {}
  /\ UNCHANGED <<gpu_mode, gpu_alive, gpu_last, gpu_pending, gpu_completed>>

\* The response does not fit: neither descriptor nor thread come back.
GpuEncodeFails ==
  /\ gpu_fence # {}
  /\ gpu_fence' = {} /\ gpu_alive' = FALSE
  /\ UNCHANGED <<gpu_mode, gpu_last, gpu_pending, gpu_descs, gpu_completed, gpu_used>>

\* The ring that a fence handler tells.  gfxstream hands its library the fence
\* with flag and ring index, and gets them back; virgl's create_fence() passes on
\* an id and a context only, and the library (external) tells of such a fence with
\* ring index 0.
GpuGfxRing(f) == GpuRing(f.flag, f.idx)
GpuTold(f) == IF gpu_mode = "virgl" THEN "global" ELSE GpuGfxRing(f)

\* The library signals the oldest fence of a ring (external), and the
\* handler returns every descriptor up to it.
GpuSignal(f) ==
  /\ f \in gpu_pending
  /\ \A g \in gpu_pending : GpuTold(g) = GpuTold(f) => f.id <= g.id
  /\ LET done == {d \in gpu_descs : GpuRing(d.flag, d.idx) = GpuTold(f) /\ d.id <= f.id}
     IN  gpu_descs' = gpu_descs \ done /\ gpu_used' = done
  /\ gpu_completed' = [gpu_completed EXCEPT ![GpuTold(f)] = f.id]
  /\ gpu_pending' = gpu_pending \ {f}
  /\ UNCHANGED <<gpu_mode, gpu_alive, gpu_fence, gpu_last>>

GpuFenceNext ==
  \/ \E mode \in GpuFenceModes : GpuAdapter(mode)
  \/ \E flag \in BOOLEAN, idx \in 0 .. 1 : GpuCreateFence(flag, idx)
  \/ GpuProcessFence \/ GpuEncodeFails
  \/ \E f \in gpu_pending : GpuSignal(f)

GpuFenceSpec == GpuFenceInit /\ [][GpuFenceNext]_GpuFenceVars

-----------------------------------------------------------------------------
GpuFenceTypeOK ==
  /\ gpu_mode \in GpuFenceModes \union {"none"} /\ gpu_alive \in BOOLEAN
  /\ gpu_last \in 0 .. GpuFences /\ gpu_completed \in [GpuRings -> 0 .. GpuFences]
  /\ gpu_fence \union gpu_pending \union gpu_descs \union gpu_used
       \subseteq [id : 1 .. gpu_last, flag : BOOLEAN, idx : 0 .. 1, made : BOOLEAN]

\* A fenced descriptor goes back once the library has signalled a fence of
\* its ring that is not older, and not before.
GpuNotEarly ==
  gpu_mode # "null" =>
    \A f \in gpu_used : f.id <= gpu_completed[GpuRing(f.flag, f.idx)]

\* The fence of a descriptor that waits is still to be signalled, whatever
\* comes between create_fence and process_fence.  Stranded is the descriptor of
\* a fence that could not be created, and with virgl that of every fence of a
\* context, for the library tells of it as a fence of the global ring.
GpuStranded(f) == ~f.made \/ (gpu_mode = "virgl" /\ f.flag)
GpuStillToCome == \A f \in gpu_descs : GpuStranded(f) \/ f \in gpu_pending

\* A descriptor is in one place.
GpuOnce == gpu_descs \intersect gpu_used = {} /\ gpu_fence \intersect (gpu_descs \union gpu_used) = {}

\* A fenced descriptor is returned after its fence, and once, and one that is
\* not stranded has its fence to come (common.rs).
GpuFenceInv == GpuFenceTypeOK /\ GpuNotEarly /\ GpuStillToCome /\ GpuOnce

\* What the two modules of the GPU promise: the adapter's map against the
\* renderer library, and the fences of its vring thread (virgl.rs, gfxstream.rs, common.rs).
GpuBothInv == GpuInv /\ GpuFenceInv

\* What does not hold: that no descriptor waits for ever.
GpuNoneStranded == \A f \in gpu_descs : f \in gpu_pending

=============================================================================
