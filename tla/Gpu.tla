---------------------------------- MODULE Gpu ----------------------------------
(***************************************************************************)
(* vhost-device-gpu: the vring thread runs the commands of the guest       *)
(* against an adapter (virgl.rs, gfxstream.rs, null.rs) that keeps a map   *)
(* of resources beside the one of the renderer library.  Fences, which     *)
(* share no state with this, are in GpuFence.                              *)
(*                                                                         *)
(* A command is the set of its outcomes: <<reply, state>> pairs, where the *)
(* reply is Ok, Err or panic.  Pixels, formats and iovecs are left out.    *)
(***************************************************************************)
EXTENDS Integers, FiniteSets

CONSTANTS
  GpuModes,      \* of {"virgl", "gfxstream", "null"}
  GpuResources,  \* resource ids, without 0
  GpuScanouts,   \* scanout ids below VIRTIO_GPU_MAX_SCANOUTS, without 99
  GpuContexts    \* context ids

ASSUME GpuAssumption == 0 \notin GpuResources /\ 99 \notin GpuScanouts

VARIABLES
  gpu_life,    \* off, serving (no adapter yet), up, or dead: the vring thread has ended
  gpu_conf,    \* mode, headless
  gpu_socket,  \* set_gpu_socket() gave a GpuBackend that was not taken yet
  gpu_st       \* the adapter and its renderer library

GpuVars == <<gpu_life, gpu_conf, gpu_socket, gpu_st>>

gpuEmpty == [display |-> FALSE, res |-> [r \in {} |-> {}], host |-> {}, backed |-> {}, kept |-> {},
             scanouts |-> [s \in GpuScanouts |-> 0], ctx |-> {}]

GpuInit ==
  /\ gpu_life = "off" /\ gpu_conf = [mode |-> "null", headless |-> TRUE]
  /\ gpu_socket = FALSE /\ gpu_st = gpuEmpty

-----------------------------------------------------------------------------
(* The commands.  res is the map of the adapter: the scanouts enabled on   *)
(* each resource; host, backed and ctx are what the library holds, kept    *)
(* the iovecs that the virgl adapter keeps alive for it.                   *)

gpuOk(st)    == <<"Ok", st>>
gpuErr(st)   == <<"Err", st>>
gpuPanic(st) == <<"panic", st>>
gpuMay(st)   == {gpuOk(st), gpuErr(st)}
gpuHas(st, r) == r \in DOMAIN st.res
gpuPut(st, r, scanouts) ==
  [x \in DOMAIN st.res \union {r} |-> IF x = r THEN scanouts ELSE st.res[x]]
gpuDrop(st, r) == [x \in DOMAIN st.res \ {r} |-> st.res[x]]

\* resource_create_3d(): the library refuses an id it knows.
GpuVirglCreate3d(st, r) ==
  {gpuErr(st)} \union
  (IF r = 0 \/ r \in st.host THEN {}
   ELSE {gpuOk([st EXCEPT !.host = @ \union {r}, !.res = gpuPut(st, r, {}), !.kept = @ \ {r}])})

\* ... and gfxstream answers with the planes of the new resource, if it can.
GpuGfxCreate3d(st, r) == GpuVirglCreate3d(st, r)

\* Mistake: the library's resource is freed, and the map keeps its own.
BugGpuVirglUnref(st, r) ==
  IF ~gpuHas(st, r) THEN {gpuErr(st)}
  ELSE {gpuOk([st EXCEPT !.host = @ \ {r}, !.backed = @ \ {r}])}

\* unref_resource(): the resource leaves the map first, and is then refused when a
\* scanout is enabled on it.
GpuVirglUnref(st, r) ==
  IF ~gpuHas(st, r) THEN {gpuErr(st)}
  ELSE LET gone == [st EXCEPT !.res = gpuDrop(st, r), !.kept = @ \ {r}]
       IN  IF st.res[r] # {} THEN {gpuErr(gone)}
           ELSE {gpuOk([gone EXCEPT !.host = @ \ {r}, !.backed = @ \ {r}])}

\* The same, but that the library may refuse what has left the map already.
GpuGfxUnref(st, r) ==
  GpuVirglUnref(st, r) \union
  (IF gpuHas(st, r) THEN {gpuErr([st EXCEPT !.res = gpuDrop(st, r), !.kept = @ \ {r}])} ELSE {})

\* attach_backing(): the library takes the iovecs, then the adapter looks
\* for its own resource to keep them alive.
GpuVirglAttach(st, r) ==
  {gpuErr(st)} \union
  (IF r \notin st.host THEN {}
   ELSE LET attached == [st EXCEPT !.backed = @ \union {r}]
        IN  IF gpuHas(st, r) THEN {gpuOk([attached EXCEPT !.kept = @ \union {r}])}
            ELSE {gpuErr(attached)})

GpuGfxAttach(st, r) ==
  {gpuErr(st)} \union
  (IF r \in st.host THEN {gpuOk([st EXCEPT !.backed = @ \union {r}, !.kept = @ \union {r}])} ELSE {})

GpuVirglDetach(st, r) ==
  {gpuOk([st EXCEPT !.backed = @ \ {r}, !.kept = IF gpuHas(st, r) THEN @ \ {r} ELSE @])}

GpuGfxDetach(st, r) ==
  IF r \in st.host THEN {gpuOk([st EXCEPT !.backed = @ \ {r}, !.kept = @ \ {r}])} ELSE {gpuErr(st)}

\* The resource that the scanout was for, when it is another, forgets it.
GpuDisableOld(st, s, r) ==
  LET old == st.scanouts[s]
  IN  IF old # r /\ gpuHas(st, old) THEN [st EXCEPT !.res[old] = @ \ {s}] ELSE st

\* common_set_scanout_disable()
GpuDisable(st, s) == [st EXCEPT !.scanouts[s] = 0]
GpuEnable(st, s, r) == [st EXCEPT !.res[r] = @ \union {s}, !.scanouts[s] = r]

\* VirglRendererAdapter::set_scanout(): without a dmabuf, or when the
\* frontend cannot be told, the old resource has lost the scanout already.
GpuVirglScanout(st, s, r) ==
  IF ~st.display THEN {gpuOk(st)}
  ELSE IF s \notin GpuScanouts THEN {gpuErr(st)}
  ELSE LET old == GpuDisableOld(st, s, r)
       IN  IF r = 0 THEN gpuMay(GpuDisable(old, s))
           ELSE IF ~gpuHas(st, r) THEN {gpuErr(old)}
           ELSE {gpuErr(old), gpuOk(GpuEnable(old, s, r))}

\* GfxstreamAdapter::set_scanout(): the id is an index nobody looks at, and
\* resource 0 leaves the scanout enabled on the resource it had.
GpuGfxScanout(st, s, r) ==
  IF ~st.display THEN {gpuOk(st)}
  ELSE IF s \notin GpuScanouts THEN {gpuPanic(st)}
  ELSE IF r = 0 THEN gpuMay(GpuDisable(st, s))
  ELSE LET old == GpuDisableOld(st, s, r)
       IN  IF ~gpuHas(st, r) THEN {gpuErr(old)}
           ELSE {gpuErr(old)} \union gpuMay(GpuEnable(old, s, r))

\* flush_resource(): an update for every scanout enabled on the resource.
GpuVirglFlush(st, r) ==
  IF ~st.display \/ r = 0 THEN {gpuOk(st)}
  ELSE IF ~gpuHas(st, r) THEN {gpuErr(st)} ELSE gpuMay(st)
\* ... with the pixels, which it may fail to read.
GpuGfxFlush(st, r) == GpuVirglFlush(st, r)

\* update_cursor(): a resource of 64 by 64 is read, and sent.
GpuSendCursor(st) == gpuMay(st)
GpuVirglCursor(st, r) ==
  IF ~st.display THEN {gpuOk(st)} ELSE IF ~gpuHas(st, r) THEN {gpuErr(st)} ELSE GpuSendCursor(st)
GpuGfxCursor(st, r) == GpuVirglCursor(st, r)

\* move_cursor(), display_info(), get_edid(): the frontend is asked.
GpuAskFrontend(st) == gpuMay(st)
GpuVirglFrontend(st) == IF st.display THEN GpuAskFrontend(st) ELSE {gpuOk(st)}
GpuGfxFrontend(st)   == GpuVirglFrontend(st)

\* transfer_write(), transfer_write_2d(), transfer_read(): the library is asked.
GpuVirglTransfer(st, r) == IF r \in st.host THEN gpuMay(st) ELSE {gpuErr(st)}
GpuGfxTransfer(st, r)   == GpuVirglTransfer(st, r)

\* resource_assign_uuid(), get_capset_info() and get_capset()
GpuVirglCaps(st, r) == IF gpuHas(st, r) THEN gpuMay(st) ELSE {gpuErr(st)}
GpuGfxCaps(st, r)   == GpuVirglCaps(st, r)

\* create_context() and destroy_context(): virgl keeps the ids itself.
GpuVirglCtxCreate(st, c) ==
  {gpuErr(st)} \union (IF c \in st.ctx THEN {} ELSE {gpuOk([st EXCEPT !.ctx = @ \union {c}])})
GpuVirglCtxDestroy(st, c) ==
  IF c \in st.ctx THEN {gpuOk([st EXCEPT !.ctx = @ \ {c}])} ELSE {gpuErr(st)}
GpuGfxCtxCreate(st, c)  == GpuVirglCtxCreate(st, c)
GpuGfxCtxDestroy(st, c) == GpuVirglCtxDestroy(st, c)

\* context_attach_resource(), context_detach_resource()
GpuVirglCtx(st, c, r) == IF c \in st.ctx /\ gpuHas(st, r) THEN {gpuOk(st)} ELSE {gpuErr(st)}
GpuGfxCtx(st, c, r)   == IF c \in st.ctx /\ r \in st.host THEN {gpuOk(st)} ELSE {gpuErr(st)}
GpuSubmit(st, c)      == IF c \in st.ctx THEN gpuMay(st) ELSE {gpuErr(st)}

\* The null adapter does nothing and says Ok.
GpuNull(st) == {gpuOk(st)}

\* handle_*(): a 2D command is the 3D one with a depth of 1, to context 0,
\* and a cursor that only moves is the frontend's.
GpuHandled ==
  [resource_create_2d |-> "create", resource_create_3d |-> "create",
   transfer_to_host_2d |-> "transfer", transfer_to_host_3d |-> "transfer",
   transfer_from_host_3d |-> "transfer", update_cursor |-> "cursor",
   move_cursor |-> "frontend", get_edid |-> "frontend", ctx_create |-> "ctxcreate"]
GpuHandledOps == {GpuHandled[h] : h \in DOMAIN GpuHandled}

\* The commands that decode() tells apart; "unknown" is what it refuses.
GpuCommands ==
  [op : {"unref", "attach", "detach", "flush", "caps"} \union (GpuHandledOps \ {"frontend", "ctxcreate"}),
   r : GpuResources, s : {0}, c : {0}]
  \union [op : {"scanout"}, r : GpuResources \union {0}, s : GpuScanouts \union {99}, c : {0}]
  \union [op : {"ctxcreate", "ctxdestroy", "submit", "ctxres"}, r : GpuResources, s : {0}, c : GpuContexts]
  \union [op : {"frontend", "blob", "unknown"}, r : {0}, s : {0}, c : {0}]

GpuVirgl(st, m) ==
  CASE m.op = "create"     -> GpuVirglCreate3d(st, m.r)
    [] m.op = "unref"      -> GpuVirglUnref(st, m.r)
    [] m.op = "attach"     -> GpuVirglAttach(st, m.r)
    [] m.op = "detach"     -> GpuVirglDetach(st, m.r)
    [] m.op = "scanout"    -> GpuVirglScanout(st, m.s, m.r)
    [] m.op = "flush"      -> GpuVirglFlush(st, m.r)
    [] m.op = "cursor"     -> GpuVirglCursor(st, m.r)
    [] m.op = "transfer"   -> GpuVirglTransfer(st, m.r)
    [] m.op = "caps"       -> GpuVirglCaps(st, m.r)
    [] m.op = "frontend"   -> GpuVirglFrontend(st)
    [] m.op = "ctxcreate"  -> GpuVirglCtxCreate(st, m.c)
    [] m.op = "ctxdestroy" -> GpuVirglCtxDestroy(st, m.c)
    [] m.op = "ctxres"     -> GpuVirglCtx(st, m.c, m.r)
    [] m.op = "submit"     -> GpuSubmit(st, m.c)

GpuGfx(st, m) ==
  CASE m.op = "create"     -> GpuGfxCreate3d(st, m.r)
    [] m.op = "unref"      -> GpuGfxUnref(st, m.r)
    [] m.op = "attach"     -> GpuGfxAttach(st, m.r)
    [] m.op = "detach"     -> GpuGfxDetach(st, m.r)
    [] m.op = "scanout"    -> GpuGfxScanout(st, m.s, m.r)
    [] m.op = "flush"      -> GpuGfxFlush(st, m.r)
    [] m.op = "cursor"     -> GpuGfxCursor(st, m.r)
    [] m.op = "transfer"   -> GpuGfxTransfer(st, m.r)
    [] m.op = "caps"       -> GpuGfxCaps(st, m.r)
    [] m.op = "frontend"   -> GpuGfxFrontend(st)
    [] m.op = "ctxcreate"  -> GpuGfxCtxCreate(st, m.c)
    [] m.op = "ctxdestroy" -> GpuGfxCtxDestroy(st, m.c)
    [] m.op = "ctxres"     -> GpuGfxCtx(st, m.c, m.r)
    [] m.op = "submit"     -> GpuSubmit(st, m.c)

\* process_gpu_command(): the blob commands panic with the lock held.
GpuOutcomes(mode, st, m) ==
  IF m.op = "unknown" THEN {gpuErr(st)}
  ELSE IF m.op = "blob" THEN {gpuPanic(st)}
  ELSE CASE mode = "null"  -> GpuNull(st)
         [] mode = "virgl" -> GpuVirgl(st, m)
         [] OTHER          -> GpuGfx(st, m)

\* encode(): a response that does not fit is the end of the thread.
GpuEncode(reply) == IF reply = "panic" THEN {"dead"} ELSE {"up", "dead"}

-----------------------------------------------------------------------------
(* The daemon.                                                             *)

\* GpuConfigBuilder::build()
GpuSupported(mode) ==
  CASE mode = "virgl" -> {"virgl", "virgl2"}
    [] mode = "gfxstream" -> {"gfxstream-vulkan", "gfxstream-gles"}
    [] mode = "null" -> {}
GpuArgs ==
  [mode : GpuModes, headless : BOOLEAN, gles : BOOLEAN, device : BOOLEAN,
   capsets : SUBSET UNION {GpuSupported(m) : m \in GpuModes}]
GpuBuild(a) ==
  /\ a.capsets \subseteq GpuSupported(a.mode)
  /\ "gfxstream-gles" \in a.capsets => a.gles
  /\ a.device => a.mode = "virgl"

\* main() and start_backend()
GpuStart ==
  /\ gpu_life = "off"
  /\ \E a \in GpuArgs :
       GpuBuild(a) /\ gpu_conf' = [mode |-> a.mode, headless |-> a.headless]
  /\ gpu_life' = "serving"
  /\ UNCHANGED <<gpu_socket, gpu_st>>

\* set_gpu_socket(); what comes after the first event is never looked at.
GpuSetSocket ==
  /\ gpu_life \in {"serving", "up"} /\ ~gpu_socket
  /\ gpu_socket' = TRUE
  /\ UNCHANGED <<gpu_life, gpu_conf, gpu_st>>

\* extract_backend_and_vring()
GpuMayInit == gpu_conf.headless \/ gpu_socket

\* lazy_init_and_handle_event(): an error, of the library too, is the end of
\* the vring thread.
GpuFirstEvent ==
  /\ gpu_life = "serving"
  /\ gpu_socket' = FALSE
  /\ \/ GpuMayInit /\ gpu_life' = "up" /\ gpu_st' = [gpu_st EXCEPT !.display = gpu_socket]
     \/ gpu_life' = "dead" /\ UNCHANGED gpu_st
  /\ UNCHANGED gpu_conf

\* process_queue_chain() for a command without a fence, or without room for
\* a response; one that is too small for the response is an error of encode().
GpuCommand(m) ==
  /\ gpu_life = "up"
  /\ \E o \in GpuOutcomes(gpu_conf.mode, gpu_st, m) :
       /\ gpu_st' = o[2]
       /\ gpu_life' \in GpuEncode(o[1])
  /\ UNCHANGED <<gpu_conf, gpu_socket>>

GpuNext ==
  \/ GpuStart \/ GpuSetSocket \/ GpuFirstEvent
  \/ \E m \in GpuCommands : GpuCommand(m)

GpuSpec == GpuInit /\ [][GpuNext]_GpuVars

-----------------------------------------------------------------------------
GpuTypeOK ==
  /\ gpu_life \in {"off", "serving", "up", "dead"} /\ gpu_socket \in BOOLEAN
  /\ DOMAIN gpu_st.res \subseteq GpuResources /\ gpu_st.ctx \subseteq GpuContexts
  /\ \A r \in DOMAIN gpu_st.res : gpu_st.res[r] \subseteq GpuScanouts
  /\ gpu_st.scanouts \in [GpuScanouts -> GpuResources \union {0}]

\* What the adapter thinks exists does exist in the library: no id can be
\* in the map when a new resource is created (the debug_assert of gfxstream.rs).
GpuMapInHost == DOMAIN gpu_st.res \subseteq gpu_st.host

\* On virgl no two resources are enabled for one scanout, and the one that
\* is, is the one the scanout is for: no flush draws over another's picture.
GpuOnePicture ==
  gpu_conf.mode = "virgl" =>
    \A r \in DOMAIN gpu_st.res : \A s \in gpu_st.res[r] : gpu_st.scanouts[s] = r

\* The adapter's map against the library's resources (virgl.rs, gfxstream.rs).
GpuInv == GpuTypeOK /\ GpuMapInHost /\ GpuOnePicture

\* "refuse to disable the resource. This keeps the internal state of the
\* gpu device and the fronted consistent": a resource of the library is in the map.
GpuRefusedKeeps == gpu_st.host \subseteq DOMAIN gpu_st.res

=============================================================================
