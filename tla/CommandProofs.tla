------------------------------- MODULE CommandProofs -------------------------------
(***************************************************************************)
(* The devices that answer the guest's commands from tables of their own:  *)
(* gpu, for any resources, scanouts, contexts and commands, and any number *)
(* of fences in every mode; scsi, for any images and requests and any      *)
(* chain of descriptors; scmi, for any sensors, requests and buffers.      *)
(*                                                                         *)
(* The map of gpu: each command is a set of outcomes, and no outcome, an   *)
(* error among them, leaves a resource in the map that the library does    *)
(* not hold.  On virgl a scanout is taken from the resource that had it before *)
(* it is given to another, so of two resources one at most is enabled for  *)
(* it; gfxstream is not promised that, and may break it.                   *)
(*                                                                         *)
(* The fences: a descriptor is not returned early, is not left behind and  *)
(* is in one place.  What makes it inductive is the race between           *)
(* create_fence() and process_fence(): the fence of the command in hand is *)
(* pending or already counted as complete, and what is complete in a ring  *)
(* only grows, as its fences are signalled in the order of their ids.      *)
(*                                                                         *)
(* SCSI: whatever the command, an outcome of it leaves in a unit what the  *)
(* guest may expect of it, and on the disk what it may expect after a loss *)
(* of power. Its answer is in the chain where the guest looks for it,      *)
(* because each of two writers is at the byte that it counts itself to be  *)
(* at, however the chain is cut. SCMI: whatever the request, and whichever *)
(* writes to the host's files fail, the answer tells what has become of    *)
(* the sensor.                                                             *)
(***************************************************************************)
EXTENDS GpuFence, ScsiChain, Scmi, SequenceTheorems, FiniteSetTheorems, TLAPS

-----------------------------------------------------------------------------
(* The adapter's map, Gpu.                                                 *)

\* A state of the adapter and the library, with every resource of the map in
\* the library.
GpuStates ==
  [display : BOOLEAN, res : UNION {[D -> SUBSET GpuScanouts] : D \in SUBSET GpuResources},
   host : SUBSET GpuResources, backed : SUBSET GpuResources, kept : SUBSET GpuResources,
   scanouts : [GpuScanouts -> GpuResources \cup {0}], ctx : SUBSET GpuContexts]

GpuSound(st) == st \in GpuStates /\ DOMAIN st.res \subseteq st.host

\* No two resources are enabled for one scanout.
GpuOne(st) == \A r \in DOMAIN st.res : \A s \in st.res[r] : st.scanouts[s] = r

\* Outcomes that keep both.
GpuKeeps(st, outcomes) == \A o \in outcomes : GpuSound(o[2]) /\ (GpuOne(st) => GpuOne(o[2]))

\* What a sound state is made of.
LEMMA GpuParts ==
  ASSUME NEW st, GpuSound(st)
  PROVE  /\ st.res = [x \in DOMAIN st.res |-> st.res[x]] /\ DOMAIN st.res \subseteq GpuResources
         /\ \A x \in DOMAIN st.res : st.res[x] \subseteq GpuScanouts
         /\ st.host \subseteq GpuResources /\ st.scanouts \in [GpuScanouts -> GpuResources \cup {0}]
         /\ DOMAIN st.res \subseteq st.host
<1>1. PICK D \in SUBSET GpuResources : st.res \in [D -> SUBSET GpuScanouts]
  BY DEF GpuSound, GpuStates
<1> QED
  BY <1>1 DEF GpuSound, GpuStates

\* The map is replaced by another one.
LEMMA GpuMaps ==
  ASSUME NEW m, m = [x \in DOMAIN m |-> m[x]], DOMAIN m \subseteq GpuResources,
         \A x \in DOMAIN m : m[x] \subseteq GpuScanouts
  PROVE  m \in UNION {[D -> SUBSET GpuScanouts] : D \in SUBSET GpuResources}
<1>1. m \in [DOMAIN m -> SUBSET GpuScanouts] /\ DOMAIN m \in SUBSET GpuResources
  OBVIOUS
<1> QED
  BY <1>1

LEMMA GpuCreateKeeps ==
  ASSUME NEW st, GpuSound(st), NEW r \in GpuResources
  PROVE  GpuKeeps(st, GpuVirglCreate3d(st, r))
<1> DEFINE m == gpuPut(st, r, {})
           t == [st EXCEPT !.host = @ \union {r}, !.res = m, !.kept = @ \ {r}]
<1>1. /\ DOMAIN m = DOMAIN st.res \cup {r} /\ m[r] = {}
      /\ \A x \in DOMAIN st.res : x # r => m[x] = st.res[x]
      /\ m = [x \in DOMAIN m |-> m[x]]
  BY DEF gpuPut
<1>2. GpuVirglCreate3d(st, r) \subseteq {gpuErr(st), gpuOk(t)}
  BY DEF GpuVirglCreate3d
<1> HIDE DEF m
<1>3. m \in UNION {[D -> SUBSET GpuScanouts] : D \in SUBSET GpuResources}
  <2>1. DOMAIN m \subseteq GpuResources /\ \A x \in DOMAIN m : m[x] \subseteq GpuScanouts
    BY <1>1, GpuParts
  <2> QED
    BY <1>1, <2>1, GpuMaps
<1>4. /\ t \in GpuStates /\ t.res = m /\ t.host = st.host \cup {r} /\ t.scanouts = st.scanouts
  BY <1>3 DEF GpuSound, GpuStates
<1> HIDE DEF t
<1>5. GpuSound(t)
  BY <1>1, <1>4 DEF GpuSound
<1>6. GpuOne(st) => GpuOne(t)
  BY <1>1, <1>4 DEF GpuOne
<1> QED
  BY <1>2, <1>5, <1>6 DEF GpuKeeps, gpuErr, gpuOk

LEMMA GpuUnrefKeeps ==
  ASSUME NEW st, GpuSound(st), NEW r \in GpuResources
  PROVE  GpuKeeps(st, GpuVirglUnref(st, r)) /\ GpuKeeps(st, GpuGfxUnref(st, r))
<1> DEFINE m == gpuDrop(st, r)
           gone == [st EXCEPT !.res = m, !.kept = @ \ {r}]
           t == [gone EXCEPT !.host = @ \ {r}, !.backed = @ \ {r}]
<1>1. /\ DOMAIN m = DOMAIN st.res \ {r}
      /\ \A x \in DOMAIN st.res : x # r => m[x] = st.res[x]
      /\ m = [x \in DOMAIN m |-> m[x]]
  BY DEF gpuDrop
<1>2. /\ GpuVirglUnref(st, r) \subseteq {gpuErr(st), gpuErr(gone), gpuOk(t)}
      /\ GpuGfxUnref(st, r) \subseteq {gpuErr(st), gpuErr(gone), gpuOk(t)}
  BY DEF GpuVirglUnref, GpuGfxUnref
<1> HIDE DEF m
<1>3. m \in UNION {[D -> SUBSET GpuScanouts] : D \in SUBSET GpuResources}
  <2>1. DOMAIN m \subseteq GpuResources /\ \A x \in DOMAIN m : m[x] \subseteq GpuScanouts
    BY <1>1, GpuParts
  <2> QED
    BY <1>1, <2>1, GpuMaps
<1>4. gone \in GpuStates /\ gone.res = m /\ gone.host = st.host /\ gone.scanouts = st.scanouts
  BY <1>3 DEF GpuSound, GpuStates
<1> HIDE DEF gone
<1>5. t \in GpuStates /\ t.res = m /\ t.host = st.host \ {r} /\ t.scanouts = st.scanouts
  BY <1>4 DEF GpuStates
<1> HIDE DEF t
<1>6. GpuSound(gone) /\ GpuSound(t)
  BY <1>1, <1>4, <1>5 DEF GpuSound
<1>7. GpuOne(st) => GpuOne(gone) /\ GpuOne(t)
  BY <1>1, <1>4, <1>5 DEF GpuOne
<1> QED
  BY <1>2, <1>6, <1>7 DEF GpuKeeps, gpuErr, gpuOk

\* Commands that leave the map and the scanouts as they are.
LEMMA GpuBesides ==
  ASSUME NEW st, GpuSound(st), NEW t, t \in GpuStates, t.res = st.res, t.host = st.host, t.scanouts = st.scanouts
  PROVE  GpuSound(t) /\ (GpuOne(st) => GpuOne(t))
BY DEF GpuSound, GpuOne

LEMMA GpuBackingKeeps ==
  ASSUME NEW st, GpuSound(st), NEW r \in GpuResources
  PROVE  /\ GpuKeeps(st, GpuVirglAttach(st, r)) /\ GpuKeeps(st, GpuGfxAttach(st, r))
         /\ GpuKeeps(st, GpuVirglDetach(st, r)) /\ GpuKeeps(st, GpuGfxDetach(st, r))
<1>1. ASSUME NEW b \in SUBSET GpuResources, NEW k \in SUBSET GpuResources
      PROVE  LET t == [st EXCEPT !.backed = b, !.kept = k] IN GpuSound(t) /\ (GpuOne(st) => GpuOne(t))
  <2> DEFINE t == [st EXCEPT !.backed = b, !.kept = k]
  <2>1. t \in GpuStates /\ t.res = st.res /\ t.host = st.host /\ t.scanouts = st.scanouts
    BY DEF GpuSound, GpuStates
  <2> HIDE DEF t
  <2>2. GpuSound(t) /\ (GpuOne(st) => GpuOne(t))
    BY <2>1, GpuBesides
  <2> QED
    BY <2>2 DEF t
<1>2. ASSUME NEW b \in SUBSET GpuResources
      PROVE  LET t == [st EXCEPT !.backed = b] IN GpuSound(t) /\ (GpuOne(st) => GpuOne(t))
  <2> DEFINE t == [st EXCEPT !.backed = b]
  <2>1. t \in GpuStates /\ t.res = st.res /\ t.host = st.host /\ t.scanouts = st.scanouts
    BY DEF GpuSound, GpuStates
  <2> HIDE DEF t
  <2>2. GpuSound(t) /\ (GpuOne(st) => GpuOne(t))
    BY <2>1, GpuBesides
  <2> QED
    BY <2>2 DEF t
<1>3. /\ st.backed \cup {r} \in SUBSET GpuResources /\ st.backed \ {r} \in SUBSET GpuResources
      /\ st.kept \cup {r} \in SUBSET GpuResources /\ st.kept \ {r} \in SUBSET GpuResources
      /\ st.kept \in SUBSET GpuResources
  BY DEF GpuSound, GpuStates
<1>4. GpuKeeps(st, GpuVirglAttach(st, r))
  <2> DEFINE t == [st EXCEPT !.backed = @ \union {r}]
             u == [t EXCEPT !.kept = @ \union {r}]
  <2>1. u = [st EXCEPT !.backed = @ \union {r}, !.kept = @ \union {r}]
    BY DEF GpuSound, GpuStates
  <2>2. GpuSound(t) /\ (GpuOne(st) => GpuOne(t))
    BY <1>2, <1>3
  <2>3. GpuSound(u) /\ (GpuOne(st) => GpuOne(u))
    BY <1>1, <1>3, <2>1
  <2>4. GpuVirglAttach(st, r) \subseteq {gpuErr(st), gpuOk(u), gpuErr(t)}
    BY DEF GpuVirglAttach
  <2> HIDE DEF t, u
  <2> QED
    BY <2>2, <2>3, <2>4 DEF GpuKeeps, gpuErr, gpuOk
<1>5. GpuKeeps(st, GpuGfxAttach(st, r))
  <2> DEFINE t == [st EXCEPT !.backed = @ \union {r}, !.kept = @ \union {r}]
  <2>1. GpuSound(t) /\ (GpuOne(st) => GpuOne(t))
    BY <1>1, <1>3
  <2>2. GpuGfxAttach(st, r) \subseteq {gpuErr(st), gpuOk(t)}
    BY DEF GpuGfxAttach
  <2> HIDE DEF t
  <2> QED
    BY <2>1, <2>2 DEF GpuKeeps, gpuErr, gpuOk
<1>6. ASSUME NEW k \in SUBSET GpuResources
      PROVE  LET t == [st EXCEPT !.backed = @ \ {r}, !.kept = k] IN GpuSound(t) /\ (GpuOne(st) => GpuOne(t))
  BY <1>1, <1>3, <1>6
<1>7. GpuKeeps(st, GpuVirglDetach(st, r))
  <2> DEFINE k == IF gpuHas(st, r) THEN st.kept \ {r} ELSE st.kept
             t == [st EXCEPT !.backed = @ \ {r}, !.kept = k]
  <2>1. GpuVirglDetach(st, r) = {gpuOk(t)}
    BY DEF GpuVirglDetach
  <2>2. k \in SUBSET GpuResources
    BY <1>3
  <2> HIDE DEF k
  <2>3. GpuSound(t) /\ (GpuOne(st) => GpuOne(t))
    BY <1>6, <2>2
  <2> HIDE DEF t
  <2> QED
    BY <2>1, <2>3 DEF GpuKeeps, gpuOk
<1>8. GpuKeeps(st, GpuGfxDetach(st, r))
  <2> DEFINE t == [st EXCEPT !.backed = @ \ {r}, !.kept = @ \ {r}]
  <2>1. GpuSound(t) /\ (GpuOne(st) => GpuOne(t))
    BY <1>6, <1>3
  <2>2. GpuGfxDetach(st, r) \subseteq {gpuErr(st), gpuOk(t)}
    BY DEF GpuGfxDetach
  <2> HIDE DEF t
  <2> QED
    BY <2>1, <2>2 DEF GpuKeeps, gpuErr, gpuOk
<1> QED
  BY <1>4, <1>5, <1>7, <1>8

LEMMA GpuContextsKeep ==
  ASSUME NEW st, GpuSound(st), NEW c \in GpuContexts
  PROVE  GpuKeeps(st, GpuVirglCtxCreate(st, c)) /\ GpuKeeps(st, GpuVirglCtxDestroy(st, c))
<1> DEFINE t == [st EXCEPT !.ctx = @ \union {c}]
           u == [st EXCEPT !.ctx = @ \ {c}]
<1>1. /\ t \in GpuStates /\ t.res = st.res /\ t.host = st.host /\ t.scanouts = st.scanouts
      /\ u \in GpuStates /\ u.res = st.res /\ u.host = st.host /\ u.scanouts = st.scanouts
  BY DEF GpuSound, GpuStates
<1>2. /\ GpuVirglCtxCreate(st, c) \subseteq {gpuErr(st), gpuOk(t)}
      /\ GpuVirglCtxDestroy(st, c) \subseteq {gpuErr(st), gpuOk(u)}
  BY DEF GpuVirglCtxCreate, GpuVirglCtxDestroy
<1> HIDE DEF t, u
<1>3. /\ GpuSound(t) /\ (GpuOne(st) => GpuOne(t))
      /\ GpuSound(u) /\ (GpuOne(st) => GpuOne(u))
  BY <1>1, GpuBesides
<1> QED
  BY <1>2, <1>3 DEF GpuKeeps, gpuErr, gpuOk

\* The scanout is taken from the resource it was enabled on, if that is another.
LEMMA GpuOldDisabled ==
  ASSUME NEW st, GpuSound(st), NEW s \in GpuScanouts, NEW r \in GpuResources \cup {0},
         NEW old, old = GpuDisableOld(st, s, r)
  PROVE  /\ GpuSound(old) /\ old.host = st.host /\ old.scanouts = st.scanouts
         /\ DOMAIN old.res = DOMAIN st.res
         /\ GpuOne(st) => GpuOne(old) /\ \A x \in DOMAIN old.res : s \in old.res[x] => x = r
<1> DEFINE was == st.scanouts[s]
           m == [st.res EXCEPT ![was] = @ \ {s}]
           t == [st EXCEPT !.res = m]
<1>1. CASE was # r /\ gpuHas(st, was)
  <2>1. old = t
    <3>1. old = [st EXCEPT !.res[was] = @ \ {s}]
      BY <1>1 DEF GpuDisableOld
    <3> QED
      BY <3>1 DEF GpuSound, GpuStates
  <2>2. /\ DOMAIN m = DOMAIN st.res /\ m[was] = st.res[was] \ {s}
        /\ \A x \in DOMAIN st.res : x # was => m[x] = st.res[x]
        /\ m = [x \in DOMAIN m |-> m[x]]
    <3>1. st.res = [x \in DOMAIN st.res |-> st.res[x]] /\ was \in DOMAIN st.res
      BY <1>1, GpuParts DEF gpuHas
    <3> HIDE DEF was
    <3> QED
      BY <3>1
  <2> HIDE DEF m
  <2>3. m \in UNION {[D -> SUBSET GpuScanouts] : D \in SUBSET GpuResources}
    <3>1. DOMAIN m \subseteq GpuResources /\ \A x \in DOMAIN m : m[x] \subseteq GpuScanouts
      BY <2>2, GpuParts
    <3> QED
      BY <2>2, <3>1, GpuMaps
  <2>4. t \in GpuStates /\ t.res = m /\ t.host = st.host /\ t.scanouts = st.scanouts
    BY <2>3 DEF GpuSound, GpuStates
  <2> HIDE DEF t
  <2>5. GpuSound(t)
    BY <2>2, <2>4 DEF GpuSound
  <2>6. ASSUME GpuOne(st), NEW x \in DOMAIN m, NEW z \in m[x]
        PROVE  st.scanouts[z] = x /\ (z = s => x = r)
    BY <2>2, <2>6 DEF GpuOne, was
  <2> QED
    BY <2>1, <2>2, <2>4, <2>5, <2>6 DEF GpuOne
<1>2. CASE ~(was # r /\ gpuHas(st, was))
  <2>1. old = st
    BY <1>2 DEF GpuDisableOld
  <2>2. ASSUME GpuOne(st), NEW x \in DOMAIN st.res, s \in st.res[x] PROVE x = r
    BY <1>2, <2>2 DEF GpuOne, gpuHas, was
  <2> QED
    BY <2>1, <2>2
<1> QED
  BY <1>1, <1>2

LEMMA GpuDisabled ==
  ASSUME NEW st, GpuSound(st), NEW s \in GpuScanouts
  PROVE  /\ GpuSound(GpuDisable(st, s))
         /\ GpuOne(st) /\ (\A x \in DOMAIN st.res : s \notin st.res[x]) => GpuOne(GpuDisable(st, s))
<1> DEFINE t == [st EXCEPT !.scanouts[s] = 0]
<1>0. \A x \in DOMAIN st.res : st.res[x] \subseteq GpuScanouts
  BY GpuParts
<1>1. /\ t \in GpuStates /\ t.res = st.res /\ t.host = st.host
      /\ \A z \in GpuScanouts : z # s => t.scanouts[z] = st.scanouts[z]
  BY DEF GpuSound, GpuStates
<1> HIDE DEF t
<1>2. GpuSound(t)
  BY <1>1 DEF GpuSound
<1>3. ASSUME GpuOne(st), \A x \in DOMAIN st.res : s \notin st.res[x] PROVE GpuOne(t)
  <2>1. ASSUME NEW x \in DOMAIN st.res, NEW z \in st.res[x] PROVE t.scanouts[z] = x
    <3>1. z \in GpuScanouts
      BY <1>0, <2>1
    <3>2. st.scanouts[z] = x /\ z # s
      BY <1>3, <2>1 DEF GpuOne
    <3> QED
      BY <1>1, <3>1, <3>2
  <2> QED
    BY <1>1, <2>1 DEF GpuOne
<1>4. GpuDisable(st, s) = t
  BY DEF GpuDisable, t
<1> QED
  BY <1>2, <1>3, <1>4

LEMMA GpuEnabled ==
  ASSUME NEW st, GpuSound(st), NEW s \in GpuScanouts, NEW r \in DOMAIN st.res
  PROVE  /\ GpuSound(GpuEnable(st, s, r))
         /\ GpuOne(st) /\ (\A x \in DOMAIN st.res : s \in st.res[x] => x = r) => GpuOne(GpuEnable(st, s, r))
<1> DEFINE m == [st.res EXCEPT ![r] = @ \cup {s}]
           t == [st EXCEPT !.res = m, !.scanouts[s] = r]
<1>1. GpuEnable(st, s, r) = t
  BY DEF GpuEnable, GpuSound, GpuStates
<1>0. /\ st.res = [x \in DOMAIN st.res |-> st.res[x]] /\ DOMAIN st.res \subseteq GpuResources
      /\ \A x \in DOMAIN st.res : st.res[x] \subseteq GpuScanouts
  BY GpuParts
<1>2. /\ DOMAIN m = DOMAIN st.res /\ m[r] = st.res[r] \cup {s}
      /\ \A x \in DOMAIN st.res : x # r => m[x] = st.res[x]
      /\ m = [x \in DOMAIN m |-> m[x]]
  BY <1>0
<1> HIDE DEF m
<1>3. m \in UNION {[D -> SUBSET GpuScanouts] : D \in SUBSET GpuResources}
  <2>1. DOMAIN m \subseteq GpuResources /\ \A x \in DOMAIN m : m[x] \subseteq GpuScanouts
    BY <1>0, <1>2
  <2> QED
    BY <1>2, <2>1, GpuMaps
<1>4. /\ t \in GpuStates /\ t.res = m /\ t.host = st.host /\ t.scanouts[s] = r
      /\ \A z \in GpuScanouts : z # s => t.scanouts[z] = st.scanouts[z]
  <2>1. r \in GpuResources
    BY <1>0
  <2> QED
    BY <1>3, <2>1 DEF GpuSound, GpuStates
<1> HIDE DEF t
<1>5. GpuSound(t)
  BY <1>2, <1>4 DEF GpuSound
<1>6. ASSUME GpuOne(st), \A x \in DOMAIN st.res : s \in st.res[x] => x = r PROVE GpuOne(t)
  <2>1. ASSUME NEW x \in DOMAIN st.res, NEW z \in m[x] PROVE t.scanouts[z] = x
    <3>1. CASE z = s
      BY <1>2, <1>4, <1>6, <2>1, <3>1
    <3>2. CASE z # s
      <4>1. z \in st.res[x]
        BY <1>2, <2>1, <3>2
      <4>2. z \in GpuScanouts /\ st.scanouts[z] = x
        BY <1>0, <1>6, <4>1 DEF GpuOne
      <4> QED
        BY <1>4, <3>2, <4>2
    <3> QED
      BY <3>1, <3>2
  <2> QED
    BY <1>2, <1>4, <2>1 DEF GpuOne
<1> QED
  BY <1>1, <1>5, <1>6

LEMMA GpuScanoutKeeps ==
  ASSUME NEW st, GpuSound(st), NEW s, NEW r \in GpuResources \cup {0}
  PROVE  GpuKeeps(st, GpuVirglScanout(st, s, r))
<1>1. CASE ~st.display
  BY <1>1 DEF GpuVirglScanout, GpuKeeps, gpuOk
<1>2. CASE st.display /\ s \notin GpuScanouts
  BY <1>2 DEF GpuVirglScanout, GpuKeeps, gpuErr
<1>3. CASE st.display /\ s \in GpuScanouts
  <2> DEFINE old == GpuDisableOld(st, s, r)
  <2>1. /\ GpuSound(old) /\ DOMAIN old.res = DOMAIN st.res
        /\ GpuOne(st) => GpuOne(old) /\ \A x \in DOMAIN old.res : s \in old.res[x] => x = r
    BY <1>3, GpuOldDisabled
  <2>2. GpuVirglScanout(st, s, r) \subseteq
          {gpuErr(old)} \cup (IF r = 0 THEN {gpuOk(GpuDisable(old, s)), gpuErr(GpuDisable(old, s))} ELSE {})
            \cup (IF gpuHas(st, r) THEN {gpuOk(GpuEnable(old, s, r))} ELSE {})
    BY <1>3 DEF GpuVirglScanout, gpuMay
  <2> HIDE DEF old
  <2>3. r = 0 => GpuSound(GpuDisable(old, s)) /\ (GpuOne(st) => GpuOne(GpuDisable(old, s)))
    <3>1. DOMAIN st.res \subseteq GpuResources
      BY GpuParts
    <3>2. 0 \notin DOMAIN old.res
      BY <2>1, <3>1, GpuAssumption
    <3>3. GpuSound(GpuDisable(old, s)) /\
            (GpuOne(old) /\ (\A x \in DOMAIN old.res : s \notin old.res[x]) => GpuOne(GpuDisable(old, s)))
      BY <1>3, <2>1, GpuDisabled
    <3> QED
      BY <2>1, <3>2, <3>3
  <2>4. gpuHas(st, r) => GpuSound(GpuEnable(old, s, r)) /\ (GpuOne(st) => GpuOne(GpuEnable(old, s, r)))
    <3> SUFFICES ASSUME gpuHas(st, r)
                 PROVE  GpuSound(GpuEnable(old, s, r)) /\ (GpuOne(st) => GpuOne(GpuEnable(old, s, r)))
      OBVIOUS
    <3>1. r \in DOMAIN old.res
      BY <2>1 DEF gpuHas
    <3>2. GpuSound(GpuEnable(old, s, r)) /\
            (GpuOne(old) /\ (\A x \in DOMAIN old.res : s \in old.res[x] => x = r) => GpuOne(GpuEnable(old, s, r)))
      BY <1>3, <2>1, <3>1, GpuEnabled
    <3> QED
      BY <2>1, <3>2
  <2> QED
    BY <2>1, <2>2, <2>3, <2>4 DEF GpuKeeps, gpuErr, gpuOk
<1> QED
  BY <1>1, <1>2, <1>3

\* gfxstream's may leave two resources enabled for one scanout.
LEMMA GpuGfxScanoutSound ==
  ASSUME NEW st, GpuSound(st), NEW s, NEW r \in GpuResources \cup {0}
  PROVE  \A o \in GpuGfxScanout(st, s, r) : GpuSound(o[2])
<1>1. CASE ~st.display
  BY <1>1 DEF GpuGfxScanout, gpuOk
<1>2. CASE st.display /\ s \notin GpuScanouts
  BY <1>2 DEF GpuGfxScanout, gpuPanic
<1>3. CASE st.display /\ s \in GpuScanouts
  <2> DEFINE old == GpuDisableOld(st, s, r)
  <2>1. GpuSound(old) /\ DOMAIN old.res = DOMAIN st.res
    BY <1>3, GpuOldDisabled
  <2>2. GpuGfxScanout(st, s, r) \subseteq
          {gpuErr(old), gpuOk(GpuDisable(st, s)), gpuErr(GpuDisable(st, s))}
            \cup (IF gpuHas(st, r) THEN {gpuOk(GpuEnable(old, s, r)), gpuErr(GpuEnable(old, s, r))} ELSE {})
    BY <1>3 DEF GpuGfxScanout, gpuMay
  <2> HIDE DEF old
  <2>3. GpuSound(GpuDisable(st, s))
    BY <1>3, GpuDisabled
  <2>4. gpuHas(st, r) => GpuSound(GpuEnable(old, s, r))
    BY <1>3, <2>1, GpuEnabled DEF gpuHas
  <2> QED
    BY <2>1, <2>2, <2>3, <2>4 DEF gpuErr, gpuOk
<1> QED
  BY <1>1, <1>2, <1>3

\* The others change nothing.
LEMMA GpuOthersKeep ==
  ASSUME NEW st, GpuSound(st), NEW c, NEW r
  PROVE  /\ GpuKeeps(st, GpuVirglFlush(st, r)) /\ GpuKeeps(st, GpuVirglCursor(st, r))
         /\ GpuKeeps(st, GpuVirglFrontend(st)) /\ GpuKeeps(st, GpuVirglTransfer(st, r))
         /\ GpuKeeps(st, GpuVirglCaps(st, r)) /\ GpuKeeps(st, GpuVirglCtx(st, c, r))
         /\ GpuKeeps(st, GpuGfxCtx(st, c, r)) /\ GpuKeeps(st, GpuSubmit(st, c))
         /\ GpuKeeps(st, GpuNull(st)) /\ GpuKeeps(st, {gpuErr(st)}) /\ GpuKeeps(st, {gpuPanic(st)})
BY DEF GpuKeeps, GpuVirglFlush, GpuVirglCursor, GpuSendCursor, GpuVirglFrontend, GpuAskFrontend, GpuVirglTransfer,
   GpuVirglCaps, GpuVirglCtx, GpuGfxCtx, GpuSubmit, GpuNull, gpuErr, gpuOk, gpuPanic, gpuMay

LEMMA GpuOutcomesKeep ==
  ASSUME NEW st, GpuSound(st), NEW m \in GpuCommands, NEW mode
  PROVE  \A o \in GpuOutcomes(mode, st, m) : GpuSound(o[2]) /\ (mode = "virgl" /\ GpuOne(st) => GpuOne(o[2]))
<1>1. GpuHandledOps = {"create", "transfer", "cursor", "frontend", "ctxcreate"}
  BY DEF GpuHandledOps, GpuHandled
<1>2. /\ m.op \in {"create", "unref", "attach", "detach"} => m.r \in GpuResources
      /\ m.op = "scanout" => m.r \in GpuResources \cup {0}
      /\ m.op \in {"ctxcreate", "ctxdestroy"} => m.c \in GpuContexts
      /\ m.op \in {"create", "unref", "attach", "detach", "scanout", "flush", "cursor", "transfer", "caps",
                   "frontend", "ctxcreate", "ctxdestroy", "ctxres", "submit", "blob", "unknown"}
  BY <1>1 DEF GpuCommands
<1>3. m.op \notin {"blob", "unknown"} => GpuKeeps(st, GpuVirgl(st, m))
  <2>1. m.op \in {"create", "unref", "attach", "detach", "scanout", "ctxcreate", "ctxdestroy"} => GpuKeeps(st, GpuVirgl(st, m))
    BY <1>2, GpuCreateKeeps, GpuUnrefKeeps, GpuBackingKeeps, GpuScanoutKeeps, GpuContextsKeep DEF GpuVirgl
  <2>2. m.op \in {"flush", "cursor", "transfer", "caps", "frontend", "ctxres", "submit"} => GpuKeeps(st, GpuVirgl(st, m))
    BY GpuOthersKeep DEF GpuVirgl
  <2> QED
    BY <1>2, <2>1, <2>2
<1>4. m.op \notin {"blob", "unknown"} => \A o \in GpuGfx(st, m) : GpuSound(o[2])
  <2>1. m.op \in {"create", "unref", "attach", "detach", "ctxcreate", "ctxdestroy"} => GpuKeeps(st, GpuGfx(st, m))
    BY <1>2, GpuCreateKeeps, GpuUnrefKeeps, GpuBackingKeeps, GpuContextsKeep
    DEF GpuGfx, GpuGfxCreate3d, GpuGfxCtxCreate, GpuGfxCtxDestroy
  <2>2. m.op \in {"flush", "cursor", "transfer", "caps", "frontend", "ctxres", "submit"} => GpuKeeps(st, GpuGfx(st, m))
    BY GpuOthersKeep DEF GpuGfx, GpuGfxFlush, GpuGfxCursor, GpuGfxTransfer, GpuGfxCaps, GpuGfxFrontend
  <2>3. m.op = "scanout" => \A o \in GpuGfx(st, m) : GpuSound(o[2])
    BY <1>2, GpuGfxScanoutSound DEF GpuGfx
  <2> QED
    BY <1>2, <2>1, <2>2, <2>3 DEF GpuKeeps
<1> QED
  BY <1>3, <1>4, GpuOthersKeep DEF GpuOutcomes, GpuKeeps

\* Before the daemon starts there is nothing in the map.
GpuIInv ==
  /\ gpu_life \in {"off", "serving", "up", "dead"} /\ gpu_socket \in BOOLEAN
  /\ GpuSound(gpu_st) /\ (gpu_conf.mode = "virgl" => GpuOne(gpu_st))
  /\ gpu_life = "off" => gpu_st = gpuEmpty

LEMMA GpuNothing == GpuSound(gpuEmpty) /\ GpuOne(gpuEmpty)
<1>1. gpuEmpty.res \in [{} -> SUBSET GpuScanouts]
  BY DEF gpuEmpty
<1>2. gpuEmpty \in GpuStates
  <2>1. gpuEmpty.res \in UNION {[D -> SUBSET GpuScanouts] : D \in SUBSET GpuResources}
    BY <1>1
  <2> QED
    BY <2>1 DEF gpuEmpty, GpuStates
<1> QED
  BY <1>2 DEF GpuSound, GpuOne, gpuEmpty

LEMMA GpuStep == GpuIInv /\ [GpuNext]_GpuVars => GpuIInv'
<1> SUFFICES ASSUME GpuIInv, [GpuNext]_GpuVars PROVE GpuIInv'
  OBVIOUS
<1>1. CASE GpuStart
  <2>1. gpu_life = "off" /\ gpu_life' = "serving" /\ UNCHANGED <<gpu_socket, gpu_st>>
    BY <1>1 DEF GpuStart
  <2> QED
    BY <2>1, GpuNothing DEF GpuIInv
<1>2. CASE GpuSetSocket
  BY <1>2, Zenon DEF GpuSetSocket, GpuIInv
<1>3. CASE GpuFirstEvent
  <2>1. /\ gpu_socket' \in BOOLEAN /\ gpu_life' \in {"up", "dead"} /\ gpu_conf' = gpu_conf
        /\ gpu_st' = gpu_st \/ gpu_st' = [gpu_st EXCEPT !.display = gpu_socket]
    BY <1>3 DEF GpuFirstEvent
  <2>2. GpuSound(gpu_st') /\ (GpuOne(gpu_st) => GpuOne(gpu_st'))
    <3>1. CASE gpu_st' = gpu_st
      BY <3>1 DEF GpuIInv
    <3>2. CASE gpu_st' = [gpu_st EXCEPT !.display = gpu_socket]
      <4>1. /\ gpu_st' \in GpuStates /\ gpu_st'.res = gpu_st.res /\ gpu_st'.host = gpu_st.host
            /\ gpu_st'.scanouts = gpu_st.scanouts
        BY <3>2 DEF GpuIInv, GpuSound, GpuStates
      <4> QED
        BY <4>1, GpuBesides DEF GpuIInv
    <3> QED
      BY <2>1, <3>1, <3>2
  <2> QED
    BY <2>1, <2>2 DEF GpuIInv
<1>4. ASSUME NEW m \in GpuCommands, GpuCommand(m) PROVE GpuIInv'
  <2>1. PICK o \in GpuOutcomes(gpu_conf.mode, gpu_st, m) : gpu_st' = o[2] /\ gpu_life' \in GpuEncode(o[1])
    BY <1>4 DEF GpuCommand
  <2>2. UNCHANGED <<gpu_conf, gpu_socket>> /\ gpu_life' \in {"up", "dead"}
    BY <1>4, <2>1 DEF GpuCommand, GpuEncode
  <2>3. GpuSound(gpu_st') /\ (gpu_conf.mode = "virgl" /\ GpuOne(gpu_st) => GpuOne(gpu_st'))
    BY <2>1, GpuOutcomesKeep DEF GpuIInv
  <2> QED
    BY <2>2, <2>3 DEF GpuIInv
<1>5. CASE UNCHANGED GpuVars
  BY <1>5, Zenon DEF GpuVars, GpuIInv
<1> QED
  BY <1>1, <1>2, <1>3, <1>4, <1>5 DEF GpuNext

\* What the adapter's map holds is in the renderer library, and on virgl a
\* scanout shows one resource, after any commands (virgl.rs, gfxstream.rs).
THEOREM GpuHolds == GpuSpec => []GpuInv
<1>1. GpuInit => GpuIInv
  <2> SUFFICES ASSUME GpuInit PROVE GpuIInv
    OBVIOUS
  <2>1. gpu_socket \in BOOLEAN
    BY Zenon DEF GpuInit
  <2>2. gpu_life = "off" /\ gpu_st = gpuEmpty
    BY DEF GpuInit
  <2> QED
    BY <2>1, <2>2, GpuNothing DEF GpuIInv
<1>2. GpuIInv => GpuInv
  <2> SUFFICES ASSUME GpuIInv PROVE GpuInv
    OBVIOUS
  <2>1. GpuTypeOK
    <3>1. gpu_st.ctx \subseteq GpuContexts
      BY DEF GpuIInv, GpuSound, GpuStates
    <3> QED
      BY <3>1, GpuParts DEF GpuIInv, GpuTypeOK
  <2>2. GpuMapInHost /\ GpuOnePicture
    BY DEF GpuIInv, GpuSound, GpuOne, GpuMapInHost, GpuOnePicture
  <2> QED
    BY <2>1, <2>2 DEF GpuInv
<1> QED
  BY <1>1, <1>2, GpuStep, PTL DEF GpuSpec

-----------------------------------------------------------------------------
(* The fences, GpuFence.                                                   *)

GpuFenceRecords == [id : 1 .. gpu_last, flag : BOOLEAN, idx : 0 .. 1, made : BOOLEAN]

GpuUnborn == gpu_mode = "none" => ~gpu_alive /\ gpu_fence \cup gpu_pending \cup gpu_descs \cup gpu_used = {}
GpuOldestFirst ==
  /\ \A f, g \in gpu_pending : f.id = g.id => f = g
  /\ \A f \in gpu_pending : gpu_completed[GpuTold(f)] < f.id
  /\ \A ring \in GpuRings : gpu_completed[ring] <= gpu_last
GpuInHand ==
  \A f \in gpu_fence : f.made /\ gpu_mode # "null" => f \in gpu_pending \/ f.id <= gpu_completed[GpuTold(f)]

GpuFenceIInv == GpuFenceInv /\ GpuUnborn /\ GpuOldestFirst /\ GpuInHand

\* A ring is one of the three, and both handlers tell the ring of a fence
\* that is not stranded.
LEMMA GpuRingsTold ==
  \A f : /\ GpuRing(f.flag, f.idx) \in GpuRings /\ GpuTold(f) \in GpuRings
         /\ ~GpuStranded(f) => f.made /\ GpuTold(f) = GpuRing(f.flag, f.idx)
  BY DEF GpuRing, GpuRings, GpuTold, GpuGfxRing, GpuStranded

LEMMA GpuFenceStart == GpuFenceInit => GpuFenceIInv
<1> SUFFICES ASSUME GpuFenceInit PROVE GpuFenceIInv
  OBVIOUS
<1>1. gpu_alive \in BOOLEAN /\ ~gpu_alive
  BY Zenon DEF GpuFenceInit
<1>2. /\ gpu_fence = {} /\ gpu_pending = {} /\ gpu_descs = {} /\ gpu_used = {}
      /\ gpu_mode = "none" /\ gpu_last = 0 /\ gpu_completed = [ring \in GpuRings |-> 0]
  BY DEF GpuFenceInit
<1> QED
  BY <1>1, <1>2, GpuFenceAssumption
     DEF GpuFenceIInv, GpuFenceInv, GpuFenceTypeOK, GpuNotEarly, GpuStillToCome, GpuOnce,
         GpuUnborn, GpuOldestFirst, GpuInHand

LEMMA GpuAdapterStep == ASSUME GpuFenceIInv, NEW mode \in GpuFenceModes, GpuAdapter(mode) PROVE GpuFenceIInv'
<1> USE DEF GpuFenceIInv, GpuFenceInv, GpuAdapter
<1>1. gpu_fence \cup gpu_pending \cup gpu_descs \cup gpu_used = {}
  BY DEF GpuUnborn
<1>2. GpuFenceTypeOK'
  <2>1. gpu_alive' \in BOOLEAN
    BY Zenon
  <2>2. gpu_mode' = mode /\ UNCHANGED <<gpu_fence, gpu_last, gpu_pending, gpu_descs, gpu_completed, gpu_used>>
    OBVIOUS
  <2> QED
    BY <2>1, <2>2 DEF GpuFenceTypeOK
<1>3. GpuNotEarly' /\ GpuStillToCome' /\ GpuOnce' /\ GpuInHand'
  BY <1>1 DEF GpuNotEarly, GpuStillToCome, GpuOnce, GpuInHand
<1>4. GpuOldestFirst'
  BY <1>1 DEF GpuOldestFirst
<1>5. GpuUnborn'
  BY GpuFenceAssumption DEF GpuUnborn
<1> QED
  BY <1>2, <1>3, <1>4, <1>5

LEMMA GpuCreateStep ==
  ASSUME GpuFenceIInv, NEW flag \in BOOLEAN, NEW idx \in 0 .. 1, GpuCreateFence(flag, idx)
  PROVE  GpuFenceIInv'
<1> USE DEF GpuFenceIInv, GpuFenceInv
<1>1. PICK made \in BOOLEAN :
        LET f == [id |-> gpu_last + 1, flag |-> flag, idx |-> idx, made |-> made]
        IN  /\ gpu_fence' = {f}
            /\ gpu_pending' = IF made /\ gpu_mode # "null" THEN gpu_pending \cup {f} ELSE gpu_pending
  BY DEF GpuCreateFence
<1> DEFINE f == [id |-> gpu_last + 1, flag |-> flag, idx |-> idx, made |-> made]
<1>2. /\ gpu_alive /\ gpu_last < GpuFences /\ gpu_last' = gpu_last + 1
      /\ UNCHANGED <<gpu_mode, gpu_alive, gpu_descs, gpu_completed, gpu_used>>
  BY DEF GpuCreateFence
<1>3. gpu_last \in 0 .. GpuFences /\ gpu_last' \in 0 .. GpuFences
  BY <1>2, GpuFenceAssumption DEF GpuFenceTypeOK
<1>4. f \in GpuFenceRecords' /\ GpuFenceRecords \subseteq GpuFenceRecords'
  BY <1>2, <1>3, GpuFenceAssumption DEF GpuFenceRecords
<1>5. gpu_pending \cup gpu_descs \cup gpu_used \subseteq GpuFenceRecords
  BY DEF GpuFenceTypeOK, GpuFenceRecords
<1>6. GpuFenceTypeOK'
  <2>1. gpu_fence' \cup gpu_pending' \cup gpu_descs' \cup gpu_used' \subseteq GpuFenceRecords'
    BY <1>1, <1>2, <1>4, <1>5
  <2> QED
    BY <1>2, <1>3, <2>1 DEF GpuFenceTypeOK, GpuFenceRecords
<1>7. \A g \in GpuFenceRecords : g.id <= gpu_last /\ g # f
  BY <1>3 DEF GpuFenceRecords
<1>8. GpuNotEarly' /\ GpuUnborn'
  BY <1>2 DEF GpuNotEarly, GpuUnborn
<1>9. GpuStillToCome'
  BY <1>1, <1>2 DEF GpuStillToCome, GpuStranded
<1>10. GpuOnce'
  BY <1>1, <1>2, <1>5, <1>7 DEF GpuOnce
<1>11. GpuInHand'
  BY <1>1, <1>2 DEF GpuInHand
<1>12. GpuOldestFirst'
  <2>1. gpu_completed[GpuTold(f)] <= gpu_last /\ gpu_completed[GpuTold(f)] \in Int
    BY GpuRingsTold DEF GpuOldestFirst, GpuFenceTypeOK
  <2>2. \A g : GpuTold(g)' = GpuTold(g)
    BY <1>2 DEF GpuTold
  <2>3. gpu_pending' \subseteq gpu_pending \cup {f} /\ \A g \in gpu_pending : g.id # f.id
    BY <1>1, <1>3, <1>5, <1>7
  <2>4. \A g, h \in gpu_pending' : g.id = h.id => g = h
    BY <2>3 DEF GpuOldestFirst
  <2>5. \A g \in gpu_pending' : gpu_completed'[GpuTold(g)'] < g.id
    BY <1>2, <1>3, <2>1, <2>2, <2>3 DEF GpuOldestFirst
  <2>6. \A ring \in GpuRings : gpu_completed'[ring] <= gpu_last'
    BY <1>2, <1>3 DEF GpuOldestFirst, GpuFenceTypeOK
  <2> QED
    BY <2>4, <2>5, <2>6 DEF GpuOldestFirst
<1> QED
  BY <1>6, <1>8, <1>9, <1>10, <1>11, <1>12

LEMMA GpuProcessStep ==
  ASSUME GpuFenceIInv, GpuProcessFence \/ GpuEncodeFails PROVE GpuFenceIInv'
<1> USE DEF GpuFenceIInv, GpuFenceInv
<1>1. /\ gpu_fence # {} /\ gpu_fence' = {} /\ gpu_alive' \in BOOLEAN
      /\ UNCHANGED <<gpu_mode, gpu_last, gpu_pending, gpu_completed>>
  BY DEF GpuProcessFence, GpuEncodeFails, GpuFenceTypeOK
<1>2. gpu_mode # "none"
  BY <1>1 DEF GpuUnborn
<1>3. GpuOldestFirst' /\ GpuInHand' /\ GpuUnborn'
  BY <1>1, <1>2 DEF GpuOldestFirst, GpuInHand, GpuUnborn, GpuTold
<1>4. CASE UNCHANGED <<gpu_descs, gpu_used>>
  BY <1>1, <1>3, <1>4 DEF GpuFenceTypeOK, GpuNotEarly, GpuStillToCome, GpuOnce, GpuStranded
<1>5. CASE GpuProcessFence
  <2> DEFINE f == CHOOSE f \in gpu_fence : TRUE
  <2>1. f \in gpu_fence
    BY <1>1
  <2>2. IF gpu_mode # "null" /\ f.id > gpu_completed[GpuRing(f.flag, f.idx)]
        THEN gpu_descs' = gpu_descs \cup {f} /\ UNCHANGED gpu_used
        ELSE gpu_used' = {f} /\ UNCHANGED gpu_descs
    BY <1>5 DEF GpuProcessFence
  <2> HIDE DEF f
  <2>3. GpuFenceTypeOK' /\ GpuOnce'
    BY <1>1, <2>1, <2>2 DEF GpuFenceTypeOK, GpuOnce
  <2>4. f.id \in Int /\ gpu_completed[GpuRing(f.flag, f.idx)] \in Int
    BY <2>1, GpuRingsTold DEF GpuFenceTypeOK
  <2>5. GpuNotEarly'
    BY <1>1, <2>2, <2>4 DEF GpuNotEarly
  <2>6. GpuStillToCome'
    <3>1. CASE gpu_mode # "null" /\ f.id > gpu_completed[GpuRing(f.flag, f.idx)]
      <4>1. GpuStranded(f) \/ f \in gpu_pending
        BY <2>1, <2>4, <3>1, GpuRingsTold DEF GpuInHand
      <4> QED
        BY <1>1, <2>2, <3>1, <4>1 DEF GpuStillToCome, GpuStranded
    <3>2. CASE UNCHANGED gpu_descs
      BY <1>1, <3>2 DEF GpuStillToCome, GpuStranded
    <3> QED
      BY <2>2, <3>1, <3>2
  <2> QED
    BY <1>3, <2>3, <2>5, <2>6
<1> QED
  BY <1>4, <1>5 DEF GpuEncodeFails

LEMMA GpuSignalStep ==
  ASSUME GpuFenceIInv, NEW f \in gpu_pending, GpuSignal(f) PROVE GpuFenceIInv'
<1> USE DEF GpuFenceIInv, GpuFenceInv
<1> DEFINE done == {d \in gpu_descs : GpuRing(d.flag, d.idx) = GpuTold(f) /\ d.id <= f.id}
<1>1. /\ gpu_descs' = gpu_descs \ done /\ gpu_used' = done
      /\ gpu_completed' = [gpu_completed EXCEPT ![GpuTold(f)] = f.id]
      /\ gpu_pending' = gpu_pending \ {f}
      /\ UNCHANGED <<gpu_mode, gpu_alive, gpu_fence, gpu_last>>
      /\ \A g \in gpu_pending : GpuTold(g) = GpuTold(f) => f.id <= g.id
  BY DEF GpuSignal
<1>2. /\ f.id \in 1 .. gpu_last /\ gpu_last \in 0 .. GpuFences
      /\ GpuTold(f) \in GpuRings /\ gpu_completed \in [GpuRings -> 0 .. GpuFences]
  BY GpuRingsTold DEF GpuFenceTypeOK
<1>3. \A g : GpuTold(g)' = GpuTold(g) /\ (GpuStranded(g)' <=> GpuStranded(g))
  BY <1>1 DEF GpuTold, GpuStranded
<1>4. GpuFenceTypeOK'
  <2>1. gpu_completed' \in [GpuRings -> 0 .. GpuFences]
    BY <1>1, <1>2, GpuFenceAssumption
  <2> QED
    BY <1>1, <2>1 DEF GpuFenceTypeOK
<1>5. GpuNotEarly'
  BY <1>1, <1>2 DEF GpuNotEarly
<1>6. GpuStillToCome'
  <2>1. ASSUME NEW d \in gpu_descs', ~GpuStranded(d)' PROVE d \in gpu_pending'
    <3>1. d \in gpu_descs /\ d \notin done /\ ~GpuStranded(d) /\ d \in gpu_pending
      BY <1>1, <1>3, <2>1 DEF GpuStillToCome
    <3>2. d # f
      BY <1>2, <3>1, GpuRingsTold
    <3> QED
      BY <1>1, <3>1, <3>2
  <2> QED
    BY <2>1 DEF GpuStillToCome
<1>7. GpuOnce' /\ GpuUnborn'
  BY <1>1 DEF GpuOnce, GpuUnborn
<1>8. \A ring \in GpuRings : gpu_completed[ring] <= gpu_completed'[ring]
  BY <1>1, <1>2 DEF GpuOldestFirst
<1>9. GpuOldestFirst'
  <2>1. \A g \in gpu_pending' : g.id \in Int
    BY <1>1, <1>2 DEF GpuFenceTypeOK
  <2>2. \A g \in gpu_pending' : gpu_completed'[GpuTold(g)'] < g.id
    BY <1>1, <1>2, <1>3, <2>1, GpuRingsTold DEF GpuOldestFirst
  <2>3. \A ring \in GpuRings : gpu_completed'[ring] <= gpu_last'
    BY <1>1, <1>2 DEF GpuOldestFirst
  <2> QED
    BY <1>1, <2>2, <2>3 DEF GpuOldestFirst
<1>10. GpuInHand'
  <2>1. ASSUME NEW g \in gpu_fence, g.made, gpu_mode # "null"
        PROVE  g \in gpu_pending' \/ g.id <= gpu_completed'[GpuTold(g)]
    <3>1. g.id \in Int
      BY <1>2 DEF GpuFenceTypeOK
    <3>2. CASE g \in gpu_pending
      BY <1>1, <1>2, <3>1, <3>2
    <3>3. CASE g.id <= gpu_completed[GpuTold(g)]
      BY <1>1, <1>2, <1>8, <3>1, <3>3, GpuRingsTold
    <3> QED
      BY <2>1, <3>2, <3>3 DEF GpuInHand
  <2> QED
    BY <1>1, <1>3, <2>1 DEF GpuInHand
<1> QED
  BY <1>4, <1>5, <1>6, <1>7, <1>9, <1>10

\* A fenced descriptor goes back to the guest when a fence of its ring that is not
\* older is complete, not before, and only once; while it waits its fence is still
\* to come, unless it is stranded (GpuStranded): its fence could not be created,
\* or it is for a context and the renderer is virgl (common_process_fence() and
\* the fence handlers).
THEOREM GpuFencesHold == GpuFenceSpec => []GpuFenceInv
<1>1. GpuFenceIInv /\ [GpuFenceNext]_GpuFenceVars => GpuFenceIInv'
  <2>1. GpuFenceIInv /\ UNCHANGED GpuFenceVars => GpuFenceIInv'
    BY DEF GpuFenceVars, GpuFenceIInv, GpuFenceInv, GpuFenceTypeOK, GpuNotEarly, GpuStillToCome, GpuOnce,
       GpuStranded, GpuUnborn, GpuOldestFirst, GpuInHand, GpuTold
  <2> QED
    BY <2>1, GpuAdapterStep, GpuCreateStep, GpuProcessStep, GpuSignalStep DEF GpuFenceNext
<1>2. GpuFenceIInv => GpuFenceInv
  BY DEF GpuFenceIInv
<1> QED
  BY <1>1, <1>2, GpuFenceStart, PTL DEF GpuFenceSpec

\* The two share no state: run side by side, as in a daemon, both hold.
THEOREM GpuBothHold == GpuSpec /\ GpuFenceSpec => []GpuBothInv
<1>1. GpuInv /\ GpuFenceInv => GpuBothInv
  BY DEF GpuBothInv
<1> QED
  BY <1>1, GpuHolds, GpuFencesHold, PTL

-----------------------------------------------------------------------------
(* The ring that small devices share, scsi and scmi among them.            *)

RingsOf(Chains) == [avail : Seq(Chains), batch : Seq(Chains), used : Nat]

\* The chains of a ring stay chains.
LEMMA RingStays ==
  ASSUME NEW Chains, NEW q \in RingsOf(Chains)
  PROVE  /\ Collect(q) \in RingsOf(Chains) /\ SignalUsed(q) \in RingsOf(Chains)
         /\ \A c \in Chains : Offer(q, c) \in RingsOf(Chains)
         /\ Serving(q) => Request(q) \in Chains /\ AddUsed(q) \in RingsOf(Chains)
<1> DEFINE S == Seq(Chains)
           a == q.avail
           b == q.batch
           n == q.used
           none == <<>>
           Is(x, y, m) == [avail |-> x, batch |-> y, used |-> m]
<1>1. a \in S /\ b \in S /\ n \in Nat /\ none \in S
  BY DEF RingsOf
<1>2. q = Is(a, b, n)
  BY DEF RingsOf
<1>3. ASSUME NEW x \in S, NEW y \in S, NEW m \in Nat PROVE Is(x, y, m) \in RingsOf(Chains)
  <2> HIDE DEF S
  <2> QED
    BY DEF RingsOf, S
<1>4. b # <<>> => Head(b) \in Chains /\ Tail(b) \in S
  BY <1>1, HeadTailProperties
<1>5. \A c \in Chains : Append(a, c) \in S
  BY <1>1
<1> DEFINE ring == q
           tail == Tail(b)
           more == n + 1
<1>6. Collect(ring) = [ring EXCEPT !.batch = a, !.avail = none]
  BY DEF Collect
<1>7. SignalUsed(ring) = [ring EXCEPT !.used = 0]
  BY DEF SignalUsed
<1>8. \A c : Offer(ring, c) = [ring EXCEPT !.avail = Append(a, c)]
  BY DEF Offer
<1>9. AddUsed(ring) = [ring EXCEPT !.batch = tail, !.used = more]
  BY DEF AddUsed
<1> HIDE DEF S, a, b, n, none, ring, tail, more
<1>10. ring = Is(a, b, n)
  BY <1>2 DEF ring
<1>11. /\ [ring EXCEPT !.batch = a, !.avail = none] = Is(none, a, n)
       /\ [ring EXCEPT !.used = 0] = Is(a, b, 0)
       /\ \A x : [ring EXCEPT !.avail = x] = Is(x, b, n)
       /\ [ring EXCEPT !.batch = tail, !.used = more] = Is(a, tail, more)
  <2> DEFINE r1 == [ring EXCEPT !.batch = a]
             r2 == [ring EXCEPT !.batch = tail]
  <2>1. r1 = Is(a, a, n) /\ r2 = Is(a, tail, n)
    BY <1>10
  <2> HIDE DEF r1, r2
  <2>2. [r1 EXCEPT !.avail = none] = Is(none, a, n)
    BY <2>1
  <2>3. [r2 EXCEPT !.used = more] = Is(a, tail, more)
    BY <2>1
  <2>4. [ring EXCEPT !.batch = a, !.avail = none] = Is(none, a, n)
    BY <2>2 DEF r1
  <2>5. [ring EXCEPT !.used = 0] = Is(a, b, 0)
    BY <1>10
  <2>6. \A x : [ring EXCEPT !.avail = x] = Is(x, b, n)
    BY <1>10
  <2>7. [ring EXCEPT !.batch = tail, !.used = more] = Is(a, tail, more)
    BY <2>3 DEF r2
  <2> QED
    BY <2>4, <2>5, <2>6, <2>7
<1> HIDE DEF Is
<1>12. Collect(ring) \in RingsOf(Chains) /\ SignalUsed(ring) \in RingsOf(Chains)
  <2>1. Is(none, a, n) \in RingsOf(Chains) /\ Is(a, b, 0) \in RingsOf(Chains)
    BY <1>1, <1>3
  <2> QED
    BY <1>6, <1>7, <1>11, <2>1
<1>13. \A c \in Chains : Offer(ring, c) \in RingsOf(Chains)
  <2> SUFFICES ASSUME NEW c \in Chains PROVE Offer(ring, c) \in RingsOf(Chains)
    OBVIOUS
  <2> DEFINE x == Append(a, c)
  <2>1. x \in S /\ Offer(ring, c) = [ring EXCEPT !.avail = x]
    BY <1>5, <1>8
  <2> HIDE DEF x
  <2>2. Is(x, b, n) \in RingsOf(Chains)
    BY <1>1, <1>3, <2>1
  <2> QED
    BY <1>11, <2>1, <2>2
<1>14. b # <<>> => AddUsed(ring) \in RingsOf(Chains)
  <2>1. more \in Nat
    BY <1>1 DEF more
  <2> QED
    BY <1>1, <1>3, <1>4, <1>9, <1>11, <2>1 DEF tail
<1> QED
  BY <1>4, <1>12, <1>13, <1>14 DEF ring, b, Serving, Request

-----------------------------------------------------------------------------
(* SCSI.  What an outcome of a command may be, whatever the command is.    *)

ScsiFiles(n) == [0 .. n - 1 -> ScsiValues]
ScsiUnits(n) == [image : ScsiFiles(n), disk : ScsiFiles(n)]
ScsiWithin(r, b) == r.lba <= b /\ b < r.lba + r.n
ScsiSyncs(r) == r.op = "SynchronizeCache10" \/ (r.op = "Write10" /\ r.fua)

\* Only a write changes the image, in the blocks it is about; the disk stays or
\* has the whole image; blocks are read from the image.
ScsiLegal(u, r, n, o) ==
  /\ o.bytes \in Nat /\ o.unit \in ScsiUnits(n)
  /\ o.unit.disk \in {u.disk, o.unit.image}
  /\ (r.op \in ScsiWrites /\ o.sense \in {"GOOD", "TARGET_FAILURE"}) \/ o.unit.image = u.image
  /\ \A b \in 0 .. n - 1 :
       /\ ScsiWithin(r, b) \/ o.unit.image[b] = u.image[b]
       /\ ScsiWithin(r, b) /\ r.op \in ScsiWrites /\ o.sense = "GOOD" => o.unit.image[b] = r.val
  /\ o.sense = "GOOD" /\ ScsiSyncs(r) => o.unit.disk = o.unit.image
  /\ o.blocks = <<>> \/ (o.blocks = [k \in 1 .. r.n |-> u.image[r.lba + k - 1]] /\ r.lba + r.n <= n)

\* An answer that leaves the unit as it is
LEMMA ScsiQuiet ==
  ASSUME NEW n \in Nat, NEW u \in ScsiUnits(n), NEW r \in ScsiRequests, NEW sense, NEW bytes \in Nat,
         sense = "GOOD" => r.op \notin ScsiWrites \cup {"SynchronizeCache10"}
  PROVE  ScsiLegal(u, r, n, ScsiOut(u, sense, bytes))
<1>1. ScsiOut(u, sense, bytes) = [unit |-> u, sense |-> sense, bytes |-> bytes, blocks |-> <<>>]
  BY DEF ScsiOut
<1>2. sense = "GOOD" => ~ScsiSyncs(r) /\ r.op \notin ScsiWrites
  BY DEF ScsiSyncs, ScsiWrites
<1>. DEFINE o == ScsiOut(u, sense, bytes)
<1>3. o.unit = u /\ o.sense = sense /\ o.bytes = bytes /\ o.blocks = <<>>
  BY <1>1
<1>. HIDE DEF o
<1>4. ScsiLegal(u, r, n, o)
  BY <1>2, <1>3 DEF ScsiLegal
<1>. QED
  BY <1>4 DEF o

LEMMA ScsiSize ==
  ASSUME NEW n \in Nat, NEW u \in ScsiUnits(n), NEW r \in ScsiRequests
  PROVE  /\ Cardinality(DOMAIN u.image) = n
         /\ ScsiInRange(u, r) <=> r.lba + r.n <= n
<1>1. DOMAIN u.image = 0 .. n - 1
  BY DEF ScsiUnits, ScsiFiles
<1>2. Cardinality(0 .. n - 1) = n
  BY FS_Interval
<1>. QED
  BY <1>1, <1>2 DEF ScsiInRange

LEMMA ScsiSynced ==
  ASSUME NEW n \in Nat, NEW u \in ScsiUnits(n)
  PROVE  ScsiSync(u) \in ScsiUnits(n) /\ ScsiSync(u).image = u.image /\ ScsiSync(u).disk = u.image
BY DEF ScsiSync, ScsiUnits

LEMMA ScsiReads ==
  ASSUME NEW n \in Nat, NEW u \in ScsiUnits(n), NEW r \in ScsiRequests, r.op = "Read10",
         NEW o \in ScsiRead10(u, r)
  PROVE  ScsiLegal(u, r, n, o)
<1>0. r.lba \in Nat /\ r.n \in Nat /\ ScsiBlock \in Nat
  BY ScsiAssumption
<1>1. CASE r.fua /\ o = ScsiOut(u, "TARGET_FAILURE", 0)
  BY <1>1, ScsiQuiet
<1>2. ASSUME NEW s \in IF r.fua THEN {ScsiSync(u)} ELSE {u},
             o \in ScsiSized(s, "UNRECOVERED_READ_ERROR",
                IF ~ScsiInRange(s, r) THEN {ScsiOut(s, "LOGICAL_BLOCK_ADDRESS_OUT_OF_RANGE", 0)}
                ELSE {[ScsiOut(s, "GOOD", r.n * ScsiBlock) EXCEPT !.blocks = [k \in 1 .. r.n |-> s.image[r.lba + k - 1]]],
                      ScsiOut(s, "UNRECOVERED_READ_ERROR", 0)})
      PROVE  ScsiLegal(u, r, n, o)
  <2>1. s \in ScsiUnits(n) /\ s.image = u.image /\ s.disk \in {u.disk, u.image}
    BY <1>2, ScsiSynced
  <2>2. PICK sense, bytes, blocks :
           /\ bytes \in Nat
           /\ o = [unit |-> s, sense |-> sense, bytes |-> bytes, blocks |-> blocks]
           /\ blocks = <<>> \/ (blocks = [k \in 1 .. r.n |-> u.image[r.lba + k - 1]] /\ r.lba + r.n <= n)
    <3>1. r.n * ScsiBlock \in Nat
      BY <1>0
    <3>2. CASE ScsiInRange(s, r) /\ o = [ScsiOut(s, "GOOD", r.n * ScsiBlock) EXCEPT !.blocks = [k \in 1 .. r.n |-> s.image[r.lba + k - 1]]]
      <4>1. o = [unit |-> s, sense |-> "GOOD", bytes |-> r.n * ScsiBlock, blocks |-> [k \in 1 .. r.n |-> u.image[r.lba + k - 1]]]
        BY <3>2, <2>1 DEF ScsiOut
      <4>2. r.lba + r.n <= n
        BY <3>2, <2>1, ScsiSize
      <4>. QED
        BY <4>1, <4>2, <3>1
    <3>3. CASE \E sense : o = ScsiOut(s, sense, 0)
      BY <3>3 DEF ScsiOut
    <3>. QED
      BY <1>2, <3>2, <3>3 DEF ScsiSized
  <2>. QED
    BY <2>1, <2>2 DEF ScsiLegal, ScsiSyncs, ScsiWrites
<1>. QED
  BY <1>1, <1>2 DEF ScsiRead10

\* The first k blocks are written.
LEMMA ScsiWrittenIs ==
  ASSUME NEW n \in Nat, NEW u \in ScsiUnits(n), NEW r \in ScsiRequests, NEW k \in 0 .. r.n
  PROVE  /\ ScsiWritten(u, r, k) \in ScsiUnits(n)
         /\ ScsiWritten(u, r, k).disk = u.disk
         /\ \A b \in 0 .. n - 1 :
              /\ ScsiWithin(r, b) \/ ScsiWritten(u, r, k).image[b] = u.image[b]
              /\ ScsiWithin(r, b) /\ k = r.n => ScsiWritten(u, r, k).image[b] = r.val
<1>0. r.lba \in Nat /\ r.n \in Nat /\ r.val \in ScsiValues
  BY ScsiAssumption
<1>. DEFINE f == [b \in DOMAIN u.image |-> IF b >= r.lba /\ b < r.lba + k THEN r.val ELSE u.image[b]]
<1>1. DOMAIN u.image = 0 .. n - 1 /\ u.image \in ScsiFiles(n) /\ u.disk \in ScsiFiles(n)
  BY DEF ScsiUnits, ScsiFiles
<1>2. f \in ScsiFiles(n)
  BY <1>0, <1>1 DEF ScsiFiles
<1>3. \A b \in 0 .. n - 1 :
        /\ ScsiWithin(r, b) \/ f[b] = u.image[b]
        /\ ScsiWithin(r, b) /\ k = r.n => f[b] = r.val
  BY <1>0, <1>1 DEF ScsiWithin
<1>4. ScsiWritten(u, r, k) = [u EXCEPT !.image = f]
  BY DEF ScsiWritten
<1>. HIDE DEF f
<1>5. ScsiWritten(u, r, k) \in ScsiUnits(n) /\ ScsiWritten(u, r, k).image = f /\ ScsiWritten(u, r, k).disk = u.disk
  BY <1>2, <1>4 DEF ScsiUnits
<1>. QED
  BY <1>3, <1>5

\* A write that ends after k blocks is synced or not.
LEMMA ScsiWrote ==
  ASSUME NEW n \in Nat, NEW u \in ScsiUnits(n), NEW r \in ScsiRequests, NEW k \in 0 .. r.n,
         NEW sense \in {"GOOD", "TARGET_FAILURE"}, NEW w \in {ScsiWritten(u, r, k), ScsiSync(ScsiWritten(u, r, k))},
         r.op \in ScsiWrites, sense = "GOOD" => k = r.n,
         sense = "GOOD" /\ ScsiSyncs(r) => w = ScsiSync(ScsiWritten(u, r, k))
  PROVE  ScsiLegal(u, r, n, ScsiOut(w, sense, 0))
<1>. DEFINE v == ScsiWritten(u, r, k)
<1>1. /\ v \in ScsiUnits(n) /\ v.disk = u.disk
      /\ \A b \in 0 .. n - 1 :
           /\ ScsiWithin(r, b) \/ v.image[b] = u.image[b]
           /\ ScsiWithin(r, b) /\ k = r.n => v.image[b] = r.val
  BY ScsiWrittenIs
<1>2. ScsiSync(v) \in ScsiUnits(n) /\ ScsiSync(v).image = v.image /\ ScsiSync(v).disk = v.image
  BY <1>1, ScsiSynced
<1>3. w \in {v, ScsiSync(v)} /\ (sense = "GOOD" /\ ScsiSyncs(r) => w = ScsiSync(v))
  OBVIOUS
<1>. HIDE DEF v
<1>4. w \in ScsiUnits(n) /\ w.image = v.image /\ w.disk \in {u.disk, w.image} /\ (sense = "GOOD" /\ ScsiSyncs(r) => w.disk = w.image)
  BY <1>1, <1>2, <1>3
<1>5. ScsiOut(w, sense, 0) = [unit |-> w, sense |-> sense, bytes |-> 0, blocks |-> <<>>]
  BY DEF ScsiOut
<1>. QED
  BY <1>1, <1>4, <1>5 DEF ScsiLegal

LEMMA ScsiWritesTen ==
  ASSUME NEW n \in Nat, NEW u \in ScsiUnits(n), NEW r \in ScsiRequests, r.op = "Write10",
         NEW o \in ScsiWrite10(u, r)
  PROVE  ScsiLegal(u, r, n, o)
<1>1. CASE \E sense : sense # "GOOD" /\ o = ScsiOut(u, sense, 0)
  BY <1>1, ScsiQuiet
<1>2. ASSUME NEW k \in 0 .. r.n,
             o \in {ScsiOut(ScsiWritten(u, r, k), "TARGET_FAILURE", 0)}
                \cup (IF r.fua THEN {ScsiOut(ScsiSync(ScsiWritten(u, r, k)), IF k = r.n THEN "GOOD" ELSE "TARGET_FAILURE", 0)} ELSE {})
                \cup (IF k = r.n /\ ~r.fua THEN {ScsiOut(ScsiWritten(u, r, k), "GOOD", 0)} ELSE {})
      PROVE  ScsiLegal(u, r, n, o)
  <2>1. ScsiSyncs(r) <=> r.fua
    BY DEF ScsiSyncs
  <2>2. PICK sense \in {"GOOD", "TARGET_FAILURE"}, w \in {ScsiWritten(u, r, k), ScsiSync(ScsiWritten(u, r, k))} :
           /\ o = ScsiOut(w, sense, 0) /\ (sense = "GOOD" => k = r.n)
           /\ sense = "GOOD" /\ r.fua => w = ScsiSync(ScsiWritten(u, r, k))
    <3>1. CASE o = ScsiOut(ScsiWritten(u, r, k), "TARGET_FAILURE", 0)
      BY <3>1
    <3>2. CASE r.fua /\ o = ScsiOut(ScsiSync(ScsiWritten(u, r, k)), IF k = r.n THEN "GOOD" ELSE "TARGET_FAILURE", 0)
      BY <3>2
    <3>3. CASE k = r.n /\ ~r.fua /\ o = ScsiOut(ScsiWritten(u, r, k), "GOOD", 0)
      BY <3>3
    <3>. QED
      BY <1>2, <3>1, <3>2, <3>3
  <2>. QED
    BY <2>1, <2>2, ScsiWrote DEF ScsiWrites
<1>. QED
  BY <1>1, <1>2 DEF ScsiWrite10, ScsiSized

\* A request whose numbers are too big for a sum is about no block that there is.
LEMMA ScsiSames ==
  ASSUME NEW n \in Nat, NEW u \in ScsiUnits(n), NEW r \in ScsiRequests, r.op = "WriteSame16", n + r.n <= ScsiTop,
         NEW o \in ScsiWriteSame16(u, r)
  PROVE  ScsiLegal(u, r, n, o)
<1>0. r.lba \in Nat /\ r.n \in Nat /\ ScsiTop \in Nat /\ ~ScsiSyncs(r) /\ r.op \in ScsiWrites
  BY ScsiAssumption DEF ScsiSyncs, ScsiWrites
<1>1. CASE \E sense : sense # "GOOD" /\ o = ScsiOut(u, sense, 0)
  BY <1>1, ScsiQuiet
<1>2. CASE r.lba + r.n >= ScsiTop /\ o = ScsiOut(u, "GOOD", 0)
  <2>1. \A b \in 0 .. n - 1 : ~ScsiWithin(r, b)
    BY <1>0, <1>2 DEF ScsiWithin
  <2>2. o = [unit |-> u, sense |-> "GOOD", bytes |-> 0, blocks |-> <<>>]
    BY <1>2 DEF ScsiOut
  <2>. QED
    BY <1>0, <2>1, <2>2 DEF ScsiLegal
<1>3. CASE \E k \in 0 .. r.n : o = ScsiOut(ScsiWritten(u, r, k), "TARGET_FAILURE", 0)
  BY <1>0, <1>3, ScsiWrote
<1>4. CASE o = ScsiOut(ScsiWritten(u, r, r.n), "GOOD", 0)
  <2>1. r.n \in 0 .. r.n
    BY <1>0
  <2>. QED
    BY <1>0, <1>4, <2>1, ScsiWrote
<1>5. CASE r.lba + r.n >= ScsiTop /\ ~r.anchor
  BY <1>1, <1>2, <1>5 DEF ScsiWriteSame16, ScsiSized
<1>6. CASE ~(r.lba + r.n >= ScsiTop) /\ ~r.anchor
  BY <1>1, <1>3, <1>4, <1>6 DEF ScsiWriteSame16, ScsiSized
<1>7. CASE r.anchor
  BY <1>1, <1>7 DEF ScsiWriteSame16
<1>. QED
  BY <1>5, <1>6, <1>7

LEMMA ScsiLengths ==
  /\ \A c \in DOMAIN ScsiOpcodes : ScsiOpcodes[c][2] \in Nat
  /\ \A p \in DOMAIN ScsiVpd : ScsiVpd[p] \in Nat
  /\ Cardinality(DOMAIN ScsiOpcodes) \in Nat
<1>1. \A c \in DOMAIN ScsiOpcodes : ScsiOpcodes[c][2] \in Nat
  BY DEF ScsiOpcodes
<1>2. \A p \in DOMAIN ScsiVpd : ScsiVpd[p] \in Nat
  BY DEF ScsiVpd
<1>. DEFINE A == {"TestUnitReady", "RequestSense", "Inquiry"}
            B == A \cup {"ModeSense6", "ReadCapacity10", "Read10"}
            C == B \cup {"Write10", "SynchronizeCache10", "WriteSame16"}
            D == C \cup {"ReadCapacity16", "ReportLuns", "ReportSupportedOperationCodes"}
<1>3. \A S, x, y, z : IsFiniteSet(S) => IsFiniteSet(S \cup {x, y, z})
  <2>. SUFFICES ASSUME NEW S, NEW x, NEW y, NEW z, IsFiniteSet(S) PROVE IsFiniteSet(S \cup {x, y, z})
    OBVIOUS
  <2>1. IsFiniteSet(S \cup {x})
    BY FS_AddElement
  <2>2. IsFiniteSet((S \cup {x}) \cup {y})
    BY <2>1, FS_AddElement
  <2>3. IsFiniteSet(((S \cup {x}) \cup {y}) \cup {z})
    BY <2>2, FS_AddElement
  <2>4. S \cup {x, y, z} = ((S \cup {x}) \cup {y}) \cup {z}
    OBVIOUS
  <2>. QED
    BY <2>3, <2>4
<1>4. IsFiniteSet(DOMAIN ScsiOpcodes)
  <2>1. IsFiniteSet({} \cup A) /\ {} \cup A = A
    BY <1>3, FS_EmptySet
  <2>2. IsFiniteSet(B)
    BY <2>1, <1>3
  <2>3. IsFiniteSet(C)
    BY <2>2, <1>3
  <2>4. IsFiniteSet(D)
    BY <2>3, <1>3
  <2>5. DOMAIN ScsiOpcodes = D
    BY DEF ScsiOpcodes
  <2>. QED
    BY <2>4, <2>5
<1>5. Cardinality(DOMAIN ScsiOpcodes) \in Nat
  BY <1>4, FS_CardinalityType
<1>. QED
  BY <1>1, <1>2, <1>5

\* The commands that only tell something, and those that are refused
LEMMA ScsiTells ==
  ASSUME NEW n \in Nat, NEW u \in ScsiUnits(n), NEW r \in ScsiRequests, NEW o \in ScsiExecute(u, r),
         r.naca \/ r.op \notin {"Read10", "Write10", "WriteSame16", "SynchronizeCache10", "ReportLuns", "unknown"}
  PROVE  ScsiLegal(u, r, n, o)
<1>. SUFFICES \E sense : \E bytes \in Nat :
       /\ o = ScsiOut(u, sense, bytes)
       /\ sense = "GOOD" => r.op \notin ScsiWrites \cup {"SynchronizeCache10"}
  <2>1. PICK sense : \E bytes \in Nat :
       /\ o = ScsiOut(u, sense, bytes)
       /\ sense = "GOOD" => r.op \notin ScsiWrites \cup {"SynchronizeCache10"}
    OBVIOUS
  <2>2. PICK bytes \in Nat :
       /\ o = ScsiOut(u, sense, bytes)
       /\ sense = "GOOD" => r.op \notin ScsiWrites \cup {"SynchronizeCache10"}
    BY <2>1
  <2>3. ScsiLegal(u, r, n, ScsiOut(u, sense, bytes))
    BY <2>2, ScsiQuiet
  <2>. QED
    BY <2>2, <2>3
<1>1. CASE r.naca
  BY <1>1 DEF ScsiExecute
<1>2. ASSUME ~r.naca PROVE r.op \notin ScsiWrites \cup {"SynchronizeCache10"}
  BY <1>2 DEF ScsiWrites
<1>3. ~r.naca => r.op \in {"TestUnitReady", "RequestSense", "Inquiry", "ModeSense6", "ReadCapacity10", "ReadCapacity16",
                            "ReportSupportedOperationCodes"}
  BY ScsiAssumption DEF ScsiOpcodes
<1>. SUFFICES ASSUME ~r.naca PROVE \E sense : \E bytes \in Nat : o = ScsiOut(u, sense, bytes)
  BY <1>1, <1>2
<1>4. CASE r.op = "TestUnitReady"
  BY <1>4 DEF ScsiExecute
<1>5. CASE r.op = "RequestSense"
  BY <1>5 DEF ScsiExecute, ScsiRequestSense
<1>6. CASE r.op = "Inquiry"
  <2>1. o \in ScsiInquiry(u, r)
    BY <1>6 DEF ScsiExecute
  <2>. QED
    BY <2>1, ScsiLengths DEF ScsiInquiry
<1>7. CASE r.op = "ModeSense6"
  <2>1. o \in ScsiModeSense(u, r)
    BY <1>7 DEF ScsiExecute
  <2>2. r.page \in {"current", "default", "changeable", "saved"}
    BY <1>7, ScsiAssumption
  <2>. QED
    BY <2>1, <2>2 DEF ScsiModeSense
<1>8. CASE r.op \in {"ReadCapacity10", "ReadCapacity16"}
  <2>1. o \in ScsiReadCapacity(u, 8) \/ o \in ScsiReadCapacity(u, 32)
    BY <1>8 DEF ScsiExecute
  <2>. QED
    BY <2>1 DEF ScsiReadCapacity, ScsiSized
<1>9. CASE r.op = "ReportSupportedOperationCodes"
  <2>1. o \in ScsiReportCodes(u, r)
    BY <1>9 DEF ScsiExecute
  <2>2. r.mode \in {"all", "either", "command", "action"}
    BY <1>9, ScsiAssumption
  <2>. DEFINE one == ScsiOut(u, "GOOD", 4 + ScsiOpcodes[r.code][2] + (IF r.rctd THEN 12 ELSE 0))
  <2>3. r.code \in DOMAIN ScsiOpcodes => \E bytes \in Nat : one = ScsiOut(u, "GOOD", bytes)
    BY ScsiLengths
  <2>4. CASE r.mode = "all"
    <3>1. Cardinality(DOMAIN ScsiOpcodes) * (IF r.rctd THEN 20 ELSE 8) \in Nat
      BY ScsiLengths
    <3>2. o = ScsiOut(u, "GOOD", 4 + Cardinality(DOMAIN ScsiOpcodes) * (IF r.rctd THEN 20 ELSE 8))
      BY <2>1, <2>4 DEF ScsiReportCodes
    <3>. HIDE DEF one
    <3>. QED
      BY <3>1, <3>2
  <2>5. CASE o = one /\ r.code \in DOMAIN ScsiOpcodes
    BY <2>3, <2>5
  <2>6. CASE r.mode # "all" /\ ~(o = one /\ r.code \in DOMAIN ScsiOpcodes)
    BY <2>1, <2>2, <2>6 DEF ScsiReportCodes
  <2>. QED
    BY <2>4, <2>5, <2>6
<1>. QED
  BY <1>3, <1>4, <1>5, <1>6, <1>7, <1>8, <1>9

LEMMA ScsiExecutes ==
  ASSUME NEW n \in Nat, NEW u \in ScsiUnits(n), NEW r \in ScsiRequests, NEW o \in ScsiExecute(u, r), n + r.n <= ScsiTop,
         r.op \notin {"ReportLuns", "unknown"}
  PROVE  ScsiLegal(u, r, n, o)
<1>1. CASE r.naca \/ r.op \notin {"Read10", "Write10", "WriteSame16", "SynchronizeCache10"}
  BY <1>1, ScsiTells
<1>2. CASE ~r.naca /\ r.op = "Read10"
  BY <1>2, ScsiReads DEF ScsiExecute
<1>3. CASE ~r.naca /\ r.op = "Write10"
  BY <1>3, ScsiWritesTen DEF ScsiExecute
<1>4. CASE ~r.naca /\ r.op = "WriteSame16"
  BY <1>4, ScsiSames DEF ScsiExecute
<1>5. CASE ~r.naca /\ r.op = "SynchronizeCache10"
  <2>1. CASE o = ScsiOut(u, "TARGET_FAILURE", 0)
    BY <2>1, ScsiQuiet
  <2>2. CASE o = ScsiOut(ScsiSync(u), "GOOD", 0)
    <3>1. o = [unit |-> ScsiSync(u), sense |-> "GOOD", bytes |-> 0, blocks |-> <<>>]
      BY <2>2 DEF ScsiOut
    <3>2. ScsiSync(u) \in ScsiUnits(n) /\ ScsiSync(u).image = u.image /\ ScsiSync(u).disk = u.image
      BY ScsiSynced
    <3>. QED
      BY <1>5, <3>1, <3>2 DEF ScsiLegal, ScsiWrites
  <2>. QED
    BY <1>5, <2>1, <2>2 DEF ScsiExecute
<1>. QED
  BY <1>1, <1>2, <1>3, <1>4, <1>5

-----------------------------------------------------------------------------
(* What the guest may expect of a block is what the image has of it, and   *)
(* what it may expect after a loss of power is what image and disk have.   *)

ScsiHas(known, safe, image, disk) ==
  /\ known \in {ScsiAny, image}
  /\ safe = ScsiAny \/ (safe = image /\ safe = disk)

ScsiTyped ==
  /\ scsi_worker \in {"run", "dead"} /\ scsi_wp \in BOOLEAN
  /\ scsi_ring \in RingsOf(ScsiRequests)
  /\ \A f \in {scsi_image, scsi_disk, scsi_known, scsi_safe} : f = [l \in ScsiLuns |-> f[l]]
  /\ \A l \in ScsiLuns : {scsi_image[l], scsi_disk[l]} \subseteq [ScsiBlocks(l) -> ScsiValues]

ScsiIInv ==
  /\ ScsiTyped /\ ScsiReadsBack /\ ScsiResidual
  /\ \A l \in ScsiLuns : \A b \in ScsiBlocks(l) : ScsiHas(scsi_known[l][b], scsi_safe[l][b], scsi_image[l][b], scsi_disk[l][b])

LEMMA ScsiUnitIs ==
  ASSUME ScsiTyped, NEW l \in ScsiLuns
  PROVE  /\ ScsiImages[l] \in Nat
         /\ ScsiUnit(l) \in ScsiUnits(ScsiImages[l]) /\ ScsiUnit(l).image = scsi_image[l] /\ ScsiUnit(l).disk = scsi_disk[l]
<1>1. ScsiImages[l] \in Nat
  BY ScsiAssumption DEF ScsiLuns
<1>2. scsi_image[l] \in ScsiFiles(ScsiImages[l]) /\ scsi_disk[l] \in ScsiFiles(ScsiImages[l])
  BY DEF ScsiTyped, ScsiFiles, ScsiBlocks
<1>3. ScsiUnit(l) = [image |-> scsi_image[l], disk |-> scsi_disk[l]]
  BY DEF ScsiUnit
<1>. QED
  BY <1>1, <1>2, <1>3 DEF ScsiUnits

\* What the target answers, for a unit that there is and for one that there is not
LEMMA ScsiTargets ==
  ASSUME ScsiTyped, NEW r \in ScsiRequests, NEW o \in ScsiTarget(r)
  PROVE  /\ r.lun \in ScsiLuns => ScsiLegal(ScsiUnit(r.lun), r, ScsiImages[r.lun], o)
         /\ r.lun \notin ScsiLuns => o.bytes \in Nat /\ o.blocks = <<>>
<1>. DEFINE u == ScsiUnit(r.lun)
<1>1. \A sense : \A bytes \in Nat :
        o = ScsiOut(u, sense, bytes) /\ (sense = "GOOD" => r.op \notin ScsiWrites \cup {"SynchronizeCache10"}) =>
          /\ r.lun \in ScsiLuns => ScsiLegal(u, r, ScsiImages[r.lun], o)
          /\ r.lun \notin ScsiLuns => o.bytes \in Nat /\ o.blocks = <<>>
  <2>. SUFFICES ASSUME NEW sense, NEW bytes \in Nat, o = ScsiOut(u, sense, bytes),
                       sense = "GOOD" => r.op \notin ScsiWrites \cup {"SynchronizeCache10"}
                PROVE  /\ r.lun \in ScsiLuns => ScsiLegal(u, r, ScsiImages[r.lun], o)
                       /\ r.lun \notin ScsiLuns => o.bytes \in Nat /\ o.blocks = <<>>
    OBVIOUS
  <2>1. o = [unit |-> u, sense |-> sense, bytes |-> bytes, blocks |-> <<>>]
    BY DEF ScsiOut
  <2>2. ASSUME r.lun \in ScsiLuns PROVE ScsiLegal(u, r, ScsiImages[r.lun], o)
    <3>1. ScsiImages[r.lun] \in Nat /\ u \in ScsiUnits(ScsiImages[r.lun])
      BY <2>2, ScsiUnitIs
    <3>2. ScsiLegal(u, r, ScsiImages[r.lun], ScsiOut(u, sense, bytes))
      BY <3>1, ScsiQuiet
    <3>. QED
      BY <3>2
  <2>. QED
    BY <2>1, <2>2
<1>. HIDE DEF u
<1>2. CASE r.op = "unknown"
  <2>1. o = ScsiOut(u, "INVALID_COMMAND_OPERATION_CODE", 0)
    BY <1>2 DEF ScsiTarget, u
  <2>. QED
    BY <2>1, <1>1 DEF u
<1>3. CASE r.op # "unknown" /\ ScsiInvalid(r)
  <2>1. o = ScsiOut(u, "INVALID_FIELD_IN_CDB", 0)
    BY <1>3 DEF ScsiTarget, u
  <2>. QED
    BY <2>1, <1>1 DEF u
<1>4. CASE r.op = "ReportLuns" /\ ~ScsiInvalid(r)
  <2>1. PICK bytes \in Nat : o = ScsiOut(u, "GOOD", bytes)
    <3>1. Len(ScsiImages) \in Nat
      BY ScsiAssumption
    <3>. QED
      BY <1>4, <3>1 DEF ScsiTarget, u
  <2>2. r.op \notin ScsiWrites \cup {"SynchronizeCache10"}
    BY <1>4 DEF ScsiWrites
  <2>. QED
    BY <2>1, <2>2, <1>1 DEF u
<1>. DEFINE plain == r.op # "unknown" /\ ~ScsiInvalid(r) /\ r.op # "ReportLuns"
<1>5. CASE plain /\ r.lun \in ScsiLuns
  <2>1. o \in ScsiExecute(u, r)
    BY <1>5 DEF ScsiTarget, u
  <2>2. ScsiImages[r.lun] \in Nat /\ u \in ScsiUnits(ScsiImages[r.lun])
    BY <1>5, ScsiUnitIs DEF u
  <2>3. ScsiImages[r.lun] + r.n <= ScsiTop
    BY <1>5, ScsiAssumption DEF ScsiLuns
  <2>. QED
    BY <1>5, <2>1, <2>2, <2>3, ScsiExecutes DEF u
<1>6. CASE plain /\ r.lun \notin ScsiLuns
  <2>1. o \in ScsiMissingLun(u, r)
    BY <1>6 DEF ScsiTarget, u
  <2>2. PICK sense : \E bytes \in Nat : o = ScsiOut(u, sense, bytes)
    BY <2>1 DEF ScsiMissingLun, ScsiRequestSense
  <2>. QED
    BY <1>6, <2>2 DEF ScsiOut
<1>. QED
  BY <1>2, <1>3, <1>4, <1>5, <1>6 DEF u

\* The lengths of an answer
LEMMA ScsiSumsUp ==
  ASSUME NEW r \in ScsiRequests, NEW o, o.bytes \in Nat
  PROVE  ScsiAnswered(r, o).bytes + ScsiAnswered(r, o).residual = ScsiAnswered(r, o).room
<1>1. r.alloc \in Nat /\ r.room \in Nat
  BY ScsiAssumption
<1>. DEFINE m == Min({o.bytes, r.alloc})
<1>2. m \in Nat
  BY <1>1 DEF Min
<1>. HIDE DEF m
<1>3. CASE m > r.room
  BY <1>1, <1>3 DEF ScsiAnswered, m
<1>4. CASE ~(m > r.room)
  BY <1>1, <1>2, <1>4 DEF ScsiAnswered, m
<1>. QED
  BY <1>3, <1>4

\* What the guest expects of a block that a command was about or not
LEMMA ScsiExpects ==
  ASSUME ScsiIInv, NEW r \in ScsiRequests, NEW o, NEW a, NEW l \in ScsiLuns, l = r.lun, ScsiLegal(ScsiUnit(l), r, ScsiImages[l], o),
         NEW b \in ScsiBlocks(l)
  PROVE  ScsiHas(ScsiExpected(r, o, a)[b], ScsiExpectedLater(r, o, ScsiExpected(r, o, a))[b], o.unit.image[b], o.unit.disk[b])
<1>. DEFINE known  == ScsiExpected(r, o, a)
            later  == ScsiExpectedLater(r, o, known)
            writes == r.op \in ScsiWrites /\ o.sense \in {"GOOD", "TARGET_FAILURE"}
            image  == o.unit.image[b]
            disk   == o.unit.disk[b]
<1>0. r.lba \in Nat /\ r.n \in Nat /\ ScsiImages[l] \in Nat /\ b \in 0 .. ScsiImages[l] - 1 /\ b \in Int
  BY ScsiAssumption DEF ScsiLuns, ScsiBlocks
<1>1. /\ ScsiHas(scsi_known[l][b], scsi_safe[l][b], scsi_image[l][b], scsi_disk[l][b])
      /\ ScsiUnit(l).image = scsi_image[l] /\ ScsiUnit(l).disk = scsi_disk[l]
  BY ScsiUnitIs DEF ScsiIInv
<1>2. /\ writes \/ image = scsi_image[l][b]
      /\ ScsiWithin(r, b) \/ image = scsi_image[l][b]
      /\ ScsiWithin(r, b) /\ writes /\ o.sense = "GOOD" => image = r.val
      /\ disk \in {scsi_disk[l][b], image}
      /\ o.sense = "GOOD" /\ ScsiSyncs(r) => disk = image
  <2>1. o.unit.disk \in {scsi_disk[l], o.unit.image} /\ (writes \/ o.unit.image = scsi_image[l])
        /\ (o.sense = "GOOD" /\ ScsiSyncs(r) => o.unit.disk = o.unit.image)
    BY <1>1 DEF ScsiLegal
  <2>2. /\ ScsiWithin(r, b) \/ o.unit.image[b] = ScsiUnit(l).image[b]
        /\ ScsiWithin(r, b) /\ r.op \in ScsiWrites /\ o.sense = "GOOD" => o.unit.image[b] = r.val
    BY <1>0 DEF ScsiLegal
  <2>. HIDE DEF writes
  <2>3. /\ ScsiWithin(r, b) \/ image = scsi_image[l][b]
        /\ ScsiWithin(r, b) /\ writes /\ o.sense = "GOOD" => image = r.val
    BY <2>2, <1>1 DEF writes
  <2>. QED
    BY <2>1, <2>3
<1>3. known[b] = IF ~writes \/ ~ScsiWithin(r, b) THEN scsi_known[l][b] ELSE IF o.sense = "GOOD" THEN r.val ELSE ScsiAny
  <2>1. CASE ~writes
    BY <2>1 DEF ScsiExpected
  <2>2. CASE writes
    <3>1. known = [c \in ScsiBlocks(l) |->
                    IF c < r.lba \/ c >= r.lba + r.n THEN scsi_known[l][c] ELSE IF o.sense = "GOOD" THEN r.val ELSE ScsiAny]
      BY <2>2 DEF ScsiExpected
    <3>2. ScsiWithin(r, b) <=> ~(b < r.lba \/ b >= r.lba + r.n)
      BY <1>0 DEF ScsiWithin
    <3>. HIDE DEF known
    <3>. QED
      BY <2>2, <3>1, <3>2
  <2>. QED
    BY <2>1, <2>2
<1>4. later[b] = IF o.sense = "GOOD" /\ ScsiSyncs(r) THEN known[b]
                 ELSE IF known[b] = scsi_safe[l][b] THEN known[b]
                 ELSE IF r.op \in ScsiWrites /\ ScsiWithin(r, b) THEN ScsiAny ELSE scsi_safe[l][b]
  <2>. HIDE DEF known
  <2>1. CASE o.sense = "GOOD" /\ ScsiSyncs(r)
    BY <2>1 DEF ScsiExpectedLater, ScsiSyncs
  <2>2. CASE ~(o.sense = "GOOD" /\ ScsiSyncs(r))
    <3>1. later = [c \in ScsiBlocks(l) |-> IF known[c] = scsi_safe[l][c] THEN known[c] ELSE
                    IF r.op \in ScsiWrites /\ c >= r.lba /\ c < r.lba + r.n THEN ScsiAny ELSE scsi_safe[l][c]]
      BY <2>2 DEF ScsiExpectedLater, ScsiSyncs
    <3>2. ScsiWithin(r, b) <=> (b >= r.lba /\ b < r.lba + r.n)
      BY <1>0 DEF ScsiWithin
    <3>. HIDE DEF later
    <3>. QED
      BY <2>2, <3>1, <3>2
  <2>. QED
    BY <2>1, <2>2
<1>7. writes => r.op \in ScsiWrites
  OBVIOUS
<1>. HIDE DEF known, later, writes, image, disk
<1>6. known[b] \in {ScsiAny, image}
  <2>1. CASE writes /\ ScsiWithin(r, b)
    BY <2>1, <1>2, <1>3
  <2>2. CASE ~writes \/ ~ScsiWithin(r, b)
    BY <2>2, <1>1, <1>2, <1>3 DEF ScsiHas
  <2>. QED
    BY <2>1, <2>2
<1>5. later[b] = ScsiAny \/ (later[b] = image /\ later[b] = disk)
  <2>1. CASE o.sense = "GOOD" /\ ScsiSyncs(r)
    BY <2>1, <1>2, <1>4, <1>6
  <2>2. CASE ~(o.sense = "GOOD" /\ ScsiSyncs(r)) /\ known[b] = scsi_safe[l][b]
    <3>1. scsi_safe[l][b] = ScsiAny \/ (scsi_safe[l][b] = image /\ scsi_disk[l][b] = scsi_safe[l][b])
      BY <2>2, <1>1, <1>6 DEF ScsiHas
    <3>. QED
      BY <2>2, <3>1, <1>2, <1>4
  <2>3. CASE ~(o.sense = "GOOD" /\ ScsiSyncs(r)) /\ known[b] # scsi_safe[l][b]
    <3>1. CASE r.op \in ScsiWrites /\ ScsiWithin(r, b)
      BY <3>1, <2>3, <1>4
    <3>2. CASE ~(r.op \in ScsiWrites /\ ScsiWithin(r, b))
      <4>1. image = scsi_image[l][b] /\ later[b] = scsi_safe[l][b]
        BY <3>2, <2>3, <1>2, <1>4, <1>7
      <4>. QED
        BY <4>1, <1>1, <1>2 DEF ScsiHas
    <3>. QED
      BY <3>1, <3>2
  <2>. QED
    BY <2>1, <2>2, <2>3
<1>8. ScsiHas(known[b], later[b], image, disk)
  BY <1>5, <1>6 DEF ScsiHas
<1>. QED
  BY <1>8 DEF known, later, image, disk

-----------------------------------------------------------------------------
LEMMA ScsiQueues ==
  ASSUME ScsiTyped
  PROVE  /\ Collect(scsi_ring) \in RingsOf(ScsiRequests) /\ SignalUsed(scsi_ring) \in RingsOf(ScsiRequests)
         /\ EmptyRing \in RingsOf(ScsiRequests)
         /\ Serving(scsi_ring) => Request(scsi_ring) \in ScsiRequests /\ AddUsed(scsi_ring) \in RingsOf(ScsiRequests)
         /\ \A r \in ScsiRequests : Offer(scsi_ring, r) \in RingsOf(ScsiRequests)
<1>1. EmptyRing \in RingsOf(ScsiRequests)
  BY DEF EmptyRing, RingsOf
<1>. QED
  BY <1>1, RingStays DEF ScsiTyped

LEMMA ScsiServeKeeps == ScsiIInv /\ ScsiServe => ScsiIInv'
<1>. SUFFICES ASSUME ScsiIInv, ScsiServe PROVE ScsiIInv'
  OBVIOUS
<1>. DEFINE r == Request(scsi_ring)
<1>1. ScsiTyped /\ r \in ScsiRequests
      /\ AddUsed(scsi_ring) \in RingsOf(ScsiRequests)
  BY ScsiQueues DEF ScsiIInv, ScsiServe
<1>2. PICK o \in ScsiTarget(r) :
        /\ scsi_worker' \in {"run", "dead"} /\ scsi_ring' \in {scsi_ring, AddUsed(scsi_ring)}
        /\ scsi_answer' = ScsiAnswered(r, o)
        /\ \/ scsi_read' = <<>>
           \/ o.blocks # <<>> /\ scsi_read' = [k \in DOMAIN o.blocks |-> <<o.blocks[k], scsi_known[r.lun][r.lba + k - 1]>>]
        /\ IF r.lun \in ScsiLuns
           THEN /\ scsi_image' = [scsi_image EXCEPT ![r.lun] = o.unit.image]
                /\ scsi_disk'  = [scsi_disk EXCEPT ![r.lun] = o.unit.disk]
                /\ scsi_known' = [scsi_known EXCEPT ![r.lun] = ScsiExpected(r, o, ScsiAnswered(r, o))]
                /\ scsi_safe'  = [scsi_safe EXCEPT ![r.lun] = ScsiExpectedLater(r, o, ScsiExpected(r, o, ScsiAnswered(r, o)))]
           ELSE UNCHANGED <<scsiFiles, scsi_known, scsi_safe>>
  BY DEF ScsiServe
<1>3. scsi_wp' = scsi_wp
  BY DEF ScsiServe
<1>. HIDE DEF r
<1>. DEFINE l == r.lun  n == ScsiImages[r.lun]
<1>4. l \in ScsiLuns => ScsiLegal(ScsiUnit(l), r, n, o) /\ n \in Nat /\ ScsiUnit(l).image = scsi_image[l]
  BY <1>1, <1>2, ScsiTargets, ScsiUnitIs
<1>5. ScsiResidual'
  <2>1. o.bytes \in Nat
    BY <1>1, <1>2, <1>4, ScsiTargets DEF ScsiLegal
  <2>. QED
    BY <1>1, <1>2, <2>1, ScsiSumsUp DEF ScsiResidual
<1>6. ScsiReadsBack'
  <2>. SUFFICES ASSUME o.blocks # <<>>, scsi_read' = [k \in DOMAIN o.blocks |-> <<o.blocks[k], scsi_known[l][r.lba + k - 1]>>],
                       NEW k \in DOMAIN o.blocks
                PROVE  scsi_read'[k][2] \in {ScsiAny, scsi_read'[k][1]}
    BY <1>2 DEF ScsiReadsBack
  <2>1. l \in ScsiLuns
    BY <1>1, <1>2, ScsiTargets
  <2>2. o.blocks = [i \in 1 .. r.n |-> scsi_image[l][r.lba + i - 1]] /\ r.lba + r.n <= n /\ n \in Nat
    BY <2>1, <1>4 DEF ScsiLegal
  <2>3. r.n \in Nat /\ r.lba \in Nat
    BY <1>1, ScsiAssumption
  <2>. DEFINE b == r.lba + k - 1
  <2>4. k \in 1 .. r.n /\ o.blocks[k] = scsi_image[l][b]
    BY <2>2
  <2>5. b \in ScsiBlocks(l)
    BY <2>2, <2>3, <2>4 DEF ScsiBlocks
  <2>6. scsi_known[l][b] \in {ScsiAny, scsi_image[l][b]}
    BY <2>1, <2>5 DEF ScsiIInv, ScsiHas
  <2>. HIDE DEF b, l
  <2>7. scsi_read'[k] = <<scsi_image[l][b], scsi_known[l][b]>>
    BY <2>4 DEF b
  <2>. QED
    BY <2>6, <2>7
<1>7. CASE l \notin ScsiLuns
  BY <1>1, <1>2, <1>3, <1>5, <1>6, <1>7 DEF ScsiIInv, ScsiTyped, scsiFiles
<1>8. CASE l \in ScsiLuns
  <2>. DEFINE known == ScsiExpected(r, o, ScsiAnswered(r, o))
              later == ScsiExpectedLater(r, o, known)
  <2>1. \A b \in ScsiBlocks(l) : ScsiHas(known[b], later[b], o.unit.image[b], o.unit.disk[b])
    BY <1>1, <1>4, <1>8, ScsiExpects
  <2>2. {o.unit.image, o.unit.disk} \subseteq [ScsiBlocks(l) -> ScsiValues]
    BY <1>4, <1>8 DEF ScsiLegal, ScsiUnits, ScsiFiles, ScsiBlocks
  <2>3. /\ scsi_image' = [scsi_image EXCEPT ![l] = o.unit.image] /\ scsi_disk'  = [scsi_disk EXCEPT ![l] = o.unit.disk]
        /\ scsi_known' = [scsi_known EXCEPT ![l] = known] /\ scsi_safe'  = [scsi_safe EXCEPT ![l] = later]
    BY <1>2, <1>8
  <2>. HIDE DEF known, later, l
  <2>4. \A m \in ScsiLuns :
          /\ scsi_image'[m] = (IF m = l THEN o.unit.image ELSE scsi_image[m]) /\ scsi_disk'[m] = (IF m = l THEN o.unit.disk ELSE scsi_disk[m])
          /\ scsi_known'[m] = (IF m = l THEN known ELSE scsi_known[m]) /\ scsi_safe'[m] = (IF m = l THEN later ELSE scsi_safe[m])
    BY <1>1, <2>3 DEF ScsiTyped
  <2>5. ScsiTyped'
    <3>1. \A f \in {scsi_image', scsi_disk', scsi_known', scsi_safe'} : f = [m \in ScsiLuns |-> f[m]]
      BY <1>1, <2>3 DEF ScsiTyped
    <3>2. \A m \in ScsiLuns : {scsi_image'[m], scsi_disk'[m]} \subseteq [ScsiBlocks(m) -> ScsiValues]
      BY <1>1, <2>2, <2>4 DEF ScsiTyped
    <3>3. scsi_ring' \in RingsOf(ScsiRequests) /\ scsi_worker' \in {"run", "dead"} /\ scsi_wp' \in BOOLEAN
      BY <1>1, <1>2, <1>3 DEF ScsiTyped
    <3>. QED
      BY <3>1, <3>2, <3>3 DEF ScsiTyped, ScsiLuns, ScsiBlocks
  <2>6. ASSUME NEW m \in ScsiLuns, NEW b \in ScsiBlocks(m)
        PROVE  ScsiHas(scsi_known'[m][b], scsi_safe'[m][b], scsi_image'[m][b], scsi_disk'[m][b])
    BY <2>1, <2>4 DEF ScsiIInv
  <2>. QED
    BY <1>5, <1>6, <2>5, <2>6 DEF ScsiIInv, ScsiLuns, ScsiBlocks, ScsiHas
<1>. QED
  BY <1>7, <1>8

LEMMA ScsiRestKeeps ==
  ASSUME ScsiIInv, ScsiCollect \/ ScsiRefuse \/ ScsiSignal \/ (\E r \in ScsiRequests : ScsiGuest(r)) \/ UNCHANGED ScsiVars
  PROVE  ScsiIInv'
<1>1. UNCHANGED <<scsi_image, scsi_disk, scsi_wp, scsi_worker, scsi_known, scsi_safe, scsi_read>>
  BY DEF ScsiCollect, ScsiRefuse, ScsiSignal, ScsiGuest, ScsiVars, scsiFiles, scsiGuest
<1>2. scsi_ring' \in RingsOf(ScsiRequests)
  BY ScsiQueues DEF ScsiIInv, ScsiCollect, ScsiRefuse, ScsiSignal, ScsiGuest, ScsiVars, ScsiTyped
<1>3. ScsiResidual'
  <2>1. CASE ScsiRefuse
    <3>1. Request(scsi_ring).room \in Nat
      BY <2>1, ScsiQueues, ScsiAssumption DEF ScsiIInv, ScsiRefuse
    <3>. QED
      BY <2>1, <3>1 DEF ScsiRefuse, ScsiResidual
  <2>2. CASE ~ScsiRefuse
    <3>1. scsi_answer' = scsi_answer
      BY <2>2 DEF ScsiCollect, ScsiSignal, ScsiGuest, ScsiVars, scsiGuest
    <3>. QED
      BY <3>1 DEF ScsiIInv, ScsiResidual
  <2>. QED
    BY <2>1, <2>2
<1>4. ScsiTyped'
  BY <1>1, <1>2 DEF ScsiIInv, ScsiTyped, ScsiLuns, ScsiBlocks
<1>. QED
  BY <1>1, <1>3, <1>4 DEF ScsiIInv, ScsiReadsBack

LEMMA ScsiHostKeeps ==
  ASSUME ScsiIInv, ScsiPower \/ (\E l \in ScsiLuns : \E b \in ScsiBlocks(l) : ScsiWriteBack(l, b))
  PROVE  ScsiIInv'
<1>1. CASE ScsiPower
  <2>1. ScsiTyped'
    BY <1>1, ScsiQueues DEF ScsiPower, ScsiIInv, ScsiTyped
  <2>2. \A l \in ScsiLuns : \A b \in ScsiBlocks(l) :
          ScsiHas(scsi_known'[l][b], scsi_safe'[l][b], scsi_image'[l][b], scsi_disk'[l][b])
    BY <1>1 DEF ScsiPower, ScsiIInv, ScsiHas
  <2>3. ScsiReadsBack' /\ ScsiResidual'
    BY <1>1 DEF ScsiPower, ScsiReadsBack, ScsiResidual, ScsiNoAnswer
  <2>. QED
    BY <2>1, <2>2, <2>3 DEF ScsiIInv
<1>2. ASSUME NEW l \in ScsiLuns, NEW b \in ScsiBlocks(l), ScsiWriteBack(l, b) PROVE ScsiIInv'
  <2>1. /\ UNCHANGED <<scsi_ring, scsi_image, scsi_wp, scsi_worker, scsi_known, scsi_safe, scsi_read, scsi_answer>>
        /\ scsi_disk' = [scsi_disk EXCEPT ![l] = [scsi_disk[l] EXCEPT ![b] = scsi_image[l][b]]]
    BY <1>2 DEF ScsiWriteBack, scsiGuest
  <2>. DEFINE f == [scsi_disk[l] EXCEPT ![b] = scsi_image[l][b]]
  <2>2. scsi_image[l] \in [ScsiBlocks(l) -> ScsiValues] /\ scsi_disk[l] \in [ScsiBlocks(l) -> ScsiValues]
        /\ scsi_disk = [m \in ScsiLuns |-> scsi_disk[m]]
    BY DEF ScsiIInv, ScsiTyped
  <2>3. f \in [ScsiBlocks(l) -> ScsiValues] /\ \A c \in ScsiBlocks(l) : f[c] \in {scsi_disk[l][c], scsi_image[l][c]}
    BY <2>2
  <2>. HIDE DEF f
  <2>4. scsi_disk' = [scsi_disk EXCEPT ![l] = f]
    BY <2>1 DEF f
  <2>5. scsi_disk' = [m \in ScsiLuns |-> scsi_disk'[m]] /\ \A m \in ScsiLuns : scsi_disk'[m] = IF m = l THEN f ELSE scsi_disk[m]
    BY <2>2, <2>4
  <2>6. ScsiTyped'
    <3>1. \A g \in {scsi_image', scsi_disk', scsi_known', scsi_safe'} : g = [m \in ScsiLuns |-> g[m]]
      BY <2>1, <2>5 DEF ScsiIInv, ScsiTyped
    <3>2. \A m \in ScsiLuns : {scsi_image'[m], scsi_disk'[m]} \subseteq [ScsiBlocks(m) -> ScsiValues]
      BY <2>1, <2>3, <2>5 DEF ScsiIInv, ScsiTyped
    <3>. QED
      BY <2>1, <3>1, <3>2 DEF ScsiIInv, ScsiTyped, ScsiLuns, ScsiBlocks
  <2>7. ASSUME NEW m \in ScsiLuns, NEW c \in ScsiBlocks(m)
        PROVE  ScsiHas(scsi_known'[m][c], scsi_safe'[m][c], scsi_image'[m][c], scsi_disk'[m][c])
    <3>1. ScsiHas(scsi_known[m][c], scsi_safe[m][c], scsi_image[m][c], scsi_disk[m][c])
      BY DEF ScsiIInv
    <3>2. scsi_disk'[m][c] \in {scsi_disk[m][c], scsi_image[m][c]}
      BY <2>3, <2>5
    <3>. QED
      BY <2>1, <3>1, <3>2 DEF ScsiHas
  <2>. QED
    BY <2>1, <2>6, <2>7 DEF ScsiIInv, ScsiLuns, ScsiBlocks, ScsiHas, ScsiReadsBack, ScsiResidual
<1>. QED
  BY <1>1, <1>2

LEMMA ScsiBegins == ScsiInit => ScsiIInv
<1>. SUFFICES ASSUME ScsiInit PROVE ScsiIInv
  OBVIOUS
<1>. DEFINE v == CHOOSE w \in ScsiValues : TRUE
<1>1. v \in ScsiValues
  BY ScsiAssumption
<1>. HIDE DEF v
<1>2. /\ scsi_image = [l \in ScsiLuns |-> [b \in ScsiBlocks(l) |-> v]]
      /\ scsi_disk = scsi_image /\ scsi_known = scsi_image /\ scsi_safe = scsi_image
  BY DEF ScsiInit, v
<1>3. ScsiTyped
  <2>1. \A l \in ScsiLuns : scsi_image[l] \in [ScsiBlocks(l) -> ScsiValues]
    BY <1>1, <1>2
  <2>2. scsi_image = [l \in ScsiLuns |-> scsi_image[l]]
    BY <1>2
  <2>3. scsi_ring \in RingsOf(ScsiRequests)
    BY DEF ScsiInit, EmptyRing, RingsOf
  <2>. QED
    BY <1>2, <2>1, <2>2, <2>3 DEF ScsiInit, ScsiTyped
<1>. QED
  BY <1>2, <1>3 DEF ScsiInit, ScsiIInv, ScsiHas, ScsiReadsBack, ScsiResidual, ScsiNoAnswer

\* What is written is read back, what is synced is on the disk after a loss of
\* power, and the lengths of an answer make up the guest's buffer: for any images,
\* and any requests (block_device.rs, target.rs).
THEOREM ScsiHolds == ScsiSpec => []ScsiInv
<1>1. ScsiIInv /\ [ScsiNext]_ScsiVars => ScsiIInv'
  BY ScsiServeKeeps, ScsiRestKeeps, ScsiHostKeeps DEF ScsiNext
<1>2. ScsiIInv => ScsiInv
  <2>. SUFFICES ASSUME ScsiIInv PROVE ScsiInv
    OBVIOUS
  <2>1. ScsiTypeOK
    BY DEF ScsiIInv, ScsiTyped, ScsiTypeOK
  <2>2. ScsiDurable
    BY DEF ScsiIInv, ScsiHas, ScsiDurable
  <2>. QED
    BY <2>1, <2>2 DEF ScsiIInv, ScsiInv
<1>. QED
  BY ScsiBegins, <1>1, <1>2, PTL DEF ScsiSpec

-----------------------------------------------------------------------------
(* SCSI: the answer in its chain.  Each of the two writers is at the byte   *)
(* that it counts itself to be at, so what it writes is where it belongs,   *)
(* however the chain is cut; the response ends before the data begins.      *)

ChainStages == {"skip", "skipping", "request", "data", "residual", "response", "used"}

ChainCursors(cuts) == [at : 1 .. Len(cuts), offset : Nat]
ChainWriters == [at : 1 .. Len(chain_out), offset : Nat, written : Nat]

\* A cursor is in front of a byte of its descriptor, of which an empty one has none.
ChainIn(cuts, c) ==
  ~ChainEnded(cuts, c) => c.offset < ChainLen(cuts, c.at) \/ (c.offset = 0 /\ ChainLen(cuts, c.at) = 0)

ChainCutting == chain_in \in ChainCuts(ChainRequestSize + 1) /\ chain_out \in ChainCuts(ChainBuffer)

ChainTyped ==
  /\ ChainCutting
  /\ chain_stage \in ChainStages /\ chain_code \in {"none", "Ok", "Failure", "BadTarget", "Overrun"}
  /\ chain_got \in 0 .. ChainRequestSize
  /\ chain_left \in Nat
  /\ chain_stage = "data" => chain_left <= ChainData
  /\ chain_stage # "data" => chain_left <= ChainSkipped
  /\ chain_max \in Nat /\ chain_residual \in Nat
  /\ chain_reader \in ChainCursors(chain_in) /\ ChainIn(chain_in, chain_reader)
  /\ chain_writer \in [{"response", "data"} -> ChainWriters]

\* The writer of the response.
ChainResponding ==
  LET r == chain_writer["response"] IN
  /\ ChainIn(chain_out, r) /\ ChainPosition(r) = r.written /\ r.written <= ChainSkipped
  /\ ChainEnded(chain_out, r) => r.offset = 0
  /\ chain_stage \notin {"response", "used"} => r.written = 0
  /\ chain_stage = "response" => /\ r.written + chain_left <= ChainSkipped
                                 /\ r.written + chain_left >= ChainHeaderSize
  /\ chain_stage = "used" => \/ chain_left = 0 /\ r.written >= ChainHeaderSize
                             \/ ChainEnded(chain_out, r)
                             \/ ChainLen(chain_out, r.at) = 0

\* The copy that writes the data, when it has skipped the response, and then
\* goes to the end.
ChainCopying ==
  LET d == chain_writer["data"]  roomy == ChainRoom >= ChainSkipped IN
  /\ chain_stage = "skip" => d = ChainNew /\ chain_max = 0
  /\ chain_stage # "skip" =>
       /\ chain_max = d.written /\ d.written >= ChainSkipped
       /\ d.written <= ChainSkipped \/ d.written <= ChainRoom
  /\ chain_stage \in {"skip", "skipping", "request", "data"} => chain_residual = 0 /\ chain_code # "Overrun"
  /\ chain_stage = "residual" => chain_code # "Overrun"
  /\ chain_stage \in {"skipping", "request", "data"} => ChainPosition(d) = d.written
  /\ chain_stage \in {"request", "data", "residual"} =>
       ChainIn(chain_out, d) /\ (roomy /\ ChainEnded(chain_out, d) => d.offset = 0)
  /\ chain_stage = "residual" /\ roomy => ChainPosition(d) = d.written + chain_residual
  /\ chain_stage \in {"response", "used"} /\ roomy /\ chain_code # "Overrun" => d.written + chain_residual = ChainRoom
  /\ ~roomy => chain_residual = 0 /\ (chain_stage = "residual" => ChainEnded(chain_out, d))

\* The byte that a place has.
ChainAt(p) ==
  IF p <= chain_writer["response"].written THEN <<"response", p>>
  ELSE IF p > ChainSkipped /\ p <= chain_writer["data"].written THEN <<"data", p>>
  ELSE ChainNothing

ChainPlaces == chain_placed = [p \in 1 .. ChainRoom |-> ChainAt(p)]

ChainFull ==
  chain_code = "Overrun" =>
    (\E d \in 1 .. Len(chain_out) - 1 : ChainLen(chain_out, d) = 0) \/ chain_writer["data"].written >= ChainRoom

ChainIInv == ChainTyped /\ ChainResponding /\ ChainCopying /\ ChainPlaces /\ ChainFull

\* What a cut chain is.
LEMMA ChainCutIs ==
  ASSUME NEW size \in Nat, NEW cuts \in ChainCuts(size)
  PROVE  /\ Len(cuts) \in Nat /\ Len(cuts) >= 1 /\ DOMAIN cuts = 1 .. Len(cuts) /\ cuts[1] = 0
         /\ \A i \in 1 .. Len(cuts) : cuts[i] \in Nat /\ cuts[i] <= cuts[Len(cuts)]
         /\ \A i \in 1 .. Len(cuts) : i # Len(cuts) => i + 1 \in 1 .. Len(cuts) /\ ChainLen(cuts, i) \in Nat
<1>1. PICK n \in 0 .. ChainDescriptors : cuts \in [1 .. n + 1 -> 0 .. size]
  BY DEF ChainCuts
<1>2. cuts[1] = 0 /\ \A i, j \in DOMAIN cuts : i <= j => cuts[i] <= cuts[j]
  BY DEF ChainCuts
<1>3. n \in Nat /\ Len(cuts) = n + 1 /\ DOMAIN cuts = 1 .. n + 1
  BY <1>1, ChainAssumption
<1>4. \A i \in 1 .. n + 1 : cuts[i] \in Nat /\ cuts[i] <= cuts[n + 1]
  BY <1>1, <1>2, <1>3
<1>5. ASSUME NEW i \in 1 .. n + 1, i # n + 1 PROVE i + 1 \in 1 .. n + 1 /\ ChainLen(cuts, i) \in Nat
  BY <1>1, <1>2, <1>3, <1>5 DEF ChainLen
<1> QED
  BY <1>2, <1>3, <1>4, <1>5

LEMMA ChainSizes ==
  /\ ChainBuffer \in Nat /\ ChainRequestSize \in Nat /\ ChainRequestSize + 1 \in Nat
  /\ ChainHeaderSize \in Nat /\ ChainSenseSize \in Nat /\ ChainSkipped \in Nat /\ ChainData \in Nat
  BY ChainAssumption DEF ChainSkipped

LEMMA ChainLesser ==
  ASSUME NEW a \in Int, NEW b \in Int
  PROVE  Min({a, b}) = (IF a <= b THEN a ELSE b) /\ Max({a, b}) = (IF a <= b THEN b ELSE a)
<1>1. Min({a, b}) \in {a, b} /\ Min({a, b}) <= a /\ Min({a, b}) <= b
  <2>1. \E x \in {a, b} : \A y \in {a, b} : x <= y
    OBVIOUS
  <2> QED
    BY <2>1 DEF Min
<1>2. Max({a, b}) \in {a, b} /\ Max({a, b}) >= a /\ Max({a, b}) >= b
  <2>1. \E x \in {a, b} : \A y \in {a, b} : x >= y
    OBVIOUS
  <2> QED
    BY <2>1 DEF Max
<1> QED
  BY <1>1, <1>2

\* A step of a cursor, by what is left of its descriptor at most.
LEMMA ChainTakes ==
  ASSUME NEW size \in Nat, NEW cuts \in ChainCuts(size), NEW c, c.at \in 1 .. Len(cuts), c.offset \in Nat, ChainIn(cuts, c),
         NEW n \in Nat
  PROVE  /\ ChainTaken(cuts, c, n) \in Nat /\ ChainTaken(cuts, c, n) <= n
         /\ ~ChainEnded(cuts, c) => c.offset + ChainTaken(cuts, c, n) <= ChainLen(cuts, c.at)
         /\ ChainTaken(cuts, c, n) = 0 /\ n # 0 => ChainEnded(cuts, c) \/ ChainLen(cuts, c.at) = 0
<1>1. CASE ChainEnded(cuts, c)
  BY <1>1 DEF ChainTaken
<1>2. CASE ~ChainEnded(cuts, c)
  <2>1. ChainLen(cuts, c.at) \in Nat /\ c.offset <= ChainLen(cuts, c.at) /\ (c.offset = ChainLen(cuts, c.at) => ChainLen(cuts, c.at) = 0)
    BY <1>2, ChainCutIs DEF ChainIn, ChainEnded
  <2>2. ChainTaken(cuts, c, n) = IF ChainLen(cuts, c.at) - c.offset <= n THEN ChainLen(cuts, c.at) - c.offset ELSE n
    BY <1>2, <2>1, ChainLesser DEF ChainTaken
  <2> QED
    BY <2>1, <2>2
<1> QED
  BY <1>1, <1>2

\* A cursor that takes a step is again in front of a byte, so much further.
LEMMA ChainSteps ==
  ASSUME NEW size \in Nat, NEW cuts \in ChainCuts(size), NEW at \in 1 .. Len(cuts), NEW offset \in Nat,
         at # Len(cuts), NEW n \in Nat, offset + n <= ChainLen(cuts, at), n > 0
  PROVE  /\ cuts[at] \in Nat /\ cuts[at] + offset + n <= cuts[Len(cuts)]
         /\ offset + n = ChainLen(cuts, at) =>
              /\ at + 1 \in 1 .. Len(cuts) /\ cuts[at + 1] = cuts[at] + offset + n
              /\ at + 1 # Len(cuts) => 0 < ChainLen(cuts, at + 1) \/ ChainLen(cuts, at + 1) = 0
         /\ offset + n # ChainLen(cuts, at) => offset + n < ChainLen(cuts, at)
<1>1. /\ at + 1 \in 1 .. Len(cuts) /\ ChainLen(cuts, at) = cuts[at + 1] - cuts[at]
      /\ cuts[at] \in Nat /\ cuts[at + 1] \in Nat /\ cuts[at + 1] <= cuts[Len(cuts)]
      /\ Len(cuts) \in Nat /\ cuts[Len(cuts)] \in Nat
      /\ at + 1 # Len(cuts) => ChainLen(cuts, at + 1) \in Nat
  BY ChainCutIs DEF ChainLen
<1> DEFINE l == ChainLen(cuts, at)  m == ChainLen(cuts, at + 1)  p == cuts[at]  q == cuts[at + 1]  e == cuts[Len(cuts)]
<1>2. /\ at + 1 \in 1 .. Len(cuts) /\ l = q - p /\ p \in Nat /\ q \in Nat /\ q <= e /\ e \in Nat
      /\ at + 1 # Len(cuts) => m \in Nat
  BY <1>1
<1>3. offset + n <= l
  OBVIOUS
<1> HIDE DEF l, m, p, q, e
<1>4. p + offset + n <= e
  BY <1>2, <1>3
<1>5. offset + n = l => q = p + offset + n
  BY <1>2
<1>6. offset + n # l => offset + n < l
  BY <1>2, <1>3
<1>7. at + 1 # Len(cuts) => 0 < m \/ m = 0
  BY <1>2
<1> QED
  BY <1>2, <1>4, <1>5, <1>6, <1>7, Zenon DEF l, m, p, q, e

\* The two writers.
ChainW == {"response", "data"}

\* A write of the response or of the data.
LEMMA ChainWrote ==
  ASSUME ChainTyped, NEW w \in ChainW, NEW m \in Nat, ChainIn(chain_out, chain_writer[w]),
         ChainPosition(chain_writer[w]) = chain_writer[w].written,
         NEW n, n = ChainTaken(chain_out, chain_writer[w], m), n # 0, ChainWrite(w, n)
  PROVE  /\ n \in Nat /\ n <= m /\ ~ChainEnded(chain_out, chain_writer[w])
         /\ chain_writer' \in [ChainW -> ChainWriters]
         /\ \A v \in ChainW : v # w => chain_writer'[v] = chain_writer[v]
         /\ chain_writer'[w].written = chain_writer[w].written + n
         /\ chain_writer[w].written + n <= ChainRoom
         /\ ChainIn(chain_out, chain_writer'[w]) /\ (ChainEnded(chain_out, chain_writer'[w]) => chain_writer'[w].offset = 0)
         /\ chain_out[chain_writer'[w].at] + chain_writer'[w].offset = chain_writer'[w].written
         /\ chain_max' = (IF chain_max <= chain_writer[w].written + n THEN chain_writer[w].written + n ELSE chain_max)
         /\ chain_placed' = [q \in DOMAIN chain_placed |->
              IF q \in chain_writer[w].written + 1 .. chain_writer[w].written + n THEN <<w, q>> ELSE chain_placed[q]]
<1> DEFINE c == chain_writer[w]
<1>1. c \in ChainWriters /\ chain_out \in ChainCuts(ChainBuffer) /\ chain_max \in Nat
  BY DEF ChainTyped, ChainCutting, ChainW
<1>2. c.at \in 1 .. Len(chain_out) /\ c.offset \in Nat /\ c.written \in Nat
  BY <1>1 DEF ChainWriters
<1>3. n \in Nat /\ n <= m /\ (~ChainEnded(chain_out, c) => c.offset + n <= ChainLen(chain_out, c.at))
  BY <1>1, <1>2, ChainTakes, ChainSizes
<1>4. ~ChainEnded(chain_out, c)
  BY DEF ChainTaken
<1>5. chain_writer' = [chain_writer EXCEPT ![w] = [ChainStep(chain_out, c, n) EXCEPT !.written = @ + n]]
  BY DEF ChainWrite
<1>6. PICK at2, offset2 :
        /\ chain_writer' = [chain_writer EXCEPT ![w] = [at |-> at2, offset |-> offset2, written |-> c.written + n]]
        /\ \/ c.offset + n = ChainLen(chain_out, c.at) /\ at2 = c.at + 1 /\ offset2 = 0
           \/ c.offset + n # ChainLen(chain_out, c.at) /\ at2 = c.at /\ offset2 = c.offset + n
  <2>1. CASE c.offset + n = ChainLen(chain_out, c.at)
    <3>1. ChainStep(chain_out, c, n) = [at |-> c.at + 1, offset |-> 0, written |-> c.written]
      BY <1>1, <2>1 DEF ChainStep, ChainWriters
    <3>2. [ChainStep(chain_out, c, n) EXCEPT !.written = @ + n] = [at |-> c.at + 1, offset |-> 0, written |-> c.written + n]
      BY <3>1
    <3> QED
      BY <1>5, <2>1, <3>2, Zenon
  <2>2. CASE c.offset + n # ChainLen(chain_out, c.at)
    <3>1. ChainStep(chain_out, c, n) = [at |-> c.at, offset |-> c.offset + n, written |-> c.written]
      BY <1>1, <2>2 DEF ChainStep, ChainWriters
    <3>2. [ChainStep(chain_out, c, n) EXCEPT !.written = @ + n] = [at |-> c.at, offset |-> c.offset + n, written |-> c.written + n]
      BY <3>1
    <3> QED
      BY <1>5, <2>2, <3>2, Zenon
  <2> QED
    BY <2>1, <2>2
<1>7. /\ at2 \in 1 .. Len(chain_out) /\ offset2 \in Nat
      /\ chain_out[at2] + offset2 = chain_out[c.at] + c.offset + n
      /\ at2 = Len(chain_out) => offset2 = 0
      /\ at2 # Len(chain_out) => offset2 < ChainLen(chain_out, at2) \/ (offset2 = 0 /\ ChainLen(chain_out, at2) = 0)
      /\ chain_out[c.at] + c.offset + n <= chain_out[Len(chain_out)]
  <2> DEFINE at == c.at  off == c.offset
  <2>1. at \in 1 .. Len(chain_out) /\ off \in Nat /\ at # Len(chain_out) /\ n > 0 /\ off + n <= ChainLen(chain_out, at)
    BY <1>2, <1>3, <1>4 DEF ChainEnded
  <2>2. \/ off + n = ChainLen(chain_out, at) /\ at2 = at + 1 /\ offset2 = 0
        \/ off + n # ChainLen(chain_out, at) /\ at2 = at /\ offset2 = off + n
    BY <1>6
  <2>3. ChainBuffer \in Nat /\ chain_out \in ChainCuts(ChainBuffer)
    BY <1>1, ChainSizes
  <2> HIDE DEF at, off
  <2>4. /\ at2 \in 1 .. Len(chain_out) /\ offset2 \in Nat
        /\ chain_out[at2] + offset2 = chain_out[at] + off + n
        /\ at2 = Len(chain_out) => offset2 = 0
        /\ at2 # Len(chain_out) => offset2 < ChainLen(chain_out, at2) \/ (offset2 = 0 /\ ChainLen(chain_out, at2) = 0)
        /\ chain_out[at] + off + n <= chain_out[Len(chain_out)]
    <3>1. /\ chain_out[at] \in Nat /\ chain_out[at] + off + n <= chain_out[Len(chain_out)]
          /\ off + n = ChainLen(chain_out, at) =>
               /\ at + 1 \in 1 .. Len(chain_out) /\ chain_out[at + 1] = chain_out[at] + off + n
               /\ at + 1 # Len(chain_out) => 0 < ChainLen(chain_out, at + 1) \/ ChainLen(chain_out, at + 1) = 0
          /\ off + n # ChainLen(chain_out, at) => off + n < ChainLen(chain_out, at)
      <4>1. at \in 1 .. Len(chain_out) /\ off \in Nat /\ n \in Nat /\ n > 0
        BY <1>3, <2>1
      <4>2. at # Len(chain_out) /\ off + n <= ChainLen(chain_out, at)
        BY <2>1
      <4> QED
        BY <4>1, <4>2, <2>3, ChainSteps, SMTT(60)
    <3>2. CASE off + n = ChainLen(chain_out, at)
      BY <3>1, <3>2, <2>1, <2>2, <1>3
    <3>3. CASE off + n # ChainLen(chain_out, at)
      BY <3>1, <3>3, <2>1, <2>2, <1>3
    <3> QED
      BY <3>2, <3>3
  <2> QED
    BY <2>4 DEF at, off
<1>8. chain_out[c.at] + c.offset = c.written
  BY DEF ChainPosition
<1>9. [at |-> at2, offset |-> offset2, written |-> c.written + n] \in ChainWriters
  BY <1>2, <1>3, <1>7 DEF ChainWriters
<1>10. chain_writer \in [ChainW -> ChainWriters]
  BY DEF ChainTyped, ChainW
<1>11. chain_writer' \in [ChainW -> ChainWriters] /\ (\A v \in ChainW : v # w => chain_writer'[v] = chain_writer[v])
       /\ chain_writer'[w] = [at |-> at2, offset |-> offset2, written |-> c.written + n]
  <2> DEFINE e == [at |-> at2, offset |-> offset2, written |-> c.written + n]
  <2>1. e \in ChainWriters /\ chain_writer' = [chain_writer EXCEPT ![w] = e]
    BY <1>6, <1>9
  <2> HIDE DEF e
  <2>2. chain_writer' \in [ChainW -> ChainWriters] /\ (\A v \in ChainW : v # w => chain_writer'[v] = chain_writer[v]) /\ chain_writer'[w] = e
    BY <2>1, <1>10
  <2> QED
    BY <2>2 DEF e
<1>12. chain_max' = (IF chain_max <= c.written + n THEN c.written + n ELSE chain_max)
  <2>1. chain_max' = Max({chain_max, c.written + n})
    BY DEF ChainWrite, ChainCounted
  <2>2. chain_max \in Int /\ c.written + n \in Int
    BY <1>1, <1>2, <1>3
  <2> HIDE DEF c
  <2> QED
    BY <2>1, <2>2, ChainLesser
<1>13. chain_placed' = [q \in DOMAIN chain_placed |-> IF q \in c.written + 1 .. c.written + n THEN <<w, q>> ELSE chain_placed[q]]
  <2>1. chain_placed' = [q \in DOMAIN chain_placed |->
          IF q \in c.written + 1 .. c.written + n THEN <<w, c.written + q - c.written>> ELSE chain_placed[q]]
    BY DEF ChainWrite
  <2>2. \A q : q \in c.written + 1 .. c.written + n => c.written + q - c.written = q
    BY <1>2, <1>3
  <2> QED
    BY <2>1, <2>2, Zenon
<1>14. /\ chain_writer'[w].written = c.written + n /\ c.written + n <= ChainRoom
       /\ chain_out[chain_writer'[w].at] + chain_writer'[w].offset = chain_writer'[w].written
  BY <1>7, <1>8, <1>11 DEF ChainRoom
<1>15. ChainIn(chain_out, chain_writer'[w]) /\ (ChainEnded(chain_out, chain_writer'[w]) => chain_writer'[w].offset = 0)
  BY <1>7, <1>11 DEF ChainIn, ChainEnded
<1> QED
  BY <1>3, <1>4, <1>11, <1>12, <1>13, <1>14, <1>15, Zenon

\* What the writers are at.
LEMMA ChainHolders ==
  ASSUME ChainTyped
  PROVE  /\ \A w \in ChainW : /\ chain_writer[w].at \in 1 .. Len(chain_out) /\ chain_writer[w].offset \in Nat
                              /\ chain_writer[w].written \in Nat
         /\ chain_writer \in [ChainW -> ChainWriters]
         /\ ChainRoom \in Nat /\ Len(chain_out) \in Nat
         /\ \A i \in 1 .. Len(chain_out) : chain_out[i] \in Nat /\ chain_out[i] <= ChainRoom
         /\ \A i \in 1 .. Len(chain_out) : i # Len(chain_out) =>
              /\ i + 1 \in 1 .. Len(chain_out) /\ ChainLen(chain_out, i) \in Nat
              /\ chain_out[i + 1] = chain_out[i] + ChainLen(chain_out, i)
<1>1. chain_writer \in [ChainW -> ChainWriters]
  BY DEF ChainTyped, ChainW
<1>2. \A w \in ChainW : /\ chain_writer[w].at \in 1 .. Len(chain_out) /\ chain_writer[w].offset \in Nat
                        /\ chain_writer[w].written \in Nat
  BY <1>1 DEF ChainWriters
<1>3. chain_out \in ChainCuts(ChainBuffer) /\ ChainBuffer \in Nat
  BY ChainSizes DEF ChainTyped, ChainCutting
<1>4. /\ Len(chain_out) \in Nat /\ Len(chain_out) >= 1
      /\ \A i \in 1 .. Len(chain_out) : chain_out[i] \in Nat /\ chain_out[i] <= chain_out[Len(chain_out)]
      /\ \A i \in 1 .. Len(chain_out) : i # Len(chain_out) => i + 1 \in 1 .. Len(chain_out) /\ ChainLen(chain_out, i) \in Nat
  BY <1>3, ChainCutIs
<1>5. ChainRoom = chain_out[Len(chain_out)] /\ ChainRoom \in Nat
  BY <1>4 DEF ChainRoom
<1>6. \A i \in 1 .. Len(chain_out) : i # Len(chain_out) => chain_out[i + 1] = chain_out[i] + ChainLen(chain_out, i)
  BY <1>4 DEF ChainLen
<1> QED
  BY <1>1, <1>2, <1>4, <1>5, <1>6

LEMMA ChainSkipKeeps == ASSUME ChainIInv, ChainSkip PROVE ChainIInv'
<1> DEFINE d == chain_writer["data"]  r == chain_writer["response"]
<1>1. /\ ChainTyped /\ d = ChainNew /\ chain_max = 0 /\ chain_out' = chain_out /\ chain_stage = "skip"
      /\ chain_stage' = "skipping" /\ chain_residual = 0 /\ chain_code # "Overrun" /\ r.written = 0
  BY DEF ChainIInv, ChainCopying, ChainResponding, ChainSkip
<1>2. chain_writer' = [chain_writer EXCEPT !["data"] = [at |-> 1, offset |-> ChainSkipped, written |-> ChainSkipped]]
  <2>1. [[d EXCEPT !.offset = ChainSkipped] EXCEPT !.written = ChainSkipped] = [at |-> 1, offset |-> ChainSkipped, written |-> ChainSkipped]
    <3>1. d \in ChainWriters /\ d.at = 1
      BY <1>1, ChainHolders DEF ChainNew, ChainW
    <3> DEFINE k == ChainSkipped
    <3> HIDE DEF d, k
    <3>2. [d EXCEPT !.offset = k] = [at |-> 1, offset |-> k, written |-> d.written]
      BY <3>1 DEF ChainWriters
    <3>3. [[d EXCEPT !.offset = k] EXCEPT !.written = k] = [at |-> 1, offset |-> k, written |-> k]
      <4> DEFINE x == [d EXCEPT !.offset = k]
      <4>1. x = [at |-> 1, offset |-> k, written |-> d.written]
        BY <3>2
      <4> HIDE DEF x
      <4>2. [x EXCEPT !.written = k] = [at |-> 1, offset |-> k, written |-> k]
        BY <4>1
      <4> QED
        BY <4>2 DEF x
    <3> QED
      BY <3>3 DEF k
  <2>2. chain_writer' = [chain_writer EXCEPT !["data"] = [[d EXCEPT !.offset = ChainSkipped] EXCEPT !.written = ChainSkipped]]
    BY DEF ChainSkip
  <2> QED
    BY <2>1, <2>2, Zenon
<1>3. [at |-> 1, offset |-> ChainSkipped, written |-> ChainSkipped] \in ChainWriters
  BY <1>1, ChainHolders, ChainSizes DEF ChainWriters, ChainW, ChainNew
<1>4. /\ chain_writer' \in [ChainW -> ChainWriters] /\ chain_writer'["response"] = r
      /\ chain_writer'["data"] = [at |-> 1, offset |-> ChainSkipped, written |-> ChainSkipped]
  BY <1>1, <1>2, <1>3, ChainHolders DEF ChainW
<1>5. chain_max' = ChainSkipped
  <2>1. chain_max' = Max({0, ChainSkipped}) /\ ChainSkipped \in Nat
    BY <1>1, ChainSizes DEF ChainSkip, ChainCounted
  <2> QED
    BY <2>1, ChainLesser
<1>6. ChainTyped'
  <2>1. ChainSkipped \in Nat
    BY ChainSizes
  <2> QED
    BY <1>1, <1>4, <1>5, <2>1 DEF ChainTyped, ChainSkip, ChainCutting, ChainStages, ChainCursors,
       ChainWriters, ChainW, ChainIn, ChainEnded, ChainLen
<1>7. ChainResponding'
  BY <1>1, <1>4 DEF ChainResponding, ChainIInv, ChainIn, ChainEnded, ChainLen, ChainPosition
<1>8. ChainCopying'
  <2>1. chain_out[1] = 0 /\ ChainSkipped \in Nat
    <3>1. chain_out \in ChainCuts(ChainBuffer)
      BY <1>1 DEF ChainTyped, ChainCutting
    <3> QED
      BY <3>1, ChainSizes DEF ChainCuts
  <2>2. chain_residual' = 0 /\ chain_code' # "Overrun"
    BY <1>1 DEF ChainSkip
  <2> QED
    BY <1>1, <1>4, <1>5, <2>1, <2>2 DEF ChainCopying, ChainPosition
<1>9. ChainPlaces'
  <2>1. chain_placed = [p \in 1 .. ChainRoom |-> ChainAt(p)] /\ chain_placed' = chain_placed
    BY DEF ChainIInv, ChainPlaces, ChainSkip
  <2>2. ASSUME NEW p \in 1 .. ChainRoom PROVE ChainAt(p)' = ChainAt(p)
    <3>1. p \in Int /\ ~(p <= 0) /\ ChainSkipped \in Nat
      BY <1>1, ChainHolders, ChainSizes
    <3>2. ChainAt(p) = ChainNothing
      BY <1>1, <3>1 DEF ChainAt, ChainNew
    <3>3. ChainAt(p)' = ChainNothing
      BY <1>1, <1>4, <3>1 DEF ChainAt, ChainNothing, ChainSkipped
    <3> QED
      BY <3>2, <3>3
  <2>3. ChainRoom' = ChainRoom
    BY <1>1 DEF ChainRoom
  <2> QED
    BY <2>1, <2>2, <2>3 DEF ChainPlaces
<1>10. ChainFull'
  BY <1>1 DEF ChainFull, ChainSkip
<1> QED
  BY <1>6, <1>7, <1>8, <1>9, <1>10 DEF ChainIInv

\* A step that writes nothing, at most moves the writer of the data.
LEMMA ChainStays ==
  ASSUME ChainPlaces, chain_placed' = chain_placed, chain_out' = chain_out,
         chain_writer'["response"].written = chain_writer["response"].written,
         chain_writer'["data"].written = chain_writer["data"].written
  PROVE  ChainPlaces'
<1>1. \A p : ChainAt(p)' = ChainAt(p)
  BY DEF ChainAt, ChainNothing, ChainSkipped
<1>2. ChainRoom' = ChainRoom
  BY DEF ChainRoom
<1> QED
  BY <1>1, <1>2 DEF ChainPlaces

\* And moves it like this.
LEMMA ChainMoves ==
  ASSUME ChainTyped, NEW at \in 1 .. Len(chain_out), NEW offset \in Nat,
         NEW m, m = [[chain_writer["data"] EXCEPT !.at = at] EXCEPT !.offset = offset],
         chain_writer' = [chain_writer EXCEPT !["data"] = m]
  PROVE  /\ chain_writer' \in [ChainW -> ChainWriters] /\ chain_writer'["response"] = chain_writer["response"]
         /\ chain_writer'["data"] = [at |-> at, offset |-> offset, written |-> chain_writer["data"].written]
<1> DEFINE d == chain_writer["data"]
<1>1. d \in ChainWriters /\ d.written \in Nat /\ chain_writer \in [ChainW -> ChainWriters]
  BY ChainHolders DEF ChainW
<1>2. m = [at |-> at, offset |-> offset, written |-> d.written]
  BY <1>1 DEF ChainWriters
<1>3. m \in ChainWriters
  BY <1>1, <1>2 DEF ChainWriters
<1> HIDE DEF d
<1>4. chain_writer' \in [ChainW -> ChainWriters] /\ chain_writer'["response"] = chain_writer["response"] /\ chain_writer'["data"] = m
  BY <1>1, <1>3 DEF ChainW
<1> QED
  BY <1>2, <1>4 DEF d

\* In a buffer that is too short for the response the copy is at the end.
LEMMA ChainTooShort ==
  ASSUME ChainTyped, ChainIn(chain_out, chain_writer["data"]),
         ChainPosition(chain_writer["data"]) = chain_writer["data"].written,
         chain_writer["data"].written >= ChainSkipped, ~(ChainRoom >= ChainSkipped)
  PROVE  ChainEnded(chain_out, chain_writer["data"])
<1> DEFINE d == chain_writer["data"]
<1> SUFFICES ASSUME ~ChainEnded(chain_out, d) PROVE FALSE
  OBVIOUS
<1>1. /\ d.at \in 1 .. Len(chain_out) /\ d.at # Len(chain_out) /\ d.offset \in Nat /\ d.written \in Nat
      /\ ChainRoom \in Nat /\ ChainSkipped \in Nat
  BY ChainHolders, ChainSizes DEF ChainW, ChainEnded
<1>2. /\ d.at + 1 \in 1 .. Len(chain_out) /\ chain_out[d.at] \in Nat /\ chain_out[d.at + 1] <= ChainRoom
      /\ ChainLen(chain_out, d.at) \in Nat /\ chain_out[d.at + 1] = chain_out[d.at] + ChainLen(chain_out, d.at)
      /\ chain_out[d.at + 1] \in Nat
  BY <1>1, ChainHolders
<1>3. d.offset <= ChainLen(chain_out, d.at) /\ chain_out[d.at] + d.offset = d.written
  BY <1>1, <1>2 DEF ChainIn, ChainPosition
<1> DEFINE l == ChainLen(chain_out, d.at)  p == chain_out[d.at]  q == chain_out[d.at + 1]  o == d.offset  w == d.written
<1>4. /\ l \in Nat /\ p \in Nat /\ q \in Nat /\ o \in Nat /\ q <= ChainRoom /\ q = p + l /\ o <= l /\ p + o = w
      /\ w >= ChainSkipped /\ ChainRoom \in Nat /\ ChainSkipped \in Nat /\ ~(ChainRoom >= ChainSkipped)
  BY <1>1, <1>2, <1>3
<1> HIDE DEF l, p, q, o, w, d
<1> QED
  BY <1>4

LEMMA ChainSkippingKeeps == ASSUME ChainIInv, ChainSkipping PROVE ChainIInv'
<1> DEFINE c == chain_writer["data"]
<1>1. /\ ChainTyped /\ ChainResponding /\ ChainCopying /\ ChainPlaces /\ ChainFull /\ chain_stage = "skipping"
      /\ chain_out' = chain_out /\ chain_placed' = chain_placed /\ chain_max' = chain_max
      /\ chain_residual' = chain_residual /\ chain_code' = chain_code
  BY DEF ChainIInv, ChainSkipping
<1>2. /\ c.at \in 1 .. Len(chain_out) /\ c.offset \in Nat /\ c.written \in Nat
      /\ chain_writer \in [ChainW -> ChainWriters]
      /\ chain_out[c.at] \in Nat /\ chain_out[c.at] + c.offset = c.written /\ ChainRoom \in Nat
      /\ ChainSkipped \in Nat /\ Len(chain_out) \in Nat
  BY <1>1, ChainHolders, ChainSizes DEF ChainCopying, ChainPosition, ChainW
<1>3. ASSUME ChainPassed(c) PROVE ChainIInv'
  <2> DEFINE at == c.at + 1  offset == c.offset - ChainLen(chain_out, c.at)
  <2>1. /\ at \in 1 .. Len(chain_out) /\ ChainLen(chain_out, c.at) \in Nat
        /\ chain_out[at] = chain_out[c.at] + ChainLen(chain_out, c.at)
        /\ ChainLen(chain_out, c.at) <= c.offset
    BY <1>1, <1>2, <1>3, ChainHolders DEF ChainPassed, ChainEnded
  <2>2. offset \in Nat /\ chain_out[at] + offset = c.written
    BY <1>2, <2>1
  <2>3. chain_writer' = [chain_writer EXCEPT !["data"] = [[c EXCEPT !.at = at] EXCEPT !.offset = offset]] /\ chain_stage' = "skipping"
    BY <1>1, <1>3 DEF ChainSkipping
  <2> HIDE DEF at, offset
  <2>4. /\ chain_writer' \in [ChainW -> ChainWriters] /\ chain_writer'["response"] = chain_writer["response"]
        /\ chain_writer'["data"] = [at |-> at, offset |-> offset, written |-> c.written]
    BY <1>1, <2>1, <2>2, <2>3, ChainMoves
  <2>5. ChainTyped'
    BY <1>1, <2>3, <2>4 DEF ChainTyped, ChainSkipping, ChainCutting, ChainStages, ChainCursors,
       ChainWriters, ChainW, ChainIn, ChainEnded, ChainLen, ChainSkipped
  <2>6. ChainResponding'
    BY <1>1, <2>3, <2>4 DEF ChainResponding, ChainIn, ChainEnded, ChainLen, ChainPosition, ChainSkipped
  <2>7. ChainCopying'
    BY <1>1, <2>2, <2>3, <2>4 DEF ChainCopying, ChainPosition, ChainRoom, ChainSkipped
  <2>8. ChainPlaces'
    BY <1>1, <2>4, ChainStays
  <2>9. ChainFull'
    BY <1>1 DEF ChainCopying, ChainFull
  <2> QED
    BY <2>5, <2>6, <2>7, <2>8, <2>9 DEF ChainIInv
<1>4. ASSUME ~ChainPassed(c) PROVE ChainIInv'
  <2>1. chain_stage' = "request" /\ chain_writer' = chain_writer
    BY <1>4 DEF ChainSkipping
  <2>2. ChainTyped'
    BY <1>1, <2>1 DEF ChainTyped, ChainSkipping, ChainCutting, ChainStages, ChainCursors,
       ChainWriters, ChainIn, ChainEnded, ChainLen, ChainSkipped
  <2>3. ChainResponding'
    BY <1>1, <2>1 DEF ChainResponding, ChainIn, ChainEnded, ChainLen, ChainPosition, ChainSkipped
  <2>4. ChainIn(chain_out, c)
    BY <1>1, <1>2, <1>4, ChainHolders DEF ChainPassed, ChainIn, ChainEnded
  <2>5. ChainRoom >= ChainSkipped /\ ChainEnded(chain_out, c) => c.offset = 0
    <3>1. c.written >= ChainSkipped /\ (c.written <= ChainSkipped \/ c.written <= ChainRoom)
      BY <1>1 DEF ChainCopying
    <3> QED
      BY <1>2, <3>1 DEF ChainEnded, ChainRoom
  <2>6. ChainCopying'
    BY <1>1, <2>1, <2>4, <2>5 DEF ChainCopying, ChainPosition, ChainRoom, ChainSkipped, ChainIn,
       ChainEnded, ChainLen
  <2>7. ChainPlaces'
    BY <1>1, <2>1, ChainStays
  <2>8. ChainFull'
    BY <1>1 DEF ChainCopying, ChainFull
  <2> QED
    BY <2>2, <2>3, <2>6, <2>7, <2>8 DEF ChainIInv
<1> QED
  BY <1>3, <1>4

LEMMA ChainReadKeeps == ASSUME ChainIInv, ChainRead PROVE ChainIInv'
<1> DEFINE n == ChainTaken(chain_in, chain_reader, ChainRequestSize - chain_got)
<1>1. /\ ChainTyped /\ ChainResponding /\ ChainCopying /\ ChainPlaces /\ ChainFull /\ chain_stage = "request"
      /\ chain_out' = chain_out /\ chain_in' = chain_in /\ chain_placed' = chain_placed
      /\ chain_max' = chain_max /\ chain_residual' = chain_residual
      /\ chain_writer' = chain_writer /\ chain_left' = chain_left /\ chain_got < ChainRequestSize
  BY DEF ChainIInv, ChainRead
<1>2. /\ chain_stage' \in {"request", "residual"} /\ chain_code' \in {chain_code, "Failure"}
      /\ chain_got' \in 0 .. ChainRequestSize
      /\ chain_reader' \in ChainCursors(chain_in) /\ ChainIn(chain_in, chain_reader')
  <2>1. CASE n = 0
    BY <1>1, <2>1 DEF ChainRead, ChainTyped
  <2>2. CASE n # 0
    <3> DEFINE c == chain_reader  left == ChainRequestSize - chain_got
    <3>1. /\ chain_reader' = ChainStep(chain_in, c, n) /\ chain_got' = chain_got + n
          /\ chain_stage' = chain_stage /\ chain_code' = chain_code
      BY <2>2 DEF ChainRead
    <3>2. /\ chain_in \in ChainCuts(ChainRequestSize + 1) /\ ChainRequestSize + 1 \in Nat
          /\ c.at \in 1 .. Len(chain_in) /\ c.offset \in Nat
          /\ ChainIn(chain_in, c) /\ left \in Nat /\ left > 0
          /\ c = [at |-> c.at, offset |-> c.offset] /\ chain_got \in Nat
      BY <1>1, ChainSizes DEF ChainTyped, ChainCutting, ChainCursors
    <3>3. n \in Nat /\ n <= left /\ (~ChainEnded(chain_in, c) => c.offset + n <= ChainLen(chain_in, c.at))
      BY <3>2, ChainTakes
    <3>4. ~ChainEnded(chain_in, c)
      BY <2>2 DEF ChainTaken
    <3>5. chain_got' \in 0 .. ChainRequestSize
      BY <3>1, <3>2, <3>3, ChainSizes
    <3>6. /\ c.at + 1 \in 1 .. Len(chain_in) /\ (c.at + 1 # Len(chain_in) => ChainLen(chain_in, c.at + 1) \in Nat)
          /\ c.at # Len(chain_in) /\ ChainLen(chain_in, c.at) \in Nat
      BY <3>2, <3>4, ChainCutIs DEF ChainEnded
    <3>7. chain_reader' \in ChainCursors(chain_in) /\ ChainIn(chain_in, chain_reader')
      <4> HIDE DEF n
      <4>1. CASE c.offset + n = ChainLen(chain_in, c.at)
        <5>1. chain_reader' = [at |-> c.at + 1, offset |-> 0]
          BY <3>1, <3>2, <4>1 DEF ChainStep
        <5> QED
          BY <3>6, <5>1 DEF ChainCursors, ChainIn, ChainEnded
      <4>2. CASE c.offset + n # ChainLen(chain_in, c.at)
        <5>1. chain_reader' = [at |-> c.at, offset |-> c.offset + n]
          BY <3>1, <3>2, <4>2 DEF ChainStep
        <5>2. c.offset + n < ChainLen(chain_in, c.at) /\ c.offset + n \in Nat
          BY <3>2, <3>3, <3>4, <3>6, <4>2
        <5> QED
          BY <3>2, <5>1, <5>2 DEF ChainCursors, ChainIn, ChainEnded
      <4> QED
        BY <4>1, <4>2
    <3> QED
      BY <1>1, <3>1, <3>5, <3>7
  <2> QED
    BY <2>1, <2>2
<1>3. ChainTyped'
  BY <1>1, <1>2 DEF ChainTyped, ChainCutting, ChainStages, ChainCursors, ChainWriters, ChainIn,
     ChainEnded, ChainLen, ChainSkipped
<1>4. ChainResponding'
  BY <1>1, <1>2 DEF ChainResponding, ChainIn, ChainEnded, ChainLen, ChainPosition, ChainSkipped
<1>5. ChainCopying'
  <2>1. chain_writer["data"].written \in Nat /\ chain_residual = 0
    BY <1>1, ChainHolders DEF ChainCopying, ChainW
  <2>2. ChainPosition(chain_writer["data"]) = chain_writer["data"].written
    BY <1>1 DEF ChainCopying
  <2>3. ~(ChainRoom >= ChainSkipped) => ChainEnded(chain_out, chain_writer["data"])
    BY <1>1, <2>2, ChainTooShort DEF ChainCopying
  <2> QED
    BY <1>1, <1>2, <2>1, <2>2, <2>3 DEF ChainCopying, ChainPosition, ChainRoom, ChainSkipped, ChainIn,
       ChainEnded, ChainLen
<1>6. ChainPlaces'
  BY <1>1, ChainStays
<1>7. ChainFull'
  BY <1>1, <1>2 DEF ChainCopying, ChainFull
<1> QED
  BY <1>3, <1>4, <1>5, <1>6, <1>7 DEF ChainIInv

LEMMA ChainExecuteKeeps == ASSUME ChainIInv, ChainExecute PROVE ChainIInv'
<1>1. /\ ChainTyped /\ ChainResponding /\ ChainCopying /\ ChainPlaces /\ ChainFull /\ chain_stage = "request"
      /\ chain_out' = chain_out /\ chain_in' = chain_in /\ chain_placed' = chain_placed
      /\ chain_max' = chain_max /\ chain_residual' = chain_residual
      /\ chain_writer' = chain_writer /\ chain_reader' = chain_reader /\ chain_got' = chain_got
  BY DEF ChainIInv, ChainExecute
<1>2. /\ chain_stage' \in {"data", "residual"} /\ chain_code' \in {"Ok", "Failure", "BadTarget"}
      /\ chain_stage' = "data" => chain_left' \in Nat /\ chain_left' <= ChainData
      /\ chain_stage' # "data" => chain_left' = chain_left
  BY ChainSizes DEF ChainExecute
<1>3. ChainTyped'
  BY <1>1, <1>2 DEF ChainTyped, ChainCutting, ChainStages, ChainCursors, ChainWriters, ChainIn,
     ChainEnded, ChainLen, ChainSkipped
<1>4. ChainResponding'
  BY <1>1, <1>2 DEF ChainResponding, ChainIn, ChainEnded, ChainLen, ChainPosition, ChainSkipped
<1>5. ChainCopying'
  <2>1. chain_writer["data"].written \in Nat /\ chain_residual = 0
    BY <1>1, ChainHolders DEF ChainCopying, ChainW
  <2>2. ChainPosition(chain_writer["data"]) = chain_writer["data"].written
    BY <1>1 DEF ChainCopying
  <2>3. ~(ChainRoom >= ChainSkipped) => ChainEnded(chain_out, chain_writer["data"])
    BY <1>1, <2>2, ChainTooShort DEF ChainCopying
  <2> QED
    BY <1>1, <1>2, <2>1, <2>2, <2>3 DEF ChainCopying, ChainPosition, ChainRoom, ChainSkipped, ChainIn,
       ChainEnded, ChainLen
<1>6. ChainPlaces'
  BY <1>1, ChainStays
<1>7. ChainFull'
  BY <1>1, <1>2 DEF ChainFull
<1> QED
  BY <1>3, <1>4, <1>5, <1>6, <1>7 DEF ChainIInv

LEMMA ChainWrittenKeeps == ASSUME ChainIInv, ChainWritten PROVE ChainIInv'
<1>1. /\ ChainTyped /\ ChainResponding /\ ChainCopying /\ ChainPlaces /\ ChainFull
      /\ chain_stage = "data" /\ chain_stage' = "residual"
      /\ chain_out' = chain_out /\ chain_in' = chain_in /\ chain_placed' = chain_placed
      /\ chain_max' = chain_max /\ chain_residual' = chain_residual
      /\ chain_writer' = chain_writer /\ chain_reader' = chain_reader /\ chain_got' = chain_got
      /\ chain_code' = chain_code
      /\ chain_left = 0 /\ chain_left' = 0
  BY DEF ChainIInv, ChainWritten
<1>2. ChainTyped'
  <2>1. 0 <= ChainSkipped /\ 0 \in Nat
    BY ChainSizes
  <2> QED
    BY <1>1, <2>1 DEF ChainTyped, ChainCutting, ChainStages, ChainCursors, ChainWriters, ChainIn,
       ChainEnded, ChainLen, ChainSkipped
<1>3. ChainResponding'
  BY <1>1 DEF ChainResponding, ChainIn, ChainEnded, ChainLen, ChainPosition, ChainSkipped
<1>4. ChainCopying'
  <2>1. chain_writer["data"].written \in Nat /\ chain_residual = 0
    BY <1>1, ChainHolders DEF ChainCopying, ChainW
  <2>2. ChainPosition(chain_writer["data"]) = chain_writer["data"].written
    BY <1>1 DEF ChainCopying
  <2>3. ~(ChainRoom >= ChainSkipped) => ChainEnded(chain_out, chain_writer["data"])
    BY <1>1, <2>2, ChainTooShort DEF ChainCopying
  <2> QED
    BY <1>1, <2>1, <2>2, <2>3 DEF ChainCopying, ChainPosition, ChainRoom, ChainSkipped, ChainIn,
       ChainEnded, ChainLen
<1>5. ChainPlaces'
  BY <1>1, ChainStays
<1>6. ChainFull'
  BY <1>1 DEF ChainFull, ChainCopying
<1> QED
  BY <1>2, <1>3, <1>4, <1>5, <1>6 DEF ChainIInv

LEMMA ChainAnswerKeeps == ASSUME ChainIInv, ChainAnswer PROVE ChainIInv'
<1> DEFINE d == chain_writer["data"]
<1>1. /\ ChainTyped /\ ChainResponding /\ ChainCopying /\ ChainPlaces /\ ChainFull
      /\ chain_stage = "residual" /\ chain_stage' = "response"
      /\ chain_out' = chain_out /\ chain_in' = chain_in /\ chain_placed' = chain_placed
      /\ chain_max' = chain_max /\ chain_residual' = chain_residual
      /\ chain_writer' = chain_writer /\ chain_reader' = chain_reader /\ chain_got' = chain_got
      /\ chain_code' = chain_code
      /\ ChainEnded(chain_out, d)
  BY DEF ChainIInv, ChainAnswer
<1>2. chain_left' \in Nat /\ chain_left' <= ChainSkipped /\ chain_left' >= ChainHeaderSize
  <2>1. PICK sense \in 0 .. ChainSenseSize : chain_left' = ChainHeaderSize + sense
    BY DEF ChainAnswer
  <2> QED
    BY <2>1, ChainSizes DEF ChainSkipped
<1>3. ChainTyped'
  BY <1>1, <1>2 DEF ChainTyped, ChainCutting, ChainStages, ChainCursors, ChainWriters, ChainIn,
     ChainEnded, ChainLen, ChainSkipped
<1>4. ChainResponding'
  <2>1. chain_writer["response"].written = 0
    BY <1>1 DEF ChainResponding
  <2>2. 0 + chain_left' <= ChainSkipped /\ 0 + chain_left' >= ChainHeaderSize
    <3> DEFINE m == chain_left'
    <3>1. m \in Nat /\ m <= ChainSkipped /\ m >= ChainHeaderSize /\ ChainHeaderSize \in Nat /\ ChainSkipped \in Nat
      BY <1>2, ChainSizes
    <3> HIDE DEF m
    <3>2. 0 + m <= ChainSkipped /\ 0 + m >= ChainHeaderSize
      BY <3>1
    <3> QED
      BY <3>2 DEF m
  <2> QED
    BY <1>1, <1>2, <2>1, <2>2 DEF ChainResponding, ChainIn, ChainEnded, ChainLen, ChainPosition, ChainSkipped
<1>5. ChainCopying'
  <2>1. ChainRoom \in Nat /\ d.offset \in Nat
    BY <1>1, ChainHolders DEF ChainW
  <2>2. ChainRoom >= ChainSkipped => d.written + chain_residual = ChainRoom
    <3>1. ChainRoom >= ChainSkipped => chain_out[d.at] + d.offset = d.written + chain_residual /\ d.offset = 0
      BY <1>1 DEF ChainCopying, ChainPosition
    <3>2. chain_out[d.at] = ChainRoom
      BY <1>1 DEF ChainEnded, ChainRoom
    <3> QED
      BY <2>1, <3>1, <3>2
  <2> QED
    BY <1>1, <2>2 DEF ChainCopying, ChainRoom, ChainSkipped
<1>6. ChainPlaces'
  BY <1>1, ChainStays
<1>7. ChainFull'
  BY <1>1 DEF ChainFull, ChainCopying
<1> QED
  BY <1>3, <1>4, <1>5, <1>6, <1>7 DEF ChainIInv

LEMMA ChainResidualKeeps == ASSUME ChainIInv, ChainResidual PROVE ChainIInv'
<1> DEFINE c == chain_writer["data"]  at == c.at + 1  l == ChainLen(chain_out, c.at)
<1>1. /\ ChainTyped /\ ChainResponding /\ ChainCopying /\ ChainPlaces /\ ChainFull
      /\ chain_stage = "residual" /\ chain_stage' = "residual"
      /\ chain_out' = chain_out /\ chain_in' = chain_in /\ chain_placed' = chain_placed
      /\ chain_max' = chain_max
      /\ chain_reader' = chain_reader /\ chain_got' = chain_got /\ chain_code' = chain_code
      /\ chain_left' = chain_left
      /\ ~ChainEnded(chain_out, c)
  BY DEF ChainIInv, ChainResidual
<1>2. chain_residual' = chain_residual + l - c.offset /\ chain_writer' = [chain_writer EXCEPT !["data"] = [[c EXCEPT !.at = at] EXCEPT !.offset = 0]]
  BY DEF ChainResidual
<1>3. /\ c.at \in 1 .. Len(chain_out) /\ c.offset \in Nat /\ c.written \in Nat /\ c.at # Len(chain_out)
      /\ chain_out[c.at] \in Nat /\ at \in 1 .. Len(chain_out) /\ l \in Nat
      /\ chain_out[at] = chain_out[c.at] + l /\ chain_residual \in Nat
      /\ chain_out[at] \in Nat /\ (at # Len(chain_out) => ChainLen(chain_out, at) \in Nat)
  BY <1>1, ChainHolders DEF ChainW, ChainEnded, ChainTyped
<1>4. c.offset <= l
  <2>1. c.offset < l \/ (c.offset = 0 /\ l = 0)
    BY <1>1 DEF ChainCopying, ChainIn
  <2> QED
    BY <1>3, <2>1
<1>5. /\ chain_writer' \in [ChainW -> ChainWriters] /\ chain_writer'["response"] = chain_writer["response"]
      /\ chain_writer'["data"] = [at |-> at, offset |-> 0, written |-> c.written]
  BY <1>1, <1>2, <1>3, ChainMoves
<1>6. chain_residual' \in Nat /\ (ChainRoom >= ChainSkipped => chain_out[at] + 0 = c.written + chain_residual')
  <2>1. ChainRoom >= ChainSkipped => chain_out[c.at] + c.offset = c.written + chain_residual
    BY <1>1 DEF ChainCopying, ChainPosition
  <2> DEFINE p == chain_out[c.at]  q == chain_out[at]  o == c.offset  v == c.written
  <2>2. /\ p \in Nat /\ o \in Nat /\ v \in Nat /\ l \in Nat /\ q = p + l /\ chain_residual \in Nat /\ o <= l
        /\ chain_residual' = chain_residual + l - o
    BY <1>2, <1>3, <1>4
  <2>3. ChainRoom >= ChainSkipped => p + o = v + chain_residual
    BY <2>1
  <2> HIDE DEF p, q, o, v, l
  <2>4. chain_residual' \in Nat /\ (p + o = v + chain_residual => q + 0 = v + chain_residual')
    BY <2>2
  <2> QED
    BY <2>3, <2>4 DEF q, v
<1>7. at # Len(chain_out) => 0 < ChainLen(chain_out, at) \/ ChainLen(chain_out, at) = 0
  BY <1>3
<1> HIDE DEF at, l
<1>8. ChainTyped'
  BY <1>1, <1>5, <1>6 DEF ChainTyped, ChainCutting, ChainStages, ChainCursors, ChainWriters,
     ChainW, ChainIn, ChainEnded, ChainLen, ChainSkipped
<1>9. ChainResponding'
  BY <1>1, <1>5 DEF ChainResponding, ChainIn, ChainEnded, ChainLen, ChainPosition, ChainSkipped
<1>10. ChainCopying'
  BY <1>1, <1>5, <1>6, <1>7 DEF ChainCopying, ChainPosition, ChainRoom, ChainSkipped, ChainIn,
     ChainEnded, ChainLen
<1>11. ChainPlaces'
  BY <1>1, <1>5, ChainStays
<1>12. ChainFull'
  BY <1>1 DEF ChainFull, ChainCopying
<1> QED
  BY <1>8, <1>9, <1>10, <1>11, <1>12 DEF ChainIInv

LEMMA ChainWriteDataKeeps == ASSUME ChainIInv, ChainWriteData PROVE ChainIInv'
<1> DEFINE d == chain_writer["data"]  r == chain_writer["response"]  n == ChainTaken(chain_out, d, chain_left)
<1>1. /\ ChainTyped /\ ChainResponding /\ ChainCopying /\ ChainPlaces /\ ChainFull /\ chain_stage = "data"
      /\ chain_out' = chain_out /\ chain_in' = chain_in /\ chain_residual' = chain_residual
      /\ chain_reader' = chain_reader /\ chain_got' = chain_got /\ chain_left > 0
  BY DEF ChainIInv, ChainWriteData
<1>2. /\ d.at \in 1 .. Len(chain_out) /\ d.offset \in Nat /\ d.written \in Nat
      /\ chain_writer \in [ChainW -> ChainWriters]
      /\ ChainRoom \in Nat /\ ChainSkipped \in Nat /\ chain_left \in Nat /\ chain_left <= ChainData
      /\ ChainIn(chain_out, d) /\ ChainPosition(d) = d.written /\ r.written = 0 /\ r.written \in Nat
      /\ d.written >= ChainSkipped /\ chain_max = d.written /\ chain_residual = 0 /\ chain_code # "Overrun"
  BY <1>1, ChainHolders, ChainSizes DEF ChainCopying, ChainResponding, ChainTyped, ChainW
<1>3. ASSUME n = 0 PROVE ChainIInv'
  <2>1. /\ chain_code' = "Overrun" /\ chain_stage' = "response" /\ chain_left' = ChainHeaderSize
        /\ chain_writer' = chain_writer /\ chain_max' = chain_max /\ chain_placed' = chain_placed
    BY <1>3 DEF ChainWriteData
  <2>2. chain_left' \in Nat /\ chain_left' <= ChainSkipped
    BY <2>1, ChainSizes DEF ChainSkipped
  <2>3. ChainTyped'
    BY <1>1, <2>1, <2>2 DEF ChainTyped, ChainCutting, ChainStages, ChainCursors, ChainWriters,
       ChainIn, ChainEnded, ChainLen, ChainSkipped
  <2>4. ChainResponding'
    BY <1>1, <1>2, <2>1, <2>2 DEF ChainResponding, ChainIn, ChainEnded, ChainLen, ChainPosition, ChainSkipped
  <2>5. ChainCopying'
    BY <1>1, <2>1 DEF ChainCopying, ChainRoom, ChainSkipped
  <2>6. ChainPlaces'
    BY <1>1, <2>1, ChainStays
  <2>7. ChainFull'
    <3>1. chain_out \in ChainCuts(ChainBuffer) /\ ChainBuffer \in Nat
      BY <1>1, ChainSizes DEF ChainTyped, ChainCutting
    <3>2. ChainEnded(chain_out, d) \/ ChainLen(chain_out, d.at) = 0
      BY <1>1, <1>2, <1>3, <3>1, ChainTakes
    <3>3. ASSUME ChainEnded(chain_out, d) PROVE d.written >= ChainRoom
      BY <1>2, <3>3 DEF ChainEnded, ChainPosition, ChainRoom
    <3>4. ASSUME ~ChainEnded(chain_out, d), ChainLen(chain_out, d.at) = 0 PROVE \E k \in 1 .. Len(chain_out) - 1 : ChainLen(chain_out, k) = 0
      <4>1. d.at \in 1 .. Len(chain_out) - 1
        BY <1>1, <1>2, <3>4, ChainHolders DEF ChainEnded
      <4> QED
        BY <3>4, <4>1
    <3>5. (\E k \in 1 .. Len(chain_out) - 1 : ChainLen(chain_out, k) = 0) \/ d.written >= ChainRoom
      BY <3>2, <3>3, <3>4
    <3> QED
      BY <1>1, <2>1, <3>5 DEF ChainFull, ChainLen, ChainRoom
  <2> QED
    BY <2>3, <2>4, <2>5, <2>6, <2>7 DEF ChainIInv
<1>4. ASSUME n # 0 PROVE ChainIInv'
  <2>1. /\ ChainWrite("data", n) /\ chain_left' = chain_left - n /\ chain_code' = chain_code
        /\ chain_stage' = chain_stage
    BY <1>4 DEF ChainWriteData
  <2>2. /\ n \in Nat /\ n <= chain_left
        /\ chain_writer' \in [ChainW -> ChainWriters]
        /\ chain_writer'["response"] = r
        /\ chain_writer'["data"].written = d.written + n
        /\ d.written + n <= ChainRoom
        /\ ChainIn(chain_out, chain_writer'["data"]) /\ (ChainEnded(chain_out, chain_writer'["data"]) => chain_writer'["data"].offset = 0)
        /\ chain_out[chain_writer'["data"].at] + chain_writer'["data"].offset = chain_writer'["data"].written
        /\ chain_max' = (IF chain_max <= d.written + n THEN d.written + n ELSE chain_max)
        /\ chain_placed' = [q \in DOMAIN chain_placed |->
             IF q \in d.written + 1 .. d.written + n THEN <<"data", q>> ELSE chain_placed[q]]
    <3>1. "data" \in ChainW /\ "response" \in ChainW /\ "response" # "data"
      BY DEF ChainW
    <3> QED
      BY <1>1, <1>2, <1>4, <2>1, <3>1, ChainWrote
  <2> HIDE DEF n
  <2>3. chain_max' = d.written + n /\ chain_left' \in Nat /\ chain_left' <= ChainData /\ chain_max' \in Nat
    <3> DEFINE a == d.written
    <3>1. /\ a \in Nat /\ n \in Nat /\ n <= chain_left /\ chain_left \in Nat /\ chain_left <= ChainData
          /\ chain_left' = chain_left - n /\ chain_max = a
          /\ chain_max' = IF chain_max <= a + n THEN a + n ELSE chain_max
      BY <1>2, <2>1, <2>2
    <3> HIDE DEF a
    <3>2. chain_max' = a + n /\ chain_left' \in Nat /\ chain_left' <= ChainData /\ chain_max' \in Nat
      BY <3>1, ChainSizes
    <3> QED
      BY <3>2 DEF a
  <2>4. ChainTyped'
    BY <1>1, <2>1, <2>2, <2>3 DEF ChainTyped, ChainCutting, ChainStages, ChainCursors,
       ChainWriters, ChainW, ChainIn, ChainEnded, ChainLen, ChainSkipped
  <2>5. ChainResponding'
    BY <1>1, <2>1, <2>2 DEF ChainResponding, ChainIn, ChainEnded, ChainLen, ChainPosition, ChainSkipped
  <2>6. ChainCopying'
    <3>1. d.written + n >= ChainSkipped
      BY <1>2, <2>2
    <3> QED
      BY <1>1, <1>2, <2>1, <2>2, <2>3, <3>1 DEF ChainCopying, ChainPosition, ChainRoom,
         ChainSkipped, ChainIn, ChainEnded, ChainLen
  <2>7. ChainPlaces'
    <3>1. chain_placed = [p \in 1 .. ChainRoom |-> ChainAt(p)] /\ ChainRoom' = ChainRoom /\ ChainSkipped' = ChainSkipped
      BY <1>1 DEF ChainPlaces, ChainRoom, ChainSkipped
    <3>2. ASSUME NEW q \in 1 .. ChainRoom
          PROVE  (IF q \in d.written + 1 .. d.written + n THEN <<"data", q>> ELSE ChainAt(q)) = ChainAt(q)'
      <4>1. /\ ~(q <= r.written) /\ q \in Nat
        BY <1>2, <3>2
      <4>2. ChainAt(q)' = IF q > ChainSkipped /\ q <= d.written + n THEN <<"data", q>> ELSE ChainNothing
        BY <2>2, <4>1 DEF ChainAt, ChainNothing, ChainSkipped
      <4>3. ChainAt(q) = IF q > ChainSkipped /\ q <= d.written THEN <<"data", q>> ELSE ChainNothing
        BY <4>1 DEF ChainAt
      <4>4. CASE q \in d.written + 1 .. d.written + n
        <5>1. q > ChainSkipped /\ q <= d.written + n
          BY <1>2, <2>2, <4>4
        <5> QED
          BY <4>2, <4>4, <5>1
      <4>5. CASE ~(q \in d.written + 1 .. d.written + n)
        <5>1. q <= d.written + n <=> q <= d.written
          BY <1>2, <2>2, <4>1, <4>5
        <5> QED
          BY <4>2, <4>3, <4>5, <5>1
      <4> QED
        BY <4>4, <4>5
    <3>3. chain_placed' = [q \in 1 .. ChainRoom |-> IF q \in d.written + 1 .. d.written + n THEN <<"data", q>> ELSE ChainAt(q)]
      BY <2>2, <3>1
    <3>4. chain_placed' = [q \in 1 .. ChainRoom |-> ChainAt(q)']
      BY <3>2, <3>3
    <3> QED
      BY <3>1, <3>4 DEF ChainPlaces
  <2>8. ChainFull'
    BY <1>1, <1>2, <2>1 DEF ChainFull
  <2> QED
    BY <2>4, <2>5, <2>6, <2>7, <2>8 DEF ChainIInv
<1> QED
  BY <1>3, <1>4

LEMMA ChainRespondKeeps == ASSUME ChainIInv, ChainRespond PROVE ChainIInv'
<1> DEFINE d == chain_writer["data"]  r == chain_writer["response"]  n == ChainTaken(chain_out, r, chain_left)
<1>1. /\ ChainTyped /\ ChainResponding /\ ChainCopying /\ ChainPlaces /\ ChainFull /\ chain_stage = "response"
      /\ chain_out' = chain_out /\ chain_in' = chain_in /\ chain_residual' = chain_residual
      /\ chain_reader' = chain_reader /\ chain_got' = chain_got /\ chain_code' = chain_code
  BY DEF ChainIInv, ChainRespond
<1>2. /\ r.at \in 1 .. Len(chain_out) /\ r.offset \in Nat /\ r.written \in Nat /\ d.written \in Nat
      /\ chain_writer \in [ChainW -> ChainWriters]
      /\ ChainRoom \in Nat /\ ChainSkipped \in Nat /\ chain_left \in Nat /\ chain_left <= ChainSkipped
      /\ ChainIn(chain_out, r) /\ ChainPosition(r) = r.written /\ r.written + chain_left <= ChainSkipped
      /\ r.written + chain_left >= ChainHeaderSize
      /\ d.written >= ChainSkipped /\ chain_max = d.written
  BY <1>1, ChainHolders, ChainSizes DEF ChainCopying, ChainResponding, ChainTyped, ChainW
<1>3. ASSUME n = 0 PROVE ChainIInv'
  <2>1. /\ chain_stage' = "used" /\ chain_left' = chain_left
        /\ chain_writer' = chain_writer /\ chain_max' = chain_max /\ chain_placed' = chain_placed
    BY <1>3 DEF ChainRespond
  <2>2. ChainTyped'
    BY <1>1, <2>1 DEF ChainTyped, ChainCutting, ChainStages, ChainCursors, ChainWriters, ChainIn,
       ChainEnded, ChainLen, ChainSkipped
  <2>3. ChainResponding'
    <3>1. chain_out \in ChainCuts(ChainBuffer) /\ ChainBuffer \in Nat
      BY <1>1, ChainSizes DEF ChainTyped, ChainCutting
    <3>2. chain_left = 0 \/ ChainEnded(chain_out, r) \/ ChainLen(chain_out, r.at) = 0
      BY <1>2, <1>3, <3>1, ChainTakes
    <3>3. chain_left = 0 => r.written >= ChainHeaderSize
      <4> DEFINE b == r.written
      <4>1. b \in Nat /\ b + chain_left >= ChainHeaderSize /\ ChainHeaderSize \in Nat
        BY <1>1, <1>2, ChainSizes DEF ChainResponding
      <4> HIDE DEF b
      <4>2. chain_left = 0 => b >= ChainHeaderSize
        BY <4>1
      <4> QED
        BY <4>2 DEF b
    <3>4. /\ ChainIn(chain_out, r) /\ ChainPosition(r) = r.written /\ r.written <= ChainSkipped
          /\ ChainEnded(chain_out, r) => r.offset = 0
          /\ \/ chain_left = 0 /\ r.written >= ChainHeaderSize
             \/ ChainEnded(chain_out, r)
             \/ ChainLen(chain_out, r.at) = 0
      BY <1>1, <3>2, <3>3 DEF ChainResponding
    <3> QED
      BY <1>1, <2>1, <3>4 DEF ChainResponding, ChainIn, ChainEnded, ChainLen, ChainPosition, ChainSkipped
  <2>4. ChainCopying'
    BY <1>1, <2>1 DEF ChainCopying, ChainRoom, ChainSkipped
  <2>5. ChainPlaces'
    BY <1>1, <2>1, ChainStays
  <2>6. ChainFull'
    BY <1>1, <2>1 DEF ChainFull, ChainLen, ChainRoom
  <2> QED
    BY <2>2, <2>3, <2>4, <2>5, <2>6 DEF ChainIInv
<1>4. ASSUME n # 0 PROVE ChainIInv'
  <2>1. /\ ChainWrite("response", n) /\ chain_left' = chain_left - n /\ chain_stage' = chain_stage
    BY <1>4 DEF ChainRespond
  <2>2. /\ n \in Nat /\ n <= chain_left
        /\ chain_writer' \in [ChainW -> ChainWriters]
        /\ chain_writer'["data"] = d
        /\ chain_writer'["response"].written = r.written + n
        /\ r.written + n <= ChainRoom
        /\ ChainIn(chain_out, chain_writer'["response"])
        /\ ChainEnded(chain_out, chain_writer'["response"]) => chain_writer'["response"].offset = 0
        /\ chain_out[chain_writer'["response"].at] + chain_writer'["response"].offset = chain_writer'["response"].written
        /\ chain_max' = (IF chain_max <= r.written + n THEN r.written + n ELSE chain_max)
        /\ chain_placed' = [q \in DOMAIN chain_placed |->
             IF q \in r.written + 1 .. r.written + n THEN <<"response", q>> ELSE chain_placed[q]]
    <3>1. "data" \in ChainW /\ "response" \in ChainW /\ "response" # "data"
      BY DEF ChainW
    <3> QED
      BY <1>1, <1>2, <1>4, <2>1, <3>1, ChainWrote
  <2> HIDE DEF n
  <2>3. /\ r.written + n <= ChainSkipped /\ chain_left' \in Nat /\ chain_left' <= ChainSkipped
        /\ r.written + n + chain_left' <= ChainSkipped /\ r.written + n + chain_left' >= ChainHeaderSize
        /\ chain_max' = d.written
    <3> DEFINE a == d.written  b == r.written
    <3>1. /\ a \in Nat /\ b \in Nat /\ n \in Nat /\ n <= chain_left /\ chain_left \in Nat
          /\ b + chain_left <= ChainSkipped /\ b + chain_left >= ChainHeaderSize /\ ChainHeaderSize \in Nat
          /\ chain_left <= ChainSkipped /\ a >= ChainSkipped /\ ChainSkipped \in Nat
          /\ chain_left' = chain_left - n /\ chain_max = a
          /\ chain_max' = IF chain_max <= b + n THEN b + n ELSE chain_max
      BY <1>2, <2>1, <2>2, ChainSizes
    <3> HIDE DEF a, b
    <3>2. /\ b + n <= ChainSkipped /\ chain_left' \in Nat /\ chain_left' <= ChainSkipped
          /\ b + n + chain_left' <= ChainSkipped /\ b + n + chain_left' >= ChainHeaderSize
          /\ chain_max' = a
      BY <3>1
    <3> QED
      BY <3>2 DEF a, b
  <2>4. ChainTyped'
    BY <1>1, <1>2, <2>1, <2>2, <2>3 DEF ChainTyped, ChainCutting, ChainStages, ChainCursors,
       ChainWriters, ChainW, ChainIn, ChainEnded, ChainLen, ChainSkipped
  <2>5. ChainResponding'
    BY <1>1, <2>1, <2>2, <2>3 DEF ChainResponding, ChainIn, ChainEnded, ChainLen, ChainPosition, ChainSkipped
  <2>6. ChainCopying'
    BY <1>1, <2>1, <2>2, <2>3 DEF ChainCopying, ChainRoom, ChainSkipped
  <2>7. ChainPlaces'
    <3>1. chain_placed = [p \in 1 .. ChainRoom |-> ChainAt(p)] /\ ChainRoom' = ChainRoom /\ ChainSkipped' = ChainSkipped
      BY <1>1 DEF ChainPlaces, ChainRoom, ChainSkipped
    <3>2. ASSUME NEW q \in 1 .. ChainRoom
          PROVE  (IF q \in r.written + 1 .. r.written + n THEN <<"response", q>> ELSE ChainAt(q)) = ChainAt(q)'
      <4>1. ChainAt(q)' = IF q <= r.written + n THEN <<"response", q>> ELSE IF q > ChainSkipped /\ q <= d.written THEN <<"data", q>> ELSE ChainNothing
        BY <2>2 DEF ChainAt, ChainNothing, ChainSkipped
      <4>2. CASE q \in r.written + 1 .. r.written + n
        BY <4>1, <4>2
      <4>3. CASE ~(q \in r.written + 1 .. r.written + n)
        <5>1. q <= r.written + n <=> q <= r.written
          BY <1>2, <2>2, <3>2, <4>3
        <5> QED
          BY <4>1, <4>3, <5>1 DEF ChainAt
      <4> QED
        BY <4>2, <4>3
    <3>3. chain_placed' = [q \in 1 .. ChainRoom |-> IF q \in r.written + 1 .. r.written + n THEN <<"response", q>> ELSE ChainAt(q)]
      BY <2>2, <3>1
    <3>4. chain_placed' = [q \in 1 .. ChainRoom |-> ChainAt(q)']
      BY <3>2, <3>3
    <3> QED
      BY <3>1, <3>4 DEF ChainPlaces
  <2>8. ChainFull'
    BY <1>1, <2>2 DEF ChainFull, ChainLen, ChainRoom
  <2> QED
    BY <2>4, <2>5, <2>6, <2>7, <2>8 DEF ChainIInv
<1> QED
  BY <1>3, <1>4

LEMMA ChainStarts == ASSUME ChainInit PROVE ChainIInv
<1>1. /\ chain_in \in ChainCuts(ChainRequestSize + 1) /\ chain_out \in ChainCuts(ChainBuffer)
      /\ chain_stage = "skip"
      /\ chain_reader = [at |-> 1, offset |-> 0] /\ chain_got = 0
      /\ chain_writer = [w \in {"response", "data"} |-> ChainNew] /\ chain_max = 0 /\ chain_left = 0
      /\ chain_code = "none" /\ chain_residual = 0 /\ chain_placed = [p \in 1 .. ChainRoom |-> ChainNothing]
  BY DEF ChainInit, ChainCursor
<1>2. /\ Len(chain_in) \in Nat /\ Len(chain_in) >= 1 /\ Len(chain_out) \in Nat
      /\ Len(chain_out) >= 1 /\ chain_out[1] = 0
      /\ (1 # Len(chain_in) => ChainLen(chain_in, 1) \in Nat) /\ (1 # Len(chain_out) => ChainLen(chain_out, 1) \in Nat)
      /\ ChainRoom \in Nat
  <2>1. /\ Len(chain_in) \in Nat /\ Len(chain_in) >= 1 /\ (\A i \in 1 .. Len(chain_in) : i # Len(chain_in) => ChainLen(chain_in, i) \in Nat)
    BY <1>1, ChainSizes, ChainCutIs
  <2>2. /\ Len(chain_out) \in Nat /\ Len(chain_out) >= 1 /\ chain_out[1] = 0
        /\ (\A i \in 1 .. Len(chain_out) : i # Len(chain_out) => ChainLen(chain_out, i) \in Nat)
        /\ \A i \in 1 .. Len(chain_out) : chain_out[i] \in Nat
    BY <1>1, ChainSizes, ChainCutIs
  <2>3. chain_out[Len(chain_out)] \in Nat /\ 1 \in 1 .. Len(chain_in) /\ 1 \in 1 .. Len(chain_out)
    BY <2>1, <2>2
  <2> QED
    BY <2>1, <2>2, <2>3 DEF ChainRoom
<1>3. ChainTyped
  <2>1. ChainNew \in ChainWriters /\ chain_reader \in ChainCursors(chain_in) /\ ChainIn(chain_in, chain_reader)
    BY <1>1, <1>2 DEF ChainNew, ChainWriters, ChainCursors, ChainIn, ChainEnded
  <2>2. 0 \in 0 .. ChainRequestSize /\ 0 <= ChainSkipped
    BY ChainSizes
  <2> QED
    BY <1>1, <2>1, <2>2 DEF ChainTyped, ChainCutting, ChainStages
<1>4. chain_writer["response"] = ChainNew /\ chain_writer["data"] = ChainNew
  BY <1>1
<1>5. ChainResponding
  <2> DEFINE r == chain_writer["response"]
  <2>1. r.at = 1 /\ r.offset = 0 /\ r.written = 0 /\ chain_out[r.at] + r.offset = 0
    BY <1>2, <1>4 DEF ChainNew
  <2>2. ChainIn(chain_out, r)
    BY <1>2, <2>1 DEF ChainIn, ChainEnded
  <2>3. 0 <= ChainSkipped
    BY ChainSizes
  <2> QED
    BY <1>1, <2>1, <2>2, <2>3 DEF ChainResponding, ChainPosition
<1>6. ChainCopying
  BY <1>1, <1>4 DEF ChainCopying
<1>7. ChainPlaces
  <2>1. ASSUME NEW p \in 1 .. ChainRoom PROVE ChainAt(p) = ChainNothing
    BY <1>2, <1>4, <2>1, ChainSizes DEF ChainAt, ChainNew
  <2> QED
    BY <1>1, <2>1 DEF ChainPlaces
<1>8. ChainFull
  BY <1>1 DEF ChainFull
<1> QED
  BY <1>3, <1>5, <1>6, <1>7, <1>8 DEF ChainIInv

\* What the invariant says of the guest's buffer.
LEMMA ChainPromises == ASSUME ChainIInv PROVE ChainInv
<1> DEFINE d == chain_writer["data"]  r == chain_writer["response"]
<1>1. ChainTyped /\ ChainResponding /\ ChainCopying /\ ChainFull /\ chain_placed = [p \in 1 .. ChainRoom |-> ChainAt(p)]
  BY DEF ChainIInv, ChainPlaces
<1>2. /\ r.written \in Nat /\ d.written \in Nat /\ ChainRoom \in Nat /\ ChainSkipped \in Nat
      /\ r.written <= ChainSkipped
      /\ DOMAIN chain_placed = 1 .. ChainRoom
  BY <1>1, ChainHolders, ChainSizes DEF ChainResponding, ChainW
<1>3. ChainTypeOK
  <2>1. chain_left \in 0 .. Max({ChainData, ChainSkipped})
    <3>1. Max({ChainData, ChainSkipped}) = IF ChainData <= ChainSkipped THEN ChainSkipped ELSE ChainData
      BY ChainSizes, ChainLesser
    <3> QED
      BY <1>1, <3>1, ChainSizes DEF ChainTyped
  <2> QED
    BY <1>1, <2>1 DEF ChainTyped, ChainTypeOK, ChainStages
<1>4. ASSUME NEW p \in 1 .. ChainRoom
      PROVE  /\ chain_placed[p][2] \in {0, p}
             /\ chain_placed[p] # ChainNothing => (chain_placed[p][1] = "response" <=> p <= ChainSkipped)
             /\ chain_placed[p][1] = "data" <=> p > ChainSkipped /\ p <= d.written
             /\ p > ChainSkipped /\ p <= d.written => chain_placed[p] # ChainNothing
  <2>1. chain_placed[p] = ChainAt(p) /\ p \in Nat
    BY <1>1, <1>4
  <2>2. CASE p <= r.written
    BY <1>2, <2>1, <2>2 DEF ChainAt, ChainNothing
  <2>3. CASE ~(p <= r.written) /\ p > ChainSkipped /\ p <= d.written
    BY <1>2, <2>1, <2>3 DEF ChainAt, ChainNothing
  <2>4. CASE ~(p <= r.written) /\ ~(p > ChainSkipped /\ p <= d.written)
    BY <1>2, <2>1, <2>4 DEF ChainAt, ChainNothing
  <2> QED
    BY <2>2, <2>3, <2>4
<1>5. ChainInOrder /\ ChainApart
  BY <1>2, <1>4 DEF ChainInOrder, ChainApart
<1>6. ChainOverrunMeansFull
  <2>1. ASSUME d.written >= ChainRoom, NEW p \in ChainSkipped + 1 .. ChainRoom PROVE chain_placed[p] # ChainNothing
    <3>1. p \in 1 .. ChainRoom /\ p > ChainSkipped /\ p <= d.written
      BY <1>2, <2>1
    <3> QED
      BY <1>4, <3>1
  <2> QED
    BY <1>1, <2>1 DEF ChainFull, ChainOverrunMeansFull
<1>7. ASSUME chain_stage = "used"
      PROVE  /\ chain_max = ChainSkipped + Cardinality({p \in DOMAIN chain_placed : chain_placed[p][1] = "data"})
             /\ chain_code # "Overrun" => chain_max + chain_residual = Max({ChainRoom, ChainSkipped})
  <2>1. /\ chain_max = d.written /\ d.written >= ChainSkipped /\ (d.written <= ChainRoom \/ d.written = ChainSkipped)
        /\ chain_code # "Overrun" => d.written + chain_residual = Max({ChainRoom, ChainSkipped})
    <3> DEFINE w == d.written
    <3>1. /\ w \in Nat /\ chain_max = w /\ w >= ChainSkipped
          /\ (w <= ChainSkipped \/ w <= ChainRoom)
          /\ chain_code # "Overrun" /\ ChainRoom >= ChainSkipped => w + chain_residual = ChainRoom
          /\ ~(ChainRoom >= ChainSkipped) => chain_residual = 0
      <4>1. w \in Nat
        BY <1>2
      <4>2. chain_max = w /\ w >= ChainSkipped /\ (w <= ChainSkipped \/ w <= ChainRoom)
        BY <1>1, <1>7 DEF ChainCopying
      <4>3. ~(ChainRoom >= ChainSkipped) => chain_residual = 0
        BY <1>1 DEF ChainCopying
      <4>4. chain_code # "Overrun" /\ ChainRoom >= ChainSkipped => w + chain_residual = ChainRoom
        BY <1>1, <1>7 DEF ChainCopying
      <4> QED
        BY <4>1, <4>2, <4>3, <4>4
    <3>2. Max({ChainRoom, ChainSkipped}) = IF ChainRoom <= ChainSkipped THEN ChainSkipped ELSE ChainRoom
      <4>1. ChainRoom \in Int /\ ChainSkipped \in Int
        BY <1>2
      <4> HIDE DEF w
      <4> QED
        BY <4>1, ChainLesser
    <3> HIDE DEF w
    <3>3. /\ chain_max = w /\ w >= ChainSkipped /\ (w <= ChainRoom \/ w = ChainSkipped)
          /\ chain_code # "Overrun" => w + chain_residual = Max({ChainRoom, ChainSkipped})
      <4>1. CASE ChainRoom >= ChainSkipped
        BY <1>2, <3>1, <3>2, <4>1
      <4>2. CASE ~(ChainRoom >= ChainSkipped)
        BY <1>2, <3>1, <3>2, <4>2
      <4> QED
        BY <4>1, <4>2
    <3> QED
      BY <3>3 DEF w
  <2>2. {p \in DOMAIN chain_placed : chain_placed[p][1] = "data"} = ChainSkipped + 1 .. d.written
    <3>1. {p \in DOMAIN chain_placed : chain_placed[p][1] = "data"} = {p \in 1 .. ChainRoom : p > ChainSkipped /\ p <= d.written}
      BY <1>2, <1>4
    <3>2. {p \in 1 .. ChainRoom : p > ChainSkipped /\ p <= d.written} = ChainSkipped + 1 .. d.written
      BY <1>2, <2>1
    <3> QED
      BY <3>1, <3>2
  <2>3. Cardinality(ChainSkipped + 1 .. d.written) = d.written - ChainSkipped
    <3> DEFINE a == ChainSkipped + 1  b == d.written
    <3>1. a \in Int /\ b \in Int /\ (a > b => b = ChainSkipped) /\ b - a + 1 = b - ChainSkipped /\ b - ChainSkipped \in Int
          /\ (b = ChainSkipped => b - ChainSkipped = 0)
      BY <1>2, <2>1
    <3> HIDE DEF a, b
    <3>2. Cardinality(a .. b) = IF a > b THEN 0 ELSE b - a + 1
      BY <3>1, FS_Interval
    <3>3. Cardinality(a .. b) = b - ChainSkipped
      BY <3>1, <3>2
    <3> QED
      BY <3>3 DEF a, b
  <2>4. d.written = ChainSkipped + (d.written - ChainSkipped)
    BY <1>2
  <2> QED
    BY <2>1, <2>2, <2>3, <2>4, Zenon
<1>8. ChainUsedRight
  BY <1>7 DEF ChainUsedRight
<1>9. ChainWhole
  <2> SUFFICES ASSUME chain_stage = "used"
               PROVE  /\ \A p \in 1 .. r.written : chain_placed[p] = <<"response", p>>
                      /\ \/ chain_left = 0 /\ r.written >= ChainHeaderSize
                         \/ r.written = ChainRoom
                         \/ \E k \in 1 .. Len(chain_out) - 1 : chain_out[k] = r.written /\ ChainLen(chain_out, k) = 0
    BY DEF ChainWhole
  <2>1. /\ r.at \in 1 .. Len(chain_out) /\ r.offset \in Nat /\ Len(chain_out) \in Nat
        /\ chain_out[r.at] \in Nat /\ chain_out[r.at] <= ChainRoom
        /\ r.at # Len(chain_out) => chain_out[r.at] + ChainLen(chain_out, r.at) <= ChainRoom /\ ChainLen(chain_out, r.at) \in Nat
    <3>1. r.at \in 1 .. Len(chain_out) /\ r.offset \in Nat
      BY <1>1, ChainHolders DEF ChainW
    <3> HIDE DEF r
    <3> QED
      BY <1>1, <3>1, ChainHolders
  <2>2. /\ chain_out[r.at] + r.offset = r.written /\ (ChainEnded(chain_out, r) => r.offset = 0)
        /\ ~ChainEnded(chain_out, r) => r.offset <= ChainLen(chain_out, r.at)
        /\ \/ chain_left = 0 /\ r.written >= ChainHeaderSize
           \/ ChainEnded(chain_out, r)
           \/ ~ChainEnded(chain_out, r) /\ ChainLen(chain_out, r.at) = 0
    BY <1>1, <2>1 DEF ChainResponding, ChainPosition, ChainIn, ChainEnded
  <2>3. r.written <= ChainRoom
    <3> DEFINE at == r.at  o == r.offset  b == r.written  l == ChainLen(chain_out, r.at)  q == chain_out[r.at]
    <3>1. /\ q \in Nat /\ o \in Nat /\ q <= ChainRoom /\ q + o = b /\ ChainRoom \in Nat
          /\ at = Len(chain_out) => o = 0
          /\ at # Len(chain_out) => l \in Nat /\ q + l <= ChainRoom /\ o <= l
      BY <1>2, <2>1, <2>2 DEF ChainEnded
    <3> HIDE DEF at, o, b, l, q
    <3>2. b <= ChainRoom
      BY <3>1
    <3> QED
      BY <3>2 DEF b
  <2>4. ASSUME NEW p \in 1 .. r.written PROVE chain_placed[p] = <<"response", p>>
    <3>1. p \in 1 .. ChainRoom /\ p <= r.written
      BY <1>2, <2>3
    <3> QED
      BY <1>1, <3>1 DEF ChainAt
  <2>5. ASSUME ChainEnded(chain_out, r) PROVE r.written = ChainRoom
    BY <1>2, <2>1, <2>2, <2>5 DEF ChainEnded, ChainRoom
  <2>6. ASSUME ~ChainEnded(chain_out, r), ChainLen(chain_out, r.at) = 0
        PROVE  \E k \in 1 .. Len(chain_out) - 1 : chain_out[k] = r.written /\ ChainLen(chain_out, k) = 0
    <3>1. r.offset = 0 /\ r.at \in 1 .. Len(chain_out) - 1
      BY <2>1, <2>2, <2>6 DEF ChainEnded
    <3>2. chain_out[r.at] = r.written
      BY <2>1, <2>2, <3>1
    <3> QED
      BY <2>6, <3>1, <3>2
  <2> QED
    BY <2>2, <2>4, <2>5, <2>6
<1> QED
  BY <1>3, <1>5, <1>6, <1>8, <1>9 DEF ChainInv

LEMMA ChainStutters == ASSUME ChainIInv, UNCHANGED ChainVars PROVE ChainIInv'
<1>1. /\ chain_in' = chain_in /\ chain_out' = chain_out /\ chain_stage' = chain_stage
      /\ chain_reader' = chain_reader /\ chain_got' = chain_got
      /\ chain_writer' = chain_writer /\ chain_max' = chain_max /\ chain_left' = chain_left
      /\ chain_code' = chain_code
      /\ chain_residual' = chain_residual /\ chain_placed' = chain_placed
  BY DEF ChainVars
<1>2. ChainTyped' /\ ChainResponding'
  BY <1>1 DEF ChainIInv, ChainTyped, ChainResponding, ChainCutting, ChainStages, ChainCursors,
     ChainWriters, ChainIn, ChainEnded, ChainLen, ChainSkipped, ChainPosition
<1>3. ChainCopying' /\ ChainFull'
  BY <1>1 DEF ChainIInv, ChainCopying, ChainFull, ChainPosition, ChainRoom, ChainSkipped, ChainIn,
     ChainEnded, ChainLen
<1>4. ChainPlaces'
  BY <1>1, ChainStays DEF ChainIInv
<1> QED
  BY <1>2, <1>3, <1>4 DEF ChainIInv

\* An answer is where the guest looks for it and its lengths are those of the
\* guest's buffer, for every way to cut that and every length of the data; what is
\* written of it lies in order.  It is whole unless the buffer ends or a descriptor
\* of no length comes first (virtio.rs, block_device.rs).
THEOREM ChainHolds == ChainSpec => []ChainInv
<1>1. ChainInit => ChainIInv
  BY ChainStarts
<1>2. ChainIInv /\ [ChainNext]_ChainVars => ChainIInv'
  <2> SUFFICES ASSUME ChainIInv, [ChainNext]_ChainVars PROVE ChainIInv'
    OBVIOUS
  <2>1. CASE ChainNext
    BY <2>1, ChainSkipKeeps, ChainSkippingKeeps, ChainReadKeeps, ChainExecuteKeeps, ChainWriteDataKeeps, ChainWrittenKeeps,
       ChainResidualKeeps, ChainAnswerKeeps, ChainRespondKeeps DEF ChainNext
  <2>2. CASE UNCHANGED ChainVars
    BY <2>2, ChainStutters
  <2> QED
    BY <2>1, <2>2
<1>3. ChainIInv => ChainInv
  BY ChainPromises
<1> QED
  BY <1>1, <1>2, <1>3, PTL DEF ChainSpec

\* The images and the chain share no state: the two modules of the SCSI device
\* promise together what a request does and how its answer gets to the guest.
THEOREM ScsiBothHold == ScsiSpec /\ ChainSpec => []ScsiBothInv
<1>1. ScsiInv /\ ChainInv => ScsiBothInv
  BY DEF ScsiBothInv
<1> QED
  BY <1>1, ScsiHolds, ChainHolds, PTL

-----------------------------------------------------------------------------
(* SCMI.  What may become of a sensor.                                     *)

ScmiIsSensor(d) ==
  d \in [name : {d.name}, axes : {d.axes}, channels : {d.channels}, fd : {d.fd}, format : {d.format}, axisname : {d.axisname},
         enabled : BOOLEAN, notify : BOOLEAN, on : BOOLEAN, failed : BOOLEAN, pending : BOOLEAN]
ScmiRight(d) == d.format # "fake" /\ ~d.failed => d.on = d.enabled
ScmiAlike(d, e) == e.enabled = d.enabled /\ e.notify = d.notify

LEMMA ScmiMakes ==
  ASSUME NEW c
  PROVE  \A d \in {ScmiFake(c), ScmiIio(c)} :
           ScmiIsSensor(d) /\ ScmiRight(d) /\ ~d.enabled /\ ~d.notify
<1>1. \A n, m, k, f, t, x :
        LET d == ScmiSensor(n, m, k, f, t, x) IN ScmiIsSensor(d) /\ ScmiRight(d) /\ ~d.enabled /\ ~d.notify
  BY DEF ScmiSensor, ScmiIsSensor, ScmiRight
<1>. QED
  BY <1>1 DEF ScmiFake, ScmiIio

LEMMA ScmiSwitches ==
  ASSUME NEW d, ScmiIsSensor(d), NEW on \in BOOLEAN, NEW s \in ScmiSwitch(d, on)
  PROVE  /\ ScmiIsSensor(s.dev) /\ ScmiAlike(d, s.dev) /\ s.dev.format = d.format
         /\ s.ok \in BOOLEAN /\ (s.ok => s.dev.format = "fake" \/ s.dev.on = on) /\ (~s.ok => s.dev.failed)
<1>1. CASE d.format = "fake"
  <2>1. s = [dev |-> d, ok |-> TRUE]
    BY <1>1 DEF ScmiSwitch
  <2>. QED
    BY <1>1, <2>1 DEF ScmiAlike
<1>2. ASSUME NEW v \in BOOLEAN, NEW w \in BOOLEAN, NEW e, e = [d EXCEPT !.on = v, !.failed = w]
      PROVE  ScmiIsSensor(e) /\ ScmiAlike(d, e) /\ e.format = d.format /\ e.on = v /\ e.failed = w
  <2>. DEFINE x == [d EXCEPT !.on = v]
  <2>1. ScmiIsSensor(x) /\ ScmiAlike(d, x) /\ x.format = d.format /\ x.on = v
    BY DEF ScmiIsSensor, ScmiAlike
  <2>2. e = [x EXCEPT !.failed = w]
    BY <1>2
  <2>. HIDE DEF x
  <2>3. ScmiIsSensor(e) /\ ScmiAlike(x, e) /\ e.format = x.format /\ e.on = x.on /\ e.failed = w
    BY <2>1, <2>2 DEF ScmiIsSensor, ScmiAlike
  <2>. QED
    BY <2>1, <2>3 DEF ScmiAlike
<1>3. [d EXCEPT !.failed = TRUE] = [d EXCEPT !.on = d.on, !.failed = TRUE]
  BY DEF ScmiIsSensor
<1>4. CASE s = [dev |-> [d EXCEPT !.on = on, !.failed = FALSE], ok |-> TRUE]
  BY <1>2, <1>4
<1>5. CASE s = [dev |-> [d EXCEPT !.failed = TRUE], ok |-> FALSE]
  BY <1>2, <1>3, <1>5 DEF ScmiIsSensor
<1>6. CASE s = [dev |-> [d EXCEPT !.on = FALSE, !.failed = TRUE], ok |-> FALSE]
  BY <1>2, <1>6
<1>. QED
  BY <1>1, <1>4, <1>5, <1>6 DEF ScmiSwitch

\* What a request may have changed when it is answered so
ScmiTold(d, e, r, status) ==
  /\ ScmiIsSensor(e) /\ ScmiRight(e)
  /\ r.msg \notin {"config_set", "continuous"} => ScmiAlike(d, e)
  /\ r.msg = "config_set" /\ status = "Success" => e.enabled = (r.arg = 1) /\ e.notify = d.notify
  /\ r.msg = "continuous" /\ status = "Success" => e.notify = (r.arg = 1) /\ e.enabled = d.enabled

LEMMA ScmiReads ==
  ASSUME NEW d, NEW a \in ScmiRead(d)
  PROVE  a.dev = d
BY DEF ScmiRead, ScmiDone

LEMMA ScmiReadings ==
  ASSUME NEW d, ScmiIsSensor(d), ScmiRight(d), NEW a \in ScmiReading(d)
  PROVE  ScmiIsSensor(a.dev) /\ ScmiRight(a.dev) /\ ScmiAlike(d, a.dev)
<1>1. CASE a.dev = d
  BY <1>1 DEF ScmiAlike
<1>2. CASE ~d.enabled
  BY <1>1, <1>2 DEF ScmiReading, ScmiDone
<1>3. CASE d.enabled /\ ~d.notify
  BY <1>1, <1>3, ScmiReads DEF ScmiReading
<1>4. CASE d.enabled /\ d.notify
  <2>1. PICK off \in ScmiSwitch(d, FALSE) :
          a \in IF ~off.ok THEN {ScmiDone(off.dev, "GenericError", 0)}
                ELSE UNION {{IF on.ok THEN ScmiDone(on.dev, r.status, r.words) ELSE ScmiDone(on.dev, "GenericError", 0) :
                   on \in ScmiSwitch(r.dev, TRUE)} : r \in ScmiRead(off.dev)}
    BY <1>4 DEF ScmiReading
  <2>2. /\ ScmiIsSensor(off.dev) /\ ScmiAlike(d, off.dev) /\ off.dev.format = d.format
        /\ off.ok \in BOOLEAN /\ (~off.ok => off.dev.failed)
    BY ScmiSwitches
  <2>3. CASE ~off.ok
    <3>1. a.dev = off.dev
      BY <2>1, <2>3 DEF ScmiDone
    <3>. QED
      BY <2>2, <2>3, <3>1 DEF ScmiRight
  <2>4. CASE off.ok
    <3>1. PICK r \in ScmiRead(off.dev), on \in ScmiSwitch(off.dev, TRUE) : a.dev = on.dev
      <4>1. PICK r \in ScmiRead(off.dev) : \E on \in ScmiSwitch(r.dev, TRUE) :
              a = IF on.ok THEN ScmiDone(on.dev, r.status, r.words) ELSE ScmiDone(on.dev, "GenericError", 0)
        BY <2>1, <2>4
      <4>2. r.dev = off.dev
        BY ScmiReads
      <4>3. PICK on \in ScmiSwitch(off.dev, TRUE) :
              a = ScmiDone(on.dev, r.status, r.words) \/ a = ScmiDone(on.dev, "GenericError", 0)
        BY <4>1, <4>2
      <4>4. a.dev = on.dev
        BY <4>3 DEF ScmiDone
      <4>. QED
        BY <4>4
    <3>2. /\ ScmiIsSensor(on.dev) /\ ScmiAlike(off.dev, on.dev)
          /\ on.ok \in BOOLEAN /\ (on.ok => on.dev.format = "fake" \/ on.dev.on = TRUE) /\ (~on.ok => on.dev.failed)
      BY <2>2, ScmiSwitches
    <3>3. on.dev.enabled = TRUE
      BY <1>4, <2>2, <3>2 DEF ScmiAlike, ScmiIsSensor
    <3>. QED
      BY <2>2, <3>1, <3>2, <3>3 DEF ScmiRight, ScmiAlike
  <2>. QED
    BY <2>2, <2>3, <2>4
<1>. QED
  BY <1>2, <1>3, <1>4

LEMMA ScmiConfigures ==
  ASSUME NEW d, ScmiIsSensor(d), ScmiRight(d), NEW config, NEW a \in ScmiConfigSet(d, config)
  PROVE  /\ ScmiIsSensor(a.dev) /\ ScmiRight(a.dev)
         /\ a.status = "Success" => a.dev.enabled = (config = 1) /\ a.dev.notify = d.notify
<1>1. CASE config \notin {0, 1}
  BY <1>1 DEF ScmiConfigSet, ScmiDone
<1>2. CASE config \in {0, 1}
  <2>. DEFINE to == config = 1
              e  == [d EXCEPT !.enabled = to]
  <2>1. to \in BOOLEAN
    OBVIOUS
  <2>. HIDE DEF to
  <2>3. ScmiIsSensor(e) /\ e.enabled = to /\ e.notify = d.notify
    BY <2>1 DEF ScmiIsSensor
  <2>. HIDE DEF e
  <2>4. PICK s \in ScmiSwitch(e, to) : a = ScmiDone(s.dev, IF s.ok THEN "Success" ELSE "GenericError", 0)
    BY <1>2 DEF ScmiConfigSet, e, to
  <2>5. /\ ScmiIsSensor(s.dev) /\ ScmiAlike(e, s.dev)
        /\ s.ok \in BOOLEAN /\ (s.ok => s.dev.format = "fake" \/ s.dev.on = to) /\ (~s.ok => s.dev.failed)
    BY <2>1, <2>3, ScmiSwitches
  <2>6. a.dev = s.dev /\ (a.status = "Success" <=> s.ok)
    BY <2>4, <2>5 DEF ScmiDone
  <2>7. s.dev.enabled = to /\ s.dev.notify = d.notify
    BY <2>3, <2>5 DEF ScmiAlike
  <2>8. ScmiRight(s.dev)
    BY <2>5, <2>7 DEF ScmiRight
  <2>. QED
    BY <2>5, <2>6, <2>7, <2>8 DEF to
<1>. QED
  BY <1>1, <1>2

LEMMA ScmiAsked ==
  ASSUME NEW d, ScmiIsSensor(d), ScmiRight(d), NEW r, r.msg \in ScmiSensorMessages \ {"description"}, NEW a \in ScmiAsk(d, r)
  PROVE  ScmiTold(d, a.dev, r, a.status)
<1>1. CASE r.msg = "reading"
  BY <1>1, ScmiReadings DEF ScmiAsk, ScmiTold
<1>2. CASE r.msg \in {"axis", "config_get"}
  <2>1. a.dev = d
    BY <1>2 DEF ScmiAsk, ScmiAxis, ScmiDone
  <2>. QED
    BY <1>2, <2>1 DEF ScmiTold, ScmiAlike
<1>3. CASE r.msg = "config_set"
  <2>1. a \in ScmiConfigSet(d, r.arg)
    BY <1>3 DEF ScmiAsk
  <2>. QED
    BY <1>3, <2>1, ScmiConfigures DEF ScmiTold
<1>4. CASE r.msg = "continuous"
  <2>1. a \in ScmiContinuous(d, r.arg)
    BY <1>4 DEF ScmiAsk
  <2>2. CASE r.arg \in {0, 1}
    <3>. DEFINE to == r.arg = 1
                e  == [d EXCEPT !.notify = to]
    <3>1. to \in BOOLEAN /\ a = ScmiDone(e, "Success", 1)
      BY <2>1, <2>2 DEF ScmiContinuous
    <3>. HIDE DEF to
    <3>3. ScmiIsSensor(e) /\ ScmiRight(e) /\ e.notify = to /\ e.enabled = d.enabled
      BY <3>1 DEF ScmiIsSensor, ScmiRight
    <3>. HIDE DEF e
    <3>4. a.dev = e
      BY <3>1 DEF ScmiDone
    <3>. QED
      BY <1>4, <3>3, <3>4 DEF ScmiTold, to
  <2>3. CASE r.arg \notin {0, 1}
    <3>1. a.dev = d /\ a.status = "InvalidParameters"
      BY <2>1, <2>3 DEF ScmiContinuous, ScmiDone
    <3>. QED
      BY <1>4, <3>1 DEF ScmiTold
  <2>. QED
    BY <2>2, <2>3
<1>. QED
  BY <1>1, <1>2, <1>3, <1>4 DEF ScmiSensorMessages

-----------------------------------------------------------------------------
(* The sensors of a command line, and the table of messages                *)

ScmiIsSeq(s) == s \in Seq({s[i] : i \in DOMAIN s})

LEMMA ScmiOneElse ==
  ASSUME NEW s, ScmiIsSeq(s), NEW i \in DOMAIN s, NEW x
  PROVE  /\ ScmiIsSeq([s EXCEPT ![i] = x]) /\ Len([s EXCEPT ![i] = x]) = Len(s) /\ DOMAIN [s EXCEPT ![i] = x] = DOMAIN s
         /\ \A j \in DOMAIN s : [s EXCEPT ![i] = x][j] = IF j = i THEN x ELSE s[j]
<1>. DEFINE e == [s EXCEPT ![i] = x]
            S == {s[j] : j \in DOMAIN s} \cup {x}
<1>1. s \in Seq(S) /\ Len(s) \in Nat /\ DOMAIN s = 1 .. Len(s)
  <2>1. s \in Seq({s[j] : j \in DOMAIN s})
    BY DEF ScmiIsSeq
  <2>2. Len(s) \in Nat /\ DOMAIN s = 1 .. Len(s)
    BY <2>1, LenProperties
  <2>3. \A j \in 1 .. Len(s) : s[j] \in S
    BY <2>2
  <2>. HIDE DEF S
  <2>4. s \in Seq(S)
    BY <2>1, <2>2, <2>3
  <2>. QED
    BY <2>2, <2>4
<1>2. e \in Seq(S) /\ Len(e) = Len(s)
  <2>1. x \in S /\ i \in 1 .. Len(s)
    BY <1>1
  <2>. HIDE DEF S
  <2>. QED
    BY <1>1, <2>1, ExceptSeq
<1>3. DOMAIN e = DOMAIN s /\ \A j \in DOMAIN s : e[j] = IF j = i THEN x ELSE s[j]
  BY <1>1
<1>4. ScmiIsSeq(e)
  <2>. HIDE DEF e, S
  <2>. DEFINE R == {e[j] : j \in DOMAIN e}
  <2>1. \A j \in 1 .. Len(e) : e[j] \in R
    BY <1>1, <1>2, <1>3
  <2>. HIDE DEF R
  <2>2. e \in Seq(R)
    BY <1>2, <2>1
  <2>. QED
    BY <2>2 DEF ScmiIsSeq, R
<1>. QED
  BY <1>2, <1>3, <1>4

ScmiDevices(ds) == ScmiIsSeq(ds) /\ \A i \in DOMAIN ds : ScmiIsSensor(ds[i]) /\ ScmiRight(ds[i])

LEMMA ScmiNewIs ==
  ASSUME NEW cs \in ScmiConfigs
  PROVE  ScmiDevices(ScmiNew(cs)) /\ \A i \in DOMAIN ScmiNew(cs) : ~ScmiNew(cs)[i].enabled /\ ~ScmiNew(cs)[i].notify
<1>. DEFINE ds == ScmiNew(cs)
            R  == {ds[i] : i \in DOMAIN ds}
<1>1. Len(cs) \in Nat /\ DOMAIN cs = 1 .. Len(cs)
  <2>1. cs \in Seq(ToSet(cs))
    BY ScmiAssumption
  <2>. HIDE DEF ds
  <2>. QED
    BY <2>1, LenProperties
<1>2. ds = [i \in 1 .. Len(cs) |-> IF cs[i].kind = "fake" THEN ScmiFake(cs[i]) ELSE ScmiIio(cs[i])]
  BY <1>1 DEF ScmiNew
<1>. HIDE DEF ds
<1>3. \A i \in 1 .. Len(cs) : ds[i] \in R
  BY <1>2
<1>. HIDE DEF R
<1>4. ds \in Seq(R)
  BY <1>1, <1>2, <1>3
<1>5. \A i \in 1 .. Len(cs) : ds[i] \in {ScmiFake(cs[i]), ScmiIio(cs[i])}
  BY <1>2
<1>6. \A i \in 1 .. Len(cs) : ScmiIsSensor(ds[i]) /\ ScmiRight(ds[i]) /\ ~ds[i].enabled /\ ~ds[i].notify
  BY <1>5, ScmiMakes
<1>7. DOMAIN ds = 1 .. Len(cs)
  BY <1>2
<1>. QED
  BY <1>4, <1>6, <1>7 DEF ScmiDevices, ScmiIsSeq, R, ds

\* What the answer to a request may be, and what it may leave of the sensors
ScmiAnswer(ds, r, a) ==
  /\ ScmiIsSeq(a.devs) /\ Len(a.devs) = Len(ds) /\ DOMAIN a.devs = DOMAIN ds
  /\ \A i \in DOMAIN ds : IF i = r.index + 1 THEN ScmiTold(ds[i], a.devs[i], r, a.status) ELSE a.devs[i] = ds[i]
  /\ r.msg = "description" /\ a.status = "Success" =>
       \E k \in Nat : a.words = 1 + 7 * k /\ r.index + k <= Len(ds) /\ a.more = Len(ds) - (r.index + k)

LEMMA ScmiSameIs ==
  ASSUME NEW ds, ScmiDevices(ds), NEW r, NEW status, NEW words,
         r.msg \in {"config_set", "continuous", "description"} => status # "Success"
  PROVE  ScmiAnswer(ds, r, ScmiSame(ds, status, words))
<1>1. ScmiSame(ds, status, words) = [devs |-> ds, status |-> status, words |-> words, more |-> -1]
  BY DEF ScmiSame
<1>. DEFINE a == ScmiSame(ds, status, words)
<1>2. a.devs = ds /\ a.status = status
  BY <1>1
<1>. HIDE DEF a
<1>3. \A i \in DOMAIN ds : ScmiTold(ds[i], ds[i], r, a.status)
  BY <1>2 DEF ScmiTold, ScmiDevices, ScmiAlike
<1>4. ScmiAnswer(ds, r, a)
  BY <1>2, <1>3 DEF ScmiAnswer, ScmiDevices
<1>. QED
  BY <1>4 DEF a

LEMMA ScmiDescribes ==
  ASSUME NEW ds, ScmiDevices(ds), NEW r \in ScmiRequests, r.msg = "description"
  PROVE  ScmiAnswer(ds, r, ScmiDescription(ds, r.index))
<1>. DEFINE n == Len(ds)
            first == r.index
            k == IF n - first < ScmiMaxReturn THEN n - first ELSE ScmiMaxReturn
            a == ScmiDescription(ds, first)
<1>1. n \in Nat /\ first \in Nat /\ ScmiMaxReturn \in Nat
  BY ScmiAssumption, LenProperties DEF ScmiDevices, ScmiIsSeq
<1>2. CASE a = ScmiSame(ds, "InvalidParameters", 0) \/ a = ScmiSame(ds, "panic", 0)
  BY <1>2, ScmiSameIs
<1>3. CASE first < n /\ a = [ScmiSame(ds, "Success", 1 + 7 * k) EXCEPT !.more = n - (first + k)]
  <2>1. k \in Nat /\ first + k <= n
    BY <1>1, <1>3
  <2>. DEFINE words == 1 + 7 * k  more == n - (first + k)
  <2>. HIDE DEF k, a, words, more
  <2>2. a = [devs |-> ds, status |-> "Success", words |-> words, more |-> more]
    BY <1>3 DEF ScmiSame, words, more
  <2>3. a.devs = ds /\ a.words = 1 + 7 * k /\ a.more = n - (first + k)
    BY <2>2 DEF words, more
  <2>4. \A i \in DOMAIN ds : ScmiTold(ds[i], ds[i], r, a.status)
    BY DEF ScmiTold, ScmiDevices, ScmiAlike
  <2>5. ScmiAnswer(ds, r, a)
    BY <2>1, <2>3, <2>4 DEF ScmiAnswer, ScmiDevices
  <2>. QED
    BY <2>5 DEF a
<1>4. (a = ScmiSame(ds, "InvalidParameters", 0) \/ a = ScmiSame(ds, "panic", 0))
      \/ (first < n /\ a = [ScmiSame(ds, "Success", 1 + 7 * k) EXCEPT !.more = n - (first + k)])
  BY <1>1 DEF ScmiDescription
<1>. QED
  BY <1>2, <1>3, <1>4

LEMMA ScmiHandles ==
  ASSUME NEW ds, ScmiDevices(ds), NEW r \in ScmiRequests, NEW a \in ScmiHandle(ds, r)
  PROVE  ScmiAnswer(ds, r, a)
<1>0. r.index \in Nat /\ Len(ds) \in Nat /\ DOMAIN ds = 1 .. Len(ds)
  BY ScmiAssumption, LenProperties DEF ScmiDevices, ScmiIsSeq
<1>1. CASE \E status, words : a = ScmiSame(ds, status, words) /\ (r.msg \in {"config_set", "continuous", "description"} => status # "Success")
  BY <1>1, ScmiSameIs
<1>2. CASE ~r.command \/ r.msg \notin ScmiMessages
  <2>1. a = ScmiSame(ds, "NotSupported", 0)
    BY <1>2 DEF ScmiHandle
  <2>. QED
    BY <1>1, <2>1
<1>3. CASE ~(~r.command \/ r.msg \notin ScmiMessages) /\ r.msg \notin ScmiSensorMessages
  <2>1. a = ScmiBase(ds, r) /\ r.msg \in {"version", "protocols", "attributes", "vendor", "implementation", "list", "sensors"}
    BY <1>3 DEF ScmiHandle, ScmiMessages
  <2>2. PICK status, words : a = ScmiSame(ds, status, words)
    BY <2>1 DEF ScmiBase
  <2>. QED
    BY <1>1, <2>1, <2>2
<1>. DEFINE sensor == ~(~r.command \/ r.msg \notin ScmiMessages) /\ r.msg \in ScmiSensorMessages
<1>4. CASE sensor /\ r.msg = "description"
  <2>1. a = ScmiDescription(ds, r.index)
    BY <1>4 DEF ScmiHandle, ScmiSensorRequest
  <2>. QED
    BY <1>4, <2>1, ScmiDescribes
<1>5. CASE sensor /\ r.msg = "reading" /\ r.arg # 0
  <2>1. a = ScmiSame(ds, "NotSupported", 0)
    BY <1>5 DEF ScmiHandle, ScmiSensorRequest
  <2>. QED
    BY <1>1, <2>1
<1>6. CASE sensor /\ r.msg # "description" /\ a \in ScmiOfDevice(ds, r)
  <2>1. CASE r.index >= Len(ds)
    <3>1. a = ScmiSame(ds, "InvalidParameters", 0)
      BY <1>6, <2>1 DEF ScmiOfDevice
    <3>. QED
      BY <1>1, <3>1
  <2>2. CASE ~(r.index >= Len(ds))
    <3>. DEFINE i == r.index + 1
    <3>1. i \in DOMAIN ds
      BY <1>0, <2>2
    <3>2. PICK b \in ScmiAsk(ds[i], r) : a = ScmiSame([ds EXCEPT ![i] = b.dev], b.status, b.words)
      BY <1>6, <2>2 DEF ScmiOfDevice
    <3>3. ScmiTold(ds[i], b.dev, r, b.status)
      BY <1>6, <3>1, ScmiAsked DEF ScmiDevices
    <3>4. a.devs = [ds EXCEPT ![i] = b.dev] /\ a.status = b.status
      BY <3>2 DEF ScmiSame
    <3>. HIDE DEF i
    <3>5. /\ ScmiIsSeq(a.devs) /\ Len(a.devs) = Len(ds) /\ DOMAIN a.devs = DOMAIN ds
          /\ \A j \in DOMAIN ds : a.devs[j] = IF j = i THEN b.dev ELSE ds[j]
      BY <3>1, <3>4, ScmiOneElse DEF ScmiDevices
    <3>. QED
      BY <1>6, <3>3, <3>4, <3>5 DEF ScmiAnswer, i
  <2>. QED
    BY <2>1, <2>2
<1>7. sensor /\ r.msg # "description" /\ ~(r.msg = "reading" /\ r.arg # 0) => a \in ScmiOfDevice(ds, r)
  BY DEF ScmiHandle, ScmiSensorRequest
<1>. QED
  BY <1>2, <1>3, <1>4, <1>5, <1>6, <1>7

-----------------------------------------------------------------------------
(* The daemon.  What the guest knows of a sensor is so; what it has found  *)
(* it has found since the daemon came up.                                  *)

ScmiKnows(v, d) ==
  /\ v \in [enabled : BOOLEAN, notify : BOOLEAN, sure : BOOLEAN]
  /\ v.sure => v.enabled = d.enabled /\ v.notify = d.notify

ScmiTable ==
  /\ ScmiDevices(scmi_devs)
  /\ DOMAIN scmi_view = DOMAIN scmi_devs /\ scmi_view = [i \in DOMAIN scmi_view |-> scmi_view[i]]
  /\ \A i \in DOMAIN scmi_devs : ScmiKnows(scmi_view[i], scmi_devs[i])

ScmiEvents ==
  /\ scmi_event \in [avail : Seq(ScmiRooms), descs : Seq(ScmiRooms), used : Nat] /\ scmi_lost \in Nat
  /\ scmi_event.used + Len(scmi_event.avail) + Len(scmi_event.descs) + scmi_lost <= ScmiBuffers

ScmiFindings ==
  /\ scmi_found \in [ids : Seq(Nat), left : Int] /\ ScmiAllFound
  /\ scmi_up = "down" => scmi_found = NothingFound

ScmiStates == {"down", "up", "dead", "failed"}

ScmiIInv ==
  /\ scmi_up \in ScmiStates /\ scmi_cmd \in RingsOf(ScmiRequests)
  /\ ScmiTable /\ ScmiEvents /\ ScmiFindings /\ ScmiAskedFor

\* What the steps leave alone
LEMMA ScmiTableStays ==
  ASSUME ScmiTable, UNCHANGED <<scmi_devs, scmi_view>> PROVE ScmiTable'
BY DEF ScmiTable, ScmiDevices, ScmiIsSeq, ScmiIsSensor, ScmiRight, ScmiKnows

LEMMA ScmiEventsStay ==
  ASSUME ScmiEvents, UNCHANGED <<scmi_event, scmi_lost>> PROVE ScmiEvents'
BY DEF ScmiEvents

LEMMA ScmiFindingsStay ==
  ASSUME ScmiFindings, UNCHANGED scmi_found, Len(scmi_devs') = Len(scmi_devs), scmi_up' = "down" => scmi_up = "down"
  PROVE  ScmiFindings'
BY DEF ScmiFindings, ScmiAllFound

LEMMA ScmiAskedForStays ==
  ASSUME ScmiAskedFor, scmi_news' \in {scmi_news, <<>>} PROVE ScmiAskedFor'
BY DEF ScmiAskedFor, ToSet

\* One sensor changes, but not in what the guest knows of it.
LEMMA ScmiOneChanges ==
  ASSUME ScmiTable, NEW i \in DOMAIN scmi_devs, NEW d, ScmiIsSensor(d), ScmiRight(d), ScmiAlike(scmi_devs[i], d),
         scmi_devs' = [scmi_devs EXCEPT ![i] = d], scmi_view' = scmi_view
  PROVE  ScmiTable' /\ Len(scmi_devs') = Len(scmi_devs)
<1>1. /\ ScmiIsSeq(scmi_devs') /\ Len(scmi_devs') = Len(scmi_devs) /\ DOMAIN scmi_devs' = DOMAIN scmi_devs
      /\ \A j \in DOMAIN scmi_devs : scmi_devs'[j] = IF j = i THEN d ELSE scmi_devs[j]
  <2>1. ScmiIsSeq(scmi_devs)
    BY DEF ScmiTable, ScmiDevices
  <2>. DEFINE e == [scmi_devs EXCEPT ![i] = d]
  <2>2. /\ ScmiIsSeq(e) /\ Len(e) = Len(scmi_devs) /\ DOMAIN e = DOMAIN scmi_devs
        /\ \A j \in DOMAIN scmi_devs : e[j] = IF j = i THEN d ELSE scmi_devs[j]
    BY <2>1, ScmiOneElse, Zenon
  <2>3. scmi_devs' = e
    OBVIOUS
  <2>. HIDE DEF e
  <2>. QED
    BY <2>2, <2>3
<1>2. \A j \in DOMAIN scmi_devs : ScmiIsSensor(scmi_devs'[j]) /\ ScmiRight(scmi_devs'[j]) /\ ScmiKnows(scmi_view[j], scmi_devs'[j])
  <2>. SUFFICES ASSUME NEW j \in DOMAIN scmi_devs
                PROVE  ScmiIsSensor(scmi_devs'[j]) /\ ScmiRight(scmi_devs'[j]) /\ ScmiKnows(scmi_view[j], scmi_devs'[j])
    OBVIOUS
  <2>1. CASE j = i
    <3>1. scmi_devs'[j] = d /\ ScmiKnows(scmi_view[j], d)
      BY <1>1, <2>1 DEF ScmiTable, ScmiKnows, ScmiAlike
    <3>. QED
      BY <3>1
  <2>2. CASE j # i
    <3>1. scmi_devs'[j] = scmi_devs[j]
      BY <1>1, <2>2
    <3>. QED
      BY <3>1 DEF ScmiTable, ScmiDevices
  <2>. QED
    BY <2>1, <2>2
<1>3. ScmiDevices(scmi_devs)'
  <2>1. ScmiIsSeq(scmi_devs') /\ \A j \in DOMAIN scmi_devs' : ScmiIsSensor(scmi_devs'[j]) /\ ScmiRight(scmi_devs'[j])
    BY <1>1, <1>2
  <2>. QED
    BY <2>1 DEF ScmiDevices, ScmiIsSeq, ScmiIsSensor, ScmiRight
<1>4. \A j \in DOMAIN scmi_devs' : ScmiKnows(scmi_view'[j], scmi_devs'[j])
  BY <1>1, <1>2
<1>5. DOMAIN scmi_view' = DOMAIN scmi_devs' /\ scmi_view' = [j \in DOMAIN scmi_view' |-> scmi_view'[j]]
  BY <1>1 DEF ScmiTable
<1>. QED
  BY <1>1, <1>3, <1>4, <1>5 DEF ScmiTable, ScmiKnows

-----------------------------------------------------------------------------
LEMMA ScmiStartKeeps ==
  ASSUME ScmiIInv, NEW cs \in ScmiConfigs, ScmiStart(cs)
  PROVE  ScmiIInv'
<1>1. /\ scmi_up = "down" /\ scmi_up' \in {"up", "failed"} /\ scmi_devs' \in {ScmiNew(cs), <<>>}
      /\ scmi_view' = [i \in DOMAIN scmi_devs' |-> ScmiUnknown]
      /\ UNCHANGED <<scmi_cmd, scmi_event, scmi_lost, scmi_news, scmi_found>>
  BY DEF ScmiStart
<1>2. \A ds \in {ScmiNew(cs), <<>>} : ScmiDevices(ds) /\ \A i \in DOMAIN ds : ~ds[i].enabled /\ ~ds[i].notify
  <2>1. ScmiDevices(<<>>) /\ DOMAIN <<>> = {}
    BY DEF ScmiDevices, ScmiIsSeq
  <2>. QED
    BY <2>1, ScmiNewIs
<1>. DEFINE ds == scmi_devs'
<1>3. ScmiDevices(ds) /\ \A i \in DOMAIN ds : ~ds[i].enabled /\ ~ds[i].notify
  BY <1>1, <1>2
<1>4. \A i \in DOMAIN ds : ScmiKnows(scmi_view'[i], ds[i])
  <2>. SUFFICES ASSUME NEW i \in DOMAIN ds PROVE ScmiKnows(ScmiUnknown, ds[i])
    BY <1>1
  <2>1. ds[i].enabled = FALSE /\ ds[i].notify = FALSE
    BY <1>3 DEF ScmiDevices, ScmiIsSensor
  <2>. QED
    BY <2>1 DEF ScmiKnows, ScmiUnknown
<1>5. ScmiTable'
  <2>1. DOMAIN scmi_view' = DOMAIN ds /\ scmi_view' = [i \in DOMAIN scmi_view' |-> scmi_view'[i]]
    BY <1>1
  <2>. QED
    BY <1>3, <1>4, <2>1 DEF ScmiTable, ScmiDevices, ScmiIsSeq, ScmiIsSensor, ScmiRight, ScmiKnows
<1>6. ScmiFindings'
  BY <1>1 DEF ScmiIInv, ScmiFindings, ScmiAllFound, NothingFound
<1>. QED
  BY <1>1, <1>5, <1>6, ScmiEventsStay, ScmiAskedForStays DEF ScmiIInv, ScmiStates

LEMMA ScmiGoneKeeps == ScmiIInv /\ ScmiGone => ScmiIInv'
<1>. SUFFICES ASSUME ScmiIInv, ScmiGone PROVE ScmiIInv'
  OBVIOUS
<1>1. /\ scmi_up' = "down" /\ scmi_devs' = <<>> /\ scmi_cmd' = EmptyRing /\ scmi_event' = EmptyEvent
      /\ scmi_lost' = 0 /\ scmi_view' = <<>> /\ scmi_found' = NothingFound /\ scmi_news' = <<>>
  BY DEF ScmiGone
<1>2. scmi_cmd' \in RingsOf(ScmiRequests)
  BY <1>1 DEF EmptyRing, RingsOf
<1>3. ScmiTable'
  BY <1>1 DEF ScmiTable, ScmiDevices, ScmiIsSeq
<1>4. ScmiEvents'
  BY <1>1, ScmiAssumption DEF ScmiEvents, EmptyEvent
<1>5. ScmiFindings'
  BY <1>1 DEF ScmiFindings, ScmiAllFound, NothingFound
<1>6. ScmiAskedFor'
  BY <1>1, ScmiAskedForStays DEF ScmiIInv
<1>. QED
  BY <1>1, <1>2, <1>3, <1>4, <1>5, <1>6 DEF ScmiIInv, ScmiStates

\* A description that is noted goes on where the last one has ended.
LEMMA ScmiNotes ==
  ASSUME ScmiIInv, NEW r \in ScmiRequests, NEW a, ScmiAnswer(scmi_devs, r, a), NEW told \in BOOLEAN,
         scmi_found' = ScmiNoted(r, a, told), Len(scmi_devs') = Len(scmi_devs), scmi_up = "up", scmi_up' # "down"
  PROVE  ScmiFindings'
<1>1. CASE scmi_found' = scmi_found
  BY <1>1, ScmiFindingsStay DEF ScmiIInv
<1>2. CASE r.msg = "description" /\ a.status = "Success" /\ told /\ r.index = Len(scmi_found.ids)
  <2>. DEFINE n == r.index  ids == scmi_found.ids
  <2>1. PICK k \in Nat : a.words = 1 + 7 * k /\ n + k <= Len(scmi_devs) /\ a.more = Len(scmi_devs) - (n + k)
    BY <1>2 DEF ScmiAnswer
  <2>2. (a.words - 1) \div 7 = k
    BY <2>1
  <2>3. /\ ids \in Seq(Nat) /\ n = Len(ids) /\ n \in Nat /\ Len(scmi_devs) \in Nat
        /\ ids = [j \in 1 .. n |-> j - 1]
    <3>1. Len(scmi_devs) \in Nat
      BY LenProperties DEF ScmiIInv, ScmiTable, ScmiDevices, ScmiIsSeq
    <3>. QED
      BY <1>2, <3>1, LenProperties DEF ScmiIInv, ScmiFindings, ScmiAllFound
  <2>. DEFINE new == [j \in 1 .. k |-> n + j - 1]
              all == ids \o new
  <2>4. scmi_found' = [ids |-> all, left |-> a.more]
    BY <1>2, <2>2 DEF ScmiNoted
  <2>5. new \in Seq(Nat) /\ Len(new) = k
    BY <2>1, <2>3
  <2>6. all \in Seq(Nat) /\ Len(all) = n + k /\ all = [j \in 1 .. n + k |-> j - 1]
    <3>1. all \in Seq(Nat) /\ Len(all) = n + k
      BY <2>3, <2>5, ConcatProperties
    <3>2. \A j \in 1 .. n + k : all[j] = j - 1
      <4>. SUFFICES ASSUME NEW j \in 1 .. n + k PROVE all[j] = j - 1
        OBVIOUS
      <4>1. CASE j <= n
        <5>1. all[j] = ids[j]
          BY <2>1, <2>3, <2>5, <4>1, ConcatProperties
        <5>. QED
          BY <2>3, <4>1, <5>1
      <4>2. CASE j > n
        <5>1. all[j] = new[j - n]
          BY <2>1, <2>3, <2>5, <4>2, ConcatProperties
        <5>2. j - n \in 1 .. k
          BY <2>1, <2>3, <4>2
        <5>3. new[j - n] = n + (j - n) - 1
          BY <5>2
        <5>. QED
          BY <2>1, <2>3, <5>1, <5>3
      <4>. QED
        BY <2>1, <2>3, <4>1, <4>2
    <3>. HIDE DEF all
    <3>3. DOMAIN all = 1 .. n + k
      BY <3>1
    <3>. QED
      BY <3>1, <3>2, <3>3
  <2>. DEFINE more == a.more
  <2>. HIDE DEF all, n
  <2>7. more \in Int /\ (n + k) + more = Len(scmi_devs')
    BY <2>1, <2>3
  <2>. HIDE DEF more
  <2>8. scmi_found'.ids = all /\ scmi_found'.left = more /\ scmi_found' \in [ids : Seq(Nat), left : Int]
    BY <2>4, <2>6, <2>7 DEF more
  <2>9. ScmiAllFound'
    BY <2>6, <2>7, <2>8 DEF ScmiAllFound
  <2>. QED
    BY <2>8, <2>9 DEF ScmiFindings
<1>. QED
  BY <1>1, <1>2 DEF ScmiNoted

\* What the guest learns of a sensor from the answer to a request
LEMMA ScmiLearns ==
  ASSUME ScmiTable, NEW r \in ScmiRequests, NEW a, ScmiAnswer(scmi_devs, r, a), NEW told \in BOOLEAN,
         scmi_devs' = a.devs, scmi_view' = ScmiLearn(r, a, told)
  PROVE  ScmiTable' /\ Len(scmi_devs') = Len(scmi_devs)
<1>. DEFINE i == r.index + 1
<1>1. /\ ScmiIsSeq(scmi_devs') /\ Len(scmi_devs') = Len(scmi_devs) /\ DOMAIN scmi_devs' = DOMAIN scmi_devs
      /\ \A j \in DOMAIN scmi_devs : IF j = i THEN ScmiTold(scmi_devs[j], scmi_devs'[j], r, a.status) ELSE scmi_devs'[j] = scmi_devs[j]
  BY DEF ScmiAnswer
<1>2. \A j \in DOMAIN scmi_devs : ScmiIsSensor(scmi_devs'[j]) /\ ScmiRight(scmi_devs'[j])
  BY <1>1 DEF ScmiTable, ScmiDevices, ScmiTold
<1>3. Len(scmi_devs) \in Nat /\ DOMAIN scmi_devs = 1 .. Len(scmi_devs) /\ r.index \in Nat
  BY LenProperties, ScmiAssumption DEF ScmiTable, ScmiDevices, ScmiIsSeq
<1>4. /\ scmi_view = [j \in DOMAIN scmi_devs |-> scmi_view[j]]
      /\ \A j \in DOMAIN scmi_devs : ScmiKnows(scmi_view[j], scmi_devs[j])
  BY DEF ScmiTable
<1>. DEFINE views ==
       /\ scmi_view' = [j \in DOMAIN scmi_devs |-> scmi_view'[j]]
       /\ \A j \in DOMAIN scmi_devs : ScmiKnows(scmi_view'[j], scmi_devs'[j])
<1>. HIDE DEF i
<1>5. ASSUME r.msg \notin {"config_set", "continuous"} \/ r.index >= Len(scmi_devs)
      PROVE  views
  <2>1. scmi_view' = scmi_view
    BY <1>5 DEF ScmiLearn
  <2>2. ASSUME NEW j \in DOMAIN scmi_devs PROVE ScmiAlike(scmi_devs[j], scmi_devs'[j])
    <3>1. CASE j = i
      <4>1. r.msg \notin {"config_set", "continuous"}
        BY <1>3, <1>5, <3>1 DEF i
      <4>. QED
        BY <1>1, <3>1, <4>1 DEF ScmiTold
    <3>2. CASE j # i
      BY <1>1, <3>2 DEF ScmiAlike
    <3>. QED
      BY <3>1, <3>2
  <2>. QED
    BY <1>4, <2>1, <2>2 DEF ScmiKnows, ScmiAlike
<1>6. ASSUME r.msg \in {"config_set", "continuous"} /\ ~(r.index >= Len(scmi_devs))
      PROVE  views
  <2>1. i \in DOMAIN scmi_devs
    BY <1>3, <1>6 DEF i
  <2>2. PICK v : scmi_view' = [scmi_view EXCEPT ![i] = v] /\ ScmiKnows(v, scmi_devs'[i])
    <3>1. CASE ~(a.status = "Success" /\ told)
      <4>1. scmi_view' = [scmi_view EXCEPT ![i] = ScmiUnsure]
        BY <1>6, <3>1 DEF ScmiLearn, i
      <4>2. ScmiKnows(ScmiUnsure, scmi_devs'[i])
        BY DEF ScmiKnows, ScmiUnsure
      <4>. QED
        BY <4>1, <4>2
    <3>2. CASE a.status = "Success" /\ told
      <4>. DEFINE v == scmi_view[i]  to == r.arg = 1
                  w == IF r.msg = "config_set" THEN [v EXCEPT !.enabled = to] ELSE [v EXCEPT !.notify = to]
      <4>1. scmi_view' = [scmi_view EXCEPT ![i] = w]
        BY <1>6, <3>2 DEF ScmiLearn, i
      <4>2. ScmiKnows(v, scmi_devs[i]) /\ ScmiTold(scmi_devs[i], scmi_devs'[i], r, "Success") /\ to \in BOOLEAN
        BY <1>1, <1>4, <2>1, <3>2
      <4>. HIDE DEF v
      <4>3. CASE r.msg = "config_set"
        <5>1. scmi_devs'[i].enabled = to /\ scmi_devs'[i].notify = scmi_devs[i].notify
          BY <4>2, <4>3 DEF ScmiTold
        <5>. HIDE DEF to
        <5>2. w = [v EXCEPT !.enabled = to]
          BY <4>3
        <5>. HIDE DEF w
        <5>3. ScmiKnows(w, scmi_devs'[i])
          BY <4>2, <5>1, <5>2 DEF ScmiKnows
        <5>. QED
          BY <4>1, <5>3
      <4>4. CASE r.msg = "continuous"
        <5>1. scmi_devs'[i].notify = to /\ scmi_devs'[i].enabled = scmi_devs[i].enabled
          BY <4>2, <4>4 DEF ScmiTold
        <5>. HIDE DEF to
        <5>2. w = [v EXCEPT !.notify = to]
          BY <4>4
        <5>. HIDE DEF w
        <5>3. ScmiKnows(w, scmi_devs'[i])
          BY <4>2, <5>1, <5>2 DEF ScmiKnows
        <5>. QED
          BY <4>1, <5>3
      <4>. QED
        BY <1>6, <4>3, <4>4
    <3>. QED
      BY <3>1, <3>2
  <2>3. /\ scmi_view' = [j \in DOMAIN scmi_devs |-> scmi_view'[j]]
        /\ \A j \in DOMAIN scmi_devs : scmi_view'[j] = IF j = i THEN v ELSE scmi_view[j]
    BY <1>4, <2>1, <2>2
  <2>4. \A j \in DOMAIN scmi_devs : ScmiKnows(scmi_view'[j], scmi_devs'[j])
    <3>. SUFFICES ASSUME NEW j \in DOMAIN scmi_devs PROVE ScmiKnows(scmi_view'[j], scmi_devs'[j])
      OBVIOUS
    <3>1. CASE j = i
      <4>1. scmi_view'[j] = v
        BY <2>3, <3>1
      <4>. QED
        BY <2>2, <3>1, <4>1
    <3>2. CASE j # i
      <4>1. scmi_view'[j] = scmi_view[j] /\ scmi_devs'[j] = scmi_devs[j]
        BY <1>1, <2>3, <3>2
      <4>. QED
        BY <1>4, <4>1
    <3>. QED
      BY <3>1, <3>2
  <2>. QED
    BY <2>3, <2>4
<1>7. views
  BY <1>5, <1>6
<1>8. DOMAIN scmi_view' = DOMAIN scmi_devs' /\ scmi_view' = [j \in DOMAIN scmi_view' |-> scmi_view'[j]]
  BY <1>1, <1>7
<1>9. \A j \in DOMAIN scmi_devs' : ScmiIsSensor(scmi_devs'[j]) /\ ScmiRight(scmi_devs'[j]) /\ ScmiKnows(scmi_view'[j], scmi_devs'[j])
  BY <1>1, <1>2, <1>7
<1>. HIDE DEF views
<1>10. ScmiTable'
  BY <1>1, <1>8, <1>9 DEF ScmiTable, ScmiDevices, ScmiIsSeq, ScmiIsSensor, ScmiRight, ScmiKnows
<1>. QED
  BY <1>1, <1>10

LEMMA ScmiServeKeeps == ScmiIInv /\ ScmiServe => ScmiIInv'
<1>. SUFFICES ASSUME ScmiIInv, ScmiServe PROVE ScmiIInv'
  OBVIOUS
<1>. DEFINE r == Request(scmi_cmd)
<1>1. r \in ScmiRequests /\ AddUsed(scmi_cmd) \in RingsOf(ScmiRequests) /\ scmi_cmd \in RingsOf(ScmiRequests)
  BY RingStays DEF ScmiIInv, ScmiServe
<1>2. scmi_up = "up" /\ UNCHANGED <<scmi_event, scmi_lost, scmi_news>>
  BY DEF ScmiServe
<1>3. ScmiEvents' /\ ScmiAskedFor'
  BY <1>2, ScmiEventsStay, ScmiAskedForStays DEF ScmiIInv
<1>4. CASE r.shape = "bad"
  <2>1. scmi_up' = "dead" /\ UNCHANGED <<scmi_devs, scmi_cmd, scmi_view, scmi_found>>
    BY <1>4 DEF ScmiServe, scmiHist
  <2>2. ScmiFindings'
    BY <1>2, <2>1, ScmiFindingsStay DEF ScmiIInv
  <2>. QED
    BY <1>3, <2>1, <2>2, ScmiTableStays DEF ScmiIInv, ScmiStates
<1>5. CASE r.shape # "bad"
  <2>1. PICK a \in ScmiHandle(scmi_devs, r), told \in BOOLEAN :
          /\ scmi_devs' = a.devs /\ scmi_up' \in {"dead", scmi_up} /\ scmi_cmd' \in {scmi_cmd, AddUsed(scmi_cmd)}
          /\ scmi_view' = ScmiLearn(r, a, told) /\ scmi_found' = ScmiNoted(r, a, told)
    <3>1. PICK a \in ScmiHandle(scmi_devs, r) :
            LET fit == ScmiFit(a.words + 2, r.room)
                lost == a.status = "panic" \/ r.shape = "readable" \/ fit = 0
            IN  /\ scmi_devs' = a.devs
                /\ scmi_up' = IF lost THEN "dead" ELSE scmi_up
                /\ scmi_cmd' = IF lost THEN scmi_cmd ELSE AddUsed(scmi_cmd)
                /\ scmi_view' = ScmiLearn(r, a, ~lost /\ fit = a.words + 2)
                /\ scmi_found' = ScmiNoted(r, a, ~lost /\ fit = a.words + 2)
      BY <1>5 DEF ScmiServe
    <3>. DEFINE fit == ScmiFit(a.words + 2, r.room)
                lost == a.status = "panic" \/ r.shape = "readable" \/ fit = 0
                told == ~lost /\ fit = a.words + 2
    <3>2. told \in BOOLEAN
      OBVIOUS
    <3>3. /\ scmi_devs' = a.devs /\ scmi_up' \in {"dead", scmi_up} /\ scmi_cmd' \in {scmi_cmd, AddUsed(scmi_cmd)}
          /\ scmi_view' = ScmiLearn(r, a, told) /\ scmi_found' = ScmiNoted(r, a, told)
      BY <3>1
    <3>. HIDE DEF told
    <3>. QED
      BY <3>2, <3>3
  <2>. HIDE DEF r
  <2>2. ScmiAnswer(scmi_devs, r, a)
    BY <1>1, ScmiHandles DEF ScmiIInv, ScmiTable
  <2>3. ScmiTable' /\ Len(scmi_devs') = Len(scmi_devs)
    BY <1>1, <2>1, <2>2, ScmiLearns DEF ScmiIInv
  <2>4. ScmiFindings'
    BY <1>1, <1>2, <2>1, <2>2, <2>3, ScmiNotes
  <2>. QED
    BY <1>1, <1>2, <1>3, <2>1, <2>3, <2>4 DEF ScmiIInv, ScmiStates
<1>. QED
  BY <1>4, <1>5

\* The queue of commands turns, and the guest asks.
LEMMA ScmiCommandKeeps ==
  ASSUME ScmiIInv, ScmiCollect \/ ScmiSignal \/ \E r \in ScmiRequests : ScmiGuestAsks(r)
  PROVE  ScmiIInv'
<1>1. /\ UNCHANGED <<scmi_up, scmi_devs, scmi_event, scmi_lost, scmi_news, scmi_view, scmi_found>>
      /\ scmi_cmd' \in {Collect(scmi_cmd), SignalUsed(scmi_cmd)} \/ \E r \in ScmiRequests : scmi_cmd' = Offer(scmi_cmd, r)
  BY DEF ScmiCollect, ScmiSignal, ScmiGuestAsks, scmiHist
<1>2. scmi_cmd' \in RingsOf(ScmiRequests)
  BY <1>1, RingStays DEF ScmiIInv
<1>. QED
  BY <1>1, <1>2, ScmiTableStays, ScmiEventsStay, ScmiFindingsStay, ScmiAskedForStays DEF ScmiIInv

\* A buffer is kept, given or taken back.
LEMMA ScmiBufferKeeps ==
  ASSUME ScmiIInv, ScmiKeep \/ ScmiGuestTakes \/ \E room \in ScmiRooms : ScmiGuestBuffer(room)
  PROVE  ScmiIInv'
<1>1. /\ UNCHANGED <<scmi_devs, scmi_cmd, scmi_lost, scmi_view, scmi_found>>
      /\ scmi_up' \in {scmi_up, "dead"} /\ (scmi_up' = "down" => scmi_up = "down") /\ scmi_news' \in {scmi_news, <<>>}
  BY DEF ScmiKeep, ScmiGuestTakes, ScmiGuestBuffer, scmiHist
<1>. DEFINE avail == scmi_event.avail  descs == scmi_event.descs  used == scmi_event.used
            Is(x, y, m) == [avail |-> x, descs |-> y, used |-> m]
<1>2. /\ scmi_event = Is(avail, descs, used) /\ avail \in Seq(ScmiRooms) /\ descs \in Seq(ScmiRooms) /\ used \in Nat
      /\ used + Len(avail) + Len(descs) + scmi_lost <= ScmiBuffers /\ scmi_lost \in Nat
  BY DEF ScmiIInv, ScmiEvents
<1>3. ASSUME NEW x \in Seq(ScmiRooms), NEW y \in Seq(ScmiRooms), NEW m \in Nat, scmi_event' = Is(x, y, m),
             m + Len(x) + Len(y) + scmi_lost <= ScmiBuffers
      PROVE  ScmiEvents'
  BY <1>1, <1>2, <1>3 DEF ScmiEvents
<1>4. Len(avail) \in Nat /\ Len(descs) \in Nat
  BY <1>2, LenProperties
<1>5. ScmiEvents'
  <2>1. CASE ScmiKeep
    <3>1. CASE scmi_event' = scmi_event
      BY <1>1, <3>1, ScmiEventsStay DEF ScmiIInv
    <3>2. CASE scmi_event' = [scmi_event EXCEPT !.descs = @ \o scmi_event.avail, !.avail = <<>>]
      <4>. DEFINE both == descs \o avail
      <4>1. both \in Seq(ScmiRooms) /\ Len(both) = Len(descs) + Len(avail) /\ <<>> \in Seq(ScmiRooms) /\ Len(<<>>) = 0
        BY <1>2, ConcatProperties
      <4>. DEFINE more == [scmi_event EXCEPT !.descs = both]
      <4>2. scmi_event' = [more EXCEPT !.avail = <<>>]
        BY <3>2
      <4>. HIDE DEF both, avail, descs, used
      <4>3. more = Is(avail, both, used)
        BY <1>2
      <4>. HIDE DEF more
      <4>4. scmi_event' = Is(<<>>, both, used)
        BY <4>2, <4>3
      <4>. HIDE DEF Is
      <4>. QED
        <5>1. used + Len(<<>>) + Len(both) + scmi_lost <= ScmiBuffers /\ used \in Nat
          BY <1>2, <1>4, <4>1, ScmiAssumption
        <5>2. <<>> \in Seq(ScmiRooms) /\ both \in Seq(ScmiRooms)
          BY <4>1
        <5>. QED
          BY <1>3, <4>4, <5>1, <5>2
    <3>. QED
      BY <2>1, <3>1, <3>2 DEF ScmiKeep
  <2>2. CASE ScmiGuestTakes
    <3>1. used > 0 /\ scmi_event' = [scmi_event EXCEPT !.used = used - 1]
      BY <2>2 DEF ScmiGuestTakes
    <3>. HIDE DEF avail, descs, used
    <3>2. scmi_event' = Is(avail, descs, used - 1)
      BY <1>2, <3>1
    <3>3. used - 1 \in Nat /\ (used - 1) + Len(avail) + Len(descs) + scmi_lost <= ScmiBuffers
      BY <1>2, <1>4, <3>1, ScmiAssumption
    <3>. HIDE DEF Is
    <3>. QED
      BY <1>2, <1>3, <3>2, <3>3
  <2>3. ASSUME NEW room \in ScmiRooms, ScmiGuestBuffer(room) PROVE ScmiEvents'
    <3>. DEFINE all == Append(avail, room)
    <3>1. scmi_event' = [scmi_event EXCEPT !.avail = all] /\ Len(avail) + Len(descs) + used + scmi_lost < ScmiBuffers
      BY <2>3 DEF ScmiGuestBuffer
    <3>2. all \in Seq(ScmiRooms) /\ Len(all) = Len(avail) + 1
      BY <1>2, AppendProperties
    <3>. HIDE DEF avail, descs, used, all
    <3>3. scmi_event' = Is(all, descs, used)
      BY <1>2, <3>1
    <3>. HIDE DEF Is
    <3>4. used + Len(all) + Len(descs) + scmi_lost <= ScmiBuffers
      <4>1. Len(avail) \in Nat /\ Len(descs) \in Nat /\ ScmiBuffers \in Nat
        BY <1>2, LenProperties, ScmiAssumption
      <4>. QED
        BY <1>2, <3>1, <3>2, <4>1
    <3>. QED
      BY <1>2, <1>3, <3>2, <3>3, <3>4
  <2>. QED
    BY <2>1, <2>2, <2>3
<1>6. ScmiTable' /\ ScmiFindings' /\ ScmiAskedFor'
  BY <1>1, ScmiTableStays, ScmiFindingsStay, ScmiAskedForStays DEF ScmiIInv
<1>. QED
  BY <1>1, <1>5, <1>6 DEF ScmiIInv, ScmiStates

LEMMA ScmiSampleKeeps ==
  ASSUME ScmiIInv, NEW i \in DOMAIN scmi_devs, ScmiSample(i)
  PROVE  ScmiIInv'
<1>. DEFINE d == [scmi_devs[i] EXCEPT !.pending = TRUE]
<1>1. scmi_devs' = [scmi_devs EXCEPT ![i] = d] /\ UNCHANGED <<scmi_up, scmi_cmd, scmi_event, scmi_lost, scmi_news, scmi_view, scmi_found>>
  BY DEF ScmiSample, scmiHist
<1>2. ScmiIsSensor(scmi_devs[i]) /\ ScmiRight(scmi_devs[i])
  BY DEF ScmiIInv, ScmiTable, ScmiDevices
<1>3. ScmiIsSensor(d) /\ ScmiRight(d) /\ ScmiAlike(scmi_devs[i], d)
  BY <1>2 DEF ScmiIsSensor, ScmiRight, ScmiAlike
<1>. HIDE DEF d
<1>4. ScmiTable' /\ Len(scmi_devs') = Len(scmi_devs)
  BY <1>1, <1>3, ScmiOneChanges DEF ScmiIInv
<1>5. ScmiEvents' /\ ScmiFindings' /\ ScmiAskedFor'
  BY <1>1, <1>4, ScmiEventsStay, ScmiFindingsStay, ScmiAskedForStays DEF ScmiIInv
<1>. QED
  BY <1>1, <1>4, <1>5 DEF ScmiIInv

\* Only a sensor that is to notify sends something.
LEMMA ScmiNotifies ==
  ASSUME NEW d, ScmiIsSensor(d), ScmiRight(d), NEW a \in ScmiNotified(d)
  PROVE  /\ ScmiIsSensor(a.dev) /\ ScmiRight(a.dev) /\ ScmiAlike(d, a.dev)
         /\ a.status = "Success" => d.enabled /\ d.notify
<1>1. ASSUME NEW b \in ScmiUpdate(d) PROVE ScmiIsSensor(b.dev) /\ ScmiRight(b.dev) /\ ScmiAlike(d, b.dev)
  <2>. DEFINE e == [d EXCEPT !.pending = FALSE]
  <2>1. b.dev \in {d, e}
    BY <1>1 DEF ScmiUpdate, ScmiDone
  <2>2. ScmiIsSensor(e) /\ ScmiRight(e) /\ ScmiAlike(d, e)
    BY DEF ScmiIsSensor, ScmiRight, ScmiAlike
  <2>3. ScmiAlike(d, d)
    BY DEF ScmiAlike
  <2>. HIDE DEF e
  <2>. QED
    BY <2>1, <2>2, <2>3
<1>2. CASE a \in ScmiUpdate(d) /\ (a.status = "panic" \/ (d.enabled /\ d.notify))
  BY <1>1, <1>2
<1>3. CASE \E b \in ScmiUpdate(d) : a = ScmiDone(b.dev, "InvalidParameters", 0)
  <2>1. PICK b \in ScmiUpdate(d) : a = ScmiDone(b.dev, "InvalidParameters", 0)
    BY <1>3
  <2>2. a.dev = b.dev /\ a.status = "InvalidParameters"
    BY <2>1 DEF ScmiDone
  <2>. QED
    BY <1>1, <2>2
<1>. QED
  BY <1>2, <1>3 DEF ScmiNotified

LEMMA ScmiNotifyKeeps ==
  ASSUME ScmiIInv, NEW i \in DOMAIN scmi_devs, ScmiNotify(i)
  PROVE  ScmiIInv'
<1>1. PICK a \in ScmiNotified(scmi_devs[i]) :
        LET none == a.status \notin {"Success", "panic"}
            fit == ScmiFit(a.words + 1, Last(scmi_event.descs))
            dead == a.status = "panic" \/ (~none /\ fit = 0)
        IN  /\ scmi_devs' = [scmi_devs EXCEPT ![i] = a.dev]
            /\ scmi_up' = IF dead THEN "dead" ELSE scmi_up
            /\ scmi_event' = [scmi_event EXCEPT !.descs = Front(@), !.used = IF none \/ dead THEN @ ELSE @ + 1]
            /\ scmi_lost' = IF none THEN scmi_lost + 1 ELSE scmi_lost
            /\ scmi_news' = IF none \/ dead \/ fit # a.words + 1 THEN scmi_news ELSE <<scmi_view[i]>>
  BY DEF ScmiNotify
<1>2. UNCHANGED <<scmi_cmd, scmi_view, scmi_found>> /\ scmi_up = "up" /\ scmi_event.descs # <<>>
  BY DEF ScmiNotify, scmiHist, scmiIdle
<1>. DEFINE none == a.status \notin {"Success", "panic"}
            dead == a.status = "panic" \/ (~none /\ ScmiFit(a.words + 1, Last(scmi_event.descs)) = 0)
<1>3. ScmiIsSensor(scmi_devs[i]) /\ ScmiRight(scmi_devs[i]) /\ ScmiKnows(scmi_view[i], scmi_devs[i])
  BY DEF ScmiIInv, ScmiTable, ScmiDevices
<1>4. /\ ScmiIsSensor(a.dev) /\ ScmiRight(a.dev) /\ ScmiAlike(scmi_devs[i], a.dev)
      /\ a.status = "Success" => scmi_devs[i].enabled /\ scmi_devs[i].notify
  BY <1>3, ScmiNotifies
<1>5. ScmiTable' /\ Len(scmi_devs') = Len(scmi_devs)
  BY <1>1, <1>2, <1>4, ScmiOneChanges DEF ScmiIInv
<1>6. ScmiAskedFor'
  <2>1. CASE scmi_news' = scmi_news
    BY <2>1, ScmiAskedForStays DEF ScmiIInv
  <2>2. CASE ~none /\ ~dead /\ scmi_news' = <<scmi_view[i]>>
    <3>1. a.status = "Success"
      BY <2>2
    <3>2. scmi_view[i].sure => scmi_view[i].enabled /\ scmi_view[i].notify
      BY <1>3, <1>4, <3>1 DEF ScmiKnows
    <3>3. ToSet(scmi_news') = {scmi_view[i]}
      BY <2>2 DEF ToSet
    <3>. QED
      BY <3>2, <3>3 DEF ScmiAskedFor
  <2>. QED
    BY <1>1, <2>1, <2>2
<1>7. ScmiEvents'
  <2>. DEFINE avail == scmi_event.avail  descs == scmi_event.descs  used == scmi_event.used
              Is(x, y, m) == [avail |-> x, descs |-> y, used |-> m]
              front == Front(descs)  now == IF none \/ dead THEN used ELSE used + 1
  <2>1. /\ scmi_event = Is(avail, descs, used) /\ avail \in Seq(ScmiRooms) /\ descs \in Seq(ScmiRooms) /\ used \in Nat
        /\ used + Len(avail) + Len(descs) + scmi_lost <= ScmiBuffers /\ scmi_lost \in Nat /\ descs # <<>>
    BY <1>2 DEF ScmiIInv, ScmiEvents
  <2>2. front \in Seq(ScmiRooms) /\ Len(front) = Len(descs) - 1 /\ Len(descs) \in Nat \ {0} /\ Len(avail) \in Nat
    <3>1. Len(descs) \in Nat \ {0} /\ Len(avail) \in Nat
      BY <2>1, LenProperties, EmptySeq
    <3>. DEFINE m == Len(descs) - 1
    <3>2. m \in Nat /\ \A j \in 1 .. m : descs[j] \in ScmiRooms
      <4>. HIDE DEF descs
      <4>. QED
        BY <2>1, <3>1, ElementOfSeq
    <3>3. front = SubSeq(descs, 1, m)
      BY DEF Front
    <3>. HIDE DEF descs, front, m
    <3>4. front \in Seq(ScmiRooms) /\ Len(front) = m
      BY <3>2, <3>3, SubSeqProperties
    <3>. QED
      BY <3>1, <3>4 DEF m
  <2>. DEFINE more == [scmi_event EXCEPT !.descs = front]
  <2>3. scmi_event' = [more EXCEPT !.used = now] /\ scmi_lost' = IF none THEN scmi_lost + 1 ELSE scmi_lost
    BY <1>1
  <2>. HIDE DEF front, avail, descs, used, now
  <2>4. more = Is(avail, front, used)
    BY <2>1
  <2>. HIDE DEF more
  <2>5. scmi_event' = Is(avail, front, now)
    BY <2>3, <2>4
  <2>6. now \in Nat /\ now + scmi_lost' <= used + scmi_lost + 1 /\ scmi_lost' \in Nat
    BY <2>1, <2>3 DEF now
  <2>7. now + Len(avail) + Len(front) + scmi_lost' <= ScmiBuffers
    <3>1. Len(front) = Len(descs) - 1 /\ Len(descs) \in Nat /\ Len(avail) \in Nat /\ used \in Nat /\ scmi_lost \in Nat
          /\ used + Len(avail) + Len(descs) + scmi_lost <= ScmiBuffers /\ ScmiBuffers \in Nat
      BY <2>1, <2>2, ScmiAssumption
    <3>2. \A b, c, f, l, m, n, u, v \in Nat :
            /\ u + c + l + b <= n /\ f = l - 1 /\ m + v <= u + b + 1
            => m + c + f + v <= n
      OBVIOUS
    <3>3. Len(front) \in Nat
      BY <2>2, LenProperties
    <3>. QED
      BY <2>6, <3>1, <3>2, <3>3
  <2>. HIDE DEF none, dead
  <2>8. scmi_event' \in [avail : Seq(ScmiRooms), descs : Seq(ScmiRooms), used : Nat]
        /\ scmi_event'.avail = avail /\ scmi_event'.descs = front /\ scmi_event'.used = now
    BY <2>1, <2>2, <2>5, <2>6
  <2>. QED
    BY <2>6, <2>7, <2>8 DEF ScmiEvents
<1>8. scmi_up' \in {"dead", "up"}
  BY <1>1, <1>2
<1>9. ScmiFindings'
  BY <1>2, <1>5, <1>8, ScmiFindingsStay DEF ScmiIInv
<1>. QED
  BY <1>2, <1>5, <1>6, <1>7, <1>8, <1>9 DEF ScmiIInv, ScmiStates

\* Sensors are switched as the guest knows, notifications come that it asked for,
\* and it finds every sensor once: for any sensors, any requests, any number of
\* buffers and any writes that fail (scmi.rs, iio.rs, common.rs).
THEOREM ScmiHolds == ScmiSpec => []ScmiInv
<1>1. ScmiInit => ScmiIInv
  <2>. SUFFICES ASSUME ScmiInit PROVE ScmiIInv
    OBVIOUS
  <2>1. scmi_cmd \in RingsOf(ScmiRequests) /\ ScmiEvents
    BY ScmiAssumption DEF ScmiInit, EmptyRing, RingsOf, ScmiEvents, EmptyEvent
  <2>2. ScmiTable
    BY DEF ScmiInit, ScmiTable, ScmiDevices, ScmiIsSeq
  <2>3. ScmiFindings /\ ScmiAskedFor
    BY DEF ScmiInit, ScmiFindings, ScmiAllFound, NothingFound, ScmiAskedFor, ToSet
  <2>. QED
    BY <2>1, <2>2, <2>3 DEF ScmiInit, ScmiIInv, ScmiStates
<1>2. ScmiIInv /\ [ScmiNext]_ScmiVars => ScmiIInv'
  <2>. SUFFICES ASSUME ScmiIInv, [ScmiNext]_ScmiVars PROVE ScmiIInv'
    OBVIOUS
  <2>1. CASE UNCHANGED ScmiVars
    BY <2>1, ScmiTableStays, ScmiEventsStay, ScmiFindingsStay, ScmiAskedForStays DEF ScmiVars, ScmiIInv
  <2>2. CASE ScmiNext
    BY <2>2, ScmiStartKeeps, ScmiGoneKeeps, ScmiServeKeeps, ScmiCommandKeeps, ScmiBufferKeeps, ScmiSampleKeeps,
       ScmiNotifyKeeps DEF ScmiNext, ScmiDo
  <2>. QED
    BY <2>1, <2>2
<1>3. ScmiIInv => ScmiInv
  <2>. SUFFICES ASSUME ScmiIInv PROVE ScmiInv
    OBVIOUS
  <2>1. Len(scmi_event.avail) \in Nat /\ Len(scmi_event.descs) \in Nat
    BY LenProperties DEF ScmiIInv, ScmiEvents
  <2>2. ScmiTypeOK
    BY <2>1, ScmiAssumption DEF ScmiIInv, ScmiStates, ScmiEvents, ScmiTable, ScmiTypeOK
  <2>3. ScmiSwitched
    BY DEF ScmiIInv, ScmiTable, ScmiDevices, ScmiRight, ScmiSwitched
  <2>. QED
    BY <2>2, <2>3 DEF ScmiIInv, ScmiFindings, ScmiInv
<1>. QED
  BY <1>1, <1>2, <1>3, PTL DEF ScmiSpec

=============================================================================
