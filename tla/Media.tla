--------------------------------- MODULE Media ---------------------------------
(***************************************************************************)
(* vhost-device-media: the guest's sessions with a V4L2 device, whose      *)
(* buffers are mapped into a region that the guest and the VMM share.      *)
(* The runner that takes the commands apart, and the devices, are          *)
(* virtio-media's (external).                                              *)
(***************************************************************************)
EXTENDS Ring, FiniteSets, FiniteSetsExt, SequencesExt

CONSTANTS
  MediaBackends,  \* of "null" and "v4l2"
  MediaSpace,     \* SHMEM_SIZE: the size of the region
  MediaAlign,     \* what allocations in it are aligned to
  MediaIds,       \* bound: the sessions' numbers
  MediaCommands,  \* bound: the guest's commands, [cmd, id, offset, len, in, out]
  MediaEvents,    \* bound: how many event buffers the guest gives
  MediaFailures   \* bound: how often the VMM fails to unmap

VARIABLES
  media_backend,  \* the device, "none" before the first event
  media_worker,   \* the thread: "run" or "dead"
  media_memory,   \* the VMM has told of the guest's memory and of the way to ask for mappings
  media_ring,     \* the command queue
  media_sessions, \* the sessions that the runner holds
  media_epoll,    \* those whose descriptor the thread listens to
  media_data,     \* MediaSession.session_data, of the runner's clone of it
  media_regions,  \* MediaAllocator.regions: what is free, pairs <<start, end>>
  media_allocs,   \*   .allocs: what is allocated, by the buffer's offset
  media_mapped,   \* external: the ranges that the VMM maps
  media_leaked,   \* history: those that it failed to unmap
  media_buffers,  \* the guest's event buffers
  media_used      \* history: the length of the last answer

MediaVars == <<media_backend, media_worker, media_memory, media_ring, media_sessions, media_epoll, media_data,
               media_regions, media_allocs, media_mapped, media_leaked, media_buffers, media_used>>
mediaSpaceVars == <<media_regions, media_allocs, media_mapped, media_leaked>>
mediaSessionVars == <<media_sessions, media_epoll, media_data>>

MediaInit ==
  /\ media_backend = "none" /\ media_worker = "run" /\ media_memory = FALSE
  /\ media_ring = EmptyRing
  /\ media_sessions = {} /\ media_epoll = {} /\ media_data = {}
  /\ media_regions = {<<0, MediaSpace - 1>>} /\ media_allocs = <<>>
  /\ media_mapped = {} /\ media_leaked = {}
  /\ media_buffers = 0 /\ media_used = 0

-----------------------------------------------------------------------------
\* The allocator.  Ranges include their end.
MediaEmpty(r) == r[2] < r[1]

MediaOverlap(r, s) == ~MediaEmpty(<<Max({r[1], s[1]}), Min({r[2], s[2]})>>)

MediaUp(addr) == addr + ((MediaAlign - (addr % MediaAlign)) % MediaAlign)

\* allocate(): the first free region that has room for it from an aligned address.
MediaRoomy(r, len) == MediaUp(r[1]) + len - 1 <= r[2]

MediaFirst(len) == CHOOSE r \in media_regions :
  MediaRoomy(r, len) /\ \A s \in media_regions : MediaRoomy(s, len) => r[1] <= s[1]

\* non_overlapping_ranges(): what is left of a region before and behind a range in it.
MediaLeft(r, taken) == {s \in {<<r[1], taken[1] - 1>>, <<taken[2] + 1, r[2]>>} : ~MediaEmpty(s)}

MediaAllocate(offset, len, range) ==
  /\ media_regions' = (media_regions \ {MediaFirst(len)}) \cup MediaLeft(MediaFirst(len), range)
  /\ media_allocs' = [o \in DOMAIN media_allocs \cup {offset} |-> IF o = offset THEN range ELSE media_allocs[o]]

\* Mistake: the region freed is not joined with the one before it.
BugMediaJoined(range) ==
  LET larger == {r \in media_regions : r[1] = range[2] + 1} IN
  (media_regions \ larger)
    \cup {<<range[1], IF larger = {} THEN range[2] ELSE (CHOOSE r \in larger : TRUE)[2]>>}

\* insert_at(): a range that is freed is joined with its neighbours.
MediaJoined(range) ==
  LET near == {r \in media_regions : r[2] + 1 = range[1] \/ r[1] = range[2] + 1} IN
  (media_regions \ near)
    \cup {<<Min({range[1]} \cup {r[1] : r \in near}), Max({range[2]} \cup {r[2] : r \in near})>>}

MediaRelease(offset) ==
  /\ media_regions' = MediaJoined(media_allocs[offset])
  /\ media_allocs' = [o \in DOMAIN media_allocs \ {offset} |-> media_allocs[o]]

-----------------------------------------------------------------------------
\* add_mapping(): the range is allocated first, and released if the VMM does not
\* map it: then nothing has changed.
MediaMap(c) ==
  /\ c.offset \notin DOMAIN media_allocs /\ c.len > 0
  /\ \E r \in media_regions : MediaRoomy(r, c.len)
  /\ LET start == MediaUp(MediaFirst(c.len)[1])  range == <<start, start + c.len - 1>> IN
     /\ MediaAllocate(c.offset, c.len, range)
     /\ media_mapped' = media_mapped \cup {range}
  /\ UNCHANGED media_leaked

MediaHit(addr) == {o \in DOMAIN media_allocs : addr \in media_allocs[o][1] .. media_allocs[o][2]}

\* remove_mapping(): the range is free again even if the VMM fails to unmap it.
MediaUnmap(c) ==
  \E o \in MediaHit(c.offset) :
    /\ MediaRelease(o)
    /\ \/ media_mapped' = media_mapped \ {media_allocs[o]} /\ UNCHANGED media_leaked
       \/ /\ Cardinality(media_leaked) < MediaFailures
          /\ media_leaked' = media_leaked \cup {media_allocs[o]} /\ UNCHANGED media_mapped

\* MediaSession::add_session(): the descriptor is listened to, then its token is
\* remembered; a refusal leaves no trace.
MediaOpen(id) ==
  /\ id \notin media_sessions
  /\ media_sessions' = media_sessions \cup {id}
  /\ IF media_backend = "null" THEN UNCHANGED <<media_epoll, media_data>>
     ELSE media_epoll' = media_epoll \cup {id} /\ media_data' = media_data \cup {id}

MediaClose(id) ==
  /\ id \in media_sessions
  /\ media_sessions' = media_sessions \ {id}
  /\ media_epoll' = media_epoll \ {id} /\ media_data' = media_data \ {id}

\* The null device refuses everything but sessions, and unmaps what is not there.
MediaDevice(c) ==
  \/ c.cmd = "open" /\ MediaOpen(c.id) /\ UNCHANGED mediaSpaceVars
  \/ c.cmd = "close" /\ MediaClose(c.id) /\ UNCHANGED mediaSpaceVars
  \/ c.cmd = "mmap" /\ media_backend = "v4l2" /\ c.id \in media_sessions /\ MediaMap(c) /\ UNCHANGED mediaSessionVars
  \/ c.cmd = "munmap" /\ media_backend = "v4l2" /\ MediaUnmap(c) /\ UNCHANGED mediaSessionVars
  \* an ioctl; a command that is refused; one that the VMM or the device fails
  \/ UNCHANGED mediaSpaceVars /\ UNCHANGED mediaSessionVars

-----------------------------------------------------------------------------
\* DescriptorChainWriter and Reader go from one descriptor to the next; a call
\* that moves nothing (on an empty descriptor, or at the end) ends them.
MediaReach(descs) ==
  LET empty == {i \in DOMAIN descs : descs[i] = 0}
      last  == IF empty = {} THEN Len(descs) ELSE Min(empty) - 1
  IN FoldLeft(LAMBDA sum, len : sum + len, 0, SubSeq(descs, 1, last))

MediaCopied(descs, len) == Min({len, MediaReach(descs)})

\* Numbers are numbers, also the sum of a command's descriptors.
ASSUME MediaAssumption ==
  /\ MediaSpace \in Nat \ {0} /\ MediaAlign \in Nat \ {0}
  /\ MediaIds \subseteq Nat /\ MediaEvents \in Nat /\ MediaFailures \in Nat
  /\ \A c \in MediaCommands :
       /\ c.offset \in Nat /\ c.len \in Nat /\ MediaReach(c.out) \in Nat
       /\ c.cmd = "open" => c.id \in MediaIds

\* handle_event(): the device is made when the first event comes, whichever.
MediaStart(backend) ==
  /\ media_backend = "none" /\ media_worker = "run"
  /\ IF media_memory THEN media_backend' = backend /\ UNCHANGED media_worker
     ELSE media_worker' = "dead" /\ UNCHANGED media_backend
  /\ UNCHANGED <<media_memory, media_ring, media_buffers, media_used>>
  /\ UNCHANGED mediaSpaceVars /\ UNCHANGED mediaSessionVars

MediaRunning == media_worker = "run" /\ media_backend # "none"

MediaCollect ==
  /\ MediaRunning /\ CanCollect(media_ring)
  /\ media_ring' = Collect(media_ring)
  /\ UNCHANGED <<media_backend, media_worker, media_memory, media_buffers, media_used>>
  /\ UNCHANGED mediaSpaceVars /\ UNCHANGED mediaSessionVars

\* process_command_queue(): the runner serves a command whose header it can read.
MediaHeader == 2
MediaAnswer == 2

MediaServe ==
  /\ MediaRunning /\ Serving(media_ring)
  /\ LET c == Request(media_ring) IN
     /\ IF MediaCopied(c.in, MediaHeader) = MediaHeader THEN MediaDevice(c)
        ELSE UNCHANGED mediaSpaceVars /\ UNCHANGED mediaSessionVars
     /\ media_used' = MediaCopied(c.out, MediaAnswer)
  /\ media_ring' = AddUsed(media_ring)
  /\ UNCHANGED <<media_backend, media_worker, media_memory, media_buffers>>

MediaSignal ==
  /\ MediaRunning /\ CanSignal(media_ring)
  /\ media_ring' = SignalUsed(media_ring)
  /\ UNCHANGED <<media_backend, media_worker, media_memory, media_buffers, media_used>>
  /\ UNCHANGED mediaSpaceVars /\ UNCHANGED mediaSessionVars

\* A session's descriptor is ready: its events go to the guest, one buffer each;
\* without a buffer the event is dropped.
MediaProcessEvents(id) ==
  /\ MediaRunning /\ id \in media_epoll /\ id \in media_sessions
  /\ media_buffers' = Max({0, media_buffers - 1})
  /\ UNCHANGED <<media_backend, media_worker, media_memory, media_ring, media_used>>
  /\ UNCHANGED mediaSpaceVars /\ UNCHANGED mediaSessionVars

\* The device fails: the session is closed, and the error ends the thread.  The
\* MediaSession asked to forget it is another clone than the runner's, and has no
\* token for it: only the closing of the descriptor ends the listening.
MediaEventsFail(id) ==
  /\ MediaRunning /\ id \in media_epoll /\ id \in media_sessions
  /\ media_sessions' = media_sessions \ {id}
  /\ media_epoll' = media_epoll \ {id}
  /\ media_worker' = "dead"
  /\ UNCHANGED <<media_backend, media_memory, media_ring, media_data, media_buffers, media_used>>
  /\ UNCHANGED mediaSpaceVars

-----------------------------------------------------------------------------
\* The VMM and the guest (external).
MediaConfigure ==
  /\ ~media_memory /\ media_memory' = TRUE
  /\ UNCHANGED <<media_backend, media_worker, media_ring, media_buffers, media_used>>
  /\ UNCHANGED mediaSpaceVars /\ UNCHANGED mediaSessionVars

MediaOffer ==
  \/ /\ \E c \in MediaCommands : Outstanding(media_ring) < 1 /\ media_ring' = Offer(media_ring, c)
     /\ UNCHANGED <<media_backend, media_worker, media_memory, media_buffers, media_used>>
     /\ UNCHANGED mediaSpaceVars /\ UNCHANGED mediaSessionVars
  \/ /\ media_buffers < MediaEvents /\ media_buffers' = media_buffers + 1
     /\ UNCHANGED <<media_backend, media_worker, media_memory, media_ring, media_used>>
     /\ UNCHANGED mediaSpaceVars /\ UNCHANGED mediaSessionVars

MediaNext ==
  \/ \E backend \in MediaBackends : MediaStart(backend)
  \/ MediaCollect \/ MediaServe \/ MediaSignal
  \/ \E id \in MediaIds : MediaProcessEvents(id) \/ MediaEventsFail(id)
  \/ MediaConfigure \/ MediaOffer

MediaSpec == MediaInit /\ [][MediaNext]_MediaVars

-----------------------------------------------------------------------------
MediaRanges == {media_allocs[o] : o \in DOMAIN media_allocs}

MediaTypeOK ==
  /\ media_backend \in MediaBackends \cup {"none"} /\ media_worker \in {"run", "dead"}
  /\ media_sessions \subseteq MediaIds /\ media_buffers \in 0 .. MediaEvents
  /\ \A r \in media_regions \cup MediaRanges \cup media_mapped : r[1] \in 0 .. r[2] /\ r[2] \in 0 .. MediaSpace - 1
  /\ media_used \in 0 .. MediaAnswer

\* Every address of the region is free or allocated once, and the free regions are
\* as large as they can be, through any sequence of mappings and unmappings: a
\* region that was not joined would refuse buffers although there is room.
MediaAccounted ==
  /\ \A a \in 0 .. MediaSpace - 1 :
       Cardinality({r \in media_regions : a \in r[1] .. r[2]})
         + Cardinality({o \in DOMAIN media_allocs : a \in media_allocs[o][1] .. media_allocs[o][2]}) = 1
  /\ \A r, s \in media_regions : r[2] + 1 # s[1]
  /\ \A o \in DOMAIN media_allocs : media_allocs[o][1] % MediaAlign = 0

\* What the VMM maps is what is allocated, and never two buffers at one place,
\* but for ranges that it failed to unmap.
MediaMappedAllocated ==
  /\ MediaRanges \subseteq media_mapped
  /\ \A r \in media_mapped : r \in MediaRanges \/ r \in media_leaked
  /\ \A r, s \in media_mapped : r # s /\ MediaOverlap(r, s) => {r, s} \cap media_leaked # {}

\* The thread listens to the sessions that there are and knows a token for each of
\* them, so that none that was closed can be woken.
MediaHeard ==
  media_worker = "run" => media_epoll = media_data /\ media_epoll \subseteq media_sessions

\* The shared memory is accounted for, and each mapping and session is known
\* to those who use it (media_allocator.rs, vhu_media_thread.rs).
MediaInv == MediaTypeOK /\ MediaAccounted /\ MediaMappedAllocated /\ MediaHeard

\* "so the fd is still valid and session_data is cleaned up correctly"
\* (process_media_events).
MediaCleanedUp == media_data \subseteq media_sessions

=============================================================================
