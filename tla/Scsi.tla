---------------------------------- MODULE Scsi ----------------------------------
(***************************************************************************)
(* vhost-device-scsi: one target whose logical units are images, files of  *)
(* the host.  A request of the guest is read out of a chain (virtio.rs,    *)
(* vhu_scsi.rs), its CDB parsed (command.rs), the command carried out on a *)
(* logical unit (target.rs, block_device.rs, missing_lun.rs), and the      *)
(* answer written behind the header.  The files are written through the    *)
(* host's page cache, and what was not synced may be lost when the host    *)
(* loses its power.  Of data that only describes the device, the length in *)
(* bytes is kept.                                                          *)
(***************************************************************************)
EXTENDS Ring, FiniteSets, FiniteSetsExt

CONSTANTS
  ScsiImages,   \* the length of each image, in blocks
  ScsiValues,   \* what a block may hold
  ScsiRequests, \* the requests of the guest
  ScsiBlock,    \* the bytes of a block (512)
  ScsiTop       \* the number of block addresses (2^64)

VARIABLES
  scsi_ring,
  scsi_image,  \* the files as the host shows them
  scsi_disk,   \* the files as they are on its disk
  scsi_wp,     \* write_protected
  scsi_worker, \* "run", "dead" of a panic
  scsi_known,  \* history: what the guest may expect to read,
  scsi_safe,   \*   and what it may expect to read after a loss of power
  scsi_read,   \* history: the last blocks read, and what was expected
  scsi_answer  \* history: of the last answer, the room, bytes and residual

ScsiVars == <<scsi_ring, scsi_image, scsi_disk, scsi_wp, scsi_worker, scsi_known, scsi_safe, scsi_read, scsi_answer>>
scsiFiles == <<scsi_image, scsi_disk>>
scsiGuest == <<scsi_known, scsi_safe, scsi_read, scsi_answer>>

ScsiLuns == DOMAIN ScsiImages
ScsiBlocks(l) == 0 .. ScsiImages[l] - 1
ScsiAny == -1
ScsiNoAnswer == [code |-> "none", room |-> 0, bytes |-> 0, residual |-> 0]

\* create_backend(): the files are opened for writing, whatever is asked.
ScsiInit ==
  /\ scsi_ring = EmptyRing /\ scsi_worker = "run" /\ scsi_wp \in BOOLEAN
  /\ scsi_image = [l \in ScsiLuns |-> [b \in ScsiBlocks(l) |-> CHOOSE v \in ScsiValues : TRUE]]
  /\ scsi_disk = scsi_image /\ scsi_known = scsi_image /\ scsi_safe = scsi_image
  /\ scsi_read = <<>> /\ scsi_answer = ScsiNoAnswer

-----------------------------------------------------------------------------
(* The commands.  An outcome is the files of the unit afterwards, the sense *)
(* or "GOOD", the number of bytes written for the guest, and the blocks     *)
(* read.                                                                   *)

ScsiOut(u, sense, bytes) == [unit |-> u, sense |-> sense, bytes |-> bytes, blocks |-> <<>>]

\* size_in_blocks() may fail; the sense then is the caller's.
ScsiSized(u, sense, outcomes) == {ScsiOut(u, sense, 0)} \cup outcomes

\* READ CAPACITY (10) and (16): the last block.  Of an empty image that is
\* below 0: a panic, or the biggest number, as the program is built.
ScsiReadCapacity(u, len) ==
  ScsiSized(u, "UNRECOVERED_READ_ERROR",
    IF DOMAIN u.image = {} THEN {ScsiOut(u, "panic", 0), ScsiOut(u, "GOOD", len)} ELSE {ScsiOut(u, "GOOD", len)})

ScsiSync(u) == [u EXCEPT !.disk = u.image]

ScsiInRange(u, r) == r.lba + r.n <= Cardinality(DOMAIN u.image)

\* read_blocks() of READ (10); with FUA the file is synced before.
ScsiRead10(u, r) ==
  LET synced == IF r.fua THEN {ScsiSync(u)} ELSE {u}
      failed == IF r.fua THEN {ScsiOut(u, "TARGET_FAILURE", 0)} ELSE {}
  IN  failed \cup UNION {ScsiSized(s, "UNRECOVERED_READ_ERROR",
        IF ~ScsiInRange(s, r) THEN {ScsiOut(s, "LOGICAL_BLOCK_ADDRESS_OUT_OF_RANGE", 0)}
        ELSE {[ScsiOut(s, "GOOD", r.n * ScsiBlock) EXCEPT !.blocks = [k \in 1 .. r.n |-> s.image[r.lba + k - 1]]],
              ScsiOut(s, "UNRECOVERED_READ_ERROR", 0)}) : s \in synced}

\* The units that a write of blocks may leave: the first k of them written
ScsiWritten(u, r, k) ==
  [u EXCEPT !.image = [b \in DOMAIN u.image |-> IF b >= r.lba /\ b < r.lba + k THEN r.val ELSE u.image[b]]]

\* Mistake: the file is synced before it is written.
BugScsiWrite10(u, r) ==
  ScsiSized(u, "TARGET_FAILURE",
    IF ~ScsiInRange(u, r) THEN {ScsiOut(u, "LOGICAL_BLOCK_ADDRESS_OUT_OF_RANGE", 0)}
    ELSE {ScsiOut(ScsiWritten(IF r.fua THEN ScsiSync(u) ELSE u, r, r.n), "GOOD", 0)})

\* write_blocks() of WRITE (10), and the sync of FUA whether that succeeded or
\* not; the write protection is not looked at.
ScsiWrite10(u, r) ==
  ScsiSized(u, "TARGET_FAILURE",
    IF ~ScsiInRange(u, r) THEN {ScsiOut(u, "LOGICAL_BLOCK_ADDRESS_OUT_OF_RANGE", 0)}
    ELSE UNION {LET w == ScsiWritten(u, r, k) IN
                {ScsiOut(w, "TARGET_FAILURE", 0)}
                \cup (IF r.fua THEN {ScsiOut(ScsiSync(w), IF k = r.n THEN "GOOD" ELSE "TARGET_FAILURE", 0)} ELSE {})
                \cup (IF k = r.n /\ ~r.fua THEN {ScsiOut(w, "GOOD", 0)} ELSE {}) : k \in 0 .. r.n})

\* write_same_block() of WRITE SAME (16).  The sum of the two numbers may be
\* too big for its type: a panic, or a small sum, with which the check passes
\* and the loop writes nothing.
ScsiWriteSame16(u, r) ==
  IF r.anchor THEN {ScsiOut(u, "INVALID_FIELD_IN_CDB", 0)}
  ELSE ScsiSized(u, "UNRECOVERED_READ_ERROR",
    IF r.lba + r.n >= ScsiTop
    THEN {ScsiOut(u, "panic", 0),
          ScsiOut(u, IF (r.lba + r.n) % ScsiTop <= Cardinality(DOMAIN u.image) THEN "GOOD" ELSE "LOGICAL_BLOCK_ADDRESS_OUT_OF_RANGE", 0)}
    ELSE IF ~ScsiInRange(u, r) THEN {ScsiOut(u, "LOGICAL_BLOCK_ADDRESS_OUT_OF_RANGE", 0)}
    ELSE {ScsiOut(ScsiWritten(u, r, k), "TARGET_FAILURE", 0) : k \in 0 .. r.n} \cup {ScsiOut(ScsiWritten(u, r, r.n), "GOOD", 0)})

\* MODE SENSE (6): a header, and the caching page unless other values than the
\* current ones are asked for.
ScsiModeSense(u, r) ==
  CASE r.page \in {"current", "default"} -> {ScsiOut(u, "GOOD", 24)}
    [] r.page = "changeable" -> {ScsiOut(u, "INVALID_FIELD_IN_CDB", 4)}
    [] r.page = "saved" -> {ScsiOut(u, "SAVING_PARAMETERS_NOT_SUPPORTED", 4)}

\* INQUIRY: of the standard data, or of one of three pages
ScsiVpd == [SupportedVpdPages |-> 3, BlockDeviceCharacteristics |-> 60, LogicalBlockProvisioning |-> 4]

ScsiInquiry(u, r) ==
  IF r.page = "standard" THEN {ScsiOut(u, "GOOD", 96)}
  ELSE IF r.page \in DOMAIN ScsiVpd THEN {ScsiOut(u, "GOOD", 4 + ScsiVpd[r.page])}
  ELSE {ScsiOut(u, "INVALID_FIELD_IN_CDB", 1)}

\* OPCODES: the commands, whether they have a service action, and the length
\* of their cdb_template()
ScsiOpcodes ==
  [TestUnitReady |-> <<FALSE, 6>>, RequestSense |-> <<FALSE, 6>>, Inquiry |-> <<FALSE, 6>>, ModeSense6 |-> <<FALSE, 6>>,
   ReadCapacity10 |-> <<FALSE, 10>>, Read10 |-> <<FALSE, 10>>, Write10 |-> <<FALSE, 10>>, SynchronizeCache10 |-> <<FALSE, 10>>,
   WriteSame16 |-> <<FALSE, 16>>, ReadCapacity16 |-> <<TRUE, 16>>, ReportLuns |-> <<FALSE, 12>>,
   ReportSupportedOperationCodes |-> <<TRUE, 12>>]

\* REPORT SUPPORTED OPERATION CODES: of all, or of one, which is asked for with
\* a service action or without
ScsiReportCodes(u, r) ==
  LET known == r.code \in DOMAIN ScsiOpcodes
      one == ScsiOut(u, "GOOD", 4 + ScsiOpcodes[r.code][2] + (IF r.rctd THEN 12 ELSE 0))
  IN  CASE r.mode = "all" -> {ScsiOut(u, "GOOD", 4 + Cardinality(DOMAIN ScsiOpcodes) * (IF r.rctd THEN 20 ELSE 8))}
        [] r.mode = "either" -> {IF known /\ ScsiOpcodes[r.code][1] = r.action THEN one ELSE ScsiOut(u, "GOOD", 4)}
        [] r.mode = "command" -> {IF ~known THEN ScsiOut(u, "GOOD", 4) ELSE IF ScsiOpcodes[r.code][1]
                                  THEN ScsiOut(u, "INVALID_FIELD_IN_CDB", 0) ELSE one}
        [] r.mode = "action" -> {IF known /\ ScsiOpcodes[r.code][1] THEN IF r.action THEN one ELSE ScsiOut(u, "GOOD", 4)
                                 ELSE ScsiOut(u, "INVALID_FIELD_IN_CDB", 0)}

\* REQUEST SENSE, in the one format there is
ScsiRequestSense(u, r) ==
  IF r.page = "descriptor" THEN {ScsiOut(u, "INVALID_FIELD_IN_CDB", 0)} ELSE {ScsiOut(u, "GOOD", 18)}

\* BlockDevice::execute_command()
ScsiExecute(u, r) ==
  IF r.naca THEN {ScsiOut(u, "INVALID_FIELD_IN_CDB", 0)}
  ELSE CASE r.op = "TestUnitReady"  -> {ScsiOut(u, "GOOD", 0)}
         [] r.op = "ReadCapacity10" -> ScsiReadCapacity(u, 8)
         [] r.op = "ReadCapacity16" -> ScsiReadCapacity(u, 32)
         [] r.op = "ModeSense6"     -> ScsiModeSense(u, r)
         [] r.op = "Read10"         -> ScsiRead10(u, r)
         [] r.op = "Write10"        -> ScsiWrite10(u, r)
         [] r.op = "WriteSame16"    -> ScsiWriteSame16(u, r)
         [] r.op = "Inquiry"        -> ScsiInquiry(u, r)
         [] r.op = "RequestSense"   -> ScsiRequestSense(u, r)
         [] r.op = "ReportSupportedOperationCodes" -> ScsiReportCodes(u, r)
         [] r.op = "SynchronizeCache10" -> {ScsiOut(ScsiSync(u), "GOOD", 0), ScsiOut(u, "TARGET_FAILURE", 0)}

\* MissingLun::execute_command()
ScsiMissingLun(u, r) ==
  CASE r.op = "Inquiry" -> {ScsiOut(u, "GOOD", IF r.page = "standard" THEN 96 ELSE 2)}
    [] r.op = "RequestSense" -> ScsiRequestSense(u, r)
    [] OTHER -> {ScsiOut(u, "LOGICAL_UNIT_NOT_SUPPORTED", 0)}

ScsiUnit(l) == IF l \in ScsiLuns THEN [image |-> scsi_image[l], disk |-> scsi_disk[l]] ELSE [image |-> <<>>, disk |-> <<>>]

\* Cdb::parse(): the fields of a command whose values it refuses
ScsiChecked ==
  [Inquiry |-> {"flags", "page code"}, ModeSense6 |-> {"flags", "page code"}, Read10 |-> {"protection", "rebuild assist"},
   Write10 |-> {"protection"}, WriteSame16 |-> {"protection", "no data"}, ReportLuns |-> {"select report"},
   ReportSupportedOperationCodes |-> {"options"}]

ScsiInvalid(r) == r.op \in DOMAIN ScsiChecked /\ r.odd \in ScsiChecked[r.op]

\* A number of blocks has 32 bits, the number of addresses is 2^64, and a file
\* is shorter than 2^63 bytes.
ASSUME ScsiAssumption ==
  /\ ScsiImages \in Seq(Nat) /\ ScsiValues # {} /\ ScsiBlock \in Nat \ {0} /\ ScsiTop \in Nat \ {0}
  /\ \A r \in ScsiRequests :
       /\ {r.lba, r.n, r.alloc, r.room} \subseteq Nat /\ r.val \in ScsiValues
       /\ r.op \in DOMAIN ScsiOpcodes \cup {"unknown"}
       /\ r.op = "ModeSense6" => r.page \in {"current", "default", "changeable", "saved"}
       /\ r.op = "ReportSupportedOperationCodes" => r.mode \in {"all", "either", "command", "action"}
       /\ \A l \in DOMAIN ScsiImages : ScsiImages[l] + r.n <= ScsiTop

\* EmulatedTarget::execute_command(); REPORT LUNS is answered for any unit.
ScsiTarget(r) ==
  LET u == ScsiUnit(r.lun) IN
  IF r.op = "unknown" THEN {ScsiOut(u, "INVALID_COMMAND_OPERATION_CODE", 0)}
  ELSE IF ScsiInvalid(r) THEN {ScsiOut(u, "INVALID_FIELD_IN_CDB", 0)}
  ELSE IF r.op = "ReportLuns" THEN {ScsiOut(u, "GOOD", 8 + (IF r.page = "wellknown" THEN 0 ELSE 8 * Len(ScsiImages)))}
  ELSE IF r.lun \in ScsiLuns THEN ScsiExecute(u, r) ELSE ScsiMissingLun(u, r)

-----------------------------------------------------------------------------
(* The answer.                                                             *)

\* SilentlyTruncate cuts at the allocation length; what then does not fit in
\* the guest's buffer is an overrun; the rest of the buffer is the residual.
ScsiAnswered(r, o) ==
  LET n == Min({o.bytes, r.alloc}) IN
  IF n > r.room THEN [code |-> "Overrun", room |-> r.room, bytes |-> r.room, residual |-> 0]
  ELSE [code |-> "Ok", room |-> r.room, bytes |-> n, residual |-> r.room - n]

\* Request::parse() and parse_target()
ScsiRefused(r) ==
  IF r.short \/ r.addr = "unparsable" THEN "Failure"
  ELSE IF r.addr \in {"REPORT LUNS", "no target"} THEN "BadTarget" ELSE "no"

ScsiCollect ==
  /\ scsi_worker = "run" /\ CanCollect(scsi_ring)
  /\ scsi_ring' = Collect(scsi_ring)
  /\ UNCHANGED <<scsiFiles, scsi_wp, scsi_worker, scsiGuest>>

\* A request that gets no further than process_requests()
ScsiRefuse ==
  /\ scsi_worker = "run" /\ Serving(scsi_ring)
  /\ LET r == Request(scsi_ring) IN
     /\ ScsiRefused(r) # "no"
     /\ scsi_answer' = [code |-> ScsiRefused(r), room |-> r.room, bytes |-> 0, residual |-> r.room]
  /\ scsi_ring' = AddUsed(scsi_ring)
  /\ UNCHANGED <<scsiFiles, scsi_wp, scsi_worker, scsi_known, scsi_safe, scsi_read>>

ScsiWrites == {"Write10", "WriteSame16"}

\* What the guest may now expect of the unit's blocks
ScsiExpected(r, o, a) ==
  IF r.op \notin ScsiWrites \/ (o.sense # "GOOD" /\ o.sense # "TARGET_FAILURE") THEN scsi_known[r.lun]
  ELSE [b \in ScsiBlocks(r.lun) |->
          IF b < r.lba \/ b >= r.lba + r.n THEN scsi_known[r.lun][b]
          ELSE IF o.sense = "GOOD" THEN r.val ELSE ScsiAny]

ScsiExpectedLater(r, o, known) ==
  IF o.sense = "GOOD" /\ (r.op = "SynchronizeCache10" \/ (r.op = "Write10" /\ r.fua)) THEN known
  ELSE [b \in ScsiBlocks(r.lun) |-> IF known[b] = scsi_safe[r.lun][b] THEN known[b] ELSE
          IF r.op \in ScsiWrites /\ b >= r.lba /\ b < r.lba + r.n THEN ScsiAny ELSE scsi_safe[r.lun][b]]

ScsiServe ==
  /\ scsi_worker = "run" /\ Serving(scsi_ring) /\ ScsiRefused(Request(scsi_ring)) = "no"
  /\ LET r == Request(scsi_ring) IN \E o \in ScsiTarget(r) :
     LET a == ScsiAnswered(r, o) IN
     /\ scsi_worker' = IF o.sense = "panic" THEN "dead" ELSE "run"
     /\ scsi_ring' = IF o.sense = "panic" THEN scsi_ring ELSE AddUsed(scsi_ring)
     /\ scsi_answer' = a
     /\ scsi_read' = IF a.code = "Ok" /\ o.blocks # <<>>
                     THEN [k \in DOMAIN o.blocks |-> <<o.blocks[k], scsi_known[r.lun][r.lba + k - 1]>>] ELSE <<>>
     /\ IF r.lun \in ScsiLuns
        THEN /\ scsi_image' = [scsi_image EXCEPT ![r.lun] = o.unit.image]
             /\ scsi_disk'  = [scsi_disk EXCEPT ![r.lun] = o.unit.disk]
             /\ scsi_known' = [scsi_known EXCEPT ![r.lun] = ScsiExpected(r, o, a)]
             /\ scsi_safe'  = [scsi_safe EXCEPT ![r.lun] = ScsiExpectedLater(r, o, ScsiExpected(r, o, a))]
        ELSE UNCHANGED <<scsiFiles, scsi_known, scsi_safe>>
  /\ UNCHANGED scsi_wp

ScsiSignal ==
  /\ scsi_worker = "run" /\ CanSignal(scsi_ring)
  /\ scsi_ring' = SignalUsed(scsi_ring)
  /\ UNCHANGED <<scsiFiles, scsi_wp, scsi_worker, scsiGuest>>

-----------------------------------------------------------------------------
(* The guest and the host.                                                 *)

ScsiGuest(r) ==
  /\ Outstanding(scsi_ring) = 0
  /\ scsi_ring' = Offer(scsi_ring, r)
  /\ UNCHANGED <<scsiFiles, scsi_wp, scsi_worker, scsiGuest>>

\* The host writes a block of its cache to the disk.
ScsiWriteBack(l, b) ==
  /\ scsi_disk[l][b] # scsi_image[l][b]
  /\ scsi_disk' = [scsi_disk EXCEPT ![l][b] = scsi_image[l][b]]
  /\ UNCHANGED <<scsi_ring, scsi_image, scsi_wp, scsi_worker, scsiGuest>>

\* The host loses its power, and all begins again with what is on the disk.
ScsiPower ==
  /\ scsi_ring' = EmptyRing /\ scsi_worker' = "run"
  /\ scsi_image' = scsi_disk /\ scsi_known' = scsi_safe
  /\ scsi_wp' \in BOOLEAN /\ scsi_read' = <<>> /\ scsi_answer' = ScsiNoAnswer
  /\ UNCHANGED <<scsi_disk, scsi_safe>>

ScsiNext ==
  \/ ScsiCollect \/ ScsiRefuse \/ ScsiServe \/ ScsiSignal \/ ScsiPower
  \/ \E r \in ScsiRequests : ScsiGuest(r)
  \/ \E l \in ScsiLuns : \E b \in ScsiBlocks(l) : ScsiWriteBack(l, b)

ScsiSpec == ScsiInit /\ [][ScsiNext]_ScsiVars

-----------------------------------------------------------------------------
ScsiTypeOK ==
  /\ scsi_worker \in {"run", "dead"} /\ scsi_wp \in BOOLEAN
  /\ \A l \in ScsiLuns : {scsi_image[l], scsi_disk[l]} \subseteq [ScsiBlocks(l) -> ScsiValues]

\* A block read is the block that was last written, as far as the answers told
\* the guest, over all the units and across losses of power.
ScsiReadsBack == \A k \in DOMAIN scsi_read : scsi_read[k][2] \in {ScsiAny, scsi_read[k][1]}

\* What the guest was told is synced is on the disk of the host.
ScsiDurable ==
  \A l \in ScsiLuns : \A b \in ScsiBlocks(l) : scsi_safe[l][b] \in {ScsiAny, scsi_disk[l][b]}

\* The bytes that an answer has for the guest and the residual make up the
\* guest's buffer, with the data cut at the allocation length or not.
ScsiResidual == scsi_answer.bytes + scsi_answer.residual = scsi_answer.room

\* What is written is read back, what is synced is on the disk, and the lengths
\* add up (block_device.rs, target.rs).
ScsiInv == ScsiTypeOK /\ ScsiReadsBack /\ ScsiDurable /\ ScsiResidual

\* A write-protected image is not written.
ScsiReadOnlyKept == [][scsi_wp /\ scsi_wp' => scsi_image' = scsi_image \/ scsi_image' = scsi_disk]_ScsiVars

=============================================================================
