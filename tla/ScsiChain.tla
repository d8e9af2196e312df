------------------------------- MODULE ScsiChain -------------------------------
(***************************************************************************)
(* vhost-device-scsi: how an answer gets into a chain of descriptors, one  *)
(* at a time (virtio.rs).  The data goes behind the place of the response, *)
(* through a copy of the writer that has skipped that; the response is     *)
(* written last, through the writer itself.  The guest may split the chain *)
(* where it likes: a buffer is the places where its descriptors begin, and *)
(* its end.  Memory that cannot be accessed is left out.                   *)
(***************************************************************************)
EXTENDS Scsi, FiniteSetsExt

CONSTANTS
  ChainBuffer,      \* bound: the length of the buffer for the answer
  ChainDescriptors, \* bound: the descriptors of a chain, of either kind
  ChainRequestSize, \* virtio_scsi_cmd_req
  ChainHeaderSize,  \* what of the response is always written
  ChainSenseSize,   \* and what there may be of sense data
  ChainData         \* the data there may be for the guest, 0 .. ChainData

ASSUME ChainAssumption ==
  /\ ChainBuffer \in Nat /\ ChainDescriptors \in Nat
  /\ {ChainRequestSize, ChainHeaderSize, ChainSenseSize, ChainData} \subseteq Nat

VARIABLES
  chain_in, chain_out, \* the readable and the writable descriptors
  chain_stage,
  chain_reader,        \* DescriptorChainReader: descriptor and offset
  chain_got,           \*   the bytes of the request read with it
  chain_writer,        \* DescriptorChainWriter, for "response" and "data"
  chain_max,           \*   and what the two share, max_written
  chain_left,          \* the bytes that write_all() has yet to write
  chain_code, chain_residual,
  chain_placed         \* history: for each byte of the chain, what was written

ChainVars == <<chain_in, chain_out, chain_stage, chain_reader, chain_got, chain_writer,
               chain_max, chain_left, chain_code, chain_residual, chain_placed>>

ChainCuts(size) ==
  {cuts \in UNION {[1 .. n + 1 -> 0 .. size] : n \in 0 .. ChainDescriptors} :
     cuts[1] = 0 /\ \A i, j \in DOMAIN cuts : i <= j => cuts[i] <= cuts[j]}
ChainLen(cuts, d) == cuts[d + 1] - cuts[d]
ChainRoom == chain_out[Len(chain_out)]
ChainSkipped == ChainHeaderSize + ChainSenseSize
ChainNothing == <<"nothing", 0>>

ChainCursor == [at |-> 1, offset |-> 0]
ChainNew    == [at |-> 1, offset |-> 0, written |-> 0]

\* current: none after the last descriptor.
ChainEnded(cuts, c) == c.at = Len(cuts)
ChainStep(cuts, c, n) ==
  IF c.offset + n = ChainLen(cuts, c.at) THEN [c EXCEPT !.at = @ + 1, !.offset = 0]
  ELSE [c EXCEPT !.offset = @ + n]
\* read() and write() take what is left in the descriptor, or nothing.
ChainTaken(cuts, c, n) == IF ChainEnded(cuts, c) THEN 0 ELSE Min({ChainLen(cuts, c.at) - c.offset, n})

\* The byte of the buffer a cursor is at.
ChainPosition(c) == chain_out[c.at] + c.offset

\* The request may be short, or be followed by a byte.
ChainInit ==
  /\ chain_in \in ChainCuts(ChainRequestSize + 1) /\ chain_out \in ChainCuts(ChainBuffer)
  /\ chain_stage = "skip"
  /\ chain_reader = ChainCursor /\ chain_got = 0
  /\ chain_writer = [w \in {"response", "data"} |-> ChainNew]
  /\ chain_max = 0 /\ chain_left = 0
  /\ chain_code = "none" /\ chain_residual = 0
  /\ chain_placed = [p \in 1 .. ChainRoom |-> ChainNothing]

ChainCounted(written) == chain_max' = Max({chain_max, written})

\* skip(): counted at once, whether there is as much or not.
ChainSkip ==
  /\ chain_stage = "skip" /\ chain_stage' = "skipping"
  /\ chain_writer' = [chain_writer EXCEPT !["data"] =
                       [@ EXCEPT !.offset = ChainSkipped, !.written = ChainSkipped]]
  /\ ChainCounted(ChainSkipped)
  /\ UNCHANGED <<chain_in, chain_out, chain_reader, chain_got, chain_left, chain_code, chain_residual, chain_placed>>

ChainPassed(c) == ~ChainEnded(chain_out, c) /\ c.offset >= ChainLen(chain_out, c.at)
ChainSkipping ==
  LET c == chain_writer["data"]
  IN /\ chain_stage = "skipping"
     /\ IF ChainPassed(c)
        THEN /\ chain_writer' = [chain_writer EXCEPT !["data"] =
                                  [@ EXCEPT !.at = c.at + 1, !.offset = c.offset - ChainLen(chain_out, c.at)]]
             /\ UNCHANGED chain_stage
        ELSE chain_stage' = "request" /\ UNCHANGED chain_writer
     /\ UNCHANGED <<chain_in, chain_out, chain_reader, chain_got, chain_max, chain_left, chain_code,
                    chain_residual, chain_placed>>

\* read_exact(): nothing read is an error.
ChainRead ==
  LET n == ChainTaken(chain_in, chain_reader, ChainRequestSize - chain_got)
  IN /\ chain_stage = "request" /\ chain_got < ChainRequestSize
     /\ IF n = 0
        THEN /\ chain_stage' = "residual" /\ chain_code' = "Failure"
             /\ UNCHANGED <<chain_reader, chain_got>>
        ELSE /\ chain_reader' = ChainStep(chain_in, chain_reader, n)
             /\ chain_got' = chain_got + n
             /\ UNCHANGED <<chain_stage, chain_code>>
     /\ UNCHANGED <<chain_in, chain_out, chain_writer, chain_max, chain_left, chain_residual, chain_placed>>

\* The request has a LUN in another format, a target there is none of, or
\* is executed, with so much data for the guest.
ChainExecute ==
  /\ chain_stage = "request" /\ chain_got = ChainRequestSize
  /\ \/ /\ chain_code' \in {"Failure", "BadTarget"}
        /\ chain_stage' = "residual" /\ UNCHANGED chain_left
     \/ /\ chain_code' = "Ok" /\ chain_stage' = "data"
        /\ chain_left' \in 0 .. ChainData
  /\ UNCHANGED <<chain_in, chain_out, chain_reader, chain_got, chain_writer, chain_max, chain_residual, chain_placed>>

\* One write(), at the byte the writer is at, of the bytes from this one on.
ChainWrite(w, n) ==
  LET c == chain_writer[w]  p == ChainPosition(c)
  IN /\ chain_writer' = [chain_writer EXCEPT ![w] =
                          [ChainStep(chain_out, c, n) EXCEPT !.written = @ + n]]
     /\ ChainCounted(c.written + n)
     /\ chain_placed' = [q \in DOMAIN chain_placed |->
                          IF q \in p + 1 .. p + n THEN <<w, c.written + q - p>> ELSE chain_placed[q]]

\* write_all() of the data: where nothing can be written it is an overrun,
\* which has no residual.
ChainWriteData ==
  LET n == ChainTaken(chain_out, chain_writer["data"], chain_left)
  IN /\ chain_stage = "data" /\ chain_left > 0
     /\ IF n = 0
        THEN /\ chain_code' = "Overrun" /\ chain_stage' = "response" /\ chain_left' = ChainHeaderSize
             /\ UNCHANGED <<chain_writer, chain_max, chain_placed>>
        ELSE /\ ChainWrite("data", n) /\ chain_left' = chain_left - n
             /\ UNCHANGED <<chain_code, chain_stage>>
     /\ UNCHANGED <<chain_in, chain_out, chain_reader, chain_got, chain_residual>>

ChainWritten ==
  /\ chain_stage = "data" /\ chain_left = 0 /\ chain_stage' = "residual"
  /\ UNCHANGED <<chain_in, chain_out, chain_reader, chain_got, chain_writer, chain_max, chain_left,
                 chain_code, chain_residual, chain_placed>>

\* residual() goes to the end of the chain, descriptor by descriptor ...
ChainResidual ==
  LET c == chain_writer["data"]
  IN /\ chain_stage = "residual" /\ ~ChainEnded(chain_out, c)
     /\ chain_residual' = chain_residual + ChainLen(chain_out, c.at) - c.offset
     /\ chain_writer' = [chain_writer EXCEPT !["data"] = [@ EXCEPT !.at = c.at + 1, !.offset = 0]]
     /\ UNCHANGED <<chain_in, chain_out, chain_stage, chain_reader, chain_got, chain_max, chain_left, chain_code, chain_placed>>

\* ... and the response is made: an answer that is no error may have sense data.
ChainAnswer ==
  /\ chain_stage = "residual" /\ ChainEnded(chain_out, chain_writer["data"])
  /\ chain_stage' = "response"
  /\ \E sense \in 0 .. ChainSenseSize :
       /\ chain_code = "Ok" \/ sense = 0
       /\ chain_left' = ChainHeaderSize + sense
  /\ UNCHANGED <<chain_in, chain_out, chain_reader, chain_got, chain_writer, chain_max, chain_code, chain_residual, chain_placed>>

\* Response::write(); an error is logged and nothing more.
ChainRespond ==
  LET n == ChainTaken(chain_out, chain_writer["response"], chain_left)
  IN /\ chain_stage = "response"
     /\ IF n = 0
        THEN chain_stage' = "used" /\ UNCHANGED <<chain_writer, chain_max, chain_placed, chain_left>>
        ELSE ChainWrite("response", n) /\ chain_left' = chain_left - n /\ UNCHANGED chain_stage
     /\ UNCHANGED <<chain_in, chain_out, chain_reader, chain_got, chain_code, chain_residual>>

ChainNext ==
  \/ ChainSkip \/ ChainSkipping \/ ChainRead \/ ChainExecute
  \/ ChainWriteData \/ ChainWritten \/ ChainResidual \/ ChainAnswer \/ ChainRespond

ChainSpec == ChainInit /\ [][ChainNext]_ChainVars

--------------------------------------------------------------------------------
ChainTypeOK ==
  /\ chain_stage \in {"skip", "skipping", "request", "data", "residual", "response", "used"}
  /\ chain_code \in {"none", "Ok", "Failure", "BadTarget", "Overrun"}
  /\ chain_got \in 0 .. ChainRequestSize
  /\ chain_left \in 0 .. Max({ChainData, ChainSkipped})
  /\ chain_max \in Nat /\ chain_residual \in Nat

\* Each byte is where it belongs in the guest's buffer, however that is
\* split: its number in what is written is that of its place.
ChainInOrder == \A p \in DOMAIN chain_placed : chain_placed[p][2] \in {0, p}

\* The response does not reach into the data nor the data into the response.
ChainApart ==
  \A p \in DOMAIN chain_placed :
    chain_placed[p] # ChainNothing => (chain_placed[p][1] = "response" <=> p <= ChainSkipped)

\* The data is all there, or the buffer is full; a descriptor without room
\* is taken for its end.
ChainOverrunMeansFull ==
  chain_code = "Overrun" =>
    (\E d \in 1 .. Len(chain_out) - 1 : ChainLen(chain_out, d) = 0) \/ \A p \in ChainSkipped + 1 .. ChainRoom : chain_placed[p] # ChainNothing

\* The response lies at the start of the buffer, and is whole unless it comes to
\* the end of the buffer or to a descriptor of no length, where write_all() gives
\* up and the rest is lost.
ChainWhole ==
  chain_stage = "used" =>
    LET n == chain_writer["response"].written
    IN  /\ \A p \in 1 .. n : chain_placed[p] = <<"response", p>>
        /\ \/ chain_left = 0 /\ n >= ChainHeaderSize
           \/ n = ChainRoom
           \/ \E d \in 1 .. Len(chain_out) - 1 : chain_out[d] = n /\ ChainLen(chain_out, d) = 0

\* What is told to be used is a response with all its sense data and the data that
\* was written; with the residual it is the whole buffer.  Of a buffer that is too
\* short for the response more is told than there is.
ChainUsedRight ==
  chain_stage = "used" =>
    /\ chain_max = ChainSkipped + Cardinality({p \in DOMAIN chain_placed : chain_placed[p][1] = "data"})
    /\ chain_code # "Overrun" => chain_max + chain_residual = Max({ChainRoom, ChainSkipped})

(***************************************************************************)
(* An answer is where the guest looks for it, and its lengths are those of *)
(* the guest's buffer, wherever the guest splits that.  It is whole, with  *)
(* two exceptions: a buffer that is too short and a descriptor of no       *)
(* length (ChainWhole, ChainOverrunMeansFull).                             *)
(***************************************************************************)
ChainInv ==
  ChainTypeOK /\ ChainInOrder /\ ChainApart /\ ChainOverrunMeansFull /\ ChainWhole /\ ChainUsedRight

\* What the two modules of the SCSI device promise: the images against what was
\* written and synced, and the answer in its chain (block_device.rs, virtio.rs).
ScsiBothInv == ScsiInv /\ ChainInv

\* What does not hold: that a buffer with room for the response has all of it.
ChainAnswered ==
  chain_stage = "used" /\ ChainRoom >= ChainSkipped => chain_left = 0

================================================================================
