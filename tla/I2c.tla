---------------------------------- MODULE I2c ----------------------------------
(***************************************************************************)
(* vhost-device-i2c: the guests, one thread each, share the adapters of    *)
(* the host.  What a guest has queued when its thread looks is ONE         *)
(* transfer, on the adapter of the first request's client.                 *)
(***************************************************************************)
EXTENDS Integers, Sequences, FiniteSets, SequencesExt

CONSTANTS
  I2cGuests,
  I2cLists,    \* the --device-list arguments: sequences of [adapter, addr]
  I2cKinds,    \* external: the adapters of the host, each "i2c", "smbus" or "none" (no function)
  I2cBusy,     \* external: the clients that a driver of the host holds
  I2cQueues    \* bound: what a guest may have queued, sequences of chains [addr, rd, descs]

ASSUME I2cAssumption ==
  /\ \A l \in I2cLists : l \in Seq(Range(l)) /\ \A i \in DOMAIN l : l[i].addr \in Seq(Nat)
  /\ \A q \in I2cQueues : 1 \in DOMAIN q  \* of an empty queue nothing is collected
  /\ \A a \in DOMAIN I2cKinds : I2cKinds[a] \in {"i2c", "smbus", "none"}

VARIABLES
  i2c_devices, \* I2cMap: the adapters by index; <<>> before the daemon has read its arguments
  i2c_map,     \* I2cMap.device_map: from a client to the index of its adapter
  i2c_state,   \* of the daemon: "new", "run" or "exit"
  i2c_slave,   \* external: the address last set on each adapter's file, -1 for none
  i2c_pc,      \* where each guest's thread is: "idle", "route", "transfer", "reply" or "dead"
  i2c_reqs,    \* the requests it collected
  i2c_status,  \* of their transfer
  i2c_wire,    \* history: the clients reached by that transfer if it was made, with the direction
  i2c_moved    \* history: another guest has since addressed the adapter

I2cVars == <<i2c_devices, i2c_map, i2c_state, i2c_slave, i2c_pc, i2c_reqs, i2c_status, i2c_wire, i2c_moved>>
i2cShared == <<i2c_devices, i2c_map, i2c_state>>

I2cMaxVdev == 128

I2cInit ==
  /\ i2c_devices = <<>> /\ i2c_map = <<>> /\ i2c_state = "new"
  /\ i2c_slave = [a \in DOMAIN I2cKinds |-> -1]
  /\ i2c_pc = [g \in I2cGuests |-> "idle"]
  /\ i2c_reqs = [g \in I2cGuests |-> <<>>]
  /\ i2c_status = [g \in I2cGuests |-> "OK"]
  /\ i2c_wire = [g \in I2cGuests |-> <<>>]
  /\ i2c_moved = [g \in I2cGuests |-> FALSE]

-----------------------------------------------------------------------------
\* The arguments.  A client's address may be I2cMaxVdev itself here.
I2cDeviceParses(d) ==
  IsInjective(d.addr) /\ \A i \in DOMAIN d.addr : d.addr[i] <= I2cMaxVdev

I2cParses(list) ==
  /\ \A i \in DOMAIN list : I2cDeviceParses(list[i])
  /\ \A i, j \in DOMAIN list : i # j =>
       /\ list[i].adapter # list[j].adapter
       /\ Range(list[i].addr) \cap Range(list[j].addr) = {}

\* External: the kernel takes seven bits, and no client that a driver holds.
I2cSlaveTakes(addr) == addr < I2cMaxVdev /\ addr \notin I2cBusy

I2cOpens(adapter) == adapter \in DOMAIN I2cKinds /\ I2cKinds[adapter] # "none"

I2cAddresses(list) == UNION {Range(list[i].addr) : i \in DOMAIN list}

\* I2cMap::new() sets the address of every client, in their order, to see
\* whether it is valid; the last one stays set.
I2cStart(list) ==
  /\ i2c_state = "new"
  /\ IF /\ I2cParses(list)
        /\ \A i \in DOMAIN list : I2cOpens(list[i].adapter)
        /\ \A addr \in I2cAddresses(list) : I2cSlaveTakes(addr)
     THEN /\ i2c_state' = "run"
          /\ i2c_devices' = [i \in DOMAIN list |-> list[i].adapter]
          /\ i2c_map' = [addr \in I2cAddresses(list) |->
                           CHOOSE i \in DOMAIN list : addr \in Range(list[i].addr)]
          /\ i2c_slave' = [a \in DOMAIN I2cKinds |->
               IF \E i \in DOMAIN list : list[i].adapter = a /\ list[i].addr # <<>>
               THEN Last(list[CHOOSE i \in DOMAIN list : list[i].adapter = a].addr)
               ELSE i2c_slave[a]]
     ELSE /\ i2c_state' = "exit"
          /\ UNCHANGED <<i2c_devices, i2c_map, i2c_slave>>
  /\ UNCHANGED <<i2c_pc, i2c_reqs, i2c_status, i2c_wire, i2c_moved>>

-----------------------------------------------------------------------------
\* The checks of process_requests() on the descriptors of a chain.
I2cWellFormed(c) ==
  LET n == Len(c.descs) IN
  /\ n \in {2, 3}
  /\ ~c.descs[1].w /\ c.descs[1].len = 8
  /\ c.descs[n].w /\ c.descs[n].len = 1
  /\ n = 3 => c.descs[2].len # 0 /\ c.descs[2].w = c.rd

\* The length is cut to 16 bits.
I2cRequest(c) ==
  [addr |-> c.addr, rd |-> c.rd,
   len |-> IF Len(c.descs) = 3 THEN c.descs[2].len % 65536 ELSE 0]

I2cStep(g, from, to) ==
  /\ i2c_state = "run"
  /\ i2c_pc[g] = from /\ i2c_pc' = [i2c_pc EXCEPT ![g] = to]
  /\ UNCHANGED i2cShared

\* One malformed chain loses all that were queued, and ends the thread.
I2cCollect(g) ==
  \E queue \in I2cQueues :
    /\ IF \A i \in DOMAIN queue : I2cWellFormed(queue[i])
       THEN /\ I2cStep(g, "idle", "route")
            /\ i2c_reqs' = [i2c_reqs EXCEPT ![g] = [i \in DOMAIN queue |-> I2cRequest(queue[i])]]
       ELSE I2cStep(g, "idle", "dead") /\ UNCHANGED i2c_reqs
    /\ i2c_wire' = [i2c_wire EXCEPT ![g] = <<>>]
    /\ UNCHANGED <<i2c_slave, i2c_status, i2c_moved>>

I2cClient(g)  == i2c_reqs[g][1].addr
I2cAdapter(g) == i2c_devices[i2c_map[I2cClient(g)]]

\* The other guests that are about to use the adapter find another address set.
I2cMove(g, adapter, addr) ==
  /\ i2c_slave' = [i2c_slave EXCEPT ![adapter] = addr]
  /\ i2c_moved' = [h \in I2cGuests |->
       IF h = g THEN FALSE
       ELSE i2c_moved[h] \/ (i2c_pc[h] = "transfer" /\ I2cAdapter(h) = adapter)]

I2cAnswer(g, status) == i2c_status' = [i2c_status EXCEPT ![g] = status]

\* Mistake: the address that is set is believed to be the one set last time.
BugI2cRoute(g) ==
  /\ I2cStep(g, "route", "transfer")
  /\ I2cClient(g) \in DOMAIN i2c_map
  /\ UNCHANGED <<i2c_slave, i2c_reqs, i2c_status, i2c_wire, i2c_moved>>

\* I2cMap::transfer(): the adapter of the first request's client is chosen and
\* told of the client.
I2cRoute(g) ==
  /\ I2cStep(g, "route", "transfer")
  /\ I2cClient(g) \in DOMAIN i2c_map
  /\ I2cMove(g, I2cAdapter(g), I2cClient(g))
  /\ UNCHANGED <<i2c_reqs, i2c_status, i2c_wire>>

\* No such client is listed, or a driver of the host has taken it meanwhile.
I2cRefuse(g) ==
  /\ I2cStep(g, "route", "reply") /\ I2cAnswer(g, "ERR")
  /\ UNCHANGED <<i2c_slave, i2c_reqs, i2c_wire, i2c_moved>>

-----------------------------------------------------------------------------
\* SmbusMsg::new(): how the requests are put as one SMBus transaction: its
\* size, or "none" when they cannot be.
I2cSmbusWrite(r) == CASE r.len = 0 -> "QUICK" [] r.len = 1 -> "BYTE"
                      [] r.len = 2 /\ ~r.rd -> "BYTE_DATA" [] r.len = 3 /\ ~r.rd -> "WORD_DATA"
                      [] OTHER -> "none"

I2cSmbusRead(r, s) ==
  IF r.rd \/ ~s.rd \/ r.len # 1 \/ s.len > 2 THEN "none"
  ELSE IF s.len = 1 THEN "BYTE_DATA" ELSE "WORD_DATA"

I2cSmbus(reqs) ==
  IF Len(reqs) = 1 THEN I2cSmbusWrite(reqs[1])
  ELSE IF Len(reqs) = 2 THEN I2cSmbusRead(reqs[1], reqs[2])
  ELSE "none"

\* A word is read, and there is no byte in the buffer to put it into.
I2cOverruns(reqs) == Len(reqs) = 2 /\ reqs[2].len = 0

\* What goes over the wire: the transaction goes to the address that is set,
\* a combined transfer to the client that each message names.
I2cNamed(reqs) == [i \in DOMAIN reqs |-> <<reqs[i].addr, reqs[i].rd>>]

I2cReached(g) ==
  IF I2cKinds[I2cAdapter(g)] = "smbus"
  THEN [i \in DOMAIN i2c_reqs[g] |-> <<i2c_slave[I2cAdapter(g)], i2c_reqs[g][i].rd>>]
  ELSE I2cNamed(i2c_reqs[g])

I2cTransferable(g) ==
  IF I2cKinds[I2cAdapter(g)] = "smbus"
  THEN I2cSmbus(i2c_reqs[g]) # "none"
  ELSE \A i \in DOMAIN i2c_reqs[g] : i2c_reqs[g][i].len # 0

I2cPanics(g) == I2cKinds[I2cAdapter(g)] = "smbus" /\ I2cOverruns(i2c_reqs[g])

I2cTransfer(g) ==
  /\ i2c_pc[g] = "transfer" /\ I2cTransferable(g)
  /\ I2cStep(g, "transfer", IF I2cPanics(g) THEN "dead" ELSE "reply")
  /\ I2cAnswer(g, "OK")
  /\ i2c_wire' = [i2c_wire EXCEPT ![g] = I2cReached(g)]
  /\ UNCHANGED <<i2c_slave, i2c_reqs, i2c_moved>>

\* The requests cannot be transferred, or the kernel says that they were not.
I2cTransferFails(g) ==
  /\ I2cStep(g, "transfer", "reply") /\ I2cAnswer(g, "ERR")
  /\ UNCHANGED <<i2c_slave, i2c_reqs, i2c_wire, i2c_moved>>

\* Every chain gets the one status; the bytes read are given back in either case.
I2cReply(g) ==
  /\ I2cStep(g, "reply", "idle")
  /\ i2c_reqs' = [i2c_reqs EXCEPT ![g] = <<>>]
  /\ UNCHANGED <<i2c_slave, i2c_status, i2c_wire, i2c_moved>>

I2cThread(g) ==
  I2cCollect(g) \/ I2cRoute(g) \/ I2cRefuse(g) \/ I2cTransfer(g) \/ I2cTransferFails(g) \/ I2cReply(g)

I2cDone == i2c_state = "exit" /\ UNCHANGED I2cVars

I2cNext == (\E list \in I2cLists : I2cStart(list)) \/ (\E g \in I2cGuests : I2cThread(g)) \/ I2cDone

I2cSpec == I2cInit /\ [][I2cNext]_I2cVars

-----------------------------------------------------------------------------
I2cTypeOK ==
  /\ i2c_state \in {"new", "run", "exit"}
  /\ i2c_devices \in Seq(DOMAIN I2cKinds) /\ Range(i2c_map) \subseteq DOMAIN i2c_devices
  /\ i2c_slave \in [DOMAIN I2cKinds -> -1 .. I2cMaxVdev - 1]
  /\ i2c_pc \in [I2cGuests -> {"idle", "route", "transfer", "reply", "dead"}]
  /\ i2c_status \in [I2cGuests -> {"OK", "ERR"}] /\ i2c_moved \in [I2cGuests -> BOOLEAN]
  /\ \A g \in I2cGuests : i2c_pc[g] \in {"route", "transfer", "reply"} => i2c_reqs[g] # <<>>

\* The file of an adapter has the address of the client that the guest about to
\* use it named, unless another guest has set it since: the adapters are not
\* locked from one call to the next.
I2cAddressed ==
  \A g \in I2cGuests : i2c_pc[g] = "transfer" /\ ~i2c_moved[g] => i2c_slave[I2cAdapter(g)] = I2cClient(g)

\* A guest that is told OK has reached the clients it named, one message for
\* each request: on an adapter with combined transfers whatever the others do;
\* with SMBus if its requests are for one client and no other guest came between.
I2cAsNamed(g) ==
  \/ i2c_wire[g] = I2cNamed(i2c_reqs[g])
  \/ /\ I2cKinds[I2cAdapter(g)] = "smbus"
     /\ i2c_moved[g] \/ \E i \in DOMAIN i2c_reqs[g] : i2c_reqs[g][i].addr # I2cClient(g)

I2cNamedReached ==
  \A g \in I2cGuests : i2c_pc[g] = "reply" /\ i2c_status[g] = "OK" => I2cAsNamed(g)

(***************************************************************************)
(* Only the client of the first request is looked up.  It is listed, and   *)
(* for the adapter that is used.  An adapter that has only SMBus sends     *)
(* everything to the address that is set, which is that of a client listed *)
(* for this adapter whichever guest has set it.  The other messages of a   *)
(* combined transfer go on the same adapter to whom the guest names.       *)
(***************************************************************************)
I2cListed(addr, adapter) == addr \in DOMAIN i2c_map /\ i2c_devices[i2c_map[addr]] = adapter

I2cReachesListed(g) ==
  \A i \in DOMAIN i2c_wire[g] :
    i = 1 \/ I2cKinds[I2cAdapter(g)] = "smbus" => I2cListed(i2c_wire[g][i][1], I2cAdapter(g))

I2cListedOnly == \A g \in I2cGuests : i2c_pc[g] \in {"reply", "dead"} => I2cReachesListed(g)

\* A transfer reaches the clients it names, through the adapter that lists the
\* first of them (i2c.rs).
I2cInv == I2cTypeOK /\ I2cAddressed /\ I2cNamedReached /\ I2cListedOnly

\* What does not hold: that a guest reaches no client that is not listed.  The
\* later messages of a combined transfer are not looked up.
I2cNoneUnlisted ==
  \A g \in I2cGuests : \A i \in DOMAIN i2c_wire[g] : i2c_wire[g][i][1] \in DOMAIN i2c_map

=============================================================================
