---------------------------------- MODULE Scmi ----------------------------------
(***************************************************************************)
(* vhost-device-scmi: sensors of the host, told to the guest over SCMI.    *)
(* The guest's commands come in the command queue (vhu_scmi.rs), are       *)
(* looked up in a table and handed to the sensors (scmi.rs, common.rs); a  *)
(* sensor that can notify has a file that the same thread polls, and its   *)
(* readings go out in buffers of the event queue.  A sensor is a fake one  *)
(* (fake.rs) or a device of the host's sysfs (iio.rs), whose buffer is     *)
(* switched by writes that may fail.  Values are left out; of a response   *)
(* its status and its length in words are kept.                            *)
(***************************************************************************)
EXTENDS Ring, FiniteSets, SequencesExt

CONSTANTS
  ScmiConfigs,  \* what may be on the command line: sequences of devices
  ScmiRequests, \* the requests of the guest
  ScmiMaxReturn,\* max_sensors_to_return of sensor/description_get
  ScmiBuffers,  \* the buffers of the guest's event queue
  ScmiRooms,    \* the sizes that they may have
  ScmiPending   \* bound: requests that the guest waits for at a time

ASSUME ScmiAssumption ==
  /\ ScmiMaxReturn \in Nat \ {0} /\ ScmiBuffers \in Nat
  /\ \A cs \in ScmiConfigs : cs \in Seq(ToSet(cs))
  /\ \A r \in ScmiRequests : r.index \in Nat

VARIABLES
  scmi_up,      \* "down", "up", "dead" (the worker ended), "failed" (start_backend did)
  scmi_devs,    \* DeviceMap: the sensors, by their id
  scmi_cmd,     \* the command queue
  scmi_event,   \* the event queue: available, event_descriptors, and filled
  scmi_lost,    \* buffers that were popped and not given back
  scmi_view,    \* history: what the guest was last told of each sensor
  scmi_news,    \* history: what it had been told when the last notification was sent
  scmi_found    \* history: the sensors it has found, and how many it expects

ScmiVars == <<scmi_up, scmi_devs, scmi_cmd, scmi_event, scmi_lost, scmi_view, scmi_news, scmi_found>>
scmiHist == <<scmi_view, scmi_found>>

EmptyEvent == [avail |-> <<>>, descs |-> <<>>, used |-> 0]
ScmiUnknown == [enabled |-> FALSE, notify |-> FALSE, sure |-> TRUE]
ScmiUnsure  == [enabled |-> FALSE, notify |-> FALSE, sure |-> FALSE]
NothingFound == [ids |-> <<>>, left |-> -1]

ScmiInit ==
  /\ scmi_up = "down" /\ scmi_devs = <<>> /\ scmi_cmd = EmptyRing /\ scmi_event = EmptyEvent
  /\ scmi_lost = 0 /\ scmi_view = <<>> /\ scmi_news = <<>> /\ scmi_found = NothingFound

-----------------------------------------------------------------------------
(* Configuration.  A device of the command line has a kind, properties, a  *)
(* name ("none", "fits" or "long") and, for an iio device, what its        *)
(* directory of the host holds.                                            *)

\* DeviceProperties::check()
ScmiCheck(required, optional, props) == required \subseteq props /\ props \subseteq required \cup optional

\* available_devices(), the constructors, and FakeSensor's of SensorT
ScmiConstructed(c) ==
  CASE c.kind = "fake" -> ScmiCheck({}, {"name"}, c.props)
    [] c.kind = "iio"  -> ScmiCheck({"path", "channel"}, {"name"}, c.props)
    [] OTHER -> FALSE

\* Sensor::new()
ScmiSensor(name, axes, channels, fd, format, axisname) ==
  [name |-> name, axes |-> axes, channels |-> channels, fd |-> fd, format |-> format, axisname |-> axisname,
   enabled |-> FALSE, notify |-> FALSE, on |-> FALSE, failed |-> FALSE, pending |-> FALSE]

\* The fake sensor: a description of it, but no name of its own.
ScmiFake(c) == ScmiSensor(IF "name" \in c.props THEN c.name ELSE "none", 3, 3, "stdout", "fake", "fits")

\* IIOSensor::initialize(): a name from the command line, from the directory,
\* or IIO_DEFAULT_NAME; a file to notify with if there is /dev/iio:deviceX.
ScmiIio(c) ==
  ScmiSensor(IF "name" \in c.props THEN c.name ELSE IF c.host.name = "none" THEN "fits" ELSE c.host.name,
             IF c.host.scalar THEN 0 ELSE c.host.channels, c.host.channels,
             IF c.host.format = "nodev" THEN "none" ELSE "own", c.host.format, c.host.axisname)

\* VuScmiBackend::new()
ScmiNew(cs) == [i \in DOMAIN cs |-> IF cs[i].kind = "fake" THEN ScmiFake(cs[i]) ELSE ScmiIio(cs[i])]

\* register_device_event_fd(): a file can be registered once, and every fake
\* sensor has the same one.
ScmiRegistered(ds) == Cardinality({i \in DOMAIN ds : ds[i].fd = "stdout"}) <= 1

ScmiStart(cs) ==
  /\ scmi_up = "down"
  /\ LET good == \A i \in DOMAIN cs : ScmiConstructed(cs[i]) /\ (cs[i].kind = "iio" => cs[i].host.channels > 0)
     IN  /\ scmi_up' = IF good /\ ScmiRegistered(ScmiNew(cs)) THEN "up" ELSE "failed"
         /\ scmi_devs' = IF good THEN ScmiNew(cs) ELSE <<>>
         /\ scmi_view' = [i \in DOMAIN scmi_devs' |-> ScmiUnknown]
  /\ UNCHANGED <<scmi_cmd, scmi_event, scmi_lost, scmi_news, scmi_found>>

\* The frontend goes: serve() returns and start_backend() begins again.
ScmiGone ==
  /\ scmi_up \in {"up", "dead"}
  /\ scmi_up' = "down" /\ scmi_devs' = <<>> /\ scmi_cmd' = EmptyRing /\ scmi_event' = EmptyEvent
  /\ scmi_lost' = 0 /\ scmi_view' = <<>> /\ scmi_found' = NothingFound /\ scmi_news' = <<>>

-----------------------------------------------------------------------------
(* The sensors.  Each of these returns the sensors that a call may leave   *)
(* behind, with the status of the answer and the words after it.           *)

ScmiDone(d, status, words) == [dev |-> d, status |-> status, words |-> words]

\* IIOSensor::notify_status_set(): to switch on, the axes come before the
\* buffer; to switch off, the buffer comes first.  Any write may fail.
ScmiSwitch(d, on) ==
  IF d.format = "fake" THEN {[dev |-> d, ok |-> TRUE]}
  ELSE {[dev |-> [d EXCEPT !.on = on, !.failed = FALSE], ok |-> TRUE],
        [dev |-> [d EXCEPT !.failed = TRUE], ok |-> FALSE]}
       \cup (IF on \/ d.axes = 0 THEN {}
             ELSE {[dev |-> [d EXCEPT !.on = FALSE, !.failed = TRUE], ok |-> FALSE]})

\* config_set()
ScmiConfigSet(d, config) ==
  IF config \notin {0, 1} THEN {ScmiDone(d, "NotSupported", 0)}
  ELSE {ScmiDone(s.dev, IF s.ok THEN "Success" ELSE "GenericError", 0) :
          s \in ScmiSwitch([d EXCEPT !.enabled = (config = 1)], config = 1)}

\* SENSOR_CONTINUOUS_UPDATE_NOTIFY
ScmiContinuous(d, v) ==
  IF v \in {0, 1} THEN {ScmiDone([d EXCEPT !.notify = (v = 1)], "Success", 1)}
  ELSE {ScmiDone(d, "InvalidParameters", 0)}

\* SENSOR_AXIS_DESCRIPTION_GET: one axis, with a name of the channel's and
\* two letters more.
ScmiAxis(d, axis) ==
  IF axis >= d.axes THEN {ScmiDone(d, "InvalidParameters", 0)}
  ELSE {ScmiDone(d, IF d.axisname = "long" THEN "panic" ELSE "Success", 13)}

\* description_get()
ScmiDescribe(d) == ScmiDone(d, IF d.name = "fits" THEN "Success" ELSE "panic", 6)

\* reading_get(): that of the fake sensor, and that of an iio device
ScmiRead(d) ==
  IF d.format = "fake" THEN {ScmiDone(d, "Success", 12)}
  ELSE {ScmiDone(d, "Success", 4 * d.channels), ScmiDone(d, "GenericError", 0)}

\* Mistake: what was switched off to read is not switched on again.
BugScmiReading(d) ==
  IF ~d.enabled THEN {ScmiDone(d, "InvalidParameters", 0)}
  ELSE IF ~d.notify THEN ScmiRead(d)
  ELSE UNION {IF s.ok THEN ScmiRead(s.dev) ELSE {ScmiDone(s.dev, "GenericError", 0)} : s \in ScmiSwitch(d, FALSE)}

\* SENSOR_READING_GET: a device that notifies cannot be read meanwhile.
ScmiReading(d) ==
  IF ~d.enabled THEN {ScmiDone(d, "InvalidParameters", 0)}
  ELSE IF ~d.notify THEN ScmiRead(d)
  ELSE UNION {
    IF ~off.ok THEN {ScmiDone(off.dev, "GenericError", 0)}
    ELSE UNION {{IF on.ok THEN ScmiDone(on.dev, r.status, r.words) ELSE ScmiDone(on.dev, "GenericError", 0) :
                   on \in ScmiSwitch(r.dev, TRUE)} : r \in ScmiRead(off.dev)} : off \in ScmiSwitch(d, FALSE)}

\* reading_update(): the fake sensor's does not read its file; a device's does
\* if its samples have the one supported format, and panics without a format
\* or with samples of a byte.
ScmiUpdate(d) ==
  CASE d.format = "fake"  -> {ScmiDone(d, "Success", 14)}
    [] d.format = "le16s" -> {ScmiDone([d EXCEPT !.pending = FALSE], "Success", 2 + 4 * d.channels),
                              ScmiDone(d, "GenericError", 0)}
    [] d.format = "other" -> {ScmiDone(d, "GenericError", 0)}
    [] OTHER -> {ScmiDone(d, "panic", 0)}

-----------------------------------------------------------------------------
(* The table of messages, HandlerMap.                                      *)

ScmiSensorMessages == {"description", "reading", "axis", "config_get", "config_set", "continuous"}
ScmiMessages == ScmiSensorMessages \cup {"version", "protocols", "attributes", "vendor", "implementation", "list", "sensors"}

ScmiSame(ds, status, words) == [devs |-> ds, status |-> status, words |-> words, more |-> -1]

\* make_base_handlers(), and sensor/attributes and sensor/message_attributes;
\* there is one protocol to be listed besides the base one.
ScmiBase(ds, r) ==
  CASE r.msg \in {"version", "protocols", "implementation"} -> ScmiSame(ds, "Success", 1)
    [] r.msg \in {"vendor", "sensors"} -> ScmiSame(ds, "Success", 4)
    [] r.msg = "list" -> ScmiSame(ds, "Success", IF r.index = 0 THEN 2 ELSE 1)
    [] r.msg = "attributes" ->
         IF r.arg \in ScmiMessages THEN ScmiSame(ds, "Success", 1)
         ELSE ScmiSame(ds, IF r.arg = "big" THEN "InvalidParameters" ELSE "NotFound", 0)

\* sensor/description_get: the sensors from first on, and how many are left
ScmiDescription(ds, first) ==
  LET n == Len(ds)
      returned == IF n - first < ScmiMaxReturn THEN n - first ELSE ScmiMaxReturn
      asked == {ScmiDescribe(ds[i]).status : i \in first + 1 .. first + returned}
  IN  IF first >= n THEN ScmiSame(ds, "InvalidParameters", 0)
      ELSE IF "panic" \in asked THEN ScmiSame(ds, "panic", 0)
      ELSE [ScmiSame(ds, "Success", 1 + 7 * returned) EXCEPT !.more = n - (first + returned)]

\* SensorT::handle()
ScmiAsk(d, r) ==
  CASE r.msg = "reading"    -> ScmiReading(d)
    [] r.msg = "axis"       -> ScmiAxis(d, r.arg)
    [] r.msg = "config_get" -> {ScmiDone(d, "Success", 1)}
    [] r.msg = "config_set" -> ScmiConfigSet(d, r.arg)
    [] r.msg = "continuous" -> ScmiContinuous(d, r.arg)

\* handle_device_response() and device_response(), after DeviceMap::handle()
ScmiOfDevice(ds, r) ==
  IF r.index >= Len(ds) THEN {ScmiSame(ds, "InvalidParameters", 0)}
  ELSE {ScmiSame([ds EXCEPT ![r.index + 1] = a.dev], a.status, a.words) :
          a \in ScmiAsk(ds[r.index + 1], r)}

\* make_sensor_handlers(): asynchronous readings are not supported.
ScmiSensorRequest(ds, r) ==
  CASE r.msg = "description" -> {ScmiDescription(ds, r.index)}
    [] r.msg = "reading" /\ r.arg # 0 -> {ScmiSame(ds, "NotSupported", 0)}
    [] OTHER -> ScmiOfDevice(ds, r)

\* ScmiHandler::handle()
ScmiHandle(ds, r) ==
  IF ~r.command \/ r.msg \notin ScmiMessages THEN {ScmiSame(ds, "NotSupported", 0)}
  ELSE IF r.msg \in ScmiSensorMessages THEN ScmiSensorRequest(ds, r)
  ELSE {ScmiBase(ds, r)}

-----------------------------------------------------------------------------
(* The command queue, process_command_queue() and process_requests().      *)

\* A command has a shape: "ok", "bad" (refused by what is checked before the
\* handler is called: two descriptors, the first one readable, of a size that
\* fits the message), or "readable" (no descriptor to answer in, seen after).
\* An unknown message has no size to be checked.
ScmiCollect ==
  /\ scmi_up = "up" /\ CanCollect(scmi_cmd)
  /\ scmi_cmd' = Collect(scmi_cmd)
  /\ UNCHANGED <<scmi_up, scmi_devs, scmi_event, scmi_lost, scmi_news, scmiHist>>

\* The answer that is written, in words: a status alone if it does not fit,
\* and none if that does not fit either.
ScmiFit(words, room) == IF words <= room THEN words ELSE IF 2 <= room THEN 2 ELSE 0

\* What the guest learns from an answer it can read.
ScmiLearn(r, a, told) ==
  IF r.msg \notin {"config_set", "continuous"} \/ r.index >= Len(scmi_devs) THEN scmi_view
  ELSE LET i == r.index + 1 IN
    IF a.status = "Success" /\ told
    THEN [scmi_view EXCEPT ![i] =
            IF r.msg = "config_set" THEN [@ EXCEPT !.enabled = (r.arg = 1)] ELSE [@ EXCEPT !.notify = (r.arg = 1)]]
    ELSE [scmi_view EXCEPT ![i] = ScmiUnsure]

ScmiNoted(r, a, told) ==
  IF r.msg # "description" \/ a.status # "Success" \/ ~told \/ r.index # Len(scmi_found.ids) THEN scmi_found
  ELSE [ids |-> scmi_found.ids \o [k \in 1 .. (a.words - 1) \div 7 |-> r.index + k - 1], left |-> a.more]

ScmiServe ==
  /\ scmi_up = "up" /\ Serving(scmi_cmd)
  /\ LET r == Request(scmi_cmd) IN
     IF r.shape = "bad"
     THEN scmi_up' = "dead" /\ UNCHANGED <<scmi_devs, scmi_cmd, scmiHist>>
     ELSE \E a \in ScmiHandle(scmi_devs, r) :
       LET fit == ScmiFit(a.words + 2, r.room)
           lost == a.status = "panic" \/ r.shape = "readable" \/ fit = 0
       IN  /\ scmi_devs' = a.devs
           /\ scmi_up' = IF lost THEN "dead" ELSE scmi_up
           /\ scmi_cmd' = IF lost THEN scmi_cmd ELSE AddUsed(scmi_cmd)
           /\ scmi_view' = ScmiLearn(r, a, ~lost /\ fit = a.words + 2)
           /\ scmi_found' = ScmiNoted(r, a, ~lost /\ fit = a.words + 2)
  /\ UNCHANGED <<scmi_event, scmi_lost, scmi_news>>

ScmiSignal ==
  /\ scmi_up = "up" /\ CanSignal(scmi_cmd)
  /\ scmi_cmd' = SignalUsed(scmi_cmd)
  /\ UNCHANGED <<scmi_up, scmi_devs, scmi_event, scmi_lost, scmi_news, scmiHist>>

-----------------------------------------------------------------------------
(* The event queue.                                                        *)

scmiIdle == scmi_up = "up" /\ scmi_cmd.batch = <<>> /\ scmi_cmd.used = 0

\* process_event_queue(): the buffers are kept for later; 0 is one that is
\* not a single writable descriptor.
ScmiKeep ==
  /\ scmiIdle /\ scmi_event.avail # <<>>
  /\ IF 0 \in ToSet(scmi_event.avail) THEN scmi_up' = "dead" /\ UNCHANGED scmi_event
     ELSE /\ scmi_event' = [scmi_event EXCEPT !.descs = @ \o scmi_event.avail, !.avail = <<>>]
          /\ UNCHANGED scmi_up
  /\ UNCHANGED <<scmi_devs, scmi_cmd, scmi_lost, scmi_news, scmiHist>>

\* SensorT::notify(): the reading is taken, and then perhaps not sent
ScmiNotified(d) ==
  {a \in ScmiUpdate(d) : a.status = "panic" \/ (d.enabled /\ d.notify)}
  \cup {ScmiDone(a.dev, "InvalidParameters", 0) : a \in {b \in ScmiUpdate(d) : b.status # "panic" /\ ~(d.enabled /\ d.notify)}}

\* notify_event_queue(): without a buffer nothing is read; with one, it is
\* popped first, and lost if there is nothing to send.
ScmiNotify(i) ==
  /\ scmiIdle /\ scmi_devs[i].pending /\ scmi_event.descs # <<>>
  /\ \E a \in ScmiNotified(scmi_devs[i]) :
       LET none == a.status \notin {"Success", "panic"}
           fit == ScmiFit(a.words + 1, Last(scmi_event.descs))
           dead == a.status = "panic" \/ (~none /\ fit = 0)
       IN  /\ scmi_devs' = [scmi_devs EXCEPT ![i] = a.dev]
           /\ scmi_up' = IF dead THEN "dead" ELSE scmi_up
           /\ scmi_event' = [scmi_event EXCEPT !.descs = Front(@), !.used = IF none \/ dead THEN @ ELSE @ + 1]
           /\ scmi_lost' = IF none THEN scmi_lost + 1 ELSE scmi_lost
           /\ scmi_news' = IF none \/ dead \/ fit # a.words + 1 THEN scmi_news ELSE <<scmi_view[i]>>
  /\ UNCHANGED <<scmi_cmd, scmiHist>>

-----------------------------------------------------------------------------
(* The guest and the host.                                                 *)

\* A guest asks for a description from where it has got to, or for anything.
ScmiGuestAsks(r) ==
  /\ scmi_up = "up" /\ Outstanding(scmi_cmd) < ScmiPending
  /\ scmi_cmd' = Offer(scmi_cmd, r)
  /\ UNCHANGED <<scmi_up, scmi_devs, scmi_event, scmi_lost, scmi_news, scmiHist>>

ScmiGuestBuffer(room) ==
  /\ scmi_up = "up"
  /\ Len(scmi_event.avail) + Len(scmi_event.descs) + scmi_event.used + scmi_lost < ScmiBuffers
  /\ scmi_event' = [scmi_event EXCEPT !.avail = Append(@, room)]
  /\ UNCHANGED <<scmi_up, scmi_devs, scmi_cmd, scmi_lost, scmi_news, scmiHist>>

ScmiGuestTakes ==
  /\ scmi_event.used > 0
  /\ scmi_event' = [scmi_event EXCEPT !.used = @ - 1] /\ scmi_news' = <<>>
  /\ UNCHANGED <<scmi_up, scmi_devs, scmi_cmd, scmi_lost, scmiHist>>

\* The file of a device gets readable while its buffer is on; standard output
\* may be a terminal on which something was typed.
ScmiSample(i) ==
  /\ scmi_up = "up" /\ ~scmi_devs[i].pending
  /\ scmi_devs[i].fd = "stdout" \/ (scmi_devs[i].fd = "own" /\ scmi_devs[i].on)
  /\ scmi_devs' = [scmi_devs EXCEPT ![i].pending = TRUE]
  /\ UNCHANGED <<scmi_up, scmi_cmd, scmi_event, scmi_lost, scmi_news, scmiHist>>

ScmiDo == ScmiCollect \/ ScmiServe \/ ScmiSignal

ScmiNext ==
  \/ \E cs \in ScmiConfigs : ScmiStart(cs)
  \/ ScmiGone \/ ScmiDo \/ ScmiKeep \/ ScmiGuestTakes
  \/ \E r \in ScmiRequests : ScmiGuestAsks(r)
  \/ \E room \in ScmiRooms : ScmiGuestBuffer(room)
  \/ \E i \in DOMAIN scmi_devs : ScmiNotify(i) \/ ScmiSample(i)

ScmiSpec == ScmiInit /\ [][ScmiNext]_ScmiVars

-----------------------------------------------------------------------------
ScmiTypeOK ==
  /\ scmi_up \in {"down", "up", "dead", "failed"}
  /\ scmi_event.used + Len(scmi_event.avail) + Len(scmi_event.descs) + scmi_lost <= ScmiBuffers
  /\ scmi_lost \in 0 .. ScmiBuffers /\ DOMAIN scmi_view = DOMAIN scmi_devs

\* The buffer of a device is on while the sensor is enabled and off while it is
\* not, in spite of READING_GET switching it off and on, unless a write to the
\* host's files has failed since.
ScmiSwitched == \A i \in DOMAIN scmi_devs :
  scmi_devs[i].format # "fake" /\ ~scmi_devs[i].failed => scmi_devs[i].on = scmi_devs[i].enabled

\* No notification comes that the guest has switched off and knows to be off:
\* the answers to its requests tell it so, unless one of them was an error.
ScmiAskedFor == \A v \in ToSet(scmi_news) : v.sure => v.enabled /\ v.notify

\* A guest that asks for descriptions from where the last answer ended finds
\* each sensor once, and all of them when it is told that none is left.
ScmiAllFound ==
  /\ scmi_found.ids = [k \in 1 .. Len(scmi_found.ids) |-> k - 1]
  /\ scmi_found.left >= 0 => Len(scmi_found.ids) + scmi_found.left = Len(scmi_devs)

\* Sensors are switched as the guest knows, it is told what it asked for, and
\* it finds them all (scmi.rs, iio.rs, common.rs).
ScmiInv == ScmiTypeOK /\ ScmiSwitched /\ ScmiAskedFor /\ ScmiAllFound

=============================================================================
