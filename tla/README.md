# A TLA+ model of the mioty Service Center

The repository is a Service Center (SC): one Python process between mioty base
stations (BSSCI protocol over TLS), an MQTT broker, Application Centers (SCACI
protocol over TLS) and a Flask web UI.  This directory holds TLA+ modules of
the parts of it in which several things happen at once, the TLC runs that check
them on small instances, and proofs of the main results for every instance.

Source paths are relative to the repository's root; `PROJECT.json` maps every
definition to the lines it models.

## 1. The system

### Components, their state and their operations

| Component | Source | State | Operations |
|---|---|---|---|
| Start-up | `main.py`, `web_main.py`, `bssci_config.py`, `config_compat.py` | the two MQTT queues (`None` without MQTT), the servers | start the servers and connectors, `gather` them with `return_exceptions=True`; `web_main.py` runs Flask in a daemon thread beside the loop |
| BS sessions | `TLSServer.py` `handle_client`, `send_status_requests`, `_get_next_op_id` | `connecting_base_stations`, `connected_base_stations`, `bs_op_ids`, `bs_protocol_versions`, `connection_correlation_ids`, `bs_status_failures`, `_status_task_running` | con, conCmp (duplicate replacement), ping, statusRsp, error; status cycle and eviction; cleanup in `finally` |
| Sensor attachment | `TLSServer.py` `attach_file`, `send_attach_request`, `send_detach_request`, attPrpRsp, `_purge_bs_registrations` | `registered_sensors`, `pending_attach_requests` | batch attach, correlation of answers and its fallback, purge, detach of one or all sensors, from the loop, MQTT and the web thread |
| Uplink deduplication | `TLSServer.py` ulData, `process_deduplication_buffer`, `update_preferred_downlink_path` | `deduplication_buffer`, statistics, preferred path, topology, packet statistics | accept, replace or drop a copy; publish; clean up; count losses |
| Heartbeat and auto-detach | `TLSServer.py` `_update_sensor_heartbeat`, `heartbeat_monitor`, `auto_detach_monitor` | `sensor_heartbeat`, `sensor_last_seen`, `sensor_warning_sent` | stamp every copy of an uplink, compute the interval, mark offline or online; detach after a timeout (never acts) |
| Sensor configuration | `TLSServer.py` `process_sensor_config*`, `update_or_add_entry`, `_save_config`, `reload_sensor_config`, `clear_all_sensors`; `web_ui.py` sensor routes | `sensor_config` and its file `endpoints.json` | add, import, change, delete, clear, reload from threads of the web server; add from MQTT; save for every accepted uplink |
| Certificates | `web_ui.py` certificate routes | the files under `certs/` | generate the set, issue a pair, upload, back up, restore, delete, restart |
| Variable MAC and OMS | `TLSServer.py` `vm_*`, OMS parsing | `vm_active_sensors` (never filled), `pending_vm_operations`, OMS meters | activate, deactivate, query, send; uplinks of meters |
| SCACI server | `SCAServer.py` | `connected_acs`, `ac_info`, `ac_registered_eps`, `_ac_op_ids`, `_pending_ops`, `pending_dl` | con, ping, status, reg, dereg, dlDataQue, dlDataRev; fan-out of ulData, epStat and dlDataRes; the sweep of queued downlinks |
| MQTT bridge | `mqtt_interface.py` | the in and out queues, health | connect with back-off, subscribe, forward both ways, requeue |
| Codecs | `protocol.py`, `messages.py`, `scaci_protocol.py`, `scaci_messages.py` | none (a tail buffer per SCACI connection) | frame and unframe msgpack messages, build messages |
| Web UI | `web_ui.py` | users, certificates, updates, sessions | some 100 routes on the files above and on the running server |
| Diagnostics | `connection_timeline.py`, `observability.py`, `queue_logger.py` | ring buffers, counters | append, read |

### How they interact

One asyncio event loop runs every connection handler, the status task, the
deduplication publisher, the monitors, the MQTT tasks and the SCACI server.
They share plain dicts of one `TLSServer` object and one `SCAServer` object.
Nothing preempts a task, so the unit of interleaving is the code between two
awaits that can really suspend: a read, a `drain`, a sleep, `wait_closed`, a
`get` on an empty queue.  A `put` on an unbounded queue and a call that returns
before its first await do not suspend.  `state_lock` protects the dicts from
the Flask thread; it is never held over an await.

### What is hard

* A handler checks a table, awaits, and acts on the old answer: the connection
  may have been replaced, evicted or cleaned up meanwhile (status task, batch
  attach, sweep of downlinks).
* One base station, or one Application Center, can have two connections at
  once, and the end of the old one comes after the start of the new one.
* Operation ids are per connection, tables of pending operations are not.
* The finally block awaits `wait_closed`, which raises the error a connection
  was lost with; then the rest of the cleanup does not run.
* The deduplication window is the sum of a sleep and an age test, and a copy
  may come after its packet was published.
* Queues are rewritten from a snapshot taken before an await.
* Request threads of the web server and the event loop read, change and rewrite
  one file without a lock, and a reader may find it emptied.
* Requests work through openssl commands that overwrite files in place and stop
  at the first that fails.
* A task per change of a sensor's state walks over connections that pause.

### What makes each component correct

* BS sessions: one listed connection per station, no open session that is not
  listed, no stale table entry forever, ids that never repeat in a session.
* Attachment: every configured sensor is asked for in every session, what is on
  record was acknowledged by that station in that session, a record goes only
  with its session or a detach.
* Deduplication: the best copy of a window is published, once, in bounded time;
  losses are counted once and only for packets that are missing.
* Heartbeat: a sensor is offline after its timeout and not before, and one that
  keeps its interval never is.
* SCACI: a downlink is dispatched, revoked or reported, exactly once; a
  registered Application Center receives what it registered for, and the last
  state it reads of a sensor is the sensor's.
* Configuration: an accepted change is in the file and in the list.
* Certificates: a key, its certificate and the authority fit together.
* MQTT: no message is lost or doubled between the queues, whatever the
  connection does.
* Codecs: the messages handled are those sent, once and in order, wherever the
  reads cut the stream.

## 2. The modules

| Module | Models | Kind |
|---|---|---|
| `StationRegistry` | what sessions and attachment promise together | abstract specification |
| `BsSession` | the connection handler, the status task, the tables per connection | component |
| `BsAttach` | batch attach, requests of other tasks, answers, purge, detach, changes of the configuration in mid-session; every action conjoins the `BsSession` step it is part of | composition; implements `StationRegistry` |
| `Dedup` | ulData, the publisher, preferred path, loss counter | component with time |
| `Heartbeat` | stamps, intervals and the offline monitor | component with time |
| `SensorConfig` | `endpoints.json` and `sensor_config` under web threads, the event loop and restarts | component; the web server and the TLS server together |
| `Certificates` | the files under `certs/` under the web routes, failing commands and restarts | component |
| `ScaciDownlink` | Application Center connections and registrations, downlink queues and their sweep | component |
| `ScaciSession` | the tasks that send ulData and epStat, the burst to a new connection, paused and closing transports | component |
| `MqttBridge` | `MQTTClient.start` and its three handlers, both queues, the task behind the input queue | component |
| `Framing` | both decoders and the buffer of the SCACI handler | pure algorithms against the frames sent |
| `BsAttach_proofs` (also of `BsSession`), `Induction_proofs` (of `Heartbeat` and `Framing`), `Dedup_proofs`, `SensorConfig_proofs`, `Certificates_proofs`, `ScaciDownlink_proofs`, `ScaciSession_proofs`, `MqttBridge_proofs` | theorems | proofs |
| `MCBsSession`, `MCBsAttach`, `MCDedup`, `MCScaciDownlink`, `MCScaciSession`, `MCSensorConfig` | symmetry sets, constants and search bounds | instances for TLC |

### BsSession

A writer (`asyncio.StreamWriter`) is one accepted connection.  The dicts keyed
by writer are functions over `Writers` in which `None`, `-1` or `0` is what
`dict.get` returns for a missing key; dicts only tested for membership are
sets.  `transport` is the socket: `close()` turns `open` into `closing`, and
`lost` is asyncio's `connection_lost`, at which the reader sees the end of the
stream and a `drain` raises.  `pc` is where the handler is suspended: in its
`read`, in the batch `attach` that conCmp awaits, or in `wait_closed` of the
`finally` block; `exited` and `aborted` tell whether the cleanup ran.  The
status task is `off`, in its `sleep`, or in a `cycle` awaiting the drain for
`current` with the rest of its snapshot in `todo`; what happens after that drain
and before the next is one step (`StatusSent`, `StatusFailed`, `StatusEvict`,
each followed by `SendNext`).  `established` is a history of writers whose
session was opened.

`Request` stands for every other sender that takes an operation id (attach,
detach and VM requests).  Senders that walk a snapshot of the connections may
do so for a connection that is gone; with a single session ever opened there is
no snapshot with another connection in it, hence the guard.

The `finally` block drops the writer from six tables.  Two of them are written
again by a status cycle that still has the writer in its snapshot: `bs_op_ids`
(for good, which is a finding) and `bs_status_failures`.  `CleanExitForgets`
therefore says that the writer stays out of the tables of connections, versions
and correlation ids, that a failure count can come back only as 1 and is counted
by no later cycle, and nothing of operation ids.

### BsAttach

`registered` holds `registered_sensors[s]["base_stations"]`, `pending` is the
one dict of pending attach requests in insertion order (the fallback takes the
last), `pos` and `draining` are the local state of `attach_file`, `sending`
holds the requests of other tasks that await their drain, and `asked` is what a
base station has received and not answered.  `acked` and `requested` are
histories of one session.  `sending`, `asked` and `acked` are sequences: after
another con on the same connection its operation ids start again, and a request
left from the session before may equal a new one.  `OpenSession` is
`ConCmpEstablish` with the purge; `CloseSession` is `Cleanup` with the purge.
An answer from a connection that is no longer listed is recorded under the name
"unknown", the entry `None` of a record.  A sensor that fails the format checks
is in `Malformed`: it uses up an operation id and is not sent.

`config` is `sensor_config`, and it changes under the batches.  A batch iterates
over the list object it started with: `batch` is that list, and `live` holds the
batches whose list is still `sensor_config` itself.  A configuration message
appends to that object (`Configure`), so live batches see the new sensor;
`reload_sensor_config` and `clear_all_sensors` put a new object in its place, and
batches under way go on with the old one (`Reload`, `Clear`).  A reload also drops
the records of sensors that are not in the file (one of `Files`), a clear all
records and all pending requests.

`send_detach_request` filters a list of strings with
`bs["base_station_eui"]`, which raises a `TypeError` for every non-empty list
and is caught: `AfterDetach` is the record as it was.  In the batch an `SSLError`
of a write skips that sensor and a `ConnectionError` ends the batch
(`BatchSendFailed`).

A command or a configuration message over MQTT, the reg of an Application
Center and the routes of the web UI send attach requests too.  Each walks the
connections and asks every station, whatever is on record, for a sensor of the
file or a new one (`Others`): `AttachRequest` is one such request, and its drain
ends in `AttachRequested` or `AttachRequestFailed`.  It may come between any two
steps of a batch, and its entry in `pending` between that of any two others.

### StationRegistry

A station has at most one session; a session starts with no sensor on record;
sensors are recorded only while the station has a session; records go when the
session does, except that an eviction leaves them until the next session.  Apart
from that they go only for sensors that leave the configuration, and then those
of all stations in one step (`Remove`): a station never loses a record because
another station's session ends or starts, or because of a late cleanup.  The
mapping takes the listed connection of a station as its session and the sensors
whose list names the station as attached.

### Dedup

Time is an integer event-loop time.  A pass of the publisher is one step: it
never suspends.  `wake` is when its sleep is over, and `Tick` lets the loop run
at most `Late` behind.  A packet has a number; its counter is the number modulo
`Wrap`, which puts no bound on the number of packets.  The buffer's key is made
of the counter: `SameKey` packets would share it, and `Forward` assumes that a
sensor does not send a whole round of the counter (65536 packets) while one of
them is buffered.  A base station forwards the packets it heard in order, with
any delay.  `window`, `accepted`
and `counted` are histories: the SNRs received since the packet was last
published, when a copy was last accepted, and the packets taken for new.

The order in which one pass queues several packets (by SNR) is left out: what
leaves the buffer in a pass is a set.  So are the counters that only feed
statistics pages.  All sensors are taken to be in the configuration, and every
ulData to have its fields: one without `rssi` is accepted and buffered by the
code, and the pass that publishes it raises (`TLSServer.py:2283`) and ends the
publisher.  `BufferAgeBounded` and `WindowNotSplit` presuppose that none comes.

### Heartbeat

Every ulData stamps its sensor, and a ulData is one base station's copy of an
uplink: `Uplink` is the first copy, `Copy` a further one at the same time.  Of
`message_timestamps` the module keeps the gaps, and of `last_seen` the
`silence` since; times are in units of the monitor's period.  `Overdue` is
`silence > max(avg_interval * 4, 120 s)` with the division multiplied out.  A
pass of the monitor is one step, because nothing in it suspends.

`auto_detach_monitor` skips every sensor whose record lacks `registered=True`.
No code path sets that, so the monitor changes nothing and has no action.

### SensorConfig

`file` is `endpoints.json` as a reader finds it.  `open(.., "w")` empties it
and its text follows with the flush, so a writer takes two steps (`Truncate`,
`Flush`) between which the file is `Torn`; two writers that overlap may leave
`Torn` behind, hence `clash`.  A route reads the file at its beginning
(`Begin`), writes what it made of it (`OpenFile`, `CloseFile`), and has the
server reload it (`Reload`), except for `delete_sensor`.  The event loop blocks
while it saves: `loop` says who saves.  A configuration message (`Message`)
asks one base station after the other, with an await for each, and changes the
list and the file after that; `left`, `size` and `changed` are the iteration
over the live dict, which raises when its size has changed (`IterationRaises`).
`PreferredPath` is the save after an accepted uplink, `ConnectionEnds` the one in
the `finally` block of every connection, which writes the list even when it is
empty.  A message that lacks a field makes `update_or_add_entry` raise
(`EntryRaises`); the entry it may have changed in part keeps its place in the
set of sensors.

`wanted`, `deleted`, `disturbed` and `irregular` are histories: what the closed
writes configured, which operations another one interfered with, and whether
that ever happened.  The fields of a sensor are abstracted: a configuration is
a set of sensors.

### Certificates

A request is a sequence of steps worked off by its thread (`plan`), each an
openssl command, a rename or a written file; a step that fails ends it (`Fail`),
and the process may be restarted between any two (`Restart`).  A key is a
number, a certificate names its key and the key that signed it.  openssl is
external: `CanRun` says when a command can succeed, and one that fails leaves
its output as it was or empty.  `x509 -req` compares the authority's key with
its certificate, which is why a restored authority without its key can sign
nothing.  Which options an openssl knows is not modelled.  `generate_certificates`
gives `-addext` to `openssl x509` (`web_ui.py:3967-3970`), which common versions
reject; there every generate fails at its signing step, as `Fail` allows at any
time, and `GeneratedSetServes`, which speaks of a generate that was completed,
says nothing.  The dates `_generate_bs_certificate` enters in the file of base
stations after signing (`web_ui.py:198-202`) are left out: no certificate depends
on them.  `alone`, `sound` and `issued` are histories: requests nothing else
ran beside, and what they vouch for.

### ScaciDownlink

`vm_send_data` looks its endpoint up in `vm_active_sensors`.  Nothing in the
program ever adds an entry to that dict, so the call returns `False` without
suspending, immediate dispatch and retry never succeed, and a downlink leaves
its queue only by expiry, revocation or overwriting.  The branches behind a
successful dispatch are unreachable and not modelled.

Downlinks are numbered in the order of dlDataQue; as all live equally long,
those too old are always `1 .. aged`.  The sweep suspends in its sleep and in
each write of a dlDataRes, and there only other handlers run (`SweepAwaits`);
the steps between are its walk through the snapshot.  `batch`, `current`,
`remaining` and `targets` are its local variables.  A con that is rejected for
its version changes no state and is left out, as are operation ids and
`_pending_ops`, which the downlink path writes and never reads.

### ScaciSession

A task sends one thing: an uplink, a change of state, or the burst of all
states.  `ready` is the event loop's queue, `current` the task that runs, and
`waiting` the tasks in the drain of a connection, woken in order.  A `_send`
that finds the transport writing goes on without suspending (`SendOn`), one that
fills its buffer, or finds it full, waits (`SendWaits`), and one on a closing
connection writes nothing and gives the loop one turn (`SendClosed`).  When a
task first runs it takes its snapshot of the connections (`Todo`).

`told` is the last epStat written to a connection and `got` its uplinks.
`overtaken` says that an epStat may have passed an older one of its sensor.  Two
steps can make that happen.  A cleanup takes a connection off the list that a
task waits on or has still to visit, and a newer task, which no longer visits
it, goes by (`Cleanup`).  And the event loop may run a newer task before an older
one that it woke later (`RunNext`): two tasks that wait on different connections
are woken in the order these resume.  Of two tasks of a sensor the one with less
to do is the older (`Overtakes`).  Registrations are as in `ScaciDownlink`; here
they decide who gets an uplink (`Recipients`); a reg of a connection that is no
longer listed goes to the name "UNKNOWN" (`Eui`).

### MqttBridge

`start`, `incoming`, `outgoing` and `health` are where `start()` and its three
handlers are; `link` is the client's connection.  `gather` is called with
`return_exceptions=True`, so `start()` goes on only when all three have ended
(`Gathered`).  Messages on the output queue are numbered as they are put, and
`published` and `dropped` are histories of where they went; of a received
message only its kind is kept.  Puts do not suspend (the queues are unbounded),
so a received message with its acknowledgement is one step.  A connection error
puts the message back and ends the handler; any other error, a timeout for one,
gives the message up.  What a command changes in other tables is left to the
modules of those tables.

### Framing

A stream is a sequence of units: frames with one message, with two ("double"),
or with none that can be decoded ("bad"), and other bytes ("junk").  A read may
end at every byte.  `DecodeMessages` and `DecodeFrames` follow the loops of the
two decoders, positions for byte strings; `Remaining` is `_remaining_buf`.
Where the code reads a length out of bytes that are none, `g` is any of the
values that matter.  Handling an object that is no dict raises in the handler
and ends the connection.  The definition they are compared with is `Arrived`:
the messages whose last byte was read.  Both properties are about streams
without double frames: both decoders handle every message of a frame, but
`_remaining_buf` then skips a frame too many, which is a finding.  The encoders
of this repository put one message in a frame.

## 3. The runs

| Run | Module | Checks | Size |
|---|---|---|---|
| `bs_session` | `MCBsSession` | `TypeOK`, `OneConnectionPerStation`, `OpenSessionIsListed`, `StatusTaskWatchesSessions`, `CleanExitForgets`, `OpIdsOnlyDescend`, `StaleConnectionsEvicted`, `ClosedHandlersEnd` | 2 connections, 2 stations, threshold 2; 218 000 states |
| `bs_attach` | `MCBsAttach` | `AttachTypeOK`, `SessionAsksEverySensor`, `RecordsBackedByAnswers`, refinement `ImplementsRegistry` | 2 connections, 2 stations, 3 sensors: 1 in the file and 2 that other tasks request and configure, one of these malformed; 3 operation ids; 1.6 million states |
| `bs_attach_mixup` | `MCBsAttach` | `RecordedOnlyIfAcked` is violated | |
| `dedup` | `MCDedup` | `TypeOK`, `BestCopyBuffered`, `BufferAgeBounded`, `WindowNotSplit`, `PreferredIsLatestAccepted`, `LossCountExact` | 1 sensor, 2 stations, 5 packets, a counter of 3 values, 2 SNRs, delay 2; 3.5 million states |
| `heartbeat` | `Heartbeat` | `TypeOK`, `StateFollowsSilence`, `RegularStaysOnline` | 1 sensor, up to 3 copies, window of 10; 1.5 million states |
| `sensor_config` | `MCSensorConfig` | `TypeOK`, `AcceptedConfigurationKept`, `UndisturbedOperationsApply` | 2 web threads, 1 configuration message, 2 sensors, up to 2 stations; 3.9 million states |
| `certificates` | `Certificates` | `TypeOK`, `GeneratedSetServes`, `IssuedPairsVerify` | 2 threads, 1 station, 1 Application Center, 6 keys, 3 requests; 4.1 million states |
| `downlink` | `MCScaciDownlink` | `TypeOK`, `QueuesInOrder`, `ReportedOnce`, `QueuesDrain` | 2 connections of one Application Center, 2 endpoints, 3 downlinks; 1.5 million states |
| `downlink_lost` | `MCScaciDownlink` | `QueuedDownlinkNotLost` is violated | |
| `scaci_session` | `MCScaciSession` | `TypeOK`, `ToldIsCurrent`, `UplinksDelivered` | 2 connections and the name "UNKNOWN", 1 endpoint, 1 uplink, 2 changes of state; 1.2 million states |
| `mqtt` | `MqttBridge` | `TypeOK`, `MessagesConserved`, `DeafBridgeReconnects`, `BothQueuesDrain` | 1 message of the service, 2 of the broker; 86 000 states |
| `framing` | `Framing` | `StationMessagesInStep`, `CenterMessagesComplete` | payloads of 1 and 3 bytes, up to 3 units; 48 000 states |

### Bounds, and why they are enough

* Writers, stations, sensors, endpoints: properties relate two connections of a
  station, or two stations, so two of each is the least that shows a conflict.
  A third connection adds the replacement of a replacement; the theorems about
  sessions cover any number.
* `MaxOps` stops the operation-id counter.  Ids below it are not told apart; in
  `BsAttach` a request needs a fresh id, so the bound ends requests instead of
  repeating ids.
* `OneHandshake` (a search constraint) keeps the attachment runs to one con per
  connection; repeated handshakes are explored in `bs_session`.  `OneAtATime`
  adds that one request of another task is under way at a time and one
  connection fails at a time.  `OneChange` has the configuration differ from the
  file while the first connection is healthy, by one more sensor or by being
  empty, and `ReloadsChange` leaves out reloads that change nothing but records:
  a sensor that is appended in mid-batch, a reload or a clear in mid-batch, and
  what these leave on record for later sessions all occur.  `HealthyConnections`
  shows that the violation of `bs_attach_mixup` needs no connection to fail.
* `Dedup`: five packets make gaps of one and two, of which `Sanity` separates
  one as loss and one not, and with three values the counter wraps twice; the
  time bound leaves room for two passes after a first copy; `Late` = 1 makes a
  pass late by half a delay.  `Boot` = two delays; see the theorem below.
* `Heartbeat`: sensors have no state in common and a pass of the monitor is one
  step, so one sensor is enough.  `MaxSilence` lies above every timeout the
  instance can compute.  The window is the code's, the periods are scaled down.
  With a fourth copy `RegularStaysOnline` fails, which is a finding; the theorem
  gives the condition under which it holds, for any window and multiplier.
* `SensorConfig`: two threads, one message and the save of an uplink make every
  pair of writers of the file; two sensors tell a lost one from a lost file; two
  stations let one come or leave while another is asked.
* `Certificates`: three requests are one that fails or restores, a generate, and
  one that issues a pair; a request makes at most two keys.
* `ScaciDownlink`: three downlinks are one that expires, one that is kept and
  one that is queued during the sweep.
* `ScaciSession`: two connections let one pause while another takes part; two
  changes are one that overtakes and one that is overtaken.  An overtaking by
  `RunNext` leaves an older state behind only with a third connection at which
  the two tasks come apart; the theorem covers any number of them.
* `MqttBridge`: two received messages, each with an acknowledgement and an
  answer, and one of the service make up to five on the output queue, enough
  for one to be put back behind others; connections may be lost without bound.
* `Framing`: the lengths 1 and 3 meet every case of both completeness tests
  (12 against 8 bytes of header) at every cut.
* Every supply (connections, packets, downlinks, time) is finite, so a
  behaviour may use it up and stop: there deadlock is not an error.  The runs
  `heartbeat`, `sensor_config` and `certificates` check it.

Symmetry is used in safety runs only, for connections, stations, sensors and
threads.

### Fairness

* The event loop runs every task that is ready: weak fairness of the status
  task's next step, of `attach_file`'s end, of a handler at the end of its
  stream and of its finally block, of the sweep, of the tasks of `ScaciSession`.
* A close that was begun ends: asyncio's TLS transport gives up waiting for the
  peer after its shutdown timeout and calls `connection_lost`.
* A `drain` is assumed to return.  It returns or raises once the peer reads or
  the connection is lost; the code sets no timeout of its own.  In
  `ScaciSession` this is `Resumes`: a paused connection is read from again or
  lost.  An Application Center that does neither holds up every task that has
  to pass it.
* `MqttBridge`: the broker can be reached again and again (strong fairness of
  `Connect`), and again and again a connection lasts while a waiting message is
  taken and published (strong fairness of both steps).  A broker that drops
  every connection before a publication would starve the queue, and no code
  could prevent it.
* Nothing is assumed of peers: not that they connect, answer, deregister or
  stay, nor that an open connection is ever lost.

### What the runs show

What holds:

* Duplicate replacement leaves one connection per station and never forgets an
  open one; connections whose cleanup was skipped are evicted by the status
  task; ids do not repeat in a session.  Every session asks for every sensor of
  the list its batch walks, whoever else sends requests or changes the
  configuration meanwhile, and the attachment code implements the abstract
  registry.
* Deduplication keeps the best copy and publishes in bounded time, on a host up
  for two delays, and counts losses across any number of wraps while packets are
  taken for new in order.
* A sensor is marked offline by the first pass after its timeout, and only
  then; one that keeps its interval stays online, with up to three stations.
* What a configuration operation accepted is kept as long as no two overlap, and
  an operation nothing interferes with applies in full.
* One generate that is left alone and completes repairs whatever set of
  certificates it finds, and a pair issued alone fits the authority it was
  issued under.
* Queued downlinks are reported at most once, stay in order, and do not wait
  forever.  Every uplink reaches the connections it was to go to, and the last
  state an Application Center reads is the sensor's, unless a cleanup, or the
  order in which drains end, let a task overtake an older one.
* The bridge loses, doubles and forgets no message, and connects again once there
  is something to publish.
* A base station's messages are never handled twice or out of order, and all are
  handled while every read ends where a frame does; an Application Center's are
  all handled however the stream is cut, and once as long as every frame holds a
  message.  Both hold for frames with at most one message.

What does not (each is a finding in `PROJECT.json`, with the line it
contradicts).  Two have a run:

* `RecordedOnlyIfAcked`: pending requests of all stations share one table keyed
  by the operation id, which every connection counts from -1.  A second
  station's request overwrites the first's, and an acknowledgement is booked
  for the wrong sensor, directly or through the fallback.
* `QueuedDownlinkNotLost`: a downlink queued while the sweep writes a dlDataRes
  for the same endpoint is overwritten when the sweep writes back what it kept
  of its snapshot.  (In the same way a downlink revoked meanwhile comes back.)

The others can be read off a definition, which shows in what state they occur:

| Definition | What happens |
|---|---|
| `BsSession!SendNext` | the status cycle leaves an operation-id entry of a connection that was cleaned up |
| `BsAttach!AfterDetach` | a detach never removes the station from the sensor's record |
| `Dedup!UplinkNew` | a copy that comes after its packet was published counts as new, and the next packet as following a loss |
| `Heartbeat!Copy` | copies count as messages: after the first uplink the interval is about zero, and with four stations a regular sensor goes offline between uplinks |
| `SensorConfig!CloseFile` | `delete_sensor` is not followed by a reload, and the deleted sensor comes back with the next save |
| `SensorConfig!IterationRaises` | a station that comes or leaves makes a configuration message fail before anything is stored |
| `SensorConfig!Read` | a file read between emptying and flush counts as an empty configuration |
| `Certificates!Fail` | a generate that fails leaves a new key beside an old certificate |
| `Certificates!CanRun` | a restored backup has no authority key, and no pair can be issued any more |
| `Certificates!EnsureCa` | an uploaded authority is overwritten by the first pair that is issued |
| `ScaciDownlink!Cleanup` | the cleanup of an old connection drops the registrations of the new one |
| `ScaciSession!Appear` | the first uplink of a sensor is followed by no epStat |
| `ScaciSession!Cleanup` | after a cleanup a task may overtake an older one, and the older state is the last one read |
| `ScaciSession!RunNext` | with three connections a newer task that is woken first overtakes an older one, with the same effect |
| `MqttBridge!Gathered` | the bridge stays deaf while the outgoing handler waits at an empty queue |
| `Framing!Remaining` | the kept bytes are found by counting messages: frames without one, or with two, make it keep or drop the wrong bytes |

Two concern code that never acts: `auto_detach_monitor` and
`detach_all_sensors_sync` select records by a key no code path sets, and
`add_sensor_via_ui` puts the sensor on a queue by way of an event loop that does
not run.

## 4. The proofs

All theorems hold for every value of the constants that meets the named
assumptions of the modules; nothing is assumed beyond them except where stated.

* `BsAttach_proofs`, about `BsSession`: `TypeCorrectness`,
  `AtMostOneConnection`, `OpenSessionsAreListed`, `SessionsAreWatched`,
  `OpIdsDescend`, `CleanExitsForget`.  The inductive invariant
  `SessionInvariance` adds to the properties what they need from one step to the
  next: where a handler is before and after its handshake, which connections may
  be listed, and that a connection not in `attach` has passed the start of the
  status task.
* `BsAttach_proofs`, about `BsAttach`: `AttachRefinesSession` (every step of
  `BsAttach` is a step of `BsSession` or leaves its variables alone, so all
  theorems above carry over), `AttachTypeCorrectness`, `EverySensorIsAskedFor`,
  `RecordsNeedAnswers`, and `RegistryImplemented`: `AttachSpec` implies the
  abstract `Registry!Spec`.  The invariant behind `EverySensorIsAskedFor` says
  how far the batch of a session has come: the sensors before its position in
  the list it walks that were not requested are malformed, and while the batch
  runs nothing is on record for its station, because answers are read only after
  it. `RecordsNeedAnswers` states `RecordsBackedByAnswers` for any number of
  handshakes on a connection, where the run allows one.  Its invariant `Backed`
  adds that the record of a listed station is finite; each answer brings at most
  one record, and only for the station whose connection read it, because no
  other listed connection is that station's.
* `Induction_proofs`, about `Heartbeat`: `TypeCorrectness`,
  `StatesFollowSilence` and, under `FewStations`, `RegularSensorsStayOnline`.
  `FewStations` compares the window with the multiplier and the copies an uplink
  can have: every copy is stamped as an uplink of its own and makes a gap of
  zero, so with more copies the mean of the kept gaps falls below what the
  multiplier makes up for.  With the code's ten stamps and multiplier of four it
  holds for up to three stations and for no more (`ThreeStations`).  The
  invariant `HeartbeatInv` says of the kept gaps that of any `MaxCopies` in a row
  one is an interval and not a copy's, and of the last ones as soon as there are
  as many as the last uplink has had copies (`CopiesAreFew`); and of the monitor
  that no sensor is overdue behind its pass (`CheckedInTime`).
* `Induction_proofs`, about `Framing`: `StationMessagesHandled` and
  `CenterMessagesHandled`, for streams of any length of frames with at most one
  message, payloads of any size and any reads.  The invariant `FramingInv` says
  of a base station that what was handled is in order and ends before the last
  read did, and is all of it if every read ended with a unit; of an Application
  Center that its buffer starts at a unit, at the first that has not arrived if
  every frame holds a message, and that exactly what has arrived was handled.
* `Dedup_proofs`: `TypeCorrectness`, `EntryTimesInvariant`, `BufferAge`,
  `PathFollowsLatest`, `LossIsExact` and, for `Boot >= 2 * Delay`,
  `NoCopyIsLost` and `WindowKept`.  The invariant
  `EntryTimes` bounds an entry's time from both sides: it is not before the
  service started, and less than two delays before the publisher's next wake-up,
  because what survives a pass is younger than one delay and the sleep is one
  delay.  The condition is real: the clean-up compares an age with a point in
  time (`TLSServer.py:2361`), and on a host that has been up for less than two
  delays it deletes packets that are not yet published.
* `ScaciDownlink_proofs`: `TypeCorrectness`, `QueueOrder` and `ReportsOnce`,
  from the invariant `SweepInv` (`SweepInvariance`).  A downlink can be in up to
  three places at once, its queue, the sweep's snapshot and what the sweep
  keeps, and the write-back may bring it back to the queue.  The invariant says
  that no two endpoints share a downlink (`HeldApart`), that what is kept is
  older than the rest of the snapshot (`SweepInOrder`), and that a downlink
  somebody has had a report of is only in the queue of the endpoint being worked
  on, which is about to be overwritten, or at the head of the snapshot while it
  is being reported (`ReportedPlace`).
* `ScaciSession_proofs`: `TypeCorrectness` and `LastToldIsCurrent`, which states
  `ToldIsCurrent`, from the invariant `SessionInv` (`OrderInvariance`), 110
  definitions and lemmas in all.  Nothing in a task tells its age, so the
  invariant speaks of places and successors instead.  `Structure` says that what
  an epStat has left is a stretch of the list of connections (`InLine`), that of
  two of a sensor one's stretch lies within the other's (`Nested`), that one
  that waits goes on at the next place (`WaitsBehind`), that nobody waits where a
  rival that can run is about to arrive (`Apart`), and that the running one has
  no more to do than those that are ready (`OldestRuns`).  `Fresh` says that an
  epStat with an outdated state has a successor with the right one: with more to
  do, or the same and further back in its queue.  `Telling` says what a
  connection is still owed.  All of it holds as long as `overtaken` is false,
  which is exactly what `Cleanup` and `RunNext` preserve it for.  TLC found no
  error in this invariant with three connections and three changes (5.7 million
  states) before it was proved; that instance also showed the overtaking by
  `RunNext`, which two connections do not show.
* `SensorConfig_proofs`: `TypeCorrectness`, `ConfigurationKept` and the action
  property `OperationsApply`.  The invariant relates the file, the list and the
  copy each request works on to what was configured and deleted, at every point
  of every operation: for all operations while none overlap and no save fails
  (`Regular`), and for each one while nothing interferes with it.
* `Certificates_proofs`: `TypeCorrectness`, `GeneratedServes` and
  `IssuedVerify`.  The invariant says how far the plan of each request has come
  and, while nothing has run beside it, what its steps have made true of the
  files so far; a write to one of these files takes back what the history
  claimed of it.
* `MqttBridge_proofs`: `TypeCorrectness` and `NoMessageLost`.  Handlers run only
  while `start()` gathers them, so a connection begins with no message held; and
  each received message is good for two on the output queue, so what was
  produced and what is yet to be answered are bounded by what came in.

Two of the theorems about `Dedup` are about histories: `PathFollowsLatest` needs
that a pass which takes the latest copy out of the buffer takes every older one
out too, and `LossIsExact` arithmetic modulo `Wrap` and the size of the set of
packets missing below the last one taken for new: it holds for any number of
packets and of wraps, since only two packets that follow each other are compared
(`InStep`).  Neither needs a condition on `Boot`.

What a fold or a recursive function returns for every input is an induction over
data, and the library's induction theorems take an operator as a parameter.  The
first section of `Induction_proofs` gets by with sets: `NatSetInduction` and
`MeasureInduction` follow from the well-foundedness of the naturals for a
predicate given as the set of what satisfies it, and `RecursionExists` says that
a recursive definition has a solution.  From these follow what the mean of the
gaps is bounded by (`SumBound`, `BlocksBound`) and what the decoders return
(`FramesBatch`, `ObjectsSound`, `ObjectsBatch`, `RemainingSkips`).

Only model-checked:

* every liveness property, and with it fairness and `ENABLED`, which the prover
  does not handle: `StaleConnectionsEvicted`, `ClosedHandlersEnd`,
  `QueuesDrain`, `BothQueuesDrain`, `DeafBridgeReconnects` and
  `UplinksDelivered`.

The two findings with a run, `RecordedOnlyIfAcked` and `QueuedDownlinkNotLost`,
are violated, and there is nothing to prove.

## 5. Over-approximations

* `ConCmpEstablish` ends before the first request of the batch is written,
  although no await lies between; other steps may come in between.
* The drain of conRsp is part of `Con`: other steps cannot come between the
  tables' update and the answer, and none of them would see a difference.
* `Request` may be taken by any sender at any time the tables allow, and
  `AttachRequest` likewise: the walk over the connections is left open.
* Dict order is left open in the status cycle and in the sweep.
* A lost connection may or may not make `wait_closed` raise.
* In `BsAttach` a configuration message appends its sensor at any time, whether
  or not it has asked the stations before (`AttachRequest`), and a reload finds
  any of `Files`; `SensorConfig` has the order of these steps and the file.
* A command of `Certificates` may fail whether or not openssl has a reason to.

## 6. Plan

Done: the modules above, and theorems about all of them that state every safety
invariant and every action property the passing runs check.  What is left:

1. `ScaciDownlink` and `ScaciSession` composed: both send on the connections of
   one server, and the sweep's dlDataRes waits on the same transports.
2. Two threads of the web server beside the event loop in `BsAttach`, once it is
   settled what asyncio does with their writes.

## 7. Not modelled

* Auto-detach, which never acts, and `send_inactivity_warning` and
  `flush_pending_dl`, which nothing calls.
* The Variable MAC sub-channel (its state is never entered; its senders are
  `Request`) and OMS parsing, which is pure.
* Operation ids of SCACI and `_pending_ops`, which nothing reads.
* Of the web UI: users and login (a file rewritten by one request), the updater
  (git, pip, file copies), saving settings, dashboards and lists (reads).
* The event loops web threads run coroutines of the TLS server in: what happens
  when a second thread writes to an asyncio transport is not defined by asyncio,
  and a model of it would be a guess.  The requests themselves are `Request`,
  `AttachRequest` and `Detach`.
* The diagnostics buffers, which nothing else reads, start-up, and the message
  builders, which are pure and without state.  openssl is external.
