------------------------------- MODULE BsAttach -------------------------------
(***************************************************************************)
(* Sensor attachment over BSSCI (TLSServer.py): the batch attach a session *)
(* starts with (attach_file), the attach requests that it and other tasks  *)
(* send (send_attach_request), the correlation of attPrpRsp with the one   *)
(* table of pending requests all base stations share, its fallback, the    *)
(* registry of sensors per base station, its purge, send_detach_request,   *)
(* and what replaces or extends the configuration in mid-session.          *)
(*                                                                         *)
(* Every action conjoins the step BsSession makes, so a behaviour of this  *)
(* module is one of BsSession.                                             *)
(***************************************************************************)
EXTENDS BsSession, Sequences

CONSTANTS
  Sensors,
  Files,      (* contents endpoints.json may have, sensors in file order   *)
  Others,     (* sensors other tasks request and configure                 *)
  Malformed   (* sensors that send_attach_request refuses to send; an      *)
              (* update of its entry does not change that                  *)

ASSUME ConfigAssumption ==
  /\ Files \subseteq Seq(Sensors)
  /\ Others \subseteq Sensors
  /\ Malformed \subseteq Sensors

VARIABLES
  config,      (* sensor_config                                            *)
  batch,       (* the list a handler's last attach_file walks or walked    *)
  live,        (* handlers whose attach_file walks the list object that is *)
               (* sensor_config now: what is appended, they will see       *)
  registered,  (* registered_sensors[s]["base_stations"]; the entry None   *)
               (* stands for the name "unknown"                            *)
  pending,     (* pending_attach_requests: [op, sensor] in dict order      *)
  pos,         (* attach_file's position in its list, per handler          *)
  draining,    (* op id whose drain the batch attach awaits, 0 if none     *)
  sending,     (* requests of other tasks whose drain is awaited           *)
  asked,       (* attach requests the base station has yet to answer; an   *)
               (* operation id is used again after another conCmp          *)
  acked,       (* history: requests the station acknowledged this session  *)
  requested    (* history: sensors the batch of a session has requested    *)

walkVars == <<config, batch, live>>
batchVars == <<walkVars, pos, draining, requested>>
attachVars == <<registered, pending, batchVars, sending, asked, acked>>
vars == <<sessionVars, attachVars>>

Operation == [op : Int, sensor : Sensors]

AttachTypeOK ==
  /\ TypeOK
  /\ registered \in [Sensors -> SUBSET (Stations \cup {None})]
  /\ pending \in Seq(Operation)
  /\ config \in Seq(Sensors)
  /\ batch \in [Writers -> Seq(Sensors)]
  /\ live \subseteq Writers
  /\ pos \in [Writers -> Nat]
  /\ \A w \in Writers : pos[w] \in 1 .. Len(batch[w]) + 1
  /\ draining \in [Writers -> Int]
  /\ sending \in [Writers -> Seq(Operation)]
  /\ asked \in [Writers -> Seq(Operation)]
  /\ acked \in [Writers -> Seq(Operation)]
  /\ requested \in [Writers -> SUBSET Sensors]

AttachInit ==
  /\ Init
  /\ registered = [s \in Sensors |-> {}]
  /\ pending = <<>>
  /\ config \in Files
  /\ batch = [w \in Writers |-> <<>>]
  /\ live = {}
  /\ pos = [w \in Writers |-> 1]
  /\ draining = [w \in Writers |-> 0]
  /\ sending = [w \in Writers |-> <<>>]
  /\ asked = [w \in Writers |-> <<>>]
  /\ acked = [w \in Writers |-> <<>>]
  /\ requested = [w \in Writers |-> {}]

-----------------------------------------------------------------------------
(***************************************************************************)
(* Helpers                                                                 *)
(***************************************************************************)

(* Mutant: the purge leaves the records alone.                             *)
PurgedNothing(b) == registered

(* _purge_bs_registrations                                                 *)
Purged(b) == [s \in Sensors |-> registered[s] \ {b}]

(* d[op] = sensor on a Python dict: an entry that is there keeps its place *)
(* in the order, a new one goes to the end.                                *)
Stored(d, op, s) ==
  IF \E i \in DOMAIN d : d[i].op = op
  THEN [i \in DOMAIN d |->
          IF d[i].op = op THEN [op |-> op, sensor |-> s] ELSE d[i]]
  ELSE Append(d, [op |-> op, sensor |-> s])

(* del d[op], where op is the key of the i-th entry.                       *)
Deleted(d, i) ==
  [j \in 1 .. Len(d) - 1 |-> IF j < i THEN d[j] ELSE d[j + 1]]

(* pending_attach_requests.get(op): the place of the entry.                *)
Matches(op) == {i \in DOMAIN pending : pending[i].op = op}

(* The pending request an answer is taken for: the one stored under its    *)
(* operation id, else the most recent one of any base station.             *)
Correlated(op) ==
  IF Matches(op) # {} THEN Matches(op)
  ELSE IF pending # <<>> THEN {Len(pending)} ELSE {}

-----------------------------------------------------------------------------
(***************************************************************************)
(* Session steps that touch the attachment state                           *)
(***************************************************************************)

(* conCmp: a fresh session forgets what was recorded for the station, then *)
(* attach_file starts at the first sensor of what is configured.           *)
OpenSession(w) ==
  /\ ConCmpEstablish(w)
  /\ registered' = Purged(connecting[w])
  /\ batch' = [batch EXCEPT ![w] = config]
  /\ live' = live \cup {w}
  /\ pos' = [pos EXCEPT ![w] = 1]
  /\ acked' = [acked EXCEPT ![w] = <<>>]
  /\ requested' = [requested EXCEPT ![w] = {}]
  /\ UNCHANGED <<config, pending, draining, sending, asked>>

(* Whether another connection still serves w's base station.               *)
StillServed(w) == \E o \in Writers \ {w} : connected[o] = connected[w]

(* The finally block: records of the station go when no connection of it   *)
(* is left; a superseded connection is not listed and purges nothing.      *)
CloseSession(w) ==
  /\ Cleanup(w)
  /\ registered' = IF connected[w] = None \/ StillServed(w)
                   THEN registered ELSE Purged(connected[w])
  /\ UNCHANGED <<pending, batchVars, sending, asked, acked>>

-----------------------------------------------------------------------------
(***************************************************************************)
(* attach_file and send_attach_request                                     *)
(***************************************************************************)

InBatch(w) ==
  pc[w] = "attach" /\ draining[w] = 0 /\ pos[w] <= Len(batch[w])

AlreadyAttached(w, s) == connected[w] \in registered[s]

(* The loop over the list goes on to the next sensor.                      *)
BatchGoesOn(w) ==
  /\ pos' = [pos EXCEPT ![w] = @ + 1]
  /\ UNCHANGED walkVars

(* It is left by break: what is appended now is not looked at any more.    *)
BatchBreaks(w) ==
  /\ pos' = [pos EXCEPT ![w] = Len(batch[w]) + 1]
  /\ live' = live \ {w}
  /\ UNCHANGED <<config, batch>>

(* Nothing is sent: the batch of a superseded or evicted writer is         *)
(* aborted, a sensor recorded as attached to this station is skipped.      *)
BatchPass(w) ==
  /\ InBatch(w)
  /\ \/ connected[w] = None /\ BatchBreaks(w)
     \/ /\ connected[w] # None
        /\ AlreadyAttached(w, batch[w][pos[w]])
        /\ BatchGoesOn(w)
  /\ UNCHANGED <<sessionVars, registered, pending, draining, sending, asked,
                 acked, requested>>

(* The sensor fails the format checks; its operation id is already taken.  *)
BatchRefuse(w) ==
  /\ InBatch(w)
  /\ connected[w] # None
  /\ ~AlreadyAttached(w, batch[w][pos[w]])
  /\ batch[w][pos[w]] \in Malformed
  /\ opIds[w] > -MaxOps
  /\ Request(w)
  /\ BatchGoesOn(w)
  /\ UNCHANGED <<registered, pending, draining, sending, asked, acked,
                 requested>>

(* What is written to an open transport reaches the base station.          *)
Asks(w, r) ==
  asked' = IF transport[w] = "open"
           THEN [asked EXCEPT ![w] = Append(@, r)] ELSE asked

(* Take an operation id and write attPrp; the drain may suspend.           *)
BatchSend(w) ==
  LET s == batch[w][pos[w]]
  IN  /\ InBatch(w)
      /\ connected[w] # None
      /\ ~AlreadyAttached(w, s)
      /\ s \notin Malformed
      /\ opIds[w] > -MaxOps
      /\ Request(w)
      /\ draining' = [draining EXCEPT ![w] = opIds[w]]
      /\ requested' = [requested EXCEPT ![w] = @ \cup {s}]
      /\ Asks(w, [op |-> opIds[w], sensor |-> s])
      /\ UNCHANGED <<walkVars, registered, pending, pos, sending, acked>>

(* The drain returned: only now is the request entered as pending, under   *)
(* its operation id alone.                                                 *)
BatchSent(w) ==
  /\ pc[w] = "attach"
  /\ draining[w] # 0
  /\ transport[w] # "lost"
  /\ pending' = Stored(pending, draining[w], batch[w][pos[w]])
  /\ draining' = [draining EXCEPT ![w] = 0]
  /\ BatchGoesOn(w)
  /\ UNCHANGED <<sessionVars, registered, sending, asked, acked, requested>>

(* The drain raised, nothing is entered as pending: a ConnectionError ends *)
(* the batch, another error (an SSLError) skips to the next sensor.        *)
BatchSendFailed(w) ==
  /\ pc[w] = "attach"
  /\ draining[w] # 0
  /\ transport[w] = "lost"
  /\ draining' = [draining EXCEPT ![w] = 0]
  /\ BatchGoesOn(w) \/ BatchBreaks(w)
  /\ UNCHANGED <<sessionVars, registered, pending, sending, asked, acked,
                 requested>>

BatchDone(w) ==
  /\ draining[w] = 0
  /\ pos[w] > Len(batch[w])
  /\ AttachDone(w)
  /\ live' = live \ {w}
  /\ UNCHANGED <<config, batch, registered, pending, pos, draining, requested,
                 sending, asked, acked>>

-----------------------------------------------------------------------------
(***************************************************************************)
(* Attach requests of other tasks: a command or configuration over MQTT,   *)
(* and the reg of an Application Center.  Each walks the connections with  *)
(* a drain for every one; nobody looks at what is on record.               *)
(***************************************************************************)

AttachRequest(w, s) ==
  LET r == [op |-> opIds[w], sensor |-> s]
  IN  /\ opIds[w] > -MaxOps
      /\ Request(w)
      /\ IF s \in Malformed THEN UNCHANGED <<sending, asked>>
         ELSE /\ sending' = [sending EXCEPT ![w] = Append(@, r)]
              /\ Asks(w, r)
      /\ UNCHANGED <<registered, pending, batchVars, acked>>

(* The drain returned.                                                     *)
AttachRequested(w, n) ==
  /\ n \in DOMAIN sending[w]
  /\ transport[w] # "lost"
  /\ sending' = [sending EXCEPT ![w] = Deleted(@, n)]
  /\ pending' = Stored(pending, sending[w][n].op, sending[w][n].sensor)
  /\ UNCHANGED <<sessionVars, registered, batchVars, asked, acked>>

(* The drain raised: the sender logs it.                                   *)
AttachRequestFailed(w, n) ==
  /\ n \in DOMAIN sending[w]
  /\ transport[w] = "lost"
  /\ sending' = [sending EXCEPT ![w] = Deleted(@, n)]
  /\ UNCHANGED <<sessionVars, registered, pending, batchVars, asked, acked>>

-----------------------------------------------------------------------------
(***************************************************************************)
(* Answers of the base station                                             *)
(***************************************************************************)

(* attPrpRsp: record the sensor of the correlated request for the station  *)
(* this writer is listed as ("unknown" when it is not), delete the request *)
(* and write attPrpCmp, whose drain ends the handler on a lost connection. *)
AttachResponse(w, n) ==
  /\ pc[w] = "read"
  /\ n \in DOMAIN asked[w]
  /\ asked' = [asked EXCEPT ![w] = Deleted(@, n)]
  /\ acked' = [acked EXCEPT ![w] = Append(@, asked[w][n])]
  /\ LET found == Correlated(asked[w][n].op)
     IN  IF found = {}
         THEN UNCHANGED <<registered, pending>>
         ELSE \E i \in found :
                /\ registered' =
                     [registered EXCEPT
                        ![pending[i].sensor] = @ \cup {connected[w]}]
                /\ pending' = Deleted(pending, i)
  /\ IF transport[w] = "lost" THEN HandlerExit(w) ELSE UNCHANGED sessionVars
  /\ UNCHANGED <<batchVars, sending>>

(* The station answers "error": it is logged, the request stays pending.   *)
AttachRefusal(w, n) ==
  /\ pc[w] = "read"
  /\ n \in DOMAIN asked[w]
  /\ asked' = [asked EXCEPT ![w] = Deleted(@, n)]
  /\ UNCHANGED <<sessionVars, registered, pending, batchVars, sending, acked>>

-----------------------------------------------------------------------------
(***************************************************************************)
(* send_detach_request                                                     *)
(***************************************************************************)

(* The list the code assigns to base_stations.  Its filter subscripts each *)
(* element, a string, with "base_station_eui": on a list that is not empty *)
(* that raises, and the handler returns False with the list as it was.     *)
AfterDetach(s) == registered[s]

(* detPrp is written first, then the record is filtered.  detach_sensor    *)
(* walks a snapshot, so w may not be listed any more.  The answer          *)
(* detPrpRsp changes nothing.                                              *)
Detach(w, s) ==
  /\ opIds[w] > -MaxOps
  /\ Request(w)
  /\ registered' = [registered EXCEPT ![s] = AfterDetach(s)]
  /\ UNCHANGED <<pending, batchVars, sending, asked, acked>>

-----------------------------------------------------------------------------
(***************************************************************************)
(* The configuration changes.  A configuration message over MQTT asks the  *)
(* connected stations first (AttachRequest) and saves then; its awaits are *)
(* interleaving points, and SensorConfig models what becomes of the file.  *)
(***************************************************************************)

(* Mutant: the sensor goes in front of those the batches have passed.      *)
ConfigureInFront(s) ==
  /\ \A i \in DOMAIN config : config[i] # s
  /\ config' = <<s>> \o config
  /\ batch' = [w \in Writers |->
                 IF w \in live THEN <<s>> \o batch[w] ELSE batch[w]]
  /\ UNCHANGED <<sessionVars, registered, pending, live, pos, draining,
                 requested, sending, asked, acked>>

(* update_or_add_entry of a sensor that is not configured appends to the   *)
(* list object itself; an entry that is there is changed in its place.     *)
Configure(s) ==
  /\ \A i \in DOMAIN config : config[i] # s
  /\ config' = Append(config, s)
  /\ batch' = [w \in Writers |->
                 IF w \in live THEN Append(batch[w], s) ELSE batch[w]]
  /\ UNCHANGED <<sessionVars, registered, pending, live, pos, draining,
                 requested, sending, asked, acked>>

(* registered_sensors without the sensors that are not in the list l.      *)
KeptOf(l) ==
  [s \in Sensors |->
     IF \E i \in DOMAIN l : l[i] = s THEN registered[s] ELSE {}]

(* reload_sensor_config: a new list object, which no batch under way       *)
(* walks; the records of sensors that are not on it go, requests for them  *)
(* stay pending.                                                           *)
Reload ==
  \E file \in Files :
    /\ config' = file
    /\ live' = {}
    /\ registered' = KeptOf(file)
    /\ UNCHANGED <<sessionVars, batch, pending, pos, draining, requested,
                   sending, asked, acked>>

(* clear_all_sensors: a new empty list, no record and no pending request.  *)
Clear ==
  /\ config' = <<>>
  /\ live' = {}
  /\ registered' = KeptOf(<<>>)
  /\ pending' = <<>>
  /\ UNCHANGED <<sessionVars, batch, pos, draining, requested, sending, asked,
                 acked>>

-----------------------------------------------------------------------------
(* The steps of BsSession that leave the attachment state alone.           *)
SessionOnly(w) ==
  \/ Accept(w)
  \/ \E b \in Stations : Con(w, b)
  \/ ConCmpIgnored(w)
  \/ HandlerExit(w)
  \/ WaitClosedRaises(w)
  \/ ConnectionLost(w)

AttachStep(w) ==
  \/ OpenSession(w)
  \/ CloseSession(w)
  \/ BatchPass(w) \/ BatchRefuse(w) \/ BatchSend(w)
  \/ BatchSent(w) \/ BatchSendFailed(w) \/ BatchDone(w)
  \/ \E n \in DOMAIN asked[w] : AttachResponse(w, n) \/ AttachRefusal(w, n)
  \/ \E s \in Sensors : Detach(w, s)
  \/ \E s \in Others : AttachRequest(w, s)
  \/ \E n \in DOMAIN sending[w] :
       AttachRequested(w, n) \/ AttachRequestFailed(w, n)

ConfigStep == (\E s \in Others : Configure(s)) \/ Reload \/ Clear

AttachNext ==
  \/ ConfigStep
  \/ \E w \in Writers : AttachStep(w)
  \/ \E w \in Writers : SessionOnly(w) /\ UNCHANGED attachVars
  \/ StatusTask /\ UNCHANGED attachVars

AttachSpec == AttachInit /\ [][AttachNext]_vars

-----------------------------------------------------------------------------
(***************************************************************************)
(* Properties                                                              *)
(***************************************************************************)

(* A session in service has asked its base station for every well-formed   *)
(* sensor of the list its batch walked, those configured during the batch  *)
(* among them: the purge at conCmp, done before the batch, makes           *)
(* attach_file skip none of them for what an earlier session recorded      *)
(* (docstring of _purge_bs_registrations), and no reload or clear in       *)
(* mid-batch makes it lose its place.                                      *)
SessionAsksEverySensor ==
  \A w \in Writers :
    connected[w] # None /\ pc[w] = "read" /\ transport[w] = "open"
      => \A i \in DOMAIN batch[w] :
           batch[w][i] \in Malformed \cup requested[w]

(* A session never has more sensors on record than its base station        *)
(* acknowledged, although the fallback may have picked the wrong ones and  *)
(* a late answer may be to a request of an earlier session.                *)
RecordsBackedByAnswers ==
  \A w \in Writers :
    connected[w] # None =>
      Cardinality({s \in Sensors : connected[w] \in registered[s]})
        <= Len(acked[w])

(* The session and attachment state seen as the abstract registry.         *)
SessionOf(b) ==
  IF \E w \in Writers : connected[w] = b
  THEN CHOOSE w \in Writers : connected[w] = b ELSE None

AttachedTo(b) == {s \in Sensors : b \in registered[s]}

Registry == INSTANCE StationRegistry WITH
  Sessions <- Writers,
  session  <- [b \in Stations |-> SessionOf(b)],
  attached <- [b \in Stations |-> AttachedTo(b)]

(* The attachment code implements the registry: records of a station grow  *)
(* only in its session, start empty, and are lost with its session or      *)
(* because the sensor leaves the configuration, which takes its records of *)
(* all stations at once, no matter which handlers, replacements, reloads   *)
(* and late answers interleave.                                            *)
ImplementsRegistry == Registry!Spec

(* What the registry is for: a sensor on record for a listed station was   *)
(* acknowledged by that station in this session.  Operation ids are per    *)
(* connection and the table of pending requests is not, so answers of two  *)
(* stations are mixed up.                                                  *)
RecordedOnlyIfAcked ==
  \A w \in Writers, s \in Sensors :
    connected[w] # None /\ connected[w] \in registered[s]
      => \E n \in DOMAIN acked[w] : acked[w][n].sensor = s
=============================================================================
