---------------------------- MODULE SensorConfig ----------------------------
(***************************************************************************)
(* The configured sensors: endpoints.json and the list sensor_config the   *)
(* TLS server keeps in memory.  Two kinds of threads change them with no   *)
(* lock: the web server's request threads (web_ui.py), which read the      *)
(* file, change the copy, write the file and have the server reload it,    *)
(* and the event loop (TLSServer.py), which changes the list and saves all *)
(* of it, for a configuration message, for every accepted uplink and at    *)
(* the end of every connection of a base station.                          *)
(*                                                                         *)
(* open(.., "w") empties the file and the text follows when it is flushed: *)
(* between the two a reader finds Torn text.  It takes that for an empty   *)
(* configuration, except for the reload, which then keeps the list.        *)
(* Writers that overlap may leave Torn text behind.                        *)
(*                                                                         *)
(* A configuration is a set of sensors; their fields are abstracted.  The  *)
(* requests sent to base stations are BsAttach's.                          *)
(***************************************************************************)
EXTENDS Integers, FiniteSets

CONSTANTS
  Sensors,     (* sensors                                                  *)
  Threads,     (* request threads of the web server                        *)
  Tasks,       (* messages processed at a time: one with MQTT, whose queue *)
               (* is worked off in order, any number without               *)
  Path,        (* a save of the list as it is, as a writer                 *)
  Free,        (* no save in the event loop                                *)
  None,        (* no sensor                                                *)
  Torn,        (* text that is not JSON                                    *)
  MaxStations  (* bound: connected base stations                           *)

ASSUME ConfigAssumption ==
  /\ \A S \in SUBSET Sensors : Torn # S
  /\ None \notin Sensors
  /\ Path \notin Threads \cup Tasks
  /\ Free \notin Threads \cup Tasks \cup {Path}
  /\ Threads \cap Tasks = {}
  /\ MaxStations \in Nat

VARIABLES
  file,        (* endpoints.json                                           *)
  memory,      (* sensor_config                                            *)
  open,        (* writers that have emptied the file and not closed it     *)
  clash,       (* those of them another writer overlaps                    *)
  pc,          (* what a thread does next                                  *)
  op,          (* the route it serves                                      *)
  eps,         (* the sensors the request names                            *)
  copy,        (* the configuration it works on                            *)
  taskPc,      (* configuration messages: "idle", "asking", "saving"       *)
  ep,          (* the sensor of a message                                  *)
  left,        (* base stations still to be asked                          *)
  size,        (* how many there were when the iteration began             *)
  changed,     (* messages during whose iteration stations came or went    *)
  loop,        (* who saves in the event loop, which is blocked meanwhile  *)
  stations,    (* how many base stations are connected                     *)
  registered,  (* sensors with an entry in registered_sensors              *)
  wanted,      (* history: the configuration as the closed writes say      *)
  deleted,     (* history: sensors deleted and not configured again        *)
  disturbed,   (* history: operations another one interfered with          *)
  irregular    (* history: operations overlapped, a save failed, or the    *)
               (* process died in one                                      *)

storeVars == <<file, memory, open, clash>>
webVars == <<pc, op, eps, copy>>
taskVars == <<taskPc, ep, left, size, changed>>
historyVars == <<wanted, deleted, disturbed, irregular>>
stationVars == <<stations, registered>>
configVars == <<storeVars, webVars, taskVars, loop, stationVars, historyVars>>

Writers == Threads \cup Tasks \cup {Path}
Routes == {"none", "add", "delete", "clear", "reload"}

Running == {r \in Threads : pc[r] # "idle"}
Processing == {t \in Tasks : taskPc[t] # "idle"}
Active == Running \cup Processing

TypeOK ==
  /\ file \in {Torn} \cup SUBSET Sensors
  /\ memory \subseteq Sensors
  /\ open \subseteq Writers
  /\ clash \subseteq open
  /\ pc \in [Threads -> {"idle", "open", "close", "reload"}]
  /\ op \in [Threads -> Routes]
  /\ eps \in [Threads -> SUBSET Sensors]
  /\ copy \in [Threads -> SUBSET Sensors]
  /\ taskPc \in [Tasks -> {"idle", "asking", "saving"}]
  /\ ep \in [Tasks -> Sensors \cup {None}]
  /\ left \in [Tasks -> 0 .. MaxStations]
  /\ size \in [Tasks -> 0 .. MaxStations]
  /\ changed \subseteq Tasks
  /\ loop \in Tasks \cup {Path, Free}
  /\ stations \in 0 .. MaxStations
  /\ registered \subseteq Sensors
  /\ wanted \subseteq Sensors
  /\ deleted \subseteq Sensors
  /\ disturbed \subseteq Active
  /\ irregular \in BOOLEAN

(* What a reader makes of the file: an exception is an empty list.         *)
Read(text) == IF text = Torn THEN {} ELSE text

Init ==
  /\ file \in SUBSET Sensors
  /\ memory = file
  /\ open = {}
  /\ clash = {}
  /\ pc = [r \in Threads |-> "idle"]
  /\ op = [r \in Threads |-> "none"]
  /\ eps = [r \in Threads |-> {}]
  /\ copy = [r \in Threads |-> {}]
  /\ taskPc = [t \in Tasks |-> "idle"]
  /\ ep = [t \in Tasks |-> None]
  /\ left = [t \in Tasks |-> 0]
  /\ size = [t \in Tasks |-> 0]
  /\ changed = {}
  /\ loop = Free
  /\ stations = 0
  /\ registered = {}
  /\ wanted = file
  /\ deleted = {}
  /\ disturbed = {}
  /\ irregular = FALSE

-----------------------------------------------------------------------------
(***************************************************************************)
(* The file                                                                *)
(***************************************************************************)

(* History: x changes the file or the list under the others, or under the  *)
(* eyes of one that has the file open; those in ended are done.            *)
Touches(x, ended) ==
  /\ disturbed' = (disturbed \cup (Active \ {x})
                     \cup (IF open \ {x} = {} THEN {} ELSE {x} \ {Path}))
                   \ ended
  /\ irregular' = (irregular \/ Active \ {x} # {} \/ open \ {x} # {})

(* History: what is configured from now on, as long as all is regular.     *)
Records(configured, gone) ==
  /\ wanted' = IF irregular' THEN {} ELSE configured
  /\ deleted' = IF irregular' THEN {} ELSE gone

(* open(.., "w"): the file is empty, whoever else writes it.               *)
Truncate(x) ==
  /\ file' = Torn
  /\ open' = open \cup {x}
  /\ clash' = IF open = {} THEN {} ELSE open \cup {x}
  /\ Touches(x, {})
  /\ Records(wanted, deleted)

(* The text is written and the file closed.  Over what another writer left *)
(* meanwhile the result need not be JSON.                                  *)
Flush(x, content, ended) ==
  /\ file' \in IF x \in clash THEN {content, Torn} ELSE {content}
  /\ open' = open \ {x}
  /\ clash' = clash \ {x}
  /\ Touches(x, ended)

-----------------------------------------------------------------------------
(***************************************************************************)
(* Requests of the web server                                              *)
(***************************************************************************)

(* A request begins; one that meets an open file is disturbed.             *)
Begin(r, route, S, content, next) ==
  /\ pc[r] = "idle"
  /\ pc' = [pc EXCEPT ![r] = next]
  /\ op' = [op EXCEPT ![r] = route]
  /\ eps' = [eps EXCEPT ![r] = S]
  /\ copy' = [copy EXCEPT ![r] = content]
  /\ disturbed' = IF open = {} THEN disturbed ELSE disturbed \cup {r}
  /\ UNCHANGED <<storeVars, taskVars, loop, stationVars, wanted, deleted,
                 irregular>>

(* The thread has answered.                                                *)
End(r) ==
  /\ pc' = [pc EXCEPT ![r] = "idle"]
  /\ op' = [op EXCEPT ![r] = "none"]
  /\ eps' = [eps EXCEPT ![r] = {}]
  /\ copy' = [copy EXCEPT ![r] = {}]

(* add_sensor and, with any number of sensors, import_sensors: read the    *)
(* file, add to the copy.                                                  *)
AddSensors(r) ==
  \E S \in SUBSET Sensors : Begin(r, "add", S, Read(file) \cup S, "open")

DeleteSensor(r) ==
  \E s \in Sensors : Begin(r, "delete", {s}, Read(file) \ {s}, "open")

(* clear_all_sensors: its detach_all_sensors_sync detaches the sensors     *)
(* marked as registered, which none ever is.                               *)
ClearAll(r) == Begin(r, "clear", {}, {}, "open")

ReloadSensors(r) == Begin(r, "reload", {}, {}, "reload")

(* attach_all_sensors is a reload, refused without stations or with an     *)
(* empty file, and the requests to the stations.                           *)
AttachAll(r) ==
  /\ stations > 0
  /\ Read(file) # {}
  /\ Begin(r, "reload", {}, {}, "reload")

OpenFile(r) ==
  /\ pc[r] = "open"
  /\ Truncate(r)
  /\ pc' = [pc EXCEPT ![r] = "close"]
  /\ UNCHANGED <<memory, op, eps, copy, taskVars, loop, stationVars>>

(* open raises: the request answers with the error.                        *)
OpenRefused(r) ==
  /\ pc[r] = "open"
  /\ End(r)
  /\ disturbed' = disturbed \ {r}
  /\ UNCHANGED <<storeVars, taskVars, loop, stationVars, wanted, deleted,
                 irregular>>

(* What the write makes of the configuration.                              *)
Configured(r) ==
  CASE op[r] = "delete" -> wanted \ eps[r]
    [] op[r] = "clear"  -> {}
    [] OTHER            -> wanted \cup eps[r]

(* Mutant: nothing is reloaded after a write.                              *)
CloseFileNoReload(r) ==
  /\ pc[r] = "close"
  /\ Flush(r, copy[r], {r})
  /\ End(r)
  /\ Records(Configured(r), IF op[r] = "delete" THEN deleted \cup eps[r]
                            ELSE deleted \ eps[r])
  /\ UNCHANGED <<memory, taskVars, loop, stationVars>>

(* The write; delete_sensor answers then, the others go on to a reload.    *)
CloseFile(r) ==
  /\ pc[r] = "close"
  /\ Flush(r, copy[r], IF op[r] = "delete" THEN {r} ELSE {})
  /\ IF op[r] = "delete"
     THEN End(r) /\ Records(Configured(r), deleted \cup eps[r])
     ELSE /\ pc' = [pc EXCEPT ![r] = "reload"]
          /\ Records(Configured(r), deleted \ eps[r])
          /\ UNCHANGED <<op, eps, copy>>
  /\ UNCHANGED <<memory, taskVars, loop, stationVars>>

(* Mutant: the file is merged into the list.                               *)
ReloadedMerged == IF file = Torn THEN memory ELSE memory \cup file

(* reload_sensor_config keeps the list when the file cannot be read.       *)
Reloaded == IF file = Torn THEN memory ELSE file

(* reload_sensor_config, or clear_all_sensors of the TLS server.           *)
Reload(r) ==
  /\ pc[r] = "reload"
  /\ memory' = IF op[r] = "clear" THEN {} ELSE Reloaded
  /\ registered' = IF op[r] # "clear" /\ file = Torn THEN registered
                   ELSE registered \cap memory'
  /\ End(r)
  /\ Touches(r, {r})
  /\ Records(wanted, deleted)
  /\ UNCHANGED <<file, open, clash, taskVars, loop, stations>>

WebThread(r) ==
  \/ AddSensors(r) \/ DeleteSensor(r) \/ ClearAll(r)
  \/ ReloadSensors(r) \/ AttachAll(r)
  \/ OpenFile(r) \/ OpenRefused(r) \/ CloseFile(r) \/ Reload(r)

-----------------------------------------------------------------------------
(***************************************************************************)
(* The event loop of the TLS server                                        *)
(***************************************************************************)

(* update_or_add_entry: the sensor joins the list, the save begins.        *)
Save(t, s) ==
  /\ memory' = memory \cup {s}
  /\ loop' = t
  /\ taskPc' = [taskPc EXCEPT ![t] = "saving"]
  /\ Touches(t, {})
  /\ Records(wanted, deleted)

(* process_sensor_config_message asks the first station.                   *)
Message(t, s) ==
  /\ loop = Free
  /\ taskPc[t] = "idle"
  /\ stations > 0
  /\ taskPc' = [taskPc EXCEPT ![t] = "asking"]
  /\ ep' = [ep EXCEPT ![t] = s]
  /\ left' = [left EXCEPT ![t] = stations - 1]
  /\ size' = [size EXCEPT ![t] = stations]
  /\ disturbed' = IF open = {} THEN disturbed ELSE disturbed \cup {t}
  /\ UNCHANGED <<storeVars, webVars, changed, loop, stationVars, wanted,
                 deleted, irregular>>

(* Without stations it saves at once.                                      *)
MessageAlone(t, s) ==
  /\ loop = Free
  /\ taskPc[t] = "idle"
  /\ stations = 0
  /\ ep' = [ep EXCEPT ![t] = s]
  /\ Save(t, s)
  /\ UNCHANGED <<file, open, clash, webVars, left, size, changed, stationVars>>

(* Mutant: one station too many.                                           *)
AskNextPastEnd(t) ==
  /\ loop = Free
  /\ taskPc[t] = "asking"
  /\ t \in changed => stations = size[t]
  /\ IF left[t] < 0
     THEN Save(t, ep[t]) /\ UNCHANGED left
     ELSE /\ left' = [left EXCEPT ![t] = @ - 1]
          /\ UNCHANGED <<memory, loop, taskPc, historyVars>>
  /\ UNCHANGED <<file, open, clash, webVars, ep, size, changed, stationVars>>

(* The next step of the iteration over the live dict of connections.       *)
AskNext(t) ==
  /\ loop = Free
  /\ taskPc[t] = "asking"
  /\ t \in changed => stations = size[t]
  /\ IF left[t] = 0
     THEN Save(t, ep[t]) /\ UNCHANGED left
     ELSE /\ left' = [left EXCEPT ![t] = @ - 1]
          /\ UNCHANGED <<memory, loop, taskPc, historyVars>>
  /\ UNCHANGED <<file, open, clash, webVars, ep, size, changed, stationVars>>

(* The messages in T are done with, one way or another.                    *)
Finish(T) ==
  /\ taskPc' = [t \in Tasks |-> IF t \in T THEN "idle" ELSE taskPc[t]]
  /\ ep' = [t \in Tasks |-> IF t \in T THEN None ELSE ep[t]]
  /\ left' = [t \in Tasks |-> IF t \in T THEN 0 ELSE left[t]]
  /\ size' = [t \in Tasks |-> IF t \in T THEN 0 ELSE size[t]]
  /\ changed' = changed \ T

(* "dictionary changed size during iteration": the message is dropped.     *)
IterationRaises(t) ==
  /\ loop = Free
  /\ taskPc[t] = "asking"
  /\ t \in changed
  /\ Finish({t})
  /\ disturbed' = disturbed \ {t}
  /\ UNCHANGED <<storeVars, webVars, loop, stationVars, wanted, deleted,
                 irregular>>

(* update_or_add_entry raises for a message without "bidi", after the      *)
(* stations were asked: no sensor joins the list and nothing is saved.     *)
EntryRaises(t) ==
  /\ loop = Free
  /\ taskPc[t] = "asking"
  /\ left[t] = 0
  /\ t \in changed => stations = size[t]
  /\ Finish({t})
  /\ disturbed' = disturbed \ {t}
  /\ UNCHANGED <<storeVars, webVars, loop, stationVars, wanted, deleted,
                 irregular>>

(* An accepted uplink of a configured sensor: the whole list is saved.     *)
PreferredPath ==
  /\ loop = Free
  /\ memory # {}
  /\ loop' = Path
  /\ UNCHANGED <<storeVars, webVars, taskVars, stationVars, historyVars>>

(* A connection ends, also one that never was a base station's: its        *)
(* handler saves the whole list, also an empty one, and only then leaves   *)
(* the tables (Stations).                                                  *)
ConnectionEnds ==
  /\ loop = Free
  /\ loop' = Path
  /\ UNCHANGED <<storeVars, webVars, taskVars, stationVars, historyVars>>

SaveOpen ==
  /\ loop # Free
  /\ loop \notin open
  /\ Truncate(loop)
  /\ UNCHANGED <<memory, webVars, taskVars, loop, stationVars>>

(* open raises: update_or_add_entry leaves an emergency copy that nothing  *)
(* reads, the list keeps the sensor.                                       *)
SaveRefused ==
  /\ loop # Free
  /\ loop \notin open
  /\ loop' = Free
  /\ Finish({loop})
  /\ irregular' = (irregular \/ loop # Path)
  /\ disturbed' = disturbed \ {loop}
  /\ Records(wanted, deleted)
  /\ UNCHANGED <<storeVars, webVars, stationVars>>

(* Mutant: the text is made before the sensor joins the list.              *)
SaveCloseEarly ==
  /\ loop \in open
  /\ Flush(loop, memory \ {ep[t] : t \in Tasks \cap {loop}}, {loop})
  /\ loop' = Free
  /\ Finish({loop})
  /\ LET saved == {ep[t] : t \in Tasks \cap {loop}}
     IN  Records(wanted \cup saved, deleted \ saved)
  /\ UNCHANGED <<memory, webVars, stationVars>>

(* What is saved is the list as it is by then.                             *)
SaveClose ==
  /\ loop \in open
  /\ Flush(loop, memory, {loop})
  /\ loop' = Free
  /\ Finish({loop})
  /\ LET saved == {ep[t] : t \in Tasks \cap {loop}}
     IN  Records(wanted \cup saved, deleted \ saved)
  /\ UNCHANGED <<memory, webVars, stationVars>>

(* A base station accepts a sensor; BsAttach says when.                    *)
Registered(s) ==
  /\ loop = Free
  /\ stations > 0
  /\ registered' = registered \cup {s}
  /\ UNCHANGED <<storeVars, webVars, taskVars, loop, stations, historyVars>>

(* Base stations connect, and leave with the registrations they backed.    *)
Stations ==
  /\ loop = Free
  /\ stations' \in {stations - 1, stations + 1} \cap 0 .. MaxStations
  /\ registered' \in IF stations' = 0 THEN {{}}
                     ELSE IF stations' > stations THEN {registered}
                     ELSE SUBSET registered
  /\ changed' = changed \cup {t \in Tasks : taskPc[t] = "asking"}
  /\ UNCHANGED <<storeVars, webVars, taskPc, ep, left, size, loop,
                 historyVars>>

(* The process ends and is started again: the file stays as it is.         *)
Restart ==
  /\ memory' = Read(file)
  /\ open' = {}
  /\ clash' = {}
  /\ pc' = [r \in Threads |-> "idle"]
  /\ op' = [r \in Threads |-> "none"]
  /\ eps' = [r \in Threads |-> {}]
  /\ copy' = [r \in Threads |-> {}]
  /\ Finish(Tasks)
  /\ loop' = Free
  /\ stations' = 0
  /\ registered' = {}
  /\ disturbed' = {}
  /\ irregular' = (irregular \/ open # {})
  /\ Records(wanted, deleted)
  /\ UNCHANGED file

EventLoop ==
  \/ \E t \in Tasks : \/ \E s \in Sensors : Message(t, s) \/ MessageAlone(t, s)
                      \/ AskNext(t) \/ IterationRaises(t) \/ EntryRaises(t)
  \/ PreferredPath \/ ConnectionEnds
  \/ SaveOpen \/ SaveRefused \/ SaveClose \/ Stations
  \/ \E s \in Sensors : Registered(s)

Next == EventLoop \/ Restart \/ \E r \in Threads : WebThread(r)

Spec == Init /\ [][Next]_configVars

-----------------------------------------------------------------------------
(***************************************************************************)
(* Properties                                                              *)
(***************************************************************************)

(* When a request ends that no other operation interfered with, the file   *)
(* holds what it made of the file it read at its beginning, and the list   *)
(* the same, but for a deletion; a reload leaves both equal.  When a       *)
(* configuration message is saved that no other operation interfered with, *)
(* it is in both, and they are equal.                                      *)
UndisturbedOperationsApply ==
  [][/\ \A r \in Threads \ disturbed :
          /\ CloseFile(r) /\ pc'[r] = "idle" => file' = copy[r]
          /\ Reload(r) /\ op[r] # "reload" =>
               file' = copy[r] /\ memory' = copy[r]
          /\ Reload(r) /\ file # Torn => memory' = file'
     /\ \A t \in Tasks \ disturbed :
          SaveClose /\ loop = t => ep[t] \in memory' /\ file' = memory'
    ]_configVars

(* "Configuration saved to endpoints.json" (README.md): as long as         *)
(* operations do not overlap and no save fails, the file and the list hold *)
(* every configured sensor, across restarts, reloads and the saves that    *)
(* uplinks and ends of connections cause.  More they hold only of what was *)
(* deleted: delete_sensor leaves the sensor in the list, and the next save *)
(* puts it back in the file.                                               *)
AcceptedConfigurationKept ==
  Active = {} /\ loop = Free /\ ~irregular =>
    /\ file # Torn
    /\ wanted \subseteq file \cap memory
    /\ (file \cup memory) \ wanted \subseteq deleted
=============================================================================
