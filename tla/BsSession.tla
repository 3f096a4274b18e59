------------------------------ MODULE BsSession ------------------------------
(***************************************************************************)
(* Connection bookkeeping of the BSSCI server (TLSServer.py): the handler  *)
(* coroutine each base-station connection gets, the con / conCmp handshake *)
(* that turns it into the session of a base station and replaces an older  *)
(* one of the same EUI, the periodic status loop that evicts dead          *)
(* connections, and the cleanup in the handler's finally block.            *)
(*                                                                         *)
(* A writer is an asyncio StreamWriter object: one per accepted TLS        *)
(* connection, never reused.  All handlers and the status loop are tasks   *)
(* of one event loop, so a step is the code between two awaits that can    *)
(* suspend.                                                                *)
(***************************************************************************)
EXTENDS Integers, FiniteSets

CONSTANTS
  Writers,    (* the connections the server ever accepts                   *)
  Stations,   (* base-station EUIs                                         *)
  None,       (* no station, no writer; as a dict default: no entry        *)
  Threshold,  (* BS_STATUS_FAILURE_THRESHOLD                               *)
  MaxOps      (* bound: operation ids below -MaxOps are not distinguished  *)

ASSUME NoneAssumption == None \notin Stations /\ None \notin Writers
ASSUME ThresholdAssumption == Threshold \in Nat \ {0}
ASSUME MaxOpsAssumption == MaxOps \in Nat \ {0}

VARIABLES
  transport,    (* "none" before accept, then "open", "closing", "lost"    *)
  pc,           (* where the handler coroutine of a connection is          *)
  connecting,   (* connecting_base_stations: writer -> EUI                 *)
  connected,    (* connected_base_stations: writer -> EUI                  *)
  opIds,        (* what bs_op_ids.get(writer, -1) returns                  *)
  versions,     (* writers with an entry in bs_protocol_versions           *)
  correlation,  (* writers with an entry in connection_correlation_ids     *)
  failures,     (* what bs_status_failures.get(writer, 0) returns          *)
  statusPc,     (* the status task: "off", "sleep" or in a "cycle"         *)
  todo,         (* rest of the cycle's snapshot current_writers            *)
  current,      (* the writer whose drain the status task awaits           *)
  established   (* history: writers whose conCmp opened a session          *)

tables == <<connecting, connected, opIds, versions, correlation, failures>>
status == <<statusPc, todo, current>>
sessionVars ==
  <<transport, pc, connecting, connected, opIds, versions, correlation,
    failures, statusPc, todo, current, established>>

Phases == {"idle", "read", "attach", "finally", "exited", "aborted"}

TypeOK ==
  /\ transport \in [Writers -> {"none", "open", "closing", "lost"}]
  /\ pc \in [Writers -> Phases]
  /\ connecting \in [Writers -> Stations \cup {None}]
  /\ connected \in [Writers -> Stations \cup {None}]
  /\ opIds \in [Writers -> Int]
  /\ versions \subseteq Writers
  /\ correlation \subseteq Writers
  /\ failures \in [Writers -> 0 .. Threshold - 1]
  /\ statusPc \in {"off", "sleep", "cycle"}
  /\ todo \subseteq Writers
  /\ current \in Writers \cup {None}
  /\ established \subseteq Writers

Init ==
  /\ transport = [w \in Writers |-> "none"]
  /\ pc = [w \in Writers |-> "idle"]
  /\ connecting = [w \in Writers |-> None]
  /\ connected = [w \in Writers |-> None]
  /\ opIds = [w \in Writers |-> -1]
  /\ versions = {}
  /\ correlation = {}
  /\ failures = [w \in Writers |-> 0]
  /\ statusPc = "off"
  /\ todo = {}
  /\ current = None
  /\ established = {}

-----------------------------------------------------------------------------
(***************************************************************************)
(* Helpers                                                                 *)
(***************************************************************************)

(* A dict without the entries of the writers in ws.                        *)
Popped(f, ws, absent) == [w \in Writers |-> IF w \in ws THEN absent ELSE f[w]]

(* Mutant: nothing is closed.                                              *)
ClosedNothing(ws) == transport

(* StreamWriter.close() on every writer of ws; a lost one stays lost.      *)
Closed(ws) ==
  [w \in Writers |-> IF w \in ws /\ transport[w] = "open"
                     THEN "closing" ELSE transport[w]]

(* _get_next_op_id: hand out the stored id and store the next lower one.   *)
OpIdTaken(ids, w) == [ids EXCEPT ![w] = IF @ > -MaxOps THEN @ - 1 ELSE @]

TakeOpId(w) == opIds' = OpIdTaken(opIds, w)

(* Mutant: the search for older connections finds none.                    *)
NoOldWriters(b) == {}

(* The connections a conCmp for station b supersedes.                      *)
OldWriters(b) == {w \in Writers : connected[w] = b}

(* Mutant: the "not writer_connected" half of the test is missing.         *)
EstablishesAlways(w) == connecting[w] # None

(* The test that guards the establishing branch of conCmp.                 *)
Establishes(w) == connecting[w] # None /\ connected[w] = None

-----------------------------------------------------------------------------
(***************************************************************************)
(* The connection handler                                                  *)
(***************************************************************************)

(* The TLS handshake is done and asyncio starts handle_client.             *)
Accept(w) ==
  /\ pc[w] = "idle"
  /\ pc' = [pc EXCEPT ![w] = "read"]
  /\ transport' = [transport EXCEPT ![w] = "open"]
  /\ UNCHANGED <<tables, status, established>>

(* "con" naming EUI b: answer conRsp, remember the handshake.  On a lost   *)
(* connection the drain raises instead and the handler exits.              *)
Con(w, b) ==
  /\ pc[w] = "read"
  /\ transport[w] # "lost"
  /\ connecting' = [connecting EXCEPT ![w] = b]
  /\ correlation' = correlation \cup {w}
  /\ versions' = versions \cup {w}
  /\ UNCHANGED <<transport, pc, connected, opIds, failures, status,
                 established>>

(* "conCmp" that opens the session: every older connection of the same EUI *)
(* is closed and forgotten before this one is entered; then the handler is *)
(* inside attach_file.  No await lies between the pops and the insertion.  *)
ConCmpEstablish(w) ==
  LET b   == connecting[w]
      old == OldWriters(b)
  IN  /\ pc[w] = "read"
      /\ Establishes(w)
      /\ transport' = Closed(old)
      /\ connecting' = Popped(connecting, old \cup {w}, None)
      /\ connected' = [Popped(connected, old, None) EXCEPT ![w] = b]
      /\ opIds' = Popped(opIds, old \cup {w}, -1)
      /\ versions' = versions \ old
      /\ correlation' = correlation \cup {w}
      /\ pc' = [pc EXCEPT ![w] = "attach"]
      /\ established' = established \cup {w}
      /\ UNCHANGED <<failures, status>>

(* "conCmp" without a preceding con, or on an established session: only    *)
(* the connecting entry goes.                                              *)
ConCmpIgnored(w) ==
  /\ pc[w] = "read"
  /\ ~Establishes(w)
  /\ connecting' = [connecting EXCEPT ![w] = None]
  /\ UNCHANGED <<transport, pc, connected, opIds, versions, correlation,
                 failures, status, established>>

(* Mutant: the task is never started.                                      *)
StatusTaskNotStarted == statusPc' = statusPc

StartStatusTask == statusPc' = IF statusPc = "off" THEN "sleep" ELSE statusPc

(* attach_file returned; the status task is started unless one runs.       *)
AttachDone(w) ==
  /\ pc[w] = "attach"
  /\ pc' = [pc EXCEPT ![w] = "read"]
  /\ StartStatusTask
  /\ UNCHANGED <<transport, tables, todo, current, established>>

(* A sender takes an operation id for a writer it read from the table of   *)
(* connections (attach, detach and VM requests).  Several senders iterate  *)
(* over a snapshot, so after the drain for another connection of it the    *)
(* writer may be superseded or gone.                                       *)
Request(w) ==
  /\ w \in established
  /\ connected[w] # None \/ established # {w}
  /\ TakeOpId(w)
  /\ UNCHANGED <<transport, pc, connecting, connected, versions, correlation,
                 failures, status, established>>

(* The read loop ends: end of stream, a connection error, or an exception  *)
(* in a message handler (connected_base_stations[writer] of a writer that  *)
(* is no longer listed).  The finally block closes and awaits the close.   *)
HandlerExit(w) ==
  /\ pc[w] = "read"
  /\ pc' = [pc EXCEPT ![w] = "finally"]
  /\ transport' = Closed({w})
  /\ UNCHANGED <<tables, status, established>>

(* Mutant: a connection that is no longer listed is not cleaned up.        *)
CleanupListedOnly(w) ==
  /\ pc[w] = "finally"
  /\ transport[w] = "lost"
  /\ pc' = [pc EXCEPT ![w] = "exited"]
  /\ IF connected[w] # None
     THEN /\ connected' = Popped(connected, {w}, None)
          /\ connecting' = Popped(connecting, {w}, None)
          /\ correlation' = correlation \ {w}
          /\ failures' = Popped(failures, {w}, 0)
          /\ opIds' = Popped(opIds, {w}, -1)
          /\ versions' = versions \ {w}
     ELSE UNCHANGED tables
  /\ UNCHANGED <<transport, status, established>>

(* wait_closed returned: drop every table entry of the connection.         *)
Cleanup(w) ==
  /\ pc[w] = "finally"
  /\ transport[w] = "lost"
  /\ pc' = [pc EXCEPT ![w] = "exited"]
  /\ connected' = Popped(connected, {w}, None)
  /\ connecting' = Popped(connecting, {w}, None)
  /\ correlation' = correlation \ {w}
  /\ failures' = Popped(failures, {w}, 0)
  /\ opIds' = Popped(opIds, {w}, -1)
  /\ versions' = versions \ {w}
  /\ UNCHANGED <<transport, status, established>>

(* wait_closed raised the error the connection was lost with: the rest of  *)
(* the finally block does not run.                                         *)
WaitClosedRaises(w) ==
  /\ pc[w] = "finally"
  /\ transport[w] = "lost"
  /\ pc' = [pc EXCEPT ![w] = "aborted"]
  /\ UNCHANGED <<transport, tables, status, established>>

-----------------------------------------------------------------------------
(***************************************************************************)
(* The status task                                                         *)
(***************************************************************************)

(* Write a status request to a writer of rest and await its drain, or end  *)
(* the cycle when none is left.  ids is the table of operation ids so far; *)
(* the dict order is left open.                                            *)
SendNext(rest, ids) ==
  \/ /\ rest = {}
     /\ statusPc' = "sleep"
     /\ todo' = {}
     /\ current' = None
     /\ opIds' = ids
  \/ \E w \in rest :
       /\ statusPc' = "cycle"
       /\ todo' = rest \ {w}
       /\ current' = w
       /\ opIds' = OpIdTaken(ids, w)

(* The interval elapsed with a connection listed: the cycle works through  *)
(* a snapshot of the table.                                                *)
StatusWake ==
  /\ statusPc = "sleep"
  /\ \E w \in Writers : connected[w] # None
  /\ SendNext({w \in Writers : connected[w] # None}, opIds)
  /\ UNCHANGED <<transport, pc, connecting, connected, versions, correlation,
                 failures, established>>

(* The drain returned: the failure count starts over.                      *)
StatusSent(w) ==
  /\ current = w
  /\ transport[w] # "lost"
  /\ failures' = [failures EXCEPT ![w] = 0]
  /\ SendNext(todo, opIds)
  /\ UNCHANGED <<transport, pc, connecting, connected, versions, correlation,
                 established>>

(* Mutant: the failure is not counted.                                     *)
FailCountStuck(w) == failures[w]

FailCount(w) == failures[w] + 1

(* Mutant: off by one, evicts only past the threshold.                     *)
StatusFailedLate(w) ==
  /\ current = w
  /\ transport[w] = "lost"
  /\ FailCount(w) <= Threshold
  /\ failures' = [failures EXCEPT ![w] = FailCount(w)]
  /\ SendNext(todo, opIds)
  /\ UNCHANGED <<transport, pc, connecting, connected, versions, correlation,
                 established>>

(* The drain raised, below the threshold: only count.                      *)
StatusFailed(w) ==
  /\ current = w
  /\ transport[w] = "lost"
  /\ FailCount(w) < Threshold
  /\ failures' = [failures EXCEPT ![w] = FailCount(w)]
  /\ SendNext(todo, opIds)
  /\ UNCHANGED <<transport, pc, connecting, connected, versions, correlation,
                 established>>

(* The drain raised for the Threshold-th time in a row: evict.  The        *)
(* connecting entry and the correlation id stay.                           *)
StatusEvict(w) ==
  /\ current = w
  /\ transport[w] = "lost"
  /\ FailCount(w) >= Threshold
  /\ connected' = Popped(connected, {w}, None)
  /\ failures' = Popped(failures, {w}, 0)
  /\ versions' = versions \ {w}
  /\ transport' = Closed({w})
  /\ SendNext(todo, Popped(opIds, {w}, -1))
  /\ UNCHANGED <<pc, connecting, correlation, established>>

(* connection_lost: the peer, the network, or the end of a close.          *)
ConnectionLost(w) ==
  /\ transport[w] \in {"open", "closing"}
  /\ transport' = [transport EXCEPT ![w] = "lost"]
  /\ UNCHANGED <<pc, tables, status, established>>

-----------------------------------------------------------------------------
Handler(w) ==
  \/ Accept(w)
  \/ \E b \in Stations : Con(w, b)
  \/ ConCmpEstablish(w)
  \/ ConCmpIgnored(w)
  \/ AttachDone(w)
  \/ Request(w)
  \/ HandlerExit(w)
  \/ Cleanup(w)
  \/ WaitClosedRaises(w)
  \/ ConnectionLost(w)

StatusTask ==
  \/ StatusWake
  \/ \E w \in Writers : StatusSent(w) \/ StatusFailed(w) \/ StatusEvict(w)

Next == StatusTask \/ \E w \in Writers : Handler(w)

Spec == Init /\ [][Next]_sessionVars

(* Mutant: the handler notices the end of the stream only while listed.    *)
ReadEofListed(w) ==
  transport[w] = "lost" /\ connected[w] # None /\ HandlerExit(w)

(* At end of stream reader.read returns b"" or raises; it does not hang.   *)
ReadEof(w) == transport[w] = "lost" /\ HandlerExit(w)

(* Fairness: the event loop runs every task that is ready, a close that    *)
(* was begun completes (asyncio's ssl shutdown timeout), attach_file ends. *)
(* Peers and the loss of an open connection are not fair.                  *)
Fairness ==
  /\ WF_sessionVars(StatusTask)
  /\ \A w \in Writers :
       /\ WF_sessionVars(transport[w] = "closing" /\ ConnectionLost(w))
       /\ WF_sessionVars(ReadEof(w))
       /\ WF_sessionVars(AttachDone(w))
       /\ WF_sessionVars(Cleanup(w) \/ WaitClosedRaises(w))

FairSpec == Spec /\ Fairness

-----------------------------------------------------------------------------
(***************************************************************************)
(* Properties                                                              *)
(***************************************************************************)

(* A base station has at most one listed connection, whatever the order in *)
(* which reconnects, evictions and cleanups of its connections interleave  *)
(* (conCmp's duplicate replacement, TLSServer.py:1143-1175).               *)
OneConnectionPerStation ==
  \A v, w \in Writers :
    connected[v] # None /\ connected[v] = connected[w] => v = w

(* A base station whose connection is open and whose handshake is done is  *)
(* always listed: replacement and eviction never forget a connection       *)
(* without closing it, so no base station talks to a server that ignores   *)
(* it.                                                                     *)
OpenSessionIsListed ==
  \A w \in established : transport[w] = "open" => connected[w] # None

(* Once a connection is past its batch attach the status task runs, so     *)
(* every listed connection is under its watch (TLSServer.py:1225-1238).    *)
StatusTaskWatchesSessions ==
  \A w \in Writers :
    connected[w] # None /\ pc[w] # "attach" => statusPc # "off"

(* A handler that ran its finally block to the end has taken its           *)
(* connection out of the tables of connections, versions and correlation   *)
(* ids for good, also when it was superseded or evicted before             *)
(* (TLSServer.py:2218-2249).  The failure count it drops as well can come  *)
(* back only once and as 1, from a status cycle that still had the         *)
(* connection in its snapshot: no later cycle counts it up to an eviction. *)
(* Nothing is said of bs_op_ids, which the block drops too: every sender   *)
(* that walks a snapshot may enter the connection again (SendNext,         *)
(* Request).                                                               *)
CleanExitForgets ==
  \A w \in Writers : pc[w] = "exited" =>
    /\ connected[w] = None
    /\ connecting[w] = None
    /\ w \notin correlation \cup versions
    /\ failures[w] \in {0, 1}
    /\ failures[w] = 1 => w \notin todo \cup {current}

(* While a connection stays listed its operation-id counter only descends: *)
(* nothing restarts it at -1, so the base station never sees an id twice   *)
(* in a session (error 22 of replit.md v1.677).                            *)
OpIdsOnlyDescend ==
  [][\A w \in Writers :
       connected[w] # None /\ connected'[w] # None => opIds'[w] <= opIds[w]
    ]_sessionVars

(* A connection left in the table because wait_closed raised is evicted by *)
(* the status task in the end: its sends fail Threshold times in a row.    *)
StaleConnectionsEvicted ==
  \A w \in Writers : pc[w] = "aborted" ~> connected[w] = None

(* The handler of a connection the server closed (superseded, evicted)     *)
(* always terminates.                                                      *)
ClosedHandlersEnd ==
  \A w \in Writers :
    transport[w] = "closing" ~> pc[w] \in {"exited", "aborted"}
=============================================================================
