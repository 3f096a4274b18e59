---------------------------- MODULE ScaciSession ----------------------------
(***************************************************************************)
(* What the server sends to Application Centers by itself (SCAServer.py):  *)
(* every published uplink (ulData) and every change of a sensor's state    *)
(* (epStat), each in a task of its own that works through the connections, *)
(* and the states of all sensors to a new connection (a burst).            *)
(*                                                                         *)
(* All tasks run in one event loop, in the order they become ready, and    *)
(* keep it until a drain suspends them: on a connection whose transport    *)
(* has paused writing, until it resumes or is lost, and for one turn on a  *)
(* connection that is closing.  A write itself never waits.                *)
(*                                                                         *)
(* Operation ids and _pending_ops are left out: nothing reads them.        *)
(***************************************************************************)
EXTENDS Integers, Sequences, FiniteSets, SequencesExt

CONSTANTS
  Conns,       (* connections of Application Centers, never reused         *)
  Acs,         (* EUIs of Application Centers                              *)
  AcOf,        (* the EUI an Application Center sends on a connection      *)
  Unknown,     (* the EUI "UNKNOWN": no EUI sent, or no con at all         *)
  Eps,         (* endpoints                                                *)
  None,        (* no endpoint, no connection; not seen, nothing told       *)
  MaxUplinks,  (* bound: uplinks published                                 *)
  MaxChanges   (* bound: changes of a sensor's state                       *)

ASSUME SessionAssumption ==
  /\ AcOf \in [Conns -> Acs]
  /\ Unknown \in Acs
  /\ IsFiniteSet(Eps)
  /\ None \notin Eps \cup Conns
  /\ None \notin {"online", "offline"}
  /\ MaxUplinks \in Nat
  /\ MaxChanges \in Nat

VARIABLES
  handler,     (* "open", "answering", "gone": the connection's handle_ac  *)
  connected,   (* connections listed in connected_acs, in order            *)
  registered,  (* ac_registered_eps: EUI -> endpoints                      *)
  closing,     (* connections that are closed or being closed              *)
  paused,      (* connections whose transport has paused writing           *)
  waiting,     (* connection -> the tasks in its drain, in order           *)
  ready,       (* the tasks the event loop will run, in order              *)
  current,     (* the task that runs, in a sequence of at most one         *)
  state,       (* sensor_heartbeat: endpoint -> "online", "offline", None  *)
  uplinks,     (* how many uplinks were published                          *)
  changes,     (* how many changes of state there were                     *)
  got,         (* history: the uplinks written to a connection             *)
  told,        (* history: the last epStat of an endpoint on a connection  *)
  overtaken    (* history: an epStat may have passed an older one          *)

connVars == <<handler, connected, registered>>
taskVars == <<ready, current>>
sensorVars == <<state, uplinks, changes>>
sessionVars == <<connVars, closing, paused, waiting, taskVars, sensorVars, got,
                 told, overtaken>>

States == {"online", "offline"}

(* A task: what it sends, and to whom it still has to.                     *)
Task == [kind : {"ulData", "epStat", "burst"}, ep : Eps \cup {None},
         uplink : 0 .. MaxUplinks, state : States \cup {None},
         conn : Conns \cup {None}, begun : BOOLEAN, todo : Seq(Conns \X Eps)]

TypeOK ==
  /\ handler \in [Conns -> {"open", "answering", "gone"}]
  /\ connected \in Seq({c \in Conns : handler[c] # "gone"})
  /\ IsInjective(connected)
  /\ registered \in [Acs -> SUBSET Eps]
  /\ closing \subseteq Conns
  /\ paused \subseteq Conns
  /\ \A c \in Conns : waiting[c] # <<>> => c \in paused
  /\ \A c \in Conns : waiting[c] \in Seq(Task)
  /\ ready \in Seq(Task)
  /\ current \in Seq(Task) /\ Len(current) <= 1
  /\ state \in [Eps -> States \cup {None}]
  /\ uplinks \in 0 .. MaxUplinks
  /\ changes \in 0 .. MaxChanges
  /\ got \in [Conns -> SUBSET (1 .. MaxUplinks)]
  /\ told \in [Conns -> [Eps -> States \cup {None}]]
  /\ overtaken \in BOOLEAN

Init ==
  /\ handler = [c \in Conns |-> "open"]
  /\ connected = <<>>
  /\ registered = [a \in Acs |-> {}]
  /\ closing = {}
  /\ paused = {}
  /\ waiting = [c \in Conns |-> <<>>]
  /\ ready = <<>>
  /\ current = <<>>
  /\ state = [e \in Eps |-> None]
  /\ uplinks = 0
  /\ changes = 0
  /\ got = [c \in Conns |-> {}]
  /\ told = [c \in Conns |-> [e \in Eps |-> None]]
  /\ overtaken = FALSE

-----------------------------------------------------------------------------
(***************************************************************************)
(* Application Centers                                                     *)
(***************************************************************************)

(* Other code runs when no task does.                                      *)
LoopFree == current = <<>>

(* Where a connection is listed.                                           *)
Place(c) == CHOOSE n \in DOMAIN connected : connected[n] = c

Unfinished ==
  Range(ready \o current) \cup UNION {Range(waiting[c]) : c \in Conns}

(* create_task.                                                            *)
Spawn(t) == ready' = Append(ready, t) /\ UNCHANGED current

NewTask == [kind |-> "burst", ep |-> None, uplink |-> 0, state |-> None,
            conn |-> None, begun |-> FALSE, todo |-> <<>>]

(* con lists the connection and answers, which may wait.  Bound: one con   *)
(* each.                                                                   *)
Con(c) ==
  /\ LoopFree
  /\ handler[c] = "open"
  /\ c \notin Range(connected)
  /\ handler' = [handler EXCEPT ![c] = "answering"]
  /\ connected' = Append(connected, c)
  /\ UNCHANGED <<registered, closing, paused, waiting, taskVars, sensorVars,
                 got, told, overtaken>>

(* The answer is written or has failed; the burst starts either way.       *)
Answered(c) ==
  /\ LoopFree
  /\ handler[c] = "answering"
  /\ handler' = [handler EXCEPT ![c] = "open"]
  /\ Spawn([NewTask EXCEPT !.conn = c])
  /\ UNCHANGED <<connected, registered, closing, paused, waiting, sensorVars,
                 got, told, overtaken>>

(* The EUI that registrations made on a connection are kept under.         *)
Eui(c) == IF c \in Range(connected) THEN AcOf[c] ELSE Unknown

(* reg and dereg need no con before them.                                  *)
Reg(c, e) ==
  /\ LoopFree
  /\ handler[c] = "open"
  /\ registered' = [registered EXCEPT ![Eui(c)] = @ \cup {e}]
  /\ UNCHANGED <<handler, connected, closing, paused, waiting,
                 taskVars, sensorVars, got, told, overtaken>>

Dereg(c, e) ==
  /\ LoopFree
  /\ handler[c] = "open"
  /\ registered' = [registered EXCEPT ![Eui(c)] = @ \ {e}]
  /\ UNCHANGED <<handler, connected, closing, paused, waiting,
                 taskVars, sensorVars, got, told, overtaken>>

(* What was told on a closed connection no longer matters.                 *)
Forget(c) ==
  /\ closing' = closing \cup {c}
  /\ got' = [got EXCEPT ![c] = {}]
  /\ told' = [told EXCEPT ![c] = [e \in Eps |-> None]]

(* The connection breaks, disconnect_ac_by_name closes it, or con is       *)
(* refused for its protocol version.                                       *)
Closes(c) ==
  /\ LoopFree
  /\ handler[c] # "gone"
  /\ Forget(c)
  /\ UNCHANGED <<connVars, paused, waiting, taskVars, sensorVars, overtaken>>

(* Mutant: the connection stays listed.                                    *)
CleanupListed(c) ==
  /\ LoopFree
  /\ handler[c] = "open"
  /\ handler' = [handler EXCEPT ![c] = "gone"]
  /\ Forget(c)
  /\ UNCHANGED <<connected, registered, paused, waiting, taskVars, sensorVars,
                 overtaken>>

(* The handler reads the end of the stream, forgets the connection and     *)
(* closes it; tasks that wait on it go on waiting.                         *)
Cleanup(c) ==
  /\ LoopFree
  /\ handler[c] = "open"
  /\ handler' = [handler EXCEPT ![c] = "gone"]
  /\ connected' = IF c \in Range(connected)
                  THEN RemoveAt(connected, Place(c)) ELSE connected
  /\ registered' = IF c \in Range(connected)
                   THEN [registered EXCEPT ![AcOf[c]] = {}] ELSE registered
  /\ Forget(c)
  /\ overtaken' = (overtaken \/ \E t \in Unfinished :
                     /\ t.kind = "epStat"
                     /\ \/ t \in Range(waiting[c])
                        \/ <<c, t.ep>> \in Range(t.todo))
  /\ UNCHANGED <<paused, waiting, taskVars, sensorVars>>

(* Mutant: those that waited longest wake last.                            *)
ResumesLast(c) ==
  /\ LoopFree
  /\ c \in paused
  /\ paused' = paused \ {c}
  /\ ready' = ready \o Reverse(waiting[c])
  /\ waiting' = [waiting EXCEPT ![c] = <<>>]
  /\ UNCHANGED <<connVars, closing, current, sensorVars, got, told,
                 overtaken>>

(* Writing resumes, or the connection is lost: the drains end in order.    *)
Resumes(c) ==
  /\ LoopFree
  /\ c \in paused
  /\ paused' = paused \ {c}
  /\ ready' = ready \o waiting[c]
  /\ waiting' = [waiting EXCEPT ![c] = <<>>]
  /\ UNCHANGED <<connVars, closing, current, sensorVars, got, told,
                 overtaken>>

-----------------------------------------------------------------------------
(***************************************************************************)
(* What the TLS server tells: uplinks and changes of state                 *)
(***************************************************************************)

Publish(e) ==
  /\ LoopFree
  /\ uplinks < MaxUplinks
  /\ uplinks' = uplinks + 1
  /\ Spawn([NewTask EXCEPT !.kind = "ulData", !.ep = e, !.uplink = uplinks'])
  /\ UNCHANGED <<connVars, closing, paused, waiting, state, changes, got, told,
                 overtaken>>

(* A sensor's first uplink makes it online, and nobody is told.            *)
Appear(e) ==
  /\ LoopFree
  /\ state[e] = None
  /\ state' = [state EXCEPT ![e] = "online"]
  /\ UNCHANGED <<connVars, closing, paused, waiting, taskVars, uplinks,
                 changes, got, told, overtaken>>

(* The task carries the state of its moment.                               *)
Change(e) ==
  /\ LoopFree
  /\ state[e] # None
  /\ changes < MaxChanges
  /\ changes' = changes + 1
  /\ \E s \in States \ {state[e]} :
       /\ state' = [state EXCEPT ![e] = s]
       /\ Spawn([NewTask EXCEPT !.kind = "epStat", !.ep = e, !.state = s])
  /\ UNCHANGED <<connVars, closing, paused, waiting, uplinks, got, told,
                 overtaken>>

-----------------------------------------------------------------------------
(***************************************************************************)
(* The tasks                                                               *)
(***************************************************************************)

(* broadcast_ul_data: the connections that registered the endpoint, or all *)
(* of them if nobody registered anything, by their places.                 *)
Recipients(e) ==
  IF \E a \in Acs : registered[a] # {}
  THEN {n \in DOMAIN connected : e \in registered[AcOf[connected[n]]]}
  ELSE DOMAIN connected

(* The places in S, in order.                                              *)
Ascending(S) ==
  {q \in [1 .. Cardinality(S) -> S] :
     \A m, n \in DOMAIN q : m < n => q[m] < q[n]}

(* What a task sets out to do when it first runs.  Only a burst has a      *)
(* choice: the order in which the sensors were first seen.                 *)
Todo(t) ==
  CASE t.kind = "ulData" ->
         {[n \in DOMAIN q |-> <<connected[q[n]], t.ep>>] :
            q \in Ascending(Recipients(t.ep))}
    [] t.kind = "epStat" ->
         {[n \in DOMAIN connected |-> <<connected[n], t.ep>>]}
    [] OTHER ->
         {[n \in DOMAIN q |-> <<t.conn, q[n]>>] :
            q \in SetToSeqs({e \in Eps : state[e] # None})}

(* A task that has something left to send, none otherwise.                 *)
Left(t) == IF t.todo = <<>> THEN <<>> ELSE <<t>>

Sent(t) == Left([t EXCEPT !.todo = Tail(@)])

(* Task t runs before a task u of the same sensor that has less to do: u   *)
(* is the older one.                                                       *)
Overtakes(t, u) ==
  /\ t.kind = "epStat" /\ u.kind = "epStat" /\ t.ep = u.ep
  /\ u.begun
  /\ ~t.begun \/ Len(u.todo) < Len(t.todo)

(* The event loop takes the next task.                                     *)
RunNext ==
  /\ LoopFree
  /\ ready # <<>>
  /\ ready' = Tail(ready)
  /\ LET t == Head(ready)
     IN  /\ IF t.begun THEN current' = <<t>>
            ELSE \E q \in Todo(t) :
                   current' = Left([t EXCEPT !.begun = TRUE, !.todo = q])
         /\ overtaken' =
              (overtaken \/ \E u \in Range(ready') : Overtakes(t, u))
  /\ UNCHANGED <<connVars, closing, paused, waiting, sensorVars, got, told>>

(* The message of a task is written; a burst reads the live state.         *)
Written(t, c, e) ==
  IF t.kind = "ulData"
  THEN /\ got' = [got EXCEPT ![c] = @ \cup {t.uplink}]
       /\ UNCHANGED told
  ELSE /\ told' = [told EXCEPT ![c][e] =
                     IF t.kind = "burst" THEN state[e] ELSE t.state]
       /\ UNCHANGED got

(* Mutant: the error of a closed connection ends the task.                 *)
SendClosedRaises(t, c) ==
  /\ c \in closing
  /\ current' = <<>>
  /\ UNCHANGED <<paused, waiting, ready, got, told>>

(* _send on a connection that is closing: nothing is written, the drain    *)
(* waits as long as writing is paused, and for one turn otherwise; its     *)
(* exception is logged.                                                    *)
SendClosed(t, c) ==
  /\ c \in closing
  /\ current' = <<>>
  /\ IF c \in paused
     THEN /\ waiting' = [waiting EXCEPT ![c] = @ \o Sent(t)]
          /\ UNCHANGED ready
     ELSE /\ ready' = ready \o Sent(t)
          /\ UNCHANGED waiting
  /\ UNCHANGED <<paused, got, told>>

(* _send on a connection whose buffer is full, or is after this message.   *)
SendWaits(t, c) ==
  /\ c \notin closing
  /\ Written(t, c, Head(t.todo)[2])
  /\ paused' = paused \cup {c}
  /\ waiting' = [waiting EXCEPT ![c] = @ \o Sent(t)]
  /\ current' = <<>>
  /\ UNCHANGED ready

(* _send that does not suspend.                                            *)
SendOn(t, c) ==
  /\ c \notin closing \cup paused
  /\ Written(t, c, Head(t.todo)[2])
  /\ current' = Sent(t)
  /\ UNCHANGED <<paused, waiting, ready>>

(* The running task sends its next message.                                *)
Send ==
  /\ current # <<>>
  /\ LET t == Head(current)
         c == Head(t.todo)[1]
     IN  SendClosed(t, c) \/ SendWaits(t, c) \/ SendOn(t, c)
  /\ UNCHANGED <<connVars, closing, sensorVars, overtaken>>

-----------------------------------------------------------------------------
(* The event loop's own steps.                                             *)
RunTasks == RunNext \/ Send

ApplicationCenter(c) ==
  \/ Con(c) \/ Answered(c) \/ Closes(c) \/ Cleanup(c) \/ Resumes(c)
  \/ \E e \in Eps : Reg(c, e) \/ Dereg(c, e)

Next ==
  \/ RunTasks
  \/ \E c \in Conns : ApplicationCenter(c)
  \/ \E e \in Eps : Publish(e) \/ Appear(e) \/ Change(e)

Spec == Init /\ [][Next]_sessionVars

(* The event loop runs its tasks, and a paused connection resumes or is    *)
(* lost.  The code has no time limit of its own: this is an assumption     *)
(* about the network.                                                      *)
FairSpec ==
  /\ Spec
  /\ WF_sessionVars(RunTasks)
  /\ \A c \in Conns : WF_sessionVars(Resumes(c))

-----------------------------------------------------------------------------
(***************************************************************************)
(* Properties                                                              *)
(***************************************************************************)

Quiet == Unfinished = {} /\ \A c \in Conns : handler[c] # "answering"

(* When nothing is under way, the last epStat an Application Center has    *)
(* read of each sensor is the sensor's state, although the tasks of        *)
(* several changes and a burst may be spread over the connections at once: *)
(* all of them visit the connections in the same order and wake in the     *)
(* order they came.  That fails when a connection is cleaned up that tasks *)
(* wait on or have still to visit, since newer tasks then no longer queue  *)
(* behind them, or when the event loop runs a newer task before an older   *)
(* one that it woke later.  Of a sensor's first uplink nobody is told.     *)
ToldIsCurrent ==
  Quiet /\ ~overtaken =>
    \A c \in Range(connected) \ closing, e \in Eps :
      told[c][e] # state[e] => told[c][e] = None /\ state[e] = "online"

Targets(n) ==
  {c \in Conns : \E t \in Unfinished :
     t.uplink = n /\ \E e \in Eps : <<c, e>> \in Range(t.todo)}

(* An uplink reaches every connection it was to go to, unless that one     *)
(* closes, however slow or broken those before it are.                     *)
UplinksDelivered ==
  \A n \in 1 .. MaxUplinks, c \in Conns :
    c \in Targets(n) ~> n \in got[c] \/ c \in closing
=============================================================================
