----------------------------- MODULE Heartbeat -----------------------------
(***************************************************************************)
(* Which sensors are online (TLSServer.py): the time of every ulData is    *)
(* kept for each sensor, the last Window of them give its interval, and a  *)
(* monitor marks it offline when it has been silent for four intervals.    *)
(* A ulData is one base station's copy of an uplink: each copy counts.     *)
(*                                                                         *)
(* Times are in units of the monitor's period, and kept as differences: a  *)
(* sensor's stamps as the gaps between them, last_seen as the silence      *)
(* since.  The clock never steps back.                                     *)
(***************************************************************************)
EXTENDS Integers, Sequences, SequencesExt, FiniteSetsExt

CONSTANTS
  Sensors,     (* EUIs                                                     *)
  Every,       (* how often a sensor sends while it is regular             *)
  Late,        (* a silence after which a sensor comes back                *)
  MaxSilence,  (* bound: sensors that are silent longer are not watched    *)
  MaxCopies,   (* bound: base stations that hear an uplink                 *)
  Window,      (* 10: the stamps that are kept                             *)
  Multiplier,  (* HEARTBEAT_OFFLINE_MULTIPLIER = 4                         *)
  DefaultInterval,  (* HEARTBEAT_DEFAULT_INTERVAL                          *)
  MinTimeout   (* 120 seconds                                              *)

ASSUME HeartbeatAssumption ==
  /\ {Every, Late, MaxSilence, MaxCopies, MinTimeout} \subseteq Nat \ {0}
  /\ {Multiplier, DefaultInterval} \subseteq Nat \ {0}
  /\ Every < Late /\ Late < MaxSilence
  /\ Window \in Nat /\ Window >= 2

VARIABLES
  state,    (* sensor -> "unseen", "online", "offline"                     *)
  gaps,     (* sensor -> the gaps between its stamps, oldest first         *)
  silence,  (* sensor -> the time since its last stamp                     *)
  checked,  (* the monitor has run at this time                            *)
  copies    (* history: the copies of the sensor's last uplink             *)

heartbeatVars == <<state, gaps, silence, checked, copies>>

TypeOK ==
  /\ state \in [Sensors -> {"unseen", "online", "offline"}]
  /\ \A s \in Sensors : gaps[s] \in Seq(0 .. MaxSilence)
  /\ \A s \in Sensors : Len(gaps[s]) < Window
  /\ silence \in [Sensors -> 0 .. MaxSilence]
  /\ checked \in BOOLEAN
  /\ copies \in [Sensors -> 0 .. MaxCopies]

Init ==
  /\ state = [s \in Sensors |-> "unseen"]
  /\ gaps = [s \in Sensors |-> <<>>]
  /\ silence = [s \in Sensors |-> 0]
  /\ checked = FALSE
  /\ copies = [s \in Sensors |-> 0]

-----------------------------------------------------------------------------
(***************************************************************************)
(* Stamps                                                                  *)
(***************************************************************************)

(* Mutant: the stamps are never dropped.                                   *)
LatestAll(g) == g

(* The gaps between the last Window stamps.                                *)
Latest(g) ==
  IF Len(g) < Window THEN g ELSE SubSeq(g, Len(g) - Window + 2, Len(g))

Total(g) == FoldSeq(+, 0, g)

(* Mutant: the lower bound of the timeout is taken for an upper one.       *)
OverdueEither(g, t) ==
  IF g = <<>>
  THEN t > DefaultInterval * Multiplier \/ t > MinTimeout
  ELSE t * Len(g) > Total(g) * Multiplier \/ t > MinTimeout

(* Silent for more than max(avg_interval * 4, 120).                        *)
Overdue(g, t) ==
  /\ t > MinTimeout
  /\ IF g = <<>> THEN t > DefaultInterval * Multiplier
                 ELSE t * Len(g) > Total(g) * Multiplier

(* _update_sensor_heartbeat.                                               *)
Stamp(s) ==
  /\ state' = [state EXCEPT ![s] = "online"]
  /\ gaps' = IF state[s] = "unseen" THEN gaps
             ELSE [gaps EXCEPT ![s] = Latest(Append(@, silence[s]))]
  /\ silence' = [silence EXCEPT ![s] = 0]
  /\ UNCHANGED checked

-----------------------------------------------------------------------------
(***************************************************************************)
(* Sensors, the monitor and time                                           *)
(***************************************************************************)

(* A new uplink is heard for the first time.                               *)
Uplink(s) ==
  /\ state[s] # "unseen" => silence[s] \in {Every, Late}
  /\ copies' = [copies EXCEPT ![s] = 1]
  /\ Stamp(s)

(* Another base station has heard it too.                                  *)
Copy(s) ==
  /\ silence[s] = 0
  /\ copies[s] \in 1 .. MaxCopies - 1
  /\ copies' = [copies EXCEPT ![s] = @ + 1]
  /\ Stamp(s)

(* Mutant: a sensor is asked at its timeout, not after it.                 *)
MonitorEarly ==
  /\ ~checked
  /\ checked' = TRUE
  /\ state' = [s \in Sensors |->
                 IF state[s] = "online" /\ Overdue(gaps[s], silence[s] + 1)
                 THEN "offline" ELSE state[s]]
  /\ UNCHANGED <<gaps, silence, copies>>

(* One pass of heartbeat_monitor; nothing in it suspends.                  *)
Monitor ==
  /\ ~checked
  /\ checked' = TRUE
  /\ state' = [s \in Sensors |->
                 IF state[s] = "online" /\ Overdue(gaps[s], silence[s])
                 THEN "offline" ELSE state[s]]
  /\ UNCHANGED <<gaps, silence, copies>>

(* A period passes.                                                        *)
Tick ==
  /\ checked
  /\ checked' = FALSE
  /\ silence' = [s \in Sensors |-> IF state[s] = "unseen" THEN 0
                                   ELSE Min({silence[s] + 1, MaxSilence})]
  /\ UNCHANGED <<state, gaps, copies>>

Next == Monitor \/ Tick \/ \E s \in Sensors : Uplink(s) \/ Copy(s)

Spec == Init /\ [][Next]_heartbeatVars

-----------------------------------------------------------------------------
(***************************************************************************)
(* Properties                                                              *)
(***************************************************************************)

(* A sensor is marked offline only when it has been silent for longer than *)
(* its timeout, and at the latest a period of the monitor after that, over *)
(* any sequence of uplinks, copies and returns that moves the timeout.     *)
StateFollowsSilence ==
  \A s \in Sensors :
    /\ state[s] = "offline" => Overdue(gaps[s], silence[s])
    /\ state[s] = "online" /\ silence[s] > 0 =>
         ~Overdue(gaps[s], silence[s] - 1)

(* A sensor whose kept stamps are those of regular uplinks, each heard by  *)
(* up to MaxCopies base stations, is not marked offline before its next    *)
(* uplink is due, although each further copy makes the interval that is    *)
(* computed shorter.  It takes a full window: the copies of the first      *)
(* uplink alone give an interval of zero.                                  *)
RegularStaysOnline ==
  \A s \in Sensors :
    /\ Len(gaps[s]) = Window - 1
    /\ Range(gaps[s]) \subseteq {0, Every}
    /\ silence[s] <= Every
    => state[s] = "online"
=============================================================================
