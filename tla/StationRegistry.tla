--------------------------- MODULE StationRegistry ---------------------------
(***************************************************************************)
(* What the service center promises about base-station sessions and the    *)
(* sensors recorded as attached, without connections, operation ids or     *)
(* pending requests: a station has at most one session, a session starts   *)
(* with no sensor recorded, sensors are recorded only while there is one,  *)
(* and a station loses them with its own session, or together with all     *)
(* other stations when sensors leave the configuration.                    *)
(* BsAttach implements it.                                                 *)
(***************************************************************************)
CONSTANTS Stations, Sessions, Sensors, None

VARIABLES
  session,   (* the session of a station, or None                          *)
  attached   (* the sensors recorded as attached to a station              *)

registryVars == <<session, attached>>

Init ==
  /\ session = [b \in Stations |-> None]
  /\ attached = [b \in Stations |-> {}]

(* A connection no station uses becomes the session of b, which may have   *)
(* had another; b starts with nothing attached.                            *)
Establish(b, w) ==
  /\ \A other \in Stations : session[other] # w
  /\ session' = [session EXCEPT ![b] = w]
  /\ attached' = [attached EXCEPT ![b] = {}]

(* The session ends and its records go with it.                            *)
Disconnect(b) ==
  /\ session[b] # None
  /\ session' = [session EXCEPT ![b] = None]
  /\ attached' = [attached EXCEPT ![b] = {}]

(* The session ends by eviction: the records stay until the next session.  *)
Evict(b) ==
  /\ session[b] # None
  /\ session' = [session EXCEPT ![b] = None]
  /\ UNCHANGED attached

Record(b, s) ==
  /\ session[b] # None
  /\ attached' = [attached EXCEPT ![b] = @ \cup {s}]
  /\ UNCHANGED session

(* The sensors are removed from the configuration.                         *)
Remove(removed) ==
  /\ UNCHANGED session
  /\ attached' = [b \in Stations |-> attached[b] \ removed]

Next ==
  \/ \E removed \in SUBSET Sensors : Remove(removed)
  \/ \E b \in Stations :
       \/ \E w \in Sessions : Establish(b, w)
       \/ Disconnect(b)
       \/ Evict(b)
       \/ \E s \in Sensors : Record(b, s)

Spec == Init /\ [][Next]_registryVars
=============================================================================
