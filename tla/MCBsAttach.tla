----------------------------- MODULE MCBsAttach -----------------------------
(* Model-checking instances of BsAttach: the sensor of the file, one that  *)
(* other tasks request and configure, and one of theirs whose requests     *)
(* fail the format checks.                                                 *)
EXTENDS BsAttach, TLC

CONSTANTS s1, s2, s3

MCSensors == {s1, s2, s3}
MCFiles == {<<s1>>}
MCOthers == {s2, s3}
MCMixupFiles == {<<s3, s1, s2>>}
MCMalformed == {s3}

(* Bound: a station shakes hands once per connection, and no sender works  *)
(* on a connection that is not listed.  BsSession explores both.           *)
OneHandshake ==
  \A w \in Writers :
    /\ w \in established => connecting[w] = None
    /\ connected[w] = None => opIds[w] = -1

(* Bound: one request of another task is under way at a time, one          *)
(* connection is closed or lost at a time, and the status cycle runs while *)
(* no request is under way.                                                *)
OneAtATime ==
  /\ OneHandshake
  /\ \E v \in Writers : \A w \in Writers \ {v} :
       sending[w] = <<>> /\ Len(sending[v]) <= 1
  /\ \E v \in Writers : \A w \in Writers \ {v} :
       transport[w] \in {"none", "open"}
  /\ statusPc = "cycle" =>
       \A w \in Writers : draining[w] = 0 /\ sending[w] = <<>>

(* Bound: the configuration differs from the file only on a healthy first  *)
(* connection, outside the status cycle and the requests of other tasks,   *)
(* by being empty or by one more sensor, which a batch has on its list.    *)
OneChange ==
  config \notin Files =>
    /\ Len(config) \in {0, 2}
    /\ statusPc # "cycle"
    /\ \E v \in Writers :
         /\ connected[v] # None
         /\ config = <<>> \/ batch[v] = config
         /\ sending[v] = <<>> /\ transport[v] = "open"
         /\ \A w \in Writers \ {v} : pc[w] = "idle"

(* Bound: a reload finds a list that differs from the file.                *)
ReloadsChange ==
  UNCHANGED <<sessionVars, config>> =>
    \A s \in Sensors : registered[s] \subseteq registered'[s]

(* Restriction: no connection is lost or closed.                           *)
HealthyConnections ==
  OneHandshake /\ \A w \in Writers : transport[w] \in {"none", "open"}

(* Connections and stations are interchangeable.                           *)
Symmetry == Permutations(Writers) \cup Permutations(Stations)
=============================================================================
