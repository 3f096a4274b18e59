--------------------------- MODULE MCSensorConfig ---------------------------
(* Model-checking instance of SensorConfig.                                *)
EXTENDS SensorConfig, TLC

(* Sensors, threads and messages are interchangeable (safety only).        *)
Symmetry == Permutations(Sensors) \cup Permutations(Threads)
              \cup Permutations(Tasks)
=============================================================================
