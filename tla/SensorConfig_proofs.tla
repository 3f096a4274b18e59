------------------------ MODULE SensorConfig_proofs ------------------------
(***************************************************************************)
(* Theorems about the configured sensors, for any number of sensors,       *)
(* request threads, messages and base stations: types, that an operation   *)
(* nothing interferes with does what it says (an action property), and     *)
(* that without overlaps and failed saves no accepted configuration is     *)
(* lost.                                                                   *)
(*                                                                         *)
(* The inductive invariant relates the file, the list and the copies the   *)
(* requests work on to the history, at every point of every operation: for *)
(* all of them while the history is regular, and for each of them while it *)
(* is undisturbed.                                                         *)
(***************************************************************************)
EXTENDS SensorConfig, TLAPS

(* A thread that has written the file and has not updated the list yet.    *)
Lagging(r) == pc[r] = "reload" /\ op[r] # "reload"

(* A set holds what is configured, and more only of what was deleted.      *)
Fits(S) == wanted \subseteq S /\ S \ wanted \subseteq deleted

(* What a request makes of the file it has read.                           *)
Made(r) ==
  CASE op[r] = "delete" -> file \ eps[r]
    [] op[r] = "clear"  -> {}
    [] OTHER            -> file \cup eps[r]

(* Which sensors count as deleted once a request has written.              *)
Gone(r) ==
  IF op[r] = "delete" THEN deleted \cup eps[r] ELSE deleted \ eps[r]

(* The sensors of the messages that are being saved.                       *)
BeingSaved == {ep[t] : t \in {u \in Tasks : taskPc[u] = "saving"}}

(* Who has the file open, and what the routes leave in a thread.           *)
Structure ==
  /\ \A r \in Threads : r \in open <=> pc[r] = "close"
  /\ \A t \in Tasks : taskPc[t] = "saving" <=> loop = t
  /\ open \ Threads \subseteq {loop}
  /\ \A t \in Tasks : taskPc[t] # "idle" => ep[t] \in Sensors
  /\ \A r \in Threads :
       /\ pc[r] \in {"open", "close"} => op[r] \in {"add", "delete", "clear"}
       /\ pc[r] = "reload" => op[r] \in {"add", "clear", "reload"}
       /\ op[r] = "clear" => copy[r] = {} /\ eps[r] = {}

(* What holds while operations do not overlap and no save fails.           *)
Regular ==
  /\ clash = {}
  /\ open = {} => file # Torn /\ Fits(file)
  /\ (\A r \in Threads : ~Lagging(r)) =>
       /\ wanted \subseteq memory
       /\ memory \ wanted \subseteq deleted \cup BeingSaved
  /\ \A r \in Threads :
       /\ pc[r] = "open" /\ open = {} => copy[r] = Made(r)
       /\ pc[r] = "close" =>
            /\ Configured(r) \subseteq copy[r]
            /\ copy[r] \ Configured(r) \subseteq Gone(r)
       /\ pc[r] = "reload" /\ op[r] = "clear" => file = {}
  /\ \A t \in Tasks : taskPc[t] = "saving" => ep[t] \in memory

(* While nothing interferes with an operation.                             *)
UndisturbedInv ==
  /\ clash \subseteq disturbed \cup {Path}
  /\ \A r \in Threads \ disturbed : Lagging(r) => file = copy[r]
  /\ \A t \in Tasks \ disturbed : taskPc[t] = "saving" => ep[t] \in memory

(* The inductive invariant.                                                *)
ConfigInv ==
  TypeOK /\ Structure /\ (~irregular => Regular) /\ UndisturbedInv

-----------------------------------------------------------------------------

(* A reader of the file gets a set of sensors.                             *)
LEMMA ReadTyped ==
  ASSUME TypeOK
  PROVE  Read(file) \subseteq Sensors
  BY DEF TypeOK, Read

(* While all is regular, whoever touches the file or the list is the only  *)
(* operation under way, and the only one that has the file open.           *)
LEMMA RegularTouch ==
  ASSUME NEW x, NEW E, Touches(x, E), ~irregular'
  PROVE  ~irregular /\ Active \subseteq {x} /\ open \subseteq {x}
  BY DEF Touches

(* While all is regular, the history takes what it is given.               *)
LEMMA RegularRecord ==
  ASSUME NEW c, NEW g, Records(c, g), ~irregular'
  PROVE  wanted' = c /\ deleted' = g
  BY DEF Records

(* The history keeps its types.                                            *)
LEMMA HistoryTyped ==
  ASSUME TypeOK, NEW x, NEW E, Touches(x, E),
         NEW c \in SUBSET Sensors, NEW g \in SUBSET Sensors, Records(c, g)
  PROVE  wanted' \subseteq Sensors /\ deleted' \subseteq Sensors
         /\ irregular' \in BOOLEAN
<1>1. irregular' \in BOOLEAN
  BY DEF Touches
<1>2. wanted' \subseteq Sensors /\ deleted' \subseteq Sensors
  BY DEF Records
<1> QED
  BY <1>1, <1>2

(* A request that begins: its copy is what the route makes of the file it  *)
(* reads, unless the file is open and the request counts as disturbed.     *)
LEMMA BeginKeeps ==
  ASSUME ConfigInv, NEW r \in Threads, NEW route \in Routes,
         NEW S \in SUBSET Sensors, NEW content \in SUBSET Sensors,
         NEW next \in {"open", "reload"}, Begin(r, route, S, content, next),
         next = "open" => route \in {"add", "delete", "clear"},
         next = "reload" => route = "reload",
         route = "clear" => S = {} /\ content = {},
         next = "open" =>
           content = CASE route = "delete" -> Read(file) \ S
                       [] route = "clear"  -> {}
                       [] OTHER            -> Read(file) \cup S
  PROVE  ConfigInv'
<1>1. TypeOK /\ Structure /\ (~irregular => Regular) /\ UndisturbedInv
  BY DEF ConfigInv
<1>2. /\ pc[r] = "idle"
      /\ pc' = [pc EXCEPT ![r] = next]
      /\ op' = [op EXCEPT ![r] = route]
      /\ eps' = [eps EXCEPT ![r] = S]
      /\ copy' = [copy EXCEPT ![r] = content]
      /\ disturbed' = IF open = {} THEN disturbed ELSE disturbed \cup {r}
  BY DEF Begin
<1>3. /\ file' = file /\ memory' = memory /\ open' = open /\ clash' = clash
      /\ taskPc' = taskPc /\ ep' = ep /\ left' = left /\ size' = size
      /\ changed' = changed /\ loop' = loop /\ stations' = stations
      /\ registered' = registered /\ wanted' = wanted /\ deleted' = deleted
      /\ irregular' = irregular
  BY DEF Begin, storeVars, taskVars, stationVars
<1>4. /\ pc'[r] = next /\ op'[r] = route /\ eps'[r] = S /\ copy'[r] = content
      /\ \A q \in Threads : q # r =>
           /\ pc'[q] = pc[q] /\ op'[q] = op[q] /\ eps'[q] = eps[q]
           /\ copy'[q] = copy[q]
  BY <1>1, <1>2 DEF TypeOK
<1>5. TypeOK'
  <2>1. disturbed' \subseteq Active'
    <3>1. Active \subseteq Active' /\ r \in Active'
      BY <1>2, <1>3, <1>4 DEF Active, Running, Processing
    <3> QED
      BY <1>1, <1>2, <3>1 DEF TypeOK
  <2> QED
    BY <1>1, <1>2, <1>3, <2>1 DEF TypeOK
<1>6. Structure'
  BY <1>1, <1>2, <1>3, <1>4 DEF Structure
<1>7. ASSUME ~irregular' PROVE Regular'
  <2>1. Regular
    BY <1>1, <1>3, <1>7
  <2>2. \A q \in Threads : Lagging(q)' <=> Lagging(q)
    BY <1>2, <1>4 DEF Lagging
  <2>3. BeingSaved' = BeingSaved
    BY <1>3 DEF BeingSaved
  <2>4. ASSUME NEW q \in Threads, q # r
        PROVE  /\ Made(q)' = Made(q) /\ Configured(q)' = Configured(q)
               /\ Gone(q)' = Gone(q)
    BY <1>3, <1>4, <2>4 DEF Made, Configured, Gone
  <2>5. ASSUME next = "open", open = {}
        PROVE  content = Made(r)'
    BY <1>3, <1>4, <2>1, <2>5 DEF Made, Read, Regular
  <2> QED
    BY <1>2, <1>3, <1>4, <2>1, <2>2, <2>3, <2>4, <2>5 DEF Regular, Fits
<1>8. UndisturbedInv'
  BY <1>1, <1>2, <1>3, <1>4 DEF UndisturbedInv, Lagging
<1> QED
  BY <1>5, <1>6, <1>7, <1>8 DEF ConfigInv


(* A request empties the file: regular only if no other operation is under *)
(* way.                                                                    *)
LEMMA OpenFileKeeps ==
  ASSUME ConfigInv, NEW r \in Threads, OpenFile(r)
  PROVE  ConfigInv'
<1>1. TypeOK /\ Structure /\ (~irregular => Regular) /\ UndisturbedInv
  BY DEF ConfigInv
<1>2. /\ pc[r] = "open" /\ pc' = [pc EXCEPT ![r] = "close"]
      /\ file' = Torn /\ open' = open \cup {r}
      /\ clash' = IF open = {} THEN {} ELSE open \cup {r}
      /\ Touches(r, {}) /\ Records(wanted, deleted)
  BY DEF OpenFile, Truncate
<1>3. /\ memory' = memory /\ op' = op /\ eps' = eps /\ copy' = copy
      /\ taskPc' = taskPc /\ ep' = ep /\ left' = left /\ size' = size
      /\ changed' = changed /\ loop' = loop /\ stations' = stations
      /\ registered' = registered
  BY DEF OpenFile, taskVars, stationVars
<1>4. /\ pc'[r] = "close"
      /\ \A q \in Threads : q # r => pc'[q] = pc[q]
  BY <1>1, <1>2 DEF TypeOK
<1>5. r \in Active /\ Active' = Active
  BY <1>2, <1>3, <1>4 DEF Active, Running, Processing
<1>6. TypeOK'
  <2>1. /\ wanted' \subseteq Sensors /\ deleted' \subseteq Sensors
        /\ irregular' \in BOOLEAN
    BY <1>1, <1>2, HistoryTyped DEF TypeOK
  <2>2. disturbed' \subseteq Active'
    BY <1>1, <1>2, <1>5 DEF TypeOK, Touches
  <2> QED
    BY <1>1, <1>2, <1>3, <2>1, <2>2 DEF TypeOK, Writers
<1>7. Structure'
  BY <1>1, <1>2, <1>3, <1>4 DEF Structure
<1>8. ASSUME ~irregular' PROVE Regular'
  <2>1. Regular /\ Active \subseteq {r} /\ open \subseteq {r}
    BY <1>1, <1>2, <1>8, RegularTouch
  <2>2. wanted' = wanted /\ deleted' = deleted
    BY <1>2, <1>8, RegularRecord
  <2>3. open = {}
    BY <1>1, <1>2, <2>1 DEF Structure
  <2>4. \A q \in Threads : q # r => pc[q] = "idle"
    BY <2>1 DEF Active, Running
  <2>5. \A q \in Threads : ~Lagging(q) /\ ~Lagging(q)'
    BY <1>2, <1>4, <2>4 DEF Lagging
  <2>6. BeingSaved' = BeingSaved
    BY <1>3 DEF BeingSaved
  <2>7. /\ Configured(r)' \subseteq copy[r]
        /\ copy[r] \ Configured(r)' \subseteq Gone(r)'
    <3>1. copy[r] = Made(r) /\ Fits(file)
      BY <1>2, <2>1, <2>3 DEF Regular
    <3> QED
      BY <1>3, <2>2, <3>1 DEF Fits, Made, Configured, Gone
  <2>8. \A q \in Threads : q # r => pc'[q] = "idle"
    BY <1>4, <2>4
  <2> QED
    BY <1>2, <1>3, <1>4, <2>1, <2>2, <2>3, <2>5, <2>6, <2>7, <2>8 DEF Regular
<1>9. UndisturbedInv'
  <2>1. clash' \subseteq disturbed' \cup {Path}
    <3>1. \A x \in open : x # r => x \in Active \/ x = Path
      BY <1>1 DEF TypeOK, Structure, Active, Running, Processing, Writers
    <3>2. r \notin open /\ r # Path
      BY <1>1, <1>2, ConfigAssumption DEF Structure
    <3>3. CASE open = {}
      BY <1>2, <3>3
    <3>4. CASE open # {}
      <4>1. open \ {r} # {}
        BY <3>2, <3>4
      <4>2. /\ r \in disturbed'
            /\ \A x \in Active : x # r => x \in disturbed'
        BY <1>2, <3>2, <4>1 DEF Touches
      <4> QED
        BY <1>2, <3>1, <4>2
    <3> QED
      BY <3>3, <3>4
  <2>2. \A q \in Threads \ disturbed' : ~Lagging(q)'
    <3>1. Active \ {r} \subseteq disturbed'
      BY <1>2 DEF Touches
    <3> QED
      BY <1>4, <1>5, <3>1 DEF Lagging, Active, Running
  <2>3. disturbed \subseteq disturbed'
    BY <1>2 DEF Touches
  <2> QED
    BY <1>1, <1>3, <2>1, <2>2, <2>3 DEF UndisturbedInv
<1> QED
  BY <1>6, <1>7, <1>8, <1>9 DEF ConfigInv

(* A request that has answered leaves its own entries only.                *)
LEMMA EndOf ==
  ASSUME TypeOK, NEW r \in Threads, End(r)
  PROVE  /\ pc'[r] = "idle" /\ op'[r] = "none"
         /\ eps'[r] = {} /\ copy'[r] = {}
         /\ \A q \in Threads : q # r =>
              /\ pc'[q] = pc[q] /\ op'[q] = op[q] /\ eps'[q] = eps[q]
              /\ copy'[q] = copy[q]
         /\ pc' \in [Threads -> {"idle", "open", "close", "reload"}]
         /\ op' \in [Threads -> Routes]
         /\ eps' \in [Threads -> SUBSET Sensors]
         /\ copy' \in [Threads -> SUBSET Sensors]
  BY DEF TypeOK, End, Routes

(* A request whose open raises has changed nothing.                        *)
LEMMA OpenRefusedKeeps ==
  ASSUME ConfigInv, NEW r \in Threads, OpenRefused(r)
  PROVE  ConfigInv'
<1>1. TypeOK /\ Structure /\ (~irregular => Regular) /\ UndisturbedInv
  BY DEF ConfigInv
<1>2. pc[r] = "open" /\ End(r) /\ disturbed' = disturbed \ {r}
  BY DEF OpenRefused
<1>3. /\ file' = file /\ memory' = memory /\ open' = open /\ clash' = clash
      /\ taskPc' = taskPc /\ ep' = ep /\ left' = left /\ size' = size
      /\ changed' = changed /\ loop' = loop /\ stations' = stations
      /\ registered' = registered /\ wanted' = wanted /\ deleted' = deleted
      /\ irregular' = irregular
  BY DEF OpenRefused, storeVars, taskVars, stationVars
<1>4. /\ pc'[r] = "idle" /\ op'[r] = "none" /\ eps'[r] = {} /\ copy'[r] = {}
      /\ \A q \in Threads : q # r =>
           /\ pc'[q] = pc[q] /\ op'[q] = op[q] /\ eps'[q] = eps[q]
           /\ copy'[q] = copy[q]
  BY <1>1, <1>2, EndOf
<1>5. TypeOK'
  <2>1. Active \ {r} \subseteq Active'
    BY <1>3, <1>4 DEF Active, Running, Processing
  <2>2. disturbed' \subseteq Active'
    BY <1>1, <1>2, <2>1 DEF TypeOK
  <2>3. /\ pc' \in [Threads -> {"idle", "open", "close", "reload"}]
        /\ op' \in [Threads -> Routes]
        /\ eps' \in [Threads -> SUBSET Sensors]
        /\ copy' \in [Threads -> SUBSET Sensors]
    BY <1>1, <1>2, EndOf
  <2> QED
    BY <1>1, <1>3, <2>2, <2>3 DEF TypeOK
<1>6. Structure'
  BY <1>1, <1>2, <1>3, <1>4 DEF Structure
<1>7. ASSUME ~irregular' PROVE Regular'
  <2>1. Regular
    BY <1>1, <1>3, <1>7
  <2>2. \A q \in Threads : Lagging(q)' <=> Lagging(q)
    BY <1>2, <1>4 DEF Lagging
  <2>3. BeingSaved' = BeingSaved
    BY <1>3 DEF BeingSaved
  <2>4. ASSUME NEW q \in Threads, q # r
        PROVE  /\ Made(q)' = Made(q) /\ Configured(q)' = Configured(q)
               /\ Gone(q)' = Gone(q)
    BY <1>3, <1>4, <2>4 DEF Made, Configured, Gone
  <2> QED
    BY <1>3, <1>4, <2>1, <2>2, <2>3, <2>4 DEF Regular, Fits
<1>8. UndisturbedInv'
  <2>1. r \notin clash
    BY <1>1, <1>2 DEF TypeOK, Structure
  <2>2. ~Lagging(r)'
    BY <1>4 DEF Lagging
  <2>3. Tasks \cap Threads = {}
    BY ConfigAssumption
  <2> QED
    BY <1>1, <1>2, <1>3, <1>4, <2>1, <2>2, <2>3 DEF UndisturbedInv, Lagging
<1> QED
  BY <1>5, <1>6, <1>7, <1>8 DEF ConfigInv


(* A request writes its copy: alone, it is what is configured from then    *)
(* on, and more only of what was deleted.                                  *)
LEMMA CloseFileKeeps ==
  ASSUME ConfigInv, NEW r \in Threads, CloseFile(r)
  PROVE  ConfigInv'
<1> DEFINE route == op[r]
           ended == IF route = "delete" THEN {r} ELSE {}
<1>1. TypeOK /\ Structure /\ (~irregular => Regular) /\ UndisturbedInv
  BY DEF ConfigInv
<1>2. /\ pc[r] = "close"
      /\ file' \in IF r \in clash THEN {copy[r], Torn} ELSE {copy[r]}
      /\ open' = open \ {r} /\ clash' = clash \ {r}
      /\ Touches(r, ended)
  BY DEF CloseFile, Flush
<1>3. /\ memory' = memory
      /\ taskPc' = taskPc /\ ep' = ep /\ left' = left /\ size' = size
      /\ changed' = changed /\ loop' = loop /\ stations' = stations
      /\ registered' = registered
  BY DEF CloseFile, taskVars, stationVars
<1>4. Records(Configured(r), Gone(r))
  BY DEF CloseFile, Gone
<1>5. /\ route = "delete" => End(r)
      /\ route # "delete" =>
           /\ pc' = [pc EXCEPT ![r] = "reload"]
           /\ op' = op /\ eps' = eps /\ copy' = copy
  BY DEF CloseFile
<1>6. /\ pc'[r] = IF route = "delete" THEN "idle" ELSE "reload"
      /\ route # "delete" => op' = op /\ eps' = eps /\ copy' = copy
      /\ \A q \in Threads : q # r =>
           /\ pc'[q] = pc[q] /\ op'[q] = op[q] /\ eps'[q] = eps[q]
           /\ copy'[q] = copy[q]
      /\ pc' \in [Threads -> {"idle", "open", "close", "reload"}]
      /\ op' \in [Threads -> Routes]
      /\ eps' \in [Threads -> SUBSET Sensors]
      /\ copy' \in [Threads -> SUBSET Sensors]
  <2>1. CASE route = "delete"
    BY <1>1, <1>5, <2>1, EndOf
  <2>2. CASE route # "delete"
    BY <1>1, <1>5, <2>2 DEF TypeOK
  <2> QED
    BY <2>1, <2>2
<1>7. /\ \A x \in Active : x # r => x \in Active'
      /\ route # "delete" => r \in Active'
      /\ r \in Active
  BY <1>2, <1>3, <1>6 DEF Active, Running, Processing
<1>8. TypeOK'
  <2>1. Configured(r) \subseteq Sensors /\ Gone(r) \subseteq Sensors
    BY <1>1 DEF TypeOK, Configured, Gone
  <2>2. /\ wanted' \subseteq Sensors /\ deleted' \subseteq Sensors
        /\ irregular' \in BOOLEAN
    BY <1>1, <1>2, <1>4, <2>1, HistoryTyped
  <2>3. disturbed' \subseteq Active'
    <3>1. disturbed' \subseteq (Active \cup {r}) \ ended
      BY <1>1, <1>2 DEF TypeOK, Touches
    <3> QED
      BY <1>7, <3>1
  <2>4. file' \in {Torn} \cup SUBSET Sensors
    BY <1>1, <1>2 DEF TypeOK
  <2> QED
    BY <1>1, <1>2, <1>3, <1>6, <2>2, <2>3, <2>4 DEF TypeOK
<1>9. Structure'
  <2>1. route = "delete" => op'[r] = "none"
    BY <1>1, <1>5, EndOf
  <2> QED
    BY <1>1, <1>2, <1>3, <1>6, <2>1 DEF Structure
<1>10. ASSUME ~irregular' PROVE Regular'
  <2>1. Regular /\ Active \subseteq {r} /\ open \subseteq {r}
    BY <1>1, <1>2, <1>10, RegularTouch
  <2>2. wanted' = Configured(r) /\ deleted' = Gone(r)
    BY <1>4, <1>10, RegularRecord
  <2>3. open' = {} /\ clash' = {} /\ file' = copy[r]
    BY <1>2, <2>1 DEF Regular
  <2>4. \A q \in Threads : q # r => pc[q] = "idle" /\ pc'[q] = "idle"
    BY <1>6, <2>1 DEF Active, Running
  <2>5. \A t \in Tasks : taskPc[t] = "idle"
    BY <2>1, ConfigAssumption DEF Active, Processing
  <2>6. /\ Configured(r) \subseteq copy[r]
        /\ copy[r] \ Configured(r) \subseteq Gone(r)
    BY <1>2, <2>1 DEF Regular
  <2>7. file' # Torn /\ Fits(file)'
    <3>1. copy[r] # Torn
      BY <1>1, ConfigAssumption DEF TypeOK
    <3> QED
      BY <2>2, <2>3, <2>6, <3>1 DEF Fits
  <2>8. (\A q \in Threads : ~Lagging(q)') =>
          /\ wanted' \subseteq memory'
          /\ memory' \ wanted' \subseteq deleted' \cup BeingSaved'
    <3>1. CASE route = "delete"
      <4>1. \A q \in Threads : ~Lagging(q)
        BY <1>2, <2>4 DEF Lagging
      <4>2. wanted \subseteq memory /\ memory \ wanted \subseteq deleted
        BY <2>1, <2>5, <4>1 DEF Regular, BeingSaved
      <4> QED
        BY <1>3, <2>2, <3>1, <4>2 DEF Configured, Gone
    <3>2. CASE route # "delete"
      <4>1. op[r] \in {"add", "clear"}
        BY <1>1, <1>2, <3>2 DEF Structure
      <4>2. Lagging(r)'
        BY <1>6, <3>2, <4>1 DEF Lagging
      <4> QED
        BY <4>2
    <3> QED
      BY <3>1, <3>2
  <2>9. pc'[r] = "reload" /\ op'[r] = "clear" => file' = {}
    BY <1>1, <1>6, <2>3 DEF Structure
  <2> QED
    BY <1>3, <1>6, <2>3, <2>4, <2>5, <2>7, <2>8, <2>9 DEF Regular
<1>11. UndisturbedInv'
  <2>1. \A x \in Active : x # r => x \in disturbed'
    BY <1>2 DEF Touches
  <2>2. clash' \subseteq disturbed' \cup {Path}
    BY <1>1, <1>2 DEF UndisturbedInv, Touches
  <2>3. ASSUME NEW q \in Threads \ disturbed', Lagging(q)'
        PROVE  file' = copy'[q]
    <3>1. q = r
      <4>1. CASE q # r
        <5>1. q \in Active
          BY <1>6, <2>3, <4>1 DEF Lagging, Active, Running
        <5> QED
          BY <2>1, <2>3, <4>1, <5>1
      <4> QED
        BY <4>1
    <3>2. route # "delete"
      BY <1>6, <2>3, <3>1 DEF Lagging
    <3>3. r \notin disturbed /\ r # Path
      BY <1>2, <2>3, <3>1, <3>2, ConfigAssumption DEF Touches
    <3>4. r \notin clash
      BY <1>1, <3>3 DEF UndisturbedInv
    <3> QED
      BY <1>2, <1>6, <3>1, <3>2, <3>4
  <2>4. ASSUME NEW t \in Tasks \ disturbed'
        PROVE  taskPc'[t] # "saving"
    <3>1. t # r
      BY ConfigAssumption
    <3> QED
      BY <1>3, <2>1, <2>4, <3>1 DEF Active, Processing
  <2> QED
    BY <2>2, <2>3, <2>4 DEF UndisturbedInv
<1> QED
  BY <1>8, <1>9, <1>10, <1>11 DEF ConfigInv

(* The list is made equal to the file, or emptied with it.                 *)
LEMMA ReloadKeeps ==
  ASSUME ConfigInv, NEW r \in Threads, Reload(r)
  PROVE  ConfigInv'
<1>1. TypeOK /\ Structure /\ (~irregular => Regular) /\ UndisturbedInv
  BY DEF ConfigInv
<1>2. /\ pc[r] = "reload"
      /\ memory' = IF op[r] = "clear" THEN {} ELSE Reloaded
      /\ registered' = IF op[r] # "clear" /\ file = Torn THEN registered
                       ELSE registered \cap memory'
      /\ End(r) /\ Touches(r, {r}) /\ Records(wanted, deleted)
  BY DEF Reload
<1>3. /\ file' = file /\ open' = open /\ clash' = clash
      /\ taskPc' = taskPc /\ ep' = ep /\ left' = left /\ size' = size
      /\ changed' = changed /\ loop' = loop /\ stations' = stations
  BY DEF Reload, taskVars
<1>4. /\ pc'[r] = "idle" /\ op'[r] = "none" /\ eps'[r] = {} /\ copy'[r] = {}
      /\ \A q \in Threads : q # r =>
           /\ pc'[q] = pc[q] /\ op'[q] = op[q] /\ eps'[q] = eps[q]
           /\ copy'[q] = copy[q]
      /\ pc' \in [Threads -> {"idle", "open", "close", "reload"}]
      /\ op' \in [Threads -> Routes]
      /\ eps' \in [Threads -> SUBSET Sensors]
      /\ copy' \in [Threads -> SUBSET Sensors]
  BY <1>1, <1>2, EndOf
<1>5. TypeOK'
  <2>1. /\ wanted' \subseteq Sensors /\ deleted' \subseteq Sensors
        /\ irregular' \in BOOLEAN
    BY <1>1, <1>2, HistoryTyped DEF TypeOK
  <2>2. disturbed' \subseteq Active'
    <3>1. Active \ {r} \subseteq Active'
      BY <1>3, <1>4 DEF Active, Running, Processing
    <3> QED
      BY <1>1, <1>2, <3>1 DEF TypeOK, Touches
  <2>3. memory' \subseteq Sensors /\ registered' \subseteq Sensors
    BY <1>1, <1>2 DEF TypeOK, Reloaded
  <2> QED
    BY <1>1, <1>3, <1>4, <2>1, <2>2, <2>3 DEF TypeOK
<1>6. Structure'
  BY <1>1, <1>2, <1>3, <1>4 DEF Structure
<1>7. ASSUME ~irregular' PROVE Regular'
  <2>1. Regular /\ Active \subseteq {r} /\ open \subseteq {r}
    BY <1>1, <1>2, <1>7, RegularTouch
  <2>2. wanted' = wanted /\ deleted' = deleted
    BY <1>2, <1>7, RegularRecord
  <2>3. open = {} /\ file # Torn /\ Fits(file)
    BY <1>1, <1>2, <2>1 DEF Structure, Regular
  <2>4. memory' = file
    BY <1>2, <2>1, <2>3 DEF Regular, Reloaded
  <2>5. \A q \in Threads : pc'[q] = "idle"
    BY <1>4, <2>1 DEF Active, Running
  <2>6. \A t \in Tasks : taskPc[t] = "idle"
    BY <2>1, ConfigAssumption DEF Active, Processing
  <2> QED
    BY <1>3, <2>1, <2>2, <2>3, <2>4, <2>5, <2>6 DEF Regular, Fits
<1>8. UndisturbedInv'
  <2>1. \A x \in Active : x # r => x \in disturbed'
    BY <1>2 DEF Touches
  <2>2. clash' \subseteq disturbed' \cup {Path}
    <3>1. r \notin clash
      BY <1>1, <1>2 DEF TypeOK, Structure
    <3> QED
      BY <1>1, <1>2, <1>3, <3>1 DEF UndisturbedInv, Touches
  <2>3. ASSUME NEW q \in Threads \ disturbed'
        PROVE  ~Lagging(q)'
    <3>1. CASE q = r
      BY <1>4, <3>1 DEF Lagging
    <3>2. CASE q # r
      BY <1>4, <2>1, <2>3, <3>2 DEF Lagging, Active, Running
    <3> QED
      BY <3>1, <3>2
  <2>4. ASSUME NEW t \in Tasks \ disturbed'
        PROVE  taskPc'[t] # "saving"
    <3>1. t # r
      BY ConfigAssumption
    <3> QED
      BY <1>3, <2>1, <2>4, <3>1 DEF Active, Processing
  <2> QED
    BY <2>2, <2>3, <2>4 DEF UndisturbedInv
<1> QED
  BY <1>5, <1>6, <1>7, <1>8 DEF ConfigInv


(* A step that leaves the file, the list, the requests, the saves and the  *)
(* history as they are keeps the invariant.                                *)
LEMMA QuietKeeps ==
  ASSUME ConfigInv, TypeOK',
         file' = file, memory' = memory, open' = open, clash' = clash,
         pc' = pc, op' = op, eps' = eps, copy' = copy,
         wanted' = wanted, deleted' = deleted, irregular' = irregular,
         \A t \in Tasks :
           /\ taskPc'[t] = "saving" <=> taskPc[t] = "saving"
           /\ taskPc[t] = "saving" => ep'[t] = ep[t]
           /\ taskPc'[t] # "idle" => ep'[t] \in Sensors,
         loop' = loop \/ (loop = Free /\ loop' = Path),
         \A x \in disturbed :
           x \in disturbed' \/ (x \in Tasks /\ taskPc[x] # "saving")
  PROVE  ConfigInv'
<1>1. TypeOK /\ Structure /\ (~irregular => Regular) /\ UndisturbedInv
  BY DEF ConfigInv
<1>2. Structure'
  <2>1. \A t \in Tasks : loop' = t <=> loop = t
    BY ConfigAssumption
  <2>2. open \ Threads \subseteq {loop'}
    <3>1. ASSUME loop = Free, NEW x \in open \ Threads
          PROVE  FALSE
      BY <1>1, <3>1, ConfigAssumption DEF Structure, TypeOK, Writers
    <3> QED
      BY <1>1, <3>1 DEF Structure
  <2> QED
    BY <1>1, <2>1, <2>2 DEF Structure
<1>3. ASSUME ~irregular' PROVE Regular'
  <2>1. Regular
    BY <1>1, <1>3
  <2>2. BeingSaved' = BeingSaved
    BY DEF BeingSaved
  <2>3. \A q \in Threads : /\ Lagging(q)' <=> Lagging(q)
                          /\ Made(q)' = Made(q)
                          /\ Configured(q)' = Configured(q)
                          /\ Gone(q)' = Gone(q)
    BY DEF Lagging, Made, Configured, Gone
  <2> QED
    BY <2>1, <2>2, <2>3 DEF Regular, Fits
<1>4. UndisturbedInv'
  <2>1. ASSUME NEW x \in clash PROVE x \in disturbed' \/ x = Path
    BY <1>1, <2>1, ConfigAssumption
    DEF UndisturbedInv, Structure, TypeOK
  <2>2. \A q \in Threads \ disturbed' : q \notin disturbed
    BY ConfigAssumption
  <2>3. \A t \in Tasks \ disturbed' :
          taskPc[t] = "saving" => t \notin disturbed
    OBVIOUS
  <2> QED
    BY <1>1, <2>1, <2>2, <2>3 DEF UndisturbedInv, Lagging
<1> QED
  BY <1>2, <1>3, <1>4 DEF ConfigInv

(* A configuration message asks the first station.                         *)
LEMMA MessageKeeps ==
  ASSUME ConfigInv, NEW t \in Tasks, NEW s \in Sensors, Message(t, s)
  PROVE  ConfigInv'
<1>1. TypeOK /\ Structure
  BY DEF ConfigInv
<1>2. /\ file' = file /\ memory' = memory /\ open' = open /\ clash' = clash
      /\ pc' = pc /\ op' = op /\ eps' = eps /\ copy' = copy
      /\ changed' = changed /\ loop' = loop /\ stations' = stations
      /\ registered' = registered /\ wanted' = wanted /\ deleted' = deleted
      /\ irregular' = irregular
  BY DEF Message, storeVars, webVars, stationVars
<1>3. /\ loop = Free /\ taskPc[t] = "idle" /\ stations > 0
      /\ taskPc' = [taskPc EXCEPT ![t] = "asking"]
      /\ ep' = [ep EXCEPT ![t] = s]
      /\ left' = [left EXCEPT ![t] = stations - 1]
      /\ size' = [size EXCEPT ![t] = stations]
      /\ disturbed' = IF open = {} THEN disturbed ELSE disturbed \cup {t}
  BY DEF Message
<1>4. /\ taskPc'[t] = "asking" /\ ep'[t] = s
      /\ \A u \in Tasks : u # t => taskPc'[u] = taskPc[u] /\ ep'[u] = ep[u]
  BY <1>1, <1>3 DEF TypeOK
<1>5. TypeOK'
  <2>1. Active \subseteq Active' /\ t \in Active'
    BY <1>2, <1>4, <1>3 DEF Active, Running, Processing
  <2>2. stations - 1 \in 0 .. MaxStations
    BY <1>1, <1>3, ConfigAssumption DEF TypeOK
  <2> QED
    BY <1>1, <1>2, <1>3, <2>1, <2>2 DEF TypeOK
<1> QED
  BY <1>1, <1>2, <1>3, <1>4, <1>5, QuietKeeps DEF Structure

(* Messages that are done with leave the others as they are.               *)
LEMMA FinishOf ==
  ASSUME TypeOK, NEW T, Finish(T)
  PROVE  /\ taskPc' \in [Tasks -> {"idle", "asking", "saving"}]
         /\ ep' \in [Tasks -> Sensors \cup {None}]
         /\ left' \in [Tasks -> 0 .. MaxStations]
         /\ size' \in [Tasks -> 0 .. MaxStations]
         /\ changed' \subseteq Tasks
         /\ \A u \in Tasks :
              /\ u \in T => taskPc'[u] = "idle"
              /\ u \notin T => taskPc'[u] = taskPc[u] /\ ep'[u] = ep[u]
  BY ConfigAssumption DEF Finish, TypeOK

(* A message that is dropped has changed nothing.                          *)
LEMMA DroppedKeeps ==
  ASSUME ConfigInv, NEW t \in Tasks, IterationRaises(t) \/ EntryRaises(t)
  PROVE  ConfigInv'
<1>1. TypeOK /\ Structure
  BY DEF ConfigInv
<1>2. /\ file' = file /\ memory' = memory /\ open' = open /\ clash' = clash
      /\ pc' = pc /\ op' = op /\ eps' = eps /\ copy' = copy
      /\ loop' = loop /\ stations' = stations
      /\ registered' = registered /\ wanted' = wanted /\ deleted' = deleted
      /\ irregular' = irregular
  BY DEF IterationRaises, EntryRaises, storeVars, webVars, stationVars
<1>3. /\ taskPc[t] = "asking" /\ Finish({t}) /\ disturbed' = disturbed \ {t}
  BY DEF IterationRaises, EntryRaises
<1>4. /\ taskPc'[t] = "idle"
      /\ \A u \in Tasks : u # t => taskPc'[u] = taskPc[u] /\ ep'[u] = ep[u]
  BY <1>1, <1>3, FinishOf
<1>5. TypeOK'
  <2>1. Active \ {t} \subseteq Active'
    BY <1>2, <1>4 DEF Active, Running, Processing
  <2>2. disturbed' \subseteq Active'
    BY <1>1, <1>3, <2>1 DEF TypeOK
  <2>3. /\ taskPc' \in [Tasks -> {"idle", "asking", "saving"}]
        /\ ep' \in [Tasks -> Sensors \cup {None}]
        /\ left' \in [Tasks -> 0 .. MaxStations]
        /\ size' \in [Tasks -> 0 .. MaxStations]
        /\ changed' \subseteq Tasks
    BY <1>1, <1>3, FinishOf
  <2> QED
    BY <1>1, <1>2, <2>2, <2>3 DEF TypeOK
<1>6. \A u \in Tasks :
        /\ taskPc'[u] = "saving" <=> taskPc[u] = "saving"
        /\ taskPc[u] = "saving" => ep'[u] = ep[u]
        /\ taskPc'[u] # "idle" => ep'[u] \in Sensors
  BY <1>1, <1>3, <1>4 DEF Structure
<1>7. \A x \in disturbed :
        x \in disturbed' \/ (x \in Tasks /\ taskPc[x] # "saving")
  BY <1>3
<1> QED
  BY <1>2, <1>5, <1>6, <1>7, QuietKeeps

(* The event loop's steps that touch neither the file nor the list.        *)
LEMMA LoopStepsKeep ==
  ASSUME ConfigInv
  PROVE  /\ PreferredPath \/ ConnectionEnds => ConfigInv'
         /\ \A s \in Sensors : Registered(s) => ConfigInv'
         /\ Stations => ConfigInv'
         /\ UNCHANGED configVars => ConfigInv'
<1>1. TypeOK /\ Structure
  BY DEF ConfigInv
<1>2. ASSUME PreferredPath \/ ConnectionEnds PROVE ConfigInv'
  <2>1. /\ file' = file /\ memory' = memory /\ open' = open
        /\ clash' = clash /\ pc' = pc /\ op' = op /\ eps' = eps
        /\ copy' = copy /\ taskPc' = taskPc /\ ep' = ep /\ left' = left
        /\ size' = size /\ changed' = changed /\ stations' = stations
        /\ registered' = registered /\ wanted' = wanted
        /\ deleted' = deleted /\ disturbed' = disturbed
        /\ irregular' = irregular /\ loop = Free /\ loop' = Path
    BY <1>2
    DEF PreferredPath, ConnectionEnds, storeVars, webVars, taskVars,
        stationVars, historyVars
  <2>2. Active' = Active
    BY <2>1 DEF Active, Running, Processing
  <2>3. TypeOK'
    BY <1>1, <2>1, <2>2 DEF TypeOK
  <2> QED
    BY <1>1, <2>1, <2>3, QuietKeeps DEF Structure
<1>3. ASSUME NEW s \in Sensors, Registered(s) PROVE ConfigInv'
  <2>1. /\ file' = file /\ memory' = memory /\ open' = open
        /\ clash' = clash /\ pc' = pc /\ op' = op /\ eps' = eps
        /\ copy' = copy /\ taskPc' = taskPc /\ ep' = ep /\ left' = left
        /\ size' = size /\ changed' = changed /\ stations' = stations
        /\ registered' = registered \cup {s} /\ wanted' = wanted
        /\ deleted' = deleted /\ disturbed' = disturbed
        /\ irregular' = irregular /\ loop' = loop
    BY <1>3
    DEF Registered, storeVars, webVars, taskVars, historyVars
  <2>2. Active' = Active
    BY <2>1 DEF Active, Running, Processing
  <2>3. TypeOK'
    BY <1>1, <2>1, <2>2 DEF TypeOK
  <2> QED
    BY <1>1, <2>1, <2>3, QuietKeeps DEF Structure
<1>4. ASSUME Stations PROVE ConfigInv'
  <2>1. /\ file' = file /\ memory' = memory /\ open' = open
        /\ clash' = clash /\ pc' = pc /\ op' = op /\ eps' = eps
        /\ copy' = copy /\ taskPc' = taskPc /\ ep' = ep /\ left' = left
        /\ size' = size /\ wanted' = wanted
        /\ deleted' = deleted /\ disturbed' = disturbed
        /\ irregular' = irregular /\ loop' = loop
    BY <1>4 DEF Stations, storeVars, webVars, historyVars
  <2>2. /\ stations' \in 0 .. MaxStations
        /\ registered' \subseteq Sensors
        /\ changed' \subseteq Tasks
    BY <1>1, <1>4 DEF Stations, TypeOK
  <2>3. Active' = Active
    BY <2>1 DEF Active, Running, Processing
  <2>4. TypeOK'
    BY <1>1, <2>1, <2>2, <2>3 DEF TypeOK
  <2> QED
    BY <1>1, <2>1, <2>4, QuietKeeps DEF Structure
<1>5. ASSUME UNCHANGED configVars PROVE ConfigInv'
  <2>1. /\ file' = file /\ memory' = memory /\ open' = open
        /\ clash' = clash /\ pc' = pc /\ op' = op /\ eps' = eps
        /\ copy' = copy /\ taskPc' = taskPc /\ ep' = ep /\ left' = left
        /\ size' = size /\ changed' = changed /\ stations' = stations
        /\ registered' = registered /\ wanted' = wanted
        /\ deleted' = deleted /\ disturbed' = disturbed
        /\ irregular' = irregular /\ loop' = loop
    BY <1>5
    DEF configVars, storeVars, webVars, taskVars, stationVars, historyVars
  <2>2. Active' = Active
    BY <2>1 DEF Active, Running, Processing
  <2>3. TypeOK'
    BY <1>1, <2>1, <2>2 DEF TypeOK
  <2> QED
    BY <1>1, <2>1, <2>3, QuietKeeps DEF Structure
<1> QED
  BY <1>2, <1>3, <1>4, <1>5

(* A sensor joins the list and its save begins.                            *)
LEMMA SaveKeeps ==
  ASSUME ConfigInv, NEW t \in Tasks, NEW s \in Sensors, loop = Free,
         Save(t, s), ep' \in [Tasks -> Sensors \cup {None}], ep'[t] = s,
         \A u \in Tasks : u # t => ep'[u] = ep[u],
         UNCHANGED <<file, open, clash, webVars, left, size, changed,
                     stationVars>>
  PROVE  ConfigInv'
<1>1. TypeOK /\ Structure /\ (~irregular => Regular) /\ UndisturbedInv
  BY DEF ConfigInv
<1>2. /\ memory' = memory \cup {s} /\ loop' = t
      /\ taskPc' = [taskPc EXCEPT ![t] = "saving"]
      /\ Touches(t, {}) /\ Records(wanted, deleted)
  BY DEF Save
<1>3. /\ file' = file /\ open' = open /\ clash' = clash /\ pc' = pc
      /\ op' = op /\ eps' = eps /\ copy' = copy /\ left' = left
      /\ size' = size /\ changed' = changed /\ stations' = stations
      /\ registered' = registered
  BY DEF webVars, stationVars
<1>4. /\ taskPc'[t] = "saving"
      /\ \A u \in Tasks : u # t => taskPc'[u] = taskPc[u]
      /\ \A u \in Tasks : taskPc[u] # "saving"
  BY <1>1, <1>2, ConfigAssumption DEF TypeOK, Structure
<1>5. open \subseteq Threads /\ t \notin open
  BY <1>1, ConfigAssumption DEF TypeOK, Structure, Writers
<1>6. TypeOK'
  <2>1. /\ wanted' \subseteq Sensors /\ deleted' \subseteq Sensors
        /\ irregular' \in BOOLEAN
    BY <1>1, <1>2, HistoryTyped DEF TypeOK
  <2>2. Active \subseteq Active' /\ t \in Active'
    BY <1>3, <1>4 DEF Active, Running, Processing
  <2>3. disturbed' \subseteq Active'
    BY <1>1, <1>2, <2>2 DEF TypeOK, Touches
  <2> QED
    BY <1>1, <1>2, <1>3, <2>1, <2>3 DEF TypeOK
<1>7. Structure'
  BY <1>1, <1>2, <1>3, <1>4, <1>5 DEF Structure
<1>8. ASSUME ~irregular' PROVE Regular'
  <2>1. Regular /\ Active \subseteq {t} /\ open = {}
    BY <1>1, <1>2, <1>5, <1>8, RegularTouch
  <2>2. wanted' = wanted /\ deleted' = deleted
    BY <1>2, <1>8, RegularRecord
  <2>3. \A q \in Threads : pc[q] = "idle"
    BY <2>1, ConfigAssumption DEF Active, Running
  <2>4. \A q \in Threads : ~Lagging(q)
    BY <2>3 DEF Lagging
  <2>5. BeingSaved = {}
    BY <1>4 DEF BeingSaved
  <2>6. BeingSaved' = {s}
    BY <1>4 DEF BeingSaved
  <2>7. /\ wanted' \subseteq memory'
        /\ memory' \ wanted' \subseteq deleted' \cup BeingSaved'
    BY <1>2, <2>1, <2>2, <2>4, <2>5, <2>6 DEF Regular
  <2>8. \A u \in Tasks : taskPc'[u] = "saving" => ep'[u] \in memory'
    BY <1>2, <1>4
  <2> QED
    BY <1>3, <2>1, <2>2, <2>3, <2>7, <2>8 DEF Regular, Fits
<1>9. UndisturbedInv'
  <2>1. /\ disturbed \subseteq disturbed'
        /\ \A x \in Active : x # t => x \in disturbed'
    BY <1>2 DEF Touches
  <2>2. \A q \in Threads \ disturbed' : ~Lagging(q)'
    BY <1>3, <2>1, ConfigAssumption DEF Lagging, Active, Running
  <2>3. \A u \in Tasks : taskPc'[u] = "saving" => ep'[u] \in memory'
    BY <1>2, <1>4
  <2> QED
    BY <1>1, <1>3, <2>1, <2>2, <2>3 DEF UndisturbedInv
<1> QED
  BY <1>6, <1>7, <1>8, <1>9 DEF ConfigInv

(* A configuration message without stations.                               *)
LEMMA MessageAloneKeeps ==
  ASSUME ConfigInv, NEW t \in Tasks, NEW s \in Sensors, MessageAlone(t, s)
  PROVE  ConfigInv'
<1>1. /\ loop = Free /\ Save(t, s) /\ ep' = [ep EXCEPT ![t] = s]
      /\ UNCHANGED <<file, open, clash, webVars, left, size, changed,
                     stationVars>>
  BY DEF MessageAlone
<1>2. /\ ep' \in [Tasks -> Sensors \cup {None}] /\ ep'[t] = s
      /\ \A u \in Tasks : u # t => ep'[u] = ep[u]
  BY <1>1 DEF ConfigInv, TypeOK
<1> QED
  BY <1>1, <1>2, SaveKeeps

(* A configuration message asks the next station, or saves.                *)
LEMMA AskNextKeeps ==
  ASSUME ConfigInv, NEW t \in Tasks, AskNext(t)
  PROVE  ConfigInv'
<1>1. TypeOK /\ Structure
  BY DEF ConfigInv
<1>2. loop = Free /\ taskPc[t] = "asking"
  BY DEF AskNext
<1>3. /\ file' = file /\ open' = open /\ clash' = clash /\ pc' = pc
      /\ op' = op /\ eps' = eps /\ copy' = copy /\ ep' = ep
      /\ size' = size /\ changed' = changed /\ stations' = stations
      /\ registered' = registered
  BY DEF AskNext, webVars, stationVars
<1>4. CASE left[t] = 0
  <2>1. Save(t, ep[t]) /\ left' = left
    BY <1>4 DEF AskNext
  <2>2. ep[t] \in Sensors /\ ep' \in [Tasks -> Sensors \cup {None}]
    BY <1>1, <1>2, <1>3 DEF Structure, TypeOK
  <2> QED
    BY <1>2, <1>3, <2>1, <2>2, SaveKeeps DEF webVars, stationVars
<1>5. CASE left[t] # 0
  <2>1. /\ left' = [left EXCEPT ![t] = @ - 1]
        /\ memory' = memory /\ loop' = loop /\ taskPc' = taskPc
        /\ wanted' = wanted /\ deleted' = deleted
        /\ disturbed' = disturbed /\ irregular' = irregular
    BY <1>5 DEF AskNext, historyVars
  <2>2. left[t] - 1 \in 0 .. MaxStations
    BY <1>1, <1>5, ConfigAssumption DEF TypeOK
  <2>3. Active' = Active
    BY <1>3, <2>1 DEF Active, Running, Processing
  <2>4. TypeOK'
    BY <1>1, <1>3, <2>1, <2>2, <2>3 DEF TypeOK
  <2> QED
    BY <1>1, <1>3, <2>1, <2>4, QuietKeeps DEF Structure
<1> QED
  BY <1>4, <1>5

(* There is at most one save, and it is the event loop's.                  *)
LEMMA SaverIs ==
  ASSUME ConfigInv, loop # Free
  PROVE  /\ loop \in Tasks \cup {Path} /\ loop \notin Threads
         /\ loop \in Tasks => loop \in Active
         /\ \A t \in Tasks : taskPc[t] = "saving" => t = loop
         /\ loop = Path => loop \notin Active
  BY ConfigAssumption
  DEF ConfigInv, TypeOK, Structure, Active, Running, Processing

(* A save empties the file.                                                *)
LEMMA SaveOpenKeeps ==
  ASSUME ConfigInv, SaveOpen
  PROVE  ConfigInv'
<1>1. TypeOK /\ Structure /\ (~irregular => Regular) /\ UndisturbedInv
  BY DEF ConfigInv
<1>2. /\ loop # Free /\ loop \notin open /\ file' = Torn
      /\ open' = open \cup {loop}
      /\ clash' = IF open = {} THEN {} ELSE open \cup {loop}
      /\ Touches(loop, {}) /\ Records(wanted, deleted)
  BY DEF SaveOpen, Truncate
<1>3. /\ memory' = memory /\ pc' = pc /\ op' = op /\ eps' = eps
      /\ copy' = copy /\ taskPc' = taskPc /\ ep' = ep /\ left' = left
      /\ size' = size /\ changed' = changed /\ loop' = loop
      /\ stations' = stations /\ registered' = registered
  BY DEF SaveOpen, webVars, taskVars, stationVars
<1>4. /\ loop \in Tasks \cup {Path} /\ loop \notin Threads
      /\ loop \in Tasks => loop \in Active
      /\ \A t \in Tasks : taskPc[t] = "saving" => t = loop
  BY <1>2, SaverIs
<1>5. Active' = Active
  BY <1>3 DEF Active, Running, Processing
<1>6. TypeOK'
  <2>1. /\ wanted' \subseteq Sensors /\ deleted' \subseteq Sensors
        /\ irregular' \in BOOLEAN
    BY <1>1, <1>2, HistoryTyped DEF TypeOK
  <2>2. disturbed' \subseteq Active'
    BY <1>1, <1>2, <1>4, <1>5 DEF TypeOK, Touches
  <2> QED
    BY <1>1, <1>2, <1>3, <1>4, <2>1, <2>2 DEF TypeOK, Writers
<1>7. Structure'
  BY <1>1, <1>2, <1>3, <1>4 DEF Structure
<1>8. ASSUME ~irregular' PROVE Regular'
  <2>1. Regular /\ Active \subseteq {loop} /\ open = {}
    BY <1>1, <1>2, <1>8, RegularTouch
  <2>2. wanted' = wanted /\ deleted' = deleted
    BY <1>2, <1>8, RegularRecord
  <2>3. \A q \in Threads : pc[q] = "idle"
    BY <1>4, <2>1 DEF Active, Running
  <2>4. (\A q \in Threads : ~Lagging(q)') <=> (\A q \in Threads : ~Lagging(q))
    BY <1>3 DEF Lagging
  <2>5. BeingSaved' = BeingSaved
    BY <1>3 DEF BeingSaved
  <2> QED
    BY <1>2, <1>3, <2>1, <2>2, <2>3, <2>4, <2>5 DEF Regular
<1>9. UndisturbedInv'
  <2>1. /\ disturbed \subseteq disturbed'
        /\ \A x \in Active : x # loop => x \in disturbed'
    BY <1>2 DEF Touches
  <2>2. clash' \subseteq disturbed' \cup {Path}
    <3>1. CASE open = {}
      BY <1>2, <3>1
    <3>2. CASE open # {}
      <4>1. open \ {loop} # {}
        BY <1>2, <3>2
      <4>2. loop # Path => loop \in disturbed'
        BY <1>2, <4>1 DEF Touches
      <4>3. \A x \in open : x \in Active
        BY <1>1, <1>2 DEF TypeOK, Structure, Active, Running, Writers
      <4> QED
        BY <1>2, <2>1, <4>2, <4>3
    <3> QED
      BY <3>1, <3>2
  <2>3. \A q \in Threads \ disturbed' : ~Lagging(q)'
    BY <1>3, <1>4, <2>1 DEF Lagging, Active, Running
  <2> QED
    BY <1>1, <1>3, <2>1, <2>2, <2>3 DEF UndisturbedInv
<1> QED
  BY <1>6, <1>7, <1>8, <1>9 DEF ConfigInv

(* A save whose open raises leaves a list that the file does not have:     *)
(* irregular, unless it was an uplink's.                                   *)
LEMMA SaveRefusedKeeps ==
  ASSUME ConfigInv, SaveRefused
  PROVE  ConfigInv'
<1>1. TypeOK /\ Structure /\ (~irregular => Regular) /\ UndisturbedInv
  BY DEF ConfigInv
<1>2. /\ loop # Free /\ loop \notin open /\ loop' = Free /\ Finish({loop})
      /\ irregular' = (irregular \/ loop # Path)
      /\ disturbed' = disturbed \ {loop} /\ Records(wanted, deleted)
  BY DEF SaveRefused
<1>3. /\ file' = file /\ memory' = memory /\ open' = open /\ clash' = clash
      /\ pc' = pc /\ op' = op /\ eps' = eps /\ copy' = copy
      /\ stations' = stations /\ registered' = registered
  BY DEF SaveRefused, storeVars, webVars, stationVars
<1>4. /\ loop \in Tasks \cup {Path} /\ loop \notin Threads
      /\ \A t \in Tasks : taskPc[t] = "saving" => t = loop
  BY <1>2, SaverIs
<1>5. /\ \A u \in Tasks : u # loop =>
           taskPc'[u] = taskPc[u] /\ ep'[u] = ep[u]
      /\ \A u \in Tasks : taskPc'[u] # "saving"
      /\ \A u \in Tasks : u = loop => taskPc'[u] = "idle"
  BY <1>1, <1>2, <1>4, FinishOf
<1>6. open \subseteq Threads
  BY <1>1, <1>2 DEF Structure
<1>7. TypeOK'
  <2>1. /\ taskPc' \in [Tasks -> {"idle", "asking", "saving"}]
        /\ ep' \in [Tasks -> Sensors \cup {None}]
        /\ left' \in [Tasks -> 0 .. MaxStations]
        /\ size' \in [Tasks -> 0 .. MaxStations]
        /\ changed' \subseteq Tasks
    BY <1>1, <1>2, FinishOf
  <2>2. disturbed' \subseteq Active'
    <3>1. Active \ {loop} \subseteq Active'
      BY <1>3, <1>5 DEF Active, Running, Processing
    <3> QED
      BY <1>1, <1>2, <3>1 DEF TypeOK
  <2>3. wanted' \subseteq Sensors /\ deleted' \subseteq Sensors
        /\ irregular' \in BOOLEAN
    BY <1>1, <1>2 DEF Records, TypeOK
  <2> QED
    BY <1>1, <1>2, <1>3, <2>1, <2>2, <2>3 DEF TypeOK
<1>8. Structure'
  <2>1. \A t \in Tasks : taskPc'[t] # "idle" => ep'[t] \in Sensors
    BY <1>1, <1>5 DEF Structure
  <2>2. Free \notin Tasks
    BY ConfigAssumption
  <2> QED
    BY <1>1, <1>2, <1>3, <1>5, <1>6, <2>1, <2>2 DEF Structure
<1>9. ASSUME ~irregular' PROVE Regular'
  <2>1. Regular /\ loop = Path
    BY <1>1, <1>2, <1>9
  <2>2. wanted' = wanted /\ deleted' = deleted
    BY <1>2, <1>9, RegularRecord
  <2>3. \A q \in Threads : /\ Lagging(q)' <=> Lagging(q)
                          /\ Made(q)' = Made(q)
                          /\ Configured(q)' = Configured(q)
                          /\ Gone(q)' = Gone(q)
    BY <1>3, <2>2 DEF Lagging, Made, Configured, Gone
  <2>4. BeingSaved = {} /\ BeingSaved' = {}
    BY <1>4, <1>5, <2>1, ConfigAssumption DEF BeingSaved
  <2> QED
    BY <1>3, <1>5, <2>1, <2>2, <2>3, <2>4 DEF Regular, Fits
<1>10. UndisturbedInv'
  <2>1. \A x \in clash : x # loop
    BY <1>1, <1>2 DEF TypeOK
  <2> QED
    BY <1>1, <1>2, <1>3, <1>4, <1>5, <2>1 DEF UndisturbedInv, Lagging
<1> QED
  BY <1>7, <1>8, <1>9, <1>10 DEF ConfigInv

(* A save writes the list as it is by then.                                *)
LEMMA SaveCloseKeeps ==
  ASSUME ConfigInv, SaveClose
  PROVE  ConfigInv'
<1> DEFINE saved == {ep[t] : t \in Tasks \cap {loop}}
<1>1. TypeOK /\ Structure /\ (~irregular => Regular) /\ UndisturbedInv
  BY DEF ConfigInv
<1>2. /\ loop \in open
      /\ file' \in IF loop \in clash THEN {memory, Torn} ELSE {memory}
      /\ open' = open \ {loop} /\ clash' = clash \ {loop}
      /\ Touches(loop, {loop}) /\ loop' = Free /\ Finish({loop})
      /\ Records(wanted \cup saved, deleted \ saved)
  BY DEF SaveClose, Flush
<1>3. /\ memory' = memory /\ pc' = pc /\ op' = op /\ eps' = eps
      /\ copy' = copy /\ stations' = stations /\ registered' = registered
  BY DEF SaveClose, webVars, stationVars
<1>4. loop # Free
  <2>1. loop \in Threads \cup Tasks \cup {Path}
    BY <1>1, <1>2 DEF TypeOK, Writers
  <2> QED
    BY <2>1, ConfigAssumption
<1>5. /\ loop \in Tasks \cup {Path} /\ loop \notin Threads
      /\ \A t \in Tasks : taskPc[t] = "saving" => t = loop
      /\ loop \in Tasks => taskPc[loop] = "saving"
  BY <1>1, <1>4, SaverIs DEF Structure
<1>6. /\ \A u \in Tasks : u # loop =>
           taskPc'[u] = taskPc[u] /\ ep'[u] = ep[u]
      /\ \A u \in Tasks : taskPc'[u] # "saving"
      /\ \A u \in Tasks : u = loop => taskPc'[u] = "idle"
  BY <1>1, <1>2, <1>5, FinishOf
<1>7. open' \subseteq Threads
  BY <1>1, <1>2 DEF Structure
<1>8. TypeOK'
  <2>1. /\ taskPc' \in [Tasks -> {"idle", "asking", "saving"}]
        /\ ep' \in [Tasks -> Sensors \cup {None}]
        /\ left' \in [Tasks -> 0 .. MaxStations]
        /\ size' \in [Tasks -> 0 .. MaxStations]
        /\ changed' \subseteq Tasks
    BY <1>1, <1>2, FinishOf
  <2>2. disturbed' \subseteq Active'
    <3>1. Active \ {loop} \subseteq Active'
      BY <1>3, <1>6 DEF Active, Running, Processing
    <3> QED
      BY <1>1, <1>2, <3>1 DEF TypeOK, Touches
  <2>3. saved \subseteq Sensors
    BY <1>1, <1>5 DEF Structure
  <2>4. /\ wanted' \subseteq Sensors /\ deleted' \subseteq Sensors
        /\ irregular' \in BOOLEAN
    BY <1>1, <1>2, <2>3, HistoryTyped DEF TypeOK
  <2>5. file' \in {Torn} \cup SUBSET Sensors
    BY <1>1, <1>2 DEF TypeOK
  <2> QED
    BY <1>1, <1>2, <1>3, <2>1, <2>2, <2>4, <2>5 DEF TypeOK
<1>9. Structure'
  <2>1. \A t \in Tasks : taskPc'[t] # "idle" => ep'[t] \in Sensors
    BY <1>1, <1>6 DEF Structure
  <2>2. Free \notin Tasks
    BY ConfigAssumption
  <2>3. \A r \in Threads : r \in open' <=> pc'[r] = "close"
    BY <1>1, <1>2, <1>3, <1>5 DEF Structure
  <2> QED
    BY <1>1, <1>2, <1>3, <1>6, <1>7, <2>1, <2>2, <2>3 DEF Structure
<1>10. ASSUME ~irregular' PROVE Regular'
  <2>1. Regular /\ Active \subseteq {loop} /\ open \subseteq {loop}
    BY <1>1, <1>2, <1>10, RegularTouch
  <2>2. wanted' = wanted \cup saved /\ deleted' = deleted \ saved
    BY <1>2, <1>10, RegularRecord
  <2>3. clash' = {} /\ file' = memory
    BY <1>2, <2>1 DEF Regular
  <2>4. \A q \in Threads : pc[q] = "idle"
    BY <1>5, <2>1 DEF Active, Running
  <2>5. \A q \in Threads : ~Lagging(q)
    BY <2>4 DEF Lagging
  <2>6. BeingSaved = saved
    BY <1>5 DEF BeingSaved
  <2>7. saved \subseteq memory
    BY <1>5, <2>1 DEF Regular
  <2>8. Fits(memory)'
    BY <1>3, <2>1, <2>2, <2>5, <2>6, <2>7 DEF Regular, Fits
  <2>9. memory # Torn
    BY <1>1, ConfigAssumption DEF TypeOK
  <2>10. BeingSaved' = {}
    BY <1>6 DEF BeingSaved
  <2> QED
    BY <1>3, <1>6, <2>3, <2>4, <2>8, <2>9, <2>10 DEF Regular, Fits
<1>11. UndisturbedInv'
  <2>1. \A x \in Active : x # loop => x \in disturbed'
    BY <1>2 DEF Touches
  <2>2. clash' \subseteq disturbed' \cup {Path}
    BY <1>1, <1>2 DEF UndisturbedInv, Touches
  <2>3. \A q \in Threads \ disturbed' : ~Lagging(q)'
    BY <1>3, <1>5, <2>1 DEF Lagging, Active, Running
  <2> QED
    BY <1>6, <2>2, <2>3 DEF UndisturbedInv
<1> QED
  BY <1>8, <1>9, <1>10, <1>11 DEF ConfigInv

(* A restart takes the list from the file, torn or not.                    *)
LEMMA RestartKeeps ==
  ASSUME ConfigInv, Restart
  PROVE  ConfigInv'
<1>1. TypeOK /\ Structure /\ (~irregular => Regular)
  BY DEF ConfigInv
<1>2. /\ memory' = Read(file) /\ open' = {} /\ clash' = {}
      /\ pc' = [r \in Threads |-> "idle"]
      /\ op' = [r \in Threads |-> "none"]
      /\ eps' = [r \in Threads |-> {}]
      /\ copy' = [r \in Threads |-> {}]
      /\ Finish(Tasks) /\ loop' = Free /\ stations' = 0
      /\ registered' = {} /\ disturbed' = {}
      /\ irregular' = (irregular \/ open # {})
      /\ Records(wanted, deleted) /\ file' = file
  BY DEF Restart
<1>3. /\ taskPc' \in [Tasks -> {"idle", "asking", "saving"}]
      /\ ep' \in [Tasks -> Sensors \cup {None}]
      /\ left' \in [Tasks -> 0 .. MaxStations]
      /\ size' \in [Tasks -> 0 .. MaxStations]
      /\ changed' \subseteq Tasks
      /\ \A u \in Tasks : taskPc'[u] = "idle"
  BY <1>1, <1>2, FinishOf
<1>4. TypeOK'
  <2>1. wanted' \subseteq Sensors /\ deleted' \subseteq Sensors
        /\ irregular' \in BOOLEAN
    BY <1>1, <1>2 DEF Records, TypeOK
  <2>2. memory' \subseteq Sensors
    BY <1>1, <1>2, ReadTyped
  <2>3. /\ pc' \in [Threads -> {"idle", "open", "close", "reload"}]
        /\ op' \in [Threads -> Routes]
        /\ eps' \in [Threads -> SUBSET Sensors]
        /\ copy' \in [Threads -> SUBSET Sensors]
    BY <1>2 DEF Routes
  <2> QED
    BY <1>1, <1>2, <1>3, <2>1, <2>2, <2>3, ConfigAssumption DEF TypeOK
<1>5. Structure'
  BY <1>2, <1>3, ConfigAssumption DEF Structure
<1>6. ASSUME ~irregular' PROVE Regular'
  <2>1. Regular /\ open = {}
    BY <1>1, <1>2, <1>6
  <2>2. wanted' = wanted /\ deleted' = deleted
    BY <1>2, <1>6, RegularRecord
  <2>3. file # Torn /\ Fits(file) /\ memory' = file
    BY <1>2, <2>1 DEF Regular, Read
  <2> QED
    BY <1>2, <1>3, <2>2, <2>3 DEF Regular, Fits
<1>7. UndisturbedInv'
  BY <1>2, <1>3 DEF UndisturbedInv, Lagging
<1> QED
  BY <1>4, <1>5, <1>6, <1>7 DEF ConfigInv

(* The invariant holds when the service starts.                            *)
LEMMA InitHolds ==
  ASSUME Init
  PROVE  ConfigInv
<1>1. TypeOK
  <2>1. /\ file \in {Torn} \cup SUBSET Sensors /\ memory \subseteq Sensors
        /\ registered \subseteq Sensors /\ wanted \subseteq Sensors
        /\ deleted \subseteq Sensors /\ irregular \in BOOLEAN
    BY DEF Init
  <2>2. /\ open \subseteq Writers /\ clash \subseteq open
        /\ changed \subseteq Tasks /\ disturbed \subseteq Active
        /\ loop \in Tasks \cup {Path, Free}
    BY DEF Init
  <2>3. 0 \in 0 .. MaxStations
    BY ConfigAssumption
  <2>4. /\ pc \in [Threads -> {"idle", "open", "close", "reload"}]
        /\ op \in [Threads -> Routes]
        /\ eps \in [Threads -> SUBSET Sensors]
        /\ copy \in [Threads -> SUBSET Sensors]
    BY DEF Init, Routes
  <2>5. /\ taskPc \in [Tasks -> {"idle", "asking", "saving"}]
        /\ ep \in [Tasks -> Sensors \cup {None}]
        /\ left \in [Tasks -> 0 .. MaxStations]
        /\ size \in [Tasks -> 0 .. MaxStations]
        /\ stations \in 0 .. MaxStations
    BY <2>3 DEF Init
  <2> QED
    BY <2>1, <2>2, <2>4, <2>5 DEF TypeOK
<1>2. Structure
  BY ConfigAssumption DEF Init, Structure
<1>3. Regular
  BY ConfigAssumption DEF Init, Regular, Fits
<1>4. UndisturbedInv
  BY DEF Init, UndisturbedInv, Lagging
<1> QED
  BY <1>1, <1>2, <1>3, <1>4 DEF ConfigInv

(* Every step of a request.                                                *)
LEMMA WebThreadKeeps ==
  ASSUME ConfigInv, NEW r \in Threads, WebThread(r)
  PROVE  ConfigInv'
<1>1. Read(file) \subseteq Sensors
  BY ReadTyped DEF ConfigInv
<1>2. CASE AddSensors(r)
  <2>1. PICK S \in SUBSET Sensors :
          Begin(r, "add", S, Read(file) \cup S, "open")
    BY <1>2 DEF AddSensors
  <2> QED
    BY <1>1, <2>1, BeginKeeps DEF Routes
<1>3. CASE DeleteSensor(r)
  <2>1. PICK s \in Sensors :
          Begin(r, "delete", {s}, Read(file) \ {s}, "open")
    BY <1>3 DEF DeleteSensor
  <2> QED
    BY <1>1, <2>1, BeginKeeps DEF Routes
<1>4. CASE ClearAll(r)
  BY <1>4, BeginKeeps DEF ClearAll, Routes
<1>5. CASE ReloadSensors(r) \/ AttachAll(r)
  <2>1. Begin(r, "reload", {}, {}, "reload")
    BY <1>5 DEF ReloadSensors, AttachAll
  <2> QED
    BY <2>1, BeginKeeps DEF Routes
<1> QED
  BY <1>2, <1>3, <1>4, <1>5, OpenFileKeeps, OpenRefusedKeeps, CloseFileKeeps,
     ReloadKeeps
  DEF WebThread

(* The inductive invariant holds in every state of every run.              *)
THEOREM ConfigInvariance == Spec => []ConfigInv
<1>1. Init => ConfigInv
  BY InitHolds
<1>2. ConfigInv /\ [Next]_configVars => ConfigInv'
  BY WebThreadKeeps, MessageKeeps, MessageAloneKeeps, AskNextKeeps,
     DroppedKeeps, LoopStepsKeep, SaveOpenKeeps, SaveRefusedKeeps,
     SaveCloseKeeps, RestartKeeps
  DEF Next, EventLoop
<1> QED
  BY <1>1, <1>2, PTL DEF Spec

(* Types: in particular what is disturbed is an operation under way, and   *)
(* only what is open can clash.                                            *)
THEOREM TypeCorrectness == Spec => []TypeOK
<1>1. ConfigInv => TypeOK
  BY DEF ConfigInv
<1> QED
  BY <1>1, ConfigInvariance, PTL

(* Whatever the number of sensors, threads and stations: while operations  *)
(* do not overlap and no save fails, the file and the list hold every      *)
(* configured sensor, and more only of what was deleted                    *)
(* (update_or_add_entry, reload_sensor_config, web_ui.py's sensor routes). *)
THEOREM ConfigurationKept == Spec => []AcceptedConfigurationKept
<1>1. ConfigInv => AcceptedConfigurationKept
  <2> SUFFICES ASSUME ConfigInv, Active = {}, loop = Free, ~irregular
               PROVE  /\ file # Torn
                      /\ wanted \subseteq file \cap memory
                      /\ (file \cup memory) \ wanted \subseteq deleted
    BY DEF AcceptedConfigurationKept
  <2>1. /\ \A r \in Threads : pc[r] = "idle"
        /\ \A t \in Tasks : taskPc[t] = "idle"
    BY DEF Active, Running, Processing
  <2>2. open = {}
    BY <2>1, ConfigAssumption DEF ConfigInv, TypeOK, Structure, Writers
  <2>3. (\A r \in Threads : ~Lagging(r)) /\ BeingSaved = {}
    BY <2>1 DEF Lagging, BeingSaved
  <2> QED
    BY <2>2, <2>3 DEF ConfigInv, Regular, Fits
<1> QED
  BY <1>1, ConfigInvariance, PTL

(* An operation nothing interfered with has done to the file and the list  *)
(* what it says, an action property (web_ui.py's sensor routes,            *)
(* update_or_add_entry).                                                   *)
THEOREM OperationsApply == Spec => UndisturbedOperationsApply
<1> DEFINE Applied ==
      /\ \A r \in Threads \ disturbed :
           /\ CloseFile(r) /\ pc'[r] = "idle" => file' = copy[r]
           /\ Reload(r) /\ op[r] # "reload" =>
                file' = copy[r] /\ memory' = copy[r]
           /\ Reload(r) /\ file # Torn => memory' = file'
      /\ \A t \in Tasks \ disturbed :
           SaveClose /\ loop = t => ep[t] \in memory' /\ file' = memory'
<1>1. ConfigInv => Applied
  <2> SUFFICES ASSUME ConfigInv PROVE Applied
    OBVIOUS
  <2>1. ASSUME NEW r \in Threads \ disturbed, CloseFile(r)
        PROVE  file' = copy[r]
    <3>1. r \notin clash
      BY ConfigAssumption DEF ConfigInv, UndisturbedInv
    <3> QED
      BY <2>1, <3>1 DEF CloseFile, Flush
  <2>2. ASSUME NEW r \in Threads \ disturbed, Reload(r), op[r] # "reload"
        PROVE  file' = copy[r] /\ memory' = copy[r]
    <3>1. pc[r] = "reload" /\ file' = file
      BY <2>2 DEF Reload
    <3>2. file = copy[r]
      BY <2>2, <3>1 DEF ConfigInv, UndisturbedInv, Lagging
    <3>3. op[r] = "clear" => copy[r] = {}
      BY DEF ConfigInv, Structure
    <3>4. file # Torn
      BY <3>2, ConfigAssumption DEF ConfigInv, TypeOK
    <3> QED
      BY <2>2, <3>1, <3>2, <3>3, <3>4 DEF Reload, Reloaded
  <2>3. ASSUME NEW r \in Threads \ disturbed, Reload(r), file # Torn
        PROVE  memory' = file'
    BY <2>2, <2>3 DEF Reload, Reloaded
  <2>4. ASSUME NEW t \in Tasks \ disturbed, SaveClose, loop = t
        PROVE  ep[t] \in memory' /\ file' = memory'
    <3>1. t \notin clash
      BY ConfigAssumption DEF ConfigInv, UndisturbedInv
    <3>2. ep[t] \in memory
      BY <2>4 DEF ConfigInv, UndisturbedInv, Structure
    <3> QED
      BY <2>4, <3>1, <3>2 DEF SaveClose, Flush
  <2> QED
    BY <2>1, <2>2, <2>3, <2>4
<1>2. ConfigInv => [Applied]_configVars
  BY <1>1
<1>3. [][Applied]_configVars => UndisturbedOperationsApply
  BY DEF UndisturbedOperationsApply
<1> QED
  BY <1>2, <1>3, ConfigInvariance, PTL
=============================================================================
