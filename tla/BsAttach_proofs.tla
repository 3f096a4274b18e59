--------------------------- MODULE BsAttach_proofs ---------------------------
(***************************************************************************)
(* Proofs about BsSession and BsAttach, for any sets of writers and        *)
(* stations, any eviction threshold, any sensor configurations and any     *)
(* bound on operation ids.  Of BsSession: its types, its inductive         *)
(* invariant and that operation ids descend.  Of BsAttach: its behaviours  *)
(* are behaviours of BsSession, its types, that a session in service has   *)
(* asked for every sensor, that it implements StationRegistry, and that a  *)
(* station never has more sensors on record than it acknowledged.          *)
(***************************************************************************)
EXTENDS BsAttach, FiniteSetTheorems, TLAPS

-----------------------------------------------------------------------------
(***************************************************************************)
(* Connections: BsSession by itself                                        *)
(***************************************************************************)

(* What the status task does on to its next await: it is never off, takes  *)
(* one writer at most off the rest of its snapshot, and an operation id is *)
(* kept or decremented.                                                    *)
LEMMA SendNextEffect ==
  ASSUME NEW rest \in SUBSET Writers, NEW ids \in [Writers -> Int],
         SendNext(rest, ids)
  PROVE  /\ statusPc' \in {"sleep", "cycle"}
         /\ todo' \in SUBSET rest
         /\ current' \in rest \cup {None}
         /\ current' \notin todo'
         /\ opIds' \in [Writers -> Int]
         /\ \A w \in Writers : opIds'[w] = ids[w] \/ opIds'[w] = ids[w] - 1
<1>1. CASE rest = {} /\ opIds' = ids
  BY <1>1 DEF SendNext
<1>2. ASSUME NEW w \in rest, current' = w, statusPc' = "cycle",
             todo' = rest \ {w}, opIds' = OpIdTaken(ids, w)
      PROVE  /\ statusPc' \in {"sleep", "cycle"}
             /\ todo' \in SUBSET rest
             /\ current' \in rest \cup {None}
             /\ current' \notin todo'
             /\ opIds' \in [Writers -> Int]
             /\ \A v \in Writers : opIds'[v] = ids[v] \/ opIds'[v] = ids[v] - 1
  BY <1>2, MaxOpsAssumption DEF OpIdTaken
<1> QED
  BY <1>1, <1>2 DEF SendNext

(* Every action of a handler and of the status task keeps the types; the   *)
(* one place where it is not immediate is the failure count, which         *)
(* StatusFailed leaves below the threshold.                                *)
LEMMA InitTypeOK == Init => TypeOK
  BY ThresholdAssumption DEF Init, TypeOK, Phases

(* Every step keeps the types.                                             *)
LEMMA NextTypeOK == TypeOK /\ [Next]_sessionVars => TypeOK'
<1> SUFFICES ASSUME TypeOK, [Next]_sessionVars
             PROVE  TypeOK'
  OBVIOUS
<1> USE DEF TypeOK, Phases
<1>0. CASE UNCHANGED sessionVars
  BY <1>0 DEF sessionVars
<1>1. ASSUME NEW w \in Writers, Handler(w)
      PROVE  TypeOK'
  <2>1. CASE Accept(w)
    BY <2>1 DEF Accept, tables, status
  <2>2. ASSUME NEW b \in Stations, Con(w, b)
        PROVE  TypeOK'
    BY <2>2 DEF Con, status
  <2>3. CASE ConCmpEstablish(w)
    BY <2>3 DEF ConCmpEstablish, Establishes, Popped, Closed, status
  <2>4. CASE ConCmpIgnored(w)
    BY <2>4 DEF ConCmpIgnored, status
  <2>5. CASE AttachDone(w)
    BY <2>5 DEF AttachDone, StartStatusTask, tables
  <2>6. CASE Request(w)
    BY <2>6, MaxOpsAssumption DEF Request, TakeOpId, OpIdTaken, status
  <2>7. CASE HandlerExit(w)
    BY <2>7 DEF HandlerExit, Closed, tables, status
  <2>8. CASE Cleanup(w)
    BY <2>8, ThresholdAssumption DEF Cleanup, Popped, status
  <2>9. CASE WaitClosedRaises(w)
    BY <2>9 DEF WaitClosedRaises, tables, status
  <2>10. CASE ConnectionLost(w)
    BY <2>10 DEF ConnectionLost, tables, status
  <2> QED
    BY <1>1, <2>1, <2>2, <2>3, <2>4, <2>5, <2>6, <2>7, <2>8, <2>9, <2>10
       DEF Handler
<1>2. CASE StatusTask
  <2>1. CASE StatusWake
    BY <2>1, SendNextEffect DEF StatusWake
  <2>2. ASSUME NEW w \in Writers, StatusSent(w)
        PROVE  TypeOK'
    BY <2>2, SendNextEffect, ThresholdAssumption DEF StatusSent
  <2>3. ASSUME NEW w \in Writers, StatusFailed(w)
        PROVE  TypeOK'
    <3>1. failures' \in [Writers -> 0 .. Threshold - 1]
      BY <2>3, ThresholdAssumption DEF StatusFailed, FailCount
    <3> QED
      BY <2>3, <3>1, SendNextEffect DEF StatusFailed
  <2>4. ASSUME NEW w \in Writers, StatusEvict(w)
        PROVE  TypeOK'
    <3>1. Popped(opIds, {w}, -1) \in [Writers -> Int]
      BY DEF Popped
    <3>2. /\ statusPc' \in {"off", "sleep", "cycle"}
          /\ todo' \subseteq Writers
          /\ current' \in Writers \cup {None}
          /\ opIds' \in [Writers -> Int]
      BY <2>4, <3>1, SendNextEffect DEF StatusEvict
    <3> QED
      BY <2>4, <3>2, ThresholdAssumption DEF StatusEvict, Popped, Closed
  <2> QED
    BY <1>2, <2>1, <2>2, <2>3, <2>4 DEF StatusTask
<1> QED
  BY <1>0, <1>1, <1>2 DEF Next

(* Type correctness: every table and every program counter stays in its    *)
(* domain, and a failure count is always below the eviction threshold.     *)
THEOREM TypeCorrectness == Spec => []TypeOK
  BY InitTypeOK, NextTypeOK, PTL DEF Spec

-----------------------------------------------------------------------------
(***************************************************************************)
(* The inductive invariant.  OneConnectionPerStation is inductive by       *)
(* itself; OpenSessionIsListed needs that a session belongs to a           *)
(* connection that was accepted, so that Accept never opens the transport  *)
(* of an established one; CleanExitForgets needs that a status cycle       *)
(* visits a connection once, so that one failure at most comes back.       *)
(***************************************************************************)
EstablishedWasAccepted == \A w \in established : pc[w] # "idle"

VisitedOnce == current \notin todo

SessionInv ==
  /\ OneConnectionPerStation
  /\ OpenSessionIsListed
  /\ StatusTaskWatchesSessions
  /\ CleanExitForgets
  /\ EstablishedWasAccepted
  /\ VisitedOnce

(* The invariant holds at the start.                                       *)
LEMMA InitSessionInv == Init => SessionInv
  BY DEF Init, SessionInv, OneConnectionPerStation, OpenSessionIsListed,
         StatusTaskWatchesSessions, CleanExitForgets, EstablishedWasAccepted,
         VisitedOnce

(* Entering w for the station b of its handshake, after every older        *)
(* connection of b was popped and closed, keeps the invariant.             *)
LEMMA EstablishKeepsSessionInv ==
  ASSUME TypeOK, SessionInv, NEW w \in Writers, ConCmpEstablish(w)
  PROVE  SessionInv'
<1> DEFINE b == connecting[w]
<1> USE DEF TypeOK
<1>1. b \in Stations /\ connected[w] = None /\ pc[w] = "read"
  BY DEF ConCmpEstablish, Establishes
<1>2. \A v \in Writers :
        connected'[v] = IF v = w THEN b
                        ELSE IF connected[v] = b THEN None ELSE connected[v]
  BY DEF ConCmpEstablish, Popped, OldWriters
<1>3. /\ pc' = [pc EXCEPT ![w] = "attach"]
      /\ established' = established \cup {w}
      /\ UNCHANGED <<failures, statusPc, todo, current>>
      /\ correlation' = correlation \cup {w}
      /\ versions' = versions \ OldWriters(b)
  BY DEF ConCmpEstablish, status
<1>4. \A v \in Writers :
        /\ connected[v] = b /\ transport[v] = "open"
             => transport'[v] = "closing"
        /\ transport'[v] = "open" => transport[v] = "open"
  BY DEF ConCmpEstablish, Closed, OldWriters
<1>5. \A v \in Writers : v # w =>
        connecting'[v] = IF connected[v] = b THEN None ELSE connecting[v]
  BY DEF ConCmpEstablish, Popped, OldWriters
<1>6. OneConnectionPerStation'
  BY <1>1, <1>2, NoneAssumption DEF SessionInv, OneConnectionPerStation
<1>7. OpenSessionIsListed'
  BY <1>1, <1>2, <1>3, <1>4, NoneAssumption
     DEF SessionInv, OpenSessionIsListed
<1>8. StatusTaskWatchesSessions'
  BY <1>1, <1>2, <1>3 DEF SessionInv, StatusTaskWatchesSessions
<1>9. CleanExitForgets'
  <2> SUFFICES ASSUME NEW v \in Writers, pc'[v] = "exited"
               PROVE  /\ connected'[v] = None
                      /\ connecting'[v] = None
                      /\ v \notin correlation' \cup versions'
                      /\ failures'[v] \in {0, 1}
                      /\ failures'[v] = 1 => v \notin todo' \cup {current'}
    BY DEF CleanExitForgets
  <2>1. v # w /\ pc[v] = "exited"
    BY <1>1, <1>3
  <2>2. /\ connected[v] = None
        /\ connecting[v] = None
        /\ v \notin correlation \cup versions
        /\ failures[v] \in {0, 1}
        /\ failures[v] = 1 => v \notin todo \cup {current}
    BY <2>1 DEF SessionInv, CleanExitForgets
  <2> QED
    BY <2>1, <2>2, <1>2, <1>3, <1>5
<1>10. EstablishedWasAccepted' /\ VisitedOnce'
  BY <1>1, <1>3 DEF SessionInv, EstablishedWasAccepted, VisitedOnce
<1> QED
  BY <1>6, <1>7, <1>8, <1>9, <1>10 DEF SessionInv

(* A step of the status task keeps it: the failure it counts for a         *)
(* connection whose cleanup is done is the first one, and the cycle will   *)
(* not visit that connection again.                                        *)
LEMMA StatusKeepsSessionInv ==
  ASSUME TypeOK, SessionInv, StatusTask
  PROVE  SessionInv'
<1> USE DEF TypeOK
<1>1. PICK rest \in SUBSET Writers, ids \in [Writers -> Int] :
        /\ SendNext(rest, ids)
        /\ \/ rest = todo
           \/ rest = {w \in Writers : connected[w] # None}
  <2>1. CASE \E w \in Writers : StatusEvict(w)
    <3>1. PICK w \in Writers : SendNext(todo, Popped(opIds, {w}, -1))
      BY <2>1 DEF StatusEvict
    <3>2. Popped(opIds, {w}, -1) \in [Writers -> Int]
      BY DEF Popped
    <3> QED
      BY <3>1, <3>2
  <2> QED
    BY <2>1 DEF StatusTask, StatusWake, StatusSent, StatusFailed
<1>2. /\ todo' \subseteq rest
      /\ current' \in rest \cup {None}
      /\ current' \notin todo'
      /\ statusPc' # "off"
  BY <1>1, SendNextEffect
<1>3. /\ pc' = pc /\ established' = established
      /\ UNCHANGED <<connecting, correlation>>
      /\ versions' \subseteq versions
      /\ \A w \in Writers :
           /\ connected'[w] \in {connected[w], None}
           /\ transport'[w] = "open"
                => transport[w] = "open" /\ connected'[w] = connected[w]
           /\ \/ failures'[w] \in {failures[w], 0}
              \/ failures'[w] = failures[w] + 1 /\ w = current
  <2>1. CASE StatusWake \/ \E w \in Writers : StatusSent(w)
    BY <2>1 DEF StatusWake, StatusSent
  <2>2. CASE \E w \in Writers : StatusFailed(w)
    BY <2>2 DEF StatusFailed, FailCount
  <2>3. CASE \E w \in Writers : StatusEvict(w)
    BY <2>3 DEF StatusEvict, Popped, Closed
  <2> QED
    BY <2>1, <2>2, <2>3 DEF StatusTask
<1>4. /\ OneConnectionPerStation' /\ OpenSessionIsListed'
      /\ StatusTaskWatchesSessions' /\ EstablishedWasAccepted'
  BY <1>2, <1>3
     DEF SessionInv, OneConnectionPerStation, OpenSessionIsListed,
         StatusTaskWatchesSessions, EstablishedWasAccepted
<1>5. CleanExitForgets'
  <2> SUFFICES ASSUME NEW v \in Writers, pc'[v] = "exited"
               PROVE  /\ connected'[v] = None
                      /\ connecting'[v] = None
                      /\ v \notin correlation' \cup versions'
                      /\ failures'[v] \in {0, 1}
                      /\ failures'[v] = 1 => v \notin todo' \cup {current'}
    BY DEF CleanExitForgets
  <2>1. /\ connected[v] = None
        /\ connecting[v] = None
        /\ v \notin correlation \cup versions
        /\ failures[v] \in {0, 1}
        /\ failures[v] = 1 => v \notin todo \cup {current}
    BY <1>3 DEF SessionInv, CleanExitForgets
  <2>2. v \in todo' \cup {current'} => v \in todo
    BY <1>1, <1>2, <2>1, NoneAssumption
  <2>3. v = current => v \notin todo
    BY DEF SessionInv, VisitedOnce
  <2> QED
    BY <1>3, <2>1, <2>2, <2>3
<1> QED
  BY <1>2, <1>4, <1>5 DEF SessionInv, VisitedOnce

(* Every step keeps the invariant.                                         *)
LEMMA NextSessionInv ==
  TypeOK /\ SessionInv /\ [Next]_sessionVars => SessionInv'
<1> SUFFICES ASSUME TypeOK, SessionInv, [Next]_sessionVars
             PROVE  SessionInv'
  OBVIOUS
<1> USE DEF TypeOK, SessionInv, OneConnectionPerStation, OpenSessionIsListed,
            StatusTaskWatchesSessions, CleanExitForgets,
            EstablishedWasAccepted, VisitedOnce
<1>0. CASE UNCHANGED sessionVars
  BY <1>0 DEF sessionVars
<1>1. ASSUME NEW w \in Writers, Handler(w)
      PROVE  SessionInv'
  <2>1. CASE Accept(w)
    BY <2>1 DEF Accept, tables, status
  <2>2. ASSUME NEW b \in Stations, Con(w, b)
        PROVE  SessionInv'
    BY <2>2 DEF Con, status
  <2>3. CASE ConCmpEstablish(w)
    BY <2>3, EstablishKeepsSessionInv
  <2>4. CASE ConCmpIgnored(w)
    BY <2>4 DEF ConCmpIgnored, status
  <2>5. CASE AttachDone(w)
    BY <2>5 DEF AttachDone, StartStatusTask, tables
  <2>6. CASE Request(w)
    BY <2>6 DEF Request, status
  <2>7. CASE HandlerExit(w)
    BY <2>7 DEF HandlerExit, Closed, tables, status
  <2>8. CASE Cleanup(w)
    BY <2>8 DEF Cleanup, Popped, status
  <2>9. CASE WaitClosedRaises(w)
    BY <2>9 DEF WaitClosedRaises, tables, status
  <2>10. CASE ConnectionLost(w)
    BY <2>10 DEF ConnectionLost, tables, status
  <2> QED
    BY <1>1, <2>1, <2>2, <2>3, <2>4, <2>5, <2>6, <2>7, <2>8, <2>9, <2>10
       DEF Handler
<1>2. CASE StatusTask
  BY <1>2, StatusKeepsSessionInv
<1> QED
  BY <1>0, <1>1, <1>2 DEF Next

(* The inductive invariant holds in every reachable state.                 *)
THEOREM SessionInvariance == Spec => [](TypeOK /\ SessionInv)
<1>1. Init => TypeOK /\ SessionInv
  BY InitTypeOK, InitSessionInv
<1>2. TypeOK /\ SessionInv /\ [Next]_sessionVars => (TypeOK /\ SessionInv)'
  BY NextTypeOK, NextSessionInv
<1> QED
  BY <1>1, <1>2, PTL DEF Spec

(* However many connections and stations there are, and however their      *)
(* handshakes, evictions and cleanups interleave, a station is served by   *)
(* at most one listed connection.                                          *)
THEOREM AtMostOneConnection == Spec => []OneConnectionPerStation
<1>1. SessionInv => OneConnectionPerStation
  BY DEF SessionInv
<1> QED
  BY <1>1, SessionInvariance, PTL

(* An open connection with a finished handshake is always listed.          *)
THEOREM OpenSessionsAreListed == Spec => []OpenSessionIsListed
<1>1. SessionInv => OpenSessionIsListed
  BY DEF SessionInv
<1> QED
  BY <1>1, SessionInvariance, PTL

(* A connection past its batch attach is watched by the status task.       *)
THEOREM SessionsAreWatched == Spec => []StatusTaskWatchesSessions
<1>1. SessionInv => StatusTaskWatchesSessions
  BY DEF SessionInv
<1> QED
  BY <1>1, SessionInvariance, PTL

(* The operation ids of a listed connection only descend: conCmp restarts  *)
(* the counter of a connection that is not listed before the step, the     *)
(* eviction and the cleanup that of one that is not listed after it.       *)
THEOREM OpIdsDescend == Spec => OpIdsOnlyDescend
<1> DEFINE Descends ==
      \A w \in Writers :
        connected[w] # None /\ connected'[w] # None => opIds'[w] <= opIds[w]
<1>1. TypeOK /\ [Next]_sessionVars => [Descends]_sessionVars
  <2> SUFFICES ASSUME TypeOK, Next
               PROVE  Descends
    OBVIOUS
  <2> USE DEF TypeOK
  <2>1. ASSUME opIds' = opIds
        PROVE  Descends
    BY <2>1
  <2>2. ASSUME NEW w \in Writers, TakeOpId(w)
        PROVE  Descends
    BY <2>2, MaxOpsAssumption DEF TakeOpId, OpIdTaken
  <2>3. ASSUME NEW w \in Writers, ConCmpEstablish(w)
        PROVE  Descends
    BY <2>3 DEF ConCmpEstablish, Establishes, Popped, OldWriters
  <2>4. ASSUME NEW w \in Writers, Cleanup(w)
        PROVE  Descends
    BY <2>4 DEF Cleanup, Popped
  <2>5. ASSUME NEW w \in Writers, Handler(w)
        PROVE  Descends
    BY <2>5, <2>1, <2>2, <2>3, <2>4
       DEF Handler, Accept, Con, ConCmpIgnored, AttachDone, Request,
           HandlerExit, WaitClosedRaises, ConnectionLost, tables
  <2>6. CASE StatusWake \/ \E w \in Writers : StatusSent(w) \/ StatusFailed(w)
    <3>1. \E rest \in SUBSET Writers : SendNext(rest, opIds)
      BY <2>6 DEF StatusWake, StatusSent, StatusFailed
    <3>2. \A w \in Writers : opIds'[w] = opIds[w] \/ opIds'[w] = opIds[w] - 1
      BY <3>1, SendNextEffect
    <3> QED
      BY <3>2
  <2>7. ASSUME NEW w \in Writers, StatusEvict(w)
        PROVE  Descends
    <3>1. Popped(opIds, {w}, -1) \in [Writers -> Int]
      BY DEF Popped
    <3>2. \A v \in Writers : v # w => opIds'[v] <= opIds[v]
      BY <2>7, <3>1, SendNextEffect DEF StatusEvict, Popped
    <3> QED
      BY <2>7, <3>2 DEF StatusEvict, Popped
  <2> QED
    BY <2>5, <2>6, <2>7 DEF Next, StatusTask
<1> QED
  BY <1>1, TypeCorrectness, PTL DEF Spec, OpIdsOnlyDescend

(* A handler that finished its cleanup left its connection in none of the  *)
(* four tables that decide about it, and the failure count a status cycle  *)
(* may put back is 1 and is never counted up.                              *)
THEOREM CleanExitsForget == Spec => []CleanExitForgets
<1>1. SessionInv => CleanExitForgets
  BY DEF SessionInv
<1> QED
  BY <1>1, SessionInvariance, PTL

-----------------------------------------------------------------------------
(***************************************************************************)
(* Sensors: BsAttach                                                       *)
(***************************************************************************)

(* Whatever the attachment code does to a session is a step of BsSession.  *)
LEMMA AttachStepIsSessionStep == [AttachNext]_vars => [Next]_sessionVars
<1> SUFFICES ASSUME [AttachNext]_vars
             PROVE  [Next]_sessionVars
  OBVIOUS
<1>1. CASE UNCHANGED vars
  BY <1>1 DEF vars
<1>2. ASSUME NEW w \in Writers, AttachStep(w)
      PROVE  [Next]_sessionVars
  <2>1. CASE OpenSession(w)
    BY <2>1 DEF OpenSession, Next, Handler
  <2>2. CASE CloseSession(w)
    BY <2>2 DEF CloseSession, Next, Handler
  <2>3. CASE BatchPass(w) \/ BatchSent(w) \/ BatchSendFailed(w)
    BY <2>3 DEF BatchPass, BatchSent, BatchSendFailed
  <2>4. CASE BatchRefuse(w) \/ BatchSend(w)
    BY <2>4 DEF BatchRefuse, BatchSend, Next, Handler
  <2>5. CASE BatchDone(w)
    BY <2>5 DEF BatchDone, Next, Handler
  <2>6. CASE \E n \in DOMAIN asked[w] :
               AttachResponse(w, n) \/ AttachRefusal(w, n)
    BY <2>6 DEF AttachResponse, AttachRefusal, Next, Handler
  <2>7. CASE \E s \in Sensors : Detach(w, s)
    BY <2>7 DEF Detach, Next, Handler
  <2>8. CASE \E s \in Others : AttachRequest(w, s)
    BY <2>8 DEF AttachRequest, Next, Handler
  <2>9. CASE \E n \in DOMAIN sending[w] :
               AttachRequested(w, n) \/ AttachRequestFailed(w, n)
    BY <2>9 DEF AttachRequested, AttachRequestFailed
  <2> QED
    BY <1>2, <2>1, <2>2, <2>3, <2>4, <2>5, <2>6, <2>7, <2>8, <2>9
       DEF AttachStep
<1>3. ASSUME NEW w \in Writers, SessionOnly(w)
      PROVE  [Next]_sessionVars
  BY <1>3 DEF SessionOnly, Next, Handler
<1>4. CASE StatusTask
  BY <1>4 DEF Next
<1>5. CASE ConfigStep
  BY <1>5 DEF ConfigStep, Configure, Reload, Clear
<1> QED
  BY <1>1, <1>2, <1>3, <1>4, <1>5 DEF AttachNext

(* Every behaviour of BsAttach is one of BsSession, so what is proved of   *)
(* sessions holds while sensors are attached.                              *)
THEOREM AttachRefinesSession == AttachSpec => Spec
<1>1. AttachInit => Init
  BY DEF AttachInit
<1> QED
  BY <1>1, AttachStepIsSessionStep, PTL DEF AttachSpec, Spec

-----------------------------------------------------------------------------
(***************************************************************************)
(* Types                                                                   *)
(***************************************************************************)

(* Storing and deleting keep the table of pending requests a sequence.     *)
LEMMA StoredType ==
  ASSUME NEW d \in Seq(Operation), NEW op \in Int, NEW s \in Sensors
  PROVE  Stored(d, op, s) \in Seq(Operation)
<1>1. [op |-> op, sensor |-> s] \in Operation
  BY DEF Operation
<1>2. CASE \E i \in DOMAIN d : d[i].op = op
  <2> DEFINE e == [i \in DOMAIN d |->
          IF d[i].op = op THEN [op |-> op, sensor |-> s] ELSE d[i]]
  <2>1. e \in [1 .. Len(d) -> Operation]
    BY <1>1
  <2>2. e \in Seq(Operation)
    BY <2>1
  <2> QED
    BY <1>2, <2>2 DEF Stored
<1>3. CASE ~ \E i \in DOMAIN d : d[i].op = op
  BY <1>1, <1>3 DEF Stored
<1> QED
  BY <1>2, <1>3

(* Deleting a pending request, likewise.                                   *)
LEMMA DeletedType ==
  ASSUME NEW d \in Seq(Operation), NEW i \in DOMAIN d
  PROVE  Deleted(d, i) \in Seq(Operation)
<1>1. Len(d) \in Nat /\ i \in 1 .. Len(d)
  OBVIOUS
<1>2. Deleted(d, i) \in [1 .. Len(d) - 1 -> Operation]
  BY <1>1 DEF Deleted
<1> QED
  BY <1>1, <1>2

(* An answer is correlated with a pending request.                         *)
LEMMA CorrelatedIsPending ==
  ASSUME pending \in Seq(Operation), NEW op, NEW i \in Correlated(op)
  PROVE  i \in DOMAIN pending /\ pending[i] \in Operation
  BY DEF Correlated, Matches

AttachTypes ==
  /\ registered \in [Sensors -> SUBSET (Stations \cup {None})]
  /\ pending \in Seq(Operation)
  /\ config \in Seq(Sensors)
  /\ batch \in [Writers -> Seq(Sensors)]
  /\ live \in SUBSET Writers
  /\ pos \in [Writers -> Nat]
  /\ draining \in [Writers -> Int]
  /\ sending \in [Writers -> Seq(Operation)]
  /\ asked \in [Writers -> Seq(Operation)]
  /\ acked \in [Writers -> Seq(Operation)]
  /\ requested \in [Writers -> SUBSET Sensors]

(* Where a batch is: a position on its list or just past it; a drain is    *)
(* awaited, and the list is the configuration's own, only inside the batch.*)
BatchState ==
  \A w \in Writers :
    /\ pos[w] \in 1 .. Len(batch[w]) + 1
    /\ draining[w] # 0 => pc[w] = "attach" /\ pos[w] <= Len(batch[w])
    /\ w \in live => pc[w] = "attach"

Types == TypeOK /\ AttachTypes /\ BatchState

(* The types hold at the start.                                            *)
LEMMA InitTypes == AttachInit => Types
<1> SUFFICES ASSUME AttachInit
             PROVE  Types
  OBVIOUS
<1>1. TypeOK
  BY InitTypeOK DEF AttachInit
<1>2. AttachTypes /\ BatchState
  BY ConfigAssumption DEF AttachInit, AttachTypes, BatchState
<1> QED
  BY <1>1, <1>2 DEF Types

(* A list of sensors and its members.                                      *)
LEMMA BatchAt ==
  ASSUME AttachTypes, NEW w \in Writers
  PROVE  /\ Len(batch[w]) \in Nat /\ pos[w] \in Nat
         /\ \A i \in 1 .. Len(batch[w]) : batch[w][i] \in Sensors
  BY DEF AttachTypes

(* The handlers of the batch keep their place in it when another step is   *)
(* taken, and a batch is left only at its end.                             *)
LEMMA OthersKeepBatchState ==
  ASSUME BatchState, UNCHANGED batchVars,
         \A w \in Writers : pc[w] = "attach" => pc'[w] = "attach"
  PROVE  BatchState'
  BY DEF BatchState, batchVars, walkVars

(* A step of the batch of w that goes on or breaks off.                    *)
LEMMA BatchKeepsTypes ==
  ASSUME AttachTypes, BatchState, NEW w \in Writers, pc[w] = "attach",
         pos[w] <= Len(batch[w]), BatchGoesOn(w) \/ BatchBreaks(w),
         draining' \in [Writers -> Int], draining'[w] = 0,
         \A v \in Writers \ {w} : draining'[v] = draining[v],
         pc' = pc
  PROVE  /\ config' = config /\ batch' = batch
         /\ live' \in SUBSET Writers
         /\ pos' \in [Writers -> Nat]
         /\ BatchState'
<1> USE DEF AttachTypes
<1>1. /\ config' = config /\ batch' = batch
      /\ live' \subseteq live
  BY DEF BatchGoesOn, BatchBreaks, walkVars
<1>2. /\ pos' \in [Writers -> Nat]
      /\ pos'[w] \in 1 .. Len(batch[w]) + 1
      /\ \A v \in Writers \ {w} : pos'[v] = pos[v]
  BY DEF BatchGoesOn, BatchBreaks, BatchState
<1>3. BatchState'
  <2> SUFFICES ASSUME NEW v \in Writers
               PROVE  /\ pos'[v] \in 1 .. Len(batch'[v]) + 1
                      /\ draining'[v] # 0
                           => pc'[v] = "attach" /\ pos'[v] <= Len(batch'[v])
                      /\ v \in live' => pc'[v] = "attach"
    BY DEF BatchState
  <2> QED
    BY <1>1, <1>2 DEF BatchState
<1> QED
  BY <1>1, <1>2, <1>3

(* What appending a sensor does to the lists of the batches.               *)
LEMMA ConfigureKeepsTypes ==
  ASSUME AttachTypes, BatchState, NEW s \in Sensors, Configure(s)
  PROVE  AttachTypes' /\ BatchState'
<1> USE DEF AttachTypes
<1>1. /\ UNCHANGED <<registered, pending, live, pos, draining, requested,
                     sending, asked, acked, pc>>
      /\ config' = Append(config, s)
      /\ batch' = [w \in Writers |->
                     IF w \in live THEN Append(batch[w], s) ELSE batch[w]]
  BY DEF Configure, sessionVars
<1>2. config' \in Seq(Sensors) /\ batch' \in [Writers -> Seq(Sensors)]
  BY <1>1
<1>3. \A w \in Writers :
        Len(batch'[w]) \in Nat /\ Len(batch'[w]) >= Len(batch[w])
  BY <1>1
<1>4. BatchState'
  <2> SUFFICES ASSUME NEW v \in Writers
               PROVE  /\ pos'[v] \in 1 .. Len(batch'[v]) + 1
                      /\ draining'[v] # 0
                           => pc'[v] = "attach" /\ pos'[v] <= Len(batch'[v])
                      /\ v \in live' => pc'[v] = "attach"
    BY DEF BatchState
  <2>1. /\ pos[v] \in 1 .. Len(batch[v]) + 1
        /\ draining[v] # 0 => pc[v] = "attach" /\ pos[v] <= Len(batch[v])
        /\ v \in live => pc[v] = "attach"
    BY DEF BatchState
  <2>2. Len(batch[v]) \in Nat /\ pos[v] \in Nat
    BY BatchAt
  <2> QED
    BY <1>1, <1>3, <2>1, <2>2
<1> QED
  BY <1>1, <1>2, <1>4

(* Every step keeps the types.                                             *)
LEMMA NextTypes == Types /\ [AttachNext]_vars => Types'
<1> SUFFICES ASSUME TypeOK, AttachTypes, BatchState, [AttachNext]_vars
             PROVE  AttachTypes' /\ BatchState'
  BY NextTypeOK, AttachStepIsSessionStep DEF Types
<1> USE DEF AttachTypes, batchVars, walkVars
<1>1. ASSUME UNCHANGED attachVars,
             \A w \in Writers : pc[w] = "attach" => pc'[w] = "attach"
      PROVE  AttachTypes' /\ BatchState'
  BY <1>1, OthersKeepBatchState DEF attachVars
<1>2. ASSUME NEW w \in Writers, AttachStep(w)
      PROVE  AttachTypes' /\ BatchState'
  <2>1. CASE OpenSession(w)
    <3>1. /\ pc[w] = "read" /\ draining' = draining
          /\ pc' = [pc EXCEPT ![w] = "attach"]
          /\ batch' = [batch EXCEPT ![w] = config]
          /\ live' = live \cup {w}
          /\ pos' = [pos EXCEPT ![w] = 1]
      BY <2>1 DEF OpenSession, ConCmpEstablish
    <3>2. AttachTypes'
      BY <2>1, <3>1 DEF OpenSession, Purged
    <3>3. BatchState'
      <4> SUFFICES ASSUME NEW v \in Writers
                   PROVE  /\ pos'[v] \in 1 .. Len(batch'[v]) + 1
                          /\ draining'[v] # 0 => /\ pc'[v] = "attach"
                                                /\ pos'[v] <= Len(batch'[v])
                          /\ v \in live' => pc'[v] = "attach"
        BY DEF BatchState
      <4>1. CASE v = w
        BY <3>1, <4>1 DEF BatchState, TypeOK
      <4>2. CASE v # w
        BY <3>1, <4>2 DEF BatchState, TypeOK
      <4> QED
        BY <4>1, <4>2
    <3> QED
      BY <3>2, <3>3
  <2>2. CASE CloseSession(w)
    <3>1. \A v \in Writers : pc[v] = "attach" => pc'[v] = "attach"
      BY <2>2 DEF CloseSession, Cleanup, TypeOK
    <3>2. AttachTypes'
      BY <2>2 DEF CloseSession, Purged
    <3> QED
      BY <2>2, <3>1, <3>2, OthersKeepBatchState DEF CloseSession
  <2>3. CASE BatchPass(w)
    <3>1. /\ pc[w] = "attach" /\ draining[w] = 0 /\ pos[w] <= Len(batch[w])
          /\ BatchGoesOn(w) \/ BatchBreaks(w)
          /\ UNCHANGED <<pc, registered, pending, draining, sending, asked,
                         acked, requested>>
      BY <2>3 DEF BatchPass, InBatch, sessionVars
    <3>2. /\ config' = config /\ batch' = batch /\ live' \in SUBSET Writers
          /\ pos' \in [Writers -> Nat] /\ BatchState'
      BY <3>1, BatchKeepsTypes
    <3> QED
      BY <3>1, <3>2
  <2>4. CASE BatchRefuse(w)
    <3>1. /\ pc[w] = "attach" /\ draining[w] = 0 /\ pos[w] <= Len(batch[w])
          /\ BatchGoesOn(w)
          /\ UNCHANGED <<pc, registered, pending, draining, sending, asked,
                         acked, requested>>
      BY <2>4 DEF BatchRefuse, InBatch, Request
    <3>2. /\ config' = config /\ batch' = batch /\ live' \in SUBSET Writers
          /\ pos' \in [Writers -> Nat] /\ BatchState'
      BY <3>1, BatchKeepsTypes
    <3> QED
      BY <3>1, <3>2
  <2>5. CASE BatchSend(w)
    <3> DEFINE s == batch[w][pos[w]]
    <3>1. /\ pc[w] = "attach" /\ pos[w] \in 1 .. Len(batch[w])
          /\ s \in Sensors /\ opIds[w] \in Int
      BY <2>5, BatchAt DEF BatchSend, InBatch, TypeOK, BatchState
    <3>2. [op |-> opIds[w], sensor |-> s] \in Operation
      BY <3>1 DEF Operation
    <3>3. /\ UNCHANGED <<config, batch, live, registered, pending, pos,
                         sending, acked, pc>>
          /\ draining' = [draining EXCEPT ![w] = opIds[w]]
          /\ requested' = [requested EXCEPT ![w] = @ \cup {s}]
      BY <2>5 DEF BatchSend, Request
    <3>4. asked' \in [Writers -> Seq(Operation)]
      BY <2>5, <3>2 DEF BatchSend, Asks
    <3>5. AttachTypes'
      BY <3>1, <3>3, <3>4
    <3>6. BatchState'
      BY <3>1, <3>3 DEF BatchState
    <3> QED
      BY <3>5, <3>6
  <2>6. CASE BatchSent(w)
    <3>1. /\ pc[w] = "attach" /\ pos[w] \in 1 .. Len(batch[w])
          /\ draining[w] \in Int /\ batch[w][pos[w]] \in Sensors
      BY <2>6, BatchAt DEF BatchSent, BatchState
    <3>2. /\ BatchGoesOn(w)
          /\ draining' = [draining EXCEPT ![w] = 0]
          /\ UNCHANGED <<pc, registered, sending, asked, acked, requested>>
          /\ pending' = Stored(pending, draining[w], batch[w][pos[w]])
      BY <2>6 DEF BatchSent, sessionVars
    <3>3. pending' \in Seq(Operation)
      BY <3>1, <3>2, StoredType
    <3>4. /\ config' = config /\ batch' = batch /\ live' \in SUBSET Writers
          /\ pos' \in [Writers -> Nat] /\ BatchState'
      BY <3>1, <3>2, BatchAt, BatchKeepsTypes
    <3>5. draining' \in [Writers -> Int]
      BY <3>2
    <3> QED
      BY <3>2, <3>3, <3>4, <3>5
  <2>7. CASE BatchSendFailed(w)
    <3>1. /\ pc[w] = "attach" /\ pos[w] \in 1 .. Len(batch[w])
          /\ BatchGoesOn(w) \/ BatchBreaks(w)
          /\ draining' = [draining EXCEPT ![w] = 0]
          /\ UNCHANGED <<pc, registered, pending, sending, asked, acked,
                         requested>>
      BY <2>7 DEF BatchSendFailed, BatchState, sessionVars
    <3>2. /\ config' = config /\ batch' = batch /\ live' \in SUBSET Writers
          /\ pos' \in [Writers -> Nat] /\ BatchState'
      BY <3>1, BatchAt, BatchKeepsTypes
    <3>3. draining' \in [Writers -> Int]
      BY <3>1
    <3> QED
      BY <3>1, <3>2, <3>3
  <2>8. CASE BatchDone(w)
    <3>1. /\ UNCHANGED <<config, batch, registered, pending, pos, draining,
                         requested, sending, asked, acked>>
          /\ draining[w] = 0 /\ live' = live \ {w}
          /\ pc' = [pc EXCEPT ![w] = "read"]
      BY <2>8 DEF BatchDone, AttachDone
    <3> QED
      BY <3>1 DEF BatchState, TypeOK
  <2>9. ASSUME NEW n \in DOMAIN asked[w], AttachResponse(w, n)
        PROVE  AttachTypes' /\ BatchState'
    <3>1. connected[w] \in Stations \cup {None}
      BY DEF TypeOK
    <3>2. asked[w] \in Seq(Operation) /\ asked[w][n] \in Operation
      OBVIOUS
    <3>3. asked' \in [Writers -> Seq(Operation)]
      BY <2>9, DeletedType DEF AttachResponse
    <3>4. acked' \in [Writers -> Seq(Operation)]
      BY <2>9, <3>2 DEF AttachResponse
    <3>5. /\ registered' \in [Sensors -> SUBSET (Stations \cup {None})]
          /\ pending' \in Seq(Operation)
      <4>1. CASE Correlated(asked[w][n].op) = {}
        BY <2>9, <4>1 DEF AttachResponse
      <4>2. CASE Correlated(asked[w][n].op) # {}
        <5>1. PICK i \in Correlated(asked[w][n].op) :
                /\ registered' =
                     [registered EXCEPT
                        ![pending[i].sensor] = @ \cup {connected[w]}]
                /\ pending' = Deleted(pending, i)
          BY <2>9, <4>2 DEF AttachResponse
        <5>2. pending' \in Seq(Operation)
          BY <5>1, CorrelatedIsPending, DeletedType
        <5>3. registered' \in [Sensors -> SUBSET (Stations \cup {None})]
          BY <5>1, <3>1
        <5> QED
          BY <5>2, <5>3
      <4> QED
        BY <4>1, <4>2
    <3>6. \A v \in Writers : pc[v] = "attach" => pc'[v] = "attach"
      BY <2>9 DEF AttachResponse, HandlerExit, sessionVars, TypeOK
    <3> QED
      BY <2>9, <3>3, <3>4, <3>5, <3>6, OthersKeepBatchState
         DEF AttachResponse
  <2>10. ASSUME NEW n \in DOMAIN asked[w], AttachRefusal(w, n)
         PROVE  AttachTypes' /\ BatchState'
    <3>1. asked' \in [Writers -> Seq(Operation)]
      BY <2>10, DeletedType DEF AttachRefusal
    <3> QED
      BY <2>10, <3>1, OthersKeepBatchState DEF AttachRefusal, sessionVars
  <2>11. ASSUME NEW s \in Sensors, Detach(w, s)
         PROVE  AttachTypes' /\ BatchState'
    BY <2>11, OthersKeepBatchState DEF Detach, AfterDetach, Request
  <2>12. ASSUME NEW s \in Others, AttachRequest(w, s)
         PROVE  AttachTypes' /\ BatchState'
    <3>1. [op |-> opIds[w], sensor |-> s] \in Operation
      BY ConfigAssumption DEF Operation, TypeOK
    <3>2. UNCHANGED <<registered, pending, batchVars, acked, pc>>
      BY <2>12 DEF AttachRequest, Request
    <3>3. BatchState'
      BY <3>2, OthersKeepBatchState
    <3>4. CASE s \in Malformed
      BY <2>12, <3>2, <3>3, <3>4 DEF AttachRequest
    <3>5. CASE s \notin Malformed
      <4> DEFINE r == [op |-> opIds[w], sensor |-> s]
      <4>1. /\ sending' = [sending EXCEPT ![w] = Append(@, r)]
            /\ Asks(w, r)
        BY <2>12, <3>5 DEF AttachRequest
      <4>2. sending' \in [Writers -> Seq(Operation)]
        BY <3>1, <4>1
      <4>3. asked' \in [Writers -> Seq(Operation)]
        BY <3>1, <4>1 DEF Asks
      <4> QED
        BY <3>2, <3>3, <4>2, <4>3
    <3> QED
      BY <3>4, <3>5
  <2>13. ASSUME NEW n \in DOMAIN sending[w], AttachRequested(w, n)
         PROVE  AttachTypes' /\ BatchState'
    <3>1. sending[w] \in Seq(Operation) /\ sending[w][n] \in Operation
      OBVIOUS
    <3>2. sending[w][n].op \in Int /\ sending[w][n].sensor \in Sensors
      BY <3>1 DEF Operation
    <3>3. pending' \in Seq(Operation)
      BY <2>13, <3>2, StoredType DEF AttachRequested
    <3>4. sending' \in [Writers -> Seq(Operation)]
      BY <2>13, <3>1, DeletedType DEF AttachRequested
    <3> QED
      BY <2>13, <3>3, <3>4, OthersKeepBatchState
         DEF AttachRequested, sessionVars
  <2>14. ASSUME NEW n \in DOMAIN sending[w], AttachRequestFailed(w, n)
         PROVE  AttachTypes' /\ BatchState'
    <3>1. sending' \in [Writers -> Seq(Operation)]
      BY <2>14, DeletedType DEF AttachRequestFailed
    <3> QED
      BY <2>14, <3>1, OthersKeepBatchState
         DEF AttachRequestFailed, sessionVars
  <2> QED
    BY <1>2, <2>1, <2>2, <2>3, <2>4, <2>5, <2>6, <2>7, <2>8, <2>9, <2>10,
       <2>11, <2>12, <2>13, <2>14 DEF AttachStep
<1>3. CASE ConfigStep
  <2>1. ASSUME NEW s \in Others, Configure(s)
        PROVE  AttachTypes' /\ BatchState'
    BY <2>1, ConfigAssumption, ConfigureKeepsTypes
  <2>2. CASE Reload
    BY <2>2, ConfigAssumption DEF Reload, KeptOf, BatchState, sessionVars
  <2>3. CASE Clear
    BY <2>3 DEF Clear, KeptOf, BatchState, sessionVars
  <2> QED
    BY <1>3, <2>1, <2>2, <2>3 DEF ConfigStep
<1>4. ASSUME NEW w \in Writers, SessionOnly(w), UNCHANGED attachVars
      PROVE  AttachTypes' /\ BatchState'
  <2>1. \A v \in Writers : pc[v] = "attach" => pc'[v] = "attach"
    BY <1>4 DEF SessionOnly, Accept, Con, ConCmpIgnored, HandlerExit,
                WaitClosedRaises, ConnectionLost, TypeOK
  <2> QED
    BY <1>1, <1>4, <2>1
<1>5. ASSUME StatusTask, UNCHANGED attachVars
      PROVE  AttachTypes' /\ BatchState'
  BY <1>1, <1>5 DEF StatusTask, StatusWake, StatusSent, StatusFailed,
                    StatusEvict
<1>6. CASE UNCHANGED vars
  BY <1>1, <1>6 DEF vars, sessionVars
<1> QED
  BY <1>2, <1>3, <1>4, <1>5, <1>6 DEF AttachNext

(* Type correctness of the attachment state.                               *)
THEOREM AttachTypeCorrectness == AttachSpec => []AttachTypeOK
<1>1. Types => AttachTypeOK
  BY DEF Types, AttachTypes, BatchState, AttachTypeOK
<1> QED
  BY <1>1, InitTypes, NextTypes, PTL DEF AttachSpec

-----------------------------------------------------------------------------
(***************************************************************************)
(* A session in service has asked for every sensor of the list its batch   *)
(* walked.  The argument: the purge empties the station's records when the *)
(* batch starts; only the station's own connection could add one, there is *)
(* only one such connection, and its handler reads no answer before the    *)
(* batch is over; a reload or clear takes records away.  So the batch      *)
(* skips nothing, and it is cut short only on a connection that is not     *)
(* listed or lost, which later stays so.  What is appended to its list     *)
(* comes after the sensors it has passed, and after the batch the list is  *)
(* not live any more.                                                      *)
(***************************************************************************)

(* No record of the station during the batch.                              *)
NoRecordInBatch ==
  \A w \in Writers :
    pc[w] = "attach" /\ connected[w] # None
      => \A s \in Sensors : connected[w] \notin registered[s]

(* What the batch has passed it has asked for, and also what it is sending.*)
BatchAsked ==
  \A w \in Writers :
    pc[w] = "attach" /\ connected[w] # None /\ transport[w] = "open"
      => \A i \in DOMAIN batch[w] :
           i < pos[w] \/ (i = pos[w] /\ draining[w] # 0)
             => batch[w][i] \in Malformed \cup requested[w]

(* Operation ids are negative, so 0 marks that no drain is awaited.        *)
OpIdsNegative == \A w \in Writers : opIds[w] < 0

(* A connection is listed only after it was accepted.                      *)
ListedWasAccepted == \A w \in Writers : connected[w] # None => pc[w] # "idle"

AskInv ==
  /\ NoRecordInBatch
  /\ BatchAsked
  /\ OpIdsNegative
  /\ ListedWasAccepted
  /\ SessionAsksEverySensor

(* The invariant of the batch holds at the start.                          *)
LEMMA InitAskInv == AttachInit => AskInv
  BY DEF AttachInit, Init, AskInv, NoRecordInBatch, BatchAsked,
         OpIdsNegative, ListedWasAccepted, SessionAsksEverySensor

(* An operation id is kept, decremented or set back to -1.                 *)
LEMMA OpIdsStayNegative ==
  ASSUME opIds \in [Writers -> Int], OpIdsNegative,
         \A v \in Writers : \/ opIds'[v] = opIds[v]
                            \/ opIds'[v] = opIds[v] - 1
                            \/ opIds'[v] = -1
  PROVE  OpIdsNegative'
<1> SUFFICES ASSUME NEW v \in Writers
             PROVE  opIds'[v] < 0
  BY DEF OpIdsNegative
<1>1. opIds[v] \in Int /\ opIds[v] < 0
  BY DEF OpIdsNegative
<1> QED
  BY <1>1

(* The status cycle leaves operation ids negative.                         *)
LEMMA SendNextStaysNegative ==
  ASSUME NEW rest \in SUBSET Writers, NEW ids \in [Writers -> Int],
         \A v \in Writers : ids[v] < 0, SendNext(rest, ids)
  PROVE  OpIdsNegative'
<1> SUFFICES ASSUME NEW v \in Writers
             PROVE  opIds'[v] < 0
  BY DEF OpIdsNegative
<1>1. ids[v] \in Int /\ ids[v] < 0
  OBVIOUS
<1>2. opIds'[v] = ids[v] \/ opIds'[v] = ids[v] - 1
  BY SendNextEffect
<1> QED
  BY <1>1, <1>2

(* The steps that only BsSession defines: they add no record, start no     *)
(* batch, and neither list a connection nor reopen one.                    *)
LEMMA SessionStepKeepsAskInv ==
  ASSUME TypeOK, AttachTypes, AskInv, UNCHANGED attachVars,
         \/ StatusTask
         \/ \E w \in Writers : SessionOnly(w)
  PROVE  AskInv'
<1> USE DEF TypeOK, AskInv, NoRecordInBatch, BatchAsked, OpIdsNegative,
            ListedWasAccepted, SessionAsksEverySensor, attachVars, batchVars,
            walkVars
<1>1. CASE StatusTask
  <2>1. /\ pc' = pc
        /\ \A w \in Writers :
             /\ connected'[w] \in {connected[w], None}
             /\ transport'[w] = "open" => transport[w] = "open"
    <3>1. CASE UNCHANGED <<pc, connected, transport>>
      BY <3>1
    <3>2. CASE \E w \in Writers : StatusEvict(w)
      BY <3>2 DEF StatusEvict, Popped, Closed
    <3> QED
      BY <1>1, <3>1, <3>2 DEF StatusTask, StatusWake, StatusSent, StatusFailed
  <2>2. OpIdsNegative'
    <3>1. CASE \E rest \in SUBSET Writers : SendNext(rest, opIds)
      BY <3>1, SendNextStaysNegative
    <3>2. ASSUME NEW w \in Writers, StatusEvict(w)
          PROVE  OpIdsNegative'
      <4>1. SendNext(todo, Popped(opIds, {w}, -1))
        BY <3>2 DEF StatusEvict
      <4>2. /\ Popped(opIds, {w}, -1) \in [Writers -> Int]
            /\ \A v \in Writers : Popped(opIds, {w}, -1)[v] < 0
        BY DEF Popped
      <4> QED
        BY <4>1, <4>2, SendNextStaysNegative
    <3> QED
      BY <1>1, <3>1, <3>2 DEF StatusTask, StatusWake, StatusSent, StatusFailed
  <2>3. NoRecordInBatch' /\ BatchAsked' /\ ListedWasAccepted'
    BY <2>1
  <2>4. SessionAsksEverySensor'
    BY <2>1
  <2> QED
    BY <2>2, <2>3, <2>4
<1>2. ASSUME NEW v \in Writers, SessionOnly(v)
      PROVE  AskInv'
  <2>1. /\ connected' = connected
        /\ opIds' = opIds
        /\ \A w \in Writers :
             \/ /\ pc'[w] = pc[w]
                /\ transport'[w] = "open" => transport[w] = "open"
             \/ pc[w] = "idle" /\ pc'[w] = "read"
             \/ /\ pc[w] \in {"read", "finally"}
                /\ pc'[w] \in {"finally", "aborted"}
    BY <1>2 DEF SessionOnly, Accept, Con, ConCmpIgnored, HandlerExit,
                WaitClosedRaises, ConnectionLost, tables, Closed
  <2>2. OpIdsNegative' /\ NoRecordInBatch' /\ BatchAsked'
    BY <2>1
  <2>3. ListedWasAccepted' /\ SessionAsksEverySensor'
    BY <2>1
  <2> QED
    BY <2>2, <2>3
<1> QED
  BY <1>1, <1>2

(* Opening a session for w: other connections of its station are popped    *)
(* and closed, the station's records are gone, w is at its first sensor.   *)
LEMMA OpenSessionKeepsAskInv ==
  ASSUME TypeOK, AttachTypes, BatchState, AskInv, NEW w \in Writers,
         OpenSession(w)
  PROVE  AskInv'
<1> DEFINE b == connecting[w]
<1> USE DEF TypeOK, AttachTypes
<1>1. /\ b \in Stations /\ connected[w] = None /\ pc[w] = "read"
      /\ draining[w] = 0
  BY DEF OpenSession, ConCmpEstablish, Establishes, BatchState
<1>2. \A v \in Writers :
        /\ connected'[v] = IF v = w THEN b
                          ELSE IF connected[v] = b THEN None ELSE connected[v]
        /\ transport'[v] = "open" => transport[v] = "open"
        /\ pc'[v] = IF v = w THEN "attach" ELSE pc[v]
        /\ opIds'[v] = opIds[v] \/ opIds'[v] = -1
  BY DEF OpenSession, ConCmpEstablish, Popped, OldWriters, Closed
<1>3. /\ registered' = [s \in Sensors |-> registered[s] \ {b}]
      /\ pos' = [pos EXCEPT ![w] = 1]
      /\ batch' = [batch EXCEPT ![w] = config]
      /\ requested' = [requested EXCEPT ![w] = {}]
      /\ draining' = draining
  BY DEF OpenSession, Purged
<1>4. NoRecordInBatch'
  BY <1>2, <1>3 DEF AskInv, NoRecordInBatch
<1>5. BatchAsked'
  <2> SUFFICES ASSUME NEW v \in Writers, pc'[v] = "attach",
                      connected'[v] # None, transport'[v] = "open",
                      NEW i \in DOMAIN batch'[v],
                      i < pos'[v] \/ (i = pos'[v] /\ draining'[v] # 0)
               PROVE  batch'[v][i] \in Malformed \cup requested'[v]
    BY DEF BatchAsked
  <2>1. v # w
    BY <1>1, <1>3
  <2> QED
    BY <2>1, <1>2, <1>3 DEF AskInv, BatchAsked
<1>6. OpIdsNegative' /\ ListedWasAccepted'
  <2>1. OpIdsNegative'
    BY <1>2, OpIdsStayNegative DEF AskInv
  <2>2. \A v \in Writers : connected'[v] # None => pc'[v] # "idle"
    BY <1>1, <1>2 DEF AskInv, ListedWasAccepted
  <2> QED
    BY <2>1, <2>2 DEF ListedWasAccepted
<1>7. SessionAsksEverySensor'
  BY <1>2, <1>3 DEF AskInv, SessionAsksEverySensor
<1> QED
  BY <1>4, <1>5, <1>6, <1>7 DEF AskInv

(* An answer read by w adds a record for w's own station only, and no      *)
(* other connection of that station can be in its batch.                   *)
LEMMA AnswerKeepsNoRecordInBatch ==
  ASSUME TypeOK, AttachTypes, AskInv, OneConnectionPerStation,
         NEW w \in Writers, NEW n \in DOMAIN asked[w], AttachResponse(w, n)
  PROVE  NoRecordInBatch'
<1> USE DEF TypeOK, AttachTypes
<1>1. /\ pc[w] = "read" /\ connected' = connected
      /\ \A v \in Writers : pc'[v] = "attach" => pc[v] = "attach"
  BY DEF AttachResponse, HandlerExit, sessionVars, tables
<1>2. \A s \in Sensors :
        registered'[s] \subseteq registered[s] \cup {connected[w]}
  <2>1. CASE Correlated(asked[w][n].op) = {}
    BY <2>1 DEF AttachResponse
  <2>2. CASE Correlated(asked[w][n].op) # {}
    <3>1. PICK i \in Correlated(asked[w][n].op) :
            registered' =
              [registered EXCEPT ![pending[i].sensor] = @ \cup {connected[w]}]
      BY <2>2 DEF AttachResponse
    <3> QED
      BY <3>1
  <2> QED
    BY <2>1, <2>2
<1>3. SUFFICES ASSUME NEW v \in Writers, pc'[v] = "attach",
                      connected'[v] # None, NEW s \in Sensors
               PROVE  connected'[v] \notin registered'[s]
  BY DEF NoRecordInBatch
<1>4. pc[v] = "attach" /\ v # w
  BY <1>1, <1>3
<1>5. connected[v] # connected[w]
  BY <1>1, <1>3, <1>4 DEF OneConnectionPerStation
<1> QED
  BY <1>1, <1>2, <1>3, <1>4, <1>5 DEF AskInv, NoRecordInBatch

(* A step of the batch of w that goes on past a sensor it asked for or     *)
(* refused, or breaks off on a connection that is not listed or lost.      *)
LEMMA BatchKeepsBatchAsked ==
  ASSUME TypeOK, AttachTypes, BatchState, AskInv, NEW w \in Writers,
         UNCHANGED <<connected, pc, transport, requested>>,
         \/ /\ BatchGoesOn(w)
            /\ connected[w] # None /\ transport[w] = "open"
                 => \/ batch[w][pos[w]] \in Malformed
                    \/ draining[w] # 0
         \/ /\ BatchBreaks(w)
            /\ connected[w] = None \/ transport[w] = "lost",
         draining'[w] = 0,
         \A v \in Writers \ {w} : draining'[v] = draining[v]
  PROVE  BatchAsked'
<1> SUFFICES ASSUME NEW v \in Writers, pc'[v] = "attach",
                    connected'[v] # None, transport'[v] = "open",
                    NEW i \in DOMAIN batch'[v],
                    i < pos'[v] \/ (i = pos'[v] /\ draining'[v] # 0)
             PROVE  batch'[v][i] \in Malformed \cup requested'[v]
  BY DEF BatchAsked
<1>1. batch' = batch
  BY DEF BatchGoesOn, BatchBreaks, walkVars
<1>2. CASE v # w
  <2>1. pos'[v] = pos[v] /\ draining'[v] = draining[v]
    BY <1>2 DEF BatchGoesOn, BatchBreaks, AttachTypes
  <2> QED
    BY <1>1, <2>1 DEF AskInv, BatchAsked
<1>3. CASE v = w
  <2>1. BatchGoesOn(w) /\ pos'[w] = pos[w] + 1
    BY <1>3 DEF BatchGoesOn, AttachTypes
  <2>2. i \in DOMAIN batch[w] /\ i < pos[w] + 1 /\ pos[w] \in Nat
        /\ i \in Nat
    BY <1>1, <1>3, <2>1 DEF AttachTypes
  <2>3. CASE i < pos[w]
    BY <1>1, <1>3, <2>2, <2>3 DEF AskInv, BatchAsked
  <2>4. CASE i = pos[w]
    BY <1>1, <1>3, <2>1, <2>2, <2>4 DEF AskInv, BatchAsked
  <2> QED
    BY <2>2, <2>3, <2>4
<1> QED
  BY <1>2, <1>3

(* What a list has after one member was appended.                          *)
LEMMA AppendAt ==
  ASSUME NEW S, NEW l \in Seq(S), NEW x \in S
  PROVE  \A i \in DOMAIN Append(l, x) :
           \/ i \in DOMAIN l /\ Append(l, x)[i] = l[i]
           \/ i = Len(l) + 1
  OBVIOUS

(* A change of the configuration: records only go, and a list only grows   *)
(* at its end, while its batch is under way.                               *)
LEMMA ConfigStepKeepsAskInv ==
  ASSUME TypeOK, AttachTypes, BatchState, AskInv, ConfigStep
  PROVE  AskInv'
<1> USE DEF TypeOK, AttachTypes
<1>1. /\ UNCHANGED <<connected, pc, transport, opIds, pos, draining, requested>>
      /\ \A s \in Sensors : registered'[s] \subseteq registered[s]
  BY DEF ConfigStep, Configure, Reload, Clear, KeptOf, sessionVars
<1>2. ASSUME NEW w \in Writers, w \notin live
      PROVE  batch'[w] = batch[w]
  BY <1>2 DEF ConfigStep, Configure, Reload, Clear
<1>3. ASSUME NEW w \in Writers
      PROVE  /\ Len(batch[w]) \in Nat
             /\ \A i \in DOMAIN batch'[w] :
                  \/ i \in DOMAIN batch[w] /\ batch'[w][i] = batch[w][i]
                  \/ i = Len(batch[w]) + 1
  <2>1. CASE batch'[w] = batch[w]
    BY <2>1
  <2>2. ASSUME NEW s \in Others, batch'[w] = Append(batch[w], s)
        PROVE  \A i \in DOMAIN batch'[w] :
                  \/ i \in DOMAIN batch[w] /\ batch'[w][i] = batch[w][i]
                  \/ i = Len(batch[w]) + 1
    <3>1. batch[w] \in Seq(Sensors) /\ s \in Sensors
      BY ConfigAssumption
    <3> QED
      BY <2>2, <3>1, AppendAt
  <2>3. \/ batch'[w] = batch[w]
        \/ \E s \in Others : batch'[w] = Append(batch[w], s)
    BY DEF ConfigStep, Configure, Reload, Clear
  <2>4. Len(batch[w]) \in Nat
    OBVIOUS
  <2> QED
    BY <2>1, <2>2, <2>3, <2>4
<1>4. NoRecordInBatch' /\ OpIdsNegative' /\ ListedWasAccepted'
  BY <1>1 DEF AskInv, NoRecordInBatch, OpIdsNegative, ListedWasAccepted
<1>5. BatchAsked'
  <2> SUFFICES ASSUME NEW v \in Writers, pc'[v] = "attach",
                      connected'[v] # None, transport'[v] = "open",
                      NEW i \in DOMAIN batch'[v],
                      i < pos'[v] \/ (i = pos'[v] /\ draining'[v] # 0)
               PROVE  batch'[v][i] \in Malformed \cup requested'[v]
    BY DEF BatchAsked
  <2>1. /\ pos[v] \in 1 .. Len(batch[v]) + 1
        /\ draining[v] # 0 => pos[v] <= Len(batch[v])
    BY DEF BatchState
  <2>2. i \in DOMAIN batch[v] /\ batch'[v][i] = batch[v][i]
    BY <1>1, <1>3, <2>1
  <2> QED
    BY <1>1, <2>2 DEF AskInv, BatchAsked
<1>6. SessionAsksEverySensor'
  <2> SUFFICES ASSUME NEW v \in Writers, connected'[v] # None,
                      pc'[v] = "read", transport'[v] = "open",
                      NEW i \in DOMAIN batch'[v]
               PROVE  batch'[v][i] \in Malformed \cup requested'[v]
    BY DEF SessionAsksEverySensor
  <2>1. v \notin live
    BY <1>1 DEF BatchState
  <2> QED
    BY <1>1, <1>2, <2>1 DEF AskInv, SessionAsksEverySensor
<1> QED
  BY <1>4, <1>5, <1>6 DEF AskInv

(* Every step keeps the invariant of the batch.                            *)
LEMMA NextAskInv ==
  Types /\ OneConnectionPerStation /\ AskInv /\ [AttachNext]_vars => AskInv'
<1> SUFFICES ASSUME TypeOK, AttachTypes, BatchState, OneConnectionPerStation,
                    AskInv, [AttachNext]_vars
             PROVE  AskInv'
  BY DEF Types
<1>1. CASE UNCHANGED vars
  BY <1>1 DEF vars, sessionVars, attachVars, batchVars, walkVars, AskInv,
              NoRecordInBatch, BatchAsked, OpIdsNegative, ListedWasAccepted,
              SessionAsksEverySensor
<1>2. ASSUME UNCHANGED attachVars,
             \/ StatusTask
             \/ \E w \in Writers : SessionOnly(w)
      PROVE  AskInv'
  BY <1>2, SessionStepKeepsAskInv
<1>3. ASSUME NEW w \in Writers, AttachStep(w)
      PROVE  AskInv'
  <2> USE DEF TypeOK, AttachTypes, AskInv, NoRecordInBatch, BatchAsked,
              OpIdsNegative, ListedWasAccepted, SessionAsksEverySensor
  <2>1. CASE OpenSession(w)
    BY <2>1, OpenSessionKeepsAskInv
  <2>2. CASE CloseSession(w)
    <3>1. /\ \A v \in Writers :
               /\ connected'[v] \in {connected[v], None}
               /\ opIds'[v] = opIds[v] \/ opIds'[v] = -1
               /\ pc'[v] = IF v = w THEN "exited" ELSE pc[v]
          /\ transport' = transport /\ pc[w] = "finally"
      BY <2>2 DEF CloseSession, Cleanup, Popped
    <3>2. /\ \A s \in Sensors : registered'[s] \subseteq registered[s]
          /\ UNCHANGED <<batch, pos, draining, requested>>
      BY <2>2 DEF CloseSession, Purged, batchVars, walkVars
    <3>3. NoRecordInBatch' /\ BatchAsked'
      BY <3>1, <3>2
    <3>4. OpIdsNegative'
      BY <3>1, OpIdsStayNegative
    <3>5. ListedWasAccepted'
      BY <3>1
    <3>6. SessionAsksEverySensor'
      BY <3>1, <3>2
    <3> QED
      BY <3>3, <3>4, <3>5, <3>6
  <2>3. CASE BatchPass(w)
    <3>1. /\ UNCHANGED <<sessionVars, registered, draining, requested>>
          /\ connected[w] = None /\ draining[w] = 0
          /\ BatchBreaks(w)
      BY <2>3, BatchAt DEF BatchPass, InBatch, AlreadyAttached, BatchState
    <3>2. UNCHANGED <<connected, pc, transport, opIds>> /\ batch' = batch
      BY <3>1 DEF sessionVars, BatchBreaks
    <3>3. BatchAsked'
      BY <3>1, <3>2, BatchKeepsBatchAsked
    <3> QED
      BY <3>1, <3>2, <3>3
  <2>4. CASE BatchRefuse(w)
    <3>1. /\ UNCHANGED <<connected, pc, transport, registered, draining,
                         requested>>
          /\ batch[w][pos[w]] \in Malformed
          /\ draining[w] = 0
          /\ BatchGoesOn(w) /\ batch' = batch
          /\ opIds' = [opIds EXCEPT
                ![w] = IF @ > -MaxOps THEN @ - 1 ELSE @]
      BY <2>4 DEF BatchRefuse, InBatch, Request, TakeOpId, OpIdTaken,
                  BatchGoesOn, walkVars
    <3>2. BatchAsked'
      BY <3>1, BatchKeepsBatchAsked
    <3>3. OpIdsNegative'
      BY <3>1, MaxOpsAssumption
    <3> QED
      BY <3>1, <3>2, <3>3
  <2>5. CASE BatchSend(w)
    <3> DEFINE s == batch[w][pos[w]]
    <3>1. /\ UNCHANGED <<connected, pc, transport, registered, pos, batch>>
          /\ draining[w] = 0
          /\ draining' = [draining EXCEPT ![w] = opIds[w]]
          /\ requested' = [requested EXCEPT ![w] = @ \cup {s}]
          /\ opIds' = [opIds EXCEPT
                ![w] = IF @ > -MaxOps THEN @ - 1 ELSE @]
      BY <2>5 DEF BatchSend, InBatch, Request, TakeOpId, OpIdTaken, walkVars
    <3>2. BatchAsked'
      BY <3>1
    <3>3. OpIdsNegative'
      BY <3>1, MaxOpsAssumption
    <3>4. ListedWasAccepted'
      BY <3>1
    <3>5. SessionAsksEverySensor' /\ NoRecordInBatch'
      BY <3>1
    <3> QED
      BY <3>2, <3>3, <3>4, <3>5
  <2>6. CASE BatchSent(w)
    <3>1. /\ UNCHANGED <<connected, pc, transport, opIds, registered,
                         requested>>
          /\ draining[w] # 0
          /\ draining' = [draining EXCEPT ![w] = 0]
          /\ BatchGoesOn(w) /\ batch' = batch
      BY <2>6 DEF BatchSent, sessionVars, BatchGoesOn, walkVars
    <3>2. BatchAsked'
      BY <3>1, BatchKeepsBatchAsked
    <3> QED
      BY <3>1, <3>2
  <2>7. CASE BatchSendFailed(w)
    <3>1. /\ UNCHANGED <<connected, pc, transport, opIds, registered,
                         requested>>
          /\ transport[w] = "lost"
          /\ draining' = [draining EXCEPT ![w] = 0]
          /\ BatchGoesOn(w) \/ BatchBreaks(w)
          /\ batch' = batch
      BY <2>7 DEF BatchSendFailed, sessionVars, BatchGoesOn, BatchBreaks,
                  walkVars
    <3>2. BatchAsked'
      BY <3>1, BatchKeepsBatchAsked
    <3> QED
      BY <3>1, <3>2
  <2>8. CASE BatchDone(w)
    <3>1. /\ UNCHANGED <<connected, transport, opIds, registered, draining,
                         batch, pos, requested>>
          /\ pc[w] = "attach" /\ draining[w] = 0 /\ pos[w] > Len(batch[w])
          /\ pc' = [pc EXCEPT ![w] = "read"]
      BY <2>8 DEF BatchDone, AttachDone, tables
    <3>2. SessionAsksEverySensor'
      <4> SUFFICES ASSUME NEW v \in Writers, connected'[v] # None,
                          pc'[v] = "read", transport'[v] = "open",
                          NEW i \in DOMAIN batch'[v]
                   PROVE  batch'[v][i] \in Malformed \cup requested'[v]
        OBVIOUS
      <4>1. CASE v # w
        BY <4>1, <3>1
      <4>2. CASE v = w
        <5>1. i \in DOMAIN batch[w] /\ i < pos[w]
          BY <3>1, <4>2, BatchAt
        <5> QED
          BY <3>1, <4>2, <5>1
      <4> QED
        BY <4>1, <4>2
    <3> QED
      BY <3>1, <3>2
  <2>9. ASSUME NEW n \in DOMAIN asked[w], AttachResponse(w, n)
        PROVE  AskInv'
    <3>1. /\ UNCHANGED <<connected, opIds, batch, pos, draining, requested>>
          /\ pc[w] = "read"
          /\ \A v \in Writers :
               /\ pc'[v] = pc[v] \/ (v = w /\ pc'[v] = "finally")
               /\ transport'[v] = "open" => transport[v] = "open"
      BY <2>9 DEF AttachResponse, HandlerExit, sessionVars, tables, Closed,
                  batchVars, walkVars
    <3>2. NoRecordInBatch'
      BY <2>9, AnswerKeepsNoRecordInBatch
    <3>3. BatchAsked' /\ OpIdsNegative' /\ ListedWasAccepted'
      BY <3>1
    <3>4. SessionAsksEverySensor'
      BY <3>1
    <3> QED
      BY <3>2, <3>3, <3>4
  <2>10. ASSUME NEW n \in DOMAIN asked[w], AttachRefusal(w, n)
         PROVE  AskInv'
    BY <2>10 DEF AttachRefusal, sessionVars, batchVars, walkVars
  <2>11. ASSUME NEW s \in Sensors, Detach(w, s)
         PROVE  AskInv'
    <3>1. /\ UNCHANGED <<connected, pc, transport, batch, pos, draining,
                         requested, registered>>
          /\ opIds' = [opIds EXCEPT
                ![w] = IF @ > -MaxOps THEN @ - 1 ELSE @]
      BY <2>11 DEF Detach, AfterDetach, Request, TakeOpId, OpIdTaken,
                   batchVars, walkVars
    <3>2. OpIdsNegative'
      BY <3>1, MaxOpsAssumption
    <3> QED
      BY <3>1, <3>2
  <2>12. ASSUME NEW s \in Others, AttachRequest(w, s)
         PROVE  AskInv'
    <3>1. /\ UNCHANGED <<connected, pc, transport, batch, pos, draining,
                         requested, registered>>
          /\ opIds' = [opIds EXCEPT
                ![w] = IF @ > -MaxOps THEN @ - 1 ELSE @]
      BY <2>12 DEF AttachRequest, Request, TakeOpId, OpIdTaken, batchVars,
                   walkVars
    <3>2. OpIdsNegative'
      BY <3>1, MaxOpsAssumption
    <3> QED
      BY <3>1, <3>2
  <2>13. ASSUME NEW n \in DOMAIN sending[w],
                AttachRequested(w, n) \/ AttachRequestFailed(w, n)
         PROVE  AskInv'
    BY <2>13 DEF AttachRequested, AttachRequestFailed, sessionVars,
                 batchVars, walkVars
  <2> QED
    BY <1>3, <2>1, <2>2, <2>3, <2>4, <2>5, <2>6, <2>7, <2>8, <2>9, <2>10,
       <2>11, <2>12, <2>13 DEF AttachStep
<1>4. CASE ConfigStep
  BY <1>4, ConfigStepKeepsAskInv
<1> QED
  BY <1>1, <1>2, <1>3, <1>4 DEF AttachNext

(* A session in service has asked its base station for every well-formed   *)
(* sensor of the list its batch walked, whatever earlier sessions recorded *)
(* and whatever other connections and changes of the configuration do      *)
(* meanwhile.                                                              *)
THEOREM EverySensorIsAskedFor == AttachSpec => []SessionAsksEverySensor
<1>1. AttachInit => Types /\ AskInv
  BY InitTypes, InitAskInv
<1>2. Types /\ OneConnectionPerStation /\ AskInv /\ [AttachNext]_vars
      => (Types /\ AskInv)'
  BY NextTypes, NextAskInv
<1>3. AttachSpec => []OneConnectionPerStation
  BY AttachRefinesSession, AtMostOneConnection, PTL
<1>4. AskInv => SessionAsksEverySensor
  BY DEF AskInv
<1> QED
  BY <1>1, <1>2, <1>3, <1>4, PTL DEF AttachSpec

-----------------------------------------------------------------------------
(***************************************************************************)
(* The attachment code implements StationRegistry.  The session of a       *)
(* station is its one listed connection, so the CHOOSE of SessionOf has no *)
(* choice, before and after every step.                                    *)
(***************************************************************************)

(* What SessionOf returns.                                                 *)
SessionsAreListed ==
  \A b \in Stations :
    \/ /\ SessionOf(b) \in Writers
       /\ \A w \in Writers : connected[w] = b <=> w = SessionOf(b)
    \/ /\ SessionOf(b) = None
       /\ \A w \in Writers : connected[w] # b

(* With one listed connection per station, it is the station's session.    *)
LEMMA SessionOfListed == OneConnectionPerStation => SessionsAreListed
<1> SUFFICES ASSUME OneConnectionPerStation, NEW b \in Stations
             PROVE  \/ /\ SessionOf(b) \in Writers
                       /\ \A w \in Writers :
                            connected[w] = b <=> w = SessionOf(b)
                    \/ /\ SessionOf(b) = None
                       /\ \A w \in Writers : connected[w] # b
  BY DEF SessionsAreListed
<1>1. CASE \E w \in Writers : connected[w] = b
  <2>1. SessionOf(b) \in Writers /\ connected[SessionOf(b)] = b
    BY <1>1 DEF SessionOf
  <2>2. b # None
    BY NoneAssumption
  <2> QED
    BY <2>1, <2>2 DEF OneConnectionPerStation
<1>2. CASE ~ \E w \in Writers : connected[w] = b
  BY <1>2 DEF SessionOf
<1> QED
  BY <1>1, <1>2

(* The table of connections after a step decides the sessions after it.    *)
LEMMA SessionAfter ==
  ASSUME SessionsAreListed', NEW b \in Stations
  PROVE  /\ \A w \in Writers : connected'[w] = b => SessionOf(b)' = w
         /\ (\A w \in Writers : connected'[w] # b) => SessionOf(b)' = None
  BY NoneAssumption DEF SessionsAreListed

(* A step that lists the same connections and leaves the records of listed *)
(* stations as they are stutters.                                          *)
LEMMA RegistryStutters ==
  ASSUME SessionsAreListed, SessionsAreListed', TypeOK,
         UNCHANGED <<connected, registered>>
  PROVE  UNCHANGED <<[b \in Stations |-> SessionOf(b)],
                     [b \in Stations |-> AttachedTo(b)]>>
<1>1. \A b \in Stations : SessionOf(b)' = SessionOf(b)
  BY SessionAfter DEF SessionsAreListed
<1>2. \A b \in Stations : AttachedTo(b)' = AttachedTo(b)
  BY DEF AttachedTo
<1> QED
  BY <1>1, <1>2

(* The registry sees nothing of a step that may add the entry "unknown" to *)
(* records but lists the same connections; an answer of a listed           *)
(* connection records one sensor for its station.                          *)
LEMMA AnswerIsRecord ==
  ASSUME SessionsAreListed, SessionsAreListed', TypeOK, AttachTypes,
         NEW w \in Writers, NEW s \in Sensors, connected' = connected,
         registered' = [registered EXCEPT ![s] = @ \cup {connected[w]}]
  PROVE  [Registry!Next]_Registry!registryVars
<1>1. \A b \in Stations : SessionOf(b)' = SessionOf(b)
  BY SessionAfter DEF SessionsAreListed
<1>2. CASE connected[w] = None
  <2>1. \A b \in Stations : AttachedTo(b)' = AttachedTo(b)
    BY <1>2, NoneAssumption DEF AttachedTo, AttachTypes
  <2> QED
    BY <1>1, <2>1 DEF Registry!registryVars
<1>3. CASE connected[w] # None
  <2> DEFINE b == connected[w]
  <2>1. b \in Stations /\ SessionOf(b) = w
    BY <1>3, NoneAssumption DEF TypeOK, SessionsAreListed
  <2>2. \A c \in Stations :
          AttachedTo(c)' = IF c = b THEN AttachedTo(c) \cup {s}
                           ELSE AttachedTo(c)
    BY DEF AttachedTo, AttachTypes
  <2>3. Registry!Record(b, s)
    BY <1>1, <2>1, <2>2, NoneAssumption DEF Registry!Record
  <2> QED
    BY <2>1, <2>3 DEF Registry!Next
<1> QED
  BY <1>2, <1>3

(* conCmp establishes the session of the station in the registry.          *)
LEMMA OpenIsEstablish ==
  ASSUME SessionsAreListed, SessionsAreListed', TypeOK, AttachTypes,
         NEW w \in Writers, OpenSession(w)
  PROVE  Registry!Next
<1> DEFINE b == connecting[w]
<1>1. b \in Stations /\ connected[w] = None
  BY DEF OpenSession, ConCmpEstablish, Establishes, TypeOK
<1>2. \A v \in Writers :
        connected'[v] = IF v = w THEN b
                        ELSE IF connected[v] = b THEN None ELSE connected[v]
  BY DEF OpenSession, ConCmpEstablish, Popped, OldWriters, TypeOK
<1>3. \A c \in Stations : SessionOf(c) # w
  BY <1>1, NoneAssumption DEF SessionsAreListed
<1>4. \A c \in Stations : SessionOf(c)' = IF c = b THEN w ELSE SessionOf(c)
  <2> SUFFICES ASSUME NEW c \in Stations
               PROVE  SessionOf(c)' = IF c = b THEN w ELSE SessionOf(c)
    OBVIOUS
  <2>1. CASE c = b
    BY <2>1, <1>2, SessionAfter
  <2>2. CASE c # b
    <3>1. \A v \in Writers : connected'[v] = c <=> connected[v] = c
      BY <2>2, <1>1, <1>2, NoneAssumption
    <3> QED
      BY <2>2, <3>1, SessionAfter DEF SessionsAreListed
  <2> QED
    BY <2>1, <2>2
<1>5. \A c \in Stations : AttachedTo(c)' = IF c = b THEN {} ELSE AttachedTo(c)
  BY DEF OpenSession, Purged, AttachedTo
<1>6. Registry!Establish(b, w)
  BY <1>1, <1>3, <1>4, <1>5 DEF Registry!Establish
<1> QED
  BY <1>1, <1>6 DEF Registry!Next

(* The station of the one connection a step takes off the table loses its  *)
(* session; every other station keeps its own.                             *)
LEMMA SessionAfterPop ==
  ASSUME SessionsAreListed, SessionsAreListed', TypeOK, NEW w \in Writers,
         connected' = Popped(connected, {w}, None), connected[w] # None
  PROVE  /\ connected[w] \in Stations
         /\ SessionOf(connected[w]) # None
         /\ \A c \in Stations : SessionOf(c)' =
              IF c = connected[w] THEN None ELSE SessionOf(c)
<1> DEFINE b == connected[w]
<1>1. \A v \in Writers : connected'[v] = IF v = w THEN None ELSE connected[v]
  BY DEF Popped
<1>2. b \in Stations /\ SessionOf(b) = w
  BY NoneAssumption DEF TypeOK, SessionsAreListed
<1>3. \A v \in Writers : connected'[v] # b
  BY <1>1, <1>2, NoneAssumption DEF SessionsAreListed
<1>4. ASSUME NEW c \in Stations, c # b
      PROVE  SessionOf(c)' = SessionOf(c)
  <2>1. \A v \in Writers : connected'[v] = c <=> connected[v] = c
    BY <1>1, <1>4, NoneAssumption
  <2> QED
    BY <2>1, SessionAfter DEF SessionsAreListed
<1>5. ASSUME NEW c \in Stations, c = b
      PROVE  SessionOf(c)' = None
  BY <1>3, <1>5, SessionAfter
<1> QED
  BY <1>2, <1>4, <1>5, NoneAssumption

(* The cleanup of a listed connection disconnects its station; that of a   *)
(* superseded or evicted one is invisible.                                 *)
LEMMA CloseIsDisconnect ==
  ASSUME SessionsAreListed, SessionsAreListed', OneConnectionPerStation,
         TypeOK, AttachTypes, NEW w \in Writers, CloseSession(w)
  PROVE  [Registry!Next]_Registry!registryVars
<1>1. connected' = Popped(connected, {w}, None)
  BY DEF CloseSession, Cleanup
<1>2. CASE connected[w] = None
  <2>1. connected' = connected
    BY <1>1, <1>2 DEF Popped, TypeOK
  <2>2. registered' = registered
    BY <1>2 DEF CloseSession
  <2> QED
    BY <2>1, <2>2, RegistryStutters DEF Registry!registryVars
<1>3. CASE connected[w] # None
  <2> DEFINE b == connected[w]
  <2>1. ~StillServed(w)
    BY <1>3 DEF StillServed, OneConnectionPerStation
  <2>2. registered' = Purged(b)
    BY <1>3, <2>1 DEF CloseSession
  <2>3. \A c \in Stations :
          AttachedTo(c)' = IF c = b THEN {} ELSE AttachedTo(c)
    BY <2>2 DEF AttachedTo, Purged
  <2>4. Registry!Disconnect(b)
    BY <1>1, <1>3, <2>3, SessionAfterPop DEF Registry!Disconnect
  <2> QED
    BY <1>1, <1>3, <2>4, SessionAfterPop DEF Registry!Next
<1> QED
  BY <1>2, <1>3

(* The status task is visible only when it evicts a listed connection.     *)
LEMMA StatusIsEvict ==
  ASSUME SessionsAreListed, SessionsAreListed', TypeOK, AttachTypes,
         StatusTask, UNCHANGED attachVars
  PROVE  [Registry!Next]_Registry!registryVars
<1>1. registered' = registered
  BY DEF attachVars, batchVars
<1>2. CASE connected' = connected
  BY <1>1, <1>2, RegistryStutters DEF Registry!registryVars
<1>3. ASSUME NEW w \in Writers, StatusEvict(w), connected[w] # None
      PROVE  [Registry!Next]_Registry!registryVars
  <2>1. connected' = Popped(connected, {w}, None)
    BY <1>3 DEF StatusEvict
  <2>2. \A c \in Stations : AttachedTo(c)' = AttachedTo(c)
    BY <1>1 DEF AttachedTo
  <2>3. Registry!Evict(connected[w])
    BY <1>3, <2>1, <2>2, SessionAfterPop DEF Registry!Evict
  <2> QED
    BY <1>3, <2>1, <2>3, SessionAfterPop DEF Registry!Next
<1>4. ASSUME NEW w \in Writers, StatusEvict(w), connected[w] = None
      PROVE  connected' = connected
  BY <1>4 DEF StatusEvict, Popped, TypeOK
<1> QED
  BY <1>2, <1>3, <1>4 DEF StatusTask, StatusWake, StatusSent, StatusFailed

(* A change of the configuration takes the records of sensors from all     *)
(* stations, or none.                                                      *)
LEMMA ConfigStepIsRemove ==
  ASSUME SessionsAreListed, SessionsAreListed', TypeOK, AttachTypes,
         ConfigStep
  PROVE  [Registry!Next]_Registry!registryVars
<1>1. connected' = connected
  BY DEF ConfigStep, Configure, Reload, Clear, sessionVars
<1>2. CASE registered' = registered
  BY <1>1, <1>2, RegistryStutters DEF Registry!registryVars
<1>3. ASSUME NEW l, registered' = KeptOf(l)
      PROVE  [Registry!Next]_Registry!registryVars
  <2> DEFINE removed == {s \in Sensors : \A i \in DOMAIN l : l[i] # s}
  <2>1. \A b \in Stations : SessionOf(b)' = SessionOf(b)
    BY <1>1, SessionAfter DEF SessionsAreListed
  <2>2. \A b \in Stations : AttachedTo(b)' = AttachedTo(b) \ removed
    BY <1>3 DEF AttachedTo, KeptOf
  <2>3. Registry!Remove(removed)
    BY <2>1, <2>2 DEF Registry!Remove
  <2>4. removed \in SUBSET Sensors
    OBVIOUS
  <2> QED
    BY <2>3, <2>4 DEF Registry!Next
<1> QED
  BY <1>2, <1>3 DEF ConfigStep, Configure, Reload, Clear

(* Every step of the attachment code is a step of the registry or leaves   *)
(* it alone.                                                               *)
LEMMA AttachStepIsRegistryStep ==
  ASSUME SessionsAreListed, SessionsAreListed', OneConnectionPerStation,
         TypeOK, AttachTypes, [AttachNext]_vars
  PROVE  [Registry!Next]_Registry!registryVars
<1>1. CASE UNCHANGED <<connected, registered>>
  BY <1>1, RegistryStutters DEF Registry!registryVars
<1>2. ASSUME NEW w \in Writers, AttachStep(w)
      PROVE  [Registry!Next]_Registry!registryVars
  <2>1. CASE OpenSession(w)
    BY <2>1, OpenIsEstablish
  <2>2. CASE CloseSession(w)
    BY <2>2, CloseIsDisconnect
  <2>3. CASE BatchPass(w) \/ BatchSent(w) \/ BatchSendFailed(w)
    BY <2>3, <1>1 DEF BatchPass, BatchSent, BatchSendFailed, sessionVars
  <2>4. CASE BatchRefuse(w) \/ BatchSend(w)
    BY <2>4, <1>1 DEF BatchRefuse, BatchSend, Request
  <2>5. CASE BatchDone(w)
    BY <2>5, <1>1 DEF BatchDone, AttachDone, tables
  <2>6. ASSUME NEW n \in DOMAIN asked[w], AttachResponse(w, n)
        PROVE  [Registry!Next]_Registry!registryVars
    <3>1. connected' = connected
      BY <2>6 DEF AttachResponse, HandlerExit, sessionVars, tables
    <3>2. CASE Correlated(asked[w][n].op) = {}
      BY <2>6, <3>1, <3>2, <1>1 DEF AttachResponse
    <3>3. ASSUME NEW i \in Correlated(asked[w][n].op),
                 registered' =
                   [registered EXCEPT
                      ![pending[i].sensor] = @ \cup {connected[w]}]
          PROVE  [Registry!Next]_Registry!registryVars
      <4>1. pending[i].sensor \in Sensors
        BY <3>3, CorrelatedIsPending DEF AttachTypes, Operation
      <4> QED
        BY <3>1, <3>3, <4>1, AnswerIsRecord
    <3> QED
      BY <2>6, <3>2, <3>3 DEF AttachResponse
  <2>7. ASSUME NEW n \in DOMAIN asked[w], AttachRefusal(w, n)
        PROVE  [Registry!Next]_Registry!registryVars
    BY <2>7, <1>1 DEF AttachRefusal, sessionVars
  <2>8. ASSUME NEW s \in Sensors, Detach(w, s)
        PROVE  [Registry!Next]_Registry!registryVars
    <3>1. registered' = registered /\ connected' = connected
      BY <2>8 DEF Detach, AfterDetach, Request, AttachTypes
    <3> QED
      BY <3>1, <1>1
  <2>9. ASSUME NEW s \in Others, AttachRequest(w, s)
        PROVE  [Registry!Next]_Registry!registryVars
    BY <2>9, <1>1 DEF AttachRequest, Request
  <2>10. ASSUME NEW n \in DOMAIN sending[w],
                AttachRequested(w, n) \/ AttachRequestFailed(w, n)
         PROVE  [Registry!Next]_Registry!registryVars
    BY <2>10, <1>1 DEF AttachRequested, AttachRequestFailed, sessionVars
  <2> QED
    BY <1>2, <2>1, <2>2, <2>3, <2>4, <2>5, <2>6, <2>7, <2>8, <2>9, <2>10
       DEF AttachStep
<1>3. ASSUME NEW w \in Writers, SessionOnly(w), UNCHANGED attachVars
      PROVE  [Registry!Next]_Registry!registryVars
  BY <1>1, <1>3 DEF SessionOnly, Accept, Con, ConCmpIgnored, HandlerExit,
     WaitClosedRaises, ConnectionLost, tables, attachVars, batchVars
<1>4. CASE StatusTask /\ UNCHANGED attachVars
  BY <1>4, StatusIsEvict
<1>5. CASE UNCHANGED vars
  BY <1>1, <1>5 DEF vars, sessionVars, attachVars, batchVars
<1>6. CASE ConfigStep
  BY <1>6, ConfigStepIsRemove
<1> QED
  BY <1>2, <1>3, <1>4, <1>5, <1>6 DEF AttachNext

(* The attachment code implements StationRegistry for any number of        *)
(* connections, stations and sensors: records of a station grow only in    *)
(* its session, start empty, and are lost with its session or, for all     *)
(* stations at once, with the sensor's place in the configuration.         *)
THEOREM RegistryImplemented == AttachSpec => ImplementsRegistry
<1>1. AttachInit => Registry!Init
  BY NoneAssumption
     DEF AttachInit, Init, Registry!Init, SessionOf, AttachedTo
<1>2. /\ SessionsAreListed /\ SessionsAreListed' /\ OneConnectionPerStation
      /\ TypeOK /\ AttachTypes /\ [AttachNext]_vars
      => [Registry!Next]_Registry!registryVars
  BY AttachStepIsRegistryStep
<1>3. AttachSpec => []OneConnectionPerStation
  BY AttachRefinesSession, AtMostOneConnection, PTL
<1>4. AttachSpec => []SessionsAreListed
  BY <1>3, SessionOfListed, PTL
<1>5. AttachSpec => [](TypeOK /\ AttachTypes)
  <2>1. Types => TypeOK /\ AttachTypes
    BY DEF Types
  <2> QED
    BY <2>1, InitTypes, NextTypes, PTL DEF AttachSpec
<1> QED
  BY <1>1, <1>2, <1>3, <1>4, <1>5, PTL
     DEF AttachSpec, ImplementsRegistry, Registry!Spec

-----------------------------------------------------------------------------
(***************************************************************************)
(* A station never has more sensors on record than it acknowledged in its  *)
(* session.  The argument: conCmp leaves it with no record and no answer;  *)
(* an answer adds at most one record, and only to the station whose        *)
(* connection read it, whichever pending request the fallback picks; every *)
(* other step takes records or connections away.  That the sets are finite *)
(* is part of the invariant, since nothing bounds the sensors.             *)
(***************************************************************************)

(* The record of a listed station is finite and no larger than its answers.*)
Backed ==
  \A w \in Writers :
    connected[w] # None =>
      /\ IsFiniteSet(AttachedTo(connected[w]))
      /\ Cardinality(AttachedTo(connected[w])) <= Len(acked[w])

(* A set that grows by at most one member grows in size by at most one.    *)
LEMMA OneMore ==
  ASSUME NEW S, NEW T, NEW x, IsFiniteSet(S), T \subseteq S \cup {x}
  PROVE  /\ IsFiniteSet(T)
         /\ Cardinality(T) \in Nat
         /\ Cardinality(T) <= Cardinality(S) + 1
<1>1. /\ IsFiniteSet(S \cup {x})
      /\ Cardinality(S \cup {x}) <= Cardinality(S) + 1
      /\ Cardinality(S) \in Nat /\ Cardinality(S \cup {x}) \in Nat
  BY FS_AddElement, FS_CardinalityType
<1>2. /\ IsFiniteSet(T)
      /\ Cardinality(T) <= Cardinality(S \cup {x})
  BY <1>1, FS_Subset
<1>3. Cardinality(T) \in Nat
  BY <1>2, FS_CardinalityType
<1> QED
  BY <1>1, <1>2, <1>3

(* Taking records and connections away keeps the invariant.                *)
LEMMA FewerKeepsBacked ==
  ASSUME AttachTypes, Backed, acked' = acked,
         \A w \in Writers : connected'[w] \in {connected[w], None},
         \A s \in Sensors : registered'[s] \subseteq registered[s]
  PROVE  Backed'
<1> SUFFICES ASSUME NEW w \in Writers, connected'[w] # None
             PROVE  /\ IsFiniteSet(AttachedTo(connected[w])')
                    /\ Cardinality(AttachedTo(connected[w])') <= Len(acked'[w])
  BY DEF Backed
<1> DEFINE S == AttachedTo(connected[w])
           T == AttachedTo(connected[w])'
<1>1. connected'[w] = connected[w] /\ T \subseteq S
  BY DEF AttachedTo
<1>2. IsFiniteSet(S) /\ Cardinality(S) <= Len(acked[w])
  BY <1>1 DEF Backed
<1> HIDE DEF S, T
<1>3. /\ IsFiniteSet(T) /\ Cardinality(T) <= Cardinality(S)
      /\ Cardinality(S) \in Nat /\ Cardinality(T) \in Nat
  BY <1>1, <1>2, FS_Subset, FS_CardinalityType
<1>4. Len(acked[w]) \in Nat
  BY DEF AttachTypes
<1> QED
  BY <1>2, <1>3, <1>4 DEF T

(* conCmp: no record and no answer of the station is left, and the other   *)
(* stations keep theirs.                                                   *)
LEMMA OpenKeepsBacked ==
  ASSUME TypeOK, AttachTypes, Backed, NEW w \in Writers, OpenSession(w)
  PROVE  Backed'
<1> DEFINE b == connecting[w]
<1>1. \A v \in Writers :
        connected'[v] = IF v = w THEN b
                        ELSE IF connected[v] = b THEN None ELSE connected[v]
  BY DEF OpenSession, ConCmpEstablish, Popped, OldWriters, TypeOK
<1>2. /\ registered' = [s \in Sensors |-> registered[s] \ {b}]
      /\ acked' = [acked EXCEPT ![w] = <<>>]
  BY DEF OpenSession, Purged
<1>3. ASSUME NEW v \in Writers, connected'[v] # None
      PROVE  /\ IsFiniteSet(AttachedTo(connected[v])')
             /\ Cardinality(AttachedTo(connected[v])') <= Len(acked'[v])
  <2>1. CASE v = w
    <3>1. AttachedTo(connected[v])' = {}
      BY <2>1, <1>1, <1>2 DEF AttachedTo
    <3>2. acked'[v] = <<>>
      BY <2>1, <1>2 DEF AttachTypes
    <3> QED
      BY <3>1, <3>2, FS_EmptySet
  <2>2. CASE v # w
    <3>1. connected'[v] = connected[v] /\ connected[v] # b
      BY <1>1, <1>3, <2>2
    <3>2. AttachedTo(connected[v])' = AttachedTo(connected[v])
      BY <1>2, <3>1 DEF AttachedTo
    <3>3. acked'[v] = acked[v]
      BY <1>2, <2>2 DEF AttachTypes
    <3> QED
      BY <1>3, <3>1, <3>2, <3>3 DEF Backed
  <2> QED
    BY <2>1, <2>2
<1> QED
  BY <1>3 DEF Backed

(* An answer read by w: one more answer and at most one more record for    *)
(* its station, nothing for a station of another connection.               *)
LEMMA AnswerKeepsBacked ==
  ASSUME TypeOK, AttachTypes, OneConnectionPerStation, Backed,
         NEW w \in Writers, NEW n \in DOMAIN asked[w], AttachResponse(w, n)
  PROVE  Backed'
<1> USE DEF AttachTypes
<1>1. /\ connected' = connected
      /\ acked' = [acked EXCEPT ![w] = Append(@, asked[w][n])]
  BY DEF AttachResponse, HandlerExit, sessionVars, tables
<1>2. PICK x : \A s \in Sensors :
        registered'[s] \subseteq
          registered[s] \cup (IF s = x THEN {connected[w]} ELSE {})
  <2>1. CASE Correlated(asked[w][n].op) = {}
    BY <2>1 DEF AttachResponse
  <2>2. CASE Correlated(asked[w][n].op) # {}
    <3>1. PICK i \in Correlated(asked[w][n].op) :
            registered' =
              [registered EXCEPT ![pending[i].sensor] = @ \cup {connected[w]}]
      BY <2>2 DEF AttachResponse
    <3> WITNESS pending[i].sensor
    <3> QED
      BY <3>1
  <2> QED
    BY <2>1, <2>2
<1>3. ASSUME NEW v \in Writers, connected'[v] # None
      PROVE  /\ IsFiniteSet(AttachedTo(connected[v])')
             /\ Cardinality(AttachedTo(connected[v])') <= Len(acked'[v])
  <2> DEFINE S == AttachedTo(connected[v])
             T == AttachedTo(connected[v])'
  <2>1. /\ IsFiniteSet(S) /\ Cardinality(S) <= Len(acked[v])
        /\ Len(acked[v]) \in Nat
    BY <1>1, <1>3 DEF Backed
  <2>2. CASE v = w
    <3>1. T \subseteq S \cup {x}
      BY <1>1, <1>2, <2>2 DEF AttachedTo
    <3>2. Len(acked'[v]) = Len(acked[v]) + 1
      BY <1>1, <2>2
    <3> HIDE DEF S, T
    <3>3. /\ IsFiniteSet(T)
          /\ Cardinality(T) <= Cardinality(S) + 1
          /\ Cardinality(T) \in Nat /\ Cardinality(S) \in Nat
      BY <2>1, <3>1, OneMore, FS_CardinalityType
    <3> QED
      BY <2>1, <3>2, <3>3 DEF T
  <2>3. CASE v # w
    <3>1. connected[v] # connected[w]
      BY <1>1, <1>3, <2>3 DEF OneConnectionPerStation
    <3>2. T \subseteq S /\ acked'[v] = acked[v]
      BY <1>1, <1>2, <2>3, <3>1 DEF AttachedTo
    <3> HIDE DEF S, T
    <3>3. /\ IsFiniteSet(T) /\ Cardinality(T) <= Cardinality(S)
          /\ Cardinality(S) \in Nat /\ Cardinality(T) \in Nat
      BY <2>1, <3>2, FS_Subset, FS_CardinalityType
    <3> QED
      BY <2>1, <3>2, <3>3 DEF T
  <2> QED
    BY <2>2, <2>3
<1> QED
  BY <1>3 DEF Backed

(* Every step keeps the invariant.                                         *)
LEMMA NextBacked ==
  ASSUME TypeOK, AttachTypes, OneConnectionPerStation, Backed,
         [AttachNext]_vars
  PROVE  Backed'
<1>1. ASSUME UNCHANGED <<registered, acked>>,
             \A w \in Writers : connected'[w] \in {connected[w], None}
      PROVE  Backed'
  BY <1>1, FewerKeepsBacked
<1>2. ASSUME NEW w \in Writers, AttachStep(w)
      PROVE  Backed'
  <2>1. CASE OpenSession(w)
    BY <2>1, OpenKeepsBacked
  <2>2. CASE CloseSession(w)
    <3>1. \A v \in Writers : connected'[v] \in {connected[v], None}
      BY <2>2 DEF CloseSession, Cleanup, Popped
    <3>2. /\ acked' = acked
          /\ \A s \in Sensors : registered'[s] \subseteq registered[s]
      BY <2>2 DEF CloseSession, Purged
    <3> QED
      BY <3>1, <3>2, FewerKeepsBacked
  <2>3. CASE BatchPass(w) \/ BatchSent(w) \/ BatchSendFailed(w)
    BY <2>3, <1>1 DEF BatchPass, BatchSent, BatchSendFailed, sessionVars
  <2>4. CASE BatchRefuse(w) \/ BatchSend(w)
    BY <2>4, <1>1 DEF BatchRefuse, BatchSend, Request
  <2>5. CASE BatchDone(w)
    BY <2>5, <1>1 DEF BatchDone, AttachDone, tables
  <2>6. ASSUME NEW n \in DOMAIN asked[w], AttachResponse(w, n)
        PROVE  Backed'
    BY <2>6, AnswerKeepsBacked
  <2>7. ASSUME NEW n \in DOMAIN asked[w], AttachRefusal(w, n)
        PROVE  Backed'
    BY <2>7, <1>1 DEF AttachRefusal, sessionVars
  <2>8. ASSUME NEW s \in Sensors, Detach(w, s)
        PROVE  Backed'
    <3>1. UNCHANGED <<registered, acked, connected>>
      BY <2>8 DEF Detach, AfterDetach, Request, AttachTypes
    <3> QED
      BY <3>1, <1>1
  <2>9. ASSUME NEW s \in Others, AttachRequest(w, s)
        PROVE  Backed'
    BY <2>9, <1>1 DEF AttachRequest, Request
  <2>10. ASSUME NEW n \in DOMAIN sending[w],
                AttachRequested(w, n) \/ AttachRequestFailed(w, n)
         PROVE  Backed'
    BY <2>10, <1>1 DEF AttachRequested, AttachRequestFailed, sessionVars
  <2> QED
    BY <1>2, <2>1, <2>2, <2>3, <2>4, <2>5, <2>6, <2>7, <2>8, <2>9, <2>10
       DEF AttachStep
<1>3. ASSUME NEW w \in Writers, SessionOnly(w), UNCHANGED attachVars
      PROVE  Backed'
  BY <1>1, <1>3 DEF SessionOnly, Accept, Con, ConCmpIgnored, HandlerExit,
                    WaitClosedRaises, ConnectionLost, tables, attachVars
<1>4. ASSUME StatusTask, UNCHANGED attachVars
      PROVE  Backed'
  <2>1. \A w \in Writers : connected'[w] \in {connected[w], None}
    BY <1>4 DEF StatusTask, StatusWake, StatusSent, StatusFailed,
                StatusEvict, Popped
  <2> QED
    BY <1>1, <1>4, <2>1 DEF attachVars
<1>5. CASE UNCHANGED vars
  BY <1>1, <1>5 DEF vars, sessionVars, attachVars
<1>6. CASE ConfigStep
  <2>1. /\ acked' = acked /\ connected' = connected
        /\ \A s \in Sensors : registered'[s] \subseteq registered[s]
    BY <1>6 DEF ConfigStep, Configure, Reload, Clear, KeptOf, sessionVars
  <2> QED
    BY <2>1, FewerKeepsBacked
<1> QED
  BY <1>2, <1>3, <1>4, <1>5, <1>6 DEF AttachNext

(* Whatever the fallback picks, a session never has more sensors on record *)
(* than its base station acknowledged in it: for any number of handshakes  *)
(* on a connection, although the station may answer in a session requests  *)
(* of an earlier one, and although operation ids start over.               *)
THEOREM RecordsNeedAnswers == AttachSpec => []RecordsBackedByAnswers
<1>1. AttachInit => Types /\ Backed
  BY InitTypes DEF AttachInit, Init, Backed
<1>2. Types /\ OneConnectionPerStation /\ Backed /\ [AttachNext]_vars
      => (Types /\ Backed)'
  BY NextTypes, NextBacked DEF Types
<1>3. AttachSpec => []OneConnectionPerStation
  BY AttachRefinesSession, AtMostOneConnection, PTL
<1>4. Backed => RecordsBackedByAnswers
  BY DEF Backed, RecordsBackedByAnswers, AttachedTo
<1> QED
  BY <1>1, <1>2, <1>3, <1>4, PTL DEF AttachSpec
=============================================================================
