---------------------------- MODULE ScaciDownlink ----------------------------
(***************************************************************************)
(* Downlinks of Application Centers (SCAServer.py): dlDataQue puts a       *)
(* downlink on the queue of its endpoint, dlDataRev revokes the queue, and *)
(* a background task sweeps all queues, retries what is there and reports  *)
(* what is too old (dlDataRes, rc 110) to the Application Centers          *)
(* connected and registered at that moment.                                *)
(*                                                                         *)
(* Everything runs in one event loop.  The sweep suspends in its sleep and *)
(* in each write to an Application Center, nowhere else: vm_send_data      *)
(* looks the endpoint up in vm_active_sensors, which nothing ever fills,   *)
(* and returns False at once, so no retry and no immediate dispatch        *)
(* succeeds.                                                               *)
(***************************************************************************)
EXTENDS Integers, Sequences, FiniteSets

CONSTANTS
  Conns,     (* connections of Application Centers, never reused           *)
  Acs,       (* EUIs of Application Centers                                *)
  AcOf,      (* the EUI an Application Center sends on a connection        *)
  Eps,       (* endpoints                                                  *)
  Unknown,   (* the EUI "UNKNOWN" of a connection without con              *)
  None,      (* no endpoint                                                *)
  MaxDl      (* bound: downlinks ever queued                               *)

ASSUME ConstantsAssumption ==
  /\ AcOf \in [Conns -> Acs]
  /\ Unknown \notin Acs
  /\ None \notin Eps
  /\ MaxDl \in Nat

VARIABLES
  handler,     (* "idle", "up", "gone": the connection's handle_ac         *)
  connected,   (* connections with an entry in connected_acs               *)
  registered,  (* ac_registered_eps: EUI -> endpoints                      *)
  pending,     (* pending_dl: endpoint -> queue, empty when it has no key  *)
  queued,      (* downlinks queued so far; they are numbered in order      *)
  aged,        (* downlinks 1 .. aged are older than _MAX_DL_TTL_S         *)
  sweepPc,     (* the sweep: "sleep", "scan", or in a "notify"             *)
  batch,       (* what is left of the sweep's snapshot                     *)
  current,     (* the endpoint the sweep works on                          *)
  remaining,   (* its downlinks to be kept                                 *)
  targets,     (* connections the current dlDataRes is still to go to      *)
  reports,     (* history: dlDataRes written, per connection and downlink  *)
  settled      (* history: downlinks revoked or reported as expired        *)

acVars == <<handler, connected, registered>>
sweepVars == <<sweepPc, batch, current, remaining, targets>>
downlinkVars == <<acVars, pending, queued, aged, sweepVars, reports, settled>>

Downlinks == 1 .. MaxDl

TypeOK ==
  /\ handler \in [Conns -> {"idle", "up", "gone"}]
  /\ connected \subseteq {c \in Conns : handler[c] = "up"}
  /\ registered \in [Acs \cup {Unknown} -> SUBSET Eps]
  /\ pending \in [Eps -> Seq(1 .. queued)]
  /\ queued \in 0 .. MaxDl
  /\ aged \in 0 .. queued
  /\ sweepPc \in {"sleep", "scan", "notify"}
  /\ batch \in [Eps -> Seq(1 .. queued)]
  /\ current \in Eps \cup {None}
  /\ remaining \in Seq(1 .. queued)
  /\ targets \subseteq Conns
  /\ reports \in [Conns -> [Downlinks -> Nat]]
  /\ settled \subseteq 1 .. queued

Init ==
  /\ handler = [c \in Conns |-> "idle"]
  /\ connected = {}
  /\ registered = [a \in Acs \cup {Unknown} |-> {}]
  /\ pending = [e \in Eps |-> <<>>]
  /\ queued = 0
  /\ aged = 0
  /\ sweepPc = "sleep"
  /\ batch = [e \in Eps |-> <<>>]
  /\ current = None
  /\ remaining = <<>>
  /\ targets = {}
  /\ reports = [c \in Conns |-> [d \in Downlinks |-> 0]]
  /\ settled = {}

InQueue(e) == {pending[e][i] : i \in DOMAIN pending[e]}

-----------------------------------------------------------------------------
(***************************************************************************)
(* Application Centers                                                     *)
(***************************************************************************)

(* Other code runs only while the sweep is suspended.                      *)
SweepAwaits == sweepPc \in {"sleep", "notify"}

Eui(c) == IF c \in connected THEN AcOf[c] ELSE Unknown

Accept(c) ==
  /\ SweepAwaits
  /\ handler[c] = "idle"
  /\ handler' = [handler EXCEPT ![c] = "up"]
  /\ UNCHANGED <<connected, registered, pending, queued, aged, sweepVars,
                 reports, settled>>

Con(c) ==
  /\ SweepAwaits
  /\ handler[c] = "up"
  /\ connected' = connected \cup {c}
  /\ UNCHANGED <<handler, registered, pending, queued, aged, sweepVars,
                 reports, settled>>

(* reg and dereg, keyed by the EUI of the Application Center.              *)
Reg(c, e) ==
  /\ SweepAwaits
  /\ handler[c] = "up"
  /\ registered' = [registered EXCEPT ![Eui(c)] = @ \cup {e}]
  /\ UNCHANGED <<handler, connected, pending, queued, aged, sweepVars,
                 reports, settled>>

Dereg(c, e) ==
  /\ SweepAwaits
  /\ handler[c] = "up"
  /\ registered' = [registered EXCEPT ![Eui(c)] = @ \ {e}]
  /\ UNCHANGED <<handler, connected, pending, queued, aged, sweepVars,
                 reports, settled>>

(* Mutant: the connection stays listed.                                    *)
CleanupStaysListed(c) ==
  /\ SweepAwaits
  /\ handler[c] = "up"
  /\ handler' = [handler EXCEPT ![c] = "gone"]
  /\ registered' = IF c \in connected
                   THEN [registered EXCEPT ![AcOf[c]] = {}] ELSE registered
  /\ UNCHANGED <<connected, pending, queued, aged, sweepVars, reports,
                 settled>>

(* The connection ends: the registrations of its EUI go, also those made   *)
(* on a newer connection of the same Application Center.                   *)
Cleanup(c) ==
  /\ SweepAwaits
  /\ handler[c] = "up"
  /\ handler' = [handler EXCEPT ![c] = "gone"]
  /\ connected' = connected \ {c}
  /\ registered' = IF c \in connected
                   THEN [registered EXCEPT ![AcOf[c]] = {}] ELSE registered
  /\ UNCHANGED <<pending, queued, aged, sweepVars, reports, settled>>

(* Mutant: the newest downlink goes to the head.                           *)
EnqueuedFirst(e, d) == [pending EXCEPT ![e] = <<d>> \o @]

Enqueued(e, d) == [pending EXCEPT ![e] = Append(@, d)]

(* dlDataQue: the immediate dispatch fails, the downlink is queued.        *)
DlDataQue(c, e) ==
  /\ SweepAwaits
  /\ handler[c] = "up"
  /\ queued < MaxDl
  /\ queued' = queued + 1
  /\ pending' = Enqueued(e, queued + 1)
  /\ UNCHANGED <<acVars, aged, sweepVars, reports, settled>>

(* dlDataRev: the whole queue of the endpoint goes.                        *)
DlDataRev(c, e) ==
  /\ SweepAwaits
  /\ handler[c] = "up"
  /\ pending' = [pending EXCEPT ![e] = <<>>]
  /\ settled' = settled \cup InQueue(e)
  /\ UNCHANGED <<acVars, queued, aged, sweepVars, reports>>

-----------------------------------------------------------------------------
(***************************************************************************)
(* The sweep task                                                          *)
(***************************************************************************)

(* The next downlink passes its time to live; the oldest does so first.    *)
Age ==
  /\ aged < queued
  /\ aged' = aged + 1
  /\ UNCHANGED <<acVars, pending, queued, sweepVars, reports, settled>>

(* The retry interval elapsed: take a snapshot of the queues.              *)
SweepWake ==
  /\ sweepPc = "sleep"
  /\ \E e \in Eps : pending[e] # <<>>
  /\ sweepPc' = "scan"
  /\ batch' = pending
  /\ UNCHANGED <<acVars, pending, queued, aged, current, remaining, targets,
                 reports, settled>>

(* Go on to another endpoint of the snapshot; the dict order is left open. *)
ScanEndpoint(e) ==
  /\ sweepPc = "scan"
  /\ current = None
  /\ batch[e] # <<>>
  /\ current' = e
  /\ remaining' = <<>>
  /\ UNCHANGED <<acVars, pending, queued, aged, sweepPc, batch, targets,
                 reports, settled>>

SweepDone ==
  /\ sweepPc = "scan"
  /\ current = None
  /\ \A e \in Eps : batch[e] = <<>>
  /\ sweepPc' = "sleep"
  /\ UNCHANGED <<acVars, pending, queued, aged, batch, current, remaining,
                 targets, reports, settled>>

Scanning == sweepPc = "scan" /\ current # None /\ batch[current] # <<>>

Expired(d) == d <= aged

(* A downlink that is young enough is retried in vain and kept.            *)
ScanKeep ==
  /\ Scanning
  /\ ~Expired(Head(batch[current]))
  /\ remaining' = Append(remaining, Head(batch[current]))
  /\ batch' = [batch EXCEPT ![current] = Tail(@)]
  /\ UNCHANGED <<acVars, pending, queued, aged, sweepPc, current, targets,
                 reports, settled>>

(* Whether any endpoint is registered; if none is, everything goes to all. *)
AnyRegistrations == \E a \in Acs \cup {Unknown} : registered[a] # {}

(* The connections a dlDataRes for endpoint e goes to.                     *)
Recipients(e) ==
  {c \in connected : AnyRegistrations => e \in registered[AcOf[c]]}

(* Write dlDataRes of downlink d to one of ts and await its drain, or go   *)
(* on scanning when none is left.                                          *)
NotifyNext(ts, d) ==
  \/ /\ ts = {}
     /\ sweepPc' = "scan"
     /\ targets' = {}
     /\ batch' = [batch EXCEPT ![current] = Tail(@)]
     /\ settled' = settled \cup {d}
     /\ UNCHANGED reports
  \/ \E c \in ts :
       /\ sweepPc' = "notify"
       /\ targets' = ts \ {c}
       /\ reports' = [reports EXCEPT ![c][d] = @ + 1]
       /\ UNCHANGED <<batch, settled>>

(* Mutant: an expired downlink is kept as well.                            *)
ScanExpireKept ==
  /\ Scanning
  /\ Expired(Head(batch[current]))
  /\ remaining' = Append(remaining, Head(batch[current]))
  /\ NotifyNext(Recipients(current), Head(batch[current]))
  /\ UNCHANGED <<acVars, pending, queued, aged, current>>

(* A downlink that is too old is reported and not kept.                    *)
ScanExpire ==
  /\ Scanning
  /\ Expired(Head(batch[current]))
  /\ NotifyNext(Recipients(current), Head(batch[current]))
  /\ UNCHANGED <<acVars, pending, queued, aged, current, remaining>>

(* The drain returned, or its error was swallowed.                         *)
NotifySent ==
  /\ sweepPc = "notify"
  /\ NotifyNext(targets, Head(batch[current]))
  /\ UNCHANGED <<acVars, pending, queued, aged, current, remaining>>

(* Mutant: what is still in the queue is not removed.                      *)
WrittenBackOver(e, kept) ==
  [pending EXCEPT ![e] = IF Len(@) > Len(kept) THEN @ ELSE kept]

WrittenBack(e, kept) == [pending EXCEPT ![e] = kept]

(* The endpoint is done: its queue is replaced by what was kept of the     *)
(* snapshot, whatever happened to the queue meanwhile.                     *)
WriteBack ==
  /\ sweepPc = "scan"
  /\ current # None
  /\ batch[current] = <<>>
  /\ pending' = WrittenBack(current, remaining)
  /\ current' = None
  /\ remaining' = <<>>
  /\ UNCHANGED <<acVars, queued, aged, sweepPc, batch, targets, reports,
                 settled>>

-----------------------------------------------------------------------------
ApplicationCenter(c) ==
  \/ Accept(c) \/ Con(c) \/ Cleanup(c)
  \/ \E e \in Eps :
       Reg(c, e) \/ Dereg(c, e) \/ DlDataQue(c, e) \/ DlDataRev(c, e)

Sweep ==
  \/ SweepWake \/ SweepDone
  \/ \E e \in Eps : ScanEndpoint(e)
  \/ ScanKeep \/ ScanExpire \/ NotifySent \/ WriteBack

Next == Age \/ Sweep \/ \E c \in Conns : ApplicationCenter(c)

Spec == Init /\ [][Next]_downlinkVars

(* Time passes and the event loop runs the sweep; a write to an            *)
(* Application Center is assumed to end.  Application Centers owe nothing. *)
FairSpec == Spec /\ WF_downlinkVars(Age) /\ WF_downlinkVars(Sweep)

-----------------------------------------------------------------------------
(***************************************************************************)
(* Properties                                                              *)
(***************************************************************************)

(* Queues stay in the order of dlDataQue and hold no downlink twice,       *)
(* although the sweep writes old snapshots back over them.                 *)
QueuesInOrder ==
  \A e \in Eps : \A i, j \in DOMAIN pending[e] :
    i < j => pending[e][i] < pending[e][j]

(* "dlDataRes wird genau EINMAL an den AC gesendet" (replit.md:108): a     *)
(* connection gets the dlDataRes of a downlink at most once, although a    *)
(* downlink may be in the queue, in the snapshot and in what is kept; and  *)
(* once the sweep is asleep no queue holds it any more.                    *)
ReportedOnce ==
  \A c \in Conns :
    /\ \A d \in Downlinks : reports[c][d] <= 1
    /\ sweepPc = "sleep" =>
         \A e \in Eps : \A d \in InQueue(e) : reports[c][d] = 0

(* No downlink waits forever: it expires, is revoked or is swept away.     *)
QueuesDrain ==
  \A d \in Downlinks :
    (\E e \in Eps : d \in InQueue(e)) ~> ~(\E e \in Eps : d \in InQueue(e))

(* "A list is used so multiple simultaneous dlDataQue requests for the     *)
(* same endpoint are tracked independently": a queued downlink stays in    *)
(* the queue until it is revoked or reported.  One that is queued while    *)
(* the sweep reports an older one of the endpoint is overwritten.          *)
QueuedDownlinkNotLost ==
  \A d \in 1 .. queued : d \in settled \/ \E e \in Eps : d \in InQueue(e)
=============================================================================
