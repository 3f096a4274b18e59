------------------------ MODULE ScaciDownlink_proofs ------------------------
(***************************************************************************)
(* Theorems about queued downlinks and their sweep, for every value of the *)
(* constants: types, the order of the queues, and that an Application      *)
(* Center hears of an expired downlink once.                               *)
(*                                                                         *)
(* The sweep holds each downlink in up to three places: in its queue, in   *)
(* the snapshot and among those it keeps.  The inductive invariant says    *)
(* that no two endpoints share a downlink, that what is kept is older than *)
(* what is left of the snapshot, and where a reported downlink can still   *)
(* be: in the queue of the endpoint the sweep works on, whose write-back   *)
(* is outstanding, and at the head of its snapshot while it is reported.   *)
(***************************************************************************)
EXTENDS ScaciDownlink, TLAPS

(* The downlinks of a queue.                                               *)
Elems(s) == {s[i] : i \in DOMAIN s}

Sorted(s) == \A i, j \in DOMAIN s : i < j => s[i] < s[j]

-----------------------------------------------------------------------------
(***************************************************************************)
(* Sequences                                                               *)
(***************************************************************************)

(* A queue keeps its type when more downlinks are known.                   *)
LEMMA SeqGrows ==
  ASSUME NEW n \in Nat, NEW s \in Seq(1 .. n)
  PROVE  s \in Seq(1 .. (n + 1))
  OBVIOUS

(* Nothing is in the empty queue.                                          *)
LEMMA EmptyQueue ==
  /\ Elems(<<>>) = {}
  /\ Sorted(<<>>)
  BY DEF Elems, Sorted

(* Numbers of a queue.                                                     *)
LEMMA ElemsBounded ==
  ASSUME NEW n \in Nat, NEW s \in Seq(1 .. n)
  PROVE  \A x \in Elems(s) : x \in 1 .. n
  BY DEF Elems

(* What Append adds to a queue.                                            *)
LEMMA AppendElems ==
  ASSUME NEW n \in Nat, NEW s \in Seq(1 .. n), NEW d \in 1 .. n
  PROVE  /\ Append(s, d) \in Seq(1 .. n)
         /\ Elems(Append(s, d)) = Elems(s) \cup {d}
<1>1. Append(s, d) \in Seq(1 .. n)
  OBVIOUS
<1>2. ASSUME NEW x \in Elems(Append(s, d))
      PROVE  x \in Elems(s) \cup {d}
  BY DEF Elems
<1>3. ASSUME NEW x \in Elems(s)
      PROVE  x \in Elems(Append(s, d))
  <2>1. PICK i \in DOMAIN s : x = s[i]
    BY DEF Elems
  <2>2. i \in DOMAIN Append(s, d) /\ Append(s, d)[i] = x
    BY <2>1
  <2> QED BY <2>2 DEF Elems
<1>4. d \in Elems(Append(s, d))
  <2>1. /\ Len(s) + 1 \in DOMAIN Append(s, d)
        /\ Append(s, d)[Len(s) + 1] = d
    OBVIOUS
  <2> QED BY <2>1 DEF Elems
<1> QED BY <1>1, <1>2, <1>3, <1>4

(* A number above all others may be appended.                              *)
LEMMA AppendSorted ==
  ASSUME NEW n \in Nat, NEW s \in Seq(1 .. n), NEW d \in 1 .. n,
         Sorted(s), \A x \in Elems(s) : x < d
  PROVE  Sorted(Append(s, d))
<1> SUFFICES ASSUME NEW i \in DOMAIN Append(s, d),
                    NEW j \in DOMAIN Append(s, d), i < j
             PROVE  Append(s, d)[i] < Append(s, d)[j]
  BY DEF Sorted
<1>1. i \in DOMAIN s /\ Append(s, d)[i] = s[i] /\ s[i] \in Elems(s)
  BY DEF Elems
<1>2. CASE j \in DOMAIN s
  BY <1>1, <1>2 DEF Sorted
<1>3. CASE j \notin DOMAIN s
  <2>1. Append(s, d)[j] = d
    BY <1>3
  <2> QED BY <1>1, <2>1
<1> QED BY <1>2, <1>3

(* What is behind the head of a queue.                                     *)
LEMMA TailElems ==
  ASSUME NEW n \in Nat, NEW s \in Seq(1 .. n), s # <<>>
  PROVE  /\ Head(s) \in 1 .. n
         /\ Head(s) \in Elems(s)
         /\ Tail(s) \in Seq(1 .. n)
         /\ Elems(Tail(s)) \subseteq Elems(s)
         /\ \A x \in Elems(s) : x = Head(s) \/ x \in Elems(Tail(s))
<1>1. Len(s) > 0 /\ Head(s) = s[1] /\ 1 \in DOMAIN s
  OBVIOUS
<1>2. /\ Head(s) \in 1 .. n
      /\ Head(s) \in Elems(s)
      /\ Tail(s) \in Seq(1 .. n)
  BY <1>1 DEF Elems
<1>3. \A i \in DOMAIN Tail(s) : i + 1 \in DOMAIN s /\ Tail(s)[i] = s[i + 1]
  BY <1>1
<1>4. Elems(Tail(s)) \subseteq Elems(s)
  BY <1>3 DEF Elems
<1>5. ASSUME NEW x \in Elems(s), x # Head(s)
      PROVE  x \in Elems(Tail(s))
  <2>1. PICK i \in DOMAIN s : x = s[i]
    BY DEF Elems
  <2>2. i - 1 \in DOMAIN Tail(s) /\ Tail(s)[i - 1] = x
    BY <1>1, <1>5, <2>1
  <2> QED BY <2>2 DEF Elems
<1> QED BY <1>2, <1>4, <1>5

(* The tail of a queue in order is in order, and younger than its head.    *)
LEMMA TailSorted ==
  ASSUME NEW n \in Nat, NEW s \in Seq(1 .. n), s # <<>>, Sorted(s)
  PROVE  /\ Sorted(Tail(s))
         /\ \A x \in Elems(Tail(s)) : Head(s) < x
<1>1. Len(s) > 0 /\ Head(s) = s[1] /\ 1 \in DOMAIN s
  OBVIOUS
<1>2. \A i \in DOMAIN Tail(s) :
        /\ i + 1 \in DOMAIN s /\ Tail(s)[i] = s[i + 1]
        /\ i \in Nat /\ i > 0
  BY <1>1
<1>3. Sorted(Tail(s))
  BY <1>2 DEF Sorted
<1>4. \A x \in Elems(Tail(s)) : Head(s) < x
  BY <1>1, <1>2 DEF Elems, Sorted
<1> QED BY <1>3, <1>4

-----------------------------------------------------------------------------
(***************************************************************************)
(* The inductive invariant                                                 *)
(***************************************************************************)

(* What the sweep keeps of an endpoint.                                    *)
Kept(e) == IF current = e THEN Elems(remaining) ELSE {}

(* Where downlinks of an endpoint are.                                     *)
Held(e) == Elems(pending[e]) \cup Elems(batch[e]) \cup Kept(e)

HeldApart == \A e, f \in Eps : e # f => Held(e) \cap Held(f) = {}

(* The sweep keeps the order of its snapshot.                              *)
SweepInOrder ==
  /\ \A e \in Eps : Sorted(pending[e]) /\ Sorted(batch[e])
  /\ Sorted(remaining)
  /\ current # None =>
       \A x \in Elems(remaining), y \in Elems(batch[current]) : x < y

(* What a phase of the sweep has in hand.                                  *)
SweepPlace ==
  /\ current = None => remaining = <<>>
  /\ sweepPc = "notify" => current \in Eps /\ batch[current] # <<>>
  /\ sweepPc = "sleep" => current = None /\ \A e \in Eps : batch[e] = <<>>

(* Where a downlink reported on a connection can still be.                 *)
ReportedPlace ==
  \A c \in Conns, d \in Downlinks :
    /\ reports[c][d] \in {0, 1}
    /\ reports[c][d] = 1 =>
         /\ d <= queued
         /\ d \notin Elems(remaining)
         /\ \A e \in Eps : d \in Elems(pending[e]) => e = current
         /\ \A e \in Eps : d \in Elems(batch[e]) =>
              /\ sweepPc = "notify" /\ e = current
              /\ d = Head(batch[e]) /\ c \notin targets

SweepInv == TypeOK /\ HeldApart /\ SweepInOrder /\ SweepPlace /\ ReportedPlace

(* Initially every queue is empty and nothing is reported.                 *)
LEMMA InitSweepInv == Init => SweepInv
<1> SUFFICES ASSUME Init PROVE SweepInv
  OBVIOUS
<1>1. TypeOK
  BY ConstantsAssumption DEF Init, TypeOK, Downlinks
<1>2. \A e \in Eps : pending[e] = <<>> /\ batch[e] = <<>>
  BY DEF Init
<1>3. remaining = <<>> /\ current = None /\ sweepPc = "sleep"
  BY DEF Init
<1>4. HeldApart
  BY <1>2, <1>3, EmptyQueue DEF HeldApart, Held, Kept
<1>5. SweepInOrder /\ SweepPlace
  BY <1>2, <1>3, EmptyQueue DEF SweepInOrder, SweepPlace
<1>6. ReportedPlace
  BY <1>2, <1>3, EmptyQueue DEF ReportedPlace, Init
<1> QED BY <1>1, <1>4, <1>5, <1>6 DEF SweepInv

(* Downlinks are apart as long as none gains a place.                      *)
LEMMA ApartKept ==
  ASSUME HeldApart, \A e \in Eps : Held(e)' \subseteq Held(e)
  PROVE  HeldApart'
  BY DEF HeldApart

(* Types of what an endpoint holds.                                        *)
LEMMA HeldBounded ==
  ASSUME TypeOK
  PROVE  \A e \in Eps : \A x \in Held(e) : x \in 1 .. queued
<1> SUFFICES ASSUME NEW e \in Eps, NEW x \in Held(e)
             PROVE  x \in 1 .. queued
  OBVIOUS
<1>1. /\ queued \in Nat
      /\ pending[e] \in Seq(1 .. queued)
      /\ batch[e] \in Seq(1 .. queued)
      /\ remaining \in Seq(1 .. queued)
  BY ConstantsAssumption DEF TypeOK
<1> QED BY <1>1, ElemsBounded DEF Held, Kept

(* Steps that leave the queues, the sweep and the reports alone.           *)
LEMMA QueuesAlone ==
  ASSUME SweepInv, TypeOK',
         UNCHANGED <<pending, queued, sweepVars, reports>>
  PROVE  SweepInv'
<1> USE DEF SweepInv, sweepVars
<1>1. HeldApart'
  BY DEF HeldApart, Held, Kept
<1>2. SweepInOrder' /\ SweepPlace'
  BY DEF SweepInOrder, SweepPlace
<1>3. ReportedPlace'
  BY DEF ReportedPlace
<1> QED BY <1>1, <1>2, <1>3

-----------------------------------------------------------------------------
(***************************************************************************)
(* Every step keeps it                                                     *)
(***************************************************************************)

(* What an Application Center does to its connection and registrations,    *)
(* and time passing.                                                       *)
LEMMA ConnectionSteps ==
  ASSUME SweepInv, NEW c \in Conns,
         \/ Accept(c) \/ Con(c) \/ Cleanup(c) \/ Age
         \/ \E e \in Eps : Reg(c, e) \/ Dereg(c, e)
  PROVE  SweepInv'
<1>1. TypeOK /\ TypeOK'
  <2> USE ConstantsAssumption DEF TypeOK, acVars, sweepVars, Eui
  <2>0. TypeOK
    BY DEF SweepInv
  <2>1. CASE Accept(c)
    BY <2>0, <2>1 DEF Accept
  <2>2. CASE Con(c)
    BY <2>0, <2>2 DEF Con
  <2>3. CASE Cleanup(c)
    BY <2>0, <2>3 DEF Cleanup
  <2>4. ASSUME NEW e \in Eps, Reg(c, e)
        PROVE  TypeOK'
    BY <2>0, <2>4 DEF Reg
  <2>5. ASSUME NEW e \in Eps, Dereg(c, e)
        PROVE  TypeOK'
    BY <2>0, <2>5 DEF Dereg
  <2>6. CASE Age
    BY <2>0, <2>6 DEF Age
  <2> QED BY <2>0, <2>1, <2>2, <2>3, <2>4, <2>5, <2>6
<1>2. UNCHANGED <<pending, queued, sweepVars, reports>>
  BY DEF Accept, Con, Cleanup, Reg, Dereg, Age
<1> QED BY <1>1, <1>2, QueuesAlone

(* dlDataQue: the new downlink is younger than all that are held, and not  *)
(* reported.                                                               *)
LEMMA DlDataQueStep ==
  ASSUME SweepInv, NEW c \in Conns, NEW e \in Eps, DlDataQue(c, e)
  PROVE  SweepInv'
<1> DEFINE n == queued + 1
<1> USE DEF SweepInv, sweepVars, acVars
<1>1. /\ queued \in Nat /\ n \in 1 .. n /\ queued' = n
      /\ n \in Downlinks
      /\ pending' = [pending EXCEPT ![e] = Append(@, n)]
      /\ UNCHANGED <<batch, remaining, current, sweepPc, targets, reports>>
  BY ConstantsAssumption DEF DlDataQue, Enqueued, TypeOK, Downlinks
<1>2. /\ \A f \in Eps : pending[f] \in Seq(1 .. n) /\ batch[f] \in Seq(1 .. n)
      /\ remaining \in Seq(1 .. n)
  BY <1>1, SeqGrows DEF TypeOK
<1>3. /\ Append(pending[e], n) \in Seq(1 .. n)
      /\ Elems(Append(pending[e], n)) = Elems(pending[e]) \cup {n}
  BY <1>1, <1>2, AppendElems
<1>4. \A f \in Eps : pending'[f] = IF f = e THEN Append(pending[e], n)
                                             ELSE pending[f]
  BY <1>1 DEF TypeOK
<1>5. TypeOK'
  <2>1. pending' \in [Eps -> Seq(1 .. n)]
    BY <1>1, <1>2, <1>3 DEF TypeOK
  <2>2. batch' \in [Eps -> Seq(1 .. n)] /\ remaining' \in Seq(1 .. n)
    BY <1>1, <1>2 DEF TypeOK
  <2> QED BY <1>1, <2>1, <2>2, ConstantsAssumption DEF TypeOK, DlDataQue
<1>6. \A f \in Eps : Held(f)' = IF f = e THEN Held(f) \cup {n} ELSE Held(f)
  BY <1>1, <1>3, <1>4 DEF Held, Kept
<1>7. \A f \in Eps : n \notin Held(f)
  BY <1>1, HeldBounded
<1>8. HeldApart'
  BY <1>6, <1>7 DEF HeldApart
<1>9. SweepInOrder'
  <2>1. \A x \in Elems(pending[e]) : x < n
    BY <1>1, HeldBounded DEF Held
  <2>2. Sorted(Append(pending[e], n))
    BY <1>1, <1>2, <2>1, AppendSorted DEF SweepInOrder
  <2> QED BY <1>1, <1>4, <2>2 DEF SweepInOrder
<1>10. SweepPlace'
  BY <1>1 DEF SweepPlace
<1>11. ReportedPlace'
  <2> SUFFICES ASSUME NEW r \in Conns, NEW d \in Downlinks,
                      reports[r][d] = 1
               PROVE  /\ d <= queued'
                      /\ \A f \in Eps : d \in Elems(pending'[f]) => f = current
    BY <1>1 DEF ReportedPlace
  <2>1. d <= queued /\ d # n
    BY <1>1 DEF ReportedPlace, Downlinks
  <2> QED BY <1>1, <1>3, <1>4, <2>1 DEF ReportedPlace, Downlinks
<1> QED BY <1>5, <1>8, <1>9, <1>10, <1>11

(* The queue of an endpoint is replaced by one that is in order and holds  *)
(* nothing new and nothing reported, by dlDataRev or by the write-back.    *)
LEMMA QueueReplaced ==
  ASSUME SweepInv, NEW e \in Eps, NEW s \in Seq(1 .. queued),
         Sorted(s), Elems(s) \subseteq Held(e),
         \A c \in Conns, d \in Downlinks :
           reports[c][d] = 1 => d \notin Elems(s),
         pending' = [pending EXCEPT ![e] = s],
         UNCHANGED <<acVars, queued, aged, sweepPc, batch, targets, reports>>,
         settled' \subseteq 1 .. queued,
         \/ UNCHANGED <<current, remaining>>
         \/ /\ current = e /\ batch[e] = <<>> /\ sweepPc = "scan"
            /\ current' = None /\ remaining' = <<>>
  PROVE  SweepInv'
<1> USE DEF SweepInv, acVars
<1>1. \A f \in Eps : pending'[f] = IF f = e THEN s ELSE pending[f]
  BY DEF TypeOK
<1>2. TypeOK'
  BY ConstantsAssumption, EmptyQueue DEF TypeOK
<1>3. HeldApart'
  <2>1. \A f \in Eps : Held(f)' \subseteq Held(f)
    BY <1>1, ConstantsAssumption, EmptyQueue DEF Held, Kept
  <2> QED BY <2>1, ApartKept
<1>4. SweepInOrder'
  BY <1>1, EmptyQueue DEF SweepInOrder
<1>5. SweepPlace'
  BY DEF SweepPlace
<1>6. ReportedPlace'
  <2> SUFFICES ASSUME NEW c \in Conns, NEW d \in Downlinks,
                      reports[c][d] = 1
               PROVE  /\ d <= queued'
                      /\ d \notin Elems(remaining')
                      /\ \A f \in Eps :
                           d \in Elems(pending'[f]) => f = current'
                      /\ \A f \in Eps : d \in Elems(batch[f]) =>
                           /\ sweepPc = "notify" /\ f = current'
                           /\ d = Head(batch[f]) /\ c \notin targets
    BY DEF ReportedPlace
  <2>1. \A f \in Eps : d \in Elems(pending'[f]) => f = current /\ f # e
    BY <1>1 DEF ReportedPlace
  <2>2. CASE UNCHANGED <<current, remaining>>
    BY <2>1, <2>2 DEF ReportedPlace
  <2>3. CASE /\ current = e /\ batch[e] = <<>> /\ sweepPc = "scan"
             /\ current' = None /\ remaining' = <<>>
    BY <2>1, <2>3, EmptyQueue DEF ReportedPlace
  <2> QED BY <2>2, <2>3
<1> QED BY <1>2, <1>3, <1>4, <1>5, <1>6

(* dlDataRev empties a queue.                                              *)
LEMMA DlDataRevStep ==
  ASSUME SweepInv, NEW c \in Conns, NEW e \in Eps, DlDataRev(c, e)
  PROVE  SweepInv'
<1>1. settled' \subseteq 1 .. queued
  <2>1. InQueue(e) = Elems(pending[e])
    BY DEF InQueue, Elems
  <2>2. Elems(pending[e]) \subseteq 1 .. queued
    BY HeldBounded DEF SweepInv, Held
  <2> QED BY <2>1, <2>2 DEF DlDataRev, SweepInv, TypeOK
<1>2. /\ pending' = [pending EXCEPT ![e] = <<>>]
      /\ UNCHANGED <<acVars, queued, aged, sweepPc, batch, targets, reports>>
      /\ UNCHANGED <<current, remaining>>
  BY DEF DlDataRev, sweepVars
<1>3. /\ <<>> \in Seq(1 .. queued) /\ Sorted(<<>>)
      /\ Elems(<<>>) \subseteq Held(e)
      /\ \A r \in Conns, d \in Downlinks :
           reports[r][d] = 1 => d \notin Elems(<<>>)
  BY EmptyQueue
<1> QED BY <1>1, <1>2, <1>3, QueueReplaced

(* The write-back puts what was kept into the queue.                       *)
LEMMA WriteBackStep ==
  ASSUME SweepInv, WriteBack
  PROVE  SweepInv'
<1>1. current \in Eps /\ remaining \in Seq(1 .. queued)
  BY DEF WriteBack, SweepInv, TypeOK
<1>2. Sorted(remaining) /\ Elems(remaining) \subseteq Held(current)
  BY <1>1 DEF SweepInv, SweepInOrder, Held, Kept
<1>3. \A c \in Conns, d \in Downlinks :
        reports[c][d] = 1 => d \notin Elems(remaining)
  BY DEF SweepInv, ReportedPlace
<1>4. settled' \subseteq 1 .. queued
  BY DEF WriteBack, SweepInv, TypeOK
<1> QED BY <1>1, <1>2, <1>3, <1>4, QueueReplaced
        DEF WriteBack, WrittenBack

(* Going on to the next connection, or on with the scan: the downlink      *)
(* leaves the snapshot when all have been told.                            *)
LEMMA NotifyNextStep ==
  ASSUME SweepInv, current \in Eps, batch[current] # <<>>,
         NEW ts \in SUBSET Conns,
         \A c \in ts : reports[c][Head(batch[current])] = 0,
         NotifyNext(ts, Head(batch[current])),
         UNCHANGED <<acVars, pending, queued, aged, current, remaining>>
  PROVE  SweepInv'
<1> DEFINE d == Head(batch[current])
           rest == Tail(batch[current])
<1> USE DEF SweepInv, acVars
<1>1. /\ queued \in Nat
      /\ batch[current] \in Seq(1 .. queued)
      /\ Sorted(batch[current])
  BY ConstantsAssumption DEF TypeOK, SweepInOrder
<1>2. /\ d \in 1 .. queued /\ d \in Elems(batch[current])
      /\ rest \in Seq(1 .. queued)
      /\ Elems(rest) \subseteq Elems(batch[current])
      /\ Sorted(rest)
      /\ \A x \in Elems(rest) : d < x
  BY <1>1, TailElems, TailSorted
<1>3. d \in Downlinks
  BY <1>1, <1>2, ConstantsAssumption DEF TypeOK, Downlinks
<1>4. CASE /\ ts = {}
           /\ sweepPc' = "scan"
           /\ targets' = {}
           /\ batch' = [batch EXCEPT ![current] = rest]
           /\ settled' = settled \cup {d}
           /\ UNCHANGED reports
  <2>1. \A e \in Eps : batch'[e] = IF e = current THEN rest ELSE batch[e]
    BY <1>4 DEF TypeOK
  <2>2. TypeOK'
    BY <1>2, <1>4 DEF TypeOK
  <2>3. HeldApart'
    <3>1. \A e \in Eps : Held(e)' \subseteq Held(e)
      BY <1>2, <2>1 DEF Held, Kept
    <3> QED BY <3>1, ApartKept
  <2>4. SweepInOrder'
    BY <1>2, <2>1 DEF SweepInOrder
  <2>5. SweepPlace'
    BY <1>4, ConstantsAssumption DEF SweepPlace
  <2>6. ReportedPlace'
    <3> SUFFICES ASSUME NEW c \in Conns, NEW x \in Downlinks,
                        reports[c][x] = 1, NEW e \in Eps,
                        x \in Elems(batch'[e])
                 PROVE  FALSE
      BY <1>4 DEF ReportedPlace
    <3>1. x \in Elems(batch[e])
      BY <1>2, <2>1
    <3>2. e = current /\ x = d
      BY <3>1 DEF ReportedPlace
    <3>3. d < d
      BY <1>2, <2>1, <3>2
    <3> QED BY <1>2, <1>1, <3>3
  <2> QED BY <2>2, <2>3, <2>4, <2>5, <2>6
<1>5. ASSUME NEW r \in ts,
             sweepPc' = "notify",
             targets' = ts \ {r},
             reports' = [reports EXCEPT ![r][d] = @ + 1],
             UNCHANGED <<batch, settled>>
      PROVE  SweepInv'
  <2>1. \A c \in Conns, x \in Downlinks :
          reports'[c][x] = IF c = r /\ x = d THEN 1 ELSE reports[c][x]
    BY <1>3, <1>5 DEF TypeOK
  <2>2. TypeOK'
    BY <1>3, <1>5 DEF TypeOK
  <2>3. HeldApart'
    BY <1>5 DEF HeldApart, Held, Kept
  <2>4. SweepInOrder' /\ SweepPlace'
    BY <1>5 DEF SweepInOrder, SweepPlace
  <2>5. ReportedPlace'
    <3>1. /\ d \notin Elems(remaining)
          /\ \A e \in Eps : d \in Held(e) => e = current
      <4>1. d \in Held(current)
        BY <1>2 DEF Held
      <4>2. \A x \in Elems(remaining) : x < d
        BY <1>2, ConstantsAssumption DEF SweepInOrder
      <4> QED BY <1>1, <1>2, <4>1, <4>2 DEF HeldApart
    <3> SUFFICES ASSUME NEW c \in Conns, NEW x \in Downlinks
                 PROVE  /\ reports'[c][x] \in {0, 1}
                        /\ reports'[c][x] = 1 =>
                             /\ x <= queued
                             /\ x \notin Elems(remaining)
                             /\ \A e \in Eps :
                                  x \in Elems(pending[e]) => e = current
                             /\ \A e \in Eps :
                                  x \in Elems(batch[e]) =>
                                    /\ e = current
                                    /\ x = Head(batch[e])
                                    /\ c \notin targets'
      BY <1>5 DEF ReportedPlace
    <3>2. CASE c = r /\ x = d
      BY <1>1, <1>2, <1>5, <2>1, <3>1, <3>2 DEF Held
    <3>3. CASE ~(c = r /\ x = d)
      <4>1. reports'[c][x] = reports[c][x]
        BY <2>1, <3>3
      <4>2. ASSUME reports[c][x] = 1, NEW e \in Eps, x \in Elems(batch[e])
            PROVE  e = current /\ x = Head(batch[e]) /\ c \notin targets'
        <5>1. e = current /\ x = d
          BY <4>2 DEF ReportedPlace
        <5>2. c \notin ts
          BY <4>2, <5>1
        <5> QED BY <1>5, <5>1, <5>2
      <4> QED BY <4>1, <4>2 DEF ReportedPlace
    <3> QED BY <3>2, <3>3
  <2> QED BY <2>2, <2>3, <2>4, <2>5
<1> QED BY <1>4, <1>5 DEF NotifyNext

(* The sweep's walk through its snapshot.                                  *)
LEMMA ScanSteps ==
  ASSUME SweepInv, SweepWake \/ SweepDone \/ ScanKeep
                     \/ \E e \in Eps : ScanEndpoint(e)
  PROVE  SweepInv'
<1> USE DEF SweepInv, acVars
<1>1. CASE SweepWake
  <2> USE DEF SweepWake
  <2>1. TypeOK'
    BY <1>1 DEF TypeOK
  <2>2. HeldApart'
    <3>1. \A e \in Eps : Held(e)' \subseteq Held(e)
      BY <1>1 DEF Held, Kept
    <3> QED BY <3>1, ApartKept
  <2>3. current = None /\ remaining = <<>>
    BY <1>1 DEF SweepPlace
  <2>4. SweepInOrder' /\ SweepPlace'
    BY <1>1, <2>3 DEF SweepInOrder, SweepPlace
  <2>5. ReportedPlace'
    BY <1>1, <2>3, ConstantsAssumption DEF ReportedPlace
  <2> QED BY <2>1, <2>2, <2>4, <2>5
<1>2. CASE SweepDone
  <2> USE DEF SweepDone
  <2>1. TypeOK'
    BY <1>2 DEF TypeOK
  <2>2. HeldApart' /\ SweepInOrder' /\ SweepPlace'
    BY <1>2 DEF HeldApart, Held, Kept, SweepInOrder, SweepPlace
  <2>3. ReportedPlace'
    BY <1>2 DEF ReportedPlace
  <2> QED BY <2>1, <2>2, <2>3
<1>3. ASSUME NEW e \in Eps, ScanEndpoint(e)
      PROVE  SweepInv'
  <2> USE DEF ScanEndpoint
  <2>1. TypeOK'
    BY <1>3 DEF TypeOK
  <2>2. remaining' = <<>> /\ current' = e /\ current = None
    BY <1>3
  <2>3. HeldApart'
    <3>1. \A f \in Eps : Held(f)' \subseteq Held(f)
      BY <1>3, EmptyQueue DEF Held, Kept
    <3> QED BY <3>1, ApartKept
  <2>4. SweepInOrder'
    BY <1>3, EmptyQueue DEF SweepInOrder
  <2>5. SweepPlace'
    BY <1>3, ConstantsAssumption DEF SweepPlace
  <2>6. ReportedPlace'
    BY <1>3, <2>2, EmptyQueue, ConstantsAssumption DEF ReportedPlace
  <2> QED BY <2>1, <2>3, <2>4, <2>5, <2>6
<1>4. CASE ScanKeep
  <2> DEFINE d == Head(batch[current])
             rest == Tail(batch[current])
  <2>1. /\ queued \in Nat /\ current \in Eps /\ batch[current] # <<>>
        /\ batch[current] \in Seq(1 .. queued)
        /\ remaining \in Seq(1 .. queued)
        /\ Sorted(batch[current]) /\ Sorted(remaining)
        /\ sweepPc = "scan"
    BY <1>4, ConstantsAssumption DEF ScanKeep, Scanning, TypeOK, SweepInOrder
  <2>2. /\ d \in 1 .. queued /\ d \in Elems(batch[current])
        /\ rest \in Seq(1 .. queued)
        /\ Elems(rest) \subseteq Elems(batch[current])
        /\ Sorted(rest)
        /\ \A x \in Elems(rest) : d < x
    BY <2>1, TailElems, TailSorted
  <2>3. \A x \in Elems(remaining), y \in Elems(batch[current]) : x < y
    BY <2>1, ConstantsAssumption DEF SweepInOrder
  <2>4. /\ Append(remaining, d) \in Seq(1 .. queued)
        /\ Elems(Append(remaining, d)) = Elems(remaining) \cup {d}
        /\ Sorted(Append(remaining, d))
    BY <2>1, <2>2, <2>3, AppendElems, AppendSorted
  <2>5. /\ \A e \in Eps : batch'[e] = IF e = current THEN rest ELSE batch[e]
        /\ remaining' = Append(remaining, d)
        /\ UNCHANGED <<pending, current, sweepPc, targets, reports, queued>>
    BY <1>4 DEF ScanKeep, TypeOK
  <2>6. TypeOK'
    BY <1>4, <2>2, <2>4 DEF ScanKeep, TypeOK
  <2>7. HeldApart'
    <3>1. \A e \in Eps : Held(e)' \subseteq Held(e)
      BY <2>2, <2>4, <2>5 DEF Held, Kept
    <3> QED BY <3>1, ApartKept
  <2>8. SweepInOrder'
    <3>1. \A x \in Elems(remaining) \cup {d}, y \in Elems(rest) : x < y
      BY <2>2, <2>3
    <3> QED BY <2>1, <2>2, <2>4, <2>5, <3>1 DEF SweepInOrder
  <2>9. SweepPlace'
    BY <2>1, <2>5, ConstantsAssumption DEF SweepPlace
  <2>10. ReportedPlace'
    <3>1. \A c \in Conns, x \in Downlinks : reports[c][x] = 1 => x # d
      BY <2>1, <2>2 DEF ReportedPlace
    <3>2. \A e \in Eps : Elems(batch'[e]) \subseteq Elems(batch[e])
      BY <2>2, <2>5
    <3> QED BY <2>1, <2>4, <2>5, <3>1, <3>2 DEF ReportedPlace
  <2> QED BY <2>6, <2>7, <2>8, <2>9, <2>10
<1> QED BY <1>1, <1>2, <1>3, <1>4

(* Reporting a downlink that is too old: until then nobody was told of it. *)
LEMMA ReportSteps ==
  ASSUME SweepInv, ScanExpire \/ NotifySent
  PROVE  SweepInv'
<1> USE DEF SweepInv
<1>1. /\ current \in Eps /\ batch[current] # <<>>
      /\ batch[current] \in Seq(1 .. queued) /\ queued \in Nat
  BY ConstantsAssumption
     DEF ScanExpire, Scanning, NotifySent, SweepPlace, TypeOK
<1>2. /\ Head(batch[current]) \in Elems(batch[current])
      /\ Head(batch[current]) \in Downlinks
  BY <1>1, TailElems, ConstantsAssumption DEF TypeOK, Downlinks
<1>3. CASE ScanExpire
  <2>1. Recipients(current) \in SUBSET Conns
    BY DEF Recipients, TypeOK
  <2>2. \A c \in Recipients(current) : reports[c][Head(batch[current])] = 0
    BY <1>1, <1>2, <1>3, <2>1 DEF ScanExpire, Scanning, ReportedPlace
  <2> QED BY <1>1, <1>3, <2>1, <2>2, NotifyNextStep DEF ScanExpire
<1>4. CASE NotifySent
  <2>1. targets \in SUBSET Conns
    BY DEF TypeOK
  <2>2. \A c \in targets : reports[c][Head(batch[current])] = 0
    BY <1>1, <1>2, <2>1 DEF ReportedPlace
  <2> QED BY <1>1, <1>4, <2>1, <2>2, NotifyNextStep DEF NotifySent
<1> QED BY <1>3, <1>4

(* Every step keeps the invariant.                                         *)
LEMMA NextSweepInv == SweepInv /\ [Next]_downlinkVars => SweepInv'
<1> SUFFICES ASSUME SweepInv, [Next]_downlinkVars
             PROVE  SweepInv'
  OBVIOUS
<1>1. CASE UNCHANGED downlinkVars
  <2>1. TypeOK'
    BY <1>1 DEF SweepInv, TypeOK, downlinkVars, acVars, sweepVars
  <2> QED BY <1>1, <2>1, QueuesAlone DEF downlinkVars
<1>2. ASSUME NEW c \in Conns, ApplicationCenter(c)
      PROVE  SweepInv'
  <2>1. CASE Accept(c) \/ Con(c) \/ Cleanup(c)
    BY <2>1, ConnectionSteps
  <2>2. ASSUME NEW e \in Eps, Reg(c, e) \/ Dereg(c, e)
        PROVE  SweepInv'
    BY <2>2, ConnectionSteps
  <2>3. ASSUME NEW e \in Eps, DlDataQue(c, e)
        PROVE  SweepInv'
    BY <2>3, DlDataQueStep
  <2>4. ASSUME NEW e \in Eps, DlDataRev(c, e)
        PROVE  SweepInv'
    BY <2>4, DlDataRevStep
  <2> QED BY <1>2, <2>1, <2>2, <2>3, <2>4 DEF ApplicationCenter
<1>3. CASE Age
  <2>1. TypeOK'
    BY <1>3, ConstantsAssumption
       DEF Age, SweepInv, TypeOK, acVars, sweepVars
  <2> QED BY <1>3, <2>1, QueuesAlone DEF Age
<1>4. CASE Sweep
  BY <1>4, ScanSteps, ReportSteps, WriteBackStep DEF Sweep
<1> QED BY <1>1, <1>2, <1>3, <1>4 DEF Next

(* The invariant holds throughout.                                         *)
THEOREM SweepInvariance == Spec => []SweepInv
<1>1. Init => SweepInv
  BY InitSweepInv
<1>2. SweepInv /\ [Next]_downlinkVars => SweepInv'
  BY NextSweepInv
<1> QED BY <1>1, <1>2, PTL DEF Spec

-----------------------------------------------------------------------------
(***************************************************************************)
(* Theorems                                                                *)
(***************************************************************************)

(* Every reachable state has the declared types: the queues, the snapshot  *)
(* and what is kept hold only downlinks that were queued.                  *)
THEOREM TypeCorrectness == Spec => []TypeOK
<1>1. SweepInv => TypeOK
  BY DEF SweepInv
<1> QED BY <1>1, SweepInvariance, PTL

(* Queues stay in the order of dlDataQue and hold no downlink twice,       *)
(* although the sweep writes old snapshots back over them.                 *)
THEOREM QueueOrder == Spec => []QueuesInOrder
<1>1. SweepInv => QueuesInOrder
  BY DEF SweepInv, SweepInOrder, Sorted, QueuesInOrder
<1> QED BY <1>1, SweepInvariance, PTL

(* A connection gets the dlDataRes of a downlink at most once, and no      *)
(* queue holds a reported downlink when the sweep is asleep, for any       *)
(* number of connections, endpoints and downlinks.                         *)
THEOREM ReportsOnce == Spec => []ReportedOnce
<1>1. SweepInv => ReportedOnce
  <2> SUFFICES ASSUME SweepInv, NEW c \in Conns
               PROVE  /\ \A d \in Downlinks : reports[c][d] <= 1
                      /\ sweepPc = "sleep" =>
                           \A e \in Eps : \A d \in InQueue(e) :
                             reports[c][d] = 0
    BY DEF ReportedOnce
  <2>1. \A d \in Downlinks : reports[c][d] <= 1
    BY DEF SweepInv, ReportedPlace
  <2>2. ASSUME sweepPc = "sleep", NEW e \in Eps, NEW d \in InQueue(e)
        PROVE  reports[c][d] = 0
    <3>1. d \in Elems(pending[e])
      BY DEF InQueue, Elems
    <3>2. d \in Downlinks
      <4>1. d \in Held(e)
        BY <3>1 DEF Held
      <4>2. d \in 1 .. queued /\ queued \in 0 .. MaxDl
        BY <4>1, HeldBounded DEF SweepInv, TypeOK
      <4> QED BY <4>2, ConstantsAssumption DEF Downlinks
    <3>3. current # e
      BY <2>2, ConstantsAssumption DEF SweepInv, SweepPlace
    <3> QED BY <3>1, <3>2, <3>3 DEF SweepInv, ReportedPlace
  <2> QED BY <2>1, <2>2
<1> QED BY <1>1, SweepInvariance, PTL
=============================================================================
