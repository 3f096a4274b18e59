----------------------------- MODULE Dedup_proofs -----------------------------
(***************************************************************************)
(* Proofs about Dedup for every set of sensors, stations and SNR values,   *)
(* every delay, lateness and counter width.  The argument rests on when    *)
(* things happen: an entry is never older than the last sleep of the       *)
(* publisher plus one delay, and the loop time at which the service starts *)
(* decides whether the clean-up can touch an entry that is not published.  *)
(* The loss counter needs arithmetic modulo the width of the counter, and  *)
(* the size of a set of packets that grows by an interval.                 *)
(***************************************************************************)
EXTENDS Dedup, FiniteSetTheorems, TLAPS

(* An entry that survived a pass was younger than Delay at that pass, and  *)
(* the publisher then sleeps for Delay.                                    *)
EntryTimes ==
  \A k \in Keys : Buffered(k) =>
    /\ Boot <= buffer[k].at
    /\ buffer[k].at <= now
    /\ wake - buffer[k].at < 2 * Delay

(* What is known of the last accepted copy of a packet: it is buffered, or *)
(* it was published when it was at least Delay old.                        *)
AcceptedTimes ==
  \A k \in Keys :
    /\ Buffered(k) => accepted[k] = buffer[k].at
    /\ ~Buffered(k) /\ accepted[k] # None => now - accepted[k] >= Delay

-----------------------------------------------------------------------------
(* An entry is a record with numbers in its fields.                        *)
LEMMA BufferedEntry ==
  ASSUME TypeOK, NEW k \in Keys, Buffered(k)
  PROVE  /\ buffer[k] \in Entry
         /\ buffer[k].at \in Int
         /\ buffer[k].snr \in Int
  <1>1. buffer[k] \in Entry
    BY DEF TypeOK, Buffered
  <1> QED
    BY <1>1, SnrAssumption DEF Entry

(* A number is not the absent value, and neither is an entry.              *)
LEMMA NoneIsNoEntry ==
  /\ \A e \in Entry : e # None
  /\ \A i \in Int : i # None
  BY NoneAssumption DEF Entry

(* A key is a sensor and a packet.                                         *)
LEMMA KeyParts ==
  ASSUME NEW k \in Keys
  PROVE  k[1] \in Sensors /\ k[2] \in Packets
  BY DEF Keys

(* The gap between counters is a number.                                   *)
LEMMA LostIsNumber ==
  ASSUME NEW last \in Int, NEW cnt \in Int
  PROVE  LostBetween(last, cnt) \in Int
  BY CounterAssumption DEF LostBetween, Gap

(* So is a counter.                                                        *)
LEMMA CntIsNumber ==
  ASSUME NEW n \in Packets
  PROVE  Cnt(n) \in Int
  BY CounterAssumption DEF Cnt, Packets

(* Type correctness: buffer, preferred path, counters and histories keep   *)
(* their types, and the publisher's next wake-up lies at most Delay ahead  *)
(* and Late behind (TLSServer.py ulData handler and publisher).            *)
THEOREM TypeCorrectness == Spec => []TypeOK
<1>1. Init => TypeOK
  BY TimeAssumption, CounterAssumption
     DEF Init, TypeOK, Packets, Keys, Entry
<1>2. TypeOK /\ [Next]_dedupVars => TypeOK'
  <2> SUFFICES ASSUME TypeOK, [Next]_dedupVars PROVE TypeOK'
    OBVIOUS
  <2>1. ASSUME NEW b \in Stations, NEW k \in Keys, NEW snr \in Snrs,
               Forward(b, k, snr)
        PROVE  /\ heard' \in [Sensors -> [Stations -> 0 .. MaxPackets]]
               /\ window' \in [Keys -> SUBSET Snrs]
               /\ now' = now /\ wake' = wake
    <3>1. k[1] \in Sensors /\ k[2] \in 0 .. MaxPackets
      BY KeyParts, CounterAssumption DEF Packets
    <3>2. heard' \in [Sensors -> [Stations -> 0 .. MaxPackets]]
      BY <2>1, <3>1 DEF Forward, TypeOK
    <3>3. window' \in [Keys -> SUBSET Snrs]
      BY <2>1 DEF Forward, TypeOK
    <3> QED
      BY <2>1, <3>2, <3>3 DEF Forward
  <2>2. ASSUME NEW b \in Stations, NEW k \in Keys, NEW snr \in Snrs,
               Buffer(k, b, snr)
        PROVE  /\ buffer' \in [Keys -> Entry \cup {None}]
               /\ preferred' \in [Sensors -> Stations \cup {None}]
               /\ accepted' \in [Keys -> Int \cup {None}]
    <3>1. [snr |-> snr, bs |-> b, at |-> now] \in Entry
      BY DEF Entry, TypeOK
    <3>2. k[1] \in Sensors
      BY KeyParts
    <3> QED
      BY <2>2, <3>1, <3>2 DEF Buffer, TypeOK
  <2>3. ASSUME NEW b \in Stations, NEW k \in Keys, NEW snr \in Snrs,
               UplinkNew(b, k, snr)
        PROVE  TypeOK'
    <3>1. k[1] \in Sensors /\ k[2] \in Packets /\ Cnt(k[2]) \in Int
      BY KeyParts, CntIsNumber
    <3>2. lost' \in [Sensors -> Int]
      <4>1. CASE lastCnt[k[1]] = None
        BY <2>3, <4>1 DEF UplinkNew, TypeOK
      <4>2. CASE lastCnt[k[1]] # None
        <5>1. lastCnt[k[1]] \in Int
          BY <3>1, <4>2 DEF TypeOK
        <5>2. LostBetween(lastCnt[k[1]], Cnt(k[2])) \in Int
          BY <3>1, <5>1, LostIsNumber
        <5> QED
          BY <2>3, <3>1, <4>2, <5>2 DEF UplinkNew, TypeOK
      <4> QED
        BY <4>1, <4>2
    <3>3. lastCnt' \in [Sensors -> Int \cup {None}]
      BY <2>3, <3>1 DEF UplinkNew, TypeOK
    <3>4. counted' \in [Sensors -> Seq(Packets)]
      BY <2>3, <3>1 DEF UplinkNew, TypeOK
    <3>5. Forward(b, k, snr) /\ Buffer(k, b, snr)
      BY <2>3 DEF UplinkNew
    <3> QED
      BY <2>1, <2>2, <3>2, <3>3, <3>4, <3>5 DEF TypeOK
  <2>4. ASSUME NEW b \in Stations, NEW k \in Keys, NEW snr \in Snrs,
               UplinkBetter(b, k, snr)
        PROVE  TypeOK'
    <3>1. /\ Forward(b, k, snr) /\ Buffer(k, b, snr)
          /\ UNCHANGED <<lost, lastCnt, counted>>
      BY <2>4 DEF UplinkBetter
    <3> QED
      BY <2>1, <2>2, <3>1 DEF TypeOK
  <2>5. ASSUME NEW b \in Stations, NEW k \in Keys, NEW snr \in Snrs,
               UplinkDropped(b, k, snr)
        PROVE  TypeOK'
    <3>1. /\ Forward(b, k, snr)
          /\ UNCHANGED <<buffer, preferred, accepted, lost, lastCnt, counted>>
      BY <2>5 DEF UplinkDropped
    <3> QED
      BY <2>1, <3>1 DEF TypeOK
  <2>6. CASE Publish
    BY <2>6, TimeAssumption DEF Publish, TypeOK
  <2>7. CASE Tick
    BY <2>7, TimeAssumption DEF Tick, TypeOK
  <2>8. CASE UNCHANGED dedupVars
    BY <2>8 DEF dedupVars, TypeOK
  <2> QED
    BY <2>3, <2>4, <2>5, <2>6, <2>7, <2>8 DEF Next, Uplink
<1> QED
  BY <1>1, <1>2, PTL DEF Spec

-----------------------------------------------------------------------------
(* Every step keeps the entry times.                                       *)
LEMMA EntryTimesKept ==
  ASSUME TypeOK, EntryTimes, Boot <= now, [Next]_dedupVars
  PROVE  EntryTimes' /\ Boot <= now'
<1>0. now \in Int /\ wake \in Int /\ wake <= now + Delay
  BY TimeAssumption DEF TypeOK
<1>1. ASSUME NEW b \in Stations, NEW k \in Keys, NEW snr \in Snrs,
             Forward(b, k, snr), Buffer(k, b, snr)
      PROVE  EntryTimes' /\ Boot <= now'
  <2>1. now' = now /\ wake' = wake
    BY <1>1 DEF Forward
  <2>2. buffer' = [buffer EXCEPT ![k] = [snr |-> snr, bs |-> b, at |-> now]]
    BY <1>1 DEF Buffer
  <2>3. ASSUME NEW j \in Keys, Buffered(j)'
        PROVE  /\ Boot <= buffer'[j].at
               /\ buffer'[j].at <= now
               /\ wake - buffer'[j].at < 2 * Delay
    <3>1. CASE j = k
      <4>1. buffer'[j].at = now
        BY <2>2, <3>1 DEF TypeOK
      <4> QED
        BY <1>0, <4>1, TimeAssumption
    <3>2. CASE j # k
      <4>1. buffer'[j] = buffer[j]
        BY <2>2, <3>2 DEF TypeOK
      <4> QED
        BY <2>3, <4>1 DEF EntryTimes, Buffered
    <3> QED
      BY <3>1, <3>2
  <2> QED
    BY <2>1, <2>3 DEF EntryTimes
<1>2. ASSUME NEW b \in Stations, NEW k \in Keys, NEW snr \in Snrs,
             UplinkDropped(b, k, snr)
      PROVE  EntryTimes' /\ Boot <= now'
  BY <1>2 DEF UplinkDropped, Forward, EntryTimes, Buffered
<1>3. CASE Publish
  <2>1. now' = now /\ wake' = now + Delay
    BY <1>3 DEF Publish
  <2>2. ASSUME NEW j \in Keys, Buffered(j)'
        PROVE  /\ Boot <= buffer'[j].at
               /\ buffer'[j].at <= now
               /\ wake' - buffer'[j].at < 2 * Delay
    <3>1. buffer'[j] = buffer[j] /\ Buffered(j) /\ ~Due(j)
      BY <1>3, <2>2 DEF Publish, Buffered, Due
    <3>2. buffer[j].at \in Int
      BY <3>1, BufferedEntry
    <3>3. now - buffer[j].at < Delay
      BY <1>0, <3>1, <3>2, TimeAssumption DEF Due
    <3>4. Boot <= buffer[j].at /\ buffer[j].at <= now
      BY <3>1 DEF EntryTimes
    <3> QED
      BY <1>0, <2>1, <3>1, <3>2, <3>3, <3>4, TimeAssumption
  <2> QED
    BY <2>1, <2>2 DEF EntryTimes
<1>4. CASE Tick
  <2>1. now' = now + 1 /\ wake' = wake /\ buffer' = buffer
    BY <1>4 DEF Tick
  <2>2. ASSUME NEW j \in Keys, Buffered(j)
        PROVE  /\ Boot <= buffer[j].at
               /\ buffer[j].at <= now + 1
               /\ wake - buffer[j].at < 2 * Delay
    BY <1>0, <2>2, BufferedEntry DEF EntryTimes
  <2> QED
    BY <1>0, <2>1, <2>2, TimeAssumption DEF EntryTimes, Buffered
<1>5. CASE UNCHANGED dedupVars
  BY <1>5 DEF dedupVars, EntryTimes, Buffered
<1> QED
  BY <1>1, <1>2, <1>3, <1>4, <1>5 DEF Next, Uplink, UplinkNew, UplinkBetter

(* Time and the entries' times hold in every state.                        *)
THEOREM EntryTimesInvariant == Spec => [](EntryTimes /\ Boot <= now)
<1>1. Init => EntryTimes /\ Boot <= now
  BY TimeAssumption DEF Init, EntryTimes, Buffered
<1>2. TypeOK /\ (EntryTimes /\ Boot <= now) /\ [Next]_dedupVars
        => (EntryTimes /\ Boot <= now)'
  BY EntryTimesKept
<1> QED
  BY <1>1, <1>2, TypeCorrectness, PTL DEF Spec

(* The publisher takes every entry out less than two delays and the loop's *)
(* lateness after it was put in (process_deduplication_buffer).            *)
THEOREM BufferAge == Spec => []BufferAgeBounded
<1>1. TypeOK /\ EntryTimes => BufferAgeBounded
  <2> SUFFICES ASSUME TypeOK, EntryTimes, NEW k \in Keys, Buffered(k)
               PROVE  now - buffer[k].at < 2 * Delay + Late
    BY DEF BufferAgeBounded
  <2>1. buffer[k].at \in Int
    BY BufferedEntry
  <2>2. wake - buffer[k].at < 2 * Delay
    BY DEF EntryTimes
  <2>3. now \in Int /\ wake \in Int /\ now - Late <= wake
    BY TimeAssumption DEF TypeOK
  <2> QED
    BY <2>1, <2>2, <2>3, TimeAssumption
<1> QED
  BY <1>1, TypeCorrectness, EntryTimesInvariant, PTL

-----------------------------------------------------------------------------
(* The clean-up compares an age with a point in time.  It finds nothing if *)
(* the host had been up for two delays when the service started.           *)
LEMMA NothingSwept ==
  ASSUME TypeOK, EntryTimes, Boot >= 2 * Delay, NEW k \in Keys
  PROVE  ~Swept(k)
<1> SUFFICES ASSUME Buffered(k), now - buffer[k].at > now - Delay * 2
             PROVE  FALSE
  BY DEF Swept
<1>1. buffer[k].at \in Int /\ Boot <= buffer[k].at
  BY BufferedEntry DEF EntryTimes
<1>2. now \in Int
  BY DEF TypeOK
<1> QED
  BY <1>1, <1>2, TimeAssumption

(* A pass then takes out what is due and nothing else.                     *)
LEMMA PassTakesDue ==
  ASSUME TypeOK, EntryTimes, Boot >= 2 * Delay, Publish
  PROVE  \A k \in Keys :
           /\ Due(k) => buffer'[k] = None /\ window'[k] = {}
           /\ ~Due(k) => buffer'[k] = buffer[k] /\ window'[k] = window[k]
  BY NothingSwept DEF Publish

(* The best copy since the last publication is in the buffer, and no copy  *)
(* is lost, on a host that was up for two delays when the service started  *)
(* (TLSServer.py ulData handler and process_deduplication_buffer).         *)
THEOREM NoCopyIsLost ==
  ASSUME Boot >= 2 * Delay
  PROVE  Spec => []BestCopyBuffered
<1>1. Init => BestCopyBuffered
  BY DEF Init, BestCopyBuffered, Buffered
<1>2. TypeOK /\ EntryTimes /\ BestCopyBuffered /\ [Next]_dedupVars
        => BestCopyBuffered'
  <2> SUFFICES ASSUME TypeOK, EntryTimes, BestCopyBuffered, [Next]_dedupVars
               PROVE  BestCopyBuffered'
    OBVIOUS
  <2>1. ASSUME NEW b \in Stations, NEW k \in Keys, NEW snr \in Snrs,
               Forward(b, k, snr), Buffer(k, b, snr),
               \A old \in window[k] : old <= snr
        PROVE  BestCopyBuffered'
    <3>1. /\ buffer' = [buffer EXCEPT
                          ![k] = [snr |-> snr, bs |-> b, at |-> now]]
          /\ window' = [window EXCEPT ![k] = @ \cup {snr}]
      BY <2>1 DEF Buffer, Forward
    <3>2. ASSUME NEW j \in Keys, j # k
          PROVE  buffer'[j] = buffer[j] /\ window'[j] = window[j]
      BY <3>1, <3>2 DEF TypeOK
    <3>3. /\ buffer'[k] = [snr |-> snr, bs |-> b, at |-> now]
          /\ window'[k] = window[k] \cup {snr}
      BY <3>1 DEF TypeOK
    <3>4. buffer'[k] # None
      <4>1. buffer'[k] \in Entry
        BY <3>3 DEF Entry, TypeOK
      <4> QED
        BY <4>1, NoneIsNoEntry
    <3>5. /\ buffer'[k].snr \in window'[k]
          /\ \A s \in window'[k] : s <= buffer'[k].snr
      BY <2>1, <3>3, SnrAssumption
    <3> QED
      BY <3>2, <3>4, <3>5 DEF BestCopyBuffered, Buffered
  <2>2. ASSUME NEW b \in Stations, NEW k \in Keys, NEW snr \in Snrs,
               UplinkNew(b, k, snr)
        PROVE  BestCopyBuffered'
    <3>1. window[k] = {}
      BY <2>2 DEF UplinkNew, BestCopyBuffered
    <3> QED
      BY <2>1, <2>2, <3>1 DEF UplinkNew
  <2>3. ASSUME NEW b \in Stations, NEW k \in Keys, NEW snr \in Snrs,
               UplinkBetter(b, k, snr)
        PROVE  BestCopyBuffered'
    <3>1. Buffered(k) /\ snr > buffer[k].snr
      BY <2>3 DEF UplinkBetter, Better
    <3>2. buffer[k].snr \in Int /\ \A old \in window[k] : old \in Int
      BY <3>1, BufferedEntry, SnrAssumption DEF TypeOK
    <3>3. \A old \in window[k] : old <= buffer[k].snr
      BY <3>1 DEF BestCopyBuffered
    <3>4. \A old \in window[k] : old <= snr
      BY <3>1, <3>2, <3>3, SnrAssumption
    <3> QED
      BY <2>1, <2>3, <3>4 DEF UplinkBetter
  <2>4. ASSUME NEW b \in Stations, NEW k \in Keys, NEW snr \in Snrs,
               UplinkDropped(b, k, snr)
        PROVE  BestCopyBuffered'
    <3>1. /\ Buffered(k) /\ ~(snr > buffer[k].snr) /\ buffer' = buffer
          /\ window' = [window EXCEPT ![k] = @ \cup {snr}]
      BY <2>4 DEF UplinkDropped, Better, Forward
    <3>2. snr <= buffer[k].snr
      BY <3>1, BufferedEntry, SnrAssumption
    <3>3. ASSUME NEW j \in Keys
          PROVE  window'[j] = IF j = k THEN window[k] \cup {snr} ELSE window[j]
      BY <3>1 DEF TypeOK
    <3> QED
      BY <3>1, <3>2, <3>3 DEF BestCopyBuffered, Buffered
  <2>5. CASE Publish
    BY <2>5, PassTakesDue DEF BestCopyBuffered, Buffered
  <2>6. CASE Tick
    BY <2>6 DEF Tick, BestCopyBuffered, Buffered
  <2>7. CASE UNCHANGED dedupVars
    BY <2>7 DEF dedupVars, BestCopyBuffered, Buffered
  <2> QED
    BY <2>2, <2>3, <2>4, <2>5, <2>6, <2>7 DEF Next, Uplink
<1> QED
  BY <1>1, <1>2, TypeCorrectness, EntryTimesInvariant, PTL DEF Spec

-----------------------------------------------------------------------------
(* Every step keeps the times of the accepted copies.                      *)
LEMMA AcceptedTimesKept ==
  ASSUME Boot >= 2 * Delay, TypeOK, EntryTimes, AcceptedTimes,
         [Next]_dedupVars
  PROVE  AcceptedTimes'
<1>0. now \in Int /\ \A k \in Keys : accepted[k] \in Int \cup {None}
  BY DEF TypeOK
<1>1. ASSUME NEW b \in Stations, NEW k \in Keys, NEW snr \in Snrs,
             Forward(b, k, snr), Buffer(k, b, snr)
      PROVE  AcceptedTimes'
  <2>1. /\ buffer' = [buffer EXCEPT
                        ![k] = [snr |-> snr, bs |-> b, at |-> now]]
        /\ accepted' = [accepted EXCEPT ![k] = now]
        /\ now' = now
    BY <1>1 DEF Buffer, Forward
  <2>2. buffer'[k] = [snr |-> snr, bs |-> b, at |-> now] /\ accepted'[k] = now
    BY <2>1 DEF TypeOK
  <2>3. buffer'[k] # None
    <3>1. buffer'[k] \in Entry
      BY <2>2 DEF Entry, TypeOK
    <3> QED
      BY <3>1, NoneIsNoEntry
  <2>4. ASSUME NEW j \in Keys, j # k
        PROVE  buffer'[j] = buffer[j] /\ accepted'[j] = accepted[j]
    BY <2>1, <2>4 DEF TypeOK
  <2> QED
    BY <2>1, <2>2, <2>3, <2>4 DEF AcceptedTimes, Buffered
<1>2. ASSUME NEW b \in Stations, NEW k \in Keys, NEW snr \in Snrs,
             UplinkDropped(b, k, snr)
      PROVE  AcceptedTimes'
  BY <1>2 DEF UplinkDropped, Forward, AcceptedTimes, Buffered
<1>3. CASE Publish
  <2>1. now' = now /\ accepted' = accepted
    BY <1>3 DEF Publish
  <2>2. ASSUME NEW k \in Keys, Due(k)
        PROVE  now - accepted[k] >= Delay
    BY <2>2 DEF Due, AcceptedTimes
  <2>3. ASSUME NEW k \in Keys, Due(k)
        PROVE  buffer'[k] = None
    BY <1>3, <2>3, PassTakesDue
  <2>4. ASSUME NEW k \in Keys, ~Due(k)
        PROVE  buffer'[k] = buffer[k]
    BY <1>3, <2>4, PassTakesDue
  <2> QED
    BY <2>1, <2>2, <2>3, <2>4 DEF AcceptedTimes, Buffered
<1>4. CASE Tick
  <2>1. now' = now + 1 /\ accepted' = accepted /\ buffer' = buffer
    BY <1>4 DEF Tick
  <2>2. ASSUME NEW k \in Keys
        PROVE  /\ Buffered(k)' => accepted'[k] = buffer'[k].at
               /\ ~Buffered(k)' /\ accepted'[k] # None
                    => now' - accepted'[k] >= Delay
    <3>1. CASE Buffered(k)
      BY <2>1, <3>1 DEF AcceptedTimes, Buffered
    <3>2. CASE ~Buffered(k) /\ accepted[k] # None
      <4>1. accepted[k] \in Int
        BY <1>0, <3>2
      <4>2. now - accepted[k] >= Delay
        BY <3>2 DEF AcceptedTimes
      <4>3. now + 1 - accepted[k] >= Delay
        BY <1>0, <4>1, <4>2, TimeAssumption
      <4>4. now' - accepted'[k] >= Delay
        BY <1>0, <2>1, <4>1, <4>3, TimeAssumption
      <4>5. ~Buffered(k)'
        BY <2>1, <3>2 DEF Buffered
      <4> QED
        BY <4>4, <4>5
    <3>3. CASE ~Buffered(k) /\ accepted[k] = None
      BY <2>1, <3>3 DEF Buffered
    <3> QED
      BY <3>1, <3>2, <3>3
  <2> QED
    BY <2>2 DEF AcceptedTimes
<1>5. CASE UNCHANGED dedupVars
  BY <1>5 DEF dedupVars, AcceptedTimes, Buffered
<1> QED
  BY <1>1, <1>2, <1>3, <1>4, <1>5 DEF Next, Uplink, UplinkNew, UplinkBetter

(* The deduplication window is not split: a copy that comes less than one  *)
(* delay after an accepted one is compared with it, never taken for a new  *)
(* packet (on a host that was up for two delays at the start).             *)
THEOREM WindowKept ==
  ASSUME Boot >= 2 * Delay
  PROVE  Spec => WindowNotSplit
<1>1. Init => AcceptedTimes
  BY DEF Init, AcceptedTimes, Buffered
<1>2. TypeOK /\ EntryTimes /\ AcceptedTimes /\ [Next]_dedupVars
        => AcceptedTimes'
  BY AcceptedTimesKept
<1>3. AcceptedTimes /\ [Next]_dedupVars
        => [\A k \in Keys :
              ~Buffered(k) /\ buffer'[k] # None /\ accepted[k] # None
                => now - accepted[k] >= Delay]_dedupVars
  BY DEF AcceptedTimes
<1> QED
  BY <1>1, <1>2, <1>3, TypeCorrectness, EntryTimesInvariant, PTL
     DEF Spec, WindowNotSplit

-----------------------------------------------------------------------------
(* A sensor's packets in the buffer.                                       *)
Own(s) == {k \in Keys : k[1] = s /\ Buffered(k)}

(* An accepted copy is the latest of its sensor, and moves the path.       *)
LEMMA PreferredMoves ==
  ASSUME TypeOK, EntryTimes, PreferredIsLatestAccepted,
         NEW b \in Stations, NEW k \in Keys, NEW snr \in Snrs,
         Forward(b, k, snr), Buffer(k, b, snr)
  PROVE  PreferredIsLatestAccepted'
<1>1. k[1] \in Sensors
  BY KeyParts
<1>2. /\ buffer' = [buffer EXCEPT ![k] = [snr |-> snr, bs |-> b, at |-> now]]
      /\ preferred' = [preferred EXCEPT ![k[1]] = b]
  BY DEF Buffer
<1>3. /\ buffer'[k] = [snr |-> snr, bs |-> b, at |-> now]
      /\ \A j \in Keys : j # k => buffer'[j] = buffer[j]
      /\ preferred'[k[1]] = b
      /\ \A s \in Sensors : s # k[1] => preferred'[s] = preferred[s]
  BY <1>1, <1>2 DEF TypeOK
<1>4. buffer'[k] # None /\ buffer'[k].bs = b /\ buffer'[k].at = now
  <2>1. buffer'[k] \in Entry
    BY <1>3 DEF Entry, TypeOK
  <2> QED
    BY <1>3, <2>1, NoneIsNoEntry
<1> SUFFICES ASSUME NEW s \in Sensors, Own(s)' # {}
             PROVE  \E j \in Own(s)' :
                      /\ buffer'[j].bs = preferred'[s]
                      /\ \A other \in Own(s)' :
                           buffer'[other].at <= buffer'[j].at
  BY DEF PreferredIsLatestAccepted, Own
<1>5. CASE s = k[1]
  <2>1. k \in Own(s)'
    BY <1>4, <1>5 DEF Own, Buffered
  <2>2. \A j \in Own(s)' : buffer'[j].at <= now
    <3> SUFFICES ASSUME NEW j \in Own(s)' PROVE buffer'[j].at <= now
      OBVIOUS
    <3>1. j \in Keys /\ buffer'[j] # None
      BY DEF Own, Buffered
    <3>2. CASE j = k
      <4>1. now \in Int
        BY DEF TypeOK
      <4> QED
        BY <1>4, <3>2, <4>1
    <3>3. CASE j # k
      BY <1>3, <3>1, <3>3 DEF Buffered, EntryTimes
    <3> QED
      BY <3>2, <3>3
  <2> QED
    BY <1>3, <1>4, <1>5, <2>1, <2>2
<1>6. CASE s # k[1]
  <2>1. \A j \in Keys : j[1] = s => buffer'[j] = buffer[j]
    BY <1>3, <1>6
  <2>2. Own(s)' = Own(s) /\ \A j \in Own(s) : buffer'[j] = buffer[j]
    BY <2>1 DEF Own, Buffered
  <2>3. PICK j \in Own(s) :
          /\ buffer[j].bs = preferred[s]
          /\ \A other \in Own(s) : buffer[other].at <= buffer[j].at
    BY <2>2 DEF PreferredIsLatestAccepted, Own
  <2> QED
    BY <1>3, <1>6, <2>2, <2>3
<1> QED
  BY <1>5, <1>6

(* A pass that leaves one of a sensor's copies in the buffer leaves its    *)
(* latest there: what takes a copy out, by age or by mistake, also takes   *)
(* every older one.                                                        *)
LEMMA PassKeepsLatest ==
  ASSUME TypeOK, PreferredIsLatestAccepted, Publish
  PROVE  PreferredIsLatestAccepted'
<1>1. /\ preferred' = preferred
      /\ \A k \in Keys :
           buffer'[k] = IF Due(k) \/ Swept(k) THEN None ELSE buffer[k]
  BY DEF Publish
<1> SUFFICES ASSUME NEW s \in Sensors, NEW rest \in Own(s)'
             PROVE  \E j \in Own(s)' :
                      /\ buffer'[j].bs = preferred'[s]
                      /\ \A other \in Own(s)' :
                           buffer'[other].at <= buffer'[j].at
  BY DEF PreferredIsLatestAccepted, Own
<1>2. /\ rest \in Own(s) /\ ~Due(rest) /\ ~Swept(rest)
      /\ Own(s)' \subseteq Own(s)
      /\ \A j \in Own(s)' : buffer'[j] = buffer[j]
  BY <1>1 DEF Own, Buffered
<1>3. PICK j \in Own(s) :
        /\ buffer[j].bs = preferred[s]
        /\ \A other \in Own(s) : buffer[other].at <= buffer[j].at
  BY <1>2 DEF PreferredIsLatestAccepted, Own
<1>4. ~Due(j) /\ ~Swept(j)
  <2>1. /\ rest \in Keys /\ j \in Keys /\ Buffered(rest) /\ Buffered(j)
        /\ buffer[rest].at <= buffer[j].at
    BY <1>2, <1>3 DEF Own
  <2>2. now \in Int /\ buffer[rest].at \in Int /\ buffer[j].at \in Int
    BY <2>1, BufferedEntry DEF TypeOK
  <2>3. now - buffer[j].at <= now - buffer[rest].at
    BY <2>1, <2>2
  <2>4. now - buffer[rest].at < Delay
    BY <1>2, <2>1, <2>2, TimeAssumption DEF Due
  <2>5. now - buffer[rest].at <= now - Delay * 2
    BY <1>2, <2>1, <2>2, TimeAssumption DEF Swept
  <2> QED
    BY <2>2, <2>3, <2>4, <2>5, TimeAssumption DEF Due, Swept
<1>5. j \in Own(s)'
  BY <1>1, <1>3, <1>4 DEF Own, Buffered
<1> QED
  BY <1>1, <1>2, <1>3, <1>5

(* The preferred downlink path is the station of the copy accepted last,   *)
(* on any host (update_preferred_downlink_path and                         *)
(* process_deduplication_buffer).                                          *)
THEOREM PathFollowsLatest == Spec => []PreferredIsLatestAccepted
<1>1. Init => PreferredIsLatestAccepted
  BY DEF Init, PreferredIsLatestAccepted, Buffered
<1>2. TypeOK /\ EntryTimes /\ PreferredIsLatestAccepted /\ [Next]_dedupVars
        => PreferredIsLatestAccepted'
  <2> SUFFICES ASSUME TypeOK, EntryTimes, PreferredIsLatestAccepted,
                      [Next]_dedupVars
               PROVE  PreferredIsLatestAccepted'
    OBVIOUS
  <2>1. CASE Uplink
    BY <2>1, PreferredMoves
    DEF Uplink, UplinkNew, UplinkBetter, UplinkDropped,
        PreferredIsLatestAccepted, Buffered
  <2>2. CASE Publish
    BY <2>2, PassKeepsLatest
  <2>3. CASE Tick \/ UNCHANGED dedupVars
    BY <2>3 DEF Tick, dedupVars, PreferredIsLatestAccepted, Buffered
  <2> QED
    BY <2>1, <2>2, <2>3 DEF Next
<1> QED
  BY <1>1, <1>2, TypeCorrectness, EntryTimesInvariant, PTL DEF Spec

-----------------------------------------------------------------------------
(* The remainder and the quotient of a natural number.                     *)
LEMMA Division ==
  ASSUME NEW a \in Nat, NEW w \in Nat, w > 0
  PROVE  /\ a % w \in 0 .. w - 1
         /\ a = w * (a \div w) + (a % w)
         /\ a \div w \in Int
  OBVIOUS

(* How a remainder moves with its number, by less than the modulus.        *)
LEMMA Remainders ==
  ASSUME NEW a \in Nat, NEW b \in Nat, NEW w \in Nat, a < b, b - a < w
  PROVE  (b % w) = IF (a % w) + (b - a) < w THEN (a % w) + (b - a)
                   ELSE (a % w) + (b - a) - w
<1> DEFINE x == a % w
<1> DEFINE q == a \div w
<1>1. w > 0
  OBVIOUS
<1>2. x \in 0 .. w - 1 /\ a = w * q + x /\ q \in Int
  BY <1>1, Division
<1> HIDE DEF x, q
<1>3. CASE x + (b - a) < w
  <2>1. b = w * q + (x + (b - a))
    BY <1>2
  <2>2. x + (b - a) \in 0 .. w - 1
    BY <1>2, <1>3
  <2>3. \A r \in 0 .. w - 1 : b = w * q + r => b % w = r
    BY <1>1, <1>2
  <2> QED
    BY <1>3, <2>1, <2>2, <2>3 DEF x
<1>4. CASE x + (b - a) >= w
  <2>1. b = w * (q + 1) + (x + (b - a) - w)
    BY <1>2
  <2>2. x + (b - a) - w \in 0 .. w - 1
    BY <1>2, <1>4
  <2>3. \A r \in 0 .. w - 1 : b = w * (q + 1) + r => b % w = r
    BY <1>1, <1>2
  <2> QED
    BY <1>4, <1>2, <2>1, <2>2, <2>3 DEF x
<1> QED
  BY <1>2, <1>3, <1>4 DEF x

(* Whatever the modulus and wherever the counter starts: the loss computed *)
(* from two counters less than a round apart is the number of packets      *)
(* between, if that is below the bound.                                    *)
LEMMA LostIsGap ==
  ASSUME NEW m \in Packets, NEW n \in Packets, m < n, n - m < Wrap
  PROVE  LostBetween(Cnt(m), Cnt(n)) = IF n - m <= Sanity THEN n - m - 1 ELSE 0
<1>1. /\ m \in Nat /\ n \in Nat /\ n - m < Wrap /\ Wrap > 0 /\ Wrap \in Nat
      /\ FirstCnt \in Nat /\ Sanity \in Nat
  BY CounterAssumption DEF Packets
<1> DEFINE x == Cnt(m)
<1> DEFINE y == Cnt(n)
<1>2. x \in 0 .. Wrap - 1
  BY <1>1, Division DEF Cnt
<1>3. y = IF x + (n - m) < Wrap THEN x + (n - m) ELSE x + (n - m) - Wrap
  <2>1. /\ FirstCnt + m \in Nat /\ FirstCnt + n \in Nat
        /\ FirstCnt + m < FirstCnt + n
        /\ (FirstCnt + n) - (FirstCnt + m) = n - m
    BY <1>1
  <2> DEFINE a == FirstCnt + m
  <2> DEFINE b == FirstCnt + n
  <2>2. (b % Wrap) = IF (a % Wrap) + (b - a) < Wrap THEN (a % Wrap) + (b - a)
                     ELSE (a % Wrap) + (b - a) - Wrap
    <3> HIDE DEF a, b
    <3>1. a \in Nat /\ b \in Nat /\ a < b /\ b - a < Wrap
      BY <1>1, <2>1 DEF a, b
    <3> QED
      BY <1>1, <3>1, Remainders
  <2> QED
    BY <2>1, <2>2 DEF Cnt
<1>4. (x + 1) % Wrap = IF x + 1 < Wrap THEN x + 1 ELSE 0
  BY <1>1, <1>2
<1> HIDE DEF x, y
<1>5. Gap(x, y) = n - m - 1
  BY <1>1, <1>2, <1>3 DEF Gap
<1>6. n - m - 1 > 0 => y # (x + 1) % Wrap
  BY <1>1, <1>2, <1>3, <1>4
<1> QED
  BY <1>1, <1>5, <1>6 DEF LostBetween, x, y

(* The packets that a sequence of packets leaves out, in gaps below the    *)
(* bound.                                                                  *)
Missing(seq) ==
  {n \in Packets : \E i \in 1 .. Len(seq) - 1 :
     seq[i] < n /\ n < seq[i + 1] /\ seq[i + 1] - seq[i] <= Sanity}

(* One more packet, in order, adds those in the gap before it.             *)
LEMMA MissingOf ==
  ASSUME NEW seq \in Seq(Packets), NEW n \in Packets,
         InStep(Append(seq, n)), seq # <<>>
  PROVE  /\ InStep(seq)
         /\ seq[Len(seq)] \in Packets /\ seq[Len(seq)] < n
         /\ Cardinality(Missing(Append(seq, n)))
              = Cardinality(Missing(seq))
                  + LostBetween(Cnt(seq[Len(seq)]), Cnt(n))
<1> DEFINE longer == Append(seq, n)
<1> DEFINE len == Len(seq)
<1> DEFINE last == seq[len]
<1> DEFINE more == IF n - last <= Sanity THEN last + 1 .. n - 1 ELSE {}
<1>0. Packets \subseteq Int /\ MaxPackets \in Int /\ Sanity \in Int
  BY CounterAssumption DEF Packets
<1>1. /\ len \in Nat /\ len >= 1 /\ Len(seq) = len
      /\ Len(longer) = len + 1
      /\ \A i \in 1 .. len : longer[i] = seq[i] /\ seq[i] \in Packets
      /\ longer[len + 1] = n
      /\ DOMAIN seq = 1 .. len /\ DOMAIN longer = 1 .. len + 1
  OBVIOUS
<1> HIDE DEF longer, len
<1>2. InStep(longer)
  BY DEF longer
<1>3. InStep(seq)
  <2>1. ASSUME NEW i \in 1 .. len, NEW j \in 1 .. len, i < j
        PROVE  seq[i] < seq[j]
    <3>1. i \in DOMAIN longer /\ j \in DOMAIN longer
      BY <1>1
    <3>2. longer[i] < longer[j]
      BY <1>2, <2>1, <3>1 DEF InStep
    <3> QED
      BY <1>1, <3>2
  <2>2. ASSUME NEW i \in 1 .. len - 1 PROVE seq[i + 1] - seq[i] < Wrap
    <3>1. /\ i \in 1 .. len /\ i + 1 \in 1 .. len
          /\ i \in 1 .. Len(longer) - 1
      BY <1>1
    <3>2. longer[i + 1] - longer[i] < Wrap
      BY <1>2, <3>1 DEF InStep
    <3> QED
      BY <1>1, <3>1, <3>2
  <2> QED
    BY <1>1, <2>1, <2>2 DEF InStep
<1>4. /\ last \in Packets /\ last < n /\ n - last < Wrap
      /\ last \in Int /\ n \in Int
  <2>1. longer[len] < longer[len + 1] /\ longer[len + 1] - longer[len] < Wrap
    BY <1>1, <1>2 DEF InStep
  <2>2. longer[len] = seq[len] /\ seq[len] \in Packets
    BY <1>1
  <2> QED
    BY <1>0, <1>1, <2>1, <2>2
<1>10. last = longer[len] /\ last = seq[len]
  BY <1>1
<1> HIDE DEF last
<1>5. Missing(longer) = Missing(seq) \cup more
  <2>1. ASSUME NEW p \in Missing(longer) PROVE p \in Missing(seq) \cup more
    <3>1. PICK i \in 1 .. len :
            longer[i] < p /\ p < longer[i + 1]
            /\ longer[i + 1] - longer[i] <= Sanity
      BY <1>1, <2>1 DEF Missing
    <3>2. p \in Packets
      BY <2>1 DEF Missing
    <3>3. CASE i = len
      <4>1. last < p /\ p < n /\ n - last <= Sanity
        BY <1>1, <1>10, <3>1, <3>3
      <4>2. p \in Int
        BY <1>0, <3>2
      <4> QED
        BY <1>4, <4>1, <4>2
    <3>4. CASE i # len
      <4>1. i \in 1 .. len - 1 /\ i + 1 \in 1 .. len
        BY <1>1, <3>4
      <4> QED
        BY <1>1, <3>1, <3>2, <4>1 DEF Missing
    <3> QED
      BY <3>3, <3>4
  <2>2. ASSUME NEW p \in Missing(seq) PROVE p \in Missing(longer)
    <3>1. PICK i \in 1 .. len - 1 :
            seq[i] < p /\ p < seq[i + 1] /\ seq[i + 1] - seq[i] <= Sanity
      BY <1>1, <2>2 DEF Missing
    <3>2. /\ p \in Packets /\ i \in 1 .. Len(longer) - 1
          /\ longer[i] = seq[i] /\ longer[i + 1] = seq[i + 1]
      BY <1>1, <2>2, <3>1 DEF Missing
    <3> QED
      BY <3>1, <3>2 DEF Missing
  <2>3. ASSUME NEW p \in more PROVE p \in Missing(longer)
    <3>1. /\ n - last <= Sanity /\ last < p /\ p < n
          /\ p \in Packets
      BY <1>0, <1>4, <2>3 DEF Packets
    <3>2. /\ len \in 1 .. Len(longer) - 1
          /\ longer[len] = last /\ longer[len + 1] = n
      BY <1>1, <1>10
    <3> QED
      BY <3>1, <3>2 DEF Missing
  <2> QED
    BY <2>1, <2>2, <2>3
<1>6. Missing(seq) \cap more = {}
  <2> SUFFICES ASSUME NEW p \in Missing(seq), p \in more PROVE FALSE
    OBVIOUS
  <2>1. PICK i \in 1 .. len - 1 : p < seq[i + 1]
    BY <1>1 DEF Missing
  <2>2. i + 1 \in 1 .. len /\ seq[i + 1] \in Int
    <3>1. i + 1 \in 1 .. len
      BY <1>1
    <3> QED
      BY <1>0, <1>1, <3>1
  <2>3. seq[i + 1] <= last
    <3>1. i + 1 < len => seq[i + 1] < seq[len]
      BY <1>1, <1>3, <2>2 DEF InStep
    <3>2. i + 1 = len \/ i + 1 < len
      BY <1>1, <2>2
    <3> QED
      BY <1>4, <1>10, <2>2, <3>1, <3>2
  <2>4. last < p /\ p \in Int
    BY <1>0, <1>4
  <2> QED
    BY <1>0, <1>4, <2>1, <2>2, <2>3, <2>4
<1>7. IsFiniteSet(Missing(seq)) /\ Cardinality(Missing(seq)) \in Nat
  <2>1. IsFiniteSet(Packets)
    BY <1>0, FS_Interval DEF Packets
  <2>2. Missing(seq) \in SUBSET Packets
    BY DEF Missing
  <2> QED
    BY <2>1, <2>2, FS_Subset, FS_CardinalityType
<1>8. /\ IsFiniteSet(more)
      /\ Cardinality(more) = IF n - last <= Sanity THEN n - last - 1 ELSE 0
  <2>1. CASE n - last <= Sanity
    <3>1. last + 1 \in Int /\ n - 1 \in Int /\ more = last + 1 .. n - 1
      BY <1>0, <1>4, <2>1
    <3>2. /\ IsFiniteSet(last + 1 .. n - 1)
          /\ Cardinality(last + 1 .. n - 1)
               = IF last + 1 > n - 1 THEN 0 ELSE (n - 1) - (last + 1) + 1
      BY <3>1, FS_Interval
    <3> QED
      BY <1>0, <1>4, <2>1, <3>1, <3>2
  <2>2. CASE ~(n - last <= Sanity)
    BY <2>2, FS_EmptySet
  <2> QED
    BY <2>1, <2>2
<1>9. Cardinality(Missing(longer))
      = Cardinality(Missing(seq)) + Cardinality(more)
  <2>1. Cardinality(Missing(seq) \cap more) = 0
    BY <1>6, FS_EmptySet
  <2>2. Cardinality(Missing(seq) \cup more)
          = Cardinality(Missing(seq)) + Cardinality(more)
              - Cardinality(Missing(seq) \cap more)
    BY <1>7, <1>8, FS_Union
  <2>3. Cardinality(more) \in Int
    BY <1>0, <1>4, <1>8
  <2> QED
    BY <1>5, <1>7, <2>1, <2>2, <2>3
<1> QED
  BY <1>3, <1>4, <1>8, <1>9, LostIsGap DEF longer, last, len

(* The last counter is that of the last packet taken for new, and the loss *)
(* is exact as long as those came in order.                                *)
CountsOf(s) ==
  /\ lastCnt[s] = IF counted[s] = <<>> THEN None
                  ELSE Cnt(counted[s][Len(counted[s])])
  /\ InStep(counted[s]) => lost[s] = Cardinality(Missing(counted[s]))

(* The invariant that the loss counter needs.                              *)
LossCounted == \A s \in Sensors : CountsOf(s)

(* A packet taken for new keeps the count exact.                           *)
LEMMA NewCounted ==
  ASSUME TypeOK, LossCounted,
         NEW b \in Stations, NEW k \in Keys, NEW snr \in Snrs,
         UplinkNew(b, k, snr)
  PROVE  LossCounted'
<1> DEFINE s == k[1]
<1> DEFINE n == k[2]
<1>1. s \in Sensors /\ n \in Packets
  BY KeyParts
<1>2. /\ lost' = IF lastCnt[s] = None THEN lost
                 ELSE [lost EXCEPT ![s] = @ + LostBetween(lastCnt[s], Cnt(n))]
      /\ lastCnt' = [lastCnt EXCEPT ![s] = Cnt(n)]
      /\ counted' = [counted EXCEPT ![s] = Append(@, n)]
  BY DEF UplinkNew
<1> HIDE DEF s, n
<1>3. /\ counted[s] \in Seq(Packets) /\ lost[s] \in Int
      /\ lastCnt'[s] = Cnt(n) /\ counted'[s] = Append(counted[s], n)
      /\ lost'[s] = IF lastCnt[s] = None THEN lost[s]
                    ELSE lost[s] + LostBetween(lastCnt[s], Cnt(n))
      /\ \A r \in Sensors : r # s =>
           /\ lastCnt'[r] = lastCnt[r] /\ counted'[r] = counted[r]
           /\ lost'[r] = lost[r]
  BY <1>1, <1>2 DEF TypeOK
<1>4. CountsOf(s)
  BY <1>1 DEF LossCounted
<1>5. lastCnt'[s] = IF counted'[s] = <<>> THEN None
                    ELSE Cnt(counted'[s][Len(counted'[s])])
  BY <1>1, <1>3
<1>6. ASSUME InStep(counted'[s])
      PROVE  lost'[s] = Cardinality(Missing(counted'[s]))
  <2>1. CASE counted[s] = <<>>
    <3>1. Missing(counted[s]) = {} /\ Missing(counted'[s]) = {}
      BY <1>1, <1>3, <2>1 DEF Missing
    <3>2. InStep(counted[s])
      BY <2>1 DEF InStep
    <3> QED
      BY <1>3, <1>4, <2>1, <3>1, <3>2 DEF CountsOf
  <2>2. CASE counted[s] # <<>>
    <3> DEFINE last == counted[s][Len(counted[s])]
    <3>1. /\ InStep(counted[s]) /\ last \in Packets
          /\ Cardinality(Missing(counted'[s]))
               = Cardinality(Missing(counted[s]))
                   + LostBetween(Cnt(last), Cnt(n))
      BY <1>1, <1>3, <1>6, <2>2, MissingOf
    <3>2. lastCnt[s] = Cnt(last) /\ lastCnt[s] # None
      BY <1>4, <2>2, <3>1, CntIsNumber, NoneIsNoEntry DEF CountsOf
    <3> QED
      BY <1>3, <1>4, <3>1, <3>2 DEF CountsOf
  <2> QED
    BY <2>1, <2>2
<1>7. ASSUME NEW r \in Sensors PROVE CountsOf(r)'
  <2>1. CASE r = s
    BY <1>5, <1>6, <2>1 DEF CountsOf
  <2>2. CASE r # s
    BY <1>3, <2>2 DEF CountsOf, LossCounted
  <2> QED
    BY <2>1, <2>2
<1> QED
  BY <1>7 DEF LossCounted

(* packets_lost is exact for every counter width, first counter, sanity    *)
(* bound and number of packets, and so across any number of wraps, as long *)
(* as packets are taken for new in the order they were sent and no gap is  *)
(* a whole round of the counter (TLSServer.py ulData handler).             *)
THEOREM LossIsExact == Spec => []LossCountExact
<1>1. Init => LossCounted
  <2> SUFFICES ASSUME Init, NEW s \in Sensors PROVE CountsOf(s)
    BY DEF LossCounted
  <2>1. counted[s] = <<>> /\ lastCnt[s] = None /\ lost[s] = 0
    BY DEF Init
  <2>2. Missing(counted[s]) = {}
    BY <2>1 DEF Missing
  <2> QED
    BY <2>1, <2>2, FS_EmptySet DEF CountsOf
<1>2. TypeOK /\ LossCounted /\ [Next]_dedupVars => LossCounted'
  <2> SUFFICES ASSUME TypeOK, LossCounted, [Next]_dedupVars
               PROVE  LossCounted'
    OBVIOUS
  <2>1. ASSUME UNCHANGED <<lost, lastCnt, counted>> PROVE LossCounted'
    BY <2>1 DEF LossCounted, CountsOf
  <2> QED
    BY <2>1, NewCounted
    DEF Next, Uplink, UplinkBetter, UplinkDropped, Publish, Tick, dedupVars
<1>3. LossCounted => LossCountExact
  BY DEF LossCounted, CountsOf, LossCountExact, Missing
<1> QED
  BY <1>1, <1>2, <1>3, TypeCorrectness, PTL DEF Spec
=============================================================================
